-------------------------- MODULE MCAdministration --------------------------
(* Values of the constants of Administration. *)
EXTENDS Administration, TLC

CONSTANTS r1, r2, t1, t2, a1, a2, d1, d2, p1, p2

MCSlots == {r1, r2}
MCTenants == {t1, t2}
MCAgents == {a1, a2}
MCOwnerOf == [a \in MCAgents |-> t1]
MCNameOf == [a \in MCAgents |-> "docs"]
OneAgent == {a1}
OneDoc == {d1}
MCDocs == {d1, d2}

Config == [chunk_size |-> 512, chunk_overlap |-> 128, provider |-> "openai",
           mismatch |-> FALSE, store |-> "pgvector", threshold |-> 1]
MCConfigs == {Config}
MCPatches == {[provider |-> "cohere"], [provider |-> "openai"], [store |-> "qdrant"], [threshold |-> 2]}
SizePatches == {[chunk_size |-> 256], [chunk_overlap |-> 256]}

MCProcesses == {p1, p2}
Symmetry == Permutations(MCSlots) \cup Permutations(MCDocs)
=============================================================================
