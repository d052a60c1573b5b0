---------------------------- MODULE AgentService ----------------------------
(***************************************************************************)
(* AgentService: creating, configuring and deleting an agent.              *)
(***************************************************************************)
EXTENDS TenantService

\* (tenant_id, name) has a unique index.
AgentNameTaken(a) == \E b \in AgentsOf(OwnerOf[a]) : NameOf[b] = NameOf[a]

StartCreation(s, a) ==
    /\ OwnerOf[a] \in tenants
    /\ a \notin issued
    /\ ~AgentNameTaken(a)
    /\ Begins(s, [Idle EXCEPT !.op = "create", !.at = "insert", !.on = a])
    /\ issued' = issued \cup {a}

\* The tenant, known since authentication, may be deleted by now or be past the removal of
\* its agents.
InsertAgent(s) ==
    LET a == call[s].on
        overtaken == \/ OwnerOf[a] \notin tenants
                     \/ \E r \in Running("delete_tenant", {"documents", "tenant"}) :
                           call[r].on = OwnerOf[a] IN
    /\ Doing(s, "create", "insert")
    /\ \E c \in Configs :
          agents' = [agents EXCEPT ![a] = IF AgentNameTaken(a) THEN NoAgent ELSE c]
    /\ leftover' = leftover \cup (IF overtaken THEN {a} ELSE {})
    /\ Ends(s)
    /\ UNCHANGED <<tenants, documents, ready, vectors, queue, job, datasets, experiments,
                   countVars, raced, moved>>

-----------------------------------------------------------------------------
(* update_config. *)

Merged(agent, patch) ==
    [f \in DOMAIN agent |-> IF f \in DOMAIN patch THEN patch[f] ELSE agent[f]]

Changes(agent, patch, field) == field \in DOMAIN patch /\ patch[field] # agent[field]

\* The record read and the provided fields must be valid together.  Whether there are
\* documents matters when a field changes that their vectors depend on.
StartUpdate(s, a, patch) ==
    /\ Readable(a)
    /\ Valid(Merged(agents[a], patch))
    /\ Begins(s, [Idle EXCEPT !.op = "update", !.on = a, !.agent = agents[a], !.patch = patch,
                              !.at = IF \E f \in {"provider", "store"} : Changes(agents[a], patch, f)
                                     THEN "documents" ELSE "write"])
    /\ UNCHANGED issued

FindDocuments(s) ==
    /\ Doing(s, "update", "documents")
    /\ call' = [call EXCEPT ![s].at = "write", ![s].listed = documents[call[s].on]]
    /\ UNCHANGED <<storeVars, countVars, historyVars>>

ChangesProvider(s) == Changes(call[s].agent, call[s].patch, "provider")

\* Counts only the documents that are ready.
FlagsIfReady(s) == ChangesProvider(s) /\ call[s].listed \cap ready # {}

Flags(s) == ChangesProvider(s) /\ call[s].listed # {}

\* What makes the flag wrong: another request changed the provider since it was read, the
\* first document came since there was none, or a reindexing is about to reset it.
DecidedOnStaleRead(s) ==
    LET a == call[s].on IN
    /\ "provider" \in DOMAIN call[s].patch
    /\ \/ call[s].agent.provider # agents[a].provider
       \/ ChangesProvider(s) /\ call[s].listed = {} /\ (documents[a] # {} \/ job.on = a)
       \/ \E r \in Slots : call[r].op = "reindex" /\ call[r].on = a

\* $set of the provided fields, and of embedding_provider_mismatch if need be.
WritePatch(s) ==
    LET a == call[s].on
        new == [Merged(agents[a], call[s].patch) EXCEPT !.mismatch = @ \/ Flags(s)] IN
    /\ Doing(s, "update", "write")
    /\ Ends(s)
    /\ IF Exists(a)
       THEN /\ agents' = [agents EXCEPT ![a] = new]
            /\ raced' = raced \cup {b \in {a} : DecidedOnStaleRead(s)}
            /\ moved' = moved \cup {b \in {a} : new.store # agents[a].store}
       ELSE UNCHANGED <<agents, raced, moved>>
    /\ UNCHANGED <<tenants, documents, ready, vectors, queue, job, datasets, experiments,
                   countVars, leftover>>

-----------------------------------------------------------------------------
(* delete. *)

\* The vector store is the one of the record read here.
StartAgentDeletion(s, a) ==
    /\ Readable(a)
    /\ Begins(s, [Idle EXCEPT !.op = "delete_agent", !.at = "namespace", !.on = a,
                              !.agent = agents[a]])
    /\ UNCHANGED issued

DeleteNamespace(s) ==
    /\ Doing(s, "delete_agent", "namespace")
    /\ vectors' = [vectors EXCEPT ![call[s].on][call[s].agent.store] = {}]
    /\ Goes(s, "documents")
    /\ UNCHANGED <<tenants, agents, documents, ready, queue, job, datasets, experiments,
                   countVars, historyVars>>

DeleteAgentDocuments(s) ==
    LET a == call[s].on IN
    /\ Doing(s, "delete_agent", "documents")
    /\ documents' = [documents EXCEPT ![a] = {}]
    /\ ready' = ready \ documents[a]
    /\ Goes(s, "agent")
    /\ UNCHANGED <<tenants, agents, vectors, queue, job, datasets, experiments,
                   countVars, historyVars>>

\* delete_one reads the record first, which raises if it is not valid.
DeleteAgent(s) ==
    LET a == call[s].on IN
    /\ Doing(s, "delete_agent", "agent")
    /\ agents' = IF Readable(a) THEN [agents EXCEPT ![a] = NoAgent] ELSE agents
    /\ Ends(s)
    /\ UNCHANGED <<tenants, documents, ready, vectors, queue, job, datasets, experiments,
                   countVars, historyVars>>

AgentStep(s) ==
    \/ \E a \in Agents :
          \/ StartCreation(s, a) \/ StartAgentDeletion(s, a)
          \/ \E patch \in Patches : StartUpdate(s, a, patch)
    \/ InsertAgent(s)
    \/ FindDocuments(s) \/ WritePatch(s)
    \/ DeleteNamespace(s) \/ DeleteAgentDocuments(s) \/ DeleteAgent(s)

=============================================================================
