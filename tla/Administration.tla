--------------------------- MODULE Administration ---------------------------
(***************************************************************************)
(* Administrative requests next to ingestion.  Uploads, reindexing and the *)
(* worker are the modules of Ingestion taken together in as few steps as   *)
(* the configuration of the agent allows: what they read of it, and when.  *)
(* The rate limiter in front of them shares no state with them, so a       *)
(* behaviour exercises one or the other.                                   *)
(***************************************************************************)
EXTENDS EvalService, RateLimiter

VARIABLE part

vars == <<adminVars, limiterVars, part>>

Init == part \in {"requests", "limiter"} /\ StoreInit /\ LimiterInit

-----------------------------------------------------------------------------
(* Uploads and reindexing. *)

StartUpload(s, a) ==
    /\ Readable(a)
    /\ Begins(s, [Idle EXCEPT !.op = "upload", !.at = "insert", !.on = a])
    /\ UNCHANGED issued

\* Whoever deletes the agent is past its documents.
DocumentsGone(a) ==
    \/ ~Exists(a) /\ ~\E r \in Running("delete_tenant", {"documents"}) : call[r].on = OwnerOf[a]
    \/ \E r \in Running("delete_agent", {"agent"}) : call[r].on = a

InsertDocument(s, d) ==
    LET a == call[s].on IN
    /\ Doing(s, "upload", "insert")
    /\ d \notin issued
    /\ issued' = issued \cup {d}
    /\ documents' = [documents EXCEPT ![a] = @ \cup {d}]
    /\ queue' = queue \cup {<<a, d>>}
    /\ leftover' = leftover \cup {b \in {a} : DocumentsGone(a)}
    /\ Ends(s)
    /\ UNCHANGED <<tenants, agents, ready, vectors, job, datasets, experiments,
                   arrived, faults, raced, moved>>

StartReindex(s, a) ==
    /\ Readable(a)
    /\ Begins(s, [Idle EXCEPT !.op = "reindex", !.at = "wipe", !.on = a, !.agent = agents[a]])
    /\ UNCHANGED issued

\* A job that has read the configuration already will still write its vectors.
WipeNamespace(s) ==
    LET a == call[s].on IN
    /\ Doing(s, "reindex", "wipe")
    /\ vectors' = [vectors EXCEPT ![a][call[s].agent.store] = {}]
    /\ raced' = raced \cup
          {b \in {a} : Exists(a) /\ job.on = a /\ job.agent.provider # agents[a].provider}
    /\ Goes(s, "requeue")
    /\ UNCHANGED <<tenants, agents, documents, ready, queue, job, datasets, experiments,
                   countVars, moved, leftover>>

Requeue(s) ==
    LET a == call[s].on
        again == documents[a] \cap ready IN
    /\ Doing(s, "reindex", "requeue")
    /\ ready' = ready \ again
    /\ queue' = queue \cup {<<a, d>> : d \in again}
    /\ Goes(s, "reset")
    /\ UNCHANGED <<tenants, agents, documents, vectors, job, datasets, experiments,
                   countVars, historyVars>>

ResetFlag(s) ==
    LET a == call[s].on IN
    /\ Doing(s, "reindex", "reset")
    /\ agents' = IF Exists(a) THEN [agents EXCEPT ![a].mismatch = FALSE] ELSE agents
    /\ Ends(s)
    /\ UNCHANGED <<tenants, documents, ready, vectors, queue, job, datasets, experiments,
                   countVars, historyVars>>

-----------------------------------------------------------------------------
(* The worker. *)

\* It works with the configuration it reads here; without agent or document it fails the
\* job.
TakeJob(m) ==
    LET a == m[1] IN
    /\ job = Idle
    /\ m \in queue
    /\ queue' = queue \ {m}
    /\ job' = IF Readable(a) /\ m[2] \in documents[a]
              THEN [Idle EXCEPT !.op = "ingest", !.at = "upsert", !.on = a,
                                !.agent = agents[a], !.listed = {m[2]}]
              ELSE Idle
    /\ UNCHANGED <<tenants, agents, documents, ready, vectors, datasets, experiments,
                   call, countVars, historyVars>>

\* Whoever deletes the agent is past its namespace.
VectorsGone(a) ==
    \/ /\ ~Exists(a)
       /\ ~\E r \in Running("delete_tenant", {"documents", "tenant", "namespaces"}) :
             \E v \in Stores : <<a, v>> \in call[r].listed
    \/ \E r \in Running("delete_agent", {"documents", "agent"}) : call[r].on = a

Upsert ==
    LET a == job.on IN
    /\ job # Idle
    /\ vectors' = [vectors EXCEPT ![a][job.agent.store] = @ \cup {job.agent.provider}]
    /\ ready' = ready \cup (job.listed \cap documents[a])
    /\ leftover' = leftover \cup
          {b \in {a} : VectorsGone(a) \/ (Exists(a) /\ job.listed \cap documents[a] = {})}
    /\ job' = Idle
    /\ UNCHANGED <<tenants, agents, documents, queue, datasets, experiments,
                   call, countVars, raced, moved>>

\* A job that fails before its upsert changes nothing here.  One that fails later may leave
\* its rows (they are rolled back only if replacing the predecessor failed): that is Upsert,
\* but for the document, which is not ready then.
JobFails ==
    /\ job # Idle
    /\ faults < MaxFaults /\ faults' = faults + 1
    /\ job' = Idle
    /\ UNCHANGED <<tenants, agents, documents, ready, vectors, queue, datasets, experiments,
                   call, issued, arrived, historyVars>>

WorkerStep == Upsert \/ JobFails \/ \E m \in queue : TakeJob(m)

UploadStep(s) ==
    \/ \E a \in Agents : StartUpload(s, a) \/ StartReindex(s, a)
    \/ \E d \in Docs : InsertDocument(s, d)
    \/ WipeNamespace(s) \/ Requeue(s) \/ ResetFlag(s)

-----------------------------------------------------------------------------

Next ==
    \/ /\ part = "requests"
       /\ \/ \E s \in Slots : TenantStep(s) \/ AgentStep(s) \/ EvalStep(s) \/ UploadStep(s) \/ CallRaises(s)
          \/ WorkerStep
       /\ UNCHANGED <<limiterVars, part>>
    \/ part = "limiter" /\ LimiterStep /\ UNCHANGED <<adminVars, part>>

Spec == Init /\ [][Next]_vars

-----------------------------------------------------------------------------

\* An agent outlives its tenant, or documents and vectors outlive their agent, only if they
\* were written behind a deletion, the deletion was cut short, or the agent had left its
\* vectors in another store.
OrphanOnlyIfOvertaken ==
    \A a \in Agents \ leftover :
       LET deleting(stages) ==
             \E r \in Running("delete_tenant", stages) : call[r].on = OwnerOf[a] IN
       /\ Exists(a) => OwnerOf[a] \in tenants
       /\ Exists(a) \/ deleting({"documents"}) \/ documents[a] = {}
       /\ \/ Exists(a) \/ a \in moved \/ deleting({"documents", "tenant", "namespaces"})
          \/ \A v \in Stores : vectors[a][v] = {}

\* Queries compare their embedding with vectors of another provider only behind the
\* mismatch flag, which refuses them, unless the flag was set or reset on a stale read,
\* the agent has been in another vector store meanwhile or its deletion was given up.
MismatchFlagged ==
    \A a \in Agents \ (raced \cup moved \cup leftover) :
       Exists(a) /\ ~agents[a].mismatch =>
          vectors[a][agents[a].store] \subseteq {agents[a].provider}

\* However replacements interleave, an agent has at most as many datasets as replacements
\* run at the same time; an experiment's alert follows from the configuration recorded
\* with it and its delta from an experiment recorded before it, whatever changed meanwhile.
EvaluationsConsistent ==
    \A a \in Agents :
       /\ datasets[a] <= Cardinality(Slots)
       /\ \A i \in DOMAIN experiments[a] : LET e == experiments[a][i] IN
             /\ e.alert = (e.score < e.threshold)
             /\ e.base < i
             /\ e.delta = IF e.base = 0 THEN 0 ELSE e.score - experiments[a][e.base].score

\* What models/agent.py demands of every agent: "chunk_overlap must be <= chunk_size // 2".
StoredConfigValid == \A a \in Agents : Exists(a) => Valid(agents[a])

=============================================================================
