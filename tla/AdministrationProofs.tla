------------------------ MODULE AdministrationProofs ------------------------
(***************************************************************************)
(* The invariants of the administrative requests and of the rate limiter   *)
(* in front of them, for any number of requests, tenants, agents,          *)
(* documents, configurations and failures. First type correctness: what    *)
(* each request carries at each of its calls, and that a step keeps it     *)
(* so; most steps of a request change only its call, so each is described  *)
(* once by what it does to that call. None of the other invariants is      *)
(* inductive as it stands. For evaluations it takes the room each running  *)
(* replacement has; for orphans and flags, agent by agent, who knows the   *)
(* agent, which vector store it is in, what a deletion has removed so far  *)
(* and which provider its vectors come from.                               *)
(***************************************************************************)
EXTENDS Administration, FiniteSetTheorems, SequenceTheorems, TLAPS

-----------------------------------------------------------------------------
(* Types. *)

Ops == {"idle", "register", "delete_tenant", "create", "update", "delete_agent",
        "replace", "evaluate", "upload", "reindex", "ingest"}

Stages == {"end", "insert", "list", "agents", "documents", "tenant", "namespaces", "write",
           "namespace", "agent", "delete", "ask", "baseline", "record", "wipe", "requeue",
           "reset", "upsert"}

Calls == [op : Ops, at : Stages, on : Agents \cup Tenants \cup {"none"},
          agent : AgentConfigs \cup {NoAgent}, patch : Patches \cup {<<>>},
          listed : SUBSET (Docs \cup (Agents \X Stores)), score : Int, base : Nat]

\* Requests about an agent that exists already.
OnAgent == {"update", "delete_agent", "replace", "evaluate", "upload", "reindex"}

\* What a request carries, by its kind.
CallOK(c) ==
    /\ c.op \in {"register", "delete_tenant"} => c.on \in Tenants
    /\ c.op \in OnAgent \cup {"create", "ingest"} => c.on \in Agents
    /\ c.op \in {"update", "delete_agent", "reindex", "ingest"} => c.agent \in AgentConfigs
    /\ c.op = "evaluate" /\ c.at # "agent" => c.agent \in AgentConfigs
    /\ c.op = "update" => c.patch \in Patches
    /\ c.op \in {"update", "ingest"} => c.listed \subseteq Docs
    /\ c.op = "delete_tenant" => c.listed \subseteq Agents \X Stores

\* A record of eval_experiments.
Experiment == [score : Int, threshold : Int, alert : BOOLEAN, base : Nat, delta : Int]

StoreTypeOK ==
    /\ tenants \subseteq Tenants
    /\ agents \in [Agents -> AgentConfigs \cup {NoAgent}]
    /\ documents \in [Agents -> SUBSET Docs]
    /\ ready \subseteq Docs
    /\ vectors \in [Agents -> [Stores -> SUBSET Providers]]
    /\ queue \subseteq Agents \X Docs
    /\ datasets \in [Agents -> Nat]
    /\ experiments \in [Agents -> Seq(Experiment)]
    /\ raced \subseteq Agents /\ moved \subseteq Agents /\ leftover \subseteq Agents
CallTypeOK ==
    /\ call \in [Slots -> Calls]
    /\ \A s \in Slots : CallOK(call[s])
    /\ job = Idle \/ (job \in Calls /\ job.op = "ingest" /\ CallOK(job))
\* The experiment that an evaluation compares with exists.
BaseExists ==
    \A s \in Slots : Doing(s, "evaluate", "record") =>
       call[s].base <= Len(experiments[call[s].on])
TypeOK == StoreTypeOK /\ CallTypeOK /\ BaseExists

-----------------------------------------------------------------------------
(* What a step does to the request that makes it. *)

LEMMA IdleTyped == Idle \in Calls /\ CallOK(Idle)
<1>1. Idle.op = "idle"
  BY DEF Idle
<1>2. Idle \in Calls
  <2>1. <<>> \in Patches \cup {<<>>} /\ NoAgent \in AgentConfigs \cup {NoAgent}
    OBVIOUS
  <2>2. "idle" \in Ops
    BY DEF Ops
  <2>3. "none" \in Agents \cup Tenants \cup {"none"}
    OBVIOUS
  <2>4. "end" \in Stages /\ 0 \in Int /\ 0 \in Nat
    BY DEF Stages
  <2>5. {} \in SUBSET (Docs \cup (Agents \X Stores))
    BY Zenon
  <2> QED BY <2>1, <2>2, <2>3, <2>4, <2>5, Zenon DEF Idle, Calls
<1> QED BY <1>1, <1>2 DEF CallOK, OnAgent

\* Only the call of s changes.
Moves(s) ==
    /\ call' \in [Slots -> Calls]
    /\ \A r \in Slots \ {s} : call'[r] = call[r]

SameSubject(s) == call'[s].op = call[s].op /\ call'[s].on = call[s].on

\* A call that returns leaves its slot idle and no other slot changed.
LEMMA Ending ==
    ASSUME CallTypeOK, NEW s \in Slots, Ends(s)
    PROVE  Moves(s) /\ call'[s] = Idle
BY IdleTyped DEF CallTypeOK, Ends, Moves

\* A call that begins took an idle slot and holds its first step.
LEMMA Beginning ==
    ASSUME CallTypeOK, NEW s \in Slots, NEW first \in Calls, Begins(s, first)
    PROVE  Moves(s) /\ call'[s] = first /\ call[s] = Idle
BY DEF CallTypeOK, Begins, Moves

\* A call that goes on changes its stage and keeps what it has read.
LEMMA Going ==
    ASSUME CallTypeOK, NEW s \in Slots, NEW at \in Stages, Goes(s, at)
    PROVE  /\ Moves(s) /\ SameSubject(s)
           /\ call'[s].at = at
           /\ call'[s].agent = call[s].agent
           /\ call'[s].patch = call[s].patch
           /\ call'[s].listed = call[s].listed
           /\ call[s].op # "evaluate" => CallOK(call'[s])
<1>1. /\ Moves(s) /\ SameSubject(s)
      /\ call'[s].at = at
      /\ call'[s].agent = call[s].agent
      /\ call'[s].patch = call[s].patch
      /\ call'[s].listed = call[s].listed
  BY DEF CallTypeOK, Goes, Moves, Calls, SameSubject
<1>2. CallOK(call[s])
  BY DEF CallTypeOK
<1> QED BY <1>1, <1>2 DEF CallOK, SameSubject

\* A request about on has begun.
LEMMA Opening ==
    ASSUME CallTypeOK, NEW s \in Slots,
           NEW op \in {"register", "delete_tenant", "create", "replace", "evaluate", "upload"},
           NEW at \in Stages, op = "evaluate" => at = "agent",
           NEW on \in IF op \in {"register", "delete_tenant"} THEN Tenants ELSE Agents,
           Begins(s, [Idle EXCEPT !.op = op, !.at = at, !.on = on])
    PROVE  /\ Moves(s) /\ CallOK(call'[s]) /\ call[s] = Idle
           /\ call'[s].op = op /\ call'[s].at = at /\ call'[s].on = on /\ call'[s].listed = {}
<1> DEFINE c == [Idle EXCEPT !.op = op, !.at = at, !.on = on]
<1>1. c \in Calls /\ c.op = op /\ c.at = at /\ c.on = on /\ c.listed = {}
  BY IdleTyped DEF Calls, Idle, Ops
<1>2. Begins(s, c)
  OBVIOUS
<1> HIDE DEF c
<1>3. CallOK(c)
  BY <1>1 DEF CallOK, OnAgent
<1> QED BY <1>1, <1>2, <1>3, Beginning

\* No configuration is the missing agent.
LEMMA ConfigsExist ==
    ASSUME NEW c \in AgentConfigs PROVE c # NoAgent
BY DEF AgentConfigs, NoAgent

\* update_agent's $set: the named fields are replaced, the others are kept.
LEMMA PatchMerges ==
    ASSUME NEW c \in AgentConfigs, NEW p \in Patches
    PROVE  /\ Merged(c, p) \in AgentConfigs
           /\ Merged(c, p).mismatch = c.mismatch
           /\ Merged(c, p).provider = IF "provider" \in DOMAIN p THEN p.provider ELSE c.provider
           /\ Merged(c, p).store = IF "store" \in DOMAIN p THEN p.store ELSE c.store
<1>1. DOMAIN c = {"chunk_size", "chunk_overlap", "provider", "mismatch", "store", "threshold"}
  BY DEF AgentConfigs
<1>2. DOMAIN p \subseteq {"chunk_size", "chunk_overlap", "provider", "store", "threshold"}
  BY ConfigAssumption
<1> DEFINE m == [f \in DOMAIN c |-> IF f \in DOMAIN p THEN p[f] ELSE c[f]]
<1>3. m.mismatch = c.mismatch
  BY <1>1, <1>2
<1>4. m.chunk_size \in Nat /\ m.chunk_overlap \in Nat /\ m.threshold \in Int
  BY <1>1, <1>2, ConfigAssumption DEF AgentConfigs
<1>5. m.provider \in Providers
  BY <1>1, <1>2 DEF AgentConfigs, Providers
<1>6. m.store \in Stores
  BY <1>1, <1>2 DEF AgentConfigs, Stores
<1>7. m.mismatch \in BOOLEAN
  BY <1>3 DEF AgentConfigs
<1>8. m = [chunk_size |-> m.chunk_size, chunk_overlap |-> m.chunk_overlap, provider |-> m.provider,
            mismatch |-> m.mismatch, store |-> m.store, threshold |-> m.threshold]
  BY <1>1
<1>9. m \in AgentConfigs
  BY <1>4, <1>5, <1>6, <1>7, <1>8 DEF AgentConfigs
<1> QED BY <1>1, <1>2, <1>3, <1>9 DEF Merged

\* A call and what the step leaves of the others make the calls typed again.
LEMMA CallsStayTyped ==
    ASSUME CallTypeOK, NEW s \in Slots, Moves(s), CallOK(call'[s]), job' = job
    PROVE  CallTypeOK'
BY DEF CallTypeOK, Moves

\* The mismatch flag can be set and reset, and nothing else changes.
LEMMA FlagChanges ==
    ASSUME NEW c \in AgentConfigs
    PROVE  /\ LET d == [c EXCEPT !.mismatch = FALSE] IN
              /\ d \in AgentConfigs /\ ~d.mismatch
              /\ d.provider = c.provider /\ d.store = c.store
           /\ \A flags \in BOOLEAN : LET d == [c EXCEPT !.mismatch = c.mismatch \/ flags] IN
              /\ d \in AgentConfigs /\ (d.mismatch <=> c.mismatch \/ flags)
              /\ d.provider = c.provider /\ d.store = c.store
<1>1. LET d == [c EXCEPT !.mismatch = FALSE] IN
         /\ d \in AgentConfigs /\ ~d.mismatch
         /\ d.provider = c.provider /\ d.store = c.store
  BY DEF AgentConfigs
<1>2. \A b \in BOOLEAN : LET d == [c EXCEPT !.mismatch = b] IN
         /\ d \in AgentConfigs /\ d.mismatch = b
         /\ d.provider = c.provider /\ d.store = c.store
  BY DEF AgentConfigs
<1>3. \A flags \in BOOLEAN : (c.mismatch \/ flags) \in BOOLEAN
  OBVIOUS
<1> QED BY <1>1, <1>2, <1>3

\* A deletion and a reindexing keep the configuration they started with.
LEMMA StartsOnAgentEffect ==
    ASSUME TypeOK, NEW s \in Slots, NEW a \in Agents, StartAgentDeletion(s, a) \/ StartReindex(s, a)
    PROVE  /\ Moves(s) /\ CallOK(call'[s])
           /\ call[s] = Idle /\ Exists(a) /\ agents[a] \in AgentConfigs
           /\ call'[s].on = a /\ call'[s].agent = agents[a]
           /\ \/ call'[s].op = "delete_agent" /\ call'[s].at = "namespace"
              \/ call'[s].op = "reindex" /\ call'[s].at = "wipe"
<1>1. Exists(a) /\ agents[a] \in AgentConfigs
  BY DEF StartAgentDeletion, StartReindex, Readable, Exists, TypeOK, StoreTypeOK
<1>2. CASE StartAgentDeletion(s, a)
  <2> DEFINE c == [Idle EXCEPT !.op = "delete_agent", !.at = "namespace", !.on = a,
                               !.agent = agents[a]]
  <2>1. Begins(s, c)
    BY <1>2 DEF StartAgentDeletion
  <2>2. c \in Calls /\ c.op = "delete_agent" /\ c.at = "namespace" /\ c.on = a /\ c.agent = agents[a]
    BY <1>1, IdleTyped DEF Calls, Idle, Ops, Stages
  <2> HIDE DEF c
  <2>3. CallOK(c)
    BY <1>1, <2>2 DEF CallOK, OnAgent
  <2> QED BY <1>1, <2>1, <2>2, <2>3, Beginning DEF TypeOK
<1>3. CASE StartReindex(s, a)
  <2> DEFINE c == [Idle EXCEPT !.op = "reindex", !.at = "wipe", !.on = a,
                               !.agent = agents[a]]
  <2>1. Begins(s, c)
    BY <1>3 DEF StartReindex
  <2>2. c \in Calls /\ c.op = "reindex" /\ c.at = "wipe" /\ c.on = a /\ c.agent = agents[a]
    BY <1>1, IdleTyped DEF Calls, Idle, Ops, Stages
  <2> HIDE DEF c
  <2>3. CallOK(c)
    BY <1>1, <2>2 DEF CallOK, OnAgent
  <2> QED BY <1>1, <2>1, <2>2, <2>3, Beginning DEF TypeOK
<1> QED BY <1>2, <1>3

\* update_agent begins with the agent read, and skips the documents unless the provider changes.
LEMMA StartUpdateEffect ==
    ASSUME TypeOK, NEW s \in Slots, NEW a \in Agents, NEW patch \in Patches, StartUpdate(s, a, patch)
    PROVE  /\ Moves(s) /\ CallOK(call'[s])
           /\ call[s] = Idle /\ Exists(a)
           /\ call'[s].op = "update" /\ call'[s].on = a
           /\ call'[s].agent = agents[a] /\ call'[s].patch = patch
           /\ call'[s].at \in {"documents", "write"}
           /\ call'[s].at = "write" => ~Changes(agents[a], patch, "provider")
<1>1. agents[a] \in AgentConfigs /\ Exists(a)
  BY DEF StartUpdate, Readable, Exists, TypeOK, StoreTypeOK
<1> DEFINE at == IF \E f \in {"provider", "store"} : Changes(agents[a], patch, f)
                 THEN "documents" ELSE "write"
           c == [Idle EXCEPT !.op = "update", !.on = a, !.agent = agents[a], !.patch = patch, !.at = at]
<1>2. at \in {"documents", "write"} /\ (at = "write" => ~Changes(agents[a], patch, "provider"))
  OBVIOUS
<1>3. Begins(s, c)
  BY DEF StartUpdate
<1> HIDE DEF at
<1>4. at \in Stages
  BY <1>2 DEF Stages
<1>5. /\ c \in Calls
      /\ c.op = "update" /\ c.on = a /\ c.agent = agents[a] /\ c.patch = patch /\ c.at = at
      /\ c.listed = {}
  BY <1>1, <1>4, IdleTyped DEF Calls, Idle, Ops
<1> HIDE DEF c
<1>6. CallOK(c)
  BY <1>1, <1>5 DEF CallOK, OnAgent
<1> QED BY <1>1, <1>2, <1>3, <1>5, <1>6, Beginning DEF TypeOK

\* update_agent lists the agent's documents and goes on to the write.
LEMMA FindDocumentsEffect ==
    ASSUME TypeOK, NEW s \in Slots, FindDocuments(s)
    PROVE  /\ Moves(s) /\ CallOK(call'[s])
           /\ SameSubject(s)
           /\ call'[s].at = "write"
           /\ call'[s].agent = call[s].agent /\ call'[s].patch = call[s].patch
           /\ call'[s].listed = documents[call[s].on]
<1> DEFINE c == [call[s] EXCEPT !.at = "write"]
           d == [c EXCEPT !.listed = documents[call[s].on]]
<1>1. call[s] \in Calls /\ CallOK(call[s]) /\ call[s].op = "update"
  BY DEF TypeOK, CallTypeOK, FindDocuments, Doing
<1>2. documents[call[s].on] \in SUBSET Docs
  BY <1>1 DEF TypeOK, StoreTypeOK, CallOK, OnAgent
<1>3. /\ c \in Calls /\ c.at = "write" /\ c.op = call[s].op /\ c.on = call[s].on
      /\ c.agent = call[s].agent /\ c.patch = call[s].patch
  BY <1>1 DEF Calls, Stages
<1>4. call' = [call EXCEPT ![s] = d]
  BY DEF FindDocuments
<1> HIDE DEF c
<1>5. /\ d \in Calls /\ d.at = "write" /\ d.op = call[s].op /\ d.on = call[s].on
      /\ d.agent = call[s].agent /\ d.patch = call[s].patch /\ d.listed = documents[call[s].on]
  BY <1>2, <1>3 DEF Calls
<1> HIDE DEF d
<1>6. CallOK(d)
  BY <1>1, <1>2, <1>5 DEF CallOK, OnAgent
<1> QED BY <1>4, <1>5, <1>6 DEF Moves, SameSubject, TypeOK, CallTypeOK

\* delete_tenant lists the agents of the tenant with their stores, or ends.
LEMMA ListAgentsEffect ==
    ASSUME TypeOK, NEW s \in Slots, ListAgents(s)
    PROVE  /\ Moves(s) /\ CallOK(call'[s])
           /\ \/ call'[s] = Idle
              \/ /\ SameSubject(s) /\ call'[s].at = "agents"
                 /\ call'[s].listed = {<<a, agents[a].store>> : a \in AgentsOf(call[s].on)}
<1> DEFINE mine == AgentsOf(call[s].on)
           pairs == {<<a, agents[a].store>> : a \in mine}
           c == [call[s] EXCEPT !.at = "agents"]
           d == [c EXCEPT !.listed = pairs]
<1>1. call[s] \in Calls /\ CallOK(call[s]) /\ call[s].op = "delete_tenant"
  BY DEF TypeOK, CallTypeOK, ListAgents, Doing
<1>2. pairs \subseteq Agents \X Stores
  <2>1. \A a \in mine : a \in Agents /\ agents[a] \in AgentConfigs
    BY DEF AgentsOf, Exists, TypeOK, StoreTypeOK
  <2> QED BY <2>1 DEF AgentConfigs
<1>3. CASE Ends(s)
  BY <1>3, Ending, IdleTyped DEF TypeOK
<1>4. CASE ~Ends(s)
  <2>1. call' = [call EXCEPT ![s] = d]
    BY <1>4 DEF ListAgents
  <2>2. c \in Calls /\ c.at = "agents" /\ c.op = call[s].op /\ c.on = call[s].on
    BY <1>1 DEF Calls, Stages
  <2> HIDE DEF c
  <2>3. pairs \in SUBSET (Docs \cup (Agents \X Stores))
    BY <1>2
  <2> HIDE DEF pairs
  <2>4. d \in Calls /\ d.at = "agents" /\ d.op = call[s].op /\ d.on = call[s].on /\ d.listed = pairs
    BY <2>2, <2>3 DEF Calls
  <2> HIDE DEF d
  <2>5. CallOK(d)
    BY <1>1, <1>2, <2>4 DEF CallOK, OnAgent
  <2>6. call'[s] = d /\ Moves(s)
    BY <2>1, <2>4 DEF Moves, TypeOK, CallTypeOK
  <2> QED BY <2>4, <2>5, <2>6 DEF SameSubject, pairs
<1> QED BY <1>3, <1>4

\* run_eval found its agent and dataset and goes on to ask, or ends.
LEMMA ReadEvaluatedEffect ==
    ASSUME TypeOK, NEW s \in Slots, ReadEvaluated(s)
    PROVE  /\ Moves(s) /\ CallOK(call'[s])
           /\ call'[s] = Idle \/ (SameSubject(s) /\ call'[s].at = "ask")
<1> DEFINE agent == agents[call[s].on]
           c == [call[s] EXCEPT !.at = "ask"]
           d == [c EXCEPT !.agent = agent]
<1>1. call[s] \in Calls /\ CallOK(call[s]) /\ call[s].op = "evaluate"
  BY DEF TypeOK, CallTypeOK, ReadEvaluated, Doing
<1>2. CASE Ends(s)
  BY <1>2, Ending, IdleTyped DEF TypeOK
<1>3. CASE ~Ends(s)
  <2>1. call' = [call EXCEPT ![s] = d] /\ Exists(call[s].on)
    BY <1>3 DEF ReadEvaluated, Readable
  <2>2. agent \in AgentConfigs
    BY <1>1, <2>1 DEF TypeOK, StoreTypeOK, CallOK, OnAgent, Exists
  <2>3. c \in Calls /\ c.at = "ask" /\ c.op = call[s].op /\ c.on = call[s].on
    BY <1>1 DEF Calls, Stages
  <2> HIDE DEF c, agent
  <2>4. d \in Calls /\ d.at = "ask" /\ d.op = call[s].op /\ d.on = call[s].on /\ d.agent = agent
    BY <2>2, <2>3 DEF Calls
  <2> HIDE DEF d
  <2>5. CallOK(d)
    BY <1>1, <2>2, <2>4 DEF CallOK, OnAgent
  <2> QED BY <2>1, <2>4, <2>5 DEF Moves, SameSubject, TypeOK, CallTypeOK
<1> QED BY <1>2, <1>3

\* run_eval asks its questions and goes on to the baseline, or ends.
LEMMA AskQuestionsEffect ==
    ASSUME TypeOK, NEW s \in Slots, AskQuestions(s)
    PROVE  /\ Moves(s) /\ CallOK(call'[s])
           /\ call'[s] = Idle \/ (SameSubject(s) /\ call'[s].at = "baseline")
<1>1. call[s] \in Calls /\ CallOK(call[s]) /\ call[s].op = "evaluate" /\ call[s].at = "ask"
  BY DEF TypeOK, CallTypeOK, AskQuestions, Doing
<1>2. CASE Ends(s)
  BY <1>2, Ending, IdleTyped DEF TypeOK
<1>3. ASSUME NEW score \in Scores, call' = [call EXCEPT ![s].at = "baseline", ![s].score = score]
      PROVE  Moves(s) /\ CallOK(call'[s]) /\ SameSubject(s) /\ call'[s].at = "baseline"
  <2> DEFINE c == [call[s] EXCEPT !.at = "baseline"]
             d == [c EXCEPT !.score = score]
  <2>1. call' = [call EXCEPT ![s] = d] /\ score \in Int
    BY <1>3, RequestAssumption
  <2>2. /\ c \in Calls /\ c.at = "baseline" /\ c.op = call[s].op /\ c.on = call[s].on
        /\ c.agent = call[s].agent
    BY <1>1 DEF Calls, Stages
  <2> HIDE DEF c
  <2>3. /\ d \in Calls /\ d.at = "baseline" /\ d.op = call[s].op /\ d.on = call[s].on
        /\ d.agent = call[s].agent
    BY <2>1, <2>2 DEF Calls
  <2> HIDE DEF d
  <2>4. CallOK(d)
    BY <1>1, <2>3 DEF CallOK, OnAgent
  <2> QED BY <2>1, <2>3, <2>4 DEF Moves, SameSubject, TypeOK, CallTypeOK
<1> QED BY <1>2, <1>3 DEF AskQuestions

\* run_eval reads how many experiments the agent has, and has them to compare with.
LEMMA ReadBaselineEffect ==
    ASSUME TypeOK, NEW s \in Slots, ReadBaseline(s)
    PROVE  /\ Moves(s) /\ CallOK(call'[s])
           /\ SameSubject(s) /\ call'[s].at = "record"
           /\ call'[s].base = Len(experiments[call[s].on])
<1> DEFINE n == Len(experiments[call[s].on])
           c == [call[s] EXCEPT !.at = "record"]
           d == [c EXCEPT !.base = n]
<1>1. /\ call[s] \in Calls /\ CallOK(call[s])
      /\ call[s].op = "evaluate" /\ call[s].at = "baseline" /\ call[s].on \in Agents
  BY DEF TypeOK, CallTypeOK, ReadBaseline, Doing, CallOK, OnAgent
<1>2. n \in Nat
  BY <1>1, LenProperties DEF TypeOK, StoreTypeOK
<1>3. /\ c \in Calls /\ c.at = "record" /\ c.op = call[s].op /\ c.on = call[s].on
      /\ c.agent = call[s].agent
  BY <1>1 DEF Calls, Stages
<1>4. call' = [call EXCEPT ![s] = d]
  BY DEF ReadBaseline
<1> HIDE DEF c, n
<1>5. /\ d \in Calls /\ d.at = "record" /\ d.op = call[s].op /\ d.on = call[s].on
      /\ d.agent = call[s].agent /\ d.base = n
  BY <1>2, <1>3 DEF Calls
<1> HIDE DEF d
<1>6. CallOK(d)
  BY <1>1, <1>5 DEF CallOK, OnAgent
<1> QED BY <1>4, <1>5, <1>6 DEF Moves, SameSubject, TypeOK, CallTypeOK, n

\* The experiment recorded last.
LEMMA RecordExperimentEffect ==
    ASSUME TypeOK, NEW s \in Slots, RecordExperiment(s)
    PROVE  /\ Moves(s) /\ call'[s] = Idle
           /\ experiments' \in [Agents -> Seq(Experiment)]
           /\ \A b \in Agents : Len(experiments'[b]) >= Len(experiments[b])
           /\ \A b \in Agents : \A i \in 1..Len(experiments'[b]) :
                 \/ i \in 1..Len(experiments[b]) /\ experiments'[b][i] = experiments[b][i]
                 \/ /\ b = call[s].on /\ i = Len(experiments[b]) + 1
                    /\ LET e == experiments'[b][i] IN
                       /\ e.alert = (e.score < e.threshold)
                       /\ e.base \in Nat /\ e.base <= Len(experiments[b])
                       /\ e.delta = Delta(b, e.base, e.score)
<1> DEFINE a == call[s].on
           old == experiments[a]
           base == call[s].base
           score == call[s].score
           threshold == call[s].agent.threshold
           delta == Delta(a, base, score)
<1>1. /\ call[s] \in Calls /\ CallOK(call[s])
      /\ call[s].op = "evaluate" /\ call[s].at = "record" /\ a \in Agents
      /\ call[s].agent \in AgentConfigs
  BY DEF TypeOK, CallTypeOK, RecordExperiment, Doing, CallOK, OnAgent
<1>2. /\ old \in Seq(Experiment) /\ Len(old) \in Nat
      /\ base \in Nat /\ score \in Int /\ threshold \in Int /\ base <= Len(old)
  <2>1. old \in Seq(Experiment) /\ Len(old) \in Nat
    BY <1>1, LenProperties DEF TypeOK, StoreTypeOK
  <2>2. base \in Nat /\ score \in Int
    BY <1>1 DEF Calls
  <2>3. threshold \in Int
    BY <1>1 DEF AgentConfigs
  <2>4. base <= Len(old)
    BY <1>1 DEF TypeOK, BaseExists, Doing
  <2> QED BY <2>1, <2>2, <2>3, <2>4
<1>3. delta \in Int
  <2>1. ASSUME base # 0 PROVE old[base].score \in Int
    <3>1. old[base] \in Experiment
      BY <1>2, <2>1, ElementOfSeq
    <3> QED BY <3>1 DEF Experiment
  <2>2. delta = IF base = 0 THEN 0 ELSE score - old[base].score
    BY DEF Delta
  <2> HIDE DEF delta, old, base, score
  <2> QED BY <1>2, <2>1, <2>2
<1> HIDE DEF delta
<1>4. PICK alert \in BOOLEAN : alert = (score < threshold)
  <2> DEFINE below == score < threshold
  <2>1. below \in BOOLEAN
    OBVIOUS
  <2> HIDE DEF below
  <2>2. \E alert \in BOOLEAN : alert = below
    BY <2>1
  <2> QED BY <2>2 DEF below
<1> DEFINE e == [score |-> score, threshold |-> threshold, alert |-> alert, base |-> base, delta |-> delta]
<1>5. experiments' = [experiments EXCEPT ![a] = Append(old, e)]
  BY <1>4 DEF RecordExperiment, Snapshot, delta
<1>6. e \in Experiment /\ e.alert = (e.score < e.threshold) /\ e.base = base
      /\ e.delta = delta /\ e.score = score
  BY <1>2, <1>3, <1>4 DEF Experiment
<1> HIDE DEF e, base, score, threshold
<1>7. /\ Append(old, e) \in Seq(Experiment)
      /\ Len(Append(old, e)) = Len(old) + 1
      /\ \A i \in 1..Len(old) : Append(old, e)[i] = old[i]
      /\ Append(old, e)[Len(old) + 1] = e
  BY <1>2, <1>6, AppendProperties
<1> HIDE DEF old
<1>8. /\ experiments'[a] = Append(old, e)
      /\ \A b \in Agents \ {a} : experiments'[b] = experiments[b]
      /\ experiments' \in [Agents -> Seq(Experiment)]
  BY <1>1, <1>5, <1>7 DEF TypeOK, StoreTypeOK
<1>9. \A b \in Agents : Len(experiments[b]) \in Nat
  BY LenProperties DEF TypeOK, StoreTypeOK
<1>10. ASSUME NEW b \in Agents, NEW i \in 1..Len(experiments'[b]), b # a
      PROVE  i \in 1..Len(experiments[b]) /\ experiments'[b][i] = experiments[b][i]
  BY <1>8, <1>10
<1>11. ASSUME NEW i \in 1..Len(experiments'[a]), i \notin 1..Len(old)
       PROVE  i = Len(old) + 1 /\ experiments'[a][i] = e
  BY <1>2, <1>7, <1>8, <1>11
<1>12. ASSUME NEW i \in 1..Len(old) PROVE experiments'[a][i] = old[i]
  BY <1>7, <1>8, <1>12
<1>13. Moves(s) /\ call'[s] = Idle
  BY Ending DEF RecordExperiment, TypeOK
<1>14. \A b \in Agents : Len(experiments'[b]) >= Len(experiments[b])
  BY <1>2, <1>7, <1>8, <1>9 DEF old
<1>15. e.base \in Nat /\ e.base <= Len(old) /\ e.delta = Delta(a, e.base, e.score)
  BY <1>2, <1>6 DEF delta
<1> QED BY <1>6, <1>8, <1>10, <1>11, <1>12, <1>13, <1>14, <1>15 DEF old

-----------------------------------------------------------------------------

(* Types are kept, request by request. *)

\* Types are kept if the stores keep theirs and the call that changes is well formed.
LEMMA StepTyped ==
    ASSUME TypeOK, NEW s \in Slots, Moves(s), CallOK(call'[s]), job' = job,
           experiments' = experiments,
           call'[s].op # "evaluate" \/ call'[s].at # "record", StoreTypeOK'
    PROVE  TypeOK'
<1>1. CallTypeOK'
  BY CallsStayTyped DEF TypeOK
<1>2. BaseExists'
  BY DEF TypeOK, BaseExists, Moves, Doing
<1> QED BY <1>1, <1>2 DEF TypeOK

\* A step that touches no collection keeps the collections' types.
LEMMA StoresUnchanged ==
    ASSUME StoreTypeOK, UNCHANGED storeVars, UNCHANGED historyVars PROVE StoreTypeOK'
BY DEF StoreTypeOK, storeVars, historyVars

\* A request that only begins or only looks.
LEMMA LooksTyped ==
    ASSUME TypeOK, NEW s \in Slots, UNCHANGED storeVars, UNCHANGED historyVars,
           Moves(s), CallOK(call'[s]), call'[s].op # "evaluate" \/ call'[s].at # "record"
    PROVE  TypeOK'
<1>1. job' = job /\ experiments' = experiments
  BY DEF storeVars
<1> QED BY <1>1, StoresUnchanged, StepTyped DEF TypeOK

\* A step of s that is not about an evaluation or its dataset.
Calm(s) == TypeOK' /\ Moves(s) /\ call'[s].op \notin {"evaluate", "replace"}

\* A tenant's request keeps the types and moves one slot that neither evaluates nor replaces.
LEMMA TenantStepTyped ==
    ASSUME TypeOK, NEW s \in Slots, TenantStep(s) PROVE Calm(s)
<1>0. StoreTypeOK /\ CallTypeOK /\ CallOK(call[s]) /\ CallOK(Idle) /\ Idle.op = "idle"
  BY IdleTyped DEF TypeOK, CallTypeOK, Idle
<1>1. ASSUME NEW t \in Tenants, StartRegistration(s, t) PROVE Calm(s)
  <2>1. Begins(s, [Idle EXCEPT !.op = "register", !.at = "insert", !.on = t])
    BY <1>1 DEF StartRegistration
  <2>2. Moves(s) /\ CallOK(call'[s]) /\ call'[s].op = "register"
    BY <1>0, <2>1, Opening DEF Stages
  <2> QED BY <2>1, <2>2, LooksTyped DEF Calm, Begins
<1>2. ASSUME NEW t \in Tenants, StartDeletion(s, t) PROVE Calm(s)
  <2>1. Begins(s, [Idle EXCEPT !.op = "delete_tenant", !.at = "list", !.on = t])
    BY <1>2 DEF StartDeletion
  <2>2. Moves(s) /\ CallOK(call'[s]) /\ call'[s].op = "delete_tenant"
    BY <1>0, <2>1, Opening DEF Stages
  <2> QED BY <2>1, <2>2, LooksTyped DEF Calm, Begins
<1>3. CASE InsertTenant(s)
  <2>1. call[s].on \in Tenants
    BY <1>0, <1>3 DEF InsertTenant, Doing, CallOK
  <2>2. StoreTypeOK'
    BY <1>0, <1>3, <2>1 DEF InsertTenant, StoreTypeOK, historyVars
  <2> QED BY <1>0, <1>3, <2>2, Ending, StepTyped DEF Calm, InsertTenant
<1>4. CASE ListAgents(s)
  <2>1. Moves(s) /\ CallOK(call'[s]) /\ call'[s].op \notin {"evaluate", "replace"}
    BY <1>0, <1>4, ListAgentsEffect DEF ListAgents, Doing, SameSubject
  <2> QED BY <1>4, <2>1, LooksTyped DEF Calm, ListAgents
<1>5. CASE DeleteAgents(s)
  <2>1. Moves(s) /\ CallOK(call'[s]) /\ call'[s].op \notin {"evaluate", "replace"}
    BY <1>0, <1>5, Going DEF DeleteAgents, Doing, SameSubject, Stages
  <2>2. Doomed(s) \subseteq Agents
    BY DEF Doomed, AgentsOf
  <2>3. StoreTypeOK'
    BY <1>0, <1>5, <2>2 DEF DeleteAgents, StoreTypeOK
  <2> QED BY <1>5, <2>1, <2>3, StepTyped DEF Calm, DeleteAgents
<1>6. CASE DeleteDocuments(s)
  <2>1. Moves(s) /\ CallOK(call'[s]) /\ call'[s].op \notin {"evaluate", "replace"}
    BY <1>0, <1>6, Going DEF DeleteDocuments, Doing, SameSubject, Stages
  <2>3. StoreTypeOK'
    BY <1>0, <1>6 DEF DeleteDocuments, StoreTypeOK, historyVars
  <2> QED BY <1>6, <2>1, <2>3, StepTyped DEF Calm, DeleteDocuments
<1>7. CASE DeleteTenant(s)
  <2>1. Moves(s) /\ CallOK(call'[s]) /\ call'[s].op \notin {"evaluate", "replace"}
    BY <1>0, <1>7, Going DEF DeleteTenant, Doing, SameSubject, Stages
  <2>3. StoreTypeOK'
    BY <1>0, <1>7 DEF DeleteTenant, StoreTypeOK, historyVars
  <2> QED BY <1>7, <2>1, <2>3, StepTyped DEF Calm, DeleteTenant
<1>8. CASE DeleteNamespaces(s)
  <2>1. Moves(s) /\ CallOK(call'[s]) /\ call'[s].op \notin {"evaluate", "replace"}
    BY <1>0, <1>8, Ending DEF DeleteNamespaces
  <2>2. call[s].listed \subseteq Agents \X Stores
    BY <1>0, <1>8 DEF DeleteNamespaces, Doing, CallOK
  <2>3. StoreTypeOK'
    BY <1>0, <1>8, <2>2 DEF DeleteNamespaces, StoreTypeOK
  <2> QED BY <1>8, <2>1, <2>3, StepTyped DEF Calm, DeleteNamespaces
<1> QED BY <1>1, <1>2, <1>3, <1>4, <1>5, <1>6, <1>7, <1>8 DEF TenantStep

\* An agent's request keeps the types and moves one slot that neither evaluates nor replaces.
LEMMA AgentStepTyped ==
    ASSUME TypeOK, NEW s \in Slots, AgentStep(s) PROVE Calm(s)
<1>0. StoreTypeOK /\ CallTypeOK /\ CallOK(call[s]) /\ CallOK(Idle) /\ Idle.op = "idle"
  BY IdleTyped DEF TypeOK, CallTypeOK, Idle
<1>1. ASSUME NEW a \in Agents, StartCreation(s, a) PROVE Calm(s)
  <2>1. Begins(s, [Idle EXCEPT !.op = "create", !.at = "insert", !.on = a])
    BY <1>1 DEF StartCreation
  <2>2. Moves(s) /\ CallOK(call'[s]) /\ call'[s].op = "create"
    BY <1>0, <2>1, Opening DEF Stages
  <2> QED BY <2>1, <2>2, LooksTyped DEF Calm, Begins
<1>2. ASSUME NEW a \in Agents, StartAgentDeletion(s, a) PROVE Calm(s)
  <2>1. Moves(s) /\ CallOK(call'[s]) /\ call'[s].op \in {"delete_agent", "reindex"}
    BY <1>2, StartsOnAgentEffect
  <2> QED BY <1>2, <2>1, LooksTyped DEF Calm, StartAgentDeletion, Begins
<1>3. ASSUME NEW a \in Agents, NEW patch \in Patches, StartUpdate(s, a, patch) PROVE Calm(s)
  <2>1. Moves(s) /\ CallOK(call'[s]) /\ call'[s].op = "update"
    BY <1>3, StartUpdateEffect
  <2> QED BY <1>3, <2>1, LooksTyped DEF Calm, StartUpdate, Begins
<1>4. CASE InsertAgent(s)
  <2>1. Moves(s) /\ CallOK(call'[s]) /\ call'[s].op \notin {"evaluate", "replace"}
    BY <1>0, <1>4, Ending DEF InsertAgent
  <2>2. call[s].on \in Agents
    BY <1>0, <1>4 DEF InsertAgent, Doing, CallOK
  <2>3. agents' \in [Agents -> AgentConfigs \cup {NoAgent}]
    BY <1>0, <1>4, ConfigAssumption DEF InsertAgent, StoreTypeOK
  <2>4. StoreTypeOK'
    BY <1>0, <1>4, <2>2, <2>3 DEF InsertAgent, StoreTypeOK
  <2> QED BY <1>4, <2>1, <2>4, StepTyped DEF Calm, InsertAgent
<1>5. CASE FindDocuments(s)
  <2>1. Moves(s) /\ CallOK(call'[s]) /\ call'[s].op \notin {"evaluate", "replace"}
    BY <1>5, FindDocumentsEffect DEF FindDocuments, SameSubject, Doing
  <2> QED BY <1>5, <2>1, LooksTyped DEF Calm, FindDocuments
<1>6. CASE WritePatch(s)
  <2> DEFINE a == call[s].on
             m == Merged(agents[a], call[s].patch)
  <2>1. Moves(s) /\ CallOK(call'[s]) /\ call'[s].op \notin {"evaluate", "replace"}
    BY <1>0, <1>6, Ending DEF WritePatch
  <2>2. a \in Agents /\ call[s].patch \in Patches
    BY <1>0, <1>6 DEF WritePatch, Doing, CallOK, OnAgent
  <2>3. agents' \in [Agents -> AgentConfigs \cup {NoAgent}]
    <3>1. CASE Exists(a)
      <4>1. agents[a] \in AgentConfigs
        BY <1>0, <2>2, <3>1 DEF Exists, StoreTypeOK
      <4>2. m \in AgentConfigs
        BY <2>2, <4>1, PatchMerges
      <4> HIDE DEF m
      <4>3. [m EXCEPT !.mismatch = @ \/ Flags(s)] \in AgentConfigs
        <5>1. Flags(s) \in BOOLEAN
          BY DEF Flags, ChangesProvider, Changes
        <5> QED BY <4>2, <5>1, FlagChanges
      <4>4. agents' = [agents EXCEPT ![a] = [m EXCEPT !.mismatch = @ \/ Flags(s)]]
        BY <1>6, <3>1 DEF WritePatch, m
      <4> QED BY <1>0, <4>3, <4>4 DEF StoreTypeOK
    <3> QED BY <1>0, <1>6, <3>1 DEF WritePatch, StoreTypeOK
  <2>4. raced' \subseteq Agents /\ moved' \subseteq Agents
    BY <1>0, <1>6, <2>2 DEF WritePatch, StoreTypeOK
  <2>5. StoreTypeOK'
    BY <1>0, <1>6, <2>3, <2>4 DEF WritePatch, StoreTypeOK
  <2> QED BY <1>6, <2>1, <2>5, StepTyped DEF Calm, WritePatch
<1>7. CASE DeleteNamespace(s)
  <2>1. Moves(s) /\ CallOK(call'[s]) /\ call'[s].op \notin {"evaluate", "replace"}
    BY <1>0, <1>7, Going DEF DeleteNamespace, Doing, SameSubject, Stages
  <2>2. StoreTypeOK'
    BY <1>0, <1>7 DEF DeleteNamespace, StoreTypeOK, historyVars
  <2> QED BY <1>7, <2>1, <2>2, StepTyped DEF Calm, DeleteNamespace
<1>8. CASE DeleteAgentDocuments(s)
  <2>1. Moves(s) /\ CallOK(call'[s]) /\ call'[s].op \notin {"evaluate", "replace"}
    BY <1>0, <1>8, Going DEF DeleteAgentDocuments, Doing, SameSubject, Stages
  <2>2. StoreTypeOK'
    BY <1>0, <1>8 DEF DeleteAgentDocuments, StoreTypeOK, historyVars
  <2> QED BY <1>8, <2>1, <2>2, StepTyped DEF Calm, DeleteAgentDocuments
<1>9. CASE DeleteAgent(s)
  <2>1. Moves(s) /\ CallOK(call'[s]) /\ call'[s].op \notin {"evaluate", "replace"}
    BY <1>0, <1>9, Ending DEF DeleteAgent
  <2>2. StoreTypeOK'
    BY <1>0, <1>9 DEF DeleteAgent, StoreTypeOK, historyVars
  <2> QED BY <1>9, <2>1, <2>2, StepTyped DEF Calm, DeleteAgent
<1> QED BY <1>1, <1>2, <1>3, <1>4, <1>5, <1>6, <1>7, <1>8, <1>9 DEF AgentStep

\* A step of an evaluation or of a dataset's replacement keeps the types.
LEMMA EvalStepTyped ==
    ASSUME TypeOK, NEW s \in Slots, EvalStep(s) PROVE TypeOK'
<1>0. StoreTypeOK /\ CallTypeOK /\ CallOK(call[s]) /\ CallOK(Idle) /\ Idle.op = "idle"
  BY IdleTyped DEF TypeOK, CallTypeOK, Idle
<1>1. ASSUME NEW a \in Agents, StartReplacement(s, a) PROVE TypeOK'
  <2>1. Begins(s, [Idle EXCEPT !.op = "replace", !.at = "delete", !.on = a])
    BY <1>1 DEF StartReplacement
  <2>2. Moves(s) /\ CallOK(call'[s]) /\ call'[s].op = "replace"
    BY <1>0, <2>1, Opening DEF Stages
  <2> QED BY <2>1, <2>2, LooksTyped DEF Begins
<1>2. ASSUME NEW a \in Agents, StartEvaluation(s, a) PROVE TypeOK'
  <2>1. Begins(s, [Idle EXCEPT !.op = "evaluate", !.at = "agent", !.on = a])
    BY <1>2 DEF StartEvaluation
  <2>2. Moves(s) /\ CallOK(call'[s]) /\ call'[s].at = "agent"
    BY <1>0, <2>1, Opening DEF Stages
  <2> QED BY <2>1, <2>2, LooksTyped DEF Begins
<1>3. CASE DeleteDatasets(s)
  <2>1. Moves(s) /\ CallOK(call'[s]) /\ call'[s].op # "evaluate"
    BY <1>0, <1>3, Going DEF DeleteDatasets, Doing, SameSubject, Stages
  <2>2. StoreTypeOK'
    BY <1>0, <1>3 DEF DeleteDatasets, StoreTypeOK, historyVars
  <2> QED BY <1>3, <2>1, <2>2, StepTyped DEF DeleteDatasets
<1>4. CASE InsertDataset(s)
  <2>1. Moves(s) /\ CallOK(call'[s]) /\ call'[s].op # "evaluate"
    BY <1>0, <1>4, Ending DEF InsertDataset
  <2>3. call[s].on \in Agents
    BY <1>0, <1>4 DEF InsertDataset, Doing, CallOK, OnAgent
  <2>2. StoreTypeOK'
    BY <1>0, <1>4, <2>3 DEF InsertDataset, StoreTypeOK, historyVars
  <2> QED BY <1>4, <2>1, <2>2, StepTyped DEF InsertDataset
<1>5. CASE ReadEvaluated(s)
  <2>1. Moves(s) /\ CallOK(call'[s]) /\ (call'[s].op # "evaluate" \/ call'[s].at # "record")
    BY <1>0, <1>5, ReadEvaluatedEffect
  <2> QED BY <1>5, <2>1, LooksTyped DEF ReadEvaluated
<1>6. CASE AskQuestions(s)
  <2>1. Moves(s) /\ CallOK(call'[s]) /\ (call'[s].op # "evaluate" \/ call'[s].at # "record")
    BY <1>0, <1>6, AskQuestionsEffect
  <2> QED BY <1>6, <2>1, LooksTyped DEF AskQuestions
<1>7. CASE ReadBaseline(s)
  <2>1. /\ Moves(s) /\ CallOK(call'[s]) /\ call'[s].on = call[s].on
        /\ call'[s].base = Len(experiments[call[s].on])
    BY <1>7, ReadBaselineEffect DEF SameSubject
  <2>2. job' = job /\ experiments' = experiments /\ UNCHANGED storeVars /\ UNCHANGED historyVars
    BY <1>7 DEF ReadBaseline, storeVars
  <2>3. CallTypeOK'
    BY <1>0, <2>1, <2>2, CallsStayTyped
  <2>4. call[s].on \in Agents
    BY <1>0, <1>7 DEF ReadBaseline, Doing, CallOK, OnAgent
  <2>5. Len(experiments[call[s].on]) \in Nat
    BY <1>0, <2>4, LenProperties DEF StoreTypeOK
  <2>6. BaseExists'
    BY <2>1, <2>2, <2>5 DEF TypeOK, BaseExists, Moves, Doing
  <2>7. StoreTypeOK'
    BY <1>0, <2>2, StoresUnchanged
  <2> QED BY <2>3, <2>6, <2>7 DEF TypeOK
<1>8. CASE RecordExperiment(s)
  <2>1. /\ Moves(s) /\ CallOK(call'[s]) /\ call'[s].op # "evaluate"
        /\ experiments' \in [Agents -> Seq(Experiment)]
        /\ \A b \in Agents : Len(experiments'[b]) >= Len(experiments[b])
    BY <1>0, <1>8, RecordExperimentEffect
  <2>2. StoreTypeOK'
    BY <1>0, <1>8, <2>1, Zenon DEF RecordExperiment, StoreTypeOK, historyVars
  <2>3. CallTypeOK'
    BY <1>0, <1>8, <2>1, CallsStayTyped DEF RecordExperiment
  <2>4. \A r \in Slots : Doing(r, "evaluate", "record") => call[r].on \in Agents /\ call[r].base \in Nat
    BY <1>0 DEF Doing, CallTypeOK, CallOK, OnAgent, Calls
  <2>5. \A b \in Agents : Len(experiments'[b]) \in Nat /\ Len(experiments[b]) \in Nat
    BY <1>0, <2>1, LenProperties DEF StoreTypeOK
  <2>6. BaseExists'
    <3> SUFFICES ASSUME NEW r \in Slots \ {s}, Doing(r, "evaluate", "record")
                 PROVE  call[r].base <= Len(experiments'[call[r].on])
      BY <2>1 DEF BaseExists, Moves, Doing
    <3>1. call[r].base <= Len(experiments[call[r].on])
      BY DEF TypeOK, BaseExists
    <3> QED BY <2>1, <2>4, <2>5, <3>1
  <2> QED BY <2>2, <2>3, <2>6 DEF TypeOK
<1> QED BY <1>1, <1>2, <1>3, <1>4, <1>5, <1>6, <1>7, <1>8 DEF EvalStep

\* An upload's step keeps the types and moves one slot that neither evaluates nor replaces.
LEMMA UploadStepTyped ==
    ASSUME TypeOK, NEW s \in Slots, UploadStep(s) PROVE Calm(s)
<1>0. StoreTypeOK /\ CallTypeOK /\ CallOK(call[s]) /\ CallOK(Idle) /\ Idle.op = "idle"
  BY IdleTyped DEF TypeOK, CallTypeOK, Idle
<1>1. ASSUME NEW a \in Agents, StartUpload(s, a) PROVE Calm(s)
  <2>1. Begins(s, [Idle EXCEPT !.op = "upload", !.at = "insert", !.on = a])
    BY <1>1 DEF StartUpload
  <2>2. Moves(s) /\ CallOK(call'[s]) /\ call'[s].op = "upload"
    BY <1>0, <2>1, Opening DEF Stages
  <2> QED BY <2>1, <2>2, LooksTyped DEF Calm, Begins
<1>2. ASSUME NEW a \in Agents, StartReindex(s, a) PROVE Calm(s)
  <2>1. Moves(s) /\ CallOK(call'[s]) /\ call'[s].op \in {"delete_agent", "reindex"}
    BY <1>2, StartsOnAgentEffect
  <2> QED BY <1>2, <2>1, LooksTyped DEF Calm, StartReindex, Begins
<1>3. ASSUME NEW d \in Docs, InsertDocument(s, d) PROVE Calm(s)
  <2>1. Moves(s) /\ CallOK(call'[s]) /\ call'[s].op \notin {"evaluate", "replace"}
    BY <1>0, <1>3, Ending DEF InsertDocument
  <2>2. call[s].on \in Agents
    BY <1>0, <1>3 DEF InsertDocument, Doing, CallOK, OnAgent
  <2>3. StoreTypeOK'
    BY <1>0, <1>3, <2>2 DEF InsertDocument, StoreTypeOK
  <2> QED BY <1>3, <2>1, <2>3, StepTyped DEF Calm, InsertDocument
<1>4. CASE WipeNamespace(s)
  <2>1. Moves(s) /\ CallOK(call'[s]) /\ call'[s].op \notin {"evaluate", "replace"}
    BY <1>0, <1>4, Going DEF WipeNamespace, Doing, SameSubject, Stages
  <2>2. call[s].on \in Agents
    BY <1>0, <1>4 DEF WipeNamespace, Doing, CallOK, OnAgent
  <2>3. StoreTypeOK'
    BY <1>0, <1>4, <2>2 DEF WipeNamespace, StoreTypeOK
  <2> QED BY <1>4, <2>1, <2>3, StepTyped DEF Calm, WipeNamespace
<1>5. CASE Requeue(s)
  <2>1. Moves(s) /\ CallOK(call'[s]) /\ call'[s].op \notin {"evaluate", "replace"}
    BY <1>0, <1>5, Going DEF Requeue, Doing, SameSubject, Stages
  <2>2. call[s].on \in Agents
    BY <1>0, <1>5 DEF Requeue, Doing, CallOK, OnAgent
  <2>3. StoreTypeOK'
    BY <1>0, <1>5, <2>2 DEF Requeue, StoreTypeOK, historyVars
  <2> QED BY <1>5, <2>1, <2>3, StepTyped DEF Calm, Requeue
<1>6. CASE ResetFlag(s)
  <2> DEFINE a == call[s].on
  <2>1. Moves(s) /\ CallOK(call'[s]) /\ call'[s].op \notin {"evaluate", "replace"}
    BY <1>0, <1>6, Ending DEF ResetFlag
  <2>2. a \in Agents
    BY <1>0, <1>6 DEF ResetFlag, Doing, CallOK, OnAgent
  <2>3. agents' \in [Agents -> AgentConfigs \cup {NoAgent}]
    <3>1. CASE Exists(a)
      <4>1. agents[a] \in AgentConfigs
        BY <1>0, <2>2, <3>1 DEF Exists, StoreTypeOK
      <4>2. [agents[a] EXCEPT !.mismatch = FALSE] \in AgentConfigs
        BY <4>1, FlagChanges
      <4>3. agents' = [agents EXCEPT ![a] = [agents[a] EXCEPT !.mismatch = FALSE]]
        BY <1>6, <3>1 DEF ResetFlag
      <4> QED BY <1>0, <4>2, <4>3 DEF StoreTypeOK
    <3> QED BY <1>0, <1>6, <3>1 DEF ResetFlag, StoreTypeOK
  <2>4. StoreTypeOK'
    BY <1>0, <1>6, <2>3 DEF ResetFlag, StoreTypeOK, historyVars
  <2> QED BY <1>6, <2>1, <2>4, StepTyped DEF Calm, ResetFlag
<1> QED BY <1>1, <1>2, <1>3, <1>4, <1>5, <1>6 DEF UploadStep

-----------------------------------------------------------------------------
(* The worker, and the theorem. *)

\* The job a worker takes carries the configuration it read.
LEMMA TakeJobEffect ==
    ASSUME TypeOK, NEW m \in queue, TakeJob(m)
    PROVE  \/ job' = Idle
           \/ /\ job' \in Calls /\ CallOK(job') /\ job'.op = "ingest"
              /\ job'.on = m[1] /\ job'.agent = agents[m[1]] /\ job'.listed = {m[2]}
              /\ m[1] \in Agents /\ Exists(m[1]) /\ m[2] \in documents[m[1]]
<1> DEFINE a == m[1]
           c == [Idle EXCEPT !.op = "ingest", !.at = "upsert", !.on = a, !.agent = agents[a],
                             !.listed = {m[2]}]
<1>1. a \in Agents /\ m[2] \in Docs
  BY DEF TypeOK, StoreTypeOK
<1>2. CASE Readable(a) /\ m[2] \in documents[a]
  <2>1. agents[a] \in AgentConfigs /\ Exists(a)
    BY <1>1, <1>2 DEF Readable, Exists, TypeOK, StoreTypeOK
  <2>2. {m[2]} \in SUBSET (Docs \cup (Agents \X Stores)) /\ {m[2]} \subseteq Docs
    BY <1>1
  <2>3. job' = c
    BY <1>2 DEF TakeJob
  <2>4. /\ c \in Calls /\ c.op = "ingest" /\ c.on = a /\ c.agent = agents[a] /\ c.listed = {m[2]}
    BY <1>1, <2>1, <2>2, IdleTyped DEF Calls, Idle, Ops, Stages
  <2> HIDE DEF c
  <2>5. CallOK(c)
    BY <1>1, <2>1, <2>2, <2>4 DEF CallOK, OnAgent
  <2> QED BY <1>1, <1>2, <2>1, <2>3, <2>4, <2>5
<1> QED BY <1>2 DEF TakeJob

\* A step of the worker keeps the types.
LEMMA WorkerStepTyped ==
    ASSUME TypeOK, WorkerStep PROVE TypeOK'
<1>1. experiments' = experiments /\ call' = call
  BY DEF WorkerStep, Upsert, JobFails, TakeJob
<1>2. BaseExists'
  BY <1>1 DEF TypeOK, BaseExists, Doing
<1>3. job' = Idle \/ (job' \in Calls /\ job'.op = "ingest" /\ CallOK(job'))
  BY TakeJobEffect DEF WorkerStep, Upsert, JobFails
<1>4. CallTypeOK'
  BY <1>1, <1>3 DEF TypeOK, CallTypeOK
<1>5. StoreTypeOK'
  <2>1. CASE Upsert
    <3>1. CallOK(job) /\ job.op = "ingest"
      BY <2>1 DEF Upsert, TypeOK, CallTypeOK
    <3>2. job.on \in Agents /\ job.agent \in AgentConfigs
      BY <3>1 DEF CallOK
    <3>3. job.agent.provider \in Providers
      BY <3>2 DEF AgentConfigs
    <3>4. vectors' \in [Agents -> [Stores -> SUBSET Providers]]
      BY <2>1, <3>2, <3>3 DEF Upsert, TypeOK, StoreTypeOK
    <3> QED BY <2>1, <3>2, <3>4 DEF Upsert, TypeOK, StoreTypeOK
  <2>2. CASE JobFails
    BY <2>2 DEF JobFails, TypeOK, StoreTypeOK, historyVars
  <2>3. ASSUME NEW m \in queue, TakeJob(m) PROVE StoreTypeOK'
    BY <2>3 DEF TakeJob, TypeOK, StoreTypeOK, historyVars
  <2> QED BY <2>1, <2>2, <2>3 DEF WorkerStep
<1> QED BY <1>2, <1>4, <1>5 DEF TypeOK

\* A call that raises keeps the types: its slot is idle again.
LEMMA CallRaisesTyped ==
    ASSUME TypeOK, NEW s \in Slots, CallRaises(s) PROVE Calm(s)
<1>0. StoreTypeOK /\ CallTypeOK /\ CallOK(Idle) /\ Idle.op = "idle"
  BY IdleTyped DEF TypeOK, Idle
<1>1. Moves(s) /\ CallOK(call'[s]) /\ call'[s].op \notin {"evaluate", "replace"}
  BY <1>0, Ending DEF CallRaises
<1>2. StoreTypeOK'
  BY <1>0 DEF CallRaises, StoreTypeOK, storeVars
<1>3. job' = job /\ experiments' = experiments
  BY DEF CallRaises, storeVars
<1> QED BY <1>1, <1>2, <1>3, StepTyped DEF Calm

\* The initial states are typed.
LEMMA TypesInitially == Init => TypeOK
<1> SUFFICES ASSUME Init PROVE TypeOK
  OBVIOUS
<1>1. StoreInit
  BY DEF Init
<1>2. agents \in [Agents -> AgentConfigs \cup {NoAgent}] /\ tenants \subseteq Tenants
  BY <1>1, ConfigAssumption DEF StoreInit
<1>3. <<>> \in Seq(Experiment)
  BY EmptySeq
<1>4. StoreTypeOK
  BY <1>1, <1>2, <1>3 DEF StoreInit, StoreTypeOK
<1>5. CallTypeOK
  BY <1>1, IdleTyped DEF StoreInit, CallTypeOK
<1>6. BaseExists
  BY <1>1 DEF StoreInit, BaseExists, Doing, Idle
<1> QED BY <1>4, <1>5, <1>6 DEF TypeOK

\* Every step keeps the types.
LEMMA TypesPreserved == TypeOK /\ [Next]_vars => TypeOK'
<1> SUFFICES ASSUME TypeOK, [Next]_vars PROVE TypeOK'
  OBVIOUS
<1>1. CASE UNCHANGED adminVars
  BY <1>1 DEF adminVars, storeVars, historyVars, countVars, TypeOK, StoreTypeOK, CallTypeOK, BaseExists, Doing
<1>2. ASSUME NEW s \in Slots,
             TenantStep(s) \/ AgentStep(s) \/ EvalStep(s) \/ UploadStep(s) \/ CallRaises(s)
      PROVE  TypeOK'
  BY <1>2, TenantStepTyped, AgentStepTyped, EvalStepTyped, UploadStepTyped, CallRaisesTyped DEF Calm
<1>3. CASE WorkerStep
  BY <1>3, WorkerStepTyped
<1> QED BY <1>1, <1>2, <1>3 DEF Next, vars

\* Every collection, namespace and request keeps its type, and an evaluation compares with
\* an experiment that exists.
THEOREM AdministrationTyped == Spec => []TypeOK
BY TypesInitially, TypesPreserved, PTL DEF Spec

-----------------------------------------------------------------------------
(* Evaluations. *)

\* The replacements about to insert their dataset.
Inserting(a) == {s \in Slots : Doing(s, "replace", "insert") /\ call[s].on = a}

\* Each running replacement has room for the dataset that it inserts.
DatasetRoom ==
    \A a \in Agents : datasets[a] + Cardinality(Inserting(a)) <= Cardinality(Slots)

\* Experiment i of a is what the configuration recorded with it and an earlier one make it.
Recorded(a, i) ==
    LET e == experiments[a][i] IN
    /\ e.alert = (e.score < e.threshold)
    /\ e.base < i
    /\ e.delta = IF e.base = 0 THEN 0 ELSE e.score - experiments[a][e.base].score

EvaluationInvariant ==
    /\ DatasetRoom
    /\ \A a \in Agents : \A i \in 1..Len(experiments[a]) : Recorded(a, i)

\* The slots, and every set of them, are finite: the replacements under way can be counted.
LEMMA Counted ==
    /\ Cardinality(Slots) \in Nat
    /\ \A S \in SUBSET Slots : IsFiniteSet(S) /\ Cardinality(S) \in Nat /\ Cardinality(S) <= Cardinality(Slots)
BY RequestAssumption, FS_Subset, FS_CardinalityType

\* Fewer replacements about to insert leave room.
LEMMA RoomKept ==
    ASSUME TypeOK, DatasetRoom, datasets' = datasets,
           \A a \in Agents : Inserting(a)' \subseteq Inserting(a)
    PROVE  DatasetRoom'
<1> SUFFICES ASSUME NEW a \in Agents
             PROVE  datasets[a] + Cardinality(Inserting(a)') <= Cardinality(Slots)
  BY DEF DatasetRoom
<1>1. Inserting(a) \in SUBSET Slots
  BY DEF Inserting
<1>2. IsFiniteSet(Inserting(a)) /\ Cardinality(Inserting(a)) \in Nat /\ Cardinality(Slots) \in Nat
  BY <1>1, Counted
<1>3. /\ Cardinality(Inserting(a)') \in Nat
      /\ Cardinality(Inserting(a)') <= Cardinality(Inserting(a))
  BY <1>2, FS_Subset, FS_CardinalityType
<1>4. datasets[a] \in Nat /\ datasets[a] + Cardinality(Inserting(a)) <= Cardinality(Slots)
  BY DEF TypeOK, StoreTypeOK, DatasetRoom
<1> QED BY <1>2, <1>3, <1>4

\* A step that is not about a replacement starts no insertion.
LEMMA NothingInserted ==
    ASSUME CallTypeOK, NEW s \in Slots, Moves(s), call'[s].op # "replace" \/ call'[s].at # "insert"
    PROVE  \A a \in Agents : Inserting(a)' \subseteq Inserting(a)
BY DEF Moves, Inserting, Doing

\* delete_many leaves no dataset, so the replacements that may still insert bound what is there.
LEMMA DatasetsDeleted ==
    ASSUME TypeOK, DatasetRoom, NEW s \in Slots, DeleteDatasets(s)
    PROVE  DatasetRoom'
<1> SUFFICES ASSUME NEW a \in Agents
             PROVE  datasets'[a] + Cardinality(Inserting(a)') <= Cardinality(Slots)
  BY DEF DatasetRoom
<1>1. /\ Moves(s) /\ SameSubject(s) /\ call[s].on \in Agents
      /\ datasets' = [datasets EXCEPT ![call[s].on] = 0]
  BY Going DEF DeleteDatasets, TypeOK, CallTypeOK, CallOK, OnAgent, Doing, Stages
<1>2. Inserting(a)' \in SUBSET Slots
  BY DEF Inserting
<1>3. Cardinality(Inserting(a)') \in Nat /\ Cardinality(Inserting(a)') <= Cardinality(Slots)
  BY <1>2, Counted
<1>4. CASE a = call[s].on
  <2>1. datasets'[a] = 0
    BY <1>1, <1>4 DEF TypeOK, StoreTypeOK
  <2> QED BY <1>3, <2>1, Counted
<1>5. CASE a # call[s].on
  <2>1. datasets'[a] = datasets[a] /\ datasets[a] \in Nat
    BY <1>1, <1>5 DEF TypeOK, StoreTypeOK
  <2>2. Inserting(a)' = Inserting(a)
    BY <1>1, <1>5 DEF Inserting, Moves, SameSubject, Doing
  <2> QED BY <2>1, <2>2 DEF DatasetRoom
<1> QED BY <1>4, <1>5

\* An insert adds one dataset and ends one of the replacements that could insert.
LEMMA DatasetInserted ==
    ASSUME TypeOK, DatasetRoom, NEW s \in Slots, InsertDataset(s)
    PROVE  DatasetRoom'
<1> SUFFICES ASSUME NEW a \in Agents
             PROVE  datasets'[a] + Cardinality(Inserting(a)') <= Cardinality(Slots)
  BY DEF DatasetRoom
<1>1. /\ Moves(s) /\ call'[s].op = "idle" /\ call[s].on \in Agents
      /\ Doing(s, "replace", "insert")
      /\ datasets' = [datasets EXCEPT ![call[s].on] = datasets[call[s].on] + 1]
  BY Ending DEF InsertDataset, TypeOK, CallTypeOK, CallOK, OnAgent, Doing, Idle
<1>2. Inserting(a) \in SUBSET Slots
  BY DEF Inserting
<1>3. IsFiniteSet(Inserting(a)) /\ Cardinality(Inserting(a)) \in Nat /\ Cardinality(Slots) \in Nat
  BY <1>2, Counted
<1>4. datasets[a] \in Nat /\ datasets[a] + Cardinality(Inserting(a)) <= Cardinality(Slots)
  BY DEF TypeOK, StoreTypeOK, DatasetRoom
<1>5. CASE a = call[s].on
  <2>1. datasets'[a] = datasets[a] + 1
    BY <1>1, <1>5 DEF TypeOK, StoreTypeOK
  <2>2. s \in Inserting(a) /\ Inserting(a)' = Inserting(a) \ {s}
    BY <1>1, <1>5 DEF Inserting, Moves, Doing
  <2>3. Cardinality(Inserting(a)') = Cardinality(Inserting(a)) - 1
    BY <1>3, <2>2, FS_RemoveElement
  <2> QED BY <1>3, <1>4, <2>1, <2>3
<1>6. CASE a # call[s].on
  <2>1. datasets'[a] = datasets[a]
    BY <1>1, <1>6 DEF TypeOK, StoreTypeOK
  <2>2. Inserting(a)' = Inserting(a)
    BY <1>1, <1>6 DEF Inserting, Moves, Doing
  <2> QED BY <1>4, <2>1, <2>2
<1> QED BY <1>5, <1>6

\* The experiment recorded last refers to one recorded before.
LEMMA ExperimentRecorded ==
    ASSUME TypeOK, EvaluationInvariant, NEW s \in Slots, RecordExperiment(s)
    PROVE  \A a \in Agents : \A i \in 1..Len(experiments'[a]) : Recorded(a, i)'
<1> SUFFICES ASSUME NEW a \in Agents, NEW i \in 1..Len(experiments'[a]) PROVE Recorded(a, i)'
  OBVIOUS
<1>1. experiments[a] \in Seq(Experiment) /\ experiments'[a] \in Seq(Experiment)
  BY RecordExperimentEffect DEF TypeOK, StoreTypeOK
<1>2. Len(experiments[a]) \in Nat /\ Len(experiments'[a]) \in Nat
  BY <1>1, LenProperties
<1>3. Len(experiments'[a]) >= Len(experiments[a])
  BY RecordExperimentEffect
<1>4. \A k \in 1..Len(experiments[a]) : experiments'[a][k] = experiments[a][k]
  <2> SUFFICES ASSUME NEW k \in 1..Len(experiments[a]) PROVE experiments'[a][k] = experiments[a][k]
    OBVIOUS
  <2>1. k \in 1..Len(experiments'[a]) /\ k # Len(experiments[a]) + 1
    BY <1>2, <1>3
  <2> QED BY <2>1, RecordExperimentEffect
<1>5. CASE i \in 1..Len(experiments[a])
  <2> DEFINE e == experiments[a][i]
  <2>1. Recorded(a, i)
    BY <1>5 DEF EvaluationInvariant
  <2>2. experiments'[a][i] = e /\ e \in Experiment
    BY <1>1, <1>4, <1>5, ElementOfSeq
  <2>3. e.base \in Nat /\ e.base < i
    BY <2>1, <2>2 DEF Experiment, Recorded
  <2>4. e.base # 0 => experiments'[a][e.base] = experiments[a][e.base]
    BY <1>2, <1>4, <1>5, <2>3
  <2> QED BY <2>1, <2>2, <2>4 DEF Recorded
<1>6. CASE i \notin 1..Len(experiments[a])
  <2> DEFINE e == experiments'[a][i]
  <2>1. /\ i = Len(experiments[a]) + 1
        /\ e.alert = (e.score < e.threshold)
        /\ e.base \in Nat /\ e.base <= Len(experiments[a])
        /\ e.delta = Delta(a, e.base, e.score)
    BY <1>6, RecordExperimentEffect
  <2>2. e.base < i
    BY <1>2, <2>1
  <2>3. e.base # 0 => experiments'[a][e.base] = experiments[a][e.base]
    BY <1>2, <1>4, <2>1
  <2> HIDE DEF e
  <2>4. e.delta = IF e.base = 0 THEN 0 ELSE e.score - experiments'[a][e.base].score
    BY <2>1, <2>3 DEF Delta
  <2> QED BY <2>1, <2>2, <2>4 DEF Recorded, e
<1> QED BY <1>5, <1>6

\* The steps that touch neither datasets nor experiments.
LEMMA EvaluationsUntouched ==
    ASSUME NEW s \in Slots, TenantStep(s) \/ AgentStep(s) \/ UploadStep(s) \/ CallRaises(s)
    PROVE  datasets' = datasets /\ experiments' = experiments
<1>1. ASSUME TenantStep(s) PROVE datasets' = datasets /\ experiments' = experiments
  BY <1>1 DEF TenantStep, StartRegistration, StartDeletion, InsertTenant, ListAgents,
     DeleteAgents, DeleteDocuments, DeleteTenant, DeleteNamespaces, Begins, storeVars
<1>2. ASSUME AgentStep(s) PROVE datasets' = datasets /\ experiments' = experiments
  BY <1>2 DEF AgentStep, StartCreation, StartAgentDeletion, StartUpdate, InsertAgent,
     FindDocuments, WritePatch, DeleteNamespace, DeleteAgentDocuments, DeleteAgent, Begins, storeVars
<1>3. ASSUME UploadStep(s) PROVE datasets' = datasets /\ experiments' = experiments
  BY <1>3 DEF UploadStep, StartUpload, StartReindex, InsertDocument, WipeNamespace, Requeue,
     ResetFlag, Begins, storeVars
<1>4. ASSUME CallRaises(s) PROVE datasets' = datasets /\ experiments' = experiments
  BY <1>4 DEF CallRaises, storeVars
<1> QED BY <1>1, <1>2, <1>3, <1>4

\* A step that adds no experiment keeps the comparison every experiment records.
LEMMA RecordsKept ==
    ASSUME EvaluationInvariant, experiments' = experiments, DatasetRoom' PROVE EvaluationInvariant'
BY DEF EvaluationInvariant, Recorded

\* Every step keeps the invariant of the evaluations and the datasets.
LEMMA EvaluationPreserved ==
    TypeOK /\ EvaluationInvariant /\ [Next]_vars => EvaluationInvariant'
<1> SUFFICES ASSUME TypeOK, EvaluationInvariant, [Next]_vars PROVE EvaluationInvariant'
  OBVIOUS
<1>0. DatasetRoom /\ CallTypeOK
  BY DEF EvaluationInvariant, TypeOK
<1>1. ASSUME datasets' = datasets, experiments' = experiments, call' = call
      PROVE  EvaluationInvariant'
  BY <1>0, <1>1, RoomKept, RecordsKept DEF Inserting, Doing
<1>2. ASSUME NEW s \in Slots, TenantStep(s) \/ AgentStep(s) \/ UploadStep(s) \/ CallRaises(s)
      PROVE  EvaluationInvariant'
  <2>1. Calm(s)
    BY <1>2, TenantStepTyped, AgentStepTyped, UploadStepTyped, CallRaisesTyped
  <2>2. \A a \in Agents : Inserting(a)' \subseteq Inserting(a)
    BY <1>0, <2>1, NothingInserted DEF Calm
  <2> QED BY <1>0, <1>2, <2>2, EvaluationsUntouched, RoomKept, RecordsKept
<1>3. ASSUME NEW s \in Slots, EvalStep(s) PROVE EvaluationInvariant'
  <2>0. ASSUME Moves(s), call'[s].op # "replace" \/ call'[s].at # "insert",
               datasets' = datasets, experiments' = experiments
        PROVE  EvaluationInvariant'
    BY <1>0, <2>0, NothingInserted, RoomKept, RecordsKept
  <2>1. ASSUME NEW a \in Agents, StartReplacement(s, a) PROVE EvaluationInvariant'
    <3>1. Begins(s, [Idle EXCEPT !.op = "replace", !.at = "delete", !.on = a])
      BY <2>1 DEF StartReplacement
    <3>2. Moves(s) /\ call'[s].at = "delete"
      BY <1>0, <3>1, Opening DEF Stages
    <3> QED BY <2>0, <3>1, <3>2 DEF Begins, storeVars
  <2>2. ASSUME NEW a \in Agents, StartEvaluation(s, a) PROVE EvaluationInvariant'
    <3>1. Begins(s, [Idle EXCEPT !.op = "evaluate", !.at = "agent", !.on = a])
      BY <2>2 DEF StartEvaluation
    <3>2. Moves(s) /\ call'[s].at = "agent"
      BY <1>0, <3>1, Opening DEF Stages
    <3> QED BY <2>0, <3>1, <3>2 DEF Begins, storeVars
  <2>3. CASE DeleteDatasets(s)
    BY <1>0, <2>3, DatasetsDeleted, RecordsKept DEF DeleteDatasets
  <2>4. CASE InsertDataset(s)
    BY <1>0, <2>4, DatasetInserted, RecordsKept DEF InsertDataset
  <2>5. CASE ReadEvaluated(s)
    BY <2>0, <2>5, ReadEvaluatedEffect DEF ReadEvaluated, storeVars, Idle
  <2>6. CASE AskQuestions(s)
    BY <2>0, <2>6, AskQuestionsEffect DEF AskQuestions, storeVars, Idle
  <2>7. CASE ReadBaseline(s)
    BY <2>0, <2>7, ReadBaselineEffect DEF ReadBaseline, storeVars
  <2>8. CASE RecordExperiment(s)
    <3>1. Moves(s) /\ call'[s].op = "idle"
      BY <2>8, RecordExperimentEffect DEF Idle
    <3>2. DatasetRoom'
      BY <1>0, <2>8, <3>1, NothingInserted, RoomKept DEF RecordExperiment
    <3> QED BY <2>8, <3>2, ExperimentRecorded DEF EvaluationInvariant
  <2> QED BY <1>3, <2>1, <2>2, <2>3, <2>4, <2>5, <2>6, <2>7, <2>8 DEF EvalStep
<1>4. CASE WorkerStep
  BY <1>1, <1>4 DEF WorkerStep, Upsert, JobFails, TakeJob
<1> QED BY <1>1, <1>2, <1>3, <1>4 DEF Next, vars, adminVars, storeVars

\* The invariant of the evaluations and the datasets holds at the start.
LEMMA EvaluationInitially == Init => EvaluationInvariant
<1> SUFFICES ASSUME Init PROVE EvaluationInvariant
  OBVIOUS
<1>1. StoreInit
  BY DEF Init
<1>2. \A a \in Agents : Inserting(a) = {}
  BY <1>1 DEF StoreInit, Inserting, Doing, Idle
<1>3. DatasetRoom
  BY <1>1, <1>2, Counted, FS_EmptySet DEF StoreInit, DatasetRoom
<1>4. \A a \in Agents : Len(experiments[a]) = 0
  BY <1>1 DEF StoreInit
<1> QED BY <1>3, <1>4 DEF EvaluationInvariant

\* Replacements that interleave leave at most one dataset each, and every experiment's alert
\* and delta follow from what is recorded with it and before it.
THEOREM EvaluationsAreConsistent == Spec => []EvaluationsConsistent
<1>1. TypeOK /\ EvaluationInvariant => EvaluationsConsistent
  <2> SUFFICES ASSUME TypeOK, EvaluationInvariant, NEW a \in Agents
               PROVE  /\ datasets[a] <= Cardinality(Slots)
                      /\ \A i \in DOMAIN experiments[a] : Recorded(a, i)
    BY DEF EvaluationsConsistent, Recorded
  <2>1. DOMAIN experiments[a] = 1..Len(experiments[a])
    BY DEF TypeOK, StoreTypeOK
  <2>2. Inserting(a) \in SUBSET Slots
    BY DEF Inserting
  <2>3. Cardinality(Inserting(a)) \in Nat /\ Cardinality(Slots) \in Nat
    BY <2>2, Counted
  <2>4. datasets[a] + Cardinality(Inserting(a)) <= Cardinality(Slots) /\ datasets[a] \in Nat
    BY DEF TypeOK, StoreTypeOK, EvaluationInvariant, DatasetRoom
  <2> QED BY <2>1, <2>3, <2>4 DEF EvaluationInvariant
<1> QED BY <1>1, AdministrationTyped, EvaluationInitially, EvaluationPreserved, PTL DEF Spec

-----------------------------------------------------------------------------
(* Where agents, documents and vectors may be, and the steps that change nothing of it. *)

Creating(s, a) == call[s].op = "create" /\ call[s].on = a
\* An agent that was never inserted.
Fresh(a) == a \notin issued \/ \E s \in Slots : Creating(s, a)

Lists(s, a, v) == call[s].op = "delete_tenant" /\ <<a, v>> \in call[s].listed

\* Ids are generated once, and nobody knows the id of an agent that was never inserted.
Known(a) ==
    /\ a \notin issued => \A s \in Slots : ~Creating(s, a)
    /\ \A r, s \in Slots : Creating(r, a) /\ Creating(s, a) => r = s
    /\ \A s \in Slots, v \in Stores : Lists(s, a, v) => call[s].on = OwnerOf[a]
    /\ Fresh(a) =>
         /\ ~Exists(a) /\ documents[a] = {} /\ job.on # a
         /\ \A v \in Stores : vectors[a][v] = {}
         /\ \A s \in Slots : call[s].op \in OnAgent => call[s].on # a
         /\ \A s \in Slots, v \in Stores : ~Lists(s, a, v)

UsesStore(s, a) == call[s].op \in {"delete_agent", "reindex"} /\ call[s].on = a

\* Everything that knows the vector store of the agent means the same one.
StaysIn(a, store) ==
    /\ Exists(a) => agents[a].store = store
    /\ job.on = a => job.agent.store = store
    /\ \A s \in Slots : UsesStore(s, a) => call[s].agent.store = store
    /\ \A s \in Slots, v \in Stores : Lists(s, a, v) => v = store
    /\ \A v \in Stores \ {store} : vectors[a][v] = {}

OneStore(a) == \E store \in Stores : StaysIn(a, store)

Empty(a) == \A v \in Stores : vectors[a][v] = {}

DeletesTenantOf(s, a, stages) ==
    call[s].op = "delete_tenant" /\ call[s].at \in stages /\ call[s].on = OwnerOf[a]
DeletesAgent(s, a, stages) ==
    call[s].op = "delete_agent" /\ call[s].at \in stages /\ call[s].on = a

\* What a deletion of the agent or its tenant has removed stays removed.
Removed(a) ==
    /\ Exists(a) => OwnerOf[a] \in tenants
    /\ \A s \in Slots : DeletesTenantOf(s, a, {"documents", "tenant"}) => ~Exists(a)
    /\ \A s \in Slots : DeletesAgent(s, a, {"agent"}) => documents[a] = {}
    /\ \/ Exists(a) \/ documents[a] = {}
       \/ \E s \in Slots : DeletesTenantOf(s, a, {"documents"})

\* Likewise its vectors, unless it was moved to another store.
Cleared(a) ==
    /\ \A s \in Slots : DeletesAgent(s, a, {"documents", "agent"}) => Empty(a)
    /\ \/ Exists(a) \/ Empty(a)
       \/ \E s \in Slots, v \in Stores :
             Lists(s, a, v) /\ call[s].at \in {"documents", "tenant", "namespaces"}
    /\ Exists(a) /\ documents[a] = {} => Empty(a)

Reindexing(s, a) == call[s].op = "reindex" /\ call[s].on = a /\ call[s].at \in {"requeue", "reset"}

\* Unless the agent is flagged, and while it is being reindexed even then, its vectors and
\* those of the job under way come from its provider.
SameProvider(a) ==
    Exists(a) /\ (~agents[a].mismatch \/ \E s \in Slots : Reindexing(s, a)) =>
       /\ vectors[a][agents[a].store] \subseteq {agents[a].provider}
       /\ job.on = a => job.agent.provider = agents[a].provider

\* The inductive invariant, for one agent.
Placed(a) ==
    /\ Known(a)
    /\ a \notin moved => OneStore(a)
    /\ a \notin leftover => Removed(a)
    /\ a \notin leftover \cup moved => Cleared(a)
    /\ a \notin leftover \cup moved \cup raced => SameProvider(a)

\* A step that, as far as a is concerned, only changes what s is doing, and begins nothing
\* that matters to a.
LooksAround(s, a) ==
    /\ agents'[a] = agents[a] /\ documents'[a] = documents[a] /\ vectors'[a] = vectors[a]
    /\ job' = job
    /\ tenants \subseteq tenants' /\ issued \subseteq issued'
    /\ raced \subseteq raced' /\ moved \subseteq moved' /\ leftover \subseteq leftover'
    /\ Moves(s)
    /\ \/ call'[s].op \in {"idle", "register"}
       \/ call'[s].op = "delete_tenant" /\ call'[s].at = "list" /\ call'[s].listed = {}
       \/ call'[s].op \in {"update", "replace", "evaluate", "upload"} /\ SameSubject(s)
       \/ call'[s].op \in {"update", "replace", "evaluate", "upload"} /\ Exists(call'[s].on)
       \/ call'[s].op \in OnAgent \cup {"create"} /\ call'[s].on # a
    /\ /\ call[s].op = "delete_tenant"
       /\ call[s].at \in {"documents", "tenant", "namespaces"}
       /\ OwnerOf[a] = call[s].on
       => a \in leftover'

\* A step that only reads, or acts on another agent, keeps agent a placed.
LEMMA LookingAround ==
    ASSUME TypeOK, NEW a \in Agents, Placed(a), NEW s \in Slots, LooksAround(s, a)
    PROVE  Placed(a)'
<1>0. Known(a) /\ Moves(s)
  BY DEF Placed, LooksAround
<1>1. \A r \in Slots : Creating(r, a)' => Creating(r, a)
  BY <1>0 DEF LooksAround, Moves, Creating, OnAgent
<1>2. Fresh(a)' => Fresh(a)
  BY <1>1 DEF Fresh, LooksAround
<1>3. \A r \in Slots, v \in Stores : Lists(r, a, v)' => Lists(r, a, v) /\ call'[r].on = call[r].on
  BY <1>0 DEF Lists, Moves, LooksAround, OnAgent
<1>4. Fresh(a)' => \A r \in Slots : call'[r].op \in OnAgent => call'[r].on # a
  BY <1>0, <1>2 DEF LooksAround, Moves, SameSubject, Known, OnAgent, Exists
<1>5. Known(a)'
  <2>1. a \notin issued' => \A r \in Slots : ~Creating(r, a)'
    BY <1>0, <1>1 DEF Known, LooksAround
  <2>2. \A q, r \in Slots : Creating(q, a)' /\ Creating(r, a)' => q = r
    BY <1>0, <1>1 DEF Known
  <2>3. \A r \in Slots, v \in Stores : Lists(r, a, v)' => call'[r].on = OwnerOf[a]
    BY <1>0, <1>3 DEF Known
  <2>4. Fresh(a)' => /\ ~Exists(a)' /\ documents'[a] = {} /\ job'.on # a
                     /\ \A v \in Stores : vectors'[a][v] = {}
                     /\ \A r \in Slots, v \in Stores : ~Lists(r, a, v)'
    BY <1>0, <1>2, <1>3 DEF Known, LooksAround, Exists
  <2> QED BY <1>4, <2>1, <2>2, <2>3, <2>4 DEF Known
<1>6. a \notin moved' => OneStore(a)'
  <2> SUFFICES ASSUME a \notin moved' PROVE OneStore(a)'
    OBVIOUS
  <2>1. PICK store \in Stores : StaysIn(a, store)
    BY DEF LooksAround, Placed, OneStore
  <2>2. \A r \in Slots : UsesStore(r, a)' => UsesStore(r, a) /\ call'[r] = call[r]
    BY <1>0 DEF UsesStore, LooksAround, Moves, OnAgent
  <2>3. StaysIn(a, store)'
    BY <1>3, <2>1, <2>2 DEF StaysIn, LooksAround, Exists
  <2> QED BY <2>3 DEF OneStore
<1>7. \A stages : \A r \in Slots :
        /\ DeletesTenantOf(r, a, stages)' /\ "list" \notin stages => DeletesTenantOf(r, a, stages)
        /\ DeletesAgent(r, a, stages)' => DeletesAgent(r, a, stages)
  BY <1>0 DEF DeletesTenantOf, DeletesAgent, LooksAround, Moves, OnAgent
<1>8. ASSUME a \notin leftover' PROVE Removed(a)'
  <2>1. Removed(a)
    BY <1>8 DEF Placed, LooksAround
  <2>2. \A r \in Slots : DeletesTenantOf(r, a, {"documents"}) => DeletesTenantOf(r, a, {"documents"})'
    BY <1>0, <1>8 DEF DeletesTenantOf, LooksAround, Moves
  <2> QED BY <1>7, <2>1, <2>2 DEF Removed, LooksAround, Exists
<1>9. ASSUME a \notin leftover' \cup moved' PROVE Cleared(a)'
  <2>1. Cleared(a)
    BY <1>9 DEF Placed, LooksAround
  <2>2. \A r \in Slots, v \in Stores :
          Lists(r, a, v) /\ call[r].at \in {"documents", "tenant", "namespaces"}
             => Lists(r, a, v)' /\ call'[r].at = call[r].at
    BY <1>0, <1>9 DEF Known, Lists, LooksAround, Moves
  <2> QED BY <1>7, <2>1, <2>2 DEF Cleared, LooksAround, Exists, Empty
<1>10. ASSUME a \notin leftover' \cup moved' \cup raced' PROVE SameProvider(a)'
  <2>1. SameProvider(a)
    BY <1>10 DEF Placed, LooksAround
  <2>2. \A r \in Slots : Reindexing(r, a)' => Reindexing(r, a)
    BY <1>0 DEF Reindexing, LooksAround, Moves, OnAgent
  <2> QED BY <2>1, <2>2 DEF SameProvider, LooksAround, Exists
<1> QED BY <1>5, <1>6, <1>8, <1>9, <1>10 DEF Placed

-----------------------------------------------------------------------------
(* Deleting a tenant. *)

\* A step of s on the way, in a request about on.
Advances(s, op, from, to) ==
    /\ Moves(s) /\ SameSubject(s)
    /\ call[s].op = op /\ call[s].at = from /\ call'[s].at = to
    /\ call'[s].agent = call[s].agent /\ call'[s].listed = call[s].listed

\* A call that goes from one stage to another keeps its operation and what it has read.
LEMMA Advancing ==
    ASSUME TypeOK, NEW s \in Slots, NEW op, NEW from, NEW to \in Stages,
           Doing(s, op, from), Goes(s, to)
    PROVE  Advances(s, op, from, to)
BY Going DEF TypeOK, Doing, Advances

\* Whose ids and listings a step that neither creates, lists nor forgets leaves alone.
LEMMA AdvancingKnows ==
    ASSUME NEW s \in Slots, NEW a \in Agents, NEW op, NEW from, NEW to, Advances(s, op, from, to)
    PROVE  /\ \A r \in Slots : /\ Creating(r, a)' <=> Creating(r, a)
                               /\ UsesStore(r, a)' <=> UsesStore(r, a)
                               /\ call'[r].on = call[r].on /\ call'[r].op = call[r].op
                               /\ call'[r].agent = call[r].agent
           /\ \A r \in Slots, v \in Stores : Lists(r, a, v)' <=> Lists(r, a, v)
BY DEF Advances, Moves, SameSubject, Creating, UsesStore, Lists

\* delete_tenant's listing of the agents keeps agent a placed.
LEMMA ListAgentsPlaced ==
    ASSUME TypeOK, NEW a \in Agents, Placed(a), NEW s \in Slots, ListAgents(s)
    PROVE  Placed(a)'
<1>0. /\ agents' = agents /\ documents' = documents /\ vectors' = vectors /\ job' = job
      /\ tenants' = tenants /\ issued' = issued
      /\ raced' = raced /\ moved' = moved /\ leftover' = leftover
      /\ call[s].op = "delete_tenant" /\ call[s].at = "list" /\ Moves(s) /\ Known(a)
  BY ListAgentsEffect DEF ListAgents, storeVars, countVars, historyVars, Doing, Placed
<1>1. CASE call'[s] = Idle
  <2>1. LooksAround(s, a)
    BY <1>0, <1>1 DEF LooksAround, Idle
  <2> QED BY <2>1, LookingAround
<1>2. CASE call'[s] # Idle
  <2>1. /\ SameSubject(s) /\ call'[s].at = "agents"
        /\ call'[s].listed = {<<b, agents[b].store>> : b \in AgentsOf(call[s].on)}
    BY <1>2, ListAgentsEffect
  <2>2. \A v \in Stores : Lists(s, a, v)' =>
           Exists(a) /\ v = agents[a].store /\ call'[s].on = OwnerOf[a]
    BY <2>1 DEF Lists, AgentsOf, SameSubject
  <2>3. \A r \in Slots : /\ Creating(r, a)' <=> Creating(r, a)
                         /\ UsesStore(r, a)' => UsesStore(r, a) /\ call'[r] = call[r]
                         /\ Reindexing(r, a)' => Reindexing(r, a)
                         /\ call'[r].op = call[r].op /\ call'[r].on = call[r].on
    BY <1>0, <2>1 DEF Creating, UsesStore, Moves, SameSubject, Reindexing
  <2>4. \A r \in Slots \ {s}, v \in Stores : Lists(r, a, v)' <=> Lists(r, a, v)
    BY <1>0 DEF Moves, Lists
  <2>5. Fresh(a)' <=> Fresh(a)
    BY <1>0, <2>3 DEF Fresh
  <2>6. Known(a)'
    BY <1>0, <2>2, <2>3, <2>4, <2>5 DEF Known, Exists
  <2>7. ASSUME a \notin moved' PROVE OneStore(a)'
    <3>1. PICK store \in Stores : StaysIn(a, store)
      BY <1>0, <2>7 DEF Placed, OneStore
    <3>2. StaysIn(a, store)'
      BY <1>0, <2>2, <2>3, <2>4, <3>1 DEF StaysIn, Exists
    <3> QED BY <3>2 DEF OneStore
  <2>8. \A stages : \A r \in Slots :
          /\ "agents" \notin stages /\ "list" \notin stages =>
                (DeletesTenantOf(r, a, stages)' <=> DeletesTenantOf(r, a, stages))
          /\ DeletesAgent(r, a, stages)' <=> DeletesAgent(r, a, stages)
    BY <1>0, <2>1 DEF DeletesTenantOf, DeletesAgent, Moves, SameSubject
  <2>9. ASSUME a \notin leftover' PROVE Removed(a)'
    BY <1>0, <2>8, <2>9 DEF Removed, Exists, Placed
  <2>10. ASSUME a \notin leftover' \cup moved' PROVE Cleared(a)'
    <3>1. Cleared(a)
      BY <1>0, <2>10 DEF Placed
    <3>2. \A r \in Slots, v \in Stores :
            Lists(r, a, v) /\ call[r].at \in {"documents", "tenant", "namespaces"}
               => Lists(r, a, v)' /\ call'[r].at = call[r].at
      BY <1>0, <2>4 DEF Moves
    <3> QED BY <1>0, <2>8, <3>1, <3>2 DEF Cleared, Exists, Empty
  <2>11. ASSUME a \notin leftover' \cup moved' \cup raced' PROVE SameProvider(a)'
    BY <1>0, <2>3, <2>11 DEF Placed, SameProvider, Exists
  <2> QED BY <2>6, <2>7, <2>9, <2>10, <2>11 DEF Placed
<1> QED BY <1>1, <1>2

\* delete_tenant's deletion of the agents keeps agent a placed: the tenant's deletion still knows it.
LEMMA DeleteAgentsPlaced ==
    ASSUME TypeOK, NEW a \in Agents, Placed(a), NEW s \in Slots, DeleteAgents(s)
    PROVE  Placed(a)'
<1>0. /\ documents' = documents /\ vectors' = vectors /\ job' = job
      /\ tenants' = tenants /\ issued' = issued /\ raced' = raced /\ moved' = moved
      /\ Advances(s, "delete_tenant", "agents", "documents") /\ Known(a)
      /\ agents'[a] = IF a \in Doomed(s) THEN NoAgent ELSE agents[a]
      /\ leftover' = leftover \cup (Doomed(s) \ {p[1] : p \in call[s].listed})
      /\ Moves(s)
  BY Advancing DEF DeleteAgents, countVars, Stages, Placed, Advances
<1>1. /\ Exists(a)' <=> Exists(a) /\ OwnerOf[a] # call[s].on
      /\ Exists(a)' => agents'[a] = agents[a]
  BY <1>0 DEF Doomed, AgentsOf, Exists
<1>2. Fresh(a)' <=> Fresh(a)
  BY <1>0, AdvancingKnows DEF Fresh
<1>3. Known(a)'
  BY <1>0, <1>1, <1>2, AdvancingKnows DEF Known
<1>4. ASSUME a \notin moved' PROVE OneStore(a)'
  <2>1. PICK store \in Stores : StaysIn(a, store)
    BY <1>0, <1>4 DEF Placed, OneStore
  <2>2. StaysIn(a, store)'
    BY <1>0, <1>1, <2>1, AdvancingKnows DEF StaysIn
  <2> QED BY <2>2 DEF OneStore
<1>5. \A stages : \A r \in Slots :
        /\ DeletesTenantOf(r, a, stages) /\ "agents" \notin stages => DeletesTenantOf(r, a, stages)'
        /\ DeletesTenantOf(r, a, stages)' => DeletesTenantOf(r, a, stages) \/ r = s
        /\ DeletesAgent(r, a, stages)' <=> DeletesAgent(r, a, stages)
  BY <1>0 DEF DeletesTenantOf, DeletesAgent, Moves, SameSubject, Advances
<1>6. OwnerOf[a] = call[s].on => DeletesTenantOf(s, a, {"documents"})'
  BY <1>0 DEF Advances, DeletesTenantOf, SameSubject
<1>7. DeletesTenantOf(s, a, {"documents", "tenant"})' => ~Exists(a)'
  BY <1>0, <1>1 DEF Advances, DeletesTenantOf, SameSubject
<1>8. ASSUME a \notin leftover' PROVE Removed(a)'
  <2>1. Removed(a)
    BY <1>0, <1>8 DEF Placed
  <2> QED BY <1>0, <1>1, <1>5, <1>6, <1>7, <2>1 DEF Removed
<1>9. ASSUME a \notin leftover' \cup moved' PROVE Cleared(a)'
  <2>1. Cleared(a)
    BY <1>0, <1>9 DEF Placed
  <2>2. \A r \in Slots, v \in Stores :
          Lists(r, a, v) /\ call[r].at \in {"documents", "tenant", "namespaces"}
             => Lists(r, a, v)' /\ call'[r].at = call[r].at
    BY <1>0, AdvancingKnows DEF Advances, Moves
  <2>3. ASSUME Exists(a), ~Exists(a)'
        PROVE  \E v \in Stores : Lists(s, a, v)' /\ call'[s].at = "documents"
    <3>1. a \in {p[1] : p \in call[s].listed}
      BY <1>0, <1>1, <1>9, <2>3 DEF Doomed, AgentsOf
    <3>2. call[s].listed \subseteq Agents \X Stores
      BY <1>0 DEF TypeOK, CallTypeOK, CallOK, Advances
    <3>3. PICK v \in Stores : <<a, v>> \in call[s].listed
      BY <3>1, <3>2
    <3> QED BY <1>0, <3>3 DEF Lists, Advances, SameSubject
  <2> QED BY <1>0, <1>1, <1>5, <2>1, <2>2, <2>3 DEF Cleared, Empty
<1>10. ASSUME a \notin leftover' \cup moved' \cup raced' PROVE SameProvider(a)'
  <2>1. \A r \in Slots : Reindexing(r, a)' => Reindexing(r, a)
    BY <1>0 DEF Reindexing, Advances, Moves, SameSubject
  <2> QED BY <1>0, <1>1, <1>10, <2>1 DEF Placed, SameProvider
<1> QED BY <1>3, <1>4, <1>8, <1>9, <1>10 DEF Placed

\* delete_tenant's deletion of the documents keeps agent a placed.
LEMMA DeleteDocumentsPlaced ==
    ASSUME TypeOK, NEW a \in Agents, Placed(a), NEW s \in Slots, DeleteDocuments(s)
    PROVE  Placed(a)'
<1>0. /\ agents' = agents /\ vectors' = vectors /\ job' = job
      /\ tenants' = tenants /\ issued' = issued
      /\ raced' = raced /\ moved' = moved /\ leftover' = leftover
      /\ Advances(s, "delete_tenant", "documents", "tenant") /\ Known(a)
      /\ documents'[a] = IF OwnerOf[a] = call[s].on THEN {} ELSE documents[a]
      /\ Moves(s)
  BY Advancing DEF DeleteDocuments, countVars, historyVars, Stages, Placed, Advances
<1>1. Exists(a)' <=> Exists(a)
  BY <1>0 DEF Exists
<1>2. Fresh(a)' <=> Fresh(a)
  BY <1>0, AdvancingKnows DEF Fresh
<1>3. Known(a)'
  BY <1>0, <1>1, <1>2, AdvancingKnows DEF Known
<1>4. ASSUME a \notin moved' PROVE OneStore(a)'
  <2>1. PICK store \in Stores : StaysIn(a, store)
    BY <1>0, <1>4 DEF Placed, OneStore
  <2>2. StaysIn(a, store)'
    BY <1>0, <1>1, <2>1, AdvancingKnows DEF StaysIn
  <2> QED BY <2>2 DEF OneStore
<1>5. \A stages : \A r \in Slots :
        /\ DeletesTenantOf(r, a, stages)' /\ (r = s => "documents" \in stages) => DeletesTenantOf(r, a, stages)
        /\ DeletesTenantOf(r, a, stages) => DeletesTenantOf(r, a, stages)' \/ r = s
        /\ DeletesAgent(r, a, stages)' <=> DeletesAgent(r, a, stages)
  BY <1>0 DEF DeletesTenantOf, DeletesAgent, Moves, SameSubject, Advances
<1>6. DeletesTenantOf(s, a, {"documents"}) <=> OwnerOf[a] = call[s].on
  BY <1>0 DEF Advances, DeletesTenantOf
<1>7. ASSUME a \notin leftover' PROVE Removed(a)'
  <2>1. Removed(a)
    BY <1>0, <1>7 DEF Placed
  <2> QED BY <1>0, <1>1, <1>5, <1>6, <2>1 DEF Removed
<1>8. ASSUME a \notin leftover' \cup moved' PROVE Cleared(a)'
  <2>1. Cleared(a) /\ Removed(a)
    BY <1>0, <1>8 DEF Placed
  <2>2. \A r \in Slots, v \in Stores :
          Lists(r, a, v) /\ call[r].at \in {"documents", "tenant", "namespaces"}
             => Lists(r, a, v)' /\ call'[r].at \in {"documents", "tenant", "namespaces"}
    BY <1>0, AdvancingKnows DEF Advances, Moves
  <2>3. Exists(a) => documents'[a] = documents[a]
    BY <1>0, <1>6, <2>1 DEF Removed, DeletesTenantOf
  <2> QED BY <1>0, <1>1, <1>5, <2>1, <2>2, <2>3 DEF Cleared, Empty
<1>9. ASSUME a \notin leftover' \cup moved' \cup raced' PROVE SameProvider(a)'
  <2>1. \A r \in Slots : Reindexing(r, a)' => Reindexing(r, a)
    BY <1>0 DEF Reindexing, Advances, Moves, SameSubject
  <2> QED BY <1>0, <1>1, <1>9, <2>1 DEF Placed, SameProvider
<1> QED BY <1>3, <1>4, <1>7, <1>8, <1>9 DEF Placed

\* delete_tenant's deletion of the tenant keeps agent a placed.
LEMMA DeleteTenantPlaced ==
    ASSUME TypeOK, NEW a \in Agents, Placed(a), NEW s \in Slots, DeleteTenant(s)
    PROVE  Placed(a)'
<1>0. /\ agents' = agents /\ vectors' = vectors /\ job' = job /\ documents' = documents
      /\ issued' = issued /\ tenants' = tenants \ {call[s].on}
      /\ raced' = raced /\ moved' = moved /\ leftover' = leftover
      /\ Advances(s, "delete_tenant", "tenant", "namespaces") /\ Known(a)
      /\ Moves(s)
  BY Advancing DEF DeleteTenant, countVars, historyVars, Stages, Placed, Advances
<1>1. Exists(a)' <=> Exists(a)
  BY <1>0 DEF Exists
<1>2. Fresh(a)' <=> Fresh(a)
  BY <1>0, AdvancingKnows DEF Fresh
<1>3. Known(a)'
  BY <1>0, <1>1, <1>2, AdvancingKnows DEF Known
<1>4. ASSUME a \notin moved' PROVE OneStore(a)'
  <2>1. PICK store \in Stores : StaysIn(a, store)
    BY <1>0, <1>4 DEF Placed, OneStore
  <2>2. StaysIn(a, store)'
    BY <1>0, <1>1, <2>1, AdvancingKnows DEF StaysIn
  <2> QED BY <2>2 DEF OneStore
<1>5. \A r \in Slots :
        /\ DeletesTenantOf(r, a, {"documents", "tenant"})' => DeletesTenantOf(r, a, {"documents", "tenant"})
        /\ DeletesTenantOf(r, a, {"documents"}) => DeletesTenantOf(r, a, {"documents"})'
  BY <1>0 DEF DeletesTenantOf, Moves, SameSubject, Advances
<1>6. \A stages : \A r \in Slots : DeletesAgent(r, a, stages)' <=> DeletesAgent(r, a, stages)
  BY <1>0 DEF DeletesAgent, Moves, SameSubject, Advances
<1>7. OwnerOf[a] = call[s].on => DeletesTenantOf(s, a, {"documents", "tenant"})
  BY <1>0 DEF Advances, DeletesTenantOf
<1>8. ASSUME a \notin leftover' PROVE Removed(a)'
  <2>1. Removed(a)
    BY <1>0, <1>8 DEF Placed
  <2> QED BY <1>0, <1>1, <1>5, <1>6, <1>7, <2>1 DEF Removed
<1>9. ASSUME a \notin leftover' \cup moved' PROVE Cleared(a)'
  <2>1. Cleared(a)
    BY <1>0, <1>9 DEF Placed
  <2>2. \A r \in Slots, v \in Stores :
          Lists(r, a, v) /\ call[r].at \in {"documents", "tenant", "namespaces"}
             => Lists(r, a, v)' /\ call'[r].at \in {"documents", "tenant", "namespaces"}
    BY <1>0, AdvancingKnows DEF Advances, Moves
  <2> QED BY <1>0, <1>1, <1>6, <2>1, <2>2 DEF Cleared, Empty
<1>10. ASSUME a \notin leftover' \cup moved' \cup raced' PROVE SameProvider(a)'
  <2>1. \A r \in Slots : Reindexing(r, a)' => Reindexing(r, a)
    BY <1>0 DEF Reindexing, Advances, Moves, SameSubject
  <2> QED BY <1>0, <1>1, <1>10, <2>1 DEF Placed, SameProvider
<1> QED BY <1>3, <1>4, <1>8, <1>9, <1>10 DEF Placed

\* delete_tenant's deletion of the listed namespaces keeps agent a placed.
LEMMA DeleteNamespacesPlaced ==
    ASSUME TypeOK, NEW a \in Agents, Placed(a), NEW s \in Slots, DeleteNamespaces(s)
    PROVE  Placed(a)'
<1>0. /\ agents' = agents /\ job' = job /\ documents' = documents
      /\ issued' = issued /\ tenants' = tenants /\ raced' = raced /\ moved' = moved
      /\ call[s].op = "delete_tenant" /\ call[s].at = "namespaces"
      /\ Moves(s) /\ call'[s].op = "idle" /\ Known(a)
  BY Ending DEF DeleteNamespaces, Doing, Placed, TypeOK, Idle
<1>1. PICK failed \in SUBSET call[s].listed :
        /\ \A v \in Stores : vectors'[a][v] =
              IF <<a, v>> \in call[s].listed \ failed THEN {} ELSE vectors[a][v]
        /\ leftover' = leftover \cup {p[1] : p \in failed}
  BY DEF DeleteNamespaces
<1>2. \A r \in Slots : /\ Creating(r, a)' <=> Creating(r, a)
                       /\ UsesStore(r, a)' => UsesStore(r, a) /\ call'[r] = call[r]
                       /\ Reindexing(r, a)' => Reindexing(r, a)
                       /\ call'[r].op \in OnAgent => call'[r] = call[r]
  BY <1>0 DEF Moves, Creating, UsesStore, Reindexing, OnAgent
<1>3. \A r \in Slots, v \in Stores : Lists(r, a, v)' => Lists(r, a, v) /\ call'[r] = call[r]
  BY <1>0 DEF Moves, Lists
<1>4. (Fresh(a)' <=> Fresh(a)) /\ (Exists(a)' <=> Exists(a))
  BY <1>0, <1>2 DEF Fresh, Exists
<1>5. Known(a)'
  <2>1. \A v \in Stores : vectors[a][v] = {} => vectors'[a][v] = {}
    BY <1>1
  <2>2. /\ a \notin issued' => \A r \in Slots : ~Creating(r, a)'
        /\ \A q, r \in Slots : Creating(q, a)' /\ Creating(r, a)' => q = r
        /\ \A r \in Slots, v \in Stores : Lists(r, a, v)' => call'[r].on = OwnerOf[a]
    BY <1>0, <1>2, <1>3 DEF Known
  <2> QED BY <1>0, <1>2, <1>3, <1>4, <2>1, <2>2 DEF Known
<1>6. ASSUME a \notin moved' PROVE OneStore(a)'
  <2>1. PICK store \in Stores : StaysIn(a, store)
    BY <1>0, <1>6 DEF Placed, OneStore
  <2>2. StaysIn(a, store)'
    BY <1>0, <1>1, <1>2, <1>3, <1>4, <2>1 DEF StaysIn
  <2> QED BY <2>2 DEF OneStore
<1>7. \A stages : \A r \in Slots :
        /\ DeletesTenantOf(r, a, stages)' => DeletesTenantOf(r, a, stages)
        /\ DeletesTenantOf(r, a, stages) => DeletesTenantOf(r, a, stages)' \/ "namespaces" \in stages
        /\ DeletesAgent(r, a, stages)' => DeletesAgent(r, a, stages)
  BY <1>0 DEF DeletesTenantOf, DeletesAgent, Moves
<1>8. ASSUME a \notin leftover' PROVE Removed(a)'
  <2>1. Removed(a)
    BY <1>1, <1>8 DEF Placed
  <2> QED BY <1>0, <1>4, <1>7, <2>1 DEF Removed
<1>9. ASSUME a \notin leftover' \cup moved' PROVE Cleared(a)'
  <2>1. Cleared(a)
    BY <1>0, <1>1, <1>9 DEF Placed
  <2>2. Empty(a) => Empty(a)'
    BY <1>1 DEF Empty
  <2>3. ASSUME NEW v \in Stores, Lists(s, a, v) PROVE Empty(a)'
    <3>1. PICK store \in Stores : StaysIn(a, store)
      BY <1>0, <1>9 DEF Placed, OneStore
    <3>2. <<a, v>> \notin failed
      BY <1>1, <1>9
    <3>3. v = store /\ vectors'[a][store] = {}
      BY <1>1, <2>3, <3>1, <3>2 DEF StaysIn, Lists
    <3> QED BY <1>1, <3>1, <3>3 DEF StaysIn, Empty
  <2>4. \A r \in Slots \ {s}, v \in Stores : Lists(r, a, v) => Lists(r, a, v)' /\ call'[r] = call[r]
    BY <1>0 DEF Moves, Lists
  <2> QED BY <1>0, <1>4, <1>7, <2>1, <2>2, <2>3, <2>4 DEF Cleared
<1>10. ASSUME a \notin leftover' \cup moved' \cup raced' PROVE SameProvider(a)'
  <2>1. SameProvider(a)
    BY <1>0, <1>1, <1>10 DEF Placed
  <2>2. Exists(a) => agents[a].store \in Stores
    BY DEF TypeOK, StoreTypeOK, Exists, AgentConfigs
  <2> QED BY <1>0, <1>1, <1>2, <1>4, <2>1, <2>2 DEF SameProvider
<1> QED BY <1>5, <1>6, <1>8, <1>9, <1>10 DEF Placed

\* The start of create_agent keeps agent a placed.
LEMMA StartCreationPlaced ==
    ASSUME TypeOK, NEW a \in Agents, Placed(a), NEW s \in Slots, NEW b \in Agents, StartCreation(s, b)
    PROVE  Placed(a)'
<1>0. /\ agents' = agents /\ vectors' = vectors /\ job' = job /\ documents' = documents
      /\ issued' = issued \cup {b} /\ b \notin issued
      /\ tenants' = tenants /\ raced' = raced /\ moved' = moved /\ leftover' = leftover
      /\ Moves(s) /\ call[s].op = "idle" /\ call'[s].op = "create" /\ call'[s].on = b
      /\ Known(a)
  <2>1. Begins(s, [Idle EXCEPT !.op = "create", !.at = "insert", !.on = b])
    BY DEF StartCreation
  <2>2. Moves(s) /\ call[s] = Idle /\ call'[s].op = "create" /\ call'[s].on = b
    BY <2>1, Opening DEF Stages, TypeOK
  <2>3. Idle.op = "idle"
    BY DEF Idle
  <2> QED BY <2>1, <2>2, <2>3 DEF Begins, StartCreation, storeVars, historyVars, Placed
<1>1. \A r \in Slots : /\ Creating(r, a)' <=> Creating(r, a) \/ (r = s /\ a = b)
                       /\ UsesStore(r, a)' => UsesStore(r, a) /\ call'[r] = call[r]
                       /\ Reindexing(r, a)' => Reindexing(r, a)
                       /\ call'[r].op \in OnAgent => call'[r] = call[r]
  BY <1>0 DEF Moves, Creating, UsesStore, Reindexing, OnAgent
<1>2. \A r \in Slots, v \in Stores :
        (Lists(r, a, v)' <=> Lists(r, a, v)) /\ (Lists(r, a, v) => call'[r] = call[r])
  BY <1>0 DEF Moves, Lists
<1>3. (Fresh(a)' => Fresh(a)) /\ (Exists(a)' <=> Exists(a))
  BY <1>0, <1>1 DEF Fresh, Exists
<1>4. Known(a)'
  BY <1>0, <1>1, <1>2, <1>3 DEF Known
<1>5. ASSUME a \notin moved' PROVE OneStore(a)'
  <2>1. PICK store \in Stores : StaysIn(a, store)
    BY <1>0, <1>5 DEF Placed, OneStore
  <2>2. StaysIn(a, store)'
    BY <1>0, <1>1, <1>2, <1>3, <2>1 DEF StaysIn
  <2> QED BY <2>2 DEF OneStore
<1>6. \A stages : \A r \in Slots :
        /\ DeletesTenantOf(r, a, stages)' <=> DeletesTenantOf(r, a, stages)
        /\ DeletesAgent(r, a, stages)' <=> DeletesAgent(r, a, stages)
  BY <1>0 DEF DeletesTenantOf, DeletesAgent, Moves
<1>7. ASSUME a \notin leftover' PROVE Removed(a)'
  BY <1>0, <1>3, <1>6, <1>7 DEF Removed, Placed
<1>8. ASSUME a \notin leftover' \cup moved' PROVE Cleared(a)'
  BY <1>0, <1>2, <1>3, <1>6, <1>8 DEF Cleared, Placed, Empty
<1>9. ASSUME a \notin leftover' \cup moved' \cup raced' PROVE SameProvider(a)'
  BY <1>0, <1>1, <1>3, <1>9 DEF SameProvider, Placed
<1> QED BY <1>4, <1>5, <1>7, <1>8, <1>9 DEF Placed

\* create_agent's insert keeps agent a placed.
LEMMA InsertAgentPlaced ==
    ASSUME TypeOK, NEW a \in Agents, Placed(a), NEW s \in Slots, InsertAgent(s)
    PROVE  Placed(a)'
<1> DEFINE b == call[s].on
<1>0. /\ vectors' = vectors /\ job' = job /\ documents' = documents
      /\ issued' = issued /\ tenants' = tenants /\ raced' = raced /\ moved' = moved
      /\ leftover \subseteq leftover'
      /\ Moves(s) /\ call[s].op = "create" /\ call'[s].op = "idle" /\ b \in Agents
      /\ Known(a)
  BY Ending DEF InsertAgent, Doing, countVars, TypeOK, CallTypeOK, CallOK, Idle, Placed
<1>1. \A r \in Slots : /\ Creating(r, a)' <=> Creating(r, a) /\ r # s
                       /\ UsesStore(r, a)' <=> UsesStore(r, a)
                       /\ Reindexing(r, a)' <=> Reindexing(r, a)
                       /\ UsesStore(r, a) => call'[r] = call[r]
                       /\ call'[r].op \in OnAgent => call'[r] = call[r]
  BY <1>0 DEF Moves, Creating, UsesStore, Reindexing, OnAgent
<1>2. \A r \in Slots, v \in Stores :
        (Lists(r, a, v)' <=> Lists(r, a, v)) /\ (Lists(r, a, v) => call'[r] = call[r])
  BY <1>0 DEF Moves, Lists
<1>3. \A stages : \A r \in Slots :
        /\ DeletesTenantOf(r, a, stages)' <=> DeletesTenantOf(r, a, stages)
        /\ DeletesAgent(r, a, stages)' <=> DeletesAgent(r, a, stages)
  BY <1>0 DEF DeletesTenantOf, DeletesAgent, Moves
<1>4. CASE a # b
  <2>1. agents'[a] = agents[a]
    BY <1>0, <1>4 DEF InsertAgent, TypeOK, StoreTypeOK
  <2>2. LooksAround(s, a)
    BY <1>0, <2>1 DEF LooksAround
  <2> QED BY <2>2, LookingAround
<1>5. CASE a = b
  <2>1. /\ Fresh(a) /\ Creating(s, a)
        /\ \A v \in Stores : vectors[a][v] = {}
        /\ documents[a] = {} /\ job.on # a
        /\ \A r \in Slots : call[r].op \in OnAgent => call[r].on # a
        /\ \A r \in Slots, v \in Stores : ~Lists(r, a, v)
    BY <1>0, <1>5 DEF Creating, Fresh, Known
  <2>2. ~Fresh(a)'
    BY <1>0, <1>1, <2>1 DEF Fresh, Known
  <2>3. Known(a)'
    BY <1>0, <1>1, <1>2, <2>2 DEF Known
  <2>4. \A r \in Slots : ~UsesStore(r, a)
    BY <2>1 DEF UsesStore, OnAgent
  <2>5. agents'[a] \in Configs \cup {NoAgent}
    BY <1>5 DEF InsertAgent, TypeOK, StoreTypeOK
  <2>6. ASSUME a \notin moved' PROVE OneStore(a)'
    <3>1. CASE agents'[a] = NoAgent
      <4>1. PICK store \in Stores : StaysIn(a, store)
        BY <1>0, <2>6 DEF Placed, OneStore
      <4>2. StaysIn(a, store)'
        BY <1>0, <1>1, <1>2, <2>1, <2>4, <3>1 DEF StaysIn, Exists
      <4> QED BY <4>2 DEF OneStore
    <3>2. CASE agents'[a] # NoAgent
      <4>1. PICK store \in Stores : agents'[a].store = store
        BY <2>5, <3>2, ConfigAssumption DEF AgentConfigs
      <4>2. StaysIn(a, store)'
        BY <4>1, <1>0, <1>1, <1>2, <2>1, <2>4 DEF StaysIn
      <4> QED BY <4>1, <4>2 DEF OneStore
    <3> QED BY <3>1, <3>2
  <2>7. ASSUME a \notin leftover' PROVE Removed(a)'
    <3>1. ~ \/ OwnerOf[b] \notin tenants
            \/ \E r \in Running("delete_tenant", {"documents", "tenant"}) : call[r].on = OwnerOf[b]
      BY <1>5, <2>7 DEF InsertAgent
    <3>2. OwnerOf[a] \in tenants /\ \A r \in Slots : ~DeletesTenantOf(r, a, {"documents", "tenant"})
      BY <1>5, <3>1 DEF DeletesTenantOf, Running
    <3> QED BY <1>0, <1>3, <2>1, <3>2 DEF Removed
  <2>8. Cleared(a)'
    BY <1>0, <2>1 DEF Cleared, Empty
  <2>9. SameProvider(a)'
    <3>1. agents'[a] # NoAgent => agents'[a].store \in Stores
      BY <2>5, ConfigAssumption DEF AgentConfigs
    <3> QED BY <1>0, <2>1, <3>1 DEF SameProvider, Exists
  <2> QED BY <2>3, <2>6, <2>7, <2>8, <2>9 DEF Placed
<1> QED BY <1>4, <1>5

-----------------------------------------------------------------------------
(* Requests that only look, and requests about one agent. *)

\* Requests that only read, or are about something else than agents.
Bystands(s) ==
    \/ \E t \in Tenants : StartRegistration(s, t) \/ StartDeletion(s, t)
    \/ InsertTenant(s)
    \/ \E a \in Agents :
          \/ StartReplacement(s, a) \/ StartEvaluation(s, a) \/ StartUpload(s, a)
          \/ \E patch \in Patches : StartUpdate(s, a, patch)
    \/ FindDocuments(s) \/ DeleteDatasets(s) \/ InsertDataset(s)
    \/ ReadEvaluated(s) \/ AskQuestions(s) \/ ReadBaseline(s) \/ RecordExperiment(s)
    \/ CallRaises(s)

\* A step of a call that is about no agent's store keeps agent a placed.
LEMMA BystandersPlaced ==
    ASSUME TypeOK, NEW a \in Agents, Placed(a), NEW s \in Slots, Bystands(s)
    PROVE  Placed(a)'
<1> SUFFICES LooksAround(s, a)
  BY LookingAround
<1>0. CallTypeOK /\ Idle.op = "idle"
  BY DEF TypeOK, Idle
<1>1. ASSUME NEW t \in Tenants, StartRegistration(s, t) PROVE LooksAround(s, a)
  <2>1. Begins(s, [Idle EXCEPT !.op = "register", !.at = "insert", !.on = t])
    BY <1>1 DEF StartRegistration
  <2>2. Moves(s) /\ call[s] = Idle /\ call'[s].op = "register"
    BY <1>0, <2>1, Opening DEF Stages
  <2> QED BY <1>0, <1>1, <2>1, <2>2 DEF StartRegistration, Begins, LooksAround, storeVars, historyVars
<1>2. ASSUME NEW t \in Tenants, StartDeletion(s, t) PROVE LooksAround(s, a)
  <2>1. Begins(s, [Idle EXCEPT !.op = "delete_tenant", !.at = "list", !.on = t])
    BY <1>2 DEF StartDeletion
  <2>2. /\ Moves(s) /\ call[s] = Idle
        /\ call'[s].op = "delete_tenant" /\ call'[s].at = "list" /\ call'[s].listed = {}
    BY <1>0, <2>1, Opening DEF Stages
  <2> QED BY <1>0, <1>2, <2>1, <2>2 DEF StartDeletion, Begins, LooksAround, storeVars, historyVars
<1>3. CASE InsertTenant(s)
  BY <1>0, <1>3, Ending DEF InsertTenant, LooksAround, Doing, countVars, historyVars
<1>4. ASSUME NEW b \in Agents, StartReplacement(s, b) \/ StartEvaluation(s, b) \/ StartUpload(s, b)
      PROVE  /\ Exists(b) /\ call[s] = Idle /\ issued' = issued
             /\ UNCHANGED storeVars /\ UNCHANGED historyVars
             /\ Moves(s) /\ call'[s].op \in {"replace", "evaluate", "upload"} /\ call'[s].on = b
  <2>1. CASE StartReplacement(s, b)
    <3> DEFINE c == [Idle EXCEPT !.op = "replace", !.at = "delete", !.on = b]
    <3>1. Begins(s, c)
      BY <2>1 DEF StartReplacement
    <3>2. c \in Calls /\ c.op = "replace" /\ c.on = b
      BY IdleTyped DEF Calls, Idle, Ops, Stages
    <3> HIDE DEF c
    <3>3. Moves(s) /\ call'[s] = c /\ call[s] = Idle
      BY <1>0, <3>1, <3>2, Beginning
    <3> QED BY <2>1, <3>1, <3>2, <3>3 DEF StartReplacement, Readable, Begins
  <2>2. CASE StartEvaluation(s, b)
    <3> DEFINE c == [Idle EXCEPT !.op = "evaluate", !.at = "agent", !.on = b]
    <3>1. Begins(s, c)
      BY <2>2 DEF StartEvaluation
    <3>2. c \in Calls /\ c.op = "evaluate" /\ c.on = b
      BY IdleTyped DEF Calls, Idle, Ops, Stages
    <3> HIDE DEF c
    <3>3. Moves(s) /\ call'[s] = c /\ call[s] = Idle
      BY <1>0, <3>1, <3>2, Beginning
    <3> QED BY <2>2, <3>1, <3>2, <3>3 DEF StartEvaluation, Readable, Begins
  <2>3. CASE StartUpload(s, b)
    <3> DEFINE c == [Idle EXCEPT !.op = "upload", !.at = "insert", !.on = b]
    <3>1. Begins(s, c)
      BY <2>3 DEF StartUpload
    <3>2. c \in Calls /\ c.op = "upload" /\ c.on = b
      BY IdleTyped DEF Calls, Idle, Ops, Stages
    <3> HIDE DEF c
    <3>3. Moves(s) /\ call'[s] = c /\ call[s] = Idle
      BY <1>0, <3>1, <3>2, Beginning
    <3> QED BY <2>3, <3>1, <3>2, <3>3 DEF StartUpload, Readable, Begins
  <2> QED BY <1>4, <2>1, <2>2, <2>3
<1>5. ASSUME NEW b \in Agents, StartReplacement(s, b) \/ StartEvaluation(s, b) \/ StartUpload(s, b)
      PROVE  LooksAround(s, a)
  BY <1>0, <1>4, <1>5 DEF LooksAround, storeVars, historyVars
<1>6. ASSUME NEW b \in Agents, NEW patch \in Patches, StartUpdate(s, b, patch)
      PROVE  LooksAround(s, a)
  <2>1. Moves(s) /\ call[s] = Idle /\ Exists(b) /\ call'[s].op = "update" /\ call'[s].on = b
    BY <1>6, StartUpdateEffect
  <2> QED BY <1>0, <1>6, <2>1 DEF StartUpdate, Begins, LooksAround, storeVars, historyVars
<1>7. CASE FindDocuments(s)
  <2>1. Moves(s) /\ SameSubject(s) /\ call[s].op = "update"
    BY <1>7, FindDocumentsEffect DEF FindDocuments, Doing
  <2> QED BY <1>7, <2>1 DEF FindDocuments, LooksAround, SameSubject, storeVars, countVars, historyVars
<1>8. CASE DeleteDatasets(s)
  <2>1. Moves(s) /\ SameSubject(s) /\ call[s].op = "replace"
    BY <1>0, <1>8, Going DEF DeleteDatasets, Doing, Stages
  <2> QED BY <1>8, <2>1 DEF DeleteDatasets, LooksAround, SameSubject, countVars, historyVars
<1>9. CASE InsertDataset(s)
  BY <1>0, <1>9, Ending DEF InsertDataset, LooksAround, Doing, countVars, historyVars
<1>10. CASE ReadEvaluated(s)
  <2>1. Moves(s) /\ call[s].op = "evaluate" /\ (call'[s] = Idle \/ SameSubject(s))
    BY <1>10, ReadEvaluatedEffect DEF ReadEvaluated, Doing
  <2> QED BY <1>0, <1>10, <2>1 DEF ReadEvaluated, LooksAround, SameSubject, storeVars, countVars, historyVars
<1>11. CASE AskQuestions(s)
  <2>1. Moves(s) /\ call[s].op = "evaluate" /\ (call'[s] = Idle \/ SameSubject(s))
    BY <1>11, AskQuestionsEffect DEF AskQuestions, Doing
  <2> QED BY <1>0, <1>11, <2>1 DEF AskQuestions, LooksAround, SameSubject, storeVars, countVars, historyVars
<1>12. CASE ReadBaseline(s)
  <2>1. Moves(s) /\ call[s].op = "evaluate" /\ SameSubject(s)
    BY <1>12, ReadBaselineEffect DEF ReadBaseline, Doing
  <2> QED BY <1>12, <2>1 DEF ReadBaseline, LooksAround, SameSubject, storeVars, countVars, historyVars
<1>13. CASE RecordExperiment(s)
  <2>1. Moves(s) /\ call'[s] = Idle /\ call[s].op = "evaluate"
    BY <1>13, RecordExperimentEffect DEF RecordExperiment, Doing
  <2> QED BY <1>0, <1>13, <2>1 DEF RecordExperiment, LooksAround, countVars, historyVars
<1>14. CASE CallRaises(s)
  BY <1>0, <1>14, Ending DEF CallRaises, LooksAround, Doing, storeVars
<1> QED
  BY <1>1, <1>2, <1>3, <1>5, <1>6, <1>7, <1>8, <1>9, <1>10, <1>11, <1>12, <1>13, <1>14 DEF Bystands

\* A request about a goes on or ends.
ActsOn(s, a) ==
    /\ Moves(s) /\ issued \subseteq issued'
    /\ call[s].op \in OnAgent /\ call[s].on = a
    /\ \/ call'[s].op = "idle"
       \/ SameSubject(s) /\ call'[s].agent = call[s].agent

\* A call that acts on agent a uses no store it did not use before, and changes no other call's list.
LEMMA ActingOn ==
    ASSUME NEW a \in Agents, Known(a), NEW s \in Slots, ActsOn(s, a)
    PROVE  /\ Known(a)'
           /\ \A r \in Slots : UsesStore(r, a)' => UsesStore(r, a) /\ call'[r].agent = call[r].agent
           /\ \A r \in Slots, v \in Stores :
                 /\ Lists(r, a, v)' <=> Lists(r, a, v)
                 /\ Lists(r, a, v) => call'[r] = call[r]
           /\ \A stages : \A r \in Slots :
                 /\ DeletesTenantOf(r, a, stages)' <=> DeletesTenantOf(r, a, stages)
                 /\ r # s => (DeletesAgent(r, a, stages)' <=> DeletesAgent(r, a, stages))
           /\ \A r \in Slots \ {s} : Reindexing(r, a)' => Reindexing(r, a)
           /\ call'[s].op = "idle" => /\ \A stages : ~DeletesAgent(s, a, stages)'
                                      /\ ~Reindexing(s, a)'
<1>1. \A r \in Slots : Creating(r, a)' <=> Creating(r, a)
  BY DEF ActsOn, Moves, SameSubject, Creating, OnAgent
<1>2. ~Fresh(a) /\ ~Fresh(a)'
  BY <1>1 DEF Known, ActsOn, Fresh
<1>3. \A r \in Slots, v \in Stores :
        /\ Lists(r, a, v)' <=> Lists(r, a, v)
        /\ Lists(r, a, v) => call'[r] = call[r]
  BY DEF ActsOn, Moves, SameSubject, Lists, OnAgent
<1>4. Known(a)'
  BY <1>1, <1>2, <1>3 DEF Known, Fresh
<1>5. \A r \in Slots : UsesStore(r, a)' => UsesStore(r, a) /\ call'[r].agent = call[r].agent
  BY DEF ActsOn, Moves, SameSubject, UsesStore
<1>6. \A stages : \A r \in Slots :
        /\ DeletesTenantOf(r, a, stages)' <=> DeletesTenantOf(r, a, stages)
        /\ r # s => (DeletesAgent(r, a, stages)' <=> DeletesAgent(r, a, stages))
  BY DEF ActsOn, Moves, SameSubject, DeletesTenantOf, DeletesAgent, OnAgent
<1>7. /\ \A r \in Slots \ {s} : Reindexing(r, a)' => Reindexing(r, a)
      /\ call'[s].op = "idle" => ~Reindexing(s, a)' /\ \A stages : ~DeletesAgent(s, a, stages)'
  BY DEF ActsOn, Moves, Reindexing, DeletesAgent
<1> QED BY <1>3, <1>4, <1>5, <1>6, <1>7

\* The agent is read at the start of its deletion, or of its reindexing.
LEMMA StartsOnAgentPlaced ==
    ASSUME TypeOK, NEW a \in Agents, Placed(a), NEW s \in Slots, NEW b \in Agents,
           StartAgentDeletion(s, b) \/ StartReindex(s, b)
    PROVE  Placed(a)'
<1>0. /\ agents' = agents /\ vectors' = vectors /\ job' = job /\ documents' = documents
      /\ issued' = issued /\ tenants' = tenants
      /\ raced' = raced /\ moved' = moved /\ leftover' = leftover /\ Exists(b)
  BY DEF StartAgentDeletion, StartReindex, Begins, storeVars, historyVars, Readable
<1>2. /\ Moves(s) /\ call[s].op = "idle" /\ call'[s].on = b /\ call'[s].agent = agents[b]
      /\ \/ call'[s].op = "delete_agent" /\ call'[s].at = "namespace"
         \/ call'[s].op = "reindex" /\ call'[s].at = "wipe"
  BY StartsOnAgentEffect DEF Idle
<1>3. CASE a # b
  <2>1. LooksAround(s, a)
    BY <1>0, <1>2, <1>3 DEF LooksAround, OnAgent
  <2> QED BY <2>1, LookingAround
<1>4. CASE a = b
  <2>1. \A r \in Slots : Creating(r, a)' <=> Creating(r, a)
    BY <1>2 DEF Moves, Creating
  <2>2. ~Fresh(a)' /\ Known(a)
    BY <1>0, <1>4, <2>1 DEF Placed, Known, Fresh
  <2>3. \A r \in Slots, v \in Stores :
          /\ Lists(r, a, v)' <=> Lists(r, a, v)
          /\ Lists(r, a, v) => call'[r] = call[r]
    BY <1>2 DEF Moves, Lists
  <2>4. Known(a)'
    BY <1>0, <2>1, <2>2, <2>3 DEF Known
  <2>5. ASSUME a \notin moved' PROVE OneStore(a)'
    <3>1. PICK store \in Stores : StaysIn(a, store)
      BY <1>0, <2>5 DEF Placed, OneStore
    <3>2. \A r \in Slots : UsesStore(r, a)' =>
            (UsesStore(r, a) /\ call'[r] = call[r]) \/ call'[r].agent = agents[a]
      BY <1>2, <1>4 DEF UsesStore, Moves
    <3>3. StaysIn(a, store)'
      BY <1>0, <1>4, <2>3, <3>1, <3>2 DEF StaysIn, Exists
    <3> QED BY <3>3 DEF OneStore
  <2>6. \A stages : \A r \in Slots :
          /\ DeletesTenantOf(r, a, stages)' <=> DeletesTenantOf(r, a, stages)
          /\ "namespace" \notin stages => (DeletesAgent(r, a, stages)' <=> DeletesAgent(r, a, stages))
    BY <1>2 DEF Moves, DeletesTenantOf, DeletesAgent
  <2>7. ASSUME a \notin leftover' PROVE Removed(a)'
    BY <1>0, <2>6, <2>7 DEF Removed, Exists, Placed
  <2>8. ASSUME a \notin leftover' \cup moved' PROVE Cleared(a)'
    BY <1>0, <2>3, <2>6, <2>8 DEF Cleared, Exists, Placed, Empty
  <2>9. ASSUME a \notin leftover' \cup moved' \cup raced' PROVE SameProvider(a)'
    <3>1. \A r \in Slots : Reindexing(r, a)' => Reindexing(r, a)
      BY <1>2 DEF Reindexing, Moves
    <3> QED BY <1>0, <2>9, <3>1 DEF Placed, SameProvider, Exists
  <2> QED BY <2>4, <2>5, <2>7, <2>8, <2>9 DEF Placed
<1> QED BY <1>3, <1>4

\* update_agent's write keeps agent a placed, whichever store it moves the agent to.
LEMMA WritePatchPlaced ==
    ASSUME TypeOK, NEW a \in Agents, Placed(a), NEW s \in Slots, WritePatch(s)
    PROVE  Placed(a)'
<1> DEFINE b == call[s].on
           patch == call[s].patch
           new == [Merged(agents[b], patch) EXCEPT !.mismatch = @ \/ Flags(s)]
<1>0. /\ vectors' = vectors /\ job' = job /\ documents' = documents
      /\ issued' = issued /\ tenants' = tenants /\ leftover' = leftover
      /\ Moves(s) /\ call'[s].op = "idle" /\ call[s].op = "update"
      /\ b \in Agents /\ patch \in Patches
      /\ raced \subseteq raced' /\ moved \subseteq moved'
  BY Ending DEF WritePatch, countVars, TypeOK, CallTypeOK, CallOK, Idle, Doing, OnAgent
<1>1. CASE a # b \/ ~Exists(b)
  <2>1. agents'[a] = agents[a]
    BY <1>0, <1>1 DEF WritePatch, TypeOK, StoreTypeOK
  <2>2. LooksAround(s, a)
    BY <1>0, <2>1 DEF LooksAround
  <2> QED BY <2>2, LookingAround
<1>2. CASE a = b /\ Exists(b)
  <2>1. /\ agents'[a] = new
        /\ DecidedOnStaleRead(s) => a \in raced'
        /\ new.store # agents[a].store => a \in moved'
    BY <1>0, <1>2 DEF WritePatch, TypeOK, StoreTypeOK
  <2>2. agents[a] \in AgentConfigs
    BY <1>2 DEF Exists, TypeOK, StoreTypeOK
  <2>3. /\ new \in AgentConfigs
        /\ new.mismatch <=> agents[a].mismatch \/ Flags(s)
        /\ new.provider = IF "provider" \in DOMAIN patch THEN patch.provider ELSE agents[a].provider
    <3> DEFINE m == Merged(agents[a], patch)
    <3>1. /\ m \in AgentConfigs /\ m.mismatch = agents[a].mismatch
          /\ m.provider = IF "provider" \in DOMAIN patch THEN patch.provider ELSE agents[a].provider
      BY <1>0, <2>2, PatchMerges
    <3>2. Flags(s) \in BOOLEAN
      BY DEF Flags, ChangesProvider, Changes
    <3> DEFINE flag == m.mismatch \/ Flags(s)
    <3>3. new = [m EXCEPT !.mismatch = flag] /\ flag \in BOOLEAN
      BY <1>2
    <3> HIDE DEF m, new, flag
    <3>4. new \in AgentConfigs /\ new.mismatch = flag /\ new.provider = m.provider
      BY <3>1, <3>3 DEF AgentConfigs
    <3> QED BY <3>1, <3>4 DEF flag
  <2> HIDE DEF new
  <2>4. Exists(a)'
    BY <2>1, <2>3, ConfigsExist DEF Exists
  <2>5. ActsOn(s, a) /\ Known(a)
    BY <1>0, <1>2 DEF ActsOn, OnAgent, Placed
  <2>6. ASSUME a \notin moved' PROVE OneStore(a)'
    <3>1. PICK store \in Stores : StaysIn(a, store)
      BY <1>0, <2>6 DEF Placed, OneStore
    <3>2. StaysIn(a, store)'
      BY <1>0, <1>2, <2>1, <2>5, <2>6, <3>1, ActingOn DEF StaysIn
    <3> QED BY <3>2 DEF OneStore
  <2>7. \A r \in Slots : /\ DeletesAgent(r, a, {"agent"})' => DeletesAgent(r, a, {"agent"})
                         /\ DeletesAgent(r, a, {"documents", "agent"})' => DeletesAgent(r, a, {"documents", "agent"})
    BY <1>0, <2>5, ActingOn
  <2>8. ASSUME a \notin leftover' PROVE Removed(a)'
    <3>1. Removed(a)
      BY <1>0, <2>8 DEF Placed
    <3> QED BY <1>0, <1>2, <2>4, <2>5, <2>7, <3>1, ActingOn DEF Removed
  <2>9. ASSUME a \notin leftover' \cup moved' PROVE Cleared(a)'
    <3>1. Cleared(a)
      BY <1>0, <2>9 DEF Placed
    <3> QED BY <1>0, <1>2, <2>4, <2>7, <3>1 DEF Cleared, Empty
  <2>10. ASSUME a \notin leftover' \cup moved' \cup raced' PROVE SameProvider(a)'
    <3>1. SameProvider(a) /\ Cleared(a)
      BY <1>0, <2>10 DEF Placed
    <3>2. new.store = agents[a].store /\ ~DecidedOnStaleRead(s)
      BY <2>1, <2>10
    <3>3. \A r \in Slots : Reindexing(r, a)' => Reindexing(r, a) /\ call[r].op = "reindex" /\ call[r].on = a
      BY <1>0, <2>5, ActingOn DEF Reindexing
    <3>4. CASE new.provider = agents[a].provider
      <4>1. new.mismatch \/ ~agents[a].mismatch \/ \A r \in Slots : ~Reindexing(r, a)' \/ Reindexing(r, a)
        BY <3>3
      <4> QED BY <1>0, <1>2, <2>1, <2>3, <3>1, <3>2, <3>3, <3>4 DEF SameProvider
    <3>5. CASE new.provider # agents[a].provider
      <4>1. "provider" \in DOMAIN patch /\ patch["provider"] # agents[a].provider
        BY <2>3, <3>5
      <4>2. call[s].agent.provider = agents[a].provider
        BY <1>2, <3>2, <4>1 DEF DecidedOnStaleRead
      <4>3. ChangesProvider(s)
        BY <4>1, <4>2 DEF ChangesProvider, Changes
      <4>4. \A r \in Slots : ~Reindexing(r, a)'
        BY <1>2, <3>2, <3>3, <4>1 DEF DecidedOnStaleRead
      <4>5. ~new.mismatch => call[s].listed = {}
        BY <2>3, <4>3 DEF Flags
      <4>6. ~new.mismatch => documents[a] = {} /\ job.on # a
        BY <1>2, <3>2, <4>1, <4>3, <4>5 DEF DecidedOnStaleRead
      <4>7. ~new.mismatch => \A v \in Stores : vectors[a][v] = {}
        BY <1>2, <3>1, <4>6 DEF Cleared, Empty
      <4>8. new.store \in Stores
        BY <2>3 DEF AgentConfigs
      <4> QED BY <1>0, <2>1, <4>4, <4>6, <4>7, <4>8 DEF SameProvider
    <3> QED BY <3>4, <3>5
  <2> QED BY <2>5, <2>6, <2>8, <2>9, <2>10, ActingOn DEF Placed
<1> QED BY <1>1, <1>2

\* The steps of a request that started on an agent, and what each changes of that agent.
LEMMA AgentRequests ==
    ASSUME TypeOK, NEW s \in Slots,
           \/ DeleteNamespace(s) \/ DeleteAgentDocuments(s) \/ DeleteAgent(s)
           \/ WipeNamespace(s) \/ Requeue(s) \/ ResetFlag(s)
           \/ \E d \in Docs : InsertDocument(s, d)
    PROVE  /\ Moves(s) /\ job' = job /\ tenants' = tenants /\ moved' = moved
           /\ call[s].op \in {"delete_agent", "reindex", "upload"} /\ call[s].on \in Agents
           /\ issued \subseteq issued' /\ raced \subseteq raced' /\ leftover \subseteq leftover'
           /\ call'[s].op = "idle" \/ (SameSubject(s) /\ call'[s].agent = call[s].agent)
           /\ \A b \in Agents \ {call[s].on} :
                 agents'[b] = agents[b] /\ documents'[b] = documents[b] /\ vectors'[b] = vectors[b]
<1>0. CallTypeOK /\ StoreTypeOK /\ CallOK(call[s]) /\ Idle.op = "idle"
  BY DEF TypeOK, Idle, CallTypeOK
<1>1. CASE DeleteNamespace(s)
  <2>1. Moves(s) /\ SameSubject(s) /\ call'[s].agent = call[s].agent
    BY <1>0, <1>1, Going DEF DeleteNamespace, Stages
  <2> QED BY <1>0, <1>1, <2>1 DEF DeleteNamespace, Doing, CallOK, OnAgent, countVars, historyVars, StoreTypeOK
<1>2. CASE DeleteAgentDocuments(s)
  <2>1. Moves(s) /\ SameSubject(s) /\ call'[s].agent = call[s].agent
    BY <1>0, <1>2, Going DEF DeleteAgentDocuments, Stages
  <2> QED BY <1>0, <1>2, <2>1 DEF DeleteAgentDocuments, Doing, CallOK, OnAgent, countVars, historyVars, StoreTypeOK
<1>3. CASE DeleteAgent(s)
  <2>1. Moves(s) /\ call'[s] = Idle
    BY <1>0, <1>3, Ending DEF DeleteAgent
  <2> QED BY <1>0, <1>3, <2>1 DEF DeleteAgent, Doing, CallOK, OnAgent, countVars, historyVars, StoreTypeOK
<1>4. CASE WipeNamespace(s)
  <2>1. Moves(s) /\ SameSubject(s) /\ call'[s].agent = call[s].agent
    BY <1>0, <1>4, Going DEF WipeNamespace, Stages
  <2> QED BY <1>0, <1>4, <2>1 DEF WipeNamespace, Doing, CallOK, OnAgent, countVars, StoreTypeOK
<1>5. CASE Requeue(s)
  <2>1. Moves(s) /\ SameSubject(s) /\ call'[s].agent = call[s].agent
    BY <1>0, <1>5, Going DEF Requeue, Stages
  <2> QED BY <1>0, <1>5, <2>1 DEF Requeue, Doing, CallOK, OnAgent, countVars, historyVars
<1>6. CASE ResetFlag(s)
  <2>1. Moves(s) /\ call'[s] = Idle
    BY <1>0, <1>6, Ending DEF ResetFlag
  <2> QED BY <1>0, <1>6, <2>1 DEF ResetFlag, Doing, CallOK, OnAgent, countVars, historyVars, StoreTypeOK
<1>7. ASSUME NEW d \in Docs, InsertDocument(s, d)
      PROVE  /\ Moves(s) /\ job' = job /\ tenants' = tenants /\ moved' = moved
             /\ call[s].op = "upload" /\ call[s].on \in Agents
             /\ issued \subseteq issued' /\ raced \subseteq raced' /\ leftover \subseteq leftover'
             /\ call'[s].op = "idle"
             /\ \A b \in Agents \ {call[s].on} :
                   agents'[b] = agents[b] /\ documents'[b] = documents[b] /\ vectors'[b] = vectors[b]
  <2>1. Moves(s) /\ call'[s] = Idle
    BY <1>0, <1>7, Ending DEF InsertDocument
  <2> QED BY <1>0, <1>7, <2>1 DEF InsertDocument, Doing, CallOK, OnAgent, StoreTypeOK
<1> QED BY <1>1, <1>2, <1>3, <1>4, <1>5, <1>6, <1>7

\* Such a step leaves the other agents alone.
LEMMA OtherAgentsPlaced ==
    ASSUME TypeOK, NEW a \in Agents, Placed(a), NEW s \in Slots, call[s].on # a,
           \/ DeleteNamespace(s) \/ DeleteAgentDocuments(s) \/ DeleteAgent(s)
           \/ WipeNamespace(s) \/ Requeue(s) \/ ResetFlag(s)
           \/ \E d \in Docs : InsertDocument(s, d)
    PROVE  Placed(a)'
<1>1. LooksAround(s, a)
  BY AgentRequests DEF LooksAround, SameSubject, OnAgent
<1> QED BY <1>1, LookingAround

\* A step of s about a itself, with what it has to show.
LEMMA OwnAgentPlaced ==
    ASSUME TypeOK, NEW a \in Agents, Placed(a), NEW s \in Slots, ActsOn(s, a), job' = job,
           tenants' = tenants, moved \subseteq moved', raced \subseteq raced', leftover \subseteq leftover',
           Exists(a)' => Exists(a) /\ agents'[a].store = agents[a].store,
           \A v \in Stores : vectors'[a][v] \subseteq vectors[a][v],
           a \notin leftover' /\ Removed(a) => Removed(a)',
           a \notin leftover' \cup moved' /\ Removed(a) /\ Cleared(a) /\ OneStore(a) => Cleared(a)',
           a \notin leftover' \cup moved' \cup raced' /\ SameProvider(a) /\ OneStore(a) => SameProvider(a)'
    PROVE  Placed(a)'
<1>1. Known(a) /\ Known(a)'
  BY ActingOn DEF Placed
<1>2. ASSUME a \notin moved' PROVE OneStore(a) /\ OneStore(a)'
  <2>1. PICK store \in Stores : StaysIn(a, store)
    BY <1>2 DEF Placed, OneStore
  <2>2. StaysIn(a, store)'
    BY <1>1, <2>1, ActingOn DEF StaysIn
  <2> QED BY <2>1, <2>2 DEF OneStore
<1> QED BY <1>1, <1>2 DEF Placed

\* delete_agent's deletion of the namespace keeps agent a placed.
LEMMA DeleteNamespacePlaced ==
    ASSUME TypeOK, NEW a \in Agents, Placed(a), NEW s \in Slots, DeleteNamespace(s)
    PROVE  Placed(a)'
<1>1. CASE call[s].on # a
  BY <1>1, OtherAgentsPlaced
<1>2. CASE call[s].on = a
  <2>0. /\ agents' = agents /\ documents' = documents /\ job' = job /\ tenants' = tenants
        /\ issued' = issued /\ raced' = raced /\ moved' = moved /\ leftover' = leftover
        /\ call[s].op = "delete_agent" /\ call'[s].at = "documents" /\ Known(a)
        /\ \A v \in Stores : vectors'[a][v] = IF v = call[s].agent.store THEN {} ELSE vectors[a][v]
    BY <1>2, Going DEF DeleteNamespace, Doing, countVars, historyVars, Placed, TypeOK, StoreTypeOK, Stages
  <2>1. ActsOn(s, a)
    BY <1>2, <2>0, AgentRequests DEF ActsOn, OnAgent
  <2>2. \A r \in Slots : DeletesAgent(r, a, {"agent"})' => DeletesAgent(r, a, {"agent"})
    <3>1. ~DeletesAgent(s, a, {"agent"})'
      BY <2>0 DEF DeletesAgent
    <3> QED BY <2>0, <2>1, <3>1, ActingOn
  <2>3. Removed(a) => Removed(a)'
    BY <2>0, <2>1, <2>2, ActingOn DEF Removed, Exists
  <2>4. OneStore(a) => Empty(a)'
    BY <1>2, <2>0 DEF OneStore, StaysIn, UsesStore, Empty
  <2>5. OneStore(a) => Cleared(a)'
    BY <2>4 DEF Cleared
  <2>6. \A r \in Slots : ~Reindexing(s, a)' /\ (Reindexing(r, a)' => Reindexing(r, a))
    BY <2>0, <2>1, ActingOn DEF Reindexing, ActsOn, SameSubject
  <2>7. SameProvider(a) /\ OneStore(a) => SameProvider(a)'
    <3>1. Exists(a) => agents[a].store \in Stores
      BY DEF TypeOK, StoreTypeOK, Exists, AgentConfigs
    <3> QED BY <2>0, <2>6, <3>1 DEF SameProvider, Exists
  <2>8. /\ Exists(a)' => Exists(a) /\ agents'[a].store = agents[a].store
        /\ \A v \in Stores : vectors'[a][v] \subseteq vectors[a][v]
    BY <2>0 DEF Exists
  <2> QED BY <2>0, <2>1, <2>3, <2>5, <2>7, <2>8, OwnAgentPlaced
<1> QED BY <1>1, <1>2

\* delete_agent's deletion of the documents keeps agent a placed.
LEMMA DeleteAgentDocumentsPlaced ==
    ASSUME TypeOK, NEW a \in Agents, Placed(a), NEW s \in Slots, DeleteAgentDocuments(s)
    PROVE  Placed(a)'
<1>1. CASE call[s].on # a
  BY <1>1, OtherAgentsPlaced
<1>2. CASE call[s].on = a
  <2>0. /\ agents' = agents /\ vectors' = vectors /\ job' = job /\ tenants' = tenants
        /\ issued' = issued /\ raced' = raced /\ moved' = moved /\ leftover' = leftover
        /\ call[s].op = "delete_agent" /\ call[s].at = "documents" /\ call'[s].at = "agent"
        /\ Known(a) /\ documents'[a] = {}
    BY <1>2, Going DEF DeleteAgentDocuments, Doing, countVars, historyVars, Placed, TypeOK, StoreTypeOK, Stages
  <2>1. ActsOn(s, a)
    BY <1>2, <2>0, AgentRequests DEF ActsOn, OnAgent
  <2>2. Removed(a) => Removed(a)'
    BY <2>0, <2>1, ActingOn DEF Removed, Exists
  <2>3. Cleared(a) => Cleared(a)'
    <3>1. DeletesAgent(s, a, {"documents", "agent"})
      BY <1>2, <2>0 DEF DeletesAgent
    <3> QED BY <2>0, <3>1 DEF Cleared, Empty
  <2>4. \A r \in Slots : Reindexing(r, a)' => Reindexing(r, a)
    BY <2>0, <2>1, ActingOn DEF Reindexing, ActsOn, SameSubject
  <2>5. SameProvider(a) => SameProvider(a)'
    BY <2>0, <2>4 DEF SameProvider, Exists
  <2>6. /\ Exists(a)' => Exists(a) /\ agents'[a].store = agents[a].store
        /\ \A v \in Stores : vectors'[a][v] \subseteq vectors[a][v]
    BY <2>0 DEF Exists
  <2> QED BY <2>0, <2>1, <2>2, <2>3, <2>5, <2>6, OwnAgentPlaced
<1> QED BY <1>1, <1>2

\* delete_agent's deletion of the agent keeps agent a placed.
LEMMA DeleteAgentPlaced ==
    ASSUME TypeOK, NEW a \in Agents, Placed(a), NEW s \in Slots, DeleteAgent(s)
    PROVE  Placed(a)'
<1>1. CASE call[s].on # a
  BY <1>1, OtherAgentsPlaced
<1>2. CASE call[s].on = a
  <2>0. /\ documents' = documents /\ vectors' = vectors /\ job' = job /\ tenants' = tenants
        /\ issued' = issued /\ raced' = raced /\ moved' = moved /\ leftover' = leftover
        /\ call[s].op = "delete_agent" /\ call[s].at = "agent" /\ call'[s].op = "idle"
        /\ Known(a) /\ agents'[a] \in {agents[a], NoAgent}
    BY <1>2, Ending DEF DeleteAgent, Doing, countVars, historyVars, Placed, TypeOK, StoreTypeOK, Idle
  <2>1. ActsOn(s, a)
    BY <1>2, <2>0, AgentRequests DEF ActsOn, OnAgent
  <2>2. Exists(a)' => Exists(a) /\ agents'[a] = agents[a]
    BY <2>0 DEF Exists
  <2>3. DeletesAgent(s, a, {"agent"}) /\ DeletesAgent(s, a, {"documents", "agent"})
    BY <1>2, <2>0 DEF DeletesAgent
  <2>4. Removed(a) => Removed(a)'
    <3>1. Removed(a) => documents[a] = {}
      BY <2>3 DEF Removed
    <3> QED BY <2>0, <2>1, <2>2, <3>1, ActingOn DEF Removed
  <2>5. Cleared(a) => Cleared(a)'
    BY <2>0, <2>3 DEF Cleared, Empty
  <2>6. \A r \in Slots : Reindexing(r, a)' => Reindexing(r, a)
    BY <2>0, <2>1, ActingOn
  <2>7. SameProvider(a) => SameProvider(a)'
    BY <2>0, <2>2, <2>6 DEF SameProvider
  <2>8. \A v \in Stores : vectors'[a][v] \subseteq vectors[a][v]
    BY <2>0
  <2> QED BY <2>0, <2>1, <2>2, <2>4, <2>5, <2>7, <2>8, OwnAgentPlaced
<1> QED BY <1>1, <1>2

\* The insert of an uploaded document keeps agent a placed.
LEMMA InsertDocumentPlaced ==
    ASSUME TypeOK, NEW a \in Agents, Placed(a), NEW s \in Slots, NEW d \in Docs, InsertDocument(s, d)
    PROVE  Placed(a)'
<1>1. CASE call[s].on # a
  BY <1>1, OtherAgentsPlaced
<1>2. CASE call[s].on = a
  <2>0. /\ agents' = agents /\ vectors' = vectors /\ job' = job /\ tenants' = tenants
        /\ raced' = raced /\ moved' = moved /\ leftover \subseteq leftover'
        /\ call[s].op = "upload" /\ call'[s].op = "idle"
        /\ Known(a) /\ documents'[a] # {}
        /\ DocumentsGone(a) => a \in leftover'
    BY <1>2, Ending DEF InsertDocument, Doing, Placed, TypeOK, StoreTypeOK, Idle
  <2>1. ActsOn(s, a)
    BY <1>2, <2>0, AgentRequests DEF ActsOn, OnAgent
  <2>2. \A r \in Slots : DeletesAgent(r, a, {"agent"}) => DocumentsGone(a)
    BY DEF DeletesAgent, DocumentsGone, Running
  <2>3. ~DocumentsGone(a) => Exists(a) \/ \E r \in Slots : DeletesTenantOf(r, a, {"documents"})
    BY DEF DocumentsGone, DeletesTenantOf, Running
  <2>4. /\ Exists(a)' <=> Exists(a)
        /\ \A v \in Stores : vectors'[a][v] \subseteq vectors[a][v]
    BY <2>0 DEF Exists
  <2>5. \A stages : \A r \in Slots : DeletesAgent(r, a, stages)' => DeletesAgent(r, a, stages)
    BY <2>0, <2>1, ActingOn
  <2>6. a \notin leftover' /\ Removed(a) => Removed(a)'
    BY <2>0, <2>1, <2>2, <2>3, <2>4, <2>5, ActingOn DEF Removed
  <2>7. Cleared(a) => Cleared(a)'
    BY <2>0, <2>1, <2>4, <2>5, ActingOn DEF Cleared, Empty
  <2>8. \A r \in Slots : Reindexing(r, a)' => Reindexing(r, a)
    BY <2>0, <2>1, ActingOn
  <2>9. SameProvider(a) => SameProvider(a)'
    BY <2>0, <2>4, <2>8 DEF SameProvider
  <2> QED BY <2>0, <2>1, <2>4, <2>6, <2>7, <2>9, OwnAgentPlaced
<1> QED BY <1>1, <1>2

\* A reindexing's wipe of a namespace keeps agent a placed.
LEMMA WipeNamespacePlaced ==
    ASSUME TypeOK, NEW a \in Agents, Placed(a), NEW s \in Slots, WipeNamespace(s)
    PROVE  Placed(a)'
<1>1. CASE call[s].on # a
  BY <1>1, OtherAgentsPlaced
<1>2. CASE call[s].on = a
  <2>0. /\ agents' = agents /\ documents' = documents /\ job' = job /\ tenants' = tenants
        /\ issued' = issued /\ raced \subseteq raced' /\ moved' = moved /\ leftover' = leftover
        /\ call[s].op = "reindex" /\ call'[s].op = "reindex" /\ Known(a)
        /\ \A v \in Stores : vectors'[a][v] = IF v = call[s].agent.store THEN {} ELSE vectors[a][v]
        /\ Exists(a) /\ job.on = a /\ job.agent.provider # agents[a].provider => a \in raced'
    BY <1>2, Going DEF WipeNamespace, Doing, countVars, Placed, TypeOK, StoreTypeOK, Stages, SameSubject
  <2>1. ActsOn(s, a)
    BY <1>2, <2>0, AgentRequests DEF ActsOn, OnAgent
  <2>2. /\ Exists(a)' <=> Exists(a)
        /\ \A v \in Stores : vectors'[a][v] \subseteq vectors[a][v]
    BY <2>0 DEF Exists
  <2>3. \A stages : \A r \in Slots : DeletesAgent(r, a, stages)' => DeletesAgent(r, a, stages)
    <3>1. \A stages : ~DeletesAgent(s, a, stages)'
      BY <2>0 DEF DeletesAgent
    <3> QED BY <2>0, <2>1, <3>1, ActingOn
  <2>4. Removed(a) => Removed(a)'
    BY <2>0, <2>1, <2>2, <2>3, ActingOn DEF Removed
  <2>5. Empty(a) => Empty(a)'
    BY <2>0 DEF Empty
  <2>6. Cleared(a) => Cleared(a)'
    BY <2>0, <2>1, <2>2, <2>3, <2>5, ActingOn DEF Cleared
  <2>7. a \notin raced' /\ OneStore(a) => SameProvider(a)'
    <3>1. OneStore(a) /\ Exists(a) => agents[a].store = call[s].agent.store
      BY <1>2, <2>0 DEF OneStore, StaysIn, UsesStore
    <3>2. Exists(a) => agents[a].store \in Stores
      BY DEF TypeOK, StoreTypeOK, Exists, AgentConfigs
    <3> QED BY <2>0, <2>2, <3>1, <3>2 DEF SameProvider
  <2> QED BY <2>0, <2>1, <2>2, <2>4, <2>6, <2>7, OwnAgentPlaced
<1> QED BY <1>1, <1>2

\* While a is being reindexed.
LEMMA ReindexPlaced ==
    ASSUME TypeOK, NEW a \in Agents, Placed(a), NEW s \in Slots, Requeue(s) \/ ResetFlag(s)
    PROVE  Placed(a)'
<1>1. CASE call[s].on # a
  BY <1>1, OtherAgentsPlaced
<1>2. CASE call[s].on = a
  <2>0. /\ documents' = documents /\ vectors' = vectors /\ job' = job /\ tenants' = tenants
        /\ issued' = issued /\ raced' = raced /\ moved' = moved /\ leftover' = leftover
        /\ call[s].op = "reindex" /\ call[s].at \in {"requeue", "reset"}
        /\ call'[s].op \in {"reindex", "idle"} /\ Known(a)
    BY <1>2, Going, Ending DEF Requeue, ResetFlag, Doing, countVars, historyVars, Placed, TypeOK,
                               Stages, SameSubject, Idle
  <2>1. ActsOn(s, a) /\ Reindexing(s, a)
    BY <1>2, <2>0, AgentRequests DEF ActsOn, OnAgent, Reindexing
  <2>2. /\ Exists(a)' <=> Exists(a)
        /\ Exists(a) => agents'[a].store = agents[a].store /\ agents'[a].provider = agents[a].provider
    <3>1. CASE agents' = agents
      BY <3>1 DEF Exists
    <3>2. CASE agents' # agents
      <4>1. Exists(a) /\ agents' = [agents EXCEPT ![a] = [agents[a] EXCEPT !.mismatch = FALSE]]
        BY <1>2, <3>2 DEF Requeue, ResetFlag
      <4>2. agents[a] \in AgentConfigs
        BY <4>1 DEF Exists, TypeOK, StoreTypeOK
      <4>3. PICK c \in AgentConfigs : /\ c = [agents[a] EXCEPT !.mismatch = FALSE]
                                      /\ c.store = agents[a].store /\ c.provider = agents[a].provider
        BY <4>2, FlagChanges
      <4>4. agents'[a] = c
        BY <4>1, <4>3 DEF TypeOK, StoreTypeOK
      <4> QED BY <4>1, <4>3, <4>4, ConfigsExist DEF Exists
    <3> QED BY <3>1, <3>2
  <2>3. \A stages : \A r \in Slots : DeletesAgent(r, a, stages)' => DeletesAgent(r, a, stages)
    <3>1. \A stages : ~DeletesAgent(s, a, stages)'
      BY <2>0 DEF DeletesAgent
    <3> QED BY <2>0, <2>1, <3>1, ActingOn
  <2>4. Removed(a) => Removed(a)'
    BY <2>0, <2>1, <2>2, <2>3, ActingOn DEF Removed
  <2>5. Cleared(a) => Cleared(a)'
    BY <2>0, <2>1, <2>2, <2>3, ActingOn DEF Cleared, Empty
  <2>6. SameProvider(a) => SameProvider(a)'
    BY <2>0, <2>1, <2>2 DEF SameProvider
  <2>7. \A v \in Stores : vectors'[a][v] \subseteq vectors[a][v]
    BY <2>0
  <2> QED BY <2>0, <2>1, <2>2, <2>4, <2>5, <2>6, <2>7, OwnAgentPlaced
<1> QED BY <1>1, <1>2

-----------------------------------------------------------------------------
(* The worker, and the theorems. *)

\* A step of the worker that leaves a alone and no job on it.
LEMMA WorkingElsewhere ==
    ASSUME NEW a \in Agents, Placed(a), agents' = agents, documents' = documents,
           vectors'[a] = vectors[a], call' = call, tenants' = tenants, issued' = issued,
           raced' = raced, moved' = moved, leftover \subseteq leftover', job'.on # a
    PROVE  Placed(a)'
<1>1. \A r \in Slots : (Creating(r, a)' <=> Creating(r, a)) /\ (UsesStore(r, a)' <=> UsesStore(r, a))
                       /\ (Reindexing(r, a)' <=> Reindexing(r, a))
                       /\ \A v \in Stores : Lists(r, a, v)' <=> Lists(r, a, v)
  BY DEF Creating, UsesStore, Reindexing, Lists
<1>2. (Fresh(a)' <=> Fresh(a)) /\ (Exists(a)' <=> Exists(a)) /\ (Empty(a)' <=> Empty(a))
  BY <1>1 DEF Fresh, Exists, Empty
<1>3. Known(a)'
  BY <1>1, <1>2 DEF Placed, Known
<1>4. ASSUME a \notin moved' PROVE OneStore(a)'
  <2>1. PICK store \in Stores : StaysIn(a, store)
    BY <1>4 DEF Placed, OneStore
  <2>2. StaysIn(a, store)'
    BY <1>1, <1>2, <2>1 DEF StaysIn
  <2> QED BY <2>2 DEF OneStore
<1>5. \A stages : \A r \in Slots :
        /\ DeletesTenantOf(r, a, stages)' <=> DeletesTenantOf(r, a, stages)
        /\ DeletesAgent(r, a, stages)' <=> DeletesAgent(r, a, stages)
  BY DEF DeletesTenantOf, DeletesAgent
<1>6. ASSUME a \notin leftover' PROVE Removed(a)'
  BY <1>2, <1>5, <1>6 DEF Placed, Removed
<1>7. ASSUME a \notin leftover' \cup moved' PROVE Cleared(a)'
  BY <1>1, <1>2, <1>5, <1>7 DEF Placed, Cleared
<1>8. ASSUME a \notin leftover' \cup moved' \cup raced' PROVE SameProvider(a)'
  BY <1>1, <1>2, <1>8 DEF Placed, SameProvider
<1> QED BY <1>3, <1>4, <1>6, <1>7, <1>8 DEF Placed

\* An idle worker works on no agent.
LEMMA JobOnNone ==
    ASSUME TypeOK, NEW a \in Agents PROVE Idle.on # a /\ (job.on = a => job # Idle)
BY RequestAssumption DEF Idle

\* A job that fails keeps agent a placed.
LEMMA JobFailsPlaced ==
    ASSUME TypeOK, NEW a \in Agents, Placed(a), JobFails PROVE Placed(a)'
BY JobOnNone, WorkingElsewhere DEF JobFails, historyVars

\* The worker's reading of a message and its agent keeps agent a placed.
LEMMA TakeJobPlaced ==
    ASSUME TypeOK, NEW a \in Agents, Placed(a), NEW m \in queue, TakeJob(m)
    PROVE  Placed(a)'
<1>0. /\ agents' = agents /\ documents' = documents /\ vectors' = vectors /\ call' = call
      /\ tenants' = tenants /\ issued' = issued /\ raced' = raced /\ moved' = moved
      /\ leftover' = leftover /\ Known(a)
  BY DEF TakeJob, countVars, historyVars, Placed
<1>1. CASE job'.on # a
  BY <1>0, <1>1, WorkingElsewhere
<1>2. CASE job'.on = a
  <2>1. Exists(a) /\ job'.agent = agents[a]
    BY <1>2, TakeJobEffect, JobOnNone
  <2>2. \A r \in Slots : (Creating(r, a)' <=> Creating(r, a)) /\ (UsesStore(r, a)' <=> UsesStore(r, a))
                         /\ (Reindexing(r, a)' <=> Reindexing(r, a))
                         /\ \A v \in Stores : Lists(r, a, v)' <=> Lists(r, a, v)
    BY <1>0 DEF Creating, UsesStore, Reindexing, Lists
  <2>3. ~Fresh(a)' /\ Exists(a)' /\ (Empty(a)' <=> Empty(a))
    BY <1>0, <2>1, <2>2 DEF Fresh, Known, Exists, Empty
  <2>4. Known(a)'
    BY <1>0, <2>2, <2>3 DEF Known
  <2>5. ASSUME a \notin moved' PROVE OneStore(a)'
    <3>1. PICK store \in Stores : StaysIn(a, store)
      BY <1>0, <2>5 DEF Placed, OneStore
    <3>2. StaysIn(a, store)'
      BY <1>0, <2>1, <2>2, <2>3, <3>1 DEF StaysIn
    <3> QED BY <3>2 DEF OneStore
  <2>6. \A stages : \A r \in Slots :
          /\ DeletesTenantOf(r, a, stages)' <=> DeletesTenantOf(r, a, stages)
          /\ DeletesAgent(r, a, stages)' <=> DeletesAgent(r, a, stages)
    BY <1>0 DEF DeletesTenantOf, DeletesAgent
  <2>7. ASSUME a \notin leftover' PROVE Removed(a)'
    BY <1>0, <2>1, <2>3, <2>6, <2>7 DEF Placed, Removed
  <2>8. ASSUME a \notin leftover' \cup moved' PROVE Cleared(a)'
    BY <1>0, <2>1, <2>3, <2>6, <2>8 DEF Placed, Cleared
  <2>9. ASSUME a \notin leftover' \cup moved' \cup raced' PROVE SameProvider(a)'
    BY <1>0, <2>1, <2>2, <2>9 DEF Placed, SameProvider
  <2> QED BY <2>4, <2>5, <2>7, <2>8, <2>9 DEF Placed
<1> QED BY <1>1, <1>2

\* The worker's upsert keeps agent a placed: it writes to the store the job has read.
LEMMA UpsertPlaced ==
    ASSUME TypeOK, NEW a \in Agents, Placed(a), Upsert PROVE Placed(a)'
<1>0. /\ agents' = agents /\ documents' = documents /\ call' = call
      /\ tenants' = tenants /\ issued' = issued /\ raced' = raced /\ moved' = moved
      /\ leftover \subseteq leftover' /\ job' = Idle /\ job'.on # a /\ Known(a) /\ job # Idle
  BY JobOnNone DEF Upsert, countVars, Placed
<1>1. CASE job.on # a
  <2>1. vectors'[a] = vectors[a]
    BY <1>1 DEF Upsert, TypeOK, StoreTypeOK
  <2> QED BY <1>0, <2>1, WorkingElsewhere
<1>2. CASE job.on = a
  <2>1. /\ \A v \in Stores : vectors'[a][v] = IF v = job.agent.store
                                              THEN vectors[a][v] \cup {job.agent.provider}
                                              ELSE vectors[a][v]
        /\ VectorsGone(a) => a \in leftover'
        /\ Exists(a) /\ job.listed \cap documents[a] = {} => a \in leftover'
    BY <1>2 DEF Upsert, TypeOK, StoreTypeOK
  <2>2. \A r \in Slots : (Creating(r, a)' <=> Creating(r, a)) /\ (UsesStore(r, a)' <=> UsesStore(r, a))
                         /\ (Reindexing(r, a)' <=> Reindexing(r, a))
                         /\ \A v \in Stores : Lists(r, a, v)' <=> Lists(r, a, v)
    BY <1>0 DEF Creating, UsesStore, Reindexing, Lists
  <2>3. ~Fresh(a)' /\ (Exists(a)' <=> Exists(a))
    BY <1>0, <1>2, <2>2 DEF Fresh, Known, Exists
  <2>4. Known(a)'
    BY <1>0, <2>2, <2>3 DEF Known
  <2>5. ASSUME a \notin moved' PROVE OneStore(a)'
    <3>1. PICK store \in Stores : StaysIn(a, store)
      BY <1>0, <2>5 DEF Placed, OneStore
    <3>2. \A v \in Stores \ {store} : vectors'[a][v] = {}
      BY <1>2, <2>1, <3>1 DEF StaysIn
    <3>3. StaysIn(a, store)'
      BY <1>0, <2>2, <2>3, <3>1, <3>2 DEF StaysIn
    <3> QED BY <3>3 DEF OneStore
  <2>6. \A stages : \A r \in Slots :
          /\ DeletesTenantOf(r, a, stages)' <=> DeletesTenantOf(r, a, stages)
          /\ DeletesAgent(r, a, stages)' <=> DeletesAgent(r, a, stages)
    BY <1>0 DEF DeletesTenantOf, DeletesAgent
  <2>7. ASSUME a \notin leftover' PROVE Removed(a)'
    BY <1>0, <2>3, <2>6, <2>7 DEF Placed, Removed
  <2>8. ASSUME a \notin leftover' \cup moved' PROVE Cleared(a)'
    <3>1. ~VectorsGone(a) /\ (Exists(a) => documents[a] # {})
      BY <2>1, <2>8
    <3>2. \A r \in Slots : ~DeletesAgent(r, a, {"documents", "agent"})
      BY <3>1 DEF VectorsGone, DeletesAgent, Running
    <3>3. \/ Exists(a)
          \/ \E r \in Slots, v \in Stores :
                Lists(r, a, v) /\ call[r].at \in {"documents", "tenant", "namespaces"}
      BY <3>1 DEF VectorsGone, Lists, Running
    <3> QED BY <1>0, <2>2, <2>3, <2>6, <3>1, <3>2, <3>3 DEF Cleared
  <2>9. ASSUME a \notin leftover' \cup moved' \cup raced' PROVE SameProvider(a)'
    <3>1. SameProvider(a)
      BY <1>0, <2>9 DEF Placed
    <3>2. Exists(a) => agents[a].store \in Stores
      BY DEF TypeOK, StoreTypeOK, Exists, AgentConfigs
    <3> QED BY <1>0, <1>2, <2>1, <2>2, <2>3, <3>1, <3>2 DEF SameProvider
  <2> QED BY <2>4, <2>5, <2>7, <2>8, <2>9 DEF Placed
<1> QED BY <1>1, <1>2

\* Every agent is placed at the start, when there is none.
LEMMA PlacedInitially ==
    ASSUME Init, NEW a \in Agents PROVE Placed(a)
<1>0. StoreInit /\ Idle.op = "idle"
  BY DEF Init, Idle
<1>1. \A s \in Slots : call[s].op = "idle"
  BY <1>0 DEF StoreInit
<1>2. job.on # a /\ documents[a] = {} /\ Empty(a)
  BY <1>0, RequestAssumption DEF StoreInit, Idle, Empty
<1>3. PICK t \in Tenants, b \in Agents, c \in Configs :
        /\ OwnerOf[b] = t /\ tenants = {t} /\ issued = {t, b}
        /\ agents = [r \in Agents |-> IF r = b THEN c ELSE NoAgent]
  BY <1>0 DEF StoreInit
<1>4. c.store \in Stores
  BY ConfigAssumption DEF AgentConfigs
<1>5. Exists(a) => a \in issued /\ OwnerOf[a] \in tenants /\ agents[a] = c
  BY <1>3 DEF Exists
<1>6. \A s \in Slots : /\ ~Creating(s, a) /\ ~UsesStore(s, a) /\ call[s].op \notin OnAgent
                       /\ ~Reindexing(s, a) /\ \A v \in Stores : ~Lists(s, a, v)
  BY <1>1 DEF Creating, UsesStore, Lists, OnAgent, Reindexing
<1>7. \A stages : \A s \in Slots : ~DeletesTenantOf(s, a, stages) /\ ~DeletesAgent(s, a, stages)
  BY <1>1 DEF DeletesTenantOf, DeletesAgent
<1>8. Known(a)
  BY <1>2, <1>5, <1>6 DEF Known, Fresh, Empty
<1>9. OneStore(a)
  <2>1. StaysIn(a, c.store)
    BY <1>2, <1>5, <1>6 DEF StaysIn, Empty
  <2> QED BY <1>4, <2>1 DEF OneStore
<1>10. Removed(a) /\ Cleared(a)
  BY <1>2, <1>5, <1>7 DEF Removed, Cleared
<1>11. SameProvider(a)
  BY <1>2, <1>4, <1>5 DEF SameProvider, Empty
<1> QED BY <1>8, <1>9, <1>10, <1>11 DEF Placed

\* Every step keeps agent a placed: one lemma per action that could disturb it.
LEMMA PlacedPreserved ==
    ASSUME TypeOK, NEW a \in Agents, Placed(a), [Next]_vars PROVE Placed(a)'
<1>1. CASE UNCHANGED adminVars
  <2>1. /\ agents' = agents /\ documents' = documents /\ vectors' = vectors /\ call' = call
        /\ tenants' = tenants /\ issued' = issued /\ raced' = raced /\ moved' = moved
        /\ leftover' = leftover /\ job' = job
    BY <1>1 DEF adminVars, storeVars, countVars, historyVars
  <2> QED BY <2>1 DEF Placed, Known, Fresh, Creating, Lists, OneStore, StaysIn, UsesStore, Exists,
                      Removed, Cleared, Empty, DeletesTenantOf, DeletesAgent, SameProvider, Reindexing
<1>2. CASE WorkerStep
  BY <1>2, UpsertPlaced, JobFailsPlaced, TakeJobPlaced DEF WorkerStep
<1>3. ASSUME NEW s \in Slots, TenantStep(s) PROVE Placed(a)'
  BY <1>3, BystandersPlaced, ListAgentsPlaced, DeleteAgentsPlaced, DeleteDocumentsPlaced,
     DeleteTenantPlaced, DeleteNamespacesPlaced DEF TenantStep, Bystands
<1>4. ASSUME NEW s \in Slots, AgentStep(s) PROVE Placed(a)'
  BY <1>4, BystandersPlaced, StartCreationPlaced, InsertAgentPlaced, StartsOnAgentPlaced,
     WritePatchPlaced, DeleteNamespacePlaced, DeleteAgentDocumentsPlaced, DeleteAgentPlaced
     DEF AgentStep, Bystands
<1>5. ASSUME NEW s \in Slots, EvalStep(s) PROVE Placed(a)'
  BY <1>5, BystandersPlaced DEF EvalStep, Bystands
<1>6. ASSUME NEW s \in Slots, UploadStep(s) PROVE Placed(a)'
  BY <1>6, BystandersPlaced, InsertDocumentPlaced, StartsOnAgentPlaced, WipeNamespacePlaced,
     ReindexPlaced DEF UploadStep, Bystands
<1>7. ASSUME NEW s \in Slots, CallRaises(s) PROVE Placed(a)'
  BY <1>7, BystandersPlaced DEF Bystands
<1> QED BY <1>1, <1>2, <1>3, <1>4, <1>5, <1>6, <1>7 DEF Next, vars

AgentsPlaced == \A a \in Agents : Placed(a)

\* The inductive invariant of agents, documents and vectors.
THEOREM AgentsStayPlaced == Spec => []AgentsPlaced
<1>1. Init => AgentsPlaced
  BY PlacedInitially DEF AgentsPlaced
<1>2. TypeOK /\ AgentsPlaced /\ [Next]_vars => AgentsPlaced'
  BY PlacedPreserved DEF AgentsPlaced
<1> QED BY <1>1, <1>2, AdministrationTyped, PTL DEF Spec

\* Agents outlive their tenant, and documents and vectors their agent, only if they were
\* written behind a deletion, it was cut short, or the agent had left its vectors elsewhere.
THEOREM OrphansOnlyIfOvertaken == Spec => []OrphanOnlyIfOvertaken
<1>1. TypeOK /\ AgentsPlaced => OrphanOnlyIfOvertaken
  <2> SUFFICES ASSUME TypeOK, NEW a \in Agents \ leftover, Placed(a)
               PROVE  /\ Exists(a) => OwnerOf[a] \in tenants
                      /\ \/ Exists(a) \/ documents[a] = {}
                         \/ \E r \in Running("delete_tenant", {"documents"}) : call[r].on = OwnerOf[a]
                      /\ \/ Exists(a) \/ a \in moved
                         \/ \E r \in Running("delete_tenant", {"documents", "tenant", "namespaces"}) :
                               call[r].on = OwnerOf[a]
                         \/ \A v \in Stores : vectors[a][v] = {}
    BY DEF AgentsPlaced, OrphanOnlyIfOvertaken
  <2>1. Removed(a) /\ Known(a) /\ (a \notin moved => Cleared(a))
    BY DEF Placed
  <2>2. \A stages : \A s \in Slots : DeletesTenantOf(s, a, stages) =>
           \E r \in Running("delete_tenant", stages) : call[r].on = OwnerOf[a]
    BY DEF DeletesTenantOf, Running
  <2>3. \A s \in Slots, v \in Stores :
           Lists(s, a, v) /\ call[s].at \in {"documents", "tenant", "namespaces"} =>
              DeletesTenantOf(s, a, {"documents", "tenant", "namespaces"})
    BY <2>1 DEF Known, Lists, DeletesTenantOf
  <2> QED BY <2>1, <2>2, <2>3 DEF Removed, Cleared, Empty
<1> QED BY <1>1, AgentsStayPlaced, AdministrationTyped, PTL

\* An agent whose vectors come from another provider is flagged, but for flags decided on
\* stale reads.
THEOREM MismatchAlwaysFlagged == Spec => []MismatchFlagged
<1>1. AgentsPlaced => MismatchFlagged
  BY DEF AgentsPlaced, Placed, SameProvider, MismatchFlagged
<1> QED BY <1>1, AgentsStayPlaced, PTL

-----------------------------------------------------------------------------
(* The rate limiter.  RateBounded is not inductive: that the request admitted 2 * Limit ago
   is old follows from where it lies, behind the requests of the current window (no more
   than Limit), which are followed by those of the window before it (again no more than
   Limit), and from the length of that window. *)

Ages == 0..(2 * Limit)

\* What was admitted before the current window is at least as old as the window.
BeforeWindow == \A p \in Processes, k \in Ages : k >= count[p] => admitted[p][k] >= started[p]

\* What was admitted before the previous window is a whole window old.
BeforePrevious == \A p \in Processes, k \in Ages : k >= count[p] + Limit => admitted[p][k] = Window

LimiterInvariant == LimiterTypeOK /\ BeforeWindow /\ BeforePrevious

\* The invariant holds when a process starts.
LEMMA LimiterStarts == LimiterInit => LimiterInvariant
BY LimiterAssumption, SMT
   DEF LimiterInit, LimiterInvariant, LimiterTypeOK, BeforeWindow, BeforePrevious, Ages

\* An admission pushes the older ones back by one place.
LEMMA AdmissionShifts ==
    ASSUME LimiterTypeOK, NEW p \in Processes, Admit(p)
    PROVE  /\ admitted' \in [Processes -> [Ages -> 0..Window]]
           /\ admitted'[p][0] = 0
           /\ \A k \in Ages : k > 0 => admitted'[p][k] = admitted[p][k - 1]
           /\ \A q \in Processes : q # p => admitted'[q] = admitted[q]
<1> DEFINE shifted == [k \in Ages |-> IF k = 0 THEN 0 ELSE admitted[p][k - 1]]
<1>1. admitted \in [Processes -> [Ages -> 0..Window]]
  BY DEF LimiterTypeOK, Ages
<1>2. shifted \in [Ages -> 0..Window]
  <2>1. ASSUME NEW k \in Ages, k # 0 PROVE k - 1 \in Ages
    BY <2>1, LimiterAssumption DEF Ages
  <2>2. 0 \in 0..Window
    BY LimiterAssumption
  <2> QED BY <1>1, <2>1, <2>2
<1>3. admitted' = [admitted EXCEPT ![p] = shifted]
  BY DEF Admit, Ages
<1>4. 0 \in Ages
  BY LimiterAssumption DEF Ages
<1>5. shifted[0] = 0 /\ \A k \in Ages : k > 0 => shifted[k] = admitted[p][k - 1]
  BY <1>4, LimiterAssumption DEF Ages
<1> HIDE DEF shifted
<1>6. admitted'[p] = shifted /\ \A q \in Processes : q # p => admitted'[q] = admitted[q]
  BY <1>1, <1>3
<1>7. admitted' \in [Processes -> [Ages -> 0..Window]]
  BY <1>1, <1>2, <1>3
<1> QED BY <1>5, <1>6, <1>7

\* The request that opens a window finds everything admitted before to be older.
LEMMA OpeningKeeps ==
    ASSUME LimiterInvariant, NEW p \in Processes, OpenWindow(p) PROVE LimiterInvariant'
<1> USE LimiterAssumption
<1>0. LimiterTypeOK /\ BeforeWindow /\ BeforePrevious
  BY DEF LimiterInvariant
<1>1. /\ started' \in [Processes -> 0..Window] /\ started'[p] = 0
      /\ count' \in [Processes -> 0..Limit] /\ count'[p] = 1
      /\ \A q \in Processes : q # p => started'[q] = started[q] /\ count'[q] = count[q]
  BY <1>0, SMT DEF OpenWindow, LimiterTypeOK
<1>2. started[p] = Window /\ count[p] \in 0..Limit
  BY <1>0 DEF OpenWindow, LimiterTypeOK
<1>3. /\ admitted' \in [Processes -> [Ages -> 0..Window]]
      /\ \A k \in Ages : k > 0 => admitted'[p][k] = admitted[p][k - 1]
      /\ \A q \in Processes : q # p => admitted'[q] = admitted[q]
  BY <1>0, AdmissionShifts DEF OpenWindow
<1>4. BeforeWindow'
  <2> SUFFICES ASSUME NEW q \in Processes, NEW k \in Ages, k >= count'[q]
               PROVE  admitted'[q][k] >= started'[q]
    BY DEF BeforeWindow, Ages
  <2>1. CASE q = p
    <3>1. admitted'[p][k] \in 0..Window
      BY <1>3
    <3> QED BY <1>1, <2>1, <3>1
  <2>2. CASE q # p
    BY <1>0, <1>1, <1>3, <2>2 DEF BeforeWindow
  <2> QED BY <2>1, <2>2
<1>5. BeforePrevious'
  <2> SUFFICES ASSUME NEW q \in Processes, NEW k \in Ages, k >= count'[q] + Limit
               PROVE  admitted'[q][k] = Window
    BY DEF BeforePrevious, Ages
  <2>1. CASE q = p
    <3>1. k > 0 /\ k - 1 \in Ages /\ k - 1 >= count[p]
      BY <1>1, <1>2, <2>1 DEF Ages
    <3>2. admitted[p][k - 1] >= Window
      BY <1>0, <1>2, <3>1 DEF BeforeWindow
    <3>3. admitted[p][k - 1] \in 0..Window
      BY <1>0, <3>1 DEF LimiterTypeOK, Ages
    <3> QED BY <1>3, <2>1, <3>1, <3>2, <3>3
  <2>2. CASE q # p
    BY <1>0, <1>1, <1>3, <2>2 DEF BeforePrevious
  <2> QED BY <2>1, <2>2
<1> QED BY <1>1, <1>3, <1>4, <1>5 DEF LimiterInvariant, LimiterTypeOK, Ages

\* A request counted in its window pushes everything back by as much as the counter grows.
LEMMA CountingKeeps ==
    ASSUME LimiterInvariant, NEW p \in Processes, CountRequest(p) PROVE LimiterInvariant'
<1> USE LimiterAssumption
<1>0. LimiterTypeOK /\ BeforeWindow /\ BeforePrevious
  BY DEF LimiterInvariant
<1>1. count[p] \in 0..Limit /\ count[p] < Limit
  BY <1>0 DEF CountRequest, BelowLimit, LimiterTypeOK
<1>2. /\ started' = started
      /\ count' \in [Processes -> 0..Limit] /\ count'[p] = count[p] + 1
      /\ \A q \in Processes : q # p => count'[q] = count[q]
  BY <1>0, <1>1, SMT DEF CountRequest, LimiterTypeOK
<1>3. /\ admitted' \in [Processes -> [Ages -> 0..Window]]
      /\ \A k \in Ages : k > 0 => admitted'[p][k] = admitted[p][k - 1]
      /\ \A q \in Processes : q # p => admitted'[q] = admitted[q]
  BY <1>0, AdmissionShifts DEF CountRequest
<1>4. BeforeWindow'
  <2> SUFFICES ASSUME NEW q \in Processes, NEW k \in Ages, k >= count'[q]
               PROVE  admitted'[q][k] >= started'[q]
    BY DEF BeforeWindow, Ages
  <2>1. CASE q = p
    <3>1. k > 0 /\ k - 1 \in Ages /\ k - 1 >= count[p]
      BY <1>1, <1>2, <2>1 DEF Ages
    <3>2. admitted[p][k - 1] >= started[p]
      BY <1>0, <3>1 DEF BeforeWindow
    <3> QED BY <1>2, <1>3, <2>1, <3>1, <3>2
  <2>2. CASE q # p
    BY <1>0, <1>2, <1>3, <2>2 DEF BeforeWindow
  <2> QED BY <2>1, <2>2
<1>5. BeforePrevious'
  <2> SUFFICES ASSUME NEW q \in Processes, NEW k \in Ages, k >= count'[q] + Limit
               PROVE  admitted'[q][k] = Window
    BY DEF BeforePrevious, Ages
  <2>1. CASE q = p
    <3>1. k > 0 /\ k - 1 \in Ages /\ k - 1 >= count[p] + Limit
      BY <1>1, <1>2, <2>1 DEF Ages
    <3>2. admitted[p][k - 1] = Window
      BY <1>0, <3>1 DEF BeforePrevious
    <3> QED BY <1>3, <2>1, <3>1, <3>2
  <2>2. CASE q # p
    BY <1>0, <1>2, <1>3, <2>2 DEF BeforePrevious
  <2> QED BY <2>1, <2>2
<1>6. started' \in [Processes -> 0..Window]
  BY <1>0, <1>2 DEF LimiterTypeOK
<1> QED BY <1>2, <1>3, <1>4, <1>5, <1>6 DEF LimiterInvariant, LimiterTypeOK, Ages

\* Time makes windows and admissions older together.
LEMMA PassingKeeps == ASSUME LimiterInvariant, Pass PROVE LimiterInvariant'
<1> USE LimiterAssumption
<1>0. LimiterTypeOK /\ BeforeWindow /\ BeforePrevious
  BY DEF LimiterInvariant
<1>1. \A x, y \in 0..Window : /\ Later(x) \in 0..Window
                              /\ x >= y => Later(x) >= Later(y)
                              /\ x = Window => Later(x) = Window
  BY DEF Later
<1>2. started' \in [Processes -> 0..Window] /\ count' = count
  <2>1. \A p \in Processes : Later(started[p]) \in 0..Window
    BY <1>0, <1>1 DEF LimiterTypeOK
  <2> QED BY <2>1 DEF Pass
<1>3. \A p \in Processes : started'[p] = Later(started[p])
  BY DEF Pass
<1>4. \A p \in Processes, k \in Ages : admitted'[p][k] = Later(admitted[p][k])
  BY DEF Pass, Ages
<1>5. \A p \in Processes, k \in Ages : started[p] \in 0..Window /\ admitted[p][k] \in 0..Window
  BY <1>0 DEF LimiterTypeOK, Ages
<1>6. BeforeWindow'
  <2> SUFFICES ASSUME NEW p \in Processes, NEW k \in Ages, k >= count[p]
               PROVE  Later(admitted[p][k]) >= Later(started[p])
    BY <1>2, <1>3, <1>4 DEF BeforeWindow, Ages
  <2>1. admitted[p][k] >= started[p]
    BY <1>0 DEF BeforeWindow
  <2> QED BY <1>1, <1>5, <2>1
<1>8. admitted' \in [Processes -> [Ages -> 0..Window]]
  <2>1. \A p \in Processes : [k \in Ages |-> Later(admitted[p][k])] \in [Ages -> 0..Window]
    BY <1>1, <1>5
  <2>2. admitted' = [p \in Processes |-> [k \in Ages |-> Later(admitted[p][k])]]
    BY DEF Pass, Ages
  <2> QED BY <2>1, <2>2
<1>7. BeforePrevious'
  BY <1>0, <1>1, <1>2, <1>4, <1>5 DEF BeforePrevious, Ages
<1> QED BY <1>0, <1>2, <1>6, <1>7, <1>8 DEF LimiterInvariant, LimiterTypeOK, Ages

\* A step of the limiter keeps its invariant.
LEMMA LimiterKeeps == LimiterInvariant /\ [LimiterStep]_limiterVars => LimiterInvariant'
<1> SUFFICES ASSUME LimiterInvariant, [LimiterStep]_limiterVars PROVE LimiterInvariant'
  OBVIOUS
<1>1. CASE Pass
  BY <1>1, PassingKeeps
<1>2. ASSUME NEW p \in Processes, OpenWindow(p) PROVE LimiterInvariant'
  BY <1>2, OpeningKeeps
<1>3. ASSUME NEW p \in Processes, CountRequest(p) PROVE LimiterInvariant'
  BY <1>3, CountingKeeps
<1>4. CASE UNCHANGED limiterVars
  BY <1>4 DEF limiterVars, LimiterInvariant, LimiterTypeOK, BeforeWindow, BeforePrevious, Ages
<1>5. ASSUME NEW p \in Processes, Refuse(p) PROVE LimiterInvariant'
  BY <1>4, <1>5 DEF Refuse
<1> QED BY <1>1, <1>2, <1>3, <1>4, <1>5 DEF LimiterStep

\* The inductive invariant, of the limiter alone and of it with the requests behind it: of
\* the admissions a process remembers, the first count are its current window's, the next
\* Limit may be the previous one's, the others are older.
THEOREM LimiterInvariantHolds ==
    (LimiterSpec => []LimiterInvariant) /\ (Spec => []LimiterInvariant)
<1>1. LimiterSpec => []LimiterInvariant
  BY LimiterStarts, LimiterKeeps, PTL DEF LimiterSpec
<1>2. Init => LimiterInit
  BY DEF Init
<1>3. [Next]_vars => [LimiterStep]_limiterVars
  BY DEF Next, vars
<1>4. Spec => []LimiterInvariant
  BY <1>2, <1>3, LimiterStarts, LimiterKeeps, PTL DEF Spec
<1> QED BY <1>1, <1>4

\* A process never lets more than 2 * Limit requests through in 60 seconds.
THEOREM RateIsBounded == (LimiterSpec => []RateBounded) /\ (Spec => []RateBounded)
<1>1. LimiterInvariant => RateBounded
  <2> SUFFICES ASSUME LimiterInvariant, NEW p \in Processes
               PROVE  admitted[p][2 * Limit] = Window
    BY DEF RateBounded
  <2>1. count[p] \in 0..Limit
    BY DEF LimiterInvariant, LimiterTypeOK
  <2>2. 2 * Limit \in Ages /\ 2 * Limit >= count[p] + Limit
    BY <2>1, LimiterAssumption DEF Ages
  <2> QED BY <2>2 DEF LimiterInvariant, BeforePrevious
<1> QED BY <1>1, LimiterInvariantHolds, PTL

=============================================================================
