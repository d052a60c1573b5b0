----------------------------- MODULE TenantStore -----------------------------
(***************************************************************************)
(* What the administrative requests share: the collections tenants,        *)
(* agents, documents, eval_datasets and eval_experiments, the vector       *)
(* namespaces, the queue of ingestion jobs, and the requests themselves.   *)
(* A tenant, an agent or a document is the id generated for it, so one     *)
(* that was deleted never comes back.  Job records and files are left out: *)
(* Ingestion has them.                                                     *)
(***************************************************************************)
EXTENDS Integers, Sequences, FiniteSets

CONSTANTS
    Slots,            \* requests that can run at the same time
    Tenants,          \* tenant ids; all of them are for one name
    Agents,           \* agent ids
    OwnerOf,          \* the tenant each agent id is generated for
    NameOf,           \* the name it is created with
    Docs,             \* document ids
    Configs,          \* the configurations agents are created with
    Patches,          \* the fields a PATCH may provide, with their values
    Scores,           \* faithfulness scores an evaluation may produce
    MaxRequests,      \* requests considered
    MaxFaults         \* failing calls considered

VARIABLES
    tenants,          \* ids in the collection tenants
    agents,           \* id -> configuration in the collection agents, or NoAgent
    documents,        \* agent id -> its documents
    ready,            \* the documents whose status is ready
    vectors,          \* agent id -> vector store -> providers its vectors were embedded with
    queue,            \* ingestion messages, <<agent, document>>
    job,              \* the job a worker is on
    datasets,         \* agent id -> number of its evaluation datasets
    experiments,      \* agent id -> its experiments, in the order they were recorded
    call,             \* what each request is doing
    issued,           \* the ids generated so far
    arrived,          \* requests so far
    faults,           \* failing calls so far
    raced,            \* history: agents whose mismatch flag was decided on a stale read
    moved,            \* history: agents whose vector store was changed
    leftover          \* history: agents whose deletion was overtaken or cut short

storeVars == <<tenants, agents, documents, ready, vectors, queue, job, datasets, experiments>>
historyVars == <<raced, moved, leftover>>
countVars == <<issued, arrived, faults>>
adminVars == <<storeVars, call, countVars, historyVars>>

NoAgent == [chunk_size |-> 0]
Providers == {c.provider : c \in Configs} \cup {p.provider : p \in {q \in Patches : "provider" \in DOMAIN q}}
Stores == {c.store : c \in Configs} \cup {p.store : p \in {q \in Patches : "store" \in DOMAIN q}}

\* What of an agent's configuration the administration depends on.
AgentConfigs == [chunk_size : Nat, chunk_overlap : Nat, provider : Providers,
                 mismatch : BOOLEAN, store : Stores, threshold : Int]

\* A PATCH provides some of the fields, never embedding_provider_mismatch.
ASSUME ConfigAssumption ==
    /\ Configs \subseteq AgentConfigs
    /\ \A p \in Patches :
          /\ DOMAIN p \subseteq {"chunk_size", "chunk_overlap", "provider", "store", "threshold"}
          /\ \A f \in DOMAIN p \ {"provider", "store"} :
                p[f] \in Int /\ (f # "threshold" => p[f] \in Nat)

\* "none" is not an id.
ASSUME RequestAssumption ==
    /\ IsFiniteSet(Slots)
    /\ "none" \notin Agents
    /\ Scores \subseteq Int

\* What find_one insists on when it builds an AgentDocument from a stored record.
Valid(c) == c.chunk_overlap <= c.chunk_size \div 2

Exists(a) == agents[a] # NoAgent
\* A stored agent that is not valid makes every read of it raise.
Readable(a) == Exists(a) /\ Valid(agents[a])

AgentsOf(t) == {a \in Agents : OwnerOf[a] = t /\ Exists(a)}

-----------------------------------------------------------------------------
(* Requests. *)

\* agent: the configuration it read; listed: the agents or documents it listed.
Idle == [op |-> "idle", at |-> "end", on |-> "none", agent |-> NoAgent, patch |-> <<>>,
         listed |-> {}, score |-> 0, base |-> 0]

Doing(s, op, at) == call[s].op = op /\ call[s].at = at
Running(op, stages) == {s \in Slots : call[s].op = op /\ call[s].at \in stages}

\* A request after its first read; one that this read refuses changes nothing.
Begins(s, first) ==
    /\ call[s] = Idle
    /\ arrived < MaxRequests /\ arrived' = arrived + 1
    /\ call' = [call EXCEPT ![s] = first]
    /\ UNCHANGED <<storeVars, historyVars, faults>>

Goes(s, at) == call' = [call EXCEPT ![s].at = at]
Ends(s) == call' = [call EXCEPT ![s] = Idle]

\* Any call may raise, which ends the request.
CallRaises(s) ==
    /\ call[s] # Idle
    /\ faults < MaxFaults /\ faults' = faults + 1
    /\ Ends(s)
    /\ UNCHANGED <<storeVars, issued, arrived, raced, moved>>
    /\ leftover' = leftover \cup
          {a \in Agents : /\ Doing(s, "delete_tenant", call[s].at) /\ OwnerOf[a] = call[s].on
                           /\ call[s].at \notin {"list", "agents"}}

StoreInit ==
    /\ \E t \in Tenants, a \in Agents, c \in Configs :
          /\ OwnerOf[a] = t
          /\ tenants = {t}
          /\ agents = [b \in Agents |-> IF b = a THEN c ELSE NoAgent]
          /\ issued = {t, a}
    /\ documents = [a \in Agents |-> {}] /\ ready = {}
    /\ vectors = [a \in Agents |-> [v \in Stores |-> {}]]
    /\ queue = {} /\ job = Idle
    /\ datasets = [a \in Agents |-> 0] /\ experiments = [a \in Agents |-> <<>>]
    /\ call = [s \in Slots |-> Idle]
    /\ arrived = 0 /\ faults = 0
    /\ raced = {} /\ moved = {} /\ leftover = {}

=============================================================================
