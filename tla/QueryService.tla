---------------------------- MODULE QueryService ----------------------------
(***************************************************************************)
(* QueryService.handle_query and _handle_stream_query, one action per      *)
(* awaited call: concurrent requests of one tenant to one agent whose      *)
(* semantic cache is on, their conversation sessions and the tokens of the *)
(* current month in query_costs.                                           *)
(***************************************************************************)
EXTENDS SemanticCache

CONSTANTS
    Slots,            \* requests that can run at the same time
    Sessions,         \* session ids
    NoQuery,          \* the query of a slot no request uses
    SessionExpiry,    \* the 24 hours after which a session is refused, in ticks
    SessionLifetime,  \* the 48 hours after which MongoDB may remove it, in ticks
    Budget,           \* tenant.monthly_token_budget
    MaxCost,          \* the most tokens one request can use
    MaxFaults         \* failing calls considered

ASSUME SlotsAssumption == IsFiniteSet(Slots) /\ Slots # {}
ASSUME BudgetAssumption == Budget \in Nat \ {0} /\ MaxCost \in Nat \ {0}
\* A request lasts less than the difference between the two limits.
ASSUME SessionAssumption ==
    /\ SessionExpiry \in Nat
    /\ SessionLifetime \in Nat
    /\ SessionExpiry + 1 < SessionLifetime
ASSUME FaultAssumption == MaxFaults \in Nat
ASSUME NoQueryAssumption == NoQuery \notin Queries

VARIABLES
    pc,               \* the call each request is about to make
    spent,            \* prompt and completion tokens its accumulator holds
    recorded,         \* QueryCostDAO.get_monthly_token_total
    req,              \* the other locals of each request, and its outcome
    age,              \* ticks since each session's updated_at, or Gone
    transcript,       \* the latest requests whose turn is in each session's messages
    corpus,           \* version of the documents retrieval reads
    faults

serviceVars == <<pc, spent, recorded, req, age, transcript, cache, faults>>

Gone == SessionLifetime + 1
SessionExists(k) == age[k] # Gone

PC == {"idle", "session", "lookup", "retrieve", "generate", "store", "append", "bill"}
Request ==
    [ask : Queries \cup {NoQuery}, stream : BOOLEAN, session : Sessions, new : BOOLEAN,
     history : SUBSET Slots, hit : BOOLEAN, answer : BOOLEAN,
     version : Versions \cup {-1}, overtaken : BOOLEAN, crossed : BOOLEAN,
     outcome : {"none", "refused", "failed", "done"}]
\* new: request.session_id was None, and k is the id it will be given.
Asked(q, stream, k, new) ==
    [ask |-> q, stream |-> stream, session |-> k, new |-> new, history |-> {},
     hit |-> FALSE, answer |-> FALSE, version |-> -1, overtaken |-> FALSE, crossed |-> FALSE,
     outcome |-> "none"]

\* The requests past the budget check that may still write a cost record.
InFlight == {s \in Slots : pc[s] # "idle"}

ServiceInit ==
    /\ pc = [s \in Slots |-> "idle"]
    /\ spent = [s \in Slots |-> 0]
    /\ recorded = 0
    /\ \E k \in Sessions : req = [s \in Slots |-> Asked(NoQuery, FALSE, k, FALSE)]
    /\ age = [k \in Sessions |-> Gone]
    /\ transcript = [k \in Sessions |-> {}]
    /\ faults = 0

ServiceTypeOK ==
    /\ pc \in [Slots -> PC]
    /\ spent \in [Slots -> 0..MaxCost]
    /\ recorded \in Nat
    /\ req \in [Slots -> Request]
    /\ age \in [Sessions -> 0..Gone]
    /\ transcript \in [Sessions -> SUBSET Slots]
    /\ faults \in 0..MaxFaults

-----------------------------------------------------------------------------
(* Admission. *)

\* > for >=.
WithinOrAtBudget == recorded <= Budget

WithinBudget == recorded < Budget

\* A request that passes the budget check.  The turn of the slot's previous request is
\* forgotten: no property is about it any more.
Arrive(s, q, stream, k, new) ==
    /\ pc[s] = "idle"
    /\ WithinBudget
    /\ new => ~SessionExists(k) /\ \A r \in InFlight : req[r].session # k
    /\ pc' = [pc EXCEPT ![s] = "session"]
    /\ req' = [r \in Slots |->
                 IF r = s THEN Asked(q, stream, k, new)
                 ELSE [req[r] EXCEPT !.history = @ \ {s}]]
    /\ transcript' = [j \in Sessions |-> transcript[j] \ {s}]
    /\ UNCHANGED <<spent, recorded, age, cache, faults>>

\* The request is over and its locals are dropped.  "done": a plain request returns its
\* answer, or a stream has run its tail, be it after an error event.
Ended(k, answer, outcome) ==
    [ask |-> NoQuery, stream |-> FALSE, session |-> k, new |-> FALSE, history |-> {},
     hit |-> FALSE, answer |-> answer, version |-> -1, overtaken |-> FALSE, crossed |-> FALSE,
     outcome |-> outcome]
Ends(s, outcome) ==
    /\ pc' = [pc EXCEPT ![s] = "idle"]
    /\ spent' = [spent EXCEPT ![s] = 0]
    /\ \E answer \in BOOLEAN :
         /\ answer = (outcome = "done" /\ req[s].answer)
         /\ req' = [req EXCEPT ![s] = Ended(req[s].session, answer, outcome)]

Continues(s, next, r) ==
    /\ pc' = [pc EXCEPT ![s] = next]
    /\ req' = [req EXCEPT ![s] = r]

\* Any call may raise.  Within the tail of a stream, and for a plain request anywhere,
\* the rest is skipped: what the accumulator holds is never recorded.
CallRaises(s) ==
    /\ faults < MaxFaults
    /\ pc[s] \in {"session", "lookup", "store", "append"}
          \cup (IF req[s].stream THEN {} ELSE {"retrieve", "generate"})
    /\ Ends(s, "failed")
    /\ faults' = faults + 1
    /\ UNCHANGED <<recorded, age, transcript, cache>>

\* The client of a stream goes away before the generator has started, which then runs
\* nothing at all, or the generator is cancelled in its tail.
StreamCut(s) ==
    /\ req[s].stream
    /\ pc[s] \in {"retrieve", "store", "append", "bill"}
    /\ Ends(s, "failed")
    /\ UNCHANGED <<recorded, age, transcript, cache, faults>>

-----------------------------------------------------------------------------
(* The session. *)

CreateSession(s) ==
    LET k == req[s].session IN
    /\ pc[s] = "session"
    /\ req[s].new
    /\ age' = [age EXCEPT ![k] = 0]
    /\ transcript' = [transcript EXCEPT ![k] = {}]
    /\ Continues(s, "lookup", req[s])
    /\ UNCHANGED <<spent, recorded, cache, faults>>

\* The check against the last 24 hours left out: any session still stored will do.
UsableIfStored(k) == SessionExists(k)

Usable(k) == SessionExists(k) /\ age[k] <= SessionExpiry

ResumeSession(s) ==
    /\ pc[s] = "session"
    /\ ~req[s].new /\ Usable(req[s].session)
    /\ Continues(s, "lookup", [req[s] EXCEPT !.history = transcript[req[s].session]])
    /\ UNCHANGED <<spent, recorded, age, transcript, cache, faults>>

\* ForbiddenError or SessionExpiredError.
RefuseSession(s) ==
    /\ pc[s] = "session"
    /\ ~req[s].new /\ ~Usable(req[s].session)
    /\ Ends(s, "refused")
    /\ UNCHANGED <<recorded, age, transcript, cache, faults>>

-----------------------------------------------------------------------------
(* The cache and the pipeline. *)

\* A hit goes straight to the transcript.  A stream appends only what it sent: nothing if
\* the cached answer is blank, for then it has no token.
LookupCache(s) ==
    LET row == Lookup(req[s].ask) IN
    /\ pc[s] = "lookup"
    /\ \/ /\ row = NoRow
          /\ Continues(s, "retrieve", req[s])
       \/ /\ row # NoRow
          /\ Continues(s, "append", [req[s] EXCEPT !.hit = TRUE, !.answer = TRUE])
       \/ /\ row # NoRow /\ req[s].stream
          /\ Continues(s, "bill", [req[s] EXCEPT !.hit = TRUE])
    /\ UNCHANGED <<spent, recorded, age, transcript, cache, faults>>

Retrieve(s) ==
    /\ pc[s] = "retrieve"
    /\ Continues(s, "generate", [req[s] EXCEPT !.version = corpus])
    /\ UNCHANGED <<spent, recorded, age, transcript, cache, faults>>

\* run_query_pipeline returns an answer; a stream has sent its tokens, or those before an
\* error event or before its client went away.  The usage of a model call is reported with
\* its end, so what the accumulator holds may be less than was used, or nothing.
Generate(s) ==
    /\ pc[s] = "generate"
    /\ \E n \in 0..MaxCost : spent' = [spent EXCEPT ![s] = n]
    /\ Continues(s, "store", [req[s] EXCEPT !.answer = TRUE])
    /\ UNCHANGED <<recorded, age, transcript, cache, faults>>

\* A stream ends without a token: an error event, nothing found, or a client that goes
\* away.  Its tail only records the tokens, those of routing and rewriting for instance.
StreamStops(s) ==
    /\ req[s].stream
    /\ pc[s] \in {"retrieve", "generate"}
    /\ \E n \in 0..MaxCost : spent' = [spent EXCEPT ![s] = n]
    /\ Continues(s, "bill", req[s])
    /\ UNCHANGED <<recorded, age, transcript, cache, faults>>

Store(s) ==
    /\ pc[s] = "store"
    /\ cache' = Stored(req[s].ask, req[s].version, req[s].overtaken)
    /\ Continues(s, "append", req[s])
    /\ UNCHANGED <<spent, recorded, age, transcript, faults>>

-----------------------------------------------------------------------------
(* The transcript and the bill. *)

\* Writes the history the request read, and the new turn, over the messages.
WithTurnOverwriting(s, k) ==
    [transcript EXCEPT ![k] = IF SessionExists(k) THEN req[s].history \cup {s} ELSE @]

\* One $push of both messages of the turn; without a session it matches nothing.
WithTurn(s, k) == [transcript EXCEPT ![k] = IF SessionExists(k) THEN @ \cup {s} ELSE @]

\* Returns whenever a plain request is done with its transcript.
ReturnsWithoutBillIfPlain(s) == ~req[s].stream

\* A plain hit returns before the cost record; a streamed one records its zero tokens.
ReturnsWithoutBill(s) == req[s].hit /\ ~req[s].stream

AppendTurn(s) ==
    LET k == req[s].session IN
    /\ pc[s] = "append"
    /\ transcript' = WithTurn(s, k)
    /\ age' = [age EXCEPT ![k] = IF SessionExists(k) THEN 0 ELSE @]
    /\ IF ReturnsWithoutBill(s)
       THEN Ends(s, "done")
       ELSE Continues(s, "bill", req[s]) /\ UNCHANGED spent
    /\ UNCHANGED <<recorded, cache, faults>>

Bill(s) ==
    /\ pc[s] = "bill"
    /\ recorded' = recorded + spent[s]
    /\ Ends(s, "done")
    /\ UNCHANGED <<age, transcript, cache, faults>>

\* query_cost_write_failed is logged, and the request is done without its record.
BillIsLost(s) ==
    /\ pc[s] = "bill"
    /\ faults < MaxFaults
    /\ faults' = faults + 1
    /\ Ends(s, "done")
    /\ UNCHANGED <<recorded, age, transcript, cache>>

-----------------------------------------------------------------------------

\* What the event loop runs once the awaited call has returned.
RequestProceeds(s) ==
    \/ CreateSession(s)
    \/ ResumeSession(s)
    \/ RefuseSession(s)
    \/ LookupCache(s)
    \/ Retrieve(s)
    \/ Generate(s)
    \/ Store(s)
    \/ AppendTurn(s)
    \/ Bill(s)

RequestStep ==
    \E s \in Slots :
       \/ \E q \in Queries, stream \in BOOLEAN, k \in Sessions, new \in BOOLEAN :
             Arrive(s, q, stream, k, new)
       \/ RequestProceeds(s)
       \/ CallRaises(s)
       \/ StreamStops(s)
       \/ StreamCut(s)
       \/ BillIsLost(s)

=============================================================================
