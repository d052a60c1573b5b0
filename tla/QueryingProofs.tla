--------------------------- MODULE QueryingProofs ---------------------------
(***************************************************************************)
(* The invariants of Querying for any slots, sessions, queries and         *)
(* bounds. One inductive invariant carries the types, the cost records     *)
(* and the sessions; the budget has one of its own. The last two parts     *)
(* are about what answers are made from and leave behind: the old answers  *)
(* in the semantic cache, and the turns in the transcripts of sessions.    *)
(***************************************************************************)
EXTENDS Querying, FiniteSetTheorems, TLAPS

LocalsTyped ==
    /\ pc \in [Slots -> PC]
    /\ spent \in [Slots -> 0..MaxCost]
    /\ req \in [Slots -> Request]

\* What is read before it is stored.
VersionRead(s) == pc[s] \in {"generate", "store"} => req[s].version \in Versions

\* A request that has its session uses it within 24 hours of the session's last turn,
\* and the one tick it may see comes on top.
SessionFresh(s) ==
    pc[s] \notin {"idle", "session"} =>
       age[req[s].session] <= IF req[s].crossed THEN SessionExpiry + 1 ELSE SessionExpiry

SlotInvariant(s) == VersionRead(s) /\ SessionFresh(s)

QueryInvariant == TypeOK /\ \A s \in Slots : SlotInvariant(s)

-----------------------------------------------------------------------------
(* Types. *)

\* A request that arrives.
LEMMA AskedTyped ==
    ASSUME NEW q \in Queries \cup {NoQuery}, NEW stream \in BOOLEAN, NEW k \in Sessions,
           NEW new \in BOOLEAN
    PROVE  Asked(q, stream, k, new) \in Request
BY DEF Asked, Request

\* A request that is over.
LEMMA EndedTyped ==
    ASSUME NEW k \in Sessions, NEW answer \in BOOLEAN,
           NEW outcome \in {"refused", "failed", "done"}
    PROVE  Ended(k, answer, outcome) \in Request
BY DEF Ended, Request

\* The updates of a request's locals.
LEMMA UpdatesTyped ==
    ASSUME NEW r \in Request
    PROVE  /\ [r EXCEPT !.hit = TRUE, !.answer = TRUE] \in Request
           /\ [r EXCEPT !.hit = TRUE] \in Request
           /\ [r EXCEPT !.answer = TRUE] \in Request
           /\ \A b \in BOOLEAN : [r EXCEPT !.crossed = b] \in Request
           /\ \A b \in BOOLEAN : [r EXCEPT !.overtaken = b] \in Request
           /\ \A h \in SUBSET Slots : [r EXCEPT !.history = h] \in Request
           /\ \A v \in Versions : [r EXCEPT !.version = v] \in Request
           /\ [r EXCEPT !.outcome = "none"] \in Request
BY DEF Request

\* What those updates leave alone.
LEMMA UpdatesKeep ==
    ASSUME NEW r \in Request
    PROVE  /\ \A b \in BOOLEAN : LET u == [r EXCEPT !.crossed = b] IN
                u.session = r.session /\ u.version = r.version /\ u.outcome = r.outcome
                /\ u.crossed = b
           /\ \A b \in BOOLEAN : LET u == [r EXCEPT !.overtaken = b] IN
                u.session = r.session /\ u.version = r.version /\ u.outcome = r.outcome
                /\ u.crossed = r.crossed
           /\ \A h \in SUBSET Slots : LET u == [r EXCEPT !.history = h] IN
                u.session = r.session /\ u.version = r.version /\ u.outcome = r.outcome
                /\ u.crossed = r.crossed
           /\ \A v \in Versions : LET u == [r EXCEPT !.version = v] IN
                u.session = r.session /\ u.version = v /\ u.crossed = r.crossed
           /\ LET u == [r EXCEPT !.answer = TRUE] IN
                u.session = r.session /\ u.version = r.version /\ u.crossed = r.crossed
           /\ LET u == [r EXCEPT !.hit = TRUE, !.answer = TRUE] IN
                u.session = r.session /\ u.version = r.version /\ u.crossed = r.crossed
           /\ LET u == [r EXCEPT !.hit = TRUE] IN
                u.session = r.session /\ u.version = r.version /\ u.crossed = r.crossed
           /\ LET u == [r EXCEPT !.outcome = "none"] IN
                u.session = r.session /\ u.version = r.version /\ u.crossed = r.crossed
                /\ u.outcome = "none"
BY DEF Request

\* A request may use nothing.
LEMMA NothingSpent == 0 \in 0..MaxCost
BY BudgetAssumption

\* A request ends: the others keep their locals, and its own are those of no request.
LEMMA EndsKeeps ==
    ASSUME LocalsTyped, NEW s \in Slots,
           NEW outcome \in {"refused", "failed", "done"}, Ends(s, outcome)
    PROVE  /\ LocalsTyped'
           /\ pc'[s] = "idle" /\ req'[s].outcome = outcome
           /\ \A r \in Slots \ {s} : pc'[r] = pc[r] /\ req'[r] = req[r]
<1>1. req[s].session \in Sessions
  BY DEF LocalsTyped, Request
<1>2. PICK answer \in BOOLEAN :
         req' = [req EXCEPT ![s] = Ended(req[s].session, answer, outcome)]
  BY DEF Ends
<1>3. Ended(req[s].session, answer, outcome) \in Request
  BY <1>1, EndedTyped
<1>4. /\ req' \in [Slots -> Request]
      /\ req'[s] = Ended(req[s].session, answer, outcome)
      /\ \A r \in Slots \ {s} : req'[r] = req[r]
  BY <1>2, <1>3 DEF LocalsTyped
<1>8. req'[s].outcome = outcome
  <2> DEFINE e == Ended(req[s].session, answer, outcome)
  <2>1. e.outcome = outcome
    BY DEF Ended
  <2>3. req'[s] = e
    BY <1>4
  <2> HIDE DEF e
  <2> QED BY <2>1, <2>3
<1>5. pc' = [pc EXCEPT ![s] = "idle"] /\ spent' = [spent EXCEPT ![s] = 0]
  BY DEF Ends
<1>6. /\ pc' \in [Slots -> PC] /\ pc'[s] = "idle"
      /\ \A r \in Slots \ {s} : pc'[r] = pc[r]
  BY <1>5 DEF LocalsTyped, PC
<1>7. spent' \in [Slots -> 0..MaxCost]
  BY <1>5, NothingSpent DEF LocalsTyped
<1> QED BY <1>4, <1>6, <1>7, <1>8 DEF LocalsTyped

\* A request goes on.
LEMMA ContinuesKeeps ==
    ASSUME LocalsTyped, NEW s \in Slots, NEW next \in PC, NEW r \in Request,
           Continues(s, next, r), spent' \in [Slots -> 0..MaxCost]
    PROVE  /\ LocalsTyped' /\ pc'[s] = next /\ req'[s] = r
           /\ \A o \in Slots \ {s} : pc'[o] = pc[o] /\ req'[o] = req[o]
BY DEF LocalsTyped, Continues

\* The cache holds rows.
LEMMA CacheTyped ==
    ASSUME CacheTypeOK
    PROVE  /\ \A q \in Queries, v \in Versions, b \in BOOLEAN :
                Stored(q, v, b) \in [Queries -> Row \cup {NoRow}]
           /\ Invalidated \in [Queries -> Row \cup {NoRow}]
           /\ CleanedUp \in [Queries -> Row \cup {NoRow}]
           /\ Aged \in [Queries -> Row \cup {NoRow}]
<1>1. \A v \in Versions, b \in BOOLEAN : [version |-> v, age |-> 0, overtaken |-> b] \in Row
  BY CacheBounds DEF Row
<1>2. \A q \in Queries, v \in Versions, b \in BOOLEAN :
         Stored(q, v, b) \in [Queries -> Row \cup {NoRow}]
  BY <1>1 DEF Stored, CacheTypeOK
<1>3. /\ Invalidated \in [Queries -> Row \cup {NoRow}]
      /\ CleanedUp \in [Queries -> Row \cup {NoRow}]
  BY DEF Invalidated, CleanedUp, CacheTypeOK
<1>4. \A row \in Row : row.age <= CacheTTL => [row EXCEPT !.age = @ + 1] \in Row
  BY CacheBounds DEF Row
<1>5. Aged \in [Queries -> Row \cup {NoRow}]
  BY <1>4 DEF Aged, Cached, CacheTypeOK
<1> QED BY <1>2, <1>3, <1>5

-----------------------------------------------------------------------------
(* The steps of a request. *)

\* A step of the request of slot s: the others keep their locals, and no session grows
\* older or goes away.
StepOf(s) ==
    /\ LocalsTyped'
    /\ \A r \in Slots \ {s} : pc'[r] = pc[r] /\ req'[r] = req[r]
    /\ age' \in [Sessions -> 0..Gone]
    /\ \A k \in Sessions : age'[k] = age[k] \/ age'[k] = 0
    /\ recorded' \in Nat
    /\ transcript' \in [Sessions -> SUBSET Slots]
    /\ cache' \in [Queries -> Row \cup {NoRow}]
    /\ faults' \in 0..MaxFaults
    /\ UNCHANGED <<corpus, writer, covered>>
    /\ SlotInvariant(s)'

\* Such a step keeps the invariant of every other request.
LEMMA StepKeeps ==
    ASSUME QueryInvariant, NEW s \in Slots, StepOf(s) PROVE QueryInvariant'
<1>1. TypeOK'
  BY DEF StepOf, QueryInvariant, TypeOK, ServiceTypeOK, CacheTypeOK, LocalsTyped, Gone, Request,
         Versions, Row, NoRow, PC
<1>2. ASSUME NEW r \in Slots, r # s PROVE SlotInvariant(r)'
  <2>1. pc'[r] = pc[r] /\ req'[r] = req[r] /\ SlotInvariant(r)
    BY <1>2 DEF StepOf, QueryInvariant
  <2>2. req[r].session \in Sessions
    BY DEF QueryInvariant, TypeOK, ServiceTypeOK, Request
  <2>3. age'[req[r].session] = age[req[r].session] \/ age'[req[r].session] = 0
    BY <2>2 DEF StepOf
  <2>4. SessionFresh(r)'
    BY <2>1, <2>3, SessionAssumption DEF SlotInvariant, SessionFresh
  <2> QED BY <2>1, <2>4 DEF SlotInvariant, VersionRead, Versions
<1>3. SlotInvariant(s)'
  BY DEF StepOf
<1> QED BY <1>1, <1>2, <1>3 DEF QueryInvariant

\* A request that arrives has no session yet, and is in nobody's history.
LEMMA ArriveStep ==
    ASSUME QueryInvariant, NEW s \in Slots, NEW q \in Queries, NEW stream \in BOOLEAN,
           NEW k \in Sessions, NEW new \in BOOLEAN, Arrive(s, q, stream, k, new),
           UNCHANGED <<corpus, writer, covered>>
    PROVE  QueryInvariant'
<1> DEFINE fresh == Asked(q, stream, k, new)
<1>1. TypeOK /\ pc \in [Slots -> PC] /\ req \in [Slots -> Request]
  BY DEF QueryInvariant, TypeOK, ServiceTypeOK
<1>2. fresh \in Request
  BY AskedTyped
<1>3. req' = [r \in Slots |-> IF r = s THEN fresh
                              ELSE [req[r] EXCEPT !.history = req[r].history \ {s}]]
  BY DEF Arrive
<1> HIDE DEF fresh
<1>4. ASSUME NEW r \in Slots, r # s
      PROVE  /\ req'[r] \in Request /\ req'[r].session = req[r].session
             /\ req'[r].version = req[r].version /\ req'[r].outcome = req[r].outcome
             /\ req'[r].crossed = req[r].crossed
  <2>1. req[r] \in Request
    BY <1>1
  <2>2. req[r].history \ {s} \in SUBSET Slots
    BY <2>1 DEF Request
  <2>3. req'[r] = [req[r] EXCEPT !.history = req[r].history \ {s}]
    BY <1>3, <1>4
  <2> DEFINE h == req[r].history \ {s}
  <2>4. [req[r] EXCEPT !.history = h] \in Request
    BY <2>1, <2>2, UpdatesTyped
  <2>5. LET u == [req[r] EXCEPT !.history = h] IN
          u.session = req[r].session /\ u.version = req[r].version
          /\ u.outcome = req[r].outcome /\ u.crossed = req[r].crossed
    BY <2>1, <2>2, UpdatesKeep
  <2> QED BY <2>3, <2>4, <2>5
<1>5. req'[s] = fresh
  BY <1>3
<1>6. req' \in [Slots -> Request]
  BY <1>2, <1>3, <1>4, <1>5
<1>7. pc' = [pc EXCEPT ![s] = "session"] /\ UNCHANGED <<spent, recorded, age, cache, faults>>
  BY DEF Arrive
<1>8. pc' \in [Slots -> PC] /\ pc'[s] = "session" /\ \A r \in Slots \ {s} : pc'[r] = pc[r]
  BY <1>1, <1>7 DEF PC
<1>9. transcript' \in [Sessions -> SUBSET Slots]
  BY <1>1 DEF Arrive, TypeOK, ServiceTypeOK
<1>10. TypeOK'
  BY <1>1, <1>6, <1>7, <1>8, <1>9 DEF TypeOK, ServiceTypeOK, CacheTypeOK, Gone, Request,
         Versions, Row, NoRow, PC
<1>11. ASSUME NEW r \in Slots PROVE SlotInvariant(r)'
  <2>1. CASE r = s
    BY <1>8, <2>1 DEF SlotInvariant, VersionRead, SessionFresh
  <2>2. CASE r # s
    <3>1. SlotInvariant(r) /\ pc'[r] = pc[r] /\ age' = age
      BY <1>7, <1>8, <2>2 DEF QueryInvariant
    <3> QED BY <1>4, <2>2, <3>1 DEF SlotInvariant, VersionRead, SessionFresh, Versions
  <2> QED BY <2>1, <2>2
<1> QED BY <1>10, <1>11 DEF QueryInvariant

\* A step that ends a request and changes nothing the others share, but perhaps the cost
\* records, the transcripts and the last turn of a session.
LEMMA EndStep ==
    ASSUME QueryInvariant, NEW s \in Slots, UNCHANGED <<corpus, writer, covered, cache>>,
           NEW outcome \in {"refused", "failed", "done"}, Ends(s, outcome),
           age' \in [Sessions -> 0..Gone],
           \A k \in Sessions : age'[k] = age[k] \/ age'[k] = 0,
           recorded' \in Nat, transcript' \in [Sessions -> SUBSET Slots],
           faults' \in 0..MaxFaults
    PROVE  QueryInvariant'
<1>1. LocalsTyped /\ CacheTypeOK
  BY DEF QueryInvariant, TypeOK, ServiceTypeOK, LocalsTyped
<1>2. /\ LocalsTyped'
      /\ pc'[s] = "idle" /\ req'[s].outcome = outcome
      /\ \A r \in Slots \ {s} : pc'[r] = pc[r] /\ req'[r] = req[r]
  BY <1>1, EndsKeeps
<1>3. SlotInvariant(s)'
  BY <1>2 DEF SlotInvariant, VersionRead, SessionFresh
<1>4. cache' \in [Queries -> Row \cup {NoRow}]
  BY <1>1 DEF CacheTypeOK
<1>5. StepOf(s)
  BY <1>2, <1>3, <1>4 DEF StepOf
<1> QED BY <1>5, StepKeeps

\* A step after which a request goes on.
LEMMA GoOnStep ==
    ASSUME QueryInvariant, NEW s \in Slots, UNCHANGED <<corpus, writer, covered, recorded, faults>>,
           NEW next \in PC \ {"idle", "session"}, NEW r \in Request, Continues(s, next, r),
           spent' \in [Slots -> 0..MaxCost],
           next \in {"generate", "store"} => r.version \in Versions,
           age' \in [Sessions -> 0..Gone],
           \A k \in Sessions : age'[k] = age[k] \/ age'[k] = 0,
           age'[r.session] <= IF r.crossed THEN SessionExpiry + 1 ELSE SessionExpiry,
           transcript' \in [Sessions -> SUBSET Slots],
           cache' \in [Queries -> Row \cup {NoRow}]
    PROVE  QueryInvariant'
<1>1. LocalsTyped /\ CacheTypeOK /\ recorded \in Nat /\ faults \in 0..MaxFaults
  BY DEF QueryInvariant, TypeOK, ServiceTypeOK, LocalsTyped
<1>2. /\ LocalsTyped' /\ pc'[s] = next /\ req'[s] = r
      /\ \A o \in Slots \ {s} : pc'[o] = pc[o] /\ req'[o] = req[o]
  BY <1>1, ContinuesKeeps
<1>3. SlotInvariant(s)'
  BY <1>2 DEF SlotInvariant, VersionRead, SessionFresh, Versions
<1>4. StepOf(s)
  BY <1>1, <1>2, <1>3 DEF StepOf
<1> QED BY <1>4, StepKeeps

\* Every step of a request keeps the invariant.
LEMMA RequestKeeps ==
    ASSUME QueryInvariant, RequestStep, UNCHANGED <<corpus, writer, covered>>
    PROVE  QueryInvariant'
<1>1. /\ pc \in [Slots -> PC] /\ spent \in [Slots -> 0..MaxCost] /\ recorded \in Nat
      /\ req \in [Slots -> Request] /\ age \in [Sessions -> 0..Gone]
      /\ transcript \in [Sessions -> SUBSET Slots] /\ faults \in 0..MaxFaults
      /\ corpus \in Versions /\ cache \in [Queries -> Row \cup {NoRow}]
  BY DEF QueryInvariant, TypeOK, ServiceTypeOK, CacheTypeOK
<1>2. PICK s \in Slots :
         \/ \E q \in Queries, stream \in BOOLEAN, k \in Sessions, new \in BOOLEAN :
               Arrive(s, q, stream, k, new)
         \/ RequestProceeds(s) \/ CallRaises(s) \/ StreamStops(s) \/ StreamCut(s)
         \/ BillIsLost(s)
  BY DEF RequestStep
<1> DEFINE k == req[s].session
<1>3. /\ req[s] \in Request /\ k \in Sessions /\ SlotInvariant(s)
      /\ req[s].version \in Versions \cup {-1} /\ req[s].history \in SUBSET Slots
  BY <1>1 DEF Request, QueryInvariant
<1>4. pc[s] \notin {"idle", "session"} =>
         age[k] <= IF req[s].crossed THEN SessionExpiry + 1 ELSE SessionExpiry
  BY <1>3 DEF SlotInvariant, SessionFresh
<1>5. 0 \in 0..Gone /\ SessionExpiry \in Nat
  BY SessionAssumption DEF Gone
<1>6. ASSUME NEW q \in Queries, NEW stream \in BOOLEAN, NEW j \in Sessions,
             NEW new \in BOOLEAN, Arrive(s, q, stream, j, new)
      PROVE  QueryInvariant'
  BY <1>6, ArriveStep
<1>7. CASE CreateSession(s)
  <2>1. /\ age' = [age EXCEPT ![k] = 0] /\ transcript' = [transcript EXCEPT ![k] = {}]
        /\ Continues(s, "lookup", req[s]) /\ UNCHANGED <<spent, recorded, cache, faults>>
    BY <1>7 DEF CreateSession
  <2>2. /\ age' \in [Sessions -> 0..Gone] /\ age'[k] = 0
        /\ \A j \in Sessions : age'[j] = age[j] \/ age'[j] = 0
    BY <1>1, <1>3, <1>5, <2>1
  <2>3. transcript' \in [Sessions -> SUBSET Slots]
    BY <1>1, <2>1
  <2>4. age'[k] <= IF req[s].crossed THEN SessionExpiry + 1 ELSE SessionExpiry
    BY <1>5, <2>2
  <2> QED BY <1>1, <1>3, <2>1, <2>2, <2>3, <2>4, GoOnStep DEF PC
<1>8. CASE ResumeSession(s)
  <2>1. /\ Continues(s, "lookup", [req[s] EXCEPT !.history = transcript[k]])
        /\ UNCHANGED <<spent, recorded, age, transcript, cache, faults>>
        /\ age[k] <= SessionExpiry
    BY <1>8 DEF ResumeSession, Usable
  <2>2. transcript[k] \in SUBSET Slots
    BY <1>1, <1>3
  <2> DEFINE h == transcript[k]
             r == [req[s] EXCEPT !.history = h]
  <2>3. r \in Request
    BY <1>3, <2>2, UpdatesTyped
  <2>4. r.session = k /\ r.crossed = req[s].crossed
    BY <1>3, <2>2, UpdatesKeep
  <2>5. Continues(s, "lookup", r)
    BY <2>1
  <2> HIDE DEF r, h
  <2>6. age'[r.session] <= IF r.crossed THEN SessionExpiry + 1 ELSE SessionExpiry
    <3>1. age[k] \in 0..Gone
      BY <1>1, <1>3
    <3> QED BY <1>5, <2>1, <2>4, <3>1
  <2> QED BY <1>1, <2>1, <2>3, <2>5, <2>6, GoOnStep DEF PC
<1>9. CASE RefuseSession(s)
  BY <1>1, <1>9, EndStep DEF RefuseSession
<1>10. CASE LookupCache(s)
  <2>1. UNCHANGED <<spent, recorded, age, transcript, cache, faults>> /\ pc[s] = "lookup"
    BY <1>10 DEF LookupCache
  <2>2. CASE Continues(s, "retrieve", req[s])
    BY <1>1, <1>3, <1>4, <2>1, <2>2, GoOnStep DEF PC
  <2>3. CASE Continues(s, "append", [req[s] EXCEPT !.hit = TRUE, !.answer = TRUE])
    <3> DEFINE r == [req[s] EXCEPT !.hit = TRUE, !.answer = TRUE]
    <3>1. r \in Request
      BY <1>3, UpdatesTyped
    <3>2. r.session = k /\ r.crossed = req[s].crossed
      BY <1>3, UpdatesKeep
    <3>3. Continues(s, "append", r)
      BY <2>3
    <3> HIDE DEF r
    <3> QED BY <1>1, <1>4, <2>1, <3>1, <3>2, <3>3, GoOnStep DEF PC
  <2>4. CASE Continues(s, "bill", [req[s] EXCEPT !.hit = TRUE])
    <3> DEFINE r == [req[s] EXCEPT !.hit = TRUE]
    <3>1. r \in Request
      BY <1>3, UpdatesTyped
    <3>2. r.session = k /\ r.crossed = req[s].crossed
      BY <1>3, UpdatesKeep
    <3>3. Continues(s, "bill", r)
      BY <2>4
    <3> HIDE DEF r
    <3> QED BY <1>1, <1>4, <2>1, <3>1, <3>2, <3>3, GoOnStep DEF PC
  <2> QED BY <1>10, <2>2, <2>3, <2>4 DEF LookupCache
<1>11. CASE Retrieve(s)
  <2>1. /\ UNCHANGED <<spent, recorded, age, transcript, cache, faults>> /\ pc[s] = "retrieve"
        /\ Continues(s, "generate", [req[s] EXCEPT !.version = corpus])
    BY <1>11 DEF Retrieve
  <2> DEFINE r == [req[s] EXCEPT !.version = corpus]
  <2>2. r \in Request
    BY <1>1, <1>3, UpdatesTyped
  <2>3. r.session = k /\ r.crossed = req[s].crossed /\ r.version = corpus
    BY <1>1, <1>3, UpdatesKeep
  <2>4. Continues(s, "generate", r)
    BY <2>1
  <2> HIDE DEF r
  <2> QED BY <1>1, <1>4, <2>1, <2>2, <2>3, <2>4, GoOnStep DEF PC
<1>12. ASSUME NEW n \in 0..MaxCost, spent' = [spent EXCEPT ![s] = n]
       PROVE  spent' \in [Slots -> 0..MaxCost]
  BY <1>1, <1>12
<1>13. CASE Generate(s)
  <2> DEFINE r == [req[s] EXCEPT !.answer = TRUE]
  <2>1. r \in Request
    BY <1>3, UpdatesTyped
  <2>2. r.session = k /\ r.crossed = req[s].crossed /\ r.version = req[s].version
    BY <1>3, UpdatesKeep
  <2>3. /\ Continues(s, "store", r) /\ pc[s] = "generate"
        /\ UNCHANGED <<recorded, age, transcript, cache, faults>>
    BY <1>13 DEF Generate
  <2>4. req[s].version \in Versions
    BY <1>3, <2>3 DEF SlotInvariant, VersionRead
  <2>5. spent' \in [Slots -> 0..MaxCost]
    BY <1>12, <1>13 DEF Generate
  <2> HIDE DEF r
  <2> QED BY <1>1, <1>4, <2>1, <2>2, <2>3, <2>4, <2>5, GoOnStep DEF PC
<1>14. CASE StreamStops(s)
  <2>1. /\ UNCHANGED <<recorded, age, transcript, cache, faults>>
        /\ pc[s] \in {"retrieve", "generate"} /\ Continues(s, "bill", req[s])
    BY <1>14 DEF StreamStops
  <2>2. spent' \in [Slots -> 0..MaxCost]
    BY <1>12, <1>14 DEF StreamStops
  <2> QED BY <1>1, <1>3, <1>4, <2>1, <2>2, GoOnStep DEF PC
<1>15. CASE Store(s)
  <2>1. /\ UNCHANGED <<spent, recorded, age, transcript, faults>> /\ pc[s] = "store"
        /\ Continues(s, "append", req[s])
        /\ cache' = Stored(req[s].ask, req[s].version, req[s].overtaken)
    BY <1>15 DEF Store
  <2>2. req[s].version \in Versions /\ req[s].overtaken \in BOOLEAN
    BY <1>3, <2>1 DEF SlotInvariant, VersionRead, Request
  <2>3. cache' \in [Queries -> Row \cup {NoRow}]
    <3>1. [version |-> req[s].version, age |-> 0, overtaken |-> req[s].overtaken] \in Row
      BY <2>2, CacheBounds DEF Row
    <3> QED BY <1>1, <2>1, <3>1 DEF Stored
  <2> QED BY <1>1, <1>3, <1>4, <2>1, <2>3, GoOnStep DEF PC
<1>16. CASE AppendTurn(s)
  <2>1. /\ UNCHANGED <<recorded, cache, faults>> /\ pc[s] = "append"
        /\ transcript' = WithTurn(s, k)
        /\ age' = [age EXCEPT ![k] = IF SessionExists(k) THEN 0 ELSE age[k]]
        /\ IF ReturnsWithoutBill(s)
           THEN Ends(s, "done")
           ELSE Continues(s, "bill", req[s]) /\ UNCHANGED spent
    BY <1>16 DEF AppendTurn
  <2>2. /\ age' \in [Sessions -> 0..Gone]
        /\ \A j \in Sessions : age'[j] = age[j] \/ age'[j] = 0
    BY <1>1, <1>3, <1>5, <2>1
  <2>3. transcript' \in [Sessions -> SUBSET Slots]
    BY <1>1, <1>3, <2>1 DEF WithTurn
  <2>4. age'[k] <= IF req[s].crossed THEN SessionExpiry + 1 ELSE SessionExpiry
    <3>1. age'[k] = age[k] \/ age'[k] = 0
      BY <1>3, <2>2
    <3>2. age[k] <= IF req[s].crossed THEN SessionExpiry + 1 ELSE SessionExpiry
      BY <1>4, <2>1
    <3> QED BY <1>5, <3>1, <3>2
  <2>5. CASE ReturnsWithoutBill(s)
    <3>1. Ends(s, "done")
      BY <2>1, <2>5 DEF ReturnsWithoutBill
    <3> QED BY <1>1, <2>1, <2>2, <2>3, <3>1, EndStep
  <2>6. CASE ~ReturnsWithoutBill(s)
    BY <1>1, <1>3, <2>1, <2>2, <2>3, <2>4, <2>6, GoOnStep DEF PC
  <2> QED BY <2>5, <2>6
<1>17. CASE Bill(s)
  <2>1. recorded' \in Nat
    BY <1>1, <1>17, BudgetAssumption DEF Bill
  <2> QED BY <1>1, <1>17, <2>1, EndStep DEF Bill
<1>18. CASE BillIsLost(s)
  <2>1. faults' \in 0..MaxFaults
    BY <1>1, <1>18, FaultAssumption DEF BillIsLost
  <2> QED BY <1>1, <1>18, <2>1, EndStep DEF BillIsLost
<1>19. CASE CallRaises(s)
  <2>1. faults' \in 0..MaxFaults
    BY <1>1, <1>19, FaultAssumption DEF CallRaises
  <2> QED BY <1>1, <1>19, <2>1, EndStep DEF CallRaises
<1>20. CASE StreamCut(s)
  BY <1>1, <1>20, EndStep DEF StreamCut
<1> QED
  BY <1>2, <1>6, <1>7, <1>8, <1>9, <1>10, <1>11, <1>13, <1>14, <1>15, <1>16, <1>17, <1>18,
     <1>19, <1>20 DEF RequestProceeds

-----------------------------------------------------------------------------
(* The steps of everything else. *)

\* A step that leaves the requests and the sessions alone.
LEMMA OutsideKeeps ==
    ASSUME QueryInvariant, UNCHANGED <<pc, spent, age, transcript>>, recorded' \in Nat,
           req' = req \/ req' = [s \in Slots |-> [req[s] EXCEPT !.overtaken =
                                                 req[s].overtaken \/ Computing(s)]],
           cache' \in [Queries -> Row \cup {NoRow}], faults' \in 0..MaxFaults,
           corpus' \in Versions, covered' \in Versions,
           writer' \in {"idle", "upserted", "invalidated"}
    PROVE  QueryInvariant'
<1>1. /\ pc \in [Slots -> PC] /\ spent \in [Slots -> 0..MaxCost]
      /\ req \in [Slots -> Request] /\ age \in [Sessions -> 0..Gone]
      /\ transcript \in [Sessions -> SUBSET Slots]
  BY DEF QueryInvariant, TypeOK, ServiceTypeOK
<1>2. ASSUME NEW s \in Slots
      PROVE  /\ req'[s] \in Request /\ req'[s].session = req[s].session
             /\ req'[s].version = req[s].version /\ req'[s].outcome = req[s].outcome
             /\ req'[s].crossed = req[s].crossed
  <2>1. req[s] \in Request
    BY <1>1
  <2>2. CASE req' = req
    BY <2>1, <2>2
  <2>3. CASE req' # req
    <3>1. PICK b \in BOOLEAN : req'[s] = [req[s] EXCEPT !.overtaken = b]
      <4>1. req' = [r \in Slots |-> [req[r] EXCEPT !.overtaken = req[r].overtaken \/ Computing(r)]]
        BY <2>3
      <4>2. req'[s] = [req[s] EXCEPT !.overtaken = (req[s].overtaken \/ Computing(s))]
        BY <4>1
      <4>3. (req[s].overtaken \/ Computing(s)) \in BOOLEAN
        OBVIOUS
      <4> QED BY <4>2, <4>3
    <3>2. [req[s] EXCEPT !.overtaken = b] \in Request
      BY <2>1, UpdatesTyped
    <3>3. LET u == [req[s] EXCEPT !.overtaken = b] IN
            u.session = req[s].session /\ u.version = req[s].version
            /\ u.outcome = req[s].outcome /\ u.crossed = req[s].crossed
      BY <2>1, UpdatesKeep
    <3> QED BY <3>1, <3>2, <3>3
  <2> QED BY <2>2, <2>3
<1>3. req' \in [Slots -> Request]
  <2>1. CASE req' = req
    BY <1>1, <2>1
  <2>2. CASE req' # req
    <3>1. req' = [r \in Slots |-> req'[r]]
      <4>1. req' = [r \in Slots |-> [req[r] EXCEPT !.overtaken = req[r].overtaken \/ Computing(r)]]
        BY <2>2
      <4> QED BY <4>1
    <3> QED BY <1>2, <3>1
  <2> QED BY <2>1, <2>2
<1>4. TypeOK'
  BY <1>1, <1>3 DEF TypeOK, ServiceTypeOK, CacheTypeOK, Gone, Request, Versions, Row, NoRow, PC
<1>5. ASSUME NEW s \in Slots PROVE SlotInvariant(s)'
  <2>1. SlotInvariant(s) /\ pc'[s] = pc[s] /\ age' = age
    BY DEF QueryInvariant
  <2> QED BY <1>2, <2>1 DEF SlotInvariant, VersionRead, SessionFresh, Versions
<1> QED BY <1>4, <1>5 DEF QueryInvariant

\* The writers of documents.
LEMMA WriterKeeps == ASSUME QueryInvariant, WriterStep PROVE QueryInvariant'
<1>1. /\ recorded \in Nat /\ faults \in 0..MaxFaults /\ covered \in Versions
      /\ corpus \in Versions /\ cache \in [Queries -> Row \cup {NoRow}]
      /\ writer \in {"idle", "upserted", "invalidated"} /\ CacheTypeOK
  BY DEF QueryInvariant, TypeOK, ServiceTypeOK, CacheTypeOK
<1>2. ASSUME ChangeDocuments PROVE corpus' \in Versions
  BY <1>1, <1>2, CacheBounds DEF ChangeDocuments, Versions
<1>3. ASSUME InvalidateCache, UNCHANGED <<corpus, faults>>,
             writer' \in {"idle", "upserted", "invalidated"}
      PROVE  QueryInvariant'
  <2>1. cache' \in [Queries -> Row \cup {NoRow}]
    BY <1>1, <1>3, CacheTyped DEF InvalidateCache
  <2>2. UNCHANGED <<pc, spent, recorded, age, transcript>> /\ covered' = corpus
    BY <1>3 DEF InvalidateCache, ServiceUnchanged
  <2>3. req' = [s \in Slots |-> [req[s] EXCEPT !.overtaken = req[s].overtaken \/ Computing(s)]]
    BY <1>3 DEF InvalidateCache
  <2> QED BY <1>1, <1>3, <2>1, <2>2, <2>3, OutsideKeeps
<1>4. ASSUME ServiceUnchanged, UNCHANGED <<cache, covered, req>>, corpus' \in Versions,
             faults' \in 0..MaxFaults, writer' \in {"idle", "upserted", "invalidated"}
      PROVE  QueryInvariant'
  BY <1>1, <1>4, OutsideKeeps DEF ServiceUnchanged
<1>5. CASE WorkerUpserts
  BY <1>1, <1>2, <1>4, <1>5 DEF WorkerUpserts
<1>6. CASE WorkerInvalidates
  BY <1>3, <1>6 DEF WorkerInvalidates
<1>7. CASE WorkerSkipsInvalidation
  BY <1>1, <1>4, <1>7, FaultAssumption DEF WorkerSkipsInvalidation
<1>8. CASE ReindexInvalidates
  BY <1>3, <1>8 DEF ReindexInvalidates
<1>9. CASE ReindexWipes
  BY <1>1, <1>2, <1>4, <1>9 DEF ReindexWipes
<1>10. CASE DocumentDeleted
  BY <1>1, <1>2, <1>4, <1>10 DEF DocumentDeleted
<1>11. CASE DatasetReplaced
  BY <1>1, <1>3, <1>11 DEF DatasetReplaced
<1> QED BY <1>5, <1>6, <1>7, <1>8, <1>9, <1>10, <1>11 DEF WriterStep, WriterProceeds

\* The tick of the clock: no request sees two.
LEMMA TickKeeps == ASSUME QueryInvariant, Tick PROVE QueryInvariant'
<1>1. /\ pc \in [Slots -> PC] /\ req \in [Slots -> Request] /\ age \in [Sessions -> 0..Gone]
      /\ CacheTypeOK
  BY DEF QueryInvariant, TypeOK, ServiceTypeOK
<1>2. /\ UNCHANGED <<pc, spent, recorded, transcript, corpus, faults, writer, covered>>
      /\ age' = [k \in Sessions |-> IF age[k] < SessionLifetime THEN age[k] + 1 ELSE age[k]]
      /\ req' = [s \in Slots |-> [req[s] EXCEPT !.crossed = pc[s] # "idle"]]
      /\ \A s \in Slots : ~req[s].crossed
  BY DEF Tick
<1>3. age' \in [Sessions -> 0..Gone] /\ \A k \in Sessions : age'[k] <= age[k] + 1
  BY <1>1, <1>2, SessionAssumption DEF Gone
<1>4. ASSUME NEW s \in Slots
      PROVE  /\ req'[s] \in Request /\ req'[s].session = req[s].session
             /\ req'[s].version = req[s].version /\ req'[s].outcome = req[s].outcome
             /\ req'[s].crossed = (pc[s] # "idle")
  <2>1. req[s] \in Request
    BY <1>1
  <2>2. PICK b \in BOOLEAN : b = (pc[s] # "idle")
    OBVIOUS
  <2>3. req'[s] = [req[s] EXCEPT !.crossed = (pc[s] # "idle")]
    BY <1>2
  <2>4. req'[s] = [req[s] EXCEPT !.crossed = b]
    BY <2>2, <2>3
  <2>5. [req[s] EXCEPT !.crossed = b] \in Request
    BY <2>1, UpdatesTyped
  <2>6. LET u == [req[s] EXCEPT !.crossed = b] IN
          u.session = req[s].session /\ u.version = req[s].version
          /\ u.outcome = req[s].outcome /\ u.crossed = b
    BY <2>1, UpdatesKeep
  <2> QED BY <2>2, <2>4, <2>5, <2>6
<1>5. req' \in [Slots -> Request]
  <2>1. req' = [s \in Slots |-> req'[s]]
    BY <1>2
  <2> QED BY <1>4, <2>1
<1>6. cache' \in [Queries -> Row \cup {NoRow}]
  BY <1>1, CacheTyped DEF Tick
<1>7. TypeOK'
  BY <1>1, <1>2, <1>3, <1>5, <1>6
     DEF QueryInvariant, TypeOK, ServiceTypeOK, CacheTypeOK, Gone, Request, Versions, Row, NoRow, PC
<1>8. ASSUME NEW s \in Slots PROVE SlotInvariant(s)'
  <2>1. SlotInvariant(s) /\ pc'[s] = pc[s] /\ req[s].session \in Sessions
    BY <1>1, <1>2 DEF QueryInvariant, Request
  <2>2. SessionFresh(s)'
    <3> SUFFICES ASSUME pc[s] \notin {"idle", "session"}
                 PROVE  age'[req[s].session] <= SessionExpiry + 1
      BY <1>4, <2>1 DEF SessionFresh
    <3>1. age[req[s].session] <= SessionExpiry
      BY <1>2, <2>1 DEF SlotInvariant, SessionFresh
    <3>2. age[req[s].session] \in 0..Gone /\ age'[req[s].session] \in 0..Gone
      BY <1>1, <1>3, <2>1
    <3> QED BY <1>3, <2>1, <3>1, <3>2, SessionAssumption DEF Gone
  <2> QED BY <1>4, <2>1, <2>2 DEF SlotInvariant, VersionRead, Versions
<1> QED BY <1>7, <1>8 DEF QueryInvariant

\* A session is only removed long after a request could use it.
LEMMA RemovalKeeps ==
    ASSUME QueryInvariant, NEW k \in Sessions, RemoveSession(k) PROVE QueryInvariant'
<1>1. /\ pc \in [Slots -> PC] /\ req \in [Slots -> Request] /\ age \in [Sessions -> 0..Gone]
      /\ transcript \in [Sessions -> SUBSET Slots]
  BY DEF QueryInvariant, TypeOK, ServiceTypeOK
<1>2. /\ UNCHANGED <<pc, spent, recorded, cache, corpus, faults, writer, covered>>
      /\ age[k] = SessionLifetime /\ age' = [age EXCEPT ![k] = Gone]
      /\ transcript' = [transcript EXCEPT ![k] = {}]
      /\ req' = [s \in Slots |-> IF req[s].session = k /\ pc[s] = "idle"
                                 THEN [req[s] EXCEPT !.outcome = "none"] ELSE req[s]]
  BY DEF RemoveSession
<1>3. age' \in [Sessions -> 0..Gone] /\ transcript' \in [Sessions -> SUBSET Slots]
      /\ \A j \in Sessions : j # k => age'[j] = age[j]
  BY <1>1, <1>2, SessionAssumption DEF Gone
<1>4. ASSUME NEW s \in Slots
      PROVE  /\ req'[s] \in Request
             /\ req'[s] = req[s] \/ (pc[s] = "idle" /\ req'[s].outcome = "none")
  <2>1. req[s] \in Request
    BY <1>1
  <2>2. CASE req[s].session = k /\ pc[s] = "idle"
    <3>1. req'[s] = [req[s] EXCEPT !.outcome = "none"]
      BY <1>2, <2>2
    <3>2. [req[s] EXCEPT !.outcome = "none"] \in Request
      BY <2>1, UpdatesTyped
    <3>3. [req[s] EXCEPT !.outcome = "none"].outcome = "none"
      BY <2>1, UpdatesKeep
    <3> QED BY <2>2, <3>1, <3>2, <3>3
  <2>3. CASE ~(req[s].session = k /\ pc[s] = "idle")
    BY <1>2, <2>1, <2>3
  <2> QED BY <2>2, <2>3
<1>5. req' \in [Slots -> Request]
  <2>1. req' = [s \in Slots |-> req'[s]]
    BY <1>2
  <2> QED BY <1>4, <2>1
<1>6. TypeOK'
  BY <1>1, <1>2, <1>3, <1>5
     DEF QueryInvariant, TypeOK, ServiceTypeOK, CacheTypeOK, Gone, Request, Versions, Row, NoRow, PC
<1>7. ASSUME NEW s \in Slots PROVE SlotInvariant(s)'
  <2>1. SlotInvariant(s) /\ pc'[s] = pc[s] /\ req[s].session \in Sessions
    BY <1>1, <1>2 DEF QueryInvariant, Request
  <2>2. CASE pc[s] = "idle"
    BY <1>4, <2>1, <2>2 DEF SlotInvariant, VersionRead, SessionFresh
  <2>3. CASE pc[s] = "session"
    BY <2>1, <2>3 DEF SlotInvariant, VersionRead, SessionFresh
  <2>4. CASE pc[s] \notin {"idle", "session"}
    <3>1. req'[s] = req[s]
      BY <1>4, <2>4
    <3>2. age[req[s].session] <= SessionExpiry + 1
      <4>1. age[req[s].session] \in 0..Gone
        BY <1>1, <2>1
      <4>2. age[req[s].session] <= IF req[s].crossed THEN SessionExpiry + 1 ELSE SessionExpiry
        BY <2>1, <2>4 DEF SlotInvariant, SessionFresh
      <4> QED BY <4>1, <4>2, SessionAssumption DEF Gone
    <3>3. req[s].session # k
      BY <1>2, <3>2, SessionAssumption
    <3>4. age'[req[s].session] = age[req[s].session]
      BY <1>3, <2>1, <3>3
    <3> QED BY <2>1, <2>4, <3>1, <3>4 DEF SlotInvariant, VersionRead, SessionFresh, Versions
  <2> QED BY <2>2, <2>3, <2>4
<1> QED BY <1>6, <1>7 DEF QueryInvariant

-----------------------------------------------------------------------------
(* What follows. *)

\* The service starts without requests, sessions and rows.
LEMMA QueryStarts == Init => QueryInvariant
<1> SUFFICES ASSUME Init PROVE QueryInvariant
  OBVIOUS
<1>1. PICK k \in Sessions : req = [s \in Slots |-> Asked(NoQuery, FALSE, k, FALSE)]
  BY DEF Init, ServiceInit
<1> DEFINE r == Asked(NoQuery, FALSE, k, FALSE)
<1>2. r \in Request
  BY AskedTyped
<1>3. r.outcome = "none"
  BY DEF Asked
<1>4. req = [s \in Slots |-> r]
  BY <1>1
<1> HIDE DEF r
<1>5. req \in [Slots -> Request]
  BY <1>2, <1>4
<1>6. TypeOK
  <2>1. /\ pc \in [Slots -> PC] /\ age \in [Sessions -> 0..Gone] /\ recorded \in Nat
        /\ transcript \in [Sessions -> SUBSET Slots] /\ faults \in 0..MaxFaults
    BY SessionAssumption, FaultAssumption DEF Init, ServiceInit, Gone, PC
  <2>2. spent \in [Slots -> 0..MaxCost]
    BY NothingSpent DEF Init, ServiceInit
  <2>3. CacheTypeOK
    BY DEF Init, CacheInit, CacheTypeOK
  <2>4. corpus \in Versions /\ covered \in Versions /\ writer \in {"idle", "upserted", "invalidated"}
    BY CacheBounds DEF Init, Versions
  <2> QED BY <1>5, <2>1, <2>2, <2>3, <2>4 DEF TypeOK, ServiceTypeOK
<1>7. ASSUME NEW s \in Slots PROVE SlotInvariant(s)
  <2>1. pc[s] = "idle" /\ req[s].outcome = "none"
    BY <1>3, <1>4 DEF Init, ServiceInit
  <2> QED BY <2>1 DEF SlotInvariant, VersionRead, SessionFresh
<1> QED BY <1>6, <1>7 DEF QueryInvariant

\* The inductive invariant of requests, sessions and cost records.
THEOREM QueryInvariantHolds == Spec => []QueryInvariant
<1>1. QueryInvariant /\ [Next]_vars => QueryInvariant'
  <2> SUFFICES ASSUME QueryInvariant, [Next]_vars PROVE QueryInvariant'
    OBVIOUS
  <2>1. CASE RequestStep /\ UNCHANGED <<corpus, writer, covered>>
    BY <2>1, RequestKeeps
  <2>2. CASE WriterStep
    BY <2>2, WriterKeeps
  <2>3. CASE Tick
    BY <2>3, TickKeeps
  <2>4. ASSUME NEW k \in Sessions, RemoveSession(k) PROVE QueryInvariant'
    BY <2>4, RemovalKeeps
  <2>5. /\ corpus \in Versions /\ covered \in Versions /\ faults \in 0..MaxFaults
        /\ writer \in {"idle", "upserted", "invalidated"} /\ recorded \in Nat /\ CacheTypeOK
    BY DEF QueryInvariant, TypeOK, ServiceTypeOK
  <2>6. CASE NewMonth
    BY <2>5, <2>6, OutsideKeeps DEF NewMonth, CacheTypeOK
  <2>7. CASE CleanUp
    <3>1. cache' \in [Queries -> Row \cup {NoRow}]
      BY <2>5, <2>7, CacheTyped DEF CleanUp
    <3> QED BY <2>5, <2>7, <3>1, OutsideKeeps DEF CleanUp
  <2>8. CASE UNCHANGED vars
    BY <2>5, <2>8, OutsideKeeps DEF vars, CacheTypeOK
  <2> QED BY <2>1, <2>2, <2>3, <2>4, <2>6, <2>7, <2>8 DEF Next, TimeStep
<1> QED BY <1>1, QueryStarts, PTL DEF Spec

\* Every variable keeps its type.
THEOREM QueryTypesAreRight == Spec => []TypeOK
<1>1. QueryInvariant => TypeOK
  BY DEF QueryInvariant
<1> QED BY <1>1, QueryInvariantHolds, PTL

\* No request loses its session to the TTL index.
THEOREM SessionsOutliveRequests == Spec => []SessionOutlivesRequest
<1>1. QueryInvariant => SessionOutlivesRequest
  <2> SUFFICES ASSUME QueryInvariant, NEW s \in Slots, pc[s] \notin {"idle", "session"}
               PROVE  age[req[s].session] # Gone
    BY DEF SessionOutlivesRequest, SessionExists
  <2>1. age[req[s].session] <= IF req[s].crossed THEN SessionExpiry + 1 ELSE SessionExpiry
    BY DEF QueryInvariant, SlotInvariant, SessionFresh
  <2> QED BY <2>1, SessionAssumption DEF Gone
<1> QED BY <1>1, QueryInvariantHolds, PTL

-----------------------------------------------------------------------------
(* The budget.  The bound on recorded alone is not inductive: a request    *)
(* that was admitted below the budget may add to it much later, so the     *)
(* invariant sets aside MaxCost tokens for every request past the check.   *)

Ceiling == Budget - 1 + MaxCost * Cardinality(Slots)

BudgetInvariant ==
    /\ pc \in [Slots -> PC]
    /\ spent \in [Slots -> 0..MaxCost]
    /\ recorded \in Nat
    /\ recorded + MaxCost * Cardinality(InFlight) <= Ceiling

\* Fewer requests need fewer tokens.
LEMMA FewerNeedLess ==
    ASSUME NEW a \in Nat, NEW b \in Nat, NEW c \in Nat, a <= b
    PROVE  c * a <= c * b
BY SMT

\* Requests past the budget check are counted by a natural number.
LEMMA InFlightFinite ==
    /\ IsFiniteSet(InFlight) /\ Cardinality(InFlight) \in Nat
    /\ Cardinality(Slots) \in Nat /\ Cardinality(InFlight) <= Cardinality(Slots)
    /\ MaxCost * Cardinality(InFlight) <= MaxCost * Cardinality(Slots)
<1>1. InFlight \subseteq Slots /\ IsFiniteSet(Slots)
  BY SlotsAssumption DEF InFlight
<1>2. /\ IsFiniteSet(InFlight) /\ Cardinality(InFlight) \in Nat
      /\ Cardinality(Slots) \in Nat /\ Cardinality(InFlight) <= Cardinality(Slots)
  BY <1>1, FS_Subset, FS_CardinalityType
<1>3. MaxCost \in Nat
  BY BudgetAssumption
<1> QED BY <1>2, <1>3, FewerNeedLess

\* What a step that records nothing does to the budget: the request goes on, or ends.
Unrecorded(s) ==
    /\ recorded' = recorded
    /\ \E next \in PC : pc' = [pc EXCEPT ![s] = next]
    /\ pc[s] # "idle"
    /\ spent' \in [Slots -> 0..MaxCost]

\* Nothing is recorded, and no request joins those past the budget check.
LEMMA UnrecordedKeeps ==
    ASSUME BudgetInvariant, NEW s \in Slots, Unrecorded(s) PROVE BudgetInvariant'
<1>1. PICK next \in PC : pc' = [pc EXCEPT ![s] = next]
  BY DEF Unrecorded
<1>2. pc' \in [Slots -> PC]
  BY <1>1 DEF BudgetInvariant
<1>3. InFlight' \subseteq InFlight
  BY <1>1 DEF InFlight, BudgetInvariant, Unrecorded
<1>4. Cardinality(InFlight') \in Nat /\ Cardinality(InFlight') <= Cardinality(InFlight)
  BY <1>3, InFlightFinite, FS_Subset, FS_CardinalityType
<1>5. MaxCost * Cardinality(InFlight') <= MaxCost * Cardinality(InFlight)
  BY <1>4, InFlightFinite, FewerNeedLess, BudgetAssumption
<1>6. /\ MaxCost * Cardinality(InFlight') \in Nat
      /\ MaxCost * Cardinality(InFlight) \in Nat
      /\ MaxCost * Cardinality(Slots) \in Nat
  BY <1>4, InFlightFinite, BudgetAssumption
<1>7. recorded' = recorded /\ recorded \in Nat /\ spent' \in [Slots -> 0..MaxCost]
  BY DEF Unrecorded, BudgetInvariant
<1>8. recorded' + MaxCost * Cardinality(InFlight') <= Ceiling
  BY <1>5, <1>6, <1>7, BudgetAssumption DEF BudgetInvariant, Ceiling
<1> QED BY <1>2, <1>7, <1>8 DEF BudgetInvariant, Ceiling, InFlight

\* A request is admitted while the month is below its budget.
LEMMA ArrivalKeeps ==
    ASSUME BudgetInvariant, NEW s \in Slots, NEW q, NEW stream, NEW k, NEW new,
           Arrive(s, q, stream, k, new)
    PROVE  BudgetInvariant'
<1>1. /\ pc' = [pc EXCEPT ![s] = "session"] /\ spent' = spent /\ recorded' = recorded
      /\ recorded < Budget
  BY DEF Arrive, WithinBudget
<1>2. pc' \in [Slots -> PC]
  BY <1>1 DEF BudgetInvariant, PC
<1>3. InFlight' \subseteq Slots /\ IsFiniteSet(Slots)
  BY SlotsAssumption DEF InFlight
<1>4. /\ Cardinality(InFlight') \in Nat /\ Cardinality(Slots) \in Nat
      /\ Cardinality(InFlight') <= Cardinality(Slots)
  BY <1>3, FS_Subset, FS_CardinalityType
<1>5. MaxCost * Cardinality(InFlight') <= MaxCost * Cardinality(Slots)
  BY <1>4, FewerNeedLess, BudgetAssumption
<1>6. MaxCost * Cardinality(InFlight') \in Nat /\ MaxCost * Cardinality(Slots) \in Nat
  BY <1>4, BudgetAssumption
<1>7. recorded' + MaxCost * Cardinality(InFlight') <= Ceiling
  BY <1>1, <1>5, <1>6, BudgetAssumption DEF BudgetInvariant, Ceiling
<1> QED BY <1>1, <1>2, <1>7 DEF BudgetInvariant, Ceiling, InFlight

\* The record of a request uses up what was set aside for it.
LEMMA BillKeeps ==
    ASSUME BudgetInvariant, NEW s \in Slots, Bill(s) PROVE BudgetInvariant'
<1>1. /\ pc[s] = "bill" /\ pc' = [pc EXCEPT ![s] = "idle"]
      /\ spent' = [spent EXCEPT ![s] = 0] /\ recorded' = recorded + spent[s]
  BY DEF Bill, Ends
<1>2. pc' \in [Slots -> PC] /\ spent' \in [Slots -> 0..MaxCost]
  BY <1>1, BudgetAssumption DEF BudgetInvariant, PC
<1>3. recorded \in Nat /\ spent[s] \in 0..MaxCost /\ MaxCost \in Nat
  BY BudgetAssumption DEF BudgetInvariant
<1>4. InFlight' = InFlight \ {s} /\ s \in InFlight
  BY <1>1 DEF InFlight, BudgetInvariant
<1>5. Cardinality(InFlight') = Cardinality(InFlight) - 1
  BY <1>4, InFlightFinite, FS_RemoveElement
<1>6. MaxCost * Cardinality(InFlight') = MaxCost * Cardinality(InFlight) - MaxCost
  BY <1>3, <1>5, InFlightFinite, SMT
<1>7. MaxCost * Cardinality(InFlight) \in Nat /\ MaxCost * Cardinality(Slots) \in Nat
  BY <1>3, InFlightFinite
<1>8. recorded' \in Nat /\ recorded' + MaxCost * Cardinality(InFlight') <= Ceiling
  BY <1>1, <1>3, <1>6, <1>7, BudgetAssumption DEF BudgetInvariant, Ceiling
<1> QED BY <1>2, <1>8 DEF BudgetInvariant, Ceiling, InFlight

\* Every step of a request keeps what is set aside.
LEMMA RequestsReserve ==
    ASSUME QueryInvariant, QueryInvariant', BudgetInvariant, RequestStep
    PROVE  BudgetInvariant'
<1>1. PICK s \in Slots :
         \/ \E q \in Queries, stream \in BOOLEAN, k \in Sessions, new \in BOOLEAN :
               Arrive(s, q, stream, k, new)
         \/ RequestProceeds(s) \/ CallRaises(s) \/ StreamStops(s) \/ StreamCut(s)
         \/ BillIsLost(s)
  BY DEF RequestStep
<1>2. spent' \in [Slots -> 0..MaxCost]
  BY DEF QueryInvariant, TypeOK, ServiceTypeOK
<1>3. ASSUME NEW outcome, Ends(s, outcome), recorded' = recorded, pc[s] # "idle"
      PROVE  BudgetInvariant'
  <2>1. \E next \in PC : pc' = [pc EXCEPT ![s] = next]
    BY <1>3 DEF Ends, PC
  <2>2. Unrecorded(s)
    BY <1>2, <1>3, <2>1 DEF Unrecorded
  <2> QED BY <2>2, UnrecordedKeeps
<1>4. ASSUME NEW next \in PC, NEW r, Continues(s, next, r), recorded' = recorded, pc[s] # "idle"
      PROVE  BudgetInvariant'
  <2>1. \E to \in PC : pc' = [pc EXCEPT ![s] = to]
    BY <1>4 DEF Continues
  <2>2. Unrecorded(s)
    BY <1>2, <1>4, <2>1 DEF Unrecorded
  <2> QED BY <2>2, UnrecordedKeeps
<1>5. CASE CreateSession(s)
  BY <1>4, <1>5 DEF CreateSession, PC
<1>6. CASE ResumeSession(s)
  BY <1>4, <1>6 DEF ResumeSession, PC
<1>7. CASE RefuseSession(s)
  BY <1>3, <1>7 DEF RefuseSession
<1>8. CASE LookupCache(s)
  BY <1>4, <1>8 DEF LookupCache, PC
<1>9. CASE Retrieve(s)
  BY <1>4, <1>9 DEF Retrieve, PC
<1>10. CASE Generate(s)
  BY <1>4, <1>10 DEF Generate, PC
<1>11. CASE Store(s)
  BY <1>4, <1>11 DEF Store, PC
<1>12. CASE AppendTurn(s)
  BY <1>3, <1>4, <1>12 DEF AppendTurn, PC
<1>13. CASE CallRaises(s)
  <2>1. pc[s] # "idle" /\ recorded' = recorded /\ Ends(s, "failed")
    BY <1>13 DEF CallRaises
  <2> QED BY <1>3, <2>1
<1>14. CASE StreamStops(s)
  <2>1. pc[s] # "idle" /\ recorded' = recorded
    BY <1>14 DEF StreamStops
  <2> QED BY <1>4, <1>14, <2>1 DEF StreamStops, PC
<1>15. CASE StreamCut(s)
  BY <1>3, <1>15 DEF StreamCut
<1>16. CASE BillIsLost(s)
  BY <1>3, <1>16 DEF BillIsLost
<1> QED
  BY <1>1, <1>5, <1>6, <1>7, <1>8, <1>9, <1>10, <1>11, <1>12, <1>13, <1>14, <1>15, <1>16,
     ArrivalKeeps, BillKeeps DEF RequestProceeds

\* Nobody else writes a cost record, and the turn of the month drops them.
LEMMA OthersReserve ==
    ASSUME BudgetInvariant, UNCHANGED <<pc, spent>>, recorded' = recorded \/ recorded' = 0
    PROVE  BudgetInvariant'
<1>1. InFlight' = InFlight
  BY DEF InFlight
<1>2. recorded' <= recorded /\ recorded' \in Nat /\ recorded \in Nat
  BY DEF BudgetInvariant
<1>3. /\ MaxCost * Cardinality(InFlight) \in Nat /\ MaxCost * Cardinality(Slots) \in Nat
      /\ recorded + MaxCost * Cardinality(InFlight) <= Ceiling
  BY InFlightFinite, BudgetAssumption DEF BudgetInvariant
<1>4. recorded' + MaxCost * Cardinality(InFlight) <= Ceiling
  BY <1>2, <1>3, BudgetAssumption DEF Ceiling
<1> QED BY <1>1, <1>2, <1>4 DEF BudgetInvariant, Ceiling, InFlight

\* What is recorded and what the running requests may still record stay below the ceiling.
THEOREM BudgetInvariantHolds == Spec => []BudgetInvariant
<1>1. Init => BudgetInvariant
  <2> SUFFICES ASSUME Init PROVE BudgetInvariant
    OBVIOUS
  <2>1. QueryInvariant /\ recorded = 0 /\ pc = [s \in Slots |-> "idle"]
    BY QueryStarts DEF Init, ServiceInit
  <2>2. InFlight = {}
    BY <2>1 DEF InFlight
  <2>3. Cardinality(InFlight) = 0
    BY <2>2, FS_EmptySet
  <2>4. MaxCost * Cardinality(InFlight) = 0 /\ MaxCost * Cardinality(Slots) \in Nat
    BY <2>3, InFlightFinite, BudgetAssumption
  <2> QED BY <2>1, <2>4, BudgetAssumption
          DEF BudgetInvariant, Ceiling, QueryInvariant, TypeOK, ServiceTypeOK
<1>2. QueryInvariant /\ QueryInvariant' /\ BudgetInvariant /\ [Next]_vars => BudgetInvariant'
  <2> SUFFICES ASSUME QueryInvariant, QueryInvariant', BudgetInvariant, [Next]_vars
               PROVE  BudgetInvariant'
    OBVIOUS
  <2>1. CASE RequestStep
    BY <2>1, RequestsReserve
  <2>2. CASE WriterStep
    BY <2>2, OthersReserve
       DEF WriterStep, WriterProceeds, WorkerUpserts, WorkerInvalidates, WorkerSkipsInvalidation,
           ReindexInvalidates, ReindexWipes, DocumentDeleted, DatasetReplaced,
           InvalidateCache, ServiceUnchanged
  <2>3. CASE TimeStep
    BY <2>3, OthersReserve DEF TimeStep, Tick, NewMonth, CleanUp, RemoveSession
  <2>4. CASE UNCHANGED vars
    BY <2>4, OthersReserve DEF vars
  <2> QED BY <2>1, <2>2, <2>3, <2>4 DEF Next
<1> QED BY <1>1, <1>2, QueryInvariantHolds, PTL DEF Spec

\* A month exceeds its budget at most by what the requests running together can use.
THEOREM OverspendIsBounded == Spec => []OverspendBounded
<1>1. BudgetInvariant => OverspendBounded
  <2> SUFFICES ASSUME BudgetInvariant PROVE recorded <= Ceiling
    BY DEF OverspendBounded, Ceiling
  <2>1. MaxCost * Cardinality(InFlight) \in Nat /\ MaxCost * Cardinality(Slots) \in Nat
    BY InFlightFinite, BudgetAssumption
  <2> QED BY <2>1, BudgetAssumption DEF BudgetInvariant, Ceiling
<1> QED BY <1>1, BudgetInvariantHolds, PTL

-----------------------------------------------------------------------------
(* The tokens.  That nothing is lost on the ways around the cost record needs to be known
   of the requests that take them: their accumulator is empty. *)

\* Before the pipeline nothing is a hit, before its last step nothing is spent, and on a hit
\* it never runs.
Unspent(s) ==
    /\ pc[s] \in {"idle", "session", "lookup", "retrieve", "generate"} => spent[s] = 0
    /\ pc[s] \in {"session", "lookup", "retrieve", "generate"} => ~req[s].hit
    /\ req[s].hit => spent[s] = 0

SpentInvariant == \A s \in Slots : Unspent(s)

\* What the updates of a request's locals do to its hit.
LEMMA UpdatesKeepHit ==
    ASSUME NEW r \in Request
    PROVE  /\ \A b \in BOOLEAN : [r EXCEPT !.crossed = b].hit = r.hit
           /\ \A b \in BOOLEAN : [r EXCEPT !.overtaken = b].hit = r.hit
           /\ \A h \in SUBSET Slots : [r EXCEPT !.history = h].hit = r.hit
           /\ \A v \in Versions : [r EXCEPT !.version = v].hit = r.hit
           /\ [r EXCEPT !.answer = TRUE].hit = r.hit
           /\ [r EXCEPT !.outcome = "none"].hit = r.hit
           /\ [r EXCEPT !.hit = TRUE].hit
           /\ [r EXCEPT !.hit = TRUE, !.answer = TRUE].hit
BY DEF Request

\* A step of the request of slot s.
StepIn(s) == \A o \in Slots \ {s} : pc'[o] = pc[o] /\ spent'[o] = spent[o] /\ req'[o].hit = req[o].hit

\* It says of the others what it said before.
LEMMA OthersUnspent ==
    ASSUME SpentInvariant, NEW s \in Slots, StepIn(s), Unspent(s)' PROVE SpentInvariant'
BY DEF SpentInvariant, StepIn, Unspent

\* A request that ends drops its accumulator.
LEMMA EndsUnspent ==
    ASSUME QueryInvariant, SpentInvariant, NEW s \in Slots, NEW outcome, Ends(s, outcome)
    PROVE  SpentInvariant'
<1>1. /\ pc \in [Slots -> PC] /\ req \in [Slots -> Request] /\ spent \in [Slots -> 0..MaxCost]
  BY DEF QueryInvariant, TypeOK, ServiceTypeOK
<1>2. PICK answer \in BOOLEAN : req' = [req EXCEPT ![s] = Ended(req[s].session, answer, outcome)]
  BY DEF Ends
<1> DEFINE e == Ended(req[s].session, answer, outcome)
<1>3. e.hit = FALSE
  BY DEF Ended
<1>4. req'[s] = e /\ \A o \in Slots \ {s} : req'[o] = req[o]
  BY <1>1, <1>2
<1> HIDE DEF e
<1>5. pc' = [pc EXCEPT ![s] = "idle"] /\ spent' = [spent EXCEPT ![s] = 0]
  BY DEF Ends
<1>6. StepIn(s) /\ Unspent(s)'
  BY <1>1, <1>3, <1>4, <1>5 DEF StepIn, Unspent
<1> QED BY <1>6, OthersUnspent

\* A request that goes on.
LEMMA GoOnUnspent ==
    ASSUME QueryInvariant, SpentInvariant, NEW s \in Slots, NEW next \in PC \ {"idle"}, NEW r,
           NEW n, Continues(s, next, r), spent' = [spent EXCEPT ![s] = n],
           next \in {"session", "lookup", "retrieve", "generate"} => n = 0 /\ ~r.hit,
           r.hit => n = 0
    PROVE  SpentInvariant'
<1>1. /\ pc \in [Slots -> PC] /\ req \in [Slots -> Request] /\ spent \in [Slots -> 0..MaxCost]
  BY DEF QueryInvariant, TypeOK, ServiceTypeOK
<1>2. /\ pc'[s] = next /\ req'[s] = r /\ spent'[s] = n
      /\ \A o \in Slots \ {s} : pc'[o] = pc[o] /\ req'[o] = req[o] /\ spent'[o] = spent[o]
  BY <1>1 DEF Continues
<1>3. StepIn(s) /\ Unspent(s)'
  BY <1>2 DEF StepIn, Unspent
<1> QED BY <1>3, OthersUnspent

\* The steps of a request.
LEMMA RequestUnspent ==
    ASSUME QueryInvariant, SpentInvariant, RequestStep, UNCHANGED <<corpus, writer, covered>>
    PROVE  SpentInvariant'
<1>1. /\ pc \in [Slots -> PC] /\ req \in [Slots -> Request] /\ spent \in [Slots -> 0..MaxCost]
      /\ corpus \in Versions /\ transcript \in [Sessions -> SUBSET Slots]
  BY DEF QueryInvariant, TypeOK, ServiceTypeOK
<1>2. PICK s \in Slots :
         \/ \E q \in Queries, stream \in BOOLEAN, k \in Sessions, new \in BOOLEAN :
               Arrive(s, q, stream, k, new)
         \/ RequestProceeds(s) \/ CallRaises(s) \/ StreamStops(s) \/ StreamCut(s)
         \/ BillIsLost(s)
  BY DEF RequestStep
<1>3. req[s] \in Request /\ Unspent(s) /\ req[s].session \in Sessions
  BY <1>1 DEF SpentInvariant, Request
<1>4. spent = [spent EXCEPT ![s] = spent[s]]
  BY <1>1
<1>5. ASSUME NEW outcome, Ends(s, outcome) PROVE SpentInvariant'
  BY <1>5, EndsUnspent
<1>6. ASSUME NEW q \in Queries, NEW stream \in BOOLEAN, NEW k \in Sessions,
             NEW new \in BOOLEAN, Arrive(s, q, stream, k, new)
      PROVE  SpentInvariant'
  <2> DEFINE fresh == Asked(q, stream, k, new)
  <2>1. fresh.hit = FALSE
    BY DEF Asked
  <2>2. /\ pc[s] = "idle" /\ pc' = [pc EXCEPT ![s] = "session"] /\ spent' = spent
        /\ req' = [r \in Slots |-> IF r = s THEN fresh
                                   ELSE [req[r] EXCEPT !.history = req[r].history \ {s}]]
    BY <1>6 DEF Arrive
  <2>3. req'[s] = fresh
    BY <2>2
  <2> HIDE DEF fresh
  <2>4. ASSUME NEW o \in Slots \ {s} PROVE req'[o].hit = req[o].hit
    <3>1. req[o] \in Request /\ req[o].history \ {s} \in SUBSET Slots
      BY <1>1 DEF Request
    <3>2. req'[o] = [req[o] EXCEPT !.history = req[o].history \ {s}]
      BY <2>2
    <3> DEFINE h == req[o].history \ {s}
    <3>3. req'[o] = [req[o] EXCEPT !.history = h] /\ h \in SUBSET Slots
      BY <3>1, <3>2
    <3> HIDE DEF h
    <3> QED BY <3>1, <3>3, UpdatesKeepHit
  <2>5. StepIn(s)
    BY <1>1, <2>2, <2>4 DEF StepIn
  <2>6. Unspent(s)'
    BY <1>1, <1>3, <2>1, <2>2, <2>3 DEF Unspent
  <2> QED BY <2>5, <2>6, OthersUnspent
<1>7. CASE CreateSession(s)
  <2>1. pc[s] = "session" /\ Continues(s, "lookup", req[s]) /\ spent' = spent
    BY <1>7 DEF CreateSession
  <2> QED BY <1>3, <1>4, <2>1, GoOnUnspent DEF Unspent, PC
<1>8. CASE ResumeSession(s)
  <2> DEFINE h == transcript[req[s].session]
             r == [req[s] EXCEPT !.history = h]
  <2>1. h \in SUBSET Slots
    BY <1>1, <1>3
  <2>2. r.hit = req[s].hit
    BY <1>3, <2>1, UpdatesKeepHit
  <2>3. pc[s] = "session" /\ Continues(s, "lookup", r) /\ spent' = spent
    BY <1>8 DEF ResumeSession
  <2> HIDE DEF r, h
  <2> QED BY <1>3, <1>4, <2>2, <2>3, GoOnUnspent DEF Unspent, PC
<1>9. CASE LookupCache(s)
  <2>1. pc[s] = "lookup" /\ spent' = spent /\ spent[s] = 0
    BY <1>3, <1>9 DEF LookupCache, Unspent
  <2>2. CASE Continues(s, "retrieve", req[s])
    BY <1>3, <1>4, <2>1, <2>2, GoOnUnspent DEF Unspent, PC
  <2>3. CASE Continues(s, "append", [req[s] EXCEPT !.hit = TRUE, !.answer = TRUE])
    BY <1>4, <2>1, <2>3, GoOnUnspent DEF PC
  <2>4. CASE Continues(s, "bill", [req[s] EXCEPT !.hit = TRUE])
    BY <1>4, <2>1, <2>4, GoOnUnspent DEF PC
  <2> QED BY <1>9, <2>2, <2>3, <2>4 DEF LookupCache
<1>10. CASE Retrieve(s)
  <2> DEFINE r == [req[s] EXCEPT !.version = corpus]
  <2>1. r.hit = req[s].hit
    BY <1>1, <1>3, UpdatesKeepHit
  <2>2. pc[s] = "retrieve" /\ Continues(s, "generate", r) /\ spent' = spent
    BY <1>10 DEF Retrieve
  <2> HIDE DEF r
  <2> QED BY <1>3, <1>4, <2>1, <2>2, GoOnUnspent DEF Unspent, PC
<1>11. CASE Generate(s)
  <2> DEFINE r == [req[s] EXCEPT !.answer = TRUE]
  <2>1. r.hit = req[s].hit
    BY <1>3, UpdatesKeepHit
  <2>2. pc[s] = "generate" /\ Continues(s, "store", r)
    BY <1>11 DEF Generate
  <2>3. PICK n \in 0..MaxCost : spent' = [spent EXCEPT ![s] = n]
    BY <1>11 DEF Generate
  <2> HIDE DEF r
  <2> QED BY <1>3, <2>1, <2>2, <2>3, GoOnUnspent DEF Unspent, PC
<1>12. CASE StreamStops(s)
  <2>1. pc[s] \in {"retrieve", "generate"} /\ Continues(s, "bill", req[s])
    BY <1>12 DEF StreamStops
  <2>2. PICK n \in 0..MaxCost : spent' = [spent EXCEPT ![s] = n]
    BY <1>12 DEF StreamStops
  <2> QED BY <1>3, <2>1, <2>2, GoOnUnspent DEF Unspent, PC
<1>13. CASE Store(s)
  <2>1. Continues(s, "append", req[s]) /\ spent' = spent
    BY <1>13 DEF Store
  <2> QED BY <1>3, <1>4, <2>1, GoOnUnspent DEF Unspent, PC
<1>14. CASE AppendTurn(s)
  <2>1. CASE Continues(s, "bill", req[s]) /\ spent' = spent
    BY <1>3, <1>4, <2>1, GoOnUnspent DEF Unspent, PC
  <2> QED BY <1>5, <1>14, <2>1 DEF AppendTurn
<1>15. CASE CallRaises(s)
  <2>1. Ends(s, "failed")
    BY <1>15 DEF CallRaises
  <2> QED BY <1>5, <2>1
<1>16. CASE RefuseSession(s) \/ StreamCut(s) \/ Bill(s) \/ BillIsLost(s)
  BY <1>5, <1>16 DEF RefuseSession, StreamCut, Bill, BillIsLost
<1> QED
  BY <1>2, <1>6, <1>7, <1>8, <1>9, <1>10, <1>11, <1>12, <1>13, <1>14, <1>15, <1>16
     DEF RequestProceeds

\* Nobody else touches an accumulator.
LEMMA OutsideUnspent ==
    ASSUME QueryInvariant, SpentInvariant, WriterStep \/ TimeStep \/ UNCHANGED vars
    PROVE  SpentInvariant'
<1>1. pc \in [Slots -> PC] /\ req \in [Slots -> Request]
  BY DEF QueryInvariant, TypeOK, ServiceTypeOK
<1>2. ASSUME UNCHANGED <<pc, spent>>, \A s \in Slots : req'[s].hit = req[s].hit
      PROVE  SpentInvariant'
  BY <1>2 DEF SpentInvariant, Unspent
<1>3. ASSUME UNCHANGED <<pc, spent, req>> PROVE SpentInvariant'
  BY <1>2, <1>3
<1>4. ASSUME InvalidateCache PROVE SpentInvariant'
  <2>1. UNCHANGED <<pc, spent>>
    BY <1>4 DEF InvalidateCache, ServiceUnchanged
  <2>2. ASSUME NEW s \in Slots PROVE req'[s].hit = req[s].hit
    <3>1. PICK b \in BOOLEAN : b = (req[s].overtaken \/ Computing(s))
      OBVIOUS
    <3>2. req'[s] = [req[s] EXCEPT !.overtaken = req[s].overtaken \/ Computing(s)]
      BY <1>4 DEF InvalidateCache
    <3>3. req'[s] = [req[s] EXCEPT !.overtaken = b] /\ req[s] \in Request
      BY <1>1, <3>1, <3>2
    <3> QED BY <3>3, UpdatesKeepHit
  <2> QED BY <1>2, <2>1, <2>2
<1>5. CASE WriterStep
  BY <1>3, <1>4, <1>5
     DEF WriterStep, WriterProceeds, WorkerUpserts, WorkerInvalidates, WorkerSkipsInvalidation,
         ReindexInvalidates, ReindexWipes, DocumentDeleted, DatasetReplaced, ServiceUnchanged
<1>6. CASE Tick
  <2>1. UNCHANGED <<pc, spent>>
    BY <1>6 DEF Tick
  <2>2. ASSUME NEW s \in Slots PROVE req'[s].hit = req[s].hit
    <3>1. PICK b \in BOOLEAN : b = (pc[s] # "idle")
      OBVIOUS
    <3>2. req'[s] = [req[s] EXCEPT !.crossed = (pc[s] # "idle")]
      BY <1>6 DEF Tick
    <3>3. req'[s] = [req[s] EXCEPT !.crossed = b] /\ req[s] \in Request
      BY <1>1, <3>1, <3>2
    <3> QED BY <3>3, UpdatesKeepHit
  <2> QED BY <1>2, <2>1, <2>2
<1>7. ASSUME NEW k \in Sessions, RemoveSession(k) PROVE SpentInvariant'
  <2>1. /\ UNCHANGED <<pc, spent>>
        /\ req' = [s \in Slots |-> IF req[s].session = k /\ pc[s] = "idle"
                                   THEN [req[s] EXCEPT !.outcome = "none"] ELSE req[s]]
    BY <1>7 DEF RemoveSession
  <2>2. ASSUME NEW s \in Slots PROVE req'[s].hit = req[s].hit
    <3>1. [req[s] EXCEPT !.outcome = "none"].hit = req[s].hit
      BY <1>1, UpdatesKeepHit
    <3> QED BY <2>1, <3>1
  <2> QED BY <1>2, <2>1, <2>2
<1>8. CASE NewMonth \/ CleanUp \/ UNCHANGED vars
  BY <1>3, <1>8 DEF NewMonth, CleanUp, vars
<1> QED BY <1>5, <1>6, <1>7, <1>8 DEF TimeStep

\* The accumulator of a request is empty until its pipeline has run, and on a hit.
THEOREM SpentInvariantHolds == Spec => []SpentInvariant
<1>1. Init => SpentInvariant
  <2> SUFFICES ASSUME Init, NEW s \in Slots PROVE Unspent(s)
    BY DEF SpentInvariant
  <2>1. pc[s] = "idle" /\ spent[s] = 0
    BY DEF Init, ServiceInit
  <2> QED BY <2>1 DEF Unspent
<1>2. QueryInvariant /\ SpentInvariant /\ [Next]_vars => SpentInvariant'
  BY RequestUnspent, OutsideUnspent DEF Next
<1> QED BY <1>1, <1>2, QueryInvariantHolds, PTL DEF Spec

\* What a step does to the month's total.
Accounts ==
    /\ \A s \in Slots :
          (Finishes(s) /\ faults' = faults /\ ~StreamCut(s)) => recorded' = recorded + spent[s]
    /\ (\A s \in Slots : ~Finishes(s)) => recorded' \in {recorded, 0}

\* The steps of a request account for its tokens.
LEMMA RequestAccounts ==
    ASSUME QueryInvariant, SpentInvariant, RequestStep PROVE Accounts
<1>1. /\ pc \in [Slots -> PC] /\ spent \in [Slots -> 0..MaxCost] /\ recorded \in Nat
      /\ faults \in Nat
  BY FaultAssumption DEF QueryInvariant, TypeOK, ServiceTypeOK
<1>2. PICK s \in Slots :
         \/ \E q \in Queries, stream \in BOOLEAN, k \in Sessions, new \in BOOLEAN :
               Arrive(s, q, stream, k, new)
         \/ RequestProceeds(s) \/ CallRaises(s) \/ StreamStops(s) \/ StreamCut(s)
         \/ BillIsLost(s)
  BY DEF RequestStep
<1>3. Unspent(s)
  BY DEF SpentInvariant
<1>4. ASSUME NEW next \in PC \ {"idle"}, pc' = [pc EXCEPT ![s] = next], recorded' = recorded
      PROVE  Accounts
  BY <1>1, <1>4 DEF Accounts, Finishes
<1>5. ASSUME NEW r, NEW next \in PC \ {"idle"}, Continues(s, next, r), recorded' = recorded
      PROVE  Accounts
  BY <1>4, <1>5 DEF Continues
<1>6. ASSUME NEW outcome, Ends(s, outcome), pc[s] # "idle",
             \/ faults' # faults \/ StreamCut(s) \/ recorded' = recorded + spent[s]
      PROVE  Accounts
  <2>1. pc' = [pc EXCEPT ![s] = "idle"]
    BY <1>6 DEF Ends
  <2>2. Finishes(s) /\ \A o \in Slots \ {s} : ~Finishes(o)
    BY <1>1, <1>6, <2>1 DEF Finishes
  <2> QED BY <1>6, <2>2 DEF Accounts
<1>7. ASSUME spent[s] = 0, recorded' = recorded PROVE recorded' = recorded + spent[s]
  BY <1>1, <1>7
<1>8. CASE \E q \in Queries, stream \in BOOLEAN, k \in Sessions, new \in BOOLEAN :
               Arrive(s, q, stream, k, new)
  BY <1>4, <1>8 DEF Arrive, PC
<1>9. CASE CreateSession(s) \/ ResumeSession(s) \/ LookupCache(s) \/ Retrieve(s)
  BY <1>5, <1>9 DEF CreateSession, ResumeSession, LookupCache, Retrieve, PC
<1>10. CASE Generate(s) \/ StreamStops(s) \/ Store(s)
  BY <1>5, <1>10 DEF Generate, StreamStops, Store, PC
<1>11. CASE RefuseSession(s)
  <2>1. pc[s] = "session" /\ Ends(s, "refused") /\ recorded' = recorded
    BY <1>11 DEF RefuseSession
  <2>2. spent[s] = 0
    BY <1>3, <2>1 DEF Unspent
  <2> QED BY <1>6, <1>7, <2>1, <2>2
<1>12. CASE AppendTurn(s)
  <2>1. pc[s] = "append" /\ recorded' = recorded
    BY <1>12 DEF AppendTurn
  <2>2. CASE ReturnsWithoutBill(s)
    <3>1. spent[s] = 0
      BY <1>3, <2>2 DEF ReturnsWithoutBill, Unspent
    <3>2. Ends(s, "done")
      BY <1>12, <2>2 DEF AppendTurn
    <3> QED BY <1>6, <1>7, <2>1, <3>1, <3>2
  <2>3. CASE ~ReturnsWithoutBill(s)
    <3>1. Continues(s, "bill", req[s])
      BY <1>12, <2>3 DEF AppendTurn
    <3> QED BY <1>5, <2>1, <3>1 DEF PC
  <2> QED BY <2>2, <2>3
<1>13. CASE Bill(s)
  BY <1>6, <1>13 DEF Bill
<1>14. CASE CallRaises(s)
  <2>1. Ends(s, "failed") /\ pc[s] # "idle" /\ faults' = faults + 1
    BY <1>14 DEF CallRaises
  <2> QED BY <1>1, <1>6, <2>1
<1>15. CASE BillIsLost(s)
  <2>1. Ends(s, "done") /\ pc[s] # "idle" /\ faults' = faults + 1
    BY <1>15 DEF BillIsLost
  <2> QED BY <1>1, <1>6, <2>1
<1>16. CASE StreamCut(s)
  <2>1. Ends(s, "failed") /\ pc[s] # "idle"
    BY <1>16 DEF StreamCut
  <2> QED BY <1>6, <1>16, <2>1
<1> QED
  BY <1>2, <1>8, <1>9, <1>10, <1>11, <1>12, <1>13, <1>14, <1>15, <1>16 DEF RequestProceeds

\* The tokens of a request reach the month's total when it ends, whichever way it takes,
\* unless a call raises or its stream is cut; nothing else adds to the total.
THEOREM TokensAreRecordedAlways == Spec => TokensAreRecorded
<1>1. QueryInvariant /\ SpentInvariant /\ [Next]_vars => [Accounts]_vars
  <2> SUFFICES ASSUME QueryInvariant, SpentInvariant, Next PROVE Accounts
    OBVIOUS
  <2>1. ASSUME pc' = pc, recorded' \in {recorded, 0} PROVE Accounts
    BY <2>1 DEF Accounts, Finishes
  <2>2. CASE WriterStep
    BY <2>1, <2>2
       DEF WriterStep, WriterProceeds, WorkerUpserts, WorkerInvalidates, WorkerSkipsInvalidation,
           ReindexInvalidates, ReindexWipes, DocumentDeleted, DatasetReplaced,
           InvalidateCache, ServiceUnchanged
  <2>3. CASE TimeStep
    BY <2>1, <2>3 DEF TimeStep, Tick, NewMonth, CleanUp, RemoveSession
  <2> QED BY <2>2, <2>3, RequestAccounts DEF Next
<1>2. Spec => [][Accounts]_vars
  BY <1>1, QueryInvariantHolds, SpentInvariantHolds, PTL DEF Spec
<1> QED BY <1>2 DEF TokensAreRecorded, Accounts

-----------------------------------------------------------------------------
(* The cache.  Why an old answer can be in the semantic cache, for any slots, queries
   and versions.  The property about rows alone is not inductive: a row is
   as good as the request that stores it, so the invariant says the same
   of every request between its retrieval and its store. *)

\* A request that holds an answer to be stored.
Excused(s) == (Computing(s) /\ req[s].version < covered) => req[s].overtaken
RowExcused(q) == (Cached(q) /\ cache[q].version < covered) => cache[q].overtaken

CacheInvariant ==
    /\ covered <= corpus
    /\ \A s \in Slots : Excused(s)
    /\ \A q \in Queries : RowExcused(q)

-----------------------------------------------------------------------------
(* What a step that is no invalidation does. *)

\* A request that computes after the step did so before it, or has just read the
\* documents.
SlotStep(s) ==
    Computing(s)' =>
       \/ /\ Computing(s) /\ req'[s].version = req[s].version
          /\ req[s].overtaken => req'[s].overtaken
       \/ req'[s].version = corpus

\* A row was there before, or comes from a request that computes.
RowStep(q) ==
    Cached(q)' =>
       \/ /\ Cached(q) /\ cache'[q].version = cache[q].version
          /\ cache[q].overtaken => cache'[q].overtaken
       \/ \E s \in Slots :
             /\ Computing(s) /\ cache'[q].version = req[s].version
             /\ req[s].overtaken => cache'[q].overtaken

\* Such steps keep the invariant.
LEMMA StepKeepsCache ==
    ASSUME QueryInvariant, CacheInvariant, covered' = covered,
           corpus' = corpus \/ corpus' = corpus + 1,
           \A s \in Slots : SlotStep(s), \A q \in Queries : RowStep(q)
    PROVE  CacheInvariant'
<1>1. corpus \in Int /\ covered \in Int
  BY CacheBounds DEF QueryInvariant, TypeOK, Versions
<1>2. covered' <= corpus'
  BY <1>1 DEF CacheInvariant
<1>3. ASSUME NEW s \in Slots PROVE Excused(s)'
  <2> SUFFICES ASSUME Computing(s)', req'[s].version < covered PROVE req'[s].overtaken
    BY DEF Excused
  <2>1. req'[s].version # corpus
    BY <1>1 DEF CacheInvariant
  <2>2. Computing(s) /\ req'[s].version = req[s].version /\ (req[s].overtaken => req'[s].overtaken)
    BY <2>1 DEF SlotStep
  <2>3. Excused(s)
    BY DEF CacheInvariant
  <2> QED BY <2>2, <2>3 DEF Excused
<1>4. ASSUME NEW q \in Queries PROVE RowExcused(q)'
  <2> SUFFICES ASSUME Cached(q)', cache'[q].version < covered PROVE cache'[q].overtaken
    BY DEF RowExcused
  <2>1. CASE /\ Cached(q) /\ cache'[q].version = cache[q].version
             /\ cache[q].overtaken => cache'[q].overtaken
    <3>1. RowExcused(q)
      BY DEF CacheInvariant
    <3> QED BY <2>1, <3>1 DEF RowExcused
  <2>2. ASSUME NEW s \in Slots, Computing(s), cache'[q].version = req[s].version,
               req[s].overtaken => cache'[q].overtaken
        PROVE  cache'[q].overtaken
    <3>1. Excused(s)
      BY DEF CacheInvariant
    <3> QED BY <2>2, <3>1 DEF Excused
  <2> QED BY <2>1, <2>2 DEF RowStep
<1> QED BY <1>2, <1>3, <1>4 DEF CacheInvariant

\* What the updates of a request's locals leave alone.
LEMMA UpdatesKeepReads ==
    ASSUME NEW r \in Request
    PROVE  /\ \A b \in BOOLEAN : LET u == [r EXCEPT !.crossed = b] IN
                u.version = r.version /\ u.overtaken = r.overtaken
           /\ \A h \in SUBSET Slots : LET u == [r EXCEPT !.history = h] IN
                u.version = r.version /\ u.overtaken = r.overtaken
           /\ LET u == [r EXCEPT !.answer = TRUE] IN
                u.version = r.version /\ u.overtaken = r.overtaken
           /\ \A v \in Versions : [r EXCEPT !.version = v].version = v
BY DEF Request

\* A request that ends or goes on, by cases: the others are left alone.
LEMMA OthersLeftAlone ==
    ASSUME QueryInvariant, NEW s \in Slots, NEW next \in PC, NEW r, cache' = cache,
           UNCHANGED <<corpus, covered>>,
           pc' = [pc EXCEPT ![s] = next], req' = [req EXCEPT ![s] = r],
           next \in {"generate", "store"} =>
              \/ /\ Computing(s) /\ r.version = req[s].version
                 /\ req[s].overtaken => r.overtaken
              \/ r.version = corpus
    PROVE  (\A o \in Slots : SlotStep(o)) /\ (\A q \in Queries : RowStep(q))
<1>1. pc \in [Slots -> PC] /\ req \in [Slots -> Request]
  BY DEF QueryInvariant, TypeOK, ServiceTypeOK
<1>2. pc'[s] = next /\ req'[s] = r /\ \A o \in Slots \ {s} : pc'[o] = pc[o] /\ req'[o] = req[o]
  BY <1>1
<1>3. SlotStep(s)
  BY <1>2 DEF SlotStep, Computing
<1>4. ASSUME NEW o \in Slots \ {s} PROVE SlotStep(o)
  BY <1>2 DEF SlotStep, Computing
<1>5. ASSUME NEW q \in Queries PROVE RowStep(q)
  BY DEF RowStep, Cached
<1> QED BY <1>3, <1>4, <1>5

\* The steps of a request.
LEMMA RequestKeepsCache ==
    ASSUME QueryInvariant, CacheInvariant, RequestStep, UNCHANGED <<corpus, writer, covered>>
    PROVE  CacheInvariant'
<1>1. /\ pc \in [Slots -> PC] /\ req \in [Slots -> Request] /\ corpus \in Versions
      /\ cache \in [Queries -> Row \cup {NoRow}]
  BY DEF QueryInvariant, TypeOK, ServiceTypeOK, CacheTypeOK
<1>2. PICK s \in Slots :
         \/ \E q \in Queries, stream \in BOOLEAN, k \in Sessions, new \in BOOLEAN :
               Arrive(s, q, stream, k, new)
         \/ RequestProceeds(s) \/ CallRaises(s) \/ StreamStops(s) \/ StreamCut(s)
         \/ BillIsLost(s)
  BY DEF RequestStep
<1>3. req[s] \in Request
  BY <1>1
<1>4. SUFFICES (\A o \in Slots : SlotStep(o)) /\ (\A q \in Queries : RowStep(q))
  BY StepKeepsCache
<1> DEFINE Goal == (\A o \in Slots : SlotStep(o)) /\ (\A q \in Queries : RowStep(q))
<1>5. ASSUME NEW outcome, Ends(s, outcome), cache' = cache PROVE Goal
  <2>1. PICK answer \in BOOLEAN :
          req' = [req EXCEPT ![s] = Ended(req[s].session, answer, outcome)]
    BY <1>5 DEF Ends
  <2>2. pc' = [pc EXCEPT ![s] = "idle"] /\ "idle" \in PC
    BY <1>5 DEF Ends, PC
  <2> QED BY <1>5, <2>1, <2>2, OthersLeftAlone
<1>6. ASSUME NEW next \in PC, next \notin {"generate", "store"}, NEW r,
             Continues(s, next, r), cache' = cache
      PROVE  Goal
  <2>1. pc' = [pc EXCEPT ![s] = next] /\ req' = [req EXCEPT ![s] = r]
    BY <1>6 DEF Continues
  <2> QED BY <1>6, <2>1, OthersLeftAlone
<1>7. ASSUME pc[s] = "generate", cache' = cache,
             Continues(s, "store", [req[s] EXCEPT !.answer = TRUE])
      PROVE  Goal
  <2> DEFINE r == [req[s] EXCEPT !.answer = TRUE]
  <2>1. r.version = req[s].version /\ r.overtaken = req[s].overtaken
    BY <1>3, UpdatesKeepReads
  <2>2. pc' = [pc EXCEPT ![s] = "store"] /\ req' = [req EXCEPT ![s] = r] /\ "store" \in PC
    BY <1>7 DEF Continues, PC
  <2>3. Computing(s)
    BY <1>7 DEF Computing
  <2> HIDE DEF r
  <2> QED BY <1>7, <2>1, <2>2, <2>3, OthersLeftAlone
<1>8. ASSUME NEW q \in Queries, NEW stream \in BOOLEAN, NEW k \in Sessions,
             NEW new \in BOOLEAN, Arrive(s, q, stream, k, new)
      PROVE  Goal
  <2>1. /\ pc' = [pc EXCEPT ![s] = "session"] /\ cache' = cache
        /\ req' = [r \in Slots |-> IF r = s THEN Asked(q, stream, k, new)
                                   ELSE [req[r] EXCEPT !.history = req[r].history \ {s}]]
    BY <1>8 DEF Arrive
  <2>2. SlotStep(s)
    <3>1. pc'[s] = "session"
      BY <1>1, <2>1
    <3> QED BY <3>1 DEF SlotStep, Computing
  <2>3. ASSUME NEW o \in Slots, o # s PROVE SlotStep(o)
    <3> DEFINE h == req[o].history \ {s}
               u == [req[o] EXCEPT !.history = h]
    <3>1. req[o] \in Request
      BY <1>1
    <3>2. h \in SUBSET Slots
      BY <3>1 DEF Request
    <3>3. u.version = req[o].version /\ u.overtaken = req[o].overtaken
      BY <3>1, <3>2, UpdatesKeepReads
    <3>4. pc'[o] = pc[o] /\ req'[o] = u
      BY <1>1, <2>1, <2>3
    <3> HIDE DEF u, h
    <3> QED BY <3>3, <3>4 DEF SlotStep, Computing
  <2>4. ASSUME NEW p \in Queries PROVE RowStep(p)
    BY <2>1 DEF RowStep, Cached
  <2> QED BY <2>2, <2>3, <2>4
<1>9. CASE CreateSession(s)
  BY <1>6, <1>9 DEF CreateSession, PC
<1>10. CASE ResumeSession(s)
  BY <1>6, <1>10 DEF ResumeSession, PC
<1>11. CASE RefuseSession(s)
  BY <1>5, <1>11 DEF RefuseSession
<1>12. CASE LookupCache(s)
  BY <1>6, <1>12 DEF LookupCache, PC
<1>13. CASE Retrieve(s)
  <2> DEFINE r == [req[s] EXCEPT !.version = corpus]
  <2>1. r.version = corpus
    BY <1>1, <1>3, UpdatesKeepReads
  <2>2. /\ pc' = [pc EXCEPT ![s] = "generate"] /\ req' = [req EXCEPT ![s] = r]
        /\ cache' = cache /\ "generate" \in PC
    BY <1>13 DEF Retrieve, Continues, PC
  <2> HIDE DEF r
  <2> QED BY <2>1, <2>2, OthersLeftAlone
<1>14. CASE Generate(s)
  BY <1>7, <1>14 DEF Generate
<1>15. CASE StreamStops(s)
  BY <1>6, <1>15 DEF StreamStops, PC
<1>16. CASE Store(s)
  <2>1. /\ pc[s] = "store" /\ pc' = [pc EXCEPT ![s] = "append"] /\ req' = [req EXCEPT ![s] = req[s]]
        /\ cache' = Stored(req[s].ask, req[s].version, req[s].overtaken)
    BY <1>16 DEF Store, Continues
  <2>2. ASSUME NEW o \in Slots PROVE SlotStep(o)
    BY <1>1, <2>1 DEF SlotStep, Computing
  <2>3. ASSUME NEW p \in Queries PROVE RowStep(p)
    <3> DEFINE row == [version |-> req[s].version, age |-> 0, overtaken |-> req[s].overtaken]
    <3>1. cache'[p] = IF p = req[s].ask THEN row ELSE cache[p]
      BY <1>1, <2>1 DEF Stored
    <3>2. row.version = req[s].version /\ row.overtaken = req[s].overtaken
      OBVIOUS
    <3>3. Computing(s)
      BY <2>1 DEF Computing
    <3> HIDE DEF row
    <3> QED BY <3>1, <3>2, <3>3 DEF RowStep, Cached
  <2> QED BY <2>2, <2>3
<1>17. CASE AppendTurn(s)
  BY <1>5, <1>6, <1>17 DEF AppendTurn, PC
<1>18. CASE Bill(s)
  BY <1>5, <1>18 DEF Bill
<1>19. CASE CallRaises(s)
  <2>1. Ends(s, "failed") /\ cache' = cache
    BY <1>19 DEF CallRaises
  <2> QED BY <1>5, <2>1
<1>20. CASE StreamCut(s)
  BY <1>5, <1>20 DEF StreamCut
<1>21. CASE BillIsLost(s)
  BY <1>5, <1>21 DEF BillIsLost
<1> QED
  BY <1>2, <1>8, <1>9, <1>10, <1>11, <1>12, <1>13, <1>14, <1>15, <1>16, <1>17, <1>18, <1>19,
     <1>20, <1>21 DEF RequestProceeds

\* An invalidation empties the cache and overtakes the requests that compute.
LEMMA InvalidationKeepsCache ==
    ASSUME QueryInvariant, InvalidateCache, corpus' = corpus PROVE CacheInvariant'
<1>1. corpus \in Int /\ pc' = pc /\ covered' = corpus /\ cache' = Invalidated
      /\ req \in [Slots -> Request]
      /\ req' = [s \in Slots |-> [req[s] EXCEPT !.overtaken = req[s].overtaken \/ Computing(s)]]
  BY CacheBounds
     DEF QueryInvariant, TypeOK, ServiceTypeOK, Versions, InvalidateCache, ServiceUnchanged
<1>2. ASSUME NEW s \in Slots, Computing(s)' PROVE req'[s].overtaken
  <2>1. PICK b \in BOOLEAN : b = (req[s].overtaken \/ Computing(s))
    OBVIOUS
  <2>2. req'[s] = [req[s] EXCEPT !.overtaken = b] /\ req[s] \in Request
    BY <1>1, <2>1
  <2>3. [req[s] EXCEPT !.overtaken = b].overtaken = b
    BY <2>2 DEF Request
  <2>4. b
    BY <1>1, <1>2, <2>1 DEF Computing
  <2> QED BY <2>2, <2>3, <2>4
<1>3. ASSUME NEW q \in Queries PROVE ~Cached(q)'
  BY <1>1 DEF Cached, Invalidated, NoRow
<1> QED BY <1>1, <1>2, <1>3 DEF CacheInvariant, Excused, RowExcused

\* Steps that touch neither the cache nor the requests.
LEMMA OutsideKeepsCache ==
    ASSUME QueryInvariant, CacheInvariant, UNCHANGED <<pc, req, cache, covered>>,
           corpus' = corpus \/ corpus' = corpus + 1
    PROVE  CacheInvariant'
<1>1. \A s \in Slots : SlotStep(s)
  BY DEF SlotStep, Computing
<1>2. \A q \in Queries : RowStep(q)
  BY DEF RowStep, Cached
<1> QED BY <1>1, <1>2, StepKeepsCache

\* The writers of documents.
LEMMA WriterKeepsCache ==
    ASSUME QueryInvariant, CacheInvariant, WriterStep PROVE CacheInvariant'
<1>1. CASE WorkerUpserts
  BY <1>1, OutsideKeepsCache DEF WorkerUpserts, ChangeDocuments, ServiceUnchanged
<1>2. CASE WorkerInvalidates
  BY <1>2, InvalidationKeepsCache DEF WorkerInvalidates
<1>3. CASE WorkerSkipsInvalidation
  BY <1>3, OutsideKeepsCache DEF WorkerSkipsInvalidation, ServiceUnchanged
<1>4. CASE ReindexInvalidates
  BY <1>4, InvalidationKeepsCache DEF ReindexInvalidates
<1>5. CASE ReindexWipes
  BY <1>5, OutsideKeepsCache DEF ReindexWipes, ChangeDocuments, ServiceUnchanged
<1>6. CASE DocumentDeleted
  BY <1>6, OutsideKeepsCache DEF DocumentDeleted, ChangeDocuments, ServiceUnchanged
<1>7. CASE DatasetReplaced
  BY <1>7, InvalidationKeepsCache DEF DatasetReplaced
<1> QED BY <1>1, <1>2, <1>3, <1>4, <1>5, <1>6, <1>7 DEF WriterStep, WriterProceeds

\* The clock, the months and the TTL index.
LEMMA TimeKeepsCache ==
    ASSUME QueryInvariant, CacheInvariant, TimeStep PROVE CacheInvariant'
<1>1. /\ pc \in [Slots -> PC] /\ req \in [Slots -> Request]
      /\ cache \in [Queries -> Row \cup {NoRow}]
  BY DEF QueryInvariant, TypeOK, ServiceTypeOK, CacheTypeOK
<1>2. CASE Tick
  <2>1. /\ UNCHANGED <<pc, corpus, covered>> /\ cache' = Aged
        /\ req' = [s \in Slots |-> [req[s] EXCEPT !.crossed = pc[s] # "idle"]]
    BY <1>2 DEF Tick
  <2>2. ASSUME NEW s \in Slots PROVE SlotStep(s)
    <3>1. PICK b \in BOOLEAN : b = (pc[s] # "idle")
      OBVIOUS
    <3> DEFINE u == [req[s] EXCEPT !.crossed = b]
    <3>2. req'[s] = u /\ req[s] \in Request
      BY <1>1, <2>1, <3>1
    <3>3. u.version = req[s].version /\ u.overtaken = req[s].overtaken
      BY <3>2, UpdatesKeepReads
    <3> HIDE DEF u
    <3> QED BY <2>1, <3>2, <3>3 DEF SlotStep, Computing
  <2>3. ASSUME NEW q \in Queries PROVE RowStep(q)
    <3>1. CASE Cached(q) /\ cache[q].age <= CacheTTL
      <4>1. cache[q] \in Row
        BY <1>1, <3>1 DEF Cached
      <4> DEFINE u == [cache[q] EXCEPT !.age = cache[q].age + 1]
      <4>2. u.version = cache[q].version /\ u.overtaken = cache[q].overtaken
        BY <4>1 DEF Row
      <4>3. cache'[q] = u
        BY <2>1, <3>1 DEF Aged
      <4> HIDE DEF u
      <4> QED BY <3>1, <4>2, <4>3 DEF RowStep
    <3>2. CASE ~(Cached(q) /\ cache[q].age <= CacheTTL)
      <4>1. cache'[q] = cache[q]
        BY <2>1, <3>2 DEF Aged
      <4> QED BY <4>1 DEF RowStep, Cached
    <3> QED BY <3>1, <3>2
  <2> QED BY <2>1, <2>2, <2>3, StepKeepsCache
<1>3. CASE NewMonth
  BY <1>3, OutsideKeepsCache DEF NewMonth
<1>4. CASE CleanUp
  <2>1. \A s \in Slots : SlotStep(s)
    BY <1>4 DEF SlotStep, Computing, CleanUp
  <2>2. ASSUME NEW q \in Queries PROVE RowStep(q)
    <3>1. cache'[q] = cache[q] \/ cache'[q] = NoRow
      BY <1>4 DEF CleanUp, CleanedUp
    <3> QED BY <3>1 DEF RowStep, Cached, NoRow
  <2> QED BY <1>4, <2>1, <2>2, StepKeepsCache DEF CleanUp
<1>5. ASSUME NEW k \in Sessions, RemoveSession(k) PROVE CacheInvariant'
  <2>1. /\ UNCHANGED <<pc, cache, corpus, covered>>
        /\ req' = [s \in Slots |-> IF req[s].session = k /\ pc[s] = "idle"
                                   THEN [req[s] EXCEPT !.outcome = "none"] ELSE req[s]]
    BY <1>5 DEF RemoveSession
  <2>2. ASSUME NEW s \in Slots PROVE SlotStep(s)
    <3>1. CASE pc[s] = "idle"
      BY <2>1, <3>1 DEF SlotStep, Computing
    <3>2. CASE pc[s] # "idle"
      <4>1. req'[s] = req[s] /\ pc'[s] = pc[s]
        BY <2>1, <3>2
      <4> QED BY <4>1 DEF SlotStep, Computing
    <3> QED BY <3>1, <3>2
  <2>3. \A q \in Queries : RowStep(q)
    BY <2>1 DEF RowStep, Cached
  <2> QED BY <2>1, <2>2, <2>3, StepKeepsCache
<1> QED BY <1>2, <1>3, <1>4, <1>5 DEF TimeStep

\* Rows and running requests older than the last invalidation were overtaken by it.
THEOREM CacheInvariantHolds == Spec => []CacheInvariant
<1>1. Init => CacheInvariant
  <2> SUFFICES ASSUME Init PROVE CacheInvariant
    OBVIOUS
  <2>1. \A s \in Slots : Excused(s)
    BY DEF Init, ServiceInit, Excused, Computing
  <2>2. \A q \in Queries : RowExcused(q)
    BY DEF Init, CacheInit, RowExcused, Cached
  <2> QED BY <2>1, <2>2 DEF Init, CacheInvariant
<1>2. QueryInvariant /\ CacheInvariant /\ [Next]_vars => CacheInvariant'
  <2> SUFFICES ASSUME QueryInvariant, CacheInvariant, [Next]_vars PROVE CacheInvariant'
    OBVIOUS
  <2>1. CASE RequestStep /\ UNCHANGED <<corpus, writer, covered>>
    BY <2>1, RequestKeepsCache
  <2>2. CASE WriterStep
    BY <2>2, WriterKeepsCache
  <2>3. CASE TimeStep
    BY <2>3, TimeKeepsCache
  <2>4. CASE UNCHANGED vars
    BY <2>4, OutsideKeepsCache DEF vars
  <2> QED BY <2>1, <2>2, <2>3, <2>4 DEF Next
<1> QED BY <1>1, <1>2, QueryInvariantHolds, PTL DEF Spec

\* An answer computed before the last invalidation is in the cache only if its request was
\* under way when it happened.
THEOREM StaleAnswersWereOvertaken == Spec => []StaleOnlyIfOvertaken
<1>1. CacheInvariant => StaleOnlyIfOvertaken
  BY DEF CacheInvariant, RowExcused, StaleOnlyIfOvertaken
<1> QED BY <1>1, CacheInvariantHolds, PTL

-----------------------------------------------------------------------------
(* Turns.  That turns are kept, for any slots and sessions.  The property speaks
   of requests that are over; what makes it inductive is what is known of
   a request at each of its calls, that an answered request has a session
   still, and that nobody can use the id of a session before it exists. *)

\* No answer yet.
Quiet(s) == pc[s] \in {"session", "lookup", "retrieve", "generate"} => ~req[s].answer

\* No history yet.
Blank(s) == pc[s] = "session" => req[s].history = {}

Kept(s) ==
    (pc[s] = "idle" /\ req[s].outcome = "done" /\ req[s].answer) =>
       SessionExists(req[s].session) /\ s \in transcript[req[s].session]

Appended(s) == (pc[s] = "bill" /\ req[s].answer) => s \in transcript[req[s].session]

HistoryKept(s) ==
    (pc[s] # "idle" /\ SessionExists(req[s].session)) =>
       req[s].history \subseteq transcript[req[s].session]

\* A session about to be created is nobody else's; a request that names its id without
\* having it will be refused.
Sole(s) ==
    (pc[s] = "session" /\ req[s].new) =>
       /\ ~SessionExists(req[s].session)
       /\ \A r \in Slots \ {s} : (pc[r] # "idle" /\ req[r].session = req[s].session) =>
             pc[r] = "session" /\ ~req[r].new

SlotTurns(s) == Quiet(s) /\ Blank(s) /\ Kept(s) /\ Appended(s) /\ HistoryKept(s) /\ Sole(s)

TurnInvariant == \A s \in Slots : SlotTurns(s)

-----------------------------------------------------------------------------
(* The steps of a request that create no session. *)

\* Sessions neither come nor go, and transcripts only grow.
SessionsGrow ==
    \A k \in Sessions : (age'[k] # Gone <=> age[k] # Gone) /\ transcript[k] \subseteq transcript'[k]

StepBy(s) ==
    /\ SessionsGrow
    /\ pc[s] # "idle" /\ pc'[s] # "session"
    /\ (pc[s] = "session" /\ pc'[s] # "idle") => SessionExists(req[s].session)
    /\ req'[s].session = req[s].session
    /\ \A r \in Slots \ {s} : pc'[r] = pc[r] /\ req'[r] = req[r]

\* Such a step keeps what is known of the others.
LEMMA OthersKeepTurns ==
    ASSUME QueryInvariant, TurnInvariant, NEW s \in Slots, StepBy(s), SlotTurns(s)'
    PROVE  TurnInvariant'
<1>1. ASSUME NEW o \in Slots, o # s PROVE SlotTurns(o)'
  <2>1. SlotTurns(o) /\ pc'[o] = pc[o] /\ req'[o] = req[o]
    BY <1>1 DEF TurnInvariant, StepBy
  <2>2. req[o].session \in Sessions /\ req[s].session \in Sessions
    BY DEF QueryInvariant, TypeOK, ServiceTypeOK, Request
  <2> DEFINE k == req[o].session
  <2>3. /\ age'[k] # Gone <=> age[k] # Gone
        /\ transcript[k] \subseteq transcript'[k]
    BY <2>2 DEF StepBy, SessionsGrow
  <2>4. Quiet(o)' /\ Blank(o)'
    BY <2>1 DEF SlotTurns, Quiet, Blank
  <2>5. Kept(o)' /\ Appended(o)' /\ HistoryKept(o)'
    BY <2>1, <2>3 DEF SlotTurns, Kept, Appended, HistoryKept, SessionExists, Gone
  <2>6. Sole(o)'
    <3> SUFFICES ASSUME pc[o] = "session", req[o].new
                 PROVE  /\ ~(age'[k] # Gone)
                        /\ \A r \in Slots \ {o} : (pc'[r] # "idle" /\ req'[r].session = k) =>
                              pc'[r] = "session" /\ ~req'[r].new
      BY <2>1 DEF Sole, SessionExists, Gone
    <3>1. /\ ~(age[k] # Gone)
          /\ \A r \in Slots \ {o} : (pc[r] # "idle" /\ req[r].session = k) =>
                pc[r] = "session" /\ ~req[r].new
      BY <2>1 DEF SlotTurns, Sole, SessionExists
    <3>2. ASSUME NEW r \in Slots \ {o}, pc'[r] # "idle", req'[r].session = k
          PROVE  pc'[r] = "session" /\ ~req'[r].new
      <4>1. CASE r = s
        <5>1. pc[s] = "session" /\ req[s].session = k
          BY <3>1, <3>2, <4>1 DEF StepBy
        <5>2. age[k] # Gone
          BY <3>2, <4>1, <5>1 DEF StepBy, SessionExists
        <5> QED BY <3>1, <5>2
      <4>2. CASE r # s
        BY <3>1, <3>2, <4>2 DEF StepBy
      <4> QED BY <4>1, <4>2
    <3> QED BY <2>3, <3>1, <3>2
  <2> QED BY <2>4, <2>5, <2>6 DEF SlotTurns
<1> QED BY <1>1 DEF TurnInvariant

\* A request that ends with an answer has its turn in the transcript.
LEMMA EndKeepsTurns ==
    ASSUME QueryInvariant, TurnInvariant, NEW s \in Slots, NEW outcome,
           Ends(s, outcome), SessionsGrow, pc[s] # "idle",
           (outcome = "done" /\ req[s].answer) =>
              SessionExists(req[s].session) /\ s \in transcript'[req[s].session]
    PROVE  TurnInvariant'
<1>1. pc \in [Slots -> PC] /\ req \in [Slots -> Request]
  BY DEF QueryInvariant, TypeOK, ServiceTypeOK
<1> DEFINE k == req[s].session
<1>2. PICK answer \in BOOLEAN :
         /\ answer = (outcome = "done" /\ req[s].answer)
         /\ req' = [req EXCEPT ![s] = Ended(k, answer, outcome)]
  BY DEF Ends
<1>3. k \in Sessions
  BY <1>1 DEF Request
<1> DEFINE e == Ended(k, answer, outcome)
<1>4. e.session = k /\ e.outcome = outcome /\ e.answer = answer
  BY DEF Ended
<1>5. req'[s] = e /\ \A r \in Slots \ {s} : req'[r] = req[r]
  BY <1>1, <1>2
<1> HIDE DEF e
<1>6. pc'[s] = "idle" /\ \A r \in Slots \ {s} : pc'[r] = pc[r]
  BY <1>1 DEF Ends
<1>7. StepBy(s)
  BY <1>4, <1>5, <1>6 DEF StepBy
<1>8. Kept(s)'
  <2> SUFFICES ASSUME req'[s].outcome = "done", req'[s].answer
               PROVE  age'[k] # Gone /\ s \in transcript'[k]
    BY <1>4, <1>5 DEF Kept, SessionExists, Gone
  <2>1. outcome = "done" /\ answer
    BY <1>4, <1>5
  <2>2. req[s].answer
    BY <1>2, <2>1
  <2>3. age[k] # Gone /\ s \in transcript'[k]
    BY <2>1, <2>2 DEF SessionExists
  <2> QED BY <1>3, <2>3 DEF SessionsGrow
<1>9. SlotTurns(s)'
  BY <1>6, <1>8 DEF SlotTurns, Quiet, Blank, Appended, HistoryKept, Sole
<1> QED BY <1>7, <1>9, OthersKeepTurns

\* A request that goes on.
LEMMA GoOnKeepsTurns ==
    ASSUME QueryInvariant, TurnInvariant, NEW s \in Slots, NEW next \in PC \ {"idle", "session"},
           NEW r, Continues(s, next, r), SessionsGrow, r.session = req[s].session,
           pc[s] # "idle", pc[s] = "session" => SessionExists(req[s].session),
           next \in {"lookup", "retrieve", "generate"} => ~r.answer,
           (next = "bill" /\ r.answer) => s \in transcript'[req[s].session],
           r.history \subseteq transcript'[req[s].session]
    PROVE  TurnInvariant'
<1>1. pc \in [Slots -> PC] /\ req \in [Slots -> Request]
  BY DEF QueryInvariant, TypeOK, ServiceTypeOK
<1>2. /\ pc'[s] = next /\ req'[s] = r
      /\ \A o \in Slots \ {s} : pc'[o] = pc[o] /\ req'[o] = req[o]
  BY <1>1 DEF Continues
<1>3. StepBy(s)
  BY <1>2 DEF StepBy
<1>4. SlotTurns(s)'
  BY <1>2 DEF SlotTurns, Quiet, Blank, Kept, Appended, HistoryKept, Sole
<1> QED BY <1>3, <1>4, OthersKeepTurns

\* What the updates of a request's locals leave alone.
LEMMA UpdatesKeepTurns ==
    ASSUME NEW r \in Request
    PROVE  /\ \A b \in BOOLEAN : LET u == [r EXCEPT !.crossed = b] IN
                u.session = r.session /\ u.history = r.history /\ u.answer = r.answer
                /\ u.outcome = r.outcome /\ u.new = r.new
           /\ \A b \in BOOLEAN : LET u == [r EXCEPT !.overtaken = b] IN
                u.session = r.session /\ u.history = r.history /\ u.answer = r.answer
                /\ u.outcome = r.outcome /\ u.new = r.new
           /\ \A h \in SUBSET Slots : LET u == [r EXCEPT !.history = h] IN
                u.session = r.session /\ u.history = h /\ u.answer = r.answer
                /\ u.outcome = r.outcome /\ u.new = r.new
           /\ \A v \in Versions : LET u == [r EXCEPT !.version = v] IN
                u.session = r.session /\ u.history = r.history /\ u.answer = r.answer
           /\ LET u == [r EXCEPT !.answer = TRUE] IN
                u.session = r.session /\ u.history = r.history
           /\ LET u == [r EXCEPT !.hit = TRUE, !.answer = TRUE] IN
                u.session = r.session /\ u.history = r.history
           /\ LET u == [r EXCEPT !.hit = TRUE] IN
                u.session = r.session /\ u.history = r.history /\ u.answer = r.answer
           /\ LET u == [r EXCEPT !.outcome = "none"] IN
                u.session = r.session /\ u.history = r.history /\ u.answer = r.answer
                /\ u.outcome = "none" /\ u.new = r.new
BY DEF Request

\* A request past its session check has that session.
LEMMA HasSession ==
    ASSUME QueryInvariant, NEW s \in Slots, pc[s] \notin {"idle", "session"}
    PROVE  SessionExists(req[s].session)
<1>1. age[req[s].session] <= IF req[s].crossed THEN SessionExpiry + 1 ELSE SessionExpiry
  BY DEF QueryInvariant, SlotInvariant, SessionFresh
<1> QED BY <1>1, SessionAssumption DEF SessionExists, Gone

\* The arrival of a request: the turn of its predecessor is forgotten everywhere.
LEMMA ArrivalKeepsTurns ==
    ASSUME QueryInvariant, TurnInvariant, NEW s \in Slots, NEW q \in Queries,
           NEW stream \in BOOLEAN, NEW k \in Sessions, NEW new \in BOOLEAN,
           Arrive(s, q, stream, k, new)
    PROVE  TurnInvariant'
<1>1. /\ pc \in [Slots -> PC] /\ req \in [Slots -> Request]
      /\ transcript \in [Sessions -> SUBSET Slots]
  BY DEF QueryInvariant, TypeOK, ServiceTypeOK
<1> DEFINE fresh == Asked(q, stream, k, new)
<1>2. fresh.session = k /\ fresh.history = {} /\ fresh.answer = FALSE /\ fresh.new = new
  BY DEF Asked
<1>3. /\ age' = age /\ pc' = [pc EXCEPT ![s] = "session"]
      /\ transcript' = [j \in Sessions |-> transcript[j] \ {s}]
      /\ req' = [r \in Slots |-> IF r = s THEN fresh
                                 ELSE [req[r] EXCEPT !.history = req[r].history \ {s}]]
      /\ new => ~SessionExists(k) /\ \A r \in InFlight : req[r].session # k
  BY DEF Arrive
<1> HIDE DEF fresh
<1>4. pc'[s] = "session" /\ req'[s] = fresh /\ \A r \in Slots \ {s} : pc'[r] = pc[r]
  BY <1>1, <1>3
<1>5. ASSUME NEW o \in Slots, o # s
      PROVE  /\ req'[o].session = req[o].session /\ req'[o].history = req[o].history \ {s}
             /\ req'[o].answer = req[o].answer /\ req'[o].outcome = req[o].outcome
             /\ req'[o].new = req[o].new
  <2> DEFINE h == req[o].history \ {s}
             u == [req[o] EXCEPT !.history = h]
  <2>1. req[o] \in Request
    BY <1>1
  <2>2. h \in SUBSET Slots
    BY <2>1 DEF Request
  <2>3. u.session = req[o].session /\ u.history = h /\ u.answer = req[o].answer
        /\ u.outcome = req[o].outcome /\ u.new = req[o].new
    BY <2>1, <2>2, UpdatesKeepTurns
  <2>4. req'[o] = u
    BY <1>3, <1>5
  <2> HIDE DEF u
  <2> QED BY <2>3, <2>4
<1>6. SlotTurns(s)'
  <2>1. Quiet(s)' /\ Blank(s)' /\ Kept(s)' /\ Appended(s)' /\ HistoryKept(s)'
    BY <1>2, <1>4 DEF Quiet, Blank, Kept, Appended, HistoryKept
  <2>2. Sole(s)'
    <3> SUFFICES ASSUME req'[s].new
                 PROVE  /\ ~(age[k] # Gone)
                        /\ \A r \in Slots \ {s} : ~(pc'[r] # "idle" /\ req'[r].session = k)
      BY <1>2, <1>3, <1>4 DEF Sole, SessionExists, Gone
    <3>1. new
      BY <1>2, <1>4
    <3> QED BY <1>3, <1>4, <1>5, <3>1 DEF SessionExists, InFlight
  <2> QED BY <2>1, <2>2 DEF SlotTurns
<1>7. ASSUME NEW o \in Slots, o # s PROVE SlotTurns(o)'
  <2>1. SlotTurns(o) /\ pc'[o] = pc[o] /\ req[o].session \in Sessions
    BY <1>1, <1>4, <1>7 DEF TurnInvariant, Request
  <2>2. transcript'[req[o].session] = transcript[req[o].session] \ {s}
    BY <1>3, <2>1
  <2>3. Quiet(o)' /\ Blank(o)' /\ Kept(o)' /\ Appended(o)' /\ HistoryKept(o)'
    BY <1>3, <1>5, <1>7, <2>1, <2>2
       DEF SlotTurns, Quiet, Blank, Kept, Appended, HistoryKept, SessionExists, Gone
  <2>4. Sole(o)'
    <3>0. /\ pc'[o] = pc[o] /\ age' = age
          /\ req'[o].session = req[o].session /\ req'[o].new = req[o].new
      BY <1>3, <1>5, <1>7, <2>1
    <3> SUFFICES ASSUME pc[o] = "session", req[o].new
                 PROVE  /\ ~(age[req[o].session] # Gone)
                        /\ \A r \in Slots \ {o} :
                              (pc'[r] # "idle" /\ req'[r].session = req[o].session) =>
                                 pc'[r] = "session" /\ ~req'[r].new
      BY <3>0 DEF Sole, SessionExists, Gone
    <3>1. /\ ~(age[req[o].session] # Gone)
          /\ \A r \in Slots \ {o} : (pc[r] # "idle" /\ req[r].session = req[o].session) =>
                pc[r] = "session" /\ ~req[r].new
      BY <2>1 DEF SlotTurns, Sole, SessionExists
    <3>2. ASSUME NEW r \in Slots \ {o}, pc'[r] # "idle", req'[r].session = req[o].session
          PROVE  pc'[r] = "session" /\ ~req'[r].new
      <4>1. CASE r = s
        <5>1. ~new
          <6>1. o \in InFlight
            BY DEF InFlight
          <6>2. req[o].session = k
            BY <1>2, <1>4, <3>2, <4>1
          <6> QED BY <1>3, <6>1, <6>2
        <5> QED BY <1>2, <1>4, <4>1, <5>1
      <4>2. CASE r # s
        BY <1>4, <1>5, <3>1, <3>2, <4>2
      <4> QED BY <4>1, <4>2
    <3> QED BY <3>1, <3>2
  <2> QED BY <2>3, <2>4 DEF SlotTurns
<1> QED BY <1>6, <1>7 DEF TurnInvariant

\* A session that is created was used by nobody: no turn is lost with its empty transcript.
LEMMA CreationKeepsTurns ==
    ASSUME QueryInvariant, TurnInvariant, NEW s \in Slots, CreateSession(s)
    PROVE  TurnInvariant'
<1> DEFINE k == req[s].session
<1>1. /\ pc \in [Slots -> PC] /\ req \in [Slots -> Request] /\ age \in [Sessions -> 0..Gone]
      /\ transcript \in [Sessions -> SUBSET Slots]
  BY DEF QueryInvariant, TypeOK, ServiceTypeOK
<1>2. /\ pc[s] = "session" /\ req[s].new /\ pc' = [pc EXCEPT ![s] = "lookup"]
      /\ req' = [req EXCEPT ![s] = req[s]] /\ age' = [age EXCEPT ![k] = 0]
      /\ transcript' = [transcript EXCEPT ![k] = {}]
  BY DEF CreateSession, Continues
<1>3. k \in Sessions /\ SlotTurns(s)
  BY <1>1 DEF Request, TurnInvariant
<1>4. /\ ~(age[k] # Gone)
      /\ \A r \in Slots \ {s} : (pc[r] # "idle" /\ req[r].session = k) =>
            pc[r] = "session" /\ ~req[r].new
  BY <1>2, <1>3 DEF SlotTurns, Sole, SessionExists
<1>5. /\ pc'[s] = "lookup" /\ req' = req /\ age'[k] = 0 /\ transcript'[k] = {}
      /\ \A r \in Slots \ {s} : pc'[r] = pc[r]
      /\ \A j \in Sessions \ {k} : age'[j] = age[j] /\ transcript'[j] = transcript[j]
  BY <1>1, <1>2, <1>3
<1>6. SlotTurns(s)'
  <2>1. req[s].history = {} /\ ~req[s].answer
    BY <1>2, <1>3 DEF SlotTurns, Quiet, Blank
  <2> QED BY <1>5, <2>1 DEF SlotTurns, Quiet, Blank, Kept, Appended, HistoryKept, Sole
<1>7. ASSUME NEW o \in Slots, o # s PROVE SlotTurns(o)'
  <2>1. SlotTurns(o) /\ pc'[o] = pc[o] /\ req'[o] = req[o] /\ req[o].session \in Sessions
    BY <1>1, <1>5, <1>7 DEF TurnInvariant, Request
  <2>2. Quiet(o)' /\ Blank(o)'
    BY <2>1 DEF SlotTurns, Quiet, Blank
  <2>3. CASE req[o].session = k
    <3>1. Kept(o)'
      <4>1. ~(pc[o] = "idle" /\ req[o].outcome = "done" /\ req[o].answer)
        BY <1>4, <2>1, <2>3 DEF SlotTurns, Kept, SessionExists
      <4> QED BY <2>1, <4>1 DEF Kept
    <3>2. Appended(o)' /\ HistoryKept(o)' /\ Sole(o)'
      <4>1. pc[o] # "idle" => pc[o] = "session" /\ ~req[o].new
        BY <1>4, <1>7, <2>3
      <4>2. pc[o] = "session" => req[o].history = {}
        BY <2>1 DEF SlotTurns, Blank
      <4> QED BY <2>1, <4>1, <4>2 DEF Appended, HistoryKept, Sole
    <3> QED BY <2>2, <3>1, <3>2 DEF SlotTurns
  <2>4. CASE req[o].session # k
    <3>1. /\ age'[req[o].session] = age[req[o].session]
          /\ transcript'[req[o].session] = transcript[req[o].session]
      BY <1>5, <2>1, <2>4
    <3>2. Kept(o)' /\ Appended(o)' /\ HistoryKept(o)'
      BY <2>1, <3>1 DEF SlotTurns, Kept, Appended, HistoryKept, SessionExists, Gone
    <3>3. Sole(o)'
      BY <1>5, <2>1, <2>4, <3>1 DEF SlotTurns, Sole, SessionExists, Gone
    <3> QED BY <2>2, <3>2, <3>3 DEF SlotTurns
  <2> QED BY <2>3, <2>4
<1> QED BY <1>6, <1>7 DEF TurnInvariant

\* The steps of a request.
LEMMA RequestKeepsTurns ==
    ASSUME QueryInvariant, TurnInvariant, RequestStep PROVE TurnInvariant'
<1>1. /\ pc \in [Slots -> PC] /\ req \in [Slots -> Request] /\ age \in [Sessions -> 0..Gone]
      /\ transcript \in [Sessions -> SUBSET Slots] /\ corpus \in Versions
  BY DEF QueryInvariant, TypeOK, ServiceTypeOK
<1>2. PICK s \in Slots :
         \/ \E q \in Queries, stream \in BOOLEAN, k \in Sessions, new \in BOOLEAN :
               Arrive(s, q, stream, k, new)
         \/ RequestProceeds(s) \/ CallRaises(s) \/ StreamStops(s) \/ StreamCut(s)
         \/ BillIsLost(s)
  BY DEF RequestStep
<1> DEFINE k == req[s].session
<1>3. req[s] \in Request /\ k \in Sessions /\ SlotTurns(s)
  BY <1>1 DEF Request, TurnInvariant
<1>4. ASSUME age' = age, transcript' = transcript PROVE SessionsGrow
  BY <1>4 DEF SessionsGrow
<1>5. pc[s] \notin {"idle", "session"} => SessionExists(k)
  BY HasSession
<1>6. pc[s] \notin {"idle", "session"} => req[s].history \subseteq transcript[k]
  BY <1>3, <1>5 DEF SlotTurns, HistoryKept
<1>7. CASE ResumeSession(s)
  <2> DEFINE h == transcript[k]
             r == [req[s] EXCEPT !.history = h]
  <2>1. h \in SUBSET Slots
    BY <1>1, <1>3
  <2>2. r.session = k /\ r.history = h /\ r.answer = req[s].answer
    BY <1>3, <2>1, UpdatesKeepTurns
  <2>3. Continues(s, "lookup", r) /\ age' = age /\ transcript' = transcript
        /\ pc[s] = "session" /\ SessionExists(k)
    BY <1>7 DEF ResumeSession, Usable
  <2>4. ~req[s].answer
    BY <1>3, <2>3 DEF SlotTurns, Quiet
  <2>5. h \subseteq transcript'[k]
    BY <2>3
  <2> HIDE DEF r, h
  <2> QED BY <1>4, <2>2, <2>3, <2>4, <2>5, GoOnKeepsTurns DEF PC
<1>8. CASE LookupCache(s)
  <2>1. pc[s] = "lookup" /\ age' = age /\ transcript' = transcript
    BY <1>8 DEF LookupCache
  <2>2. ~req[s].answer
    BY <1>3, <2>1 DEF SlotTurns, Quiet
  <2>3. CASE Continues(s, "retrieve", req[s])
    BY <1>4, <1>6, <2>1, <2>2, <2>3, GoOnKeepsTurns DEF PC
  <2>4. CASE Continues(s, "append", [req[s] EXCEPT !.hit = TRUE, !.answer = TRUE])
    <3> DEFINE r == [req[s] EXCEPT !.hit = TRUE, !.answer = TRUE]
    <3>1. r.session = k /\ r.history = req[s].history
      BY <1>3, UpdatesKeepTurns
    <3>2. Continues(s, "append", r)
      BY <2>4
    <3> HIDE DEF r
    <3> QED BY <1>4, <1>6, <2>1, <3>1, <3>2, GoOnKeepsTurns DEF PC
  <2>5. CASE Continues(s, "bill", [req[s] EXCEPT !.hit = TRUE])
    <3> DEFINE r == [req[s] EXCEPT !.hit = TRUE]
    <3>1. r.session = k /\ r.history = req[s].history /\ r.answer = req[s].answer
      BY <1>3, UpdatesKeepTurns
    <3>2. Continues(s, "bill", r)
      BY <2>5
    <3> HIDE DEF r
    <3> QED BY <1>4, <1>6, <2>1, <2>2, <3>1, <3>2, GoOnKeepsTurns DEF PC
  <2> QED BY <1>8, <2>3, <2>4, <2>5 DEF LookupCache
<1>9. CASE Retrieve(s)
  <2> DEFINE r == [req[s] EXCEPT !.version = corpus]
  <2>1. r.session = k /\ r.history = req[s].history /\ r.answer = req[s].answer
    BY <1>1, <1>3, UpdatesKeepTurns
  <2>2. /\ pc[s] = "retrieve" /\ age' = age /\ transcript' = transcript
        /\ Continues(s, "generate", r)
    BY <1>9 DEF Retrieve
  <2>3. ~req[s].answer
    BY <1>3, <2>2 DEF SlotTurns, Quiet
  <2> HIDE DEF r
  <2> QED BY <1>4, <1>6, <2>1, <2>2, <2>3, GoOnKeepsTurns DEF PC
<1>10. ASSUME pc[s] = "generate", age' = age, transcript' = transcript,
              Continues(s, "store", [req[s] EXCEPT !.answer = TRUE])
       PROVE  TurnInvariant'
  <2> DEFINE r == [req[s] EXCEPT !.answer = TRUE]
  <2>1. r.session = k /\ r.history = req[s].history
    BY <1>3, UpdatesKeepTurns
  <2>2. Continues(s, "store", r)
    BY <1>10
  <2> HIDE DEF r
  <2> QED BY <1>4, <1>6, <1>10, <2>1, <2>2, GoOnKeepsTurns DEF PC
<1>11. CASE Generate(s)
  BY <1>10, <1>11 DEF Generate
<1>12. CASE StreamStops(s)
  <2>1. pc[s] \in {"retrieve", "generate"} /\ age' = age /\ transcript' = transcript
    BY <1>12 DEF StreamStops
  <2>2. Continues(s, "bill", req[s]) /\ ~req[s].answer
    BY <1>3, <1>12, <2>1 DEF StreamStops, SlotTurns, Quiet
  <2> QED BY <1>4, <1>6, <2>1, <2>2, GoOnKeepsTurns DEF PC
<1>13. CASE Store(s)
  <2>1. pc[s] = "store" /\ age' = age /\ transcript' = transcript /\ Continues(s, "append", req[s])
    BY <1>13 DEF Store
  <2> QED BY <1>4, <1>6, <2>1, GoOnKeepsTurns DEF PC
<1>14. CASE AppendTurn(s)
  <2>1. /\ pc[s] = "append" /\ transcript' = WithTurn(s, k)
        /\ age' = [age EXCEPT ![k] = IF SessionExists(k) THEN 0 ELSE age[k]]
        /\ \/ Ends(s, "done")
           \/ Continues(s, "bill", req[s])
    BY <1>14 DEF AppendTurn
  <2>2. SessionExists(k)
    BY <1>5, <2>1
  <2>3. transcript' = [transcript EXCEPT ![k] = transcript[k] \cup {s}] /\ age' = [age EXCEPT ![k] = 0]
    BY <2>1, <2>2 DEF WithTurn
  <2>4. s \in transcript'[k] /\ transcript[k] \subseteq transcript'[k]
    BY <1>1, <1>3, <2>3
  <2>5. SessionsGrow
    BY <1>1, <1>3, <2>2, <2>3, SessionAssumption DEF SessionsGrow, SessionExists, Gone
  <2>6. CASE Ends(s, "done")
    BY <2>1, <2>2, <2>4, <2>5, <2>6, EndKeepsTurns
  <2>7. CASE Continues(s, "bill", req[s])
    BY <1>6, <2>1, <2>4, <2>5, <2>7, GoOnKeepsTurns DEF PC
  <2> QED BY <2>1, <2>6, <2>7
<1>15. ASSUME pc[s] = "bill", age' = age, transcript' = transcript,
              Ends(s, "done")
       PROVE  TurnInvariant'
  <2>1. req[s].answer => s \in transcript[k]
    BY <1>3, <1>15 DEF SlotTurns, Appended
  <2> QED BY <1>4, <1>5, <1>15, <2>1, EndKeepsTurns
<1>16. CASE Bill(s)
  BY <1>15, <1>16 DEF Bill
<1>17. CASE BillIsLost(s)
  BY <1>15, <1>17 DEF BillIsLost
<1>18. CASE RefuseSession(s)
  BY <1>4, <1>18, EndKeepsTurns DEF RefuseSession
<1>19. CASE CallRaises(s)
  <2>1. Ends(s, "failed") /\ age' = age /\ transcript' = transcript /\ pc[s] # "idle"
    BY <1>19 DEF CallRaises
  <2> QED BY <1>4, <2>1, EndKeepsTurns
<1>20. CASE StreamCut(s)
  BY <1>4, <1>20, EndKeepsTurns DEF StreamCut
<1> QED
  BY <1>2, <1>7, <1>8, <1>9, <1>11, <1>12, <1>13, <1>14, <1>16, <1>17, <1>18, <1>19, <1>20,
     ArrivalKeepsTurns, CreationKeepsTurns DEF RequestProceeds

-----------------------------------------------------------------------------
(* Everything else. *)

\* A step that leaves the requests alone, but for the locals no turn depends on.
LEMMA OutsideKeepsTurns ==
    ASSUME QueryInvariant, TurnInvariant, pc' = pc, transcript' = transcript,
           \A k \in Sessions : age'[k] # Gone <=> age[k] # Gone,
           \A s \in Slots : /\ req'[s].session = req[s].session
                            /\ req'[s].history = req[s].history
                            /\ req'[s].answer = req[s].answer
                            /\ req'[s].outcome = req[s].outcome
                            /\ req'[s].new = req[s].new
    PROVE  TurnInvariant'
<1> SUFFICES ASSUME NEW s \in Slots PROVE SlotTurns(s)'
  BY DEF TurnInvariant
<1>1. SlotTurns(s) /\ req[s].session \in Sessions
  BY DEF TurnInvariant, QueryInvariant, TypeOK, ServiceTypeOK, Request
<1>2. Quiet(s)' /\ Blank(s)' /\ Kept(s)' /\ Appended(s)' /\ HistoryKept(s)'
  BY <1>1 DEF SlotTurns, Quiet, Blank, Kept, Appended, HistoryKept, SessionExists, Gone
<1>3. Sole(s)'
  BY <1>1 DEF SlotTurns, Sole, SessionExists, Gone
<1> QED BY <1>2, <1>3 DEF SlotTurns

\* The writers of documents at most mark requests as overtaken.
LEMMA WriterKeepsTurns ==
    ASSUME QueryInvariant, TurnInvariant, WriterStep PROVE TurnInvariant'
<1>1. req \in [Slots -> Request]
  BY DEF QueryInvariant, TypeOK, ServiceTypeOK
<1>2. ASSUME InvalidateCache PROVE TurnInvariant'
  <2>1. /\ UNCHANGED <<pc, age, transcript>>
        /\ req' = [s \in Slots |-> [req[s] EXCEPT !.overtaken = req[s].overtaken \/ Computing(s)]]
    BY <1>2 DEF InvalidateCache, ServiceUnchanged
  <2>2. ASSUME NEW s \in Slots
        PROVE  /\ req'[s].session = req[s].session /\ req'[s].history = req[s].history
               /\ req'[s].answer = req[s].answer /\ req'[s].outcome = req[s].outcome
               /\ req'[s].new = req[s].new
    <3>1. PICK b \in BOOLEAN : b = (req[s].overtaken \/ Computing(s))
      OBVIOUS
    <3> DEFINE u == [req[s] EXCEPT !.overtaken = b]
    <3>2. req'[s] = u /\ req[s] \in Request
      BY <1>1, <2>1, <3>1
    <3>3. u.session = req[s].session /\ u.history = req[s].history /\ u.answer = req[s].answer
          /\ u.outcome = req[s].outcome /\ u.new = req[s].new
      BY <3>2, UpdatesKeepTurns
    <3> HIDE DEF u
    <3> QED BY <3>2, <3>3
  <2> QED BY <2>1, <2>2, OutsideKeepsTurns
<1>3. ASSUME ServiceUnchanged, req' = req PROVE TurnInvariant'
  BY <1>3, OutsideKeepsTurns DEF ServiceUnchanged
<1> QED BY <1>2, <1>3
    DEF WriterStep, WriterProceeds, WorkerUpserts, WorkerInvalidates, WorkerSkipsInvalidation,
        ReindexInvalidates, ReindexWipes, DocumentDeleted, DatasetReplaced

\* The clock; the TTL index takes the turns of a session together with it.
LEMMA TimeKeepsTurns ==
    ASSUME QueryInvariant, TurnInvariant, TimeStep PROVE TurnInvariant'
<1>1. /\ pc \in [Slots -> PC] /\ req \in [Slots -> Request] /\ age \in [Sessions -> 0..Gone]
      /\ transcript \in [Sessions -> SUBSET Slots]
  BY DEF QueryInvariant, TypeOK, ServiceTypeOK
<1>2. CASE Tick
  <2>1. /\ UNCHANGED <<pc, transcript>>
        /\ age' = [k \in Sessions |-> IF age[k] < SessionLifetime THEN age[k] + 1 ELSE age[k]]
        /\ req' = [s \in Slots |-> [req[s] EXCEPT !.crossed = pc[s] # "idle"]]
    BY <1>2 DEF Tick
  <2>2. \A k \in Sessions : age'[k] # Gone <=> age[k] # Gone
    BY <1>1, <2>1, SessionAssumption DEF Gone
  <2>3. ASSUME NEW s \in Slots
        PROVE  /\ req'[s].session = req[s].session /\ req'[s].history = req[s].history
               /\ req'[s].answer = req[s].answer /\ req'[s].outcome = req[s].outcome
               /\ req'[s].new = req[s].new
    <3>1. PICK b \in BOOLEAN : b = (pc[s] # "idle")
      OBVIOUS
    <3> DEFINE u == [req[s] EXCEPT !.crossed = b]
    <3>2. req'[s] = u /\ req[s] \in Request
      BY <1>1, <2>1, <3>1
    <3>3. u.session = req[s].session /\ u.history = req[s].history /\ u.answer = req[s].answer
          /\ u.outcome = req[s].outcome /\ u.new = req[s].new
      BY <3>2, UpdatesKeepTurns
    <3> HIDE DEF u
    <3> QED BY <3>2, <3>3
  <2> QED BY <2>1, <2>2, <2>3, OutsideKeepsTurns
<1>3. CASE NewMonth \/ CleanUp
  BY <1>3, OutsideKeepsTurns DEF NewMonth, CleanUp
<1>4. ASSUME NEW k \in Sessions, RemoveSession(k) PROVE TurnInvariant'
  <2>1. /\ pc' = pc /\ age[k] = SessionLifetime /\ age' = [age EXCEPT ![k] = Gone]
        /\ transcript' = [transcript EXCEPT ![k] = {}]
        /\ req' = [s \in Slots |-> IF req[s].session = k /\ pc[s] = "idle"
                                   THEN [req[s] EXCEPT !.outcome = "none"] ELSE req[s]]
    BY <1>4 DEF RemoveSession
  <2>2. ASSUME NEW s \in Slots
        PROVE  /\ req'[s].session = req[s].session /\ req'[s].history = req[s].history
               /\ req'[s].answer = req[s].answer /\ req'[s].new = req[s].new
               /\ req'[s].outcome = req[s].outcome \/ (pc[s] = "idle" /\ req'[s].outcome = "none")
               /\ req'[s].outcome # "none" => req[s].session # k \/ pc[s] # "idle"
    <3> DEFINE u == [req[s] EXCEPT !.outcome = "none"]
    <3>1. /\ u.session = req[s].session /\ u.history = req[s].history
          /\ u.answer = req[s].answer /\ u.new = req[s].new /\ u.outcome = "none"
      BY <1>1, UpdatesKeepTurns
    <3>2. req'[s] = IF req[s].session = k /\ pc[s] = "idle" THEN u ELSE req[s]
      BY <2>1
    <3> HIDE DEF u
    <3> QED BY <3>1, <3>2
  <2>3. ASSUME NEW s \in Slots PROVE SlotTurns(s)'
    <3>1. SlotTurns(s) /\ req[s].session \in Sessions
      BY <1>1 DEF TurnInvariant, Request
    <3>2. Quiet(s)' /\ Blank(s)'
      BY <2>1, <2>2, <3>1 DEF SlotTurns, Quiet, Blank
    <3>3. Kept(s)'
      <4> SUFFICES ASSUME pc[s] = "idle", req'[s].outcome = "done", req'[s].answer
                   PROVE  age'[req[s].session] # Gone /\ s \in transcript'[req[s].session]
        BY <2>1, <2>2 DEF Kept, SessionExists, Gone
      <4>1. req[s].session # k /\ req[s].outcome = "done" /\ req[s].answer
        BY <2>2
      <4>2. age[req[s].session] # Gone /\ s \in transcript[req[s].session]
        BY <3>1, <4>1 DEF SlotTurns, Kept, SessionExists
      <4> QED BY <1>1, <2>1, <3>1, <4>1, <4>2
    <3>4. pc[s] \notin {"idle", "session"} => req[s].session # k
      <4> SUFFICES ASSUME pc[s] \notin {"idle", "session"} PROVE req[s].session # k
        OBVIOUS
      <4>1. age[req[s].session] <= IF req[s].crossed THEN SessionExpiry + 1 ELSE SessionExpiry
        BY DEF QueryInvariant, SlotInvariant, SessionFresh
      <4> QED BY <2>1, <4>1, SessionAssumption
    <3>5. req[s].session # k =>
             age'[req[s].session] = age[req[s].session]
             /\ transcript'[req[s].session] = transcript[req[s].session]
      BY <1>1, <2>1, <3>1
    <3>6. Appended(s)'
      BY <2>1, <2>2, <3>1, <3>4, <3>5 DEF SlotTurns, Appended
    <3>7. HistoryKept(s)'
      <4>1. CASE pc[s] \notin {"idle", "session"}
        BY <2>1, <2>2, <3>1, <3>4, <3>5, <4>1 DEF SlotTurns, HistoryKept, SessionExists, Gone
      <4>2. CASE pc[s] = "session"
        <5>1. req'[s].history = {}
          BY <2>2, <3>1, <4>2 DEF SlotTurns, Blank
        <5> QED BY <5>1 DEF HistoryKept
      <4>3. CASE pc[s] = "idle"
        BY <2>1, <4>3 DEF HistoryKept
      <4> QED BY <4>1, <4>2, <4>3
    <3>8. Sole(s)'
      <4> SUFFICES ASSUME pc[s] = "session", req[s].new
                   PROVE  /\ ~(age'[req[s].session] # Gone)
                          /\ \A r \in Slots \ {s} :
                                (pc'[r] # "idle" /\ req'[r].session = req[s].session) =>
                                   pc'[r] = "session" /\ ~req'[r].new
        BY <2>1, <2>2 DEF Sole, SessionExists, Gone
      <4>1. /\ ~(age[req[s].session] # Gone)
            /\ \A r \in Slots \ {s} : (pc[r] # "idle" /\ req[r].session = req[s].session) =>
                  pc[r] = "session" /\ ~req[r].new
        BY <3>1 DEF SlotTurns, Sole, SessionExists
      <4>2. ~(age'[req[s].session] # Gone)
        BY <1>1, <2>1, <3>1, <4>1
      <4> QED BY <2>1, <2>2, <4>1, <4>2
    <3> QED BY <3>2, <3>3, <3>6, <3>7, <3>8 DEF SlotTurns
  <2> QED BY <2>3 DEF TurnInvariant
<1> QED BY <1>2, <1>3, <1>4 DEF TimeStep

\* What is known of the turns of each request at each of its calls.
THEOREM TurnInvariantHolds == Spec => []TurnInvariant
<1>1. Init => TurnInvariant
  <2> SUFFICES ASSUME Init, NEW s \in Slots PROVE SlotTurns(s)
    BY DEF TurnInvariant
  <2>1. PICK k \in Sessions : req = [r \in Slots |-> Asked(NoQuery, FALSE, k, FALSE)]
    BY DEF Init, ServiceInit
  <2> DEFINE a == Asked(NoQuery, FALSE, k, FALSE)
  <2>2. a.outcome = "none"
    BY DEF Asked
  <2>3. req[s] = a /\ pc[s] = "idle"
    BY <2>1 DEF Init, ServiceInit
  <2> HIDE DEF a
  <2> QED BY <2>2, <2>3 DEF SlotTurns, Quiet, Blank, Kept, Appended, HistoryKept, Sole
<1>2. QueryInvariant /\ TurnInvariant /\ [Next]_vars => TurnInvariant'
  <2> SUFFICES ASSUME QueryInvariant, TurnInvariant, [Next]_vars PROVE TurnInvariant'
    OBVIOUS
  <2>1. CASE RequestStep
    BY <2>1, RequestKeepsTurns
  <2>2. CASE WriterStep
    BY <2>2, WriterKeepsTurns
  <2>3. CASE TimeStep
    BY <2>3, TimeKeepsTurns
  <2>4. CASE UNCHANGED vars
    BY <2>4, OutsideKeepsTurns DEF vars
  <2> QED BY <2>1, <2>2, <2>3, <2>4 DEF Next
<1> QED BY <1>1, <1>2, QueryInvariantHolds, PTL DEF Spec

\* A turn that was answered is in the transcript, and what was read of it stays.
THEOREM TurnsAreKeptAlways == Spec => []TurnsAreKept
<1>1. TurnInvariant => TurnsAreKept
  <2> SUFFICES ASSUME TurnInvariant, NEW s \in Slots, SessionExists(req[s].session)
               PROVE  /\ (pc[s] = "idle" /\ req[s].outcome = "done" /\ req[s].answer)
                            => s \in transcript[req[s].session]
                      /\ pc[s] # "idle" => req[s].history \subseteq transcript[req[s].session]
    BY DEF TurnsAreKept
  <2>1. SlotTurns(s)
    BY DEF TurnInvariant
  <2> QED BY <2>1 DEF SlotTurns, Kept, HistoryKept
<1> QED BY <1>1, TurnInvariantHolds, PTL

=============================================================================
