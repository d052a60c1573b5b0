---------------------------- MODULE RecordProofs ----------------------------
(***************************************************************************)
(* What every step of ingestion leaves of its records: documents, jobs     *)
(* and messages are created once, keep what identifies them, and are       *)
(* referred to by whoever has heard of them. First each action of          *)
(* Ingestion is described by what it does to the variable of its actor     *)
(* (the turns of workers, uploads, requests and sweeps); then Registered   *)
(* is shown to be an invariant; then each status write is attributed to    *)
(* the action that makes it. The proofs of DocumentProofs and              *)
(* LifecycleProofs rest on these.                                          *)
(***************************************************************************)
EXTENDS IngestionProofs

\* What a worker's step leaves of what it has at hand.
Alone(w) == \A v \in Workers \ {w} : worker'[v] = worker[v]
KeepsMessage(w) ==
    /\ Alone(w)
    /\ worker'[w].msg = worker[w].msg
    /\ worker'[w].receives = worker[w].receives
KeepsVersion(w) ==
    /\ worker'[w].version = worker[w].version
    /\ worker'[w].lineage_id = worker[w].lineage_id

\* The moves of a worker, field by field.
Turn(w, pc) ==
    /\ KeepsMessage(w) /\ KeepsVersion(w)
    /\ worker'[w].pc = pc
    /\ worker'[w].fresh = worker[w].fresh
    /\ worker'[w].pred = worker[w].pred
Failing(w) == KeepsMessage(w) /\ KeepsVersion(w) /\ worker'[w].pc = "failJob"
Loading(w) ==
    /\ KeepsMessage(w)
    /\ worker'[w].pc = "dedup"
    /\ worker'[w].version = docs[DocOf(w)].version
    /\ worker'[w].lineage_id = docs[DocOf(w)].lineage_id
Freshening(w, pc, fresh) ==
    /\ KeepsMessage(w) /\ KeepsVersion(w)
    /\ worker'[w].pc = pc
    /\ worker'[w].fresh = fresh
Choosing(w, p) ==
    /\ KeepsMessage(w) /\ KeepsVersion(w)
    /\ worker'[w].pc = "deletePred"
    /\ worker'[w].pred = p
Ended(w) == Alone(w) /\ worker'[w].pc = "idle"

\* MoveTo changes only pc.
LEMMA MoveTurns ==
    ASSUME worker \in WorkerRecords, NEW w \in Workers, NEW pc, MoveTo(w, pc)
    PROVE  Turn(w, pc)
<1> DEFINE old == worker[w]
           new == [pc |-> pc, msg |-> old.msg, receives |-> old.receives,
                   version |-> old.version, lineage_id |-> old.lineage_id,
                   fresh |-> old.fresh, pred |-> old.pred, error |-> old.error]
<1>1. old \in WorkerRecord
  BY DEF WorkerRecords
<1>2. [old EXCEPT !.pc = pc] = new
  BY <1>1 DEF WorkerRecord
<1>3. worker' = [worker EXCEPT ![w] = new]
  BY <1>2 DEF MoveTo
<1>4. worker'[w] = new /\ Alone(w)
  BY <1>3 DEF WorkerRecords, Alone
<1> QED BY <1>4 DEF Turn, KeepsMessage, KeepsVersion

\* Fails changes only pc and error.
LEMMA FailsTurns ==
    ASSUME worker \in WorkerRecords, NEW w \in Workers, NEW error, Fails(w, error)
    PROVE  Failing(w)
<1> DEFINE old == worker[w]
           mid == [pc |-> "failJob", msg |-> old.msg, receives |-> old.receives,
                   version |-> old.version, lineage_id |-> old.lineage_id,
                   fresh |-> old.fresh, pred |-> old.pred, error |-> old.error]
           new == [pc |-> "failJob", msg |-> old.msg, receives |-> old.receives,
                   version |-> old.version, lineage_id |-> old.lineage_id,
                   fresh |-> old.fresh, pred |-> old.pred, error |-> error]
<1>1. old \in WorkerRecord
  BY DEF WorkerRecords
<1>2. [old EXCEPT !.pc = "failJob"] = mid
  BY <1>1 DEF WorkerRecord
<1>3. [mid EXCEPT !.error = error] = new
  OBVIOUS
<1>4. worker' = [worker EXCEPT ![w] = [[old EXCEPT !.pc = "failJob"] EXCEPT !.error = error]]
  BY DEF Fails
<1>5. worker' = [worker EXCEPT ![w] = new]
  <2> HIDE DEF old, mid, new
  <2> QED BY <1>2, <1>3, <1>4
<1>6. worker'[w] = new /\ Alone(w)
  BY <1>5 DEF WorkerRecords, Alone
<1> QED BY <1>6 DEF Failing, KeepsMessage, KeepsVersion

\* Loading takes the version and the lineage of the document.
LEMMA LoadTurns ==
    ASSUME worker \in WorkerRecords, NEW w \in Workers, NEW version, NEW lineage,
           worker' = [worker EXCEPT ![w].pc = "dedup", ![w].version = version,
                                    ![w].lineage_id = lineage]
    PROVE  /\ KeepsMessage(w)
           /\ worker'[w].pc = "dedup"
           /\ worker'[w].version = version
           /\ worker'[w].lineage_id = lineage
<1> DEFINE old == worker[w]
           mid == [pc |-> "dedup", msg |-> old.msg, receives |-> old.receives,
                   version |-> old.version, lineage_id |-> old.lineage_id,
                   fresh |-> old.fresh, pred |-> old.pred, error |-> old.error]
           next == [pc |-> "dedup", msg |-> old.msg, receives |-> old.receives,
                    version |-> version, lineage_id |-> old.lineage_id,
                    fresh |-> old.fresh, pred |-> old.pred, error |-> old.error]
           new == [pc |-> "dedup", msg |-> old.msg, receives |-> old.receives,
                   version |-> version, lineage_id |-> lineage,
                   fresh |-> old.fresh, pred |-> old.pred, error |-> old.error]
<1>1. old \in WorkerRecord
  BY DEF WorkerRecords
<1>2. [old EXCEPT !.pc = "dedup"] = mid
  BY <1>1 DEF WorkerRecord
<1>3. [mid EXCEPT !.version = version] = next /\ [next EXCEPT !.lineage_id = lineage] = new
  OBVIOUS
<1>4. worker' = [worker EXCEPT ![w] = [[[old EXCEPT !.pc = "dedup"] EXCEPT !.version = version]
                                         EXCEPT !.lineage_id = lineage]]
  OBVIOUS
<1>5. worker' = [worker EXCEPT ![w] = new]
  <2> HIDE DEF old, mid, next, new
  <2> QED BY <1>2, <1>3, <1>4
<1>6. worker'[w] = new /\ Alone(w)
  BY <1>5 DEF WorkerRecords, Alone
<1> QED BY <1>6 DEF KeepsMessage

\* Deduplicating and upserting set the new chunks.
LEMMA FreshTurns ==
    ASSUME worker \in WorkerRecords, NEW w \in Workers, NEW pc, NEW fresh,
           worker' = [worker EXCEPT ![w].pc = pc, ![w].fresh = fresh]
    PROVE  Freshening(w, pc, fresh)
<1> DEFINE old == worker[w]
           mid == [pc |-> pc, msg |-> old.msg, receives |-> old.receives,
                   version |-> old.version, lineage_id |-> old.lineage_id,
                   fresh |-> old.fresh, pred |-> old.pred, error |-> old.error]
           new == [pc |-> pc, msg |-> old.msg, receives |-> old.receives,
                   version |-> old.version, lineage_id |-> old.lineage_id,
                   fresh |-> fresh, pred |-> old.pred, error |-> old.error]
<1>1. old \in WorkerRecord
  BY DEF WorkerRecords
<1>2. [old EXCEPT !.pc = pc] = mid
  BY <1>1 DEF WorkerRecord
<1>3. [mid EXCEPT !.fresh = fresh] = new
  OBVIOUS
<1>4. worker' = [worker EXCEPT ![w] = [[old EXCEPT !.pc = pc] EXCEPT !.fresh = fresh]]
  OBVIOUS
<1>5. worker' = [worker EXCEPT ![w] = new]
  <2> HIDE DEF old, mid, new
  <2> QED BY <1>2, <1>3, <1>4
<1>6. worker'[w] = new /\ Alone(w)
  BY <1>5 DEF WorkerRecords, Alone
<1> QED BY <1>6 DEF Freshening, KeepsMessage, KeepsVersion

\* Finding the predecessor sets which it is.
LEMMA PredTurns ==
    ASSUME worker \in WorkerRecords, NEW w \in Workers, NEW p,
           worker' = [worker EXCEPT ![w].pc = "deletePred", ![w].pred = p]
    PROVE  Choosing(w, p)
<1> DEFINE old == worker[w]
           mid == [pc |-> "deletePred", msg |-> old.msg, receives |-> old.receives,
                   version |-> old.version, lineage_id |-> old.lineage_id,
                   fresh |-> old.fresh, pred |-> old.pred, error |-> old.error]
           new == [pc |-> "deletePred", msg |-> old.msg, receives |-> old.receives,
                   version |-> old.version, lineage_id |-> old.lineage_id,
                   fresh |-> old.fresh, pred |-> p, error |-> old.error]
<1>1. old \in WorkerRecord
  BY DEF WorkerRecords
<1>2. [old EXCEPT !.pc = "deletePred"] = mid
  BY <1>1 DEF WorkerRecord
<1>3. [mid EXCEPT !.pred = p] = new
  OBVIOUS
<1>4. worker' = [worker EXCEPT ![w] = [[old EXCEPT !.pc = "deletePred"] EXCEPT !.pred = p]]
  OBVIOUS
<1>5. worker' = [worker EXCEPT ![w] = new]
  <2> HIDE DEF old, mid, new
  <2> QED BY <1>2, <1>3, <1>4
<1>6. worker'[w] = new /\ Alone(w)
  BY <1>5 DEF WorkerRecords, Alone
<1> QED BY <1>6 DEF Choosing, KeepsMessage, KeepsVersion

\* The end of a dispatch leaves the worker idle.
LEMMA EndTurns ==
    ASSUME worker \in WorkerRecords, NEW w \in Workers,
           worker' = [worker EXCEPT ![w] = Idle]
    PROVE  Ended(w)
  BY DEF Ended, Alone, WorkerRecords, Idle

\* What every step of a worker does to what it has at hand.
LEMMA WorkerTurns ==
    ASSUME TypeOK, NEW w \in Workers
    PROVE  /\ Claim(w) => Turn(w, "markDoc")
           /\ SkipClaimed(w) => Turn(w, "ack")
           /\ MarkDocumentProcessing(w) => Turn(w, "load")
           /\ LoadDocument(w) => Failing(w) \/ Loading(w)
           /\ Deduplicate(w) =>
                 \/ Failing(w)
                 \/ /\ files[DocOf(w)] # NoContent
                    /\ Freshening(w, "upsert", ChunksOf[files[DocOf(w)]] \ SearchableHashes)
           /\ Upsert(w) => Freshening(w, "findPred", {})
           /\ FindPredecessorToArchive(w) =>
                 Turn(w, "readyJob") \/ Failing(w) \/ \E p \in Superseded(w) : Choosing(w, p)
           /\ DeletePredecessorVectors(w) => Turn(w, "archive")
           /\ RollbackVectors(w) => Failing(w)
           /\ ArchivePredecessor(w) => Turn(w, "readyJob")
           /\ ReadyJob(w) => Turn(w, "readyDoc")
           /\ ReadyDoc(w) => Turn(w, "ack")
           /\ FailJob(w) => Turn(w, "failDoc")
           /\ FailDoc(w) => Turn(w, "giveUpDoc") \/ Ended(w)
           /\ Ack(w) => Ended(w)
           /\ GiveUpDoc(w) => Turn(w, "giveUpJob")
           /\ GiveUpJob(w) => Turn(w, "drop")
           /\ Drop(w) => Ended(w)
           /\ PredecessorDeletionRaises(w) => Turn(w, "rollback")
           /\ GuardedCallRaises(w) => Failing(w)
           /\ UnguardedCallRaises(w) =>
                 \/ Turn(w, "giveUpDoc") /\ worker[w].receives >= MAX_RECEIVE_COUNT
                 \/ Ended(w)
           /\ GiveUpRaises(w) => Turn(w, "drop")
           /\ WorkerCrashes(w) => Ended(w)
<1>1. worker \in WorkerRecords
  BY DEF TypeOK, WorkerTypeOK, WorkerRecords
<1>2. \A pc : MoveTo(w, pc) => Turn(w, pc)
  BY <1>1, MoveTurns
<1>3. \A error : Fails(w, error) => Failing(w)
  BY <1>1, FailsTurns
<1>4. \A pc, fresh : worker' = [worker EXCEPT ![w].pc = pc, ![w].fresh = fresh]
                       => Freshening(w, pc, fresh)
  BY <1>1, FreshTurns
<1>5. \A b : EndDispatch(w, b) => Ended(w)
  BY <1>1, EndTurns DEF EndDispatch
<1>6. AfterTransient(w) =>
        \/ Ended(w)
        \/ Turn(w, "giveUpDoc") /\ worker[w].receives >= MAX_RECEIVE_COUNT
  BY <1>2, <1>5 DEF AfterTransient
<1>7. LoadDocument(w) => Failing(w) \/ Loading(w)
  <2> DEFINE version == docs[DocOf(w)].version
             lineage == docs[DocOf(w)].lineage_id
  <2>1. LoadDocument(w) =>
          \/ Fails(w, "permanent")
          \/ worker' = [worker EXCEPT ![w].pc = "dedup", ![w].version = version,
                                      ![w].lineage_id = lineage]
    BY DEF LoadDocument
  <2>2. /\ version = docs[DocOf(w)].version
        /\ lineage = docs[DocOf(w)].lineage_id
    OBVIOUS
  <2> HIDE DEF version, lineage
  <2>3. ASSUME worker' = [worker EXCEPT ![w].pc = "dedup", ![w].version = version,
                                        ![w].lineage_id = lineage]
        PROVE  Loading(w)
    <3>1. /\ KeepsMessage(w)
          /\ worker'[w].pc = "dedup"
          /\ worker'[w].version = version
          /\ worker'[w].lineage_id = lineage
      BY <1>1, <2>3, LoadTurns
    <3> QED BY <2>2, <3>1 DEF Loading
  <2> QED BY <1>3, <2>1, <2>3
<1>8. Deduplicate(w) =>
        \/ Failing(w)
        \/ /\ files[DocOf(w)] # NoContent
           /\ Freshening(w, "upsert", ChunksOf[files[DocOf(w)]] \ SearchableHashes)
  BY <1>3, <1>4 DEF Deduplicate
<1>9. Upsert(w) => Freshening(w, "findPred", {})
  BY <1>4 DEF Upsert
<1>10. FindPredecessorToArchive(w) =>
         Turn(w, "readyJob") \/ Failing(w) \/ \E p \in Superseded(w) : Choosing(w, p)
  BY <1>1, <1>2, <1>3, PredTurns DEF FindPredecessorToArchive
<1>11. GuardedCallRaises(w) \/ RollbackVectors(w) => Failing(w)
  BY <1>3 DEF GuardedCallRaises, RollbackVectors
<1>12. FailDoc(w) => Turn(w, "giveUpDoc") \/ Ended(w)
  BY <1>2, <1>6 DEF FailDoc
<1>13. Ack(w) \/ Drop(w) \/ WorkerCrashes(w) => Ended(w)
  BY <1>1, <1>5, EndTurns DEF Ack, Drop, WorkerCrashes
<1>14. UnguardedCallRaises(w) =>
         \/ Turn(w, "giveUpDoc") /\ worker[w].receives >= MAX_RECEIVE_COUNT
         \/ Ended(w)
  BY <1>6 DEF UnguardedCallRaises
<1>15. /\ Claim(w) => Turn(w, "markDoc")
       /\ SkipClaimed(w) => Turn(w, "ack")
       /\ MarkDocumentProcessing(w) => Turn(w, "load")
       /\ DeletePredecessorVectors(w) => Turn(w, "archive")
       /\ ArchivePredecessor(w) => Turn(w, "readyJob")
       /\ ReadyJob(w) => Turn(w, "readyDoc")
       /\ ReadyDoc(w) => Turn(w, "ack")
       /\ FailJob(w) => Turn(w, "failDoc")
       /\ GiveUpDoc(w) => Turn(w, "giveUpJob")
       /\ GiveUpJob(w) => Turn(w, "drop")
       /\ PredecessorDeletionRaises(w) => Turn(w, "rollback")
       /\ GiveUpRaises(w) => Turn(w, "drop")
  BY <1>2 DEF Claim, SkipClaimed, MarkDocumentProcessing, DeletePredecessorVectors,
       ArchivePredecessor, ReadyJob, ReadyDoc, FailJob, GiveUpDoc, GiveUpJob,
       PredecessorDeletionRaises, GiveUpRaises
<1> QED BY <1>7, <1>8, <1>9, <1>10, <1>11, <1>12, <1>13, <1>14, <1>15

\* A reception hands the message over.
LEMMA ReceptionTurns ==
    ASSUME TypeOK, NEW w \in Workers, NEW m \in Messages, Receive(w, m)
    PROVE  /\ Alone(w)
           /\ worker'[w].pc = "claim"
           /\ worker'[w].msg = m
           /\ worker'[w].receives = Receptions(m)
<1> DEFINE n == Receptions(m)
           a == [Idle EXCEPT !.pc = "claim"]
           b == [a EXCEPT !.msg = m]
           c == [b EXCEPT !.receives = n]
<1>1. worker \in WorkerRecords /\ broker \in BrokerContents
  BY DEF TypeOK, WorkerTypeOK, WorkerRecords, StoreTypeOK, BrokerContents
<1>2. n \in 0..MAX_RECEIVE_COUNT
  BY <1>1, BrokerTransitions
<1>3. worker' = [worker EXCEPT ![w] = c]
  BY DEF Receive
<1>r. n = Receptions(m)
  OBVIOUS
<1> HIDE DEF n
<1>4. a \in WorkerRecord /\ a.pc = "claim"
  BY IdleTyped DEF WorkerRecord, WorkerState
<1> HIDE DEF a
<1>5. b \in WorkerRecord /\ b.pc = "claim" /\ b.msg = m
  BY <1>4 DEF WorkerRecord
<1> HIDE DEF b
<1>6. c \in WorkerRecord /\ c.pc = "claim" /\ c.msg = m /\ c.receives = n
  BY <1>2, <1>5 DEF WorkerRecord
<1> HIDE DEF c
<1> QED BY <1>1, <1>3, <1>6, <1>r DEF WorkerRecords, Alone

\* Messages stay sent, and a step sends no others than those of S.
Sends(S) ==
    \A m \in Messages :
       /\ broker[m].state # "unsent" => broker'[m].state # "unsent"
       /\ m \notin S /\ broker[m].state = "unsent" => broker'[m].state = "unsent"

\* A busy worker has a message that was sent.
HoldsMessage(w) ==
    worker[w].pc # "idle" => worker[w].msg \in Messages /\ broker[worker[w].msg].state # "unsent"

\* A send reaches one message of the broker.
LEMMA SendsOne ==
    ASSUME broker \in BrokerContents, NEW m \in Messages,
           broker' = Enqueued(m) \/ broker' \in EnqueuedDespiteError(m)
    PROVE  Sends({m}) /\ (~AmbiguousSend => broker' = Enqueued(m) \/ Sends({}))
<1> DEFINE new == [state |-> "visible", receives |-> 0]
<1>1. Enqueued(m) = broker \/ Enqueued(m) = [broker EXCEPT ![m] = new]
  BY DEF Enqueued
<1>2. broker' = broker \/ broker' = Enqueued(m)
  BY DEF EnqueuedDespiteError
<1>3. broker' = broker \/ broker' = [broker EXCEPT ![m] = new]
  BY <1>1, <1>2
<1>4. Sends({m})
  BY <1>3 DEF Sends, BrokerContents
<1>5. ~AmbiguousSend => broker' = Enqueued(m) \/ broker' = broker
  BY DEF EnqueuedDespiteError
<1>6. broker' = broker => Sends({})
  BY DEF Sends
<1> QED BY <1>4, <1>5, <1>6

\* The end of a dispatch sends nothing.
LEMMA ReleaseSilent ==
    ASSUME broker \in BrokerContents, NEW w \in Workers, worker[w].pc # "idle", HoldsMessage(w),
           NEW b \in {broker, Deleted(worker[w].msg)}, broker' = Released(b, w)
    PROVE  Sends({})
<1> DEFINE k == worker[w].msg
<1>1. k \in Messages /\ broker[k].state # "unsent"
  BY DEF HoldsMessage
<1>2. b = broker \/ b = [broker EXCEPT ![k].state = "gone"]
  BY DEF Deleted
<1>3. /\ b \in BrokerContents
      /\ \A m \in Messages : b[m].state = "unsent" <=> broker[m].state = "unsent"
  BY <1>1, <1>2 DEF BrokerContents, MessageState
<1>4. \/ broker' = b
      \/ b[k].state = "hidden" /\ broker' = [b EXCEPT ![k].state = "handled"]
  BY DEF Released
<1>5. \A m \in Messages : broker'[m].state = "unsent" <=> b[m].state = "unsent"
  <2> HIDE DEF k
  <2> QED BY <1>1, <1>3, <1>4 DEF BrokerContents, MessageState
<1> QED BY <1>3, <1>5 DEF Sends

\* Workers send nothing.
LEMMA WorkersSilent ==
    ASSUME TypeOK, NEW w \in Workers, HoldsMessage(w), WorkerProceeds(w) \/ WorkerFails(w)
    PROVE  Sends({})
<1>1. broker \in BrokerContents
  BY DEF TypeOK, StoreTypeOK, BrokerContents
<1>2. broker' = broker => Sends({})
  BY DEF Sends
<1>3. ASSUME NEW m \in Messages, Receive(w, m) PROVE Sends({})
  <2> DEFINE new == [state |-> "hidden", receives |-> Receptions(m)]
  <2>1. broker[m].state = "visible" /\ broker' = [broker EXCEPT ![m] = new]
    BY <1>3 DEF Receive, Received
  <2>2. new.state = "hidden"
    OBVIOUS
  <2> HIDE DEF new
  <2> QED BY <1>1, <2>1, <2>2 DEF Sends, BrokerContents
<1>4. ASSUME AfterTransient(w), worker[w].pc # "idle" PROVE Sends({})
  BY <1>1, <1>2, <1>4, ReleaseSilent DEF AfterTransient, EndDispatch
<1>5. Ack(w) \/ Drop(w) => Sends({})
  BY <1>1, ReleaseSilent DEF Ack, Drop, At, EndDispatch
<1>6. FailDoc(w) => Sends({})
  BY <1>2, <1>4 DEF FailDoc, At
<1>7. UnguardedCallRaises(w) => Sends({})
  BY <1>4 DEF UnguardedCallRaises, Unguarded
<1>8. Claim(w) \/ SkipClaimed(w) \/ MarkDocumentProcessing(w)
      \/ LoadDocument(w) \/ Deduplicate(w) \/ Upsert(w)
      \/ FindPredecessorToArchive(w) \/ DeletePredecessorVectors(w) \/ RollbackVectors(w)
      \/ ArchivePredecessor(w) => broker' = broker
  BY DEF Claim, SkipClaimed, MarkDocumentProcessing, LoadDocument, Deduplicate, Upsert,
         FindPredecessorToArchive, DeletePredecessorVectors, RollbackVectors,
         ArchivePredecessor
<1>9. ReadyJob(w) \/ ReadyDoc(w) \/ FailJob(w) \/ GiveUpDoc(w) \/ GiveUpJob(w)
      \/ PredecessorDeletionRaises(w) \/ GuardedCallRaises(w) \/ GiveUpRaises(w)
      \/ WorkerCrashes(w) => broker' = broker
  BY DEF ReadyJob, ReadyDoc, FailJob, GiveUpDoc, GiveUpJob, PredecessorDeletionRaises,
         GuardedCallRaises, GiveUpRaises, WorkerCrashes
<1> QED BY <1>2, <1>3, <1>5, <1>6, <1>7, <1>8, <1>9 DEF WorkerProceeds, WorkerFails

\* Nor does the broker itself.
LEMMA BrokerSilent ==
    ASSUME TypeOK, BrokerStep
    PROVE  Sends({}) /\ UNCHANGED <<docs, jobs, files, vectors, abandoned>>
<1>1. PICK m \in Messages : Redeliver(m) \/ CommitOffset(m)
  BY DEF BrokerStep
<1>2. \E s \in {"visible", "gone"} : /\ broker' = [broker EXCEPT ![m].state = s]
                                     /\ broker[m].state \in {"hidden", "handled"}
  BY <1>1 DEF Redeliver, CommitOffset
<1>3. broker \in BrokerContents
  BY DEF TypeOK, StoreTypeOK, BrokerContents
<1>4. Sends({})
  BY <1>2, <1>3 DEF Sends, BrokerContents
<1> QED BY <1>1, <1>4 DEF Redeliver, CommitOffset

-----------------------------------------------------------------------------
(* Requests and sweeps, field by field. *)

UploadTurn(d, pc) ==
    /\ \A e \in Docs \ {d} : uploads'[e] = uploads[e]
    /\ uploads'[d].pc = pc
    /\ uploads'[d].version = uploads[d].version
    /\ uploads'[d].lineage_id = uploads[d].lineage_id
    /\ uploads'[d].content = uploads[d].content

\* Goto changes only pc.
LEMMA GotoTurns ==
    ASSUME UploadTypeOK, NEW d \in Docs, NEW pc, Goto(d, pc)
    PROVE  UploadTurn(d, pc)
  BY DEF Goto, Upload, UploadTurn, UploadTypeOK

\* Starting an upload sets its content.
LEMMA StartTurns ==
    ASSUME UploadTypeOK, NEW d \in Docs, NEW c \in Contents, StartUpload(d, c)
    PROVE  /\ \A e \in Docs \ {d} : uploads'[e] = uploads[e]
           /\ uploads'[d].pc = "find"
           /\ uploads'[d].version = uploads[d].version
           /\ uploads'[d].lineage_id = uploads[d].lineage_id
           /\ uploads'[d].content = c
<1> DEFINE old == uploads[d]
           mid == [pc |-> "find", version |-> old.version, lineage_id |-> old.lineage_id,
                   content |-> old.content]
           new == [pc |-> "find", version |-> old.version, lineage_id |-> old.lineage_id,
                   content |-> c]
<1>1. old \in Upload
  BY DEF UploadTypeOK
<1>2. [old EXCEPT !.pc = "find"] = mid
  BY <1>1 DEF Upload
<1>3. [mid EXCEPT !.content = c] = new
  OBVIOUS
<1>4. uploads' = [uploads EXCEPT ![d] = [[old EXCEPT !.pc = "find"] EXCEPT !.content = c]]
  BY DEF StartUpload
<1>5. uploads' = [uploads EXCEPT ![d] = new]
  <2> HIDE DEF old, mid, new
  <2> QED BY <1>2, <1>3, <1>4
<1>6. uploads'[d] = new /\ \A e \in Docs \ {d} : uploads'[e] = uploads[e]
  <2> HIDE DEF new
  <2> QED BY <1>5 DEF UploadTypeOK
<1> QED BY <1>6

\* The new version is the first of its lineage, or the one after a ready document.
LEMMA FindTurns ==
    ASSUME TypeOK, NEW d \in Docs, FindPredecessor(d)
    PROVE  /\ \A e \in Docs \ {d} : uploads'[e] = uploads[e]
           /\ uploads'[d].pc = "put"
           /\ uploads'[d].content = uploads[d].content
           /\ \/ uploads'[d].version = 1 /\ uploads'[d].lineage_id = d
              \/ \E p \in Predecessors(uploads[d].content) :
                    /\ uploads'[d].version = docs[p].version + 1
                    /\ uploads'[d].lineage_id = docs[p].lineage_id
<1> DEFINE preds == Predecessors(uploads[d].content)
           p == Newest(preds)
           version == IF preds = {} THEN 1 ELSE docs[p].version + 1
           lineage == IF preds = {} THEN d ELSE docs[p].lineage_id
           old == uploads[d]
           mid == [pc |-> "put", version |-> old.version, lineage_id |-> old.lineage_id,
                   content |-> old.content]
           next == [pc |-> "put", version |-> version, lineage_id |-> old.lineage_id,
                    content |-> old.content]
           new == [pc |-> "put", version |-> version, lineage_id |-> lineage,
                   content |-> old.content]
<1>1. old \in Upload
  BY DEF TypeOK, UploadTypeOK
<1>2. [old EXCEPT !.pc = "put"] = mid
  BY <1>1 DEF Upload
<1>3. [mid EXCEPT !.version = version] = next /\ [next EXCEPT !.lineage_id = lineage] = new
  <2> HIDE DEF version, lineage
  <2> QED OBVIOUS
<1>4. uploads' = [uploads EXCEPT ![d].pc = "put", ![d].version = version, ![d].lineage_id = lineage]
  BY DEF FindPredecessor
<1>5. uploads' = [uploads EXCEPT ![d] = [[[old EXCEPT !.pc = "put"] EXCEPT !.version = version]
                                            EXCEPT !.lineage_id = lineage]]
  <2> HIDE DEF version, lineage
  <2> QED BY <1>4
<1>6. uploads' = [uploads EXCEPT ![d] = new]
  <2> HIDE DEF old, mid, next, new
  <2> QED BY <1>2, <1>3, <1>5
<1>7. uploads'[d] = new /\ \A e \in Docs \ {d} : uploads'[e] = uploads[e]
  <2> HIDE DEF new
  <2> QED BY <1>6 DEF TypeOK, UploadTypeOK
<1>8. preds \subseteq Docs
  BY DEF Predecessors
<1>9. preds # {} => p \in preds
  <2> HIDE DEF preds
  <2> QED BY <1>8, NewestIsMember
<1>10. \/ version = 1 /\ lineage = d
       \/ p \in preds /\ version = docs[p].version + 1 /\ lineage = docs[p].lineage_id
  <2> HIDE DEF preds, p
  <2> QED BY <1>9
<1>11. new.pc = "put" /\ new.version = version /\ new.lineage_id = lineage /\ new.content = old.content
  OBVIOUS
<1> HIDE DEF version, lineage, p, new
<1> QED BY <1>7, <1>10, <1>11

Request(r, pc, todo, current, queued) ==
    /\ \A s \in Reindexers \ {r} : reindex'[s] = reindex[s]
    /\ reindex'[r].pc = pc
    /\ reindex'[r].todo = todo
    /\ reindex'[r].current = current
    /\ reindex'[r].queued = queued

\* The request of a record written out.
LEMMA RequestWritten ==
    ASSUME TypeOK, NEW r \in Reindexers, NEW q, reindex' = [reindex EXCEPT ![r] = q]
    PROVE  Request(r, q.pc, q.todo, q.current, q.queued)
  BY DEF Request, TypeOK, AdminTypeOK

\* A step that only moves the request on.
LEMMA RequestAdvances ==
    ASSUME TypeOK, NEW r \in Reindexers, NEW pc, reindex' = [reindex EXCEPT ![r].pc = pc]
    PROVE  Request(r, pc, reindex[r].todo, reindex[r].current, reindex[r].queued)
<1> DEFINE old == reindex[r]
           q == [pc |-> pc, todo |-> old.todo, current |-> old.current, queued |-> old.queued]
<1>1. old \in ReindexRecord
  BY DEF TypeOK, AdminTypeOK, ReindexRecord
<1>2. [old EXCEPT !.pc = pc] = q
  BY <1>1, RequestMoved
<1>3. reindex' = [reindex EXCEPT ![r] = q]
  <2> HIDE DEF q
  <2> QED BY <1>2
<1>4. Request(r, q.pc, q.todo, q.current, q.queued)
  <2> HIDE DEF q
  <2> QED BY <1>3, RequestWritten
<1> QED BY <1>4

\* Sending takes the head off the queue.
LEMMA RequestSends ==
    ASSUME TypeOK, NEW r \in Reindexers, NEW q, reindex' = [reindex EXCEPT ![r].queued = q]
    PROVE  Request(r, reindex[r].pc, reindex[r].todo, reindex[r].current, q)
<1> DEFINE old == reindex[r]
           new == [pc |-> old.pc, todo |-> old.todo, current |-> old.current, queued |-> q]
<1>1. old \in ReindexRecord
  BY DEF TypeOK, AdminTypeOK, ReindexRecord
<1>2. [old EXCEPT !.queued = q] = new
  BY <1>1, RequestDequeues
<1>3. reindex' = [reindex EXCEPT ![r] = new]
  <2> HIDE DEF new
  <2> QED BY <1>2
<1>4. Request(r, new.pc, new.todo, new.current, new.queued)
  <2> HIDE DEF new
  <2> QED BY <1>3, RequestWritten
<1> QED BY <1>4

\* Failing a job takes it off the queue, too.
LEMMA RequestFailsOne ==
    ASSUME TypeOK, NEW r \in Reindexers, NEW q, NEW pc,
           reindex' = [reindex EXCEPT ![r].queued = q, ![r].pc = pc]
    PROVE  Request(r, pc, reindex[r].todo, reindex[r].current, q)
<1> DEFINE old == reindex[r]
           new == [pc |-> pc, todo |-> old.todo, current |-> old.current, queued |-> q]
<1>1. old \in ReindexRecord
  BY DEF TypeOK, AdminTypeOK, ReindexRecord
<1>2. [old EXCEPT !.queued = q, !.pc = pc] = new
  BY <1>1, RequestDequeuesAndMoves
<1>3. reindex' = [reindex EXCEPT ![r] = [old EXCEPT !.queued = q, !.pc = pc]]
  OBVIOUS
<1>4. reindex' = [reindex EXCEPT ![r] = new]
  <2> HIDE DEF new, old
  <2> QED BY <1>2, <1>3
<1>5. Request(r, new.pc, new.todo, new.current, new.queued)
  <2> HIDE DEF new
  <2> QED BY <1>4, RequestWritten
<1> QED BY <1>5

\* Finding the ready documents sets the list.
LEMMA RequestLists ==
    ASSUME TypeOK, NEW r \in Reindexers, NEW todo, NEW pc,
           reindex' = [reindex EXCEPT ![r].todo = todo, ![r].pc = pc]
    PROVE  Request(r, pc, todo, reindex[r].current, reindex[r].queued)
<1> DEFINE old == reindex[r]
           new == [pc |-> pc, todo |-> todo, current |-> old.current, queued |-> old.queued]
<1>1. old \in ReindexRecord
  BY DEF TypeOK, AdminTypeOK, ReindexRecord
<1>2. [old EXCEPT !.todo = todo, !.pc = pc] = new
  BY <1>1, RequestFinds
<1>3. reindex' = [reindex EXCEPT ![r] = [old EXCEPT !.todo = todo, !.pc = pc]]
  OBVIOUS
<1>4. reindex' = [reindex EXCEPT ![r] = new]
  <2> HIDE DEF new, old
  <2> QED BY <1>2, <1>3
<1>5. Request(r, new.pc, new.todo, new.current, new.queued)
  <2> HIDE DEF new
  <2> QED BY <1>4, RequestWritten
<1> QED BY <1>5

\* A job is inserted for a document of the list.
LEMMA RequestInserts ==
    ASSUME TypeOK, NEW r \in Reindexers, NEW left, NEW cur,
           reindex' = [reindex EXCEPT ![r].todo = left, ![r].current = cur, ![r].pc = "pointDoc"]
    PROVE  Request(r, "pointDoc", left, cur, reindex[r].queued)
<1> DEFINE old == reindex[r]
           q1 == [pc |-> old.pc, todo |-> left, current |-> old.current, queued |-> old.queued]
           q2 == [pc |-> old.pc, todo |-> left, current |-> cur, queued |-> old.queued]
           new == [pc |-> "pointDoc", todo |-> left, current |-> cur, queued |-> old.queued]
<1>1. old \in ReindexRecord
  BY DEF TypeOK, AdminTypeOK, ReindexRecord
<1>2. [old EXCEPT !.todo = left] = q1
  BY <1>1 DEF ReindexRecord
<1>3. [q1 EXCEPT !.current = cur] = q2 /\ [q2 EXCEPT !.pc = "pointDoc"] = new
  OBVIOUS
<1>4. reindex' = [reindex EXCEPT ![r] = [[[old EXCEPT !.todo = left] EXCEPT !.current = cur]
                                            EXCEPT !.pc = "pointDoc"]]
  OBVIOUS
<1>5. reindex' = [reindex EXCEPT ![r] = new]
  <2> HIDE DEF old, q1, q2, new
  <2> QED BY <1>2, <1>3, <1>4
<1>6. Request(r, new.pc, new.todo, new.current, new.queued)
  <2> HIDE DEF new
  <2> QED BY <1>5, RequestWritten
<1> QED BY <1>6

\* The document of the new job is put in the queue.
LEMMA RequestQueues ==
    ASSUME TypeOK, NEW r \in Reindexers, NEW longer, NEW none, NEW pc,
           reindex' = [reindex EXCEPT ![r].queued = longer, ![r].current = none, ![r].pc = pc]
    PROVE  Request(r, pc, reindex[r].todo, none, longer)
<1> DEFINE old == reindex[r]
           q1 == [pc |-> old.pc, todo |-> old.todo, current |-> old.current, queued |-> longer]
           q2 == [pc |-> old.pc, todo |-> old.todo, current |-> none, queued |-> longer]
           new == [pc |-> pc, todo |-> old.todo, current |-> none, queued |-> longer]
<1>1. old \in ReindexRecord
  BY DEF TypeOK, AdminTypeOK, ReindexRecord
<1>2. [old EXCEPT !.queued = longer] = q1
  BY <1>1, RequestDequeues
<1>3. [q1 EXCEPT !.current = none] = q2 /\ [q2 EXCEPT !.pc = pc] = new
  OBVIOUS
<1>4. reindex' = [reindex EXCEPT ![r] = [[[old EXCEPT !.queued = longer] EXCEPT !.current = none]
                                            EXCEPT !.pc = pc]]
  OBVIOUS
<1>5. reindex' = [reindex EXCEPT ![r] = new]
  <2> HIDE DEF old, q1, q2, new
  <2> QED BY <1>2, <1>3, <1>4
<1>6. Request(r, new.pc, new.todo, new.current, new.queued)
  <2> HIDE DEF new
  <2> QED BY <1>5, RequestWritten
<1> QED BY <1>6

\* What every step of a reindex request does to it.
LEMMA RequestTurns ==
    ASSUME TypeOK, NEW r \in Reindexers
    PROVE  LET q == reindex[r]
               ready == {d \in Docs : docs[d].status = "ready" /\ ~Archived(d)}
           IN
           /\ StartReindex(r) => Request(r, "wipe", q.todo, q.current, q.queued)
           /\ WipeNamespace(r) => Request(r, "find", q.todo, q.current, q.queued)
           /\ FindReady(r) => Request(r, NextStep(ready), ready, q.current, q.queued)
           /\ InsertReindexJob(r) =>
                 \E d \in q.todo, j \in Jobs \ Docs :
                    /\ jobs[j].status = "absent"
                    /\ jobs' = InsertJob(j, d)
                    /\ Request(r, "pointDoc", q.todo \ {d}, <<d, j>>, q.queued)
           /\ PointDocument(r) =>
                 Request(r, NextStep(q.todo), q.todo, <<None, None>>, Append(q.queued, q.current))
           /\ SendReindexMessage(r) => Request(r, "send", q.todo, q.current, Tail(q.queued))
           /\ FinishReindex(r) => Request(r, "done", q.todo, q.current, q.queued)
           /\ ReindexSendRaises(r) => Request(r, "failDoc", q.todo, q.current, q.queued)
           /\ FailReindexDocument(r) => Request(r, "failJob", q.todo, q.current, q.queued)
           /\ FailReindexJob(r) =>
                 Request(r, IF Tail(q.queued) = <<>> THEN "aborted" ELSE "failDoc", q.todo,
                         q.current, Tail(q.queued))
           /\ ReindexFails(r) => Request(r, "aborted", {}, <<None, None>>, <<>>)
<1> DEFINE q == reindex[r]
           ready == {d \in Docs : docs[d].status = "ready" /\ ~Archived(d)}
<1>1. StartReindex(r) => Request(r, "wipe", q.todo, q.current, q.queued)
  BY RequestAdvances DEF StartReindex
<1>2. WipeNamespace(r) => Request(r, "find", q.todo, q.current, q.queued)
  BY RequestAdvances DEF WipeNamespace
<1>3. ASSUME FindReady(r) PROVE Request(r, NextStep(ready), ready, q.current, q.queued)
  <2>1. reindex' = [reindex EXCEPT ![r].todo = ready, ![r].pc = NextStep(ready)]
    BY <1>3 DEF FindReady
  <2> HIDE DEF ready
  <2> QED BY <2>1, RequestLists
<1>4. ASSUME InsertReindexJob(r)
      PROVE  \E d \in q.todo, j \in Jobs \ Docs :
                /\ jobs[j].status = "absent"
                /\ jobs' = InsertJob(j, d)
                /\ Request(r, "pointDoc", q.todo \ {d}, <<d, j>>, q.queued)
  <2>1. PICK d \in q.todo, j \in Jobs \ Docs :
          /\ jobs[j].status = "absent"
          /\ jobs' = InsertJob(j, d)
          /\ reindex' = [reindex EXCEPT ![r].todo = @ \ {d}, ![r].current = <<d, j>>,
                                        ![r].pc = "pointDoc"]
    BY <1>4 DEF InsertReindexJob
  <2> DEFINE left == q.todo \ {d}
             cur == <<d, j>>
  <2>2. reindex' = [reindex EXCEPT ![r].todo = left, ![r].current = cur, ![r].pc = "pointDoc"]
    BY <2>1
  <2>3. Request(r, "pointDoc", left, cur, q.queued)
    <3> HIDE DEF left, cur
    <3> QED BY <2>2, RequestInserts
  <2> QED BY <2>1, <2>3
<1>5. ASSUME PointDocument(r)
      PROVE  Request(r, NextStep(q.todo), q.todo, <<None, None>>, Append(q.queued, q.current))
  <2> DEFINE longer == Append(q.queued, q.current)
             none == <<None, None>>
             next == NextStep(q.todo)
  <2>1. reindex' = [reindex EXCEPT ![r].queued = longer, ![r].current = none, ![r].pc = next]
    BY <1>5 DEF PointDocument
  <2>2. Request(r, next, q.todo, none, longer)
    <3> HIDE DEF longer, none, next
    <3> QED BY <2>1, RequestQueues
  <2> QED BY <2>2
<1>6. ASSUME SendReindexMessage(r) PROVE Request(r, "send", q.todo, q.current, Tail(q.queued))
  <2> DEFINE rest == Tail(q.queued)
  <2>1. reindex' = [reindex EXCEPT ![r].queued = rest] /\ q.pc = "send"
    BY <1>6 DEF SendReindexMessage, ReindexAt
  <2>2. Request(r, q.pc, q.todo, q.current, rest)
    <3> HIDE DEF rest
    <3> QED BY <2>1, RequestSends
  <2> QED BY <2>1, <2>2
<1>7. FinishReindex(r) => Request(r, "done", q.todo, q.current, q.queued)
  BY RequestAdvances DEF FinishReindex
<1>8. ReindexSendRaises(r) => Request(r, "failDoc", q.todo, q.current, q.queued)
  BY RequestAdvances DEF ReindexSendRaises
<1>9. FailReindexDocument(r) => Request(r, "failJob", q.todo, q.current, q.queued)
  BY RequestAdvances DEF FailReindexDocument
<1>10. ASSUME FailReindexJob(r)
       PROVE  Request(r, IF Tail(q.queued) = <<>> THEN "aborted" ELSE "failDoc", q.todo,
                      q.current, Tail(q.queued))
  <2> DEFINE rest == Tail(q.queued)
             next == IF Tail(q.queued) = <<>> THEN "aborted" ELSE "failDoc"
  <2>1. reindex' = [reindex EXCEPT ![r].queued = rest, ![r].pc = next]
    BY <1>10 DEF FailReindexJob
  <2>2. Request(r, next, q.todo, q.current, rest)
    <3> HIDE DEF rest, next
    <3> QED BY <2>1, RequestFailsOne
  <2> QED BY <2>2
<1>11. ASSUME ReindexFails(r) PROVE Request(r, "aborted", {}, <<None, None>>, <<>>)
  <2> DEFINE new == [NoReindex EXCEPT !.pc = "aborted"]
  <2>1. reindex' = [reindex EXCEPT ![r] = new]
    BY <1>11 DEF ReindexFails
  <2>2. new.pc = "aborted" /\ new.todo = {} /\ new.current = <<None, None>> /\ new.queued = <<>>
    BY DEF NoReindex
  <2>3. Request(r, new.pc, new.todo, new.current, new.queued)
    <3> HIDE DEF new
    <3> QED BY <2>1, RequestWritten
  <2> HIDE DEF new
  <2> QED BY <2>2, <2>3
<1> HIDE DEF ready
<1> QED BY <1>1, <1>2, <1>3, <1>4, <1>5, <1>6, <1>7, <1>8, <1>9, <1>10, <1>11 DEF ready

SweepTurn(s, pc, todo, current) ==
    /\ \A t \in Sweeps \ {s} : sweeps'[t] = sweeps[t]
    /\ sweeps'[s].pc = pc
    /\ sweeps'[s].todo = todo
    /\ sweeps'[s].current = current

\* A step that only moves the sweep on.
LEMMA SweepAdvances ==
    ASSUME SweepTypeOK, NEW s \in Sweeps, NEW pc, sweeps' = [sweeps EXCEPT ![s].pc = pc]
    PROVE  SweepTurn(s, pc, sweeps[s].todo, sweeps[s].current)
  BY DEF SweepTypeOK, SweepTurn

\* What every step of a sweep does to it.
LEMMA SweepTurns ==
    ASSUME TypeOK, NEW s \in Sweeps
    PROVE  LET q == sweeps[s] IN
           /\ ReadFailedJobs(s) => SweepTurn(s, "find", Retriable, None)
           /\ FindSweptDocument(s) =>
                 \E j \in q.todo, pc \in {"send", "find"} : SweepTurn(s, pc, q.todo \ {j}, j)
           /\ SendSweptMessage(s) => SweepTurn(s, "count", q.todo, q.current)
           /\ CountRetry(s) => SweepTurn(s, "find", q.todo, q.current)
           /\ FinishSweep(s) \/ SweepFails(s) => SweepTurn(s, "done", q.todo, q.current)
<1> DEFINE q == sweeps[s]
<1>1. SweepTypeOK /\ sweeps \in SweepRecords
  BY DEF TypeOK, SweepTypeOK, SweepRecords
<1>2. ReadFailedJobs(s) => SweepTurn(s, "find", Retriable, None)
  BY <1>1 DEF ReadFailedJobs, SweepTurn, SweepRecords
<1>3. ASSUME FindSweptDocument(s)
      PROVE  \E j \in q.todo, pc \in {"send", "find"} : SweepTurn(s, pc, q.todo \ {j}, j)
  <2>1. PICK j \in q.todo :
          sweeps' = [sweeps EXCEPT
                       ![s].todo = @ \ {j},
                       ![s].current = j,
                       ![s].pc = IF Exists(docs[jobs[j].document_id]) THEN "send" ELSE "find"]
    BY <1>3 DEF FindSweptDocument
  <2> DEFINE pc == IF Exists(docs[jobs[j].document_id]) THEN "send" ELSE "find"
             left == q.todo \ {j}
             q1 == [pc |-> q.pc, todo |-> left, current |-> q.current]
             q2 == [pc |-> q.pc, todo |-> left, current |-> j]
             new == [pc |-> pc, todo |-> left, current |-> j]
  <2>2. sweeps' = [sweeps EXCEPT ![s].todo = left, ![s].current = j, ![s].pc = pc]
    BY <2>1
  <2>3. pc \in {"send", "find"}
    OBVIOUS
  <2> HIDE DEF pc, left
  <2>4. [q EXCEPT !.todo = left] = q1
    BY <1>1 DEF SweepRecords
  <2>5. [q1 EXCEPT !.current = j] = q2 /\ [q2 EXCEPT !.pc = pc] = new
    OBVIOUS
  <2>6. sweeps' = [sweeps EXCEPT ![s] = [[[q EXCEPT !.todo = left] EXCEPT !.current = j]
                                            EXCEPT !.pc = pc]]
    BY <2>2
  <2>7. sweeps' = [sweeps EXCEPT ![s] = new]
    <3> HIDE DEF q, q1, q2, new
    <3> QED BY <2>4, <2>5, <2>6
  <2>8. SweepTurn(s, pc, left, j)
    BY <1>1, <2>7 DEF SweepRecords, SweepTurn
  <2>9. left = q.todo \ {j}
    BY DEF left
  <2> QED BY <2>3, <2>8, <2>9
<1>4. SendSweptMessage(s) => SweepTurn(s, "count", q.todo, q.current)
  BY <1>1, SweepAdvances DEF SendSweptMessage
<1>5. CountRetry(s) => SweepTurn(s, "find", q.todo, q.current)
  BY <1>1, SweepAdvances DEF CountRetry
<1>6. FinishSweep(s) \/ SweepFails(s) => SweepTurn(s, "done", q.todo, q.current)
  BY <1>1, SweepAdvances DEF FinishSweep, SweepFails
<1> QED BY <1>2, <1>3, <1>4, <1>5, <1>6

Inserted(d) == docs[d].status # "absent"
Known(j) == jobs[j].status # "absent"

\* Where an upload has, or has not, inserted its document and its job.
BeforeDoc == {"off", "find", "put", "insertDoc", "undoFile"}
AfterDoc == {"insertJob", "send", "accepted", "undoJobFile", "undoDoc", "failDoc", "failJob"}
BeforeJob == BeforeDoc \cup {"insertJob", "undoJobFile", "undoDoc"}
AfterJob == {"send", "accepted", "failDoc", "failJob"}

UploadStage(d) ==
    /\ uploads[d].pc \in BeforeDoc => ~Inserted(d)
    /\ uploads[d].pc \in AfterDoc => Inserted(d)
    /\ uploads[d].pc \in BeforeJob => ~Known(d)
    /\ uploads[d].pc \in AfterJob => Known(d)

\* Reindexing created job j for document d.
Renewed(d, j) ==
    d \in Docs /\ j \in Jobs \ Docs /\ Known(j) /\ jobs[j].document_id = d

\* The record of document d is what its upload inserted, but for the status, the job
\* and the successor.
RecordOf(d) ==
    /\ Inserted(d) =>
         /\ docs[d].version = uploads[d].version
         /\ docs[d].lineage_id = uploads[d].lineage_id
         /\ docs[d].content_hash = uploads[d].content
         /\ docs[d].job_id = d \/ Renewed(d, docs[d].job_id)
    /\ ~Inserted(d) => docs[d].superseded_by = None

\* A job is about a document that was inserted, and an upload's job about its own.
JobRecord(j) ==
    Known(j) =>
      /\ jobs[j].document_id \in Docs
      /\ Inserted(jobs[j].document_id)
      /\ j \in Docs => jobs[j].document_id = j

ReindexKnown(r) ==
    /\ \A d \in reindex[r].todo : Inserted(d)
    /\ reindex[r].pc = "pointDoc" => Renewed(reindex[r].current[1], reindex[r].current[2])
    /\ reindex[r].pc # "pointDoc" => reindex[r].current = <<None, None>>
    /\ \A p \in ToSet(reindex[r].queued) : Renewed(p[1], p[2])

SweepKnown(s) ==
    /\ \A j \in sweeps[s].todo : Known(j)
    /\ sweeps[s].pc \in {"send", "count"} => sweeps[s].current \in Jobs /\ Known(sweeps[s].current)

\* Documents, jobs, messages and those who know them fit together.
Registered ==
    /\ \A d \in Docs : UploadStage(d) /\ RecordOf(d)
    /\ \A j \in Jobs : JobRecord(j)
    /\ \A r \in Reindexers : ReindexKnown(r)
    /\ \A s \in Sweeps : SweepKnown(s)
    /\ \A m \in Messages : broker[m].state # "unsent" => Known(m[1])
    /\ \A w \in Workers : HoldsMessage(w)

-----------------------------------------------------------------------------
(* Records are written once: what a step leaves of them. *)

KeepsRecord(d) ==
    Inserted(d) =>
      /\ Inserted(d)'
      /\ docs'[d].version = docs[d].version
      /\ docs'[d].lineage_id = docs[d].lineage_id
      /\ docs'[d].content_hash = docs[d].content_hash
      /\ docs'[d].job_id = docs[d].job_id \/ Renewed(d, docs[d].job_id)'

\* Only the documents of D may be inserted.
DocsPersist(D) ==
    \A d \in Docs : KeepsRecord(d) /\ (d \notin D /\ ~Inserted(d) => docs'[d] = docs[d])

\* Only the jobs of J may be inserted.
JobsPersist(J) ==
    \A j \in Jobs :
       /\ Known(j) => Known(j)' /\ jobs'[j].document_id = jobs[j].document_id
       /\ j \notin J /\ ~Known(j) => ~Known(j)'

\* No step forgets a document, a job or a message.
Persists == DocsPersist(Docs) /\ JobsPersist(Jobs) /\ Sends(Messages)

\* What persists beyond a few records persists.
LEMMA PersistenceGrows ==
    /\ \A D \in SUBSET Docs : DocsPersist(D) => DocsPersist(Docs)
    /\ \A J \in SUBSET Jobs : JobsPersist(J) => JobsPersist(Jobs)
    /\ \A S : Sends(S) => Sends(Messages)
  BY DEF DocsPersist, JobsPersist, Sends

\* What those who take no part in a step know stays true.
LEMMA PersistenceKeeps ==
    ASSUME TypeOK, Registered, NEW D, NEW J, NEW S,
           DocsPersist(D), JobsPersist(J), Sends(S),
           \A m \in Messages \cap S : Known(m[1])
    PROVE  /\ \A m \in Messages : broker'[m].state # "unsent" => Known(m[1])'
           /\ \A w \in Workers : worker'[w] = worker[w] => HoldsMessage(w)'
           /\ \A s \in Sweeps : sweeps'[s] = sweeps[s] => SweepKnown(s)'
           /\ \A r \in Reindexers : reindex'[r] = reindex[r] => ReindexKnown(r)'
           /\ \A d \in Docs \ D :
                 /\ uploads'[d].version = uploads[d].version
                 /\ uploads'[d].lineage_id = uploads[d].lineage_id
                 /\ uploads'[d].content = uploads[d].content
                 => RecordOf(d)'
           /\ \A d \in Docs \ (D \cup J) : uploads'[d].pc = uploads[d].pc => UploadStage(d)'
           /\ \A j \in Jobs \ J : JobRecord(j)'
<1>y. /\ docs \in [Docs -> Document] /\ jobs \in [Jobs -> Job]
      /\ \A r \in Reindexers : reindex[r].todo \subseteq Docs
      /\ \A r \in Reindexers : reindex[r].queued \in Seq(Docs \X Jobs)
      /\ \A s \in Sweeps : sweeps[s].todo \subseteq Jobs
  BY DEF TypeOK, StoreTypeOK, AdminTypeOK, SweepTypeOK
<1>d. \A d \in Docs : Inserted(d) => Inserted(d)'
  BY DEF DocsPersist, KeepsRecord
<1>k. \A j \in Jobs : Known(j) => Known(j)' /\ jobs'[j].document_id = jobs[j].document_id
  BY DEF JobsPersist
<1>r. \A d, j : Renewed(d, j) => Renewed(d, j)'
  BY <1>k DEF Renewed
<1>1. ASSUME NEW m \in Messages, broker'[m].state # "unsent" PROVE Known(m[1])'
  <2>1. m[1] \in Jobs
    BY DEF Messages
  <2>2. Known(m[1])
    BY <1>1 DEF Sends, Registered
  <2> QED BY <1>k, <2>1, <2>2
<1>2. ASSUME NEW w \in Workers, worker'[w] = worker[w] PROVE HoldsMessage(w)'
  BY <1>2 DEF HoldsMessage, Registered, Sends
<1>3. ASSUME NEW s \in Sweeps, sweeps'[s] = sweeps[s] PROVE SweepKnown(s)'
  <2>1. SweepKnown(s)
    BY DEF Registered
  <2> QED BY <1>3, <1>y, <1>k, <2>1 DEF SweepKnown
<1>4. ASSUME NEW r \in Reindexers, reindex'[r] = reindex[r] PROVE ReindexKnown(r)'
  <2>1. ReindexKnown(r)
    BY DEF Registered
  <2>2. \A d \in reindex'[r].todo : Inserted(d)'
    BY <1>4, <1>y, <1>d, <2>1 DEF ReindexKnown
  <2>3. reindex'[r].pc = "pointDoc" => Renewed(reindex[r].current[1], reindex[r].current[2])'
    BY <1>4, <1>r, <2>1 DEF ReindexKnown, Renewed
  <2>4. \A p \in ToSet(reindex'[r].queued) : Renewed(p[1], p[2])'
    BY <1>4, <1>r, <2>1 DEF ReindexKnown
  <2> QED BY <1>4, <2>1, <2>2, <2>3, <2>4 DEF ReindexKnown
<1>5. ASSUME NEW d \in Docs \ D,
             uploads'[d].version = uploads[d].version,
             uploads'[d].lineage_id = uploads[d].lineage_id,
             uploads'[d].content = uploads[d].content
      PROVE  RecordOf(d)'
  <2>1. RecordOf(d) /\ KeepsRecord(d) /\ (~Inserted(d) => docs'[d] = docs[d])
    BY DEF Registered, DocsPersist
  <2>2. CASE Inserted(d)
    <3>1. docs'[d].job_id = d \/ Renewed(d, docs[d].job_id)'
      <4>1. CASE docs'[d].job_id = docs[d].job_id
        BY <1>r, <2>1, <2>2, <4>1 DEF RecordOf, Renewed
      <4>2. CASE Renewed(d, docs[d].job_id)'
        BY <4>2
      <4> QED BY <2>1, <2>2, <4>1, <4>2 DEF KeepsRecord
    <3> QED BY <1>5, <2>1, <2>2, <3>1 DEF RecordOf, KeepsRecord
  <2>3. CASE ~Inserted(d)
    BY <2>1, <2>3 DEF RecordOf, Inserted
  <2> QED BY <2>2, <2>3
<1>6. ASSUME NEW d \in Docs \ (D \cup J), uploads'[d].pc = uploads[d].pc PROVE UploadStage(d)'
  <2>1. UploadStage(d) /\ d \in Jobs
    BY BoundsAssumption DEF Registered, Docs, Jobs
  <2>2. Inserted(d)' <=> Inserted(d)
    BY <1>d DEF DocsPersist, Inserted
  <2>3. Known(d)' <=> Known(d)
    BY <1>k, <2>1 DEF JobsPersist
  <2> QED BY <1>6, <2>1, <2>2, <2>3 DEF UploadStage
<1>7. ASSUME NEW j \in Jobs \ J PROVE JobRecord(j)'
  <2>1. JobRecord(j) /\ (Known(j)' => Known(j))
    BY DEF Registered, JobsPersist
  <2> QED BY <1>d, <1>k, <2>1 DEF JobRecord
<1> QED BY <1>1, <1>2, <1>3, <1>4, <1>5, <1>6, <1>7

\* An update of a status inserts and forgets nothing.
LEMMA StatusPersists ==
    ASSUME TypeOK
    PROVE  /\ \A d, s : s # "absent" /\ docs' = SetDocStatus(d, s) => DocsPersist({})
           /\ \A j, s : s # "absent" /\ jobs' = SetJobStatus(j, s) => JobsPersist({})
           /\ docs' = docs => \A D : DocsPersist(D)
           /\ jobs' = jobs => \A J : JobsPersist(J)
<1>y. docs \in [Docs -> Document] /\ jobs \in [Jobs -> Job]
  BY DEF TypeOK, StoreTypeOK
<1>1. ASSUME NEW d, NEW s, s # "absent", docs' = SetDocStatus(d, s) PROVE DocsPersist({})
  <2>1. docs' = docs \/ (Exists(docs[d]) /\ docs' = [docs EXCEPT ![d].status = s])
    BY <1>1 DEF SetDocStatus
  <2>2. \A e \in Docs : docs'[e] = docs[e] \/ (e = d /\ Exists(docs[d]) /\ docs'[e] = [docs[d] EXCEPT !.status = s])
    BY <1>y, <2>1
  <2>3. \A e \in Docs : docs[e] \in Document
    BY <1>y
  <2> QED BY <1>1, <2>2, <2>3 DEF DocsPersist, KeepsRecord, Inserted, Document, Exists
<1>2. ASSUME NEW j, NEW s, s # "absent", jobs' = SetJobStatus(j, s) PROVE JobsPersist({})
  <2>1. jobs' = jobs \/ (Exists(jobs[j]) /\ jobs' = [jobs EXCEPT ![j].status = s])
    BY <1>2 DEF SetJobStatus
  <2>2. \A i \in Jobs : jobs'[i] = jobs[i] \/ (i = j /\ Exists(jobs[j]) /\ jobs'[i] = [jobs[j] EXCEPT !.status = s])
    BY <1>y, <2>1
  <2>3. \A i \in Jobs : jobs[i] \in Job
    BY <1>y
  <2> QED BY <1>2, <2>2, <2>3 DEF JobsPersist, Known, Job, Exists
<1>3. docs' = docs => \A D : DocsPersist(D)
  BY DEF DocsPersist, KeepsRecord, Inserted
<1>4. jobs' = jobs => \A J : JobsPersist(J)
  BY DEF JobsPersist, Known
<1> QED BY <1>1, <1>2, <1>3, <1>4

\* Which documents and jobs the steps of each process may insert.
LEMMA WorkersPersist ==
    ASSUME TypeOK, NEW w \in Workers, WorkerProceeds(w) \/ WorkerFails(w)
    PROVE  DocsPersist({}) /\ JobsPersist({})
<1>y. docs \in [Docs -> Document] /\ jobs \in [Jobs -> Job]
  BY DEF TypeOK, StoreTypeOK
<1>1. ASSUME ArchivePredecessor(w) PROVE DocsPersist({}) /\ JobsPersist({})
  <2> DEFINE p == worker[w].pred
  <2>1. docs' = docs \/ (Exists(docs[p]) /\ docs' = [docs EXCEPT ![p].superseded_by = DocOf(w)])
    BY <1>1 DEF ArchivePredecessor
  <2> HIDE DEF p
  <2>2. \A e \in Docs : docs'[e] = docs[e]
          \/ (Exists(docs[e]) /\ docs'[e] = [docs[e] EXCEPT !.superseded_by = DocOf(w)])
    BY <1>y, <2>1
  <2>3. \A e \in Docs : docs[e] \in Document
    BY <1>y
  <2>4. DocsPersist({})
    BY <2>2, <2>3 DEF DocsPersist, KeepsRecord, Inserted, Document, Exists
  <2> QED BY <1>1, <2>4, StatusPersists DEF ArchivePredecessor
<1>2. ASSUME Claim(w) PROVE DocsPersist({}) /\ JobsPersist({})
  <2> DEFINE j == JobOf(w)
  <2>1. jobs[j].status = "queued" /\ jobs' = [jobs EXCEPT ![j].status = "processing"]
    BY <1>2 DEF Claim, Claimable
  <2>2. Exists(jobs[j])
    BY <2>1 DEF Exists
  <2>3. jobs' = SetJobStatus(j, "processing")
    BY <2>1, <2>2 DEF SetJobStatus
  <2> QED BY <1>2, <2>3, StatusPersists DEF Claim
<1>3. ASSUME FailJob(w) PROVE DocsPersist({}) /\ JobsPersist({})
  <2> DEFINE j == JobOf(w)
             failed == SetJobStatus(j, "failed")
  <2>1. jobs' = failed \/ jobs' = [failed EXCEPT ![j].error_type = worker[w].error]
    BY <1>3 DEF FailJob
  <2>2. \A i \in Jobs : /\ failed[i].document_id = jobs[i].document_id
                        /\ failed[i].status = "absent" <=> jobs[i].status = "absent"
                        /\ failed[i] \in Job
    BY <1>y DEF SetJobStatus, Job, Status, Exists
  <2>3. failed \in [Jobs -> Job]
    BY <1>y DEF SetJobStatus, Job, Status
  <2>4. \A i \in Jobs : jobs'[i] = failed[i]
                        \/ jobs'[i] = [failed[i] EXCEPT !.error_type = worker[w].error]
    <3> HIDE DEF j, failed
    <3> QED BY <2>1, <2>3
  <2>5. JobsPersist({})
    <3> HIDE DEF j, failed
    <3> QED BY <2>2, <2>4 DEF JobsPersist, Known, Job
  <2> QED BY <1>3, <2>5, StatusPersists DEF FailJob
<1>4. MarkDocumentProcessing(w) \/ ReadyDoc(w) \/ FailDoc(w) \/ GiveUpDoc(w)
        => DocsPersist({}) /\ JobsPersist({})
  BY StatusPersists DEF MarkDocumentProcessing, ReadyDoc, FailDoc, GiveUpDoc
<1>5. ReadyJob(w) \/ GiveUpJob(w) => DocsPersist({}) /\ JobsPersist({})
  BY StatusPersists DEF ReadyJob, GiveUpJob
<1>6. \/ \E m \in Messages : Receive(w, m)
      \/ SkipClaimed(w) \/ LoadDocument(w) \/ Deduplicate(w) \/ Upsert(w)
      \/ FindPredecessorToArchive(w) \/ DeletePredecessorVectors(w) \/ RollbackVectors(w)
      \/ Ack(w) \/ Drop(w)
      => docs' = docs /\ jobs' = jobs
  BY DEF Receive, SkipClaimed, LoadDocument, Deduplicate, Upsert, FindPredecessorToArchive,
         DeletePredecessorVectors, RollbackVectors, Ack, Drop
<1>7. WorkerFails(w) => docs' = docs /\ jobs' = jobs
  BY DEF WorkerFails, PredecessorDeletionRaises, GuardedCallRaises, UnguardedCallRaises,
         GiveUpRaises, WorkerCrashes
<1> QED BY <1>1, <1>2, <1>3, <1>4, <1>5, <1>6, <1>7, StatusPersists DEF WorkerProceeds

\* Deletion erases no record, it marks them deleted, and sends nothing.
LEMMA DeletionsPersist ==
    ASSUME TypeOK, NEW d \in Deletable,
           \/ StartDeletion(d) \/ DeleteVectors(d) \/ DeleteJobs(d) \/ DeleteDocument(d)
           \/ DeletionFails(d)
    PROVE  DocsPersist({}) /\ JobsPersist({}) /\ Sends({})
<1>y. jobs \in [Jobs -> Job]
  BY DEF TypeOK, StoreTypeOK
<1>1. ASSUME DeleteJobs(d) PROVE DocsPersist({}) /\ JobsPersist({}) /\ Sends({})
  <2>1. \A j \in Jobs : jobs'[j] = jobs[j]
          \/ (Exists(jobs[j]) /\ jobs'[j] = [jobs[j] EXCEPT !.status = "deleted"])
    BY <1>1 DEF DeleteJobs, JobsOf
  <2>2. \A j \in Jobs : jobs[j] \in Job
    BY <1>y
  <2>3. JobsPersist({})
    BY <2>1, <2>2 DEF JobsPersist, Known, Job, Exists
  <2> QED BY <1>1, <2>3, StatusPersists DEF DeleteJobs, Sends
<1>2. DeleteDocument(d) => DocsPersist({}) /\ JobsPersist({}) /\ Sends({})
  BY StatusPersists DEF DeleteDocument, Sends
<1>3. StartDeletion(d) \/ DeleteVectors(d) \/ DeletionFails(d)
        => DocsPersist({}) /\ JobsPersist({}) /\ Sends({})
  BY StatusPersists DEF StartDeletion, DeleteVectors, DeletionFails, Sends
<1> QED BY <1>1, <1>2, <1>3

\* A step that creates nothing and sends nothing keeps what Registered says.
LEMMA RegisteredStays ==
    ASSUME TypeOK, Registered, DocsPersist({}), JobsPersist({}), Sends({}),
           uploads' = uploads, reindex' = reindex, sweeps' = sweeps,
           \A w \in Workers : worker'[w] = worker[w] \/ HoldsMessage(w)'
    PROVE  Registered' /\ Persists
<1>1. /\ \A m \in Messages : broker'[m].state # "unsent" => Known(m[1])'
      /\ \A w \in Workers : worker'[w] = worker[w] => HoldsMessage(w)'
      /\ \A s \in Sweeps : sweeps'[s] = sweeps[s] => SweepKnown(s)'
      /\ \A r \in Reindexers : reindex'[r] = reindex[r] => ReindexKnown(r)'
      /\ \A d \in Docs :
            /\ uploads'[d].version = uploads[d].version
            /\ uploads'[d].lineage_id = uploads[d].lineage_id
            /\ uploads'[d].content = uploads[d].content
            => RecordOf(d)'
      /\ \A d \in Docs : uploads'[d].pc = uploads[d].pc => UploadStage(d)'
      /\ \A j \in Jobs : JobRecord(j)'
  <2>1. \A m \in Messages \cap {} : Known(m[1])
    OBVIOUS
  <2> QED BY <2>1, PersistenceKeeps
<1>2. Persists
  BY PersistenceGrows DEF Persists
<1> QED BY <1>1, <1>2 DEF Registered

\* A worker's step is its own.
LEMMA AloneTurns ==
    ASSUME TypeOK, NEW w \in Workers, WorkerProceeds(w) \/ WorkerFails(w)
    PROVE  Alone(w)
<1>1. \A m \in Messages : Receive(w, m) => Alone(w)
  BY ReceptionTurns
<1>2. (\E m \in Messages : Receive(w, m)) \/ Ended(w) \/ KeepsMessage(w)
  <2>1. \A pc : Turn(w, pc) => KeepsMessage(w)
    BY DEF Turn
  <2>2. \A pc, f : Freshening(w, pc, f) => KeepsMessage(w)
    BY DEF Freshening
  <2>3. \A p : Choosing(w, p) => KeepsMessage(w)
    BY DEF Choosing
  <2>4. Failing(w) \/ Loading(w) => KeepsMessage(w)
    BY DEF Failing, Loading
  <2> QED BY <2>1, <2>2, <2>3, <2>4, WorkerTurns DEF WorkerProceeds, WorkerFails
<1> QED BY <1>1, <1>2 DEF Ended, KeepsMessage

\* A worker's step hands no message to another, and loses none while it goes on.
LEMMA WorkersRegistered ==
    ASSUME TypeOK, Registered, NEW w \in Workers, WorkerProceeds(w) \/ WorkerFails(w),
           UNCHANGED <<uploads, deletions, reindex, sweeps>>
    PROVE  Registered' /\ Persists
<1>h. HoldsMessage(w)
  BY DEF Registered
<1>1. DocsPersist({}) /\ JobsPersist({}) /\ Sends({})
  BY <1>h, WorkersPersist, WorkersSilent
<1>2. ASSUME NEW m \in Messages, Receive(w, m) PROVE Alone(w) /\ HoldsMessage(w)'
  <2>1. Alone(w) /\ worker'[w].msg = m
    BY <1>2, ReceptionTurns
  <2>2. broker[m].state # "unsent"
    BY <1>2 DEF Receive
  <2>3. broker'[m].state # "unsent"
    BY <1>1, <2>2 DEF Sends
  <2> QED BY <2>1, <2>3 DEF HoldsMessage
<1>3. Ended(w) => Alone(w) /\ HoldsMessage(w)'
  BY DEF Ended, HoldsMessage
<1>4. KeepsMessage(w) /\ worker[w].pc # "idle" => Alone(w) /\ HoldsMessage(w)'
  BY <1>1, <1>h DEF KeepsMessage, HoldsMessage, Sends
<1>5. ASSUME ~ \E m \in Messages : Receive(w, m) PROVE worker[w].pc # "idle"
  BY <1>5 DEF WorkerProceeds, WorkerFails, At, Claim, SkipClaimed, MarkDocumentProcessing,
     LoadDocument, Deduplicate, Upsert, FindPredecessorToArchive, DeletePredecessorVectors,
     RollbackVectors, ArchivePredecessor, ReadyJob, ReadyDoc, FailJob, FailDoc, Ack, GiveUpDoc,
     GiveUpJob, Drop, PredecessorDeletionRaises, GuardedCallRaises, UnguardedCallRaises,
     GiveUpRaises, WorkerCrashes, Guarded, Unguarded
<1>6. ASSUME ~ \E m \in Messages : Receive(w, m) PROVE KeepsMessage(w) \/ Ended(w)
  <2>1. \A pc : Turn(w, pc) => KeepsMessage(w)
    BY DEF Turn
  <2>2. \A pc, f : Freshening(w, pc, f) => KeepsMessage(w)
    BY DEF Freshening
  <2>3. \A p : Choosing(w, p) => KeepsMessage(w)
    BY DEF Choosing
  <2>4. Failing(w) \/ Loading(w) => KeepsMessage(w)
    BY DEF Failing, Loading
  <2> QED BY <1>6, <2>1, <2>2, <2>3, <2>4, WorkerTurns DEF WorkerProceeds, WorkerFails
<1>7. Alone(w) /\ HoldsMessage(w)'
  BY <1>2, <1>3, <1>4, <1>5, <1>6
<1>8. \A v \in Workers : worker'[v] = worker[v] \/ HoldsMessage(v)'
  BY <1>7 DEF Alone
<1> QED BY <1>1, <1>8, RegisteredStays

\* What an upload's step may insert, and its next pc.
Uploading(d) == \/ UploadProceeds(d)
                \/ \E c \in Contents : StartUpload(d, c)

\* What the step of an upload does to its document and its job.
LEMMA UploadEffects ==
    ASSUME TypeOK, Registered, NEW d \in Docs, Uploading(d)
    PROVE  /\ \A e \in Docs \ {d} : uploads'[e] = uploads[e]
           /\ DocsPersist({d}) /\ JobsPersist({d})
           /\ Sends({}) \/ (Sends({UploadMessage(d)}) /\ uploads[d].pc = "send")
           /\ UploadStage(d)' /\ RecordOf(d)' /\ JobRecord(d)'
<1>y. /\ docs \in [Docs -> Document] /\ jobs \in [Jobs -> Job] /\ broker \in BrokerContents
      /\ UploadTypeOK /\ UploadMessage(d) \in Messages
      /\ d \in Jobs
  BY BoundsAssumption DEF TypeOK, StoreTypeOK, BrokerContents, UploadMessage, Messages, Docs, Jobs
<1>r. UploadStage(d) /\ RecordOf(d) /\ JobRecord(d)
  BY <1>y DEF Registered
<1>g. \A pc : Goto(d, pc) => UploadTurn(d, pc)
  BY <1>y, GotoTurns
<1>s. broker' = broker => Sends({})
  BY DEF Sends
<1>p. /\ DocsPersist({}) => DocsPersist({d})
      /\ JobsPersist({}) => JobsPersist({d})
  BY DEF DocsPersist, JobsPersist
\* Steps that insert nothing.
<1>k. ASSUME DocsPersist({}), JobsPersist({})
      PROVE  /\ Inserted(d)' <=> Inserted(d)
             /\ Known(d)' <=> Known(d)
             /\ JobRecord(d)'
             /\ (/\ uploads'[d].version = uploads[d].version
                 /\ uploads'[d].lineage_id = uploads[d].lineage_id
                 /\ uploads'[d].content = uploads[d].content) => RecordOf(d)'
             /\ ~Inserted(d) => RecordOf(d)'
  <2>1. Inserted(d)' <=> Inserted(d)
    BY <1>k DEF DocsPersist, KeepsRecord, Inserted
  <2>2. Known(d)' <=> Known(d)
    BY <1>k, <1>y DEF JobsPersist
  <2>3. JobRecord(d)'
    BY <1>k, <1>y, <1>r DEF JobRecord, JobsPersist, DocsPersist, KeepsRecord
  <2>4. ~Inserted(d) => RecordOf(d)'
    BY <1>k, <1>r, <2>1 DEF RecordOf, DocsPersist
  <2>5. \A j : Renewed(d, j) => Renewed(d, j)'
    BY <1>k DEF Renewed, JobsPersist
  <2>6. ASSUME Inserted(d), uploads'[d].version = uploads[d].version,
               uploads'[d].lineage_id = uploads[d].lineage_id,
               uploads'[d].content = uploads[d].content
        PROVE  RecordOf(d)'
    <3>1. KeepsRecord(d)
      BY <1>k DEF DocsPersist
    <3>2. docs'[d].job_id = d \/ Renewed(d, docs[d].job_id)'
      <4>1. CASE docs'[d].job_id = docs[d].job_id
        BY <1>r, <2>5, <2>6, <4>1 DEF RecordOf, Renewed
      <4>2. CASE Renewed(d, docs[d].job_id)'
        BY <4>2
      <4> QED BY <2>6, <3>1, <4>1, <4>2 DEF KeepsRecord
    <3> QED BY <1>r, <2>6, <3>1, <3>2 DEF RecordOf, KeepsRecord
  <2> QED BY <2>1, <2>2, <2>3, <2>4, <2>6
<1>u. docs' = docs /\ jobs' = jobs => DocsPersist({}) /\ JobsPersist({})
  BY StatusPersists
<1>1. ASSUME NEW c \in Contents, StartUpload(d, c)
      PROVE  /\ \A e \in Docs \ {d} : uploads'[e] = uploads[e]
             /\ DocsPersist({}) /\ JobsPersist({}) /\ Sends({})
             /\ UploadStage(d)' /\ RecordOf(d)'
  <2>1. /\ uploads[d].pc = "off"
        /\ uploads'[d].pc = "find"
        /\ \A e \in Docs \ {d} : uploads'[e] = uploads[e]
    BY <1>1, <1>y, StartTurns DEF StartUpload
  <2>2. docs' = docs /\ jobs' = jobs /\ broker' = broker
    BY <1>1 DEF StartUpload
  <2>3. ~Inserted(d) /\ ~Known(d)
    BY <1>r, <2>1 DEF UploadStage, BeforeDoc, BeforeJob
  <2>4. UploadStage(d)'
    BY <1>k, <1>u, <2>1, <2>2, <2>3 DEF UploadStage, AfterDoc, AfterJob
  <2> QED BY <1>k, <1>s, <1>u, <2>1, <2>2, <2>3, <2>4
<1>2. ASSUME FindPredecessor(d)
      PROVE  /\ \A e \in Docs \ {d} : uploads'[e] = uploads[e]
             /\ DocsPersist({}) /\ JobsPersist({}) /\ Sends({})
             /\ UploadStage(d)' /\ RecordOf(d)'
  <2>1. /\ uploads[d].pc = "find"
        /\ uploads'[d].pc = "put"
        /\ \A e \in Docs \ {d} : uploads'[e] = uploads[e]
    BY <1>2, FindTurns DEF FindPredecessor
  <2>2. docs' = docs /\ jobs' = jobs /\ broker' = broker
    BY <1>2 DEF FindPredecessor
  <2>3. ~Inserted(d) /\ ~Known(d)
    BY <1>r, <2>1 DEF UploadStage, BeforeDoc, BeforeJob
  <2>4. UploadStage(d)'
    BY <1>k, <1>u, <2>1, <2>2, <2>3 DEF UploadStage, AfterDoc, AfterJob
  <2> QED BY <1>k, <1>s, <1>u, <2>1, <2>2, <2>3, <2>4
\* Steps that move on.
<1>m. ASSUME NEW pc, UploadTurn(d, pc), DocsPersist({}), JobsPersist({}),
             /\ pc \in BeforeDoc => ~Inserted(d)
             /\ pc \in AfterDoc => Inserted(d)
             /\ pc \in BeforeJob => ~Known(d)
             /\ pc \in AfterJob => Known(d)
      PROVE  /\ \A e \in Docs \ {d} : uploads'[e] = uploads[e]
             /\ UploadStage(d)' /\ RecordOf(d)'
  BY <1>k, <1>m DEF UploadTurn, UploadStage
<1>3. ASSUME PutFile(d)
      PROVE  /\ \A e \in Docs \ {d} : uploads'[e] = uploads[e]
             /\ DocsPersist({}) /\ JobsPersist({}) /\ Sends({})
             /\ UploadStage(d)' /\ RecordOf(d)'
  <2>1. UploadTurn(d, "insertDoc") /\ docs' = docs /\ jobs' = jobs /\ broker' = broker
    BY <1>3, <1>g DEF PutFile
  <2>2. ~Inserted(d) /\ ~Known(d)
    BY <1>3, <1>r DEF PutFile, UploadStage, BeforeDoc, BeforeJob
  <2>3. "insertDoc" \notin AfterDoc \cup AfterJob
    BY DEF AfterDoc, AfterJob
  <2> QED BY <1>m, <1>s, <1>u, <2>1, <2>2, <2>3
<1>4. ASSUME InsertDocument(d)
      PROVE  /\ \A e \in Docs \ {d} : uploads'[e] = uploads[e]
             /\ DocsPersist({d}) /\ JobsPersist({}) /\ Sends({})
             /\ UploadStage(d)' /\ RecordOf(d)' /\ JobRecord(d)'
  <2> DEFINE new == [status |-> "queued", job_id |-> d, version |-> uploads[d].version,
                     lineage_id |-> uploads[d].lineage_id, superseded_by |-> None,
                     content_hash |-> uploads[d].content]
  <2>1. /\ UploadTurn(d, "insertJob") /\ jobs' = jobs /\ broker' = broker
        /\ docs' = [docs EXCEPT ![d] = new]
    BY <1>4, <1>g DEF InsertDocument
  <2>2. ~Inserted(d) /\ ~Known(d)
    BY <1>4, <1>r DEF InsertDocument, UploadStage, BeforeDoc, BeforeJob
  <2>3. docs'[d] = new /\ \A e \in Docs \ {d} : docs'[e] = docs[e]
    BY <1>y, <2>1
  <2>4. DocsPersist({d})
    BY <2>2, <2>3 DEF DocsPersist, KeepsRecord, Inserted
  <2>5. Inserted(d)' /\ ~Known(d)'
    BY <2>1, <2>2, <2>3 DEF Inserted, Known
  <2>6. UploadStage(d)'
    BY <2>1, <2>5 DEF UploadStage, UploadTurn, BeforeDoc, AfterJob
  <2>7. RecordOf(d)'
    BY <2>1, <2>3, <2>5 DEF RecordOf, UploadTurn
  <2>8. JobRecord(d)'
    BY <2>5 DEF JobRecord
  <2> QED BY <1>s, <1>u, <2>1, <2>4, <2>6, <2>7, <2>8, StatusPersists DEF UploadTurn
<1>5. ASSUME InsertUploadJob(d)
      PROVE  /\ \A e \in Docs \ {d} : uploads'[e] = uploads[e]
             /\ DocsPersist({}) /\ JobsPersist({d}) /\ Sends({})
             /\ UploadStage(d)' /\ RecordOf(d)' /\ JobRecord(d)'
  <2>1. /\ UploadTurn(d, "send") /\ docs' = docs /\ broker' = broker
        /\ jobs' = InsertJob(d, d)
    BY <1>5, <1>g DEF InsertUploadJob
  <2>2. Inserted(d) /\ ~Known(d)
    BY <1>5, <1>r DEF InsertUploadJob, UploadStage, AfterDoc, BeforeJob
  <2>3. /\ jobs'[d].status = "queued" /\ jobs'[d].document_id = d
        /\ \A j \in Jobs \ {d} : jobs'[j] = jobs[j]
    BY <1>y, <2>1 DEF InsertJob, NoJob
  <2>4. JobsPersist({d})
    BY <2>2, <2>3 DEF JobsPersist, Known
  <2>5. Inserted(d)' /\ Known(d)'
    BY <2>1, <2>2, <2>3 DEF Inserted, Known
  <2>6. UploadStage(d)'
    BY <2>1, <2>5 DEF UploadStage, UploadTurn, BeforeDoc, BeforeJob
  <2>7. \A j : Renewed(d, j) => Renewed(d, j)'
    BY <2>3, <1>y DEF Renewed, Known
  <2>8. RecordOf(d)'
    BY <1>r, <2>1, <2>2, <2>7 DEF RecordOf, UploadTurn, Inserted, Renewed
  <2>9. JobRecord(d)'
    BY <2>3, <2>5 DEF JobRecord
  <2> QED BY <1>s, <1>u, <2>1, <2>4, <2>6, <2>8, <2>9, StatusPersists DEF UploadTurn
<1>6. ASSUME SendUploadMessage(d) \/ LoseUploadMessage(d)
      PROVE  /\ \A e \in Docs \ {d} : uploads'[e] = uploads[e]
             /\ DocsPersist({}) /\ JobsPersist({}) /\ Sends({UploadMessage(d)})
             /\ uploads[d].pc = "send"
             /\ UploadStage(d)' /\ RecordOf(d)'
  <2>1. UploadTurn(d, "accepted") /\ docs' = docs /\ jobs' = jobs /\ uploads[d].pc = "send"
    BY <1>6, <1>g DEF SendUploadMessage, LoseUploadMessage
  <2>2. broker' = broker \/ broker' = Enqueued(UploadMessage(d))
    BY <1>6 DEF SendUploadMessage, LoseUploadMessage
  <2>3. Sends({UploadMessage(d)})
    BY <1>y, <2>2, SendsOne DEF EnqueuedDespiteError
  <2>4. Inserted(d) /\ Known(d)
    BY <1>r, <2>1 DEF UploadStage, AfterDoc, AfterJob
  <2>5. "accepted" \notin BeforeDoc \cup BeforeJob
    BY DEF BeforeDoc, BeforeJob
  <2> QED BY <1>m, <1>u, <2>1, <2>3, <2>4, <2>5
<1>7. ASSUME UndoFile(d)
      PROVE  /\ \A e \in Docs \ {d} : uploads'[e] = uploads[e]
             /\ DocsPersist({}) /\ JobsPersist({}) /\ Sends({})
             /\ UploadStage(d)' /\ RecordOf(d)'
  <2>1. docs' = docs /\ jobs' = jobs /\ broker' = broker
    BY <1>7 DEF UndoFile
  <2>2. CASE uploads[d].pc = "undoFile"
    <3>1. UploadTurn(d, "rejected")
      BY <1>7, <1>g, <2>2 DEF UndoFile
    <3>2. "rejected" \notin BeforeDoc \cup BeforeJob \cup AfterDoc \cup AfterJob
      BY DEF BeforeDoc, BeforeJob, AfterDoc, AfterJob
    <3> QED BY <1>m, <1>s, <1>u, <2>1, <3>1, <3>2
  <2>3. CASE uploads[d].pc = "undoJobFile"
    <3>1. UploadTurn(d, "undoDoc")
      BY <1>7, <1>g, <2>3 DEF UndoFile
    <3>2. Inserted(d) /\ ~Known(d)
      BY <1>r, <2>3 DEF UploadStage, AfterDoc, BeforeJob
    <3>3. "undoDoc" \notin BeforeDoc \cup AfterJob
      BY DEF BeforeDoc, AfterJob
    <3> QED BY <1>m, <1>s, <1>u, <2>1, <3>1, <3>2, <3>3
  <2> QED BY <1>7, <2>2, <2>3 DEF UndoFile
<1>8. ASSUME UndoDocument(d) \/ FailUploadedJob(d)
      PROVE  /\ \A e \in Docs \ {d} : uploads'[e] = uploads[e]
             /\ DocsPersist({}) /\ JobsPersist({}) /\ Sends({})
             /\ UploadStage(d)' /\ RecordOf(d)'
  <2>1. UploadTurn(d, "rejected") /\ broker' = broker
    BY <1>8, <1>g DEF UndoDocument, FailUploadedJob
  <2>2. DocsPersist({}) /\ JobsPersist({})
    BY <1>8, StatusPersists DEF UndoDocument, FailUploadedJob
  <2>3. "rejected" \notin BeforeDoc \cup BeforeJob \cup AfterDoc \cup AfterJob
    BY DEF BeforeDoc, BeforeJob, AfterDoc, AfterJob
  <2> QED BY <1>m, <1>s, <2>1, <2>2, <2>3
<1>9. ASSUME FailUploadedDocument(d)
      PROVE  /\ \A e \in Docs \ {d} : uploads'[e] = uploads[e]
             /\ DocsPersist({}) /\ JobsPersist({}) /\ Sends({})
             /\ UploadStage(d)' /\ RecordOf(d)'
  <2>1. UploadTurn(d, "failJob") /\ broker' = broker /\ uploads[d].pc = "failDoc"
    BY <1>9, <1>g DEF FailUploadedDocument
  <2>2. DocsPersist({}) /\ JobsPersist({})
    BY <1>9, StatusPersists DEF FailUploadedDocument
  <2>3. Inserted(d) /\ Known(d)
    BY <1>r, <2>1 DEF UploadStage, AfterDoc, AfterJob
  <2>4. "failJob" \notin BeforeDoc \cup BeforeJob
    BY DEF BeforeDoc, BeforeJob
  <2> QED BY <1>m, <1>s, <2>1, <2>2, <2>3, <2>4
<1>10. ASSUME UploadCallRaises(d)
       PROVE  /\ \A e \in Docs \ {d} : uploads'[e] = uploads[e]
              /\ DocsPersist({}) /\ JobsPersist({})
              /\ Sends({}) \/ (Sends({UploadMessage(d)}) /\ uploads[d].pc = "send")
              /\ UploadStage(d)' /\ RecordOf(d)'
  <2> DEFINE pc == AfterUploadError(uploads[d].pc)
  <2>1. UploadTurn(d, pc) /\ docs' = docs /\ jobs' = jobs
    BY <1>10, <1>g DEF UploadCallRaises
  <2>2. Sends({}) \/ (Sends({UploadMessage(d)}) /\ uploads[d].pc = "send")
    <3>1. CASE uploads[d].pc = "send"
      BY <1>10, <1>y, <3>1, SendsOne DEF UploadCallRaises
    <3>2. CASE uploads[d].pc # "send"
      BY <1>10, <1>s, <3>2 DEF UploadCallRaises
    <3> QED BY <3>1, <3>2
  <2>3. /\ pc \in BeforeDoc => ~Inserted(d)
        /\ pc \in AfterDoc => Inserted(d)
        /\ pc \in BeforeJob => ~Known(d)
        /\ pc \in AfterJob => Known(d)
    BY <1>r DEF UploadStage, AfterUploadError, BeforeDoc, AfterDoc, BeforeJob, AfterJob
  <2> HIDE DEF pc
  <2> QED BY <1>m, <1>u, <2>1, <2>2, <2>3
<1>11. ASSUME UploadCrashes(d)
       PROVE  /\ \A e \in Docs \ {d} : uploads'[e] = uploads[e]
              /\ DocsPersist({}) /\ JobsPersist({}) /\ Sends({})
              /\ UploadStage(d)' /\ RecordOf(d)'
  <2>1. UploadTurn(d, "crashed") /\ docs' = docs /\ jobs' = jobs /\ broker' = broker
    BY <1>11, <1>g DEF UploadCrashes
  <2>2. "crashed" \notin BeforeDoc \cup BeforeJob \cup AfterDoc \cup AfterJob
    BY DEF BeforeDoc, BeforeJob, AfterDoc, AfterJob
  <2> QED BY <1>m, <1>s, <1>u, <2>1, <2>2
<1>12. CASE \E c \in Contents : StartUpload(d, c)
  BY <1>1, <1>k, <1>p, <1>12
<1>13. CASE FindPredecessor(d) \/ PutFile(d)
  BY <1>2, <1>3, <1>k, <1>p, <1>13
<1>14. CASE InsertDocument(d) \/ InsertUploadJob(d)
  BY <1>4, <1>5, <1>p, <1>14
<1>15. CASE SendUploadMessage(d) \/ LoseUploadMessage(d)
  BY <1>6, <1>k, <1>p, <1>15
<1>16. CASE UndoFile(d) \/ UndoDocument(d) \/ FailUploadedJob(d)
  BY <1>7, <1>8, <1>k, <1>p, <1>16
<1>17. CASE FailUploadedDocument(d) \/ UploadCallRaises(d) \/ UploadCrashes(d)
  BY <1>9, <1>10, <1>11, <1>k, <1>p, <1>17
<1> QED BY <1>12, <1>13, <1>14, <1>15, <1>16, <1>17 DEF Uploading, UploadProceeds

\* An upload step registers what it creates.
LEMMA UploadsRegistered ==
    ASSUME TypeOK, Registered, NEW d \in Docs, Uploading(d),
           UNCHANGED <<worker, deletions, reindex, sweeps>>
    PROVE  Registered' /\ Persists
<1>1. /\ \A e \in Docs \ {d} : uploads'[e] = uploads[e]
      /\ DocsPersist({d}) /\ JobsPersist({d})
      /\ Sends({}) \/ (Sends({UploadMessage(d)}) /\ uploads[d].pc = "send")
      /\ UploadStage(d)' /\ RecordOf(d)' /\ JobRecord(d)'
  BY UploadEffects
<1>2. PICK S : Sends(S) /\ \A m \in Messages \cap S : Known(m[1])
  <2>1. UploadMessage(d)[1] = d
    BY DEF UploadMessage
  <2>2. uploads[d].pc = "send" => Known(d)
    BY DEF Registered, UploadStage, AfterJob
  <2>3. CASE Sends({})
    BY <2>3
  <2>4. CASE Sends({UploadMessage(d)}) /\ uploads[d].pc = "send"
    BY <2>1, <2>2, <2>4
  <2> QED BY <1>1, <2>3, <2>4
<1>3. /\ \A m \in Messages : broker'[m].state # "unsent" => Known(m[1])'
      /\ \A w \in Workers : worker'[w] = worker[w] => HoldsMessage(w)'
      /\ \A s \in Sweeps : sweeps'[s] = sweeps[s] => SweepKnown(s)'
      /\ \A r \in Reindexers : reindex'[r] = reindex[r] => ReindexKnown(r)'
      /\ \A e \in Docs \ {d} :
            /\ uploads'[e].version = uploads[e].version
            /\ uploads'[e].lineage_id = uploads[e].lineage_id
            /\ uploads'[e].content = uploads[e].content
            => RecordOf(e)'
      /\ \A e \in Docs \ ({d} \cup {d}) : uploads'[e].pc = uploads[e].pc => UploadStage(e)'
      /\ \A j \in Jobs \ {d} : JobRecord(j)'
  BY <1>1, <1>2, PersistenceKeeps
<1>4. \A e \in Docs : UploadStage(e)' /\ RecordOf(e)'
  BY <1>1, <1>3
<1>5. \A j \in Jobs : JobRecord(j)'
  BY <1>1, <1>3
<1>6. Persists
  <2>1. d \in Jobs
    BY BoundsAssumption DEF Docs, Jobs
  <2> QED BY <1>1, <1>2, <2>1, PersistenceGrows DEF Persists
<1> QED BY <1>3, <1>4, <1>5, <1>6 DEF Registered

\* What holds of a job and its document, seen from a request that reindexes.
LEMMA RegisteredExcept ==
    ASSUME TypeOK, Registered, NEW J \in SUBSET (Jobs \ Docs), NEW S,
           DocsPersist({}), JobsPersist(J), Sends(S), \A m \in Messages \cap S : Known(m[1]),
           uploads' = uploads, worker' = worker,
           \A s \in Sweeps : SweepKnown(s)' \/ sweeps'[s] = sweeps[s],
           \A r \in Reindexers : ReindexKnown(r)' \/ reindex'[r] = reindex[r],
           \A j \in J : JobRecord(j)'
    PROVE  Registered' /\ Persists
<1>1. /\ \A m \in Messages : broker'[m].state # "unsent" => Known(m[1])'
      /\ \A w \in Workers : worker'[w] = worker[w] => HoldsMessage(w)'
      /\ \A s \in Sweeps : sweeps'[s] = sweeps[s] => SweepKnown(s)'
      /\ \A r \in Reindexers : reindex'[r] = reindex[r] => ReindexKnown(r)'
      /\ \A d \in Docs :
            /\ uploads'[d].version = uploads[d].version
            /\ uploads'[d].lineage_id = uploads[d].lineage_id
            /\ uploads'[d].content = uploads[d].content
            => RecordOf(d)'
      /\ \A d \in Docs \ ({} \cup J) : uploads'[d].pc = uploads[d].pc => UploadStage(d)'
      /\ \A j \in Jobs \ J : JobRecord(j)'
  BY PersistenceKeeps
<1>2. \A d \in Docs : UploadStage(d)' /\ RecordOf(d)'
  BY <1>1
<1>3. Persists
  BY PersistenceGrows DEF Persists
<1> QED BY <1>1, <1>2, <1>3 DEF Registered

\* Pointing a document to a job reindexing created, or failing it with that job, forgets
\* nothing.
LEMMA PointingPersists ==
    ASSUME TypeOK, NEW d \in Docs, NEW j \in Jobs, NEW s, s # "absent", Renewed(d, j)',
           docs' = IF Exists(docs[d]) THEN [docs EXCEPT ![d].status = s, ![d].job_id = j]
                   ELSE docs
    PROVE  DocsPersist({})
<1>y. docs \in [Docs -> Document]
  BY DEF TypeOK, StoreTypeOK
<1>1. CASE Exists(docs[d])
  <2> DEFINE old == docs[d]
             new == [status |-> s, job_id |-> j, version |-> old.version,
                     lineage_id |-> old.lineage_id, superseded_by |-> old.superseded_by,
                     content_hash |-> old.content_hash]
             mid == [status |-> s, job_id |-> old.job_id, version |-> old.version,
                     lineage_id |-> old.lineage_id, superseded_by |-> old.superseded_by,
                     content_hash |-> old.content_hash]
  <2>a. old \in Document
    BY <1>y
  <2>b. [old EXCEPT !.status = s] = mid /\ [mid EXCEPT !.job_id = j] = new
    BY <2>a DEF Document
  <2>c. docs' = [docs EXCEPT ![d] = [[old EXCEPT !.status = s] EXCEPT !.job_id = j]]
    BY <1>1
  <2>1. docs' = [docs EXCEPT ![d] = new]
    <3> HIDE DEF old, mid, new
    <3> QED BY <2>b, <2>c
  <2>2. docs'[d] = new /\ \A e \in Docs \ {d} : docs'[e] = docs[e]
    BY <1>y, <2>1
  <2>3. KeepsRecord(d) /\ Inserted(d)
    BY <1>1, <2>2 DEF KeepsRecord, Inserted, Exists
  <2>4. \A e \in Docs \ {d} : KeepsRecord(e)
    BY <2>2 DEF KeepsRecord, Inserted
  <2> QED BY <2>2, <2>3, <2>4 DEF DocsPersist
<1>2. CASE ~Exists(docs[d])
  BY <1>2, StatusPersists
<1> QED BY <1>1, <1>2

\* So does a step of a reindex request.
LEMMA ReindexRegistered ==
    ASSUME TypeOK, ReindexInOrder, Registered, NEW r \in Reindexers,
           \/ StartReindex(r) \/ WipeNamespace(r) \/ FindReady(r) \/ InsertReindexJob(r)
           \/ PointDocument(r) \/ SendReindexMessage(r) \/ FinishReindex(r)
           \/ ReindexSendRaises(r) \/ FailReindexDocument(r) \/ FailReindexJob(r)
           \/ ReindexFails(r),
           UNCHANGED <<uploads, worker, sweeps>>
    PROVE  Registered' /\ Persists
<1> DEFINE q == reindex[r]
<1>y. /\ docs \in [Docs -> Document] /\ jobs \in [Jobs -> Job] /\ broker \in BrokerContents
      /\ q \in ReindexRecord
      /\ q.todo \subseteq Docs /\ q.queued \in Seq(Docs \X Jobs)
  BY DEF TypeOK, StoreTypeOK, BrokerContents, AdminTypeOK, ReindexRecord
<1>r. ReindexKnown(r)
  BY DEF Registered
<1>s. broker' = broker => Sends({})
  BY DEF Sends
<1>e. \A J : {} \in SUBSET (Jobs \ Docs) /\ \A m \in Messages \cap {} : Known(m[1])
  OBVIOUS
\* Whoever else reindexes is not disturbed, nobody is when nothing is inserted.
<1>k. ASSUME NEW S, DocsPersist({}), JobsPersist({}), Sends(S),
             \A m \in Messages \cap S : Known(m[1]),
             \A t \in Reindexers \ {r} : reindex'[t] = reindex[t],
             ReindexKnown(r)'
      PROVE  Registered' /\ Persists
  <2>1. \A t \in Reindexers : ReindexKnown(t)' \/ reindex'[t] = reindex[t]
    BY <1>k
  <2>2. \A j \in {} : JobRecord(j)'
    OBVIOUS
  <2>3. {} \in SUBSET (Jobs \ Docs)
    OBVIOUS
  <2> QED BY <1>k, <2>1, <2>2, <2>3, RegisteredExcept
<1>n. /\ DocsPersist({}) => \A d \in Docs : Inserted(d) => Inserted(d)'
      /\ JobsPersist({}) => \A d, j : Renewed(d, j) => Renewed(d, j)'
  BY DEF DocsPersist, KeepsRecord, JobsPersist, Renewed
\* A step that inserts nothing and shortens what the request remembers.
<1>m. ASSUME NEW pc, NEW rest, Request(r, pc, q.todo, q.current, rest),
             pc # "pointDoc", q.pc # "pointDoc",
             ToSet(rest) \subseteq ToSet(q.queued),
             DocsPersist({}), JobsPersist({})
      PROVE  ReindexKnown(r)' /\ \A t \in Reindexers \ {r} : reindex'[t] = reindex[t]
  <2>1. \A d \in q.todo : Inserted(d)'
    BY <1>m, <1>n, <1>r, <1>y DEF ReindexKnown
  <2>2. q.current = <<None, None>>
    BY <1>m, <1>r DEF ReindexKnown
  <2>3. \A p \in ToSet(rest) : Renewed(p[1], p[2])'
    BY <1>m, <1>n, <1>r DEF ReindexKnown
  <2> QED BY <1>m, <2>1, <2>2, <2>3 DEF Request, ReindexKnown
<1>u. docs' = docs /\ jobs' = jobs => DocsPersist({}) /\ JobsPersist({})
  BY StatusPersists
<1>none. \A m \in Messages \cap {} : Known(m[1])
  OBVIOUS
<1>1. ASSUME StartReindex(r) \/ WipeNamespace(r) \/ FinishReindex(r) PROVE Registered' /\ Persists
  <2>1. PICK pc \in {"wipe", "find", "done"} : Request(r, pc, q.todo, q.current, q.queued)
    BY <1>1, RequestTurns
  <2>2. q.pc # "pointDoc" /\ docs' = docs /\ jobs' = jobs /\ broker' = broker
    BY <1>1 DEF StartReindex, WipeNamespace, FinishReindex, ReindexAt
  <2>3. ReindexKnown(r)' /\ \A t \in Reindexers \ {r} : reindex'[t] = reindex[t]
    BY <1>m, <1>u, <2>1, <2>2
  <2> QED BY <1>k, <1>none, <1>s, <1>u, <2>2, <2>3
<1>2. ASSUME FindReady(r) PROVE Registered' /\ Persists
  <2> DEFINE ready == {d \in Docs : docs[d].status = "ready" /\ ~Archived(d)}
  <2>1. Request(r, NextStep(ready), ready, q.current, q.queued)
    BY <1>2, RequestTurns
  <2>2. q.pc # "pointDoc" /\ docs' = docs /\ jobs' = jobs /\ broker' = broker
    BY <1>2 DEF FindReady, ReindexAt
  <2>3. \A d \in ready : Inserted(d)'
    BY <2>2 DEF Inserted
  <2>4. NextStep(ready) # "pointDoc"
    BY DEF NextStep
  <2>5. q.current = <<None, None>>
    BY <1>r, <2>2 DEF ReindexKnown
  <2>6. \A p \in ToSet(q.queued) : Renewed(p[1], p[2])'
    BY <1>n, <1>r, <1>u, <2>2 DEF ReindexKnown
  <2>7. ReindexKnown(r)' /\ \A t \in Reindexers \ {r} : reindex'[t] = reindex[t]
    <3> HIDE DEF ready
    <3> QED BY <2>1, <2>3, <2>4, <2>5, <2>6 DEF Request, ReindexKnown
  <2> QED BY <1>k, <1>none, <1>s, <1>u, <2>2, <2>7
<1>3. ASSUME InsertReindexJob(r) PROVE Registered' /\ Persists
  <2>1. PICK d \in q.todo, j \in Jobs \ Docs :
          /\ jobs[j].status = "absent"
          /\ jobs' = InsertJob(j, d)
          /\ Request(r, "pointDoc", q.todo \ {d}, <<d, j>>, q.queued)
    BY <1>3, RequestTurns
  <2>2. q.pc # "pointDoc" /\ docs' = docs /\ broker' = broker
    BY <1>3 DEF InsertReindexJob, ReindexAt
  <2>3. /\ jobs'[j].status = "queued" /\ jobs'[j].document_id = d
        /\ \A i \in Jobs \ {j} : jobs'[i] = jobs[i]
    BY <1>y, <2>1 DEF InsertJob, NoJob
  <2>4. JobsPersist({j})
    BY <2>1, <2>3 DEF JobsPersist, Known
  <2>5. Inserted(d) /\ d \in Docs
    BY <1>r, <1>y DEF ReindexKnown
  <2>6. Renewed(d, j)'
    BY <2>1, <2>3, <2>5 DEF Renewed, Known
  <2>7. JobRecord(j)'
    BY <2>1, <2>2, <2>3, <2>5 DEF JobRecord, Inserted
  <2>8. \A e, i : Renewed(e, i) => Renewed(e, i)'
    BY <2>4 DEF Renewed, JobsPersist
  <2>9. \A p \in ToSet(q.queued) : Renewed(p[1], p[2])'
    BY <1>r, <2>8 DEF ReindexKnown
  <2>10. \A e \in q.todo \ {d} : Inserted(e)'
    BY <1>r, <2>2 DEF ReindexKnown, Inserted
  <2>11. ReindexKnown(r)'
    BY <2>1, <2>6, <2>9, <2>10 DEF Request, ReindexKnown
  <2>12. \A t \in Reindexers : ReindexKnown(t)' \/ reindex'[t] = reindex[t]
    BY <2>1, <2>11 DEF Request
  <2>13. {j} \in SUBSET (Jobs \ Docs) /\ (\A i \in {j} : JobRecord(i)') /\ DocsPersist({})
    BY <2>2, <2>7, StatusPersists
  <2> QED BY <1>none, <1>s, <2>2, <2>4, <2>12, <2>13, RegisteredExcept
<1>4. ASSUME PointDocument(r) PROVE Registered' /\ Persists
  <2> DEFINE cur == q.current
  <2>1. Request(r, NextStep(q.todo), q.todo, <<None, None>>, Append(q.queued, cur))
    BY <1>4, RequestTurns
  <2>2. /\ q.pc = "pointDoc" /\ jobs' = jobs /\ broker' = broker
        /\ docs' = IF Exists(docs[cur[1]])
                   THEN [docs EXCEPT ![cur[1]].status = "queued", ![cur[1]].job_id = cur[2]]
                   ELSE docs
    BY <1>4 DEF PointDocument, ReindexAt
  <2>3. PICK d \in Docs, j \in Jobs : cur = <<d, j>> /\ Renewed(d, j)
    <3>1. Renewed(cur[1], cur[2]) /\ cur \in Pair
      BY <1>r, <1>y, <2>2 DEF ReindexKnown, ReindexRecord
    <3>2. cur = <<cur[1], cur[2]>> /\ cur[1] \in Docs /\ cur[2] \in Jobs
      BY <3>1 DEF Renewed, Pair
    <3> QED BY <3>1, <3>2
  <2>4. Renewed(d, j)'
    BY <2>2, <2>3 DEF Renewed, Known
  <2>5. cur \in Docs \X Jobs
    BY <2>3
  <2>6. DocsPersist({}) /\ JobsPersist({})
    <3>1. docs' = IF Exists(docs[d]) THEN [docs EXCEPT ![d].status = "queued", ![d].job_id = j]
                  ELSE docs
      BY <2>2, <2>3
    <3> QED BY <2>2, <2>4, <3>1, PointingPersists, StatusPersists
  <2>7. ToSet(Append(q.queued, cur)) = ToSet(q.queued) \cup {cur}
    BY <1>y, <2>5, ElementsAppended
  <2>8. \A p \in ToSet(Append(q.queued, cur)) : Renewed(p[1], p[2])'
    <3> SUFFICES ASSUME NEW p \in ToSet(q.queued) \cup {cur} PROVE Renewed(p[1], p[2])'
      BY <2>7
    <3>1. CASE p = cur
      <4>1. p[1] = d /\ p[2] = j
        BY <2>3, <3>1
      <4> QED BY <2>4, <4>1
    <3>2. CASE p \in ToSet(q.queued)
      BY <1>n, <1>r, <2>6, <3>2 DEF ReindexKnown
    <3> QED BY <3>1, <3>2
  <2>9. \A e \in q.todo : Inserted(e)'
    BY <1>n, <1>r, <1>y, <2>6 DEF ReindexKnown
  <2>10. NextStep(q.todo) # "pointDoc"
    BY DEF NextStep
  <2>11. ReindexKnown(r)' /\ \A t \in Reindexers \ {r} : reindex'[t] = reindex[t]
    <3> HIDE DEF cur
    <3> QED BY <2>1, <2>8, <2>9, <2>10 DEF Request, ReindexKnown
  <2> QED BY <1>k, <1>none, <1>s, <2>2, <2>6, <2>11
<1>5. ASSUME SendReindexMessage(r) PROVE Registered' /\ Persists
  <2> DEFINE m == ReindexMessage(r)
             p == Head(q.queued)
  <2>1. Request(r, "send", q.todo, q.current, Tail(q.queued))
    BY <1>5, RequestTurns
  <2>2. /\ q.pc = "send" /\ docs' = docs /\ jobs' = jobs /\ q.queued # <<>>
        /\ broker' = broker \/ broker' = Enqueued(m)
    BY <1>5 DEF SendReindexMessage, ReindexAt
  <2>3. /\ p \in ToSet(q.queued) /\ p \in Docs \X Jobs
        /\ ToSet(Tail(q.queued)) \subseteq ToSet(q.queued)
    BY <1>y, <2>2, ElementsOfTail
  <2>4. m = <<p[2], 0>> /\ m \in Messages
    BY <2>3, BoundsAssumption DEF ReindexMessage, Messages
  <2>5. Renewed(p[1], p[2])
    BY <1>r, <2>3 DEF ReindexKnown
  <2>6. Sends({m})
    BY <1>y, <2>2, <2>4, SendsOne DEF EnqueuedDespiteError
  <2>7. \A n \in Messages \cap {m} : Known(n[1])
    BY <2>4, <2>5 DEF Renewed
  <2>8. ReindexKnown(r)' /\ \A t \in Reindexers \ {r} : reindex'[t] = reindex[t]
    <3> DEFINE rest == Tail(q.queued)
    <3>1. Request(r, "send", q.todo, q.current, rest) /\ ToSet(rest) \subseteq ToSet(q.queued)
      BY <2>1, <2>3
    <3> HIDE DEF rest
    <3> QED BY <1>m, <1>u, <2>2, <3>1
  <2> QED BY <1>k, <1>u, <2>2, <2>6, <2>7, <2>8
<1>6. ASSUME ReindexSendRaises(r) PROVE Registered' /\ Persists
  <2> DEFINE m == ReindexMessage(r)
             p == Head(q.queued)
  <2>1. Request(r, "failDoc", q.todo, q.current, q.queued)
    BY <1>6, RequestTurns
  <2>2. /\ q.pc = "send" /\ docs' = docs /\ jobs' = jobs /\ q.queued # <<>>
        /\ broker' \in EnqueuedDespiteError(m)
    BY <1>6 DEF ReindexSendRaises, ReindexAt
  <2>3. p \in ToSet(q.queued) /\ p \in Docs \X Jobs
    BY <1>y, <2>2, ElementsOfTail
  <2>4. m = <<p[2], 0>> /\ m \in Messages
    BY <2>3, BoundsAssumption DEF ReindexMessage, Messages
  <2>5. Renewed(p[1], p[2])
    BY <1>r, <2>3 DEF ReindexKnown
  <2>6. Sends({m})
    BY <1>y, <2>2, <2>4, SendsOne
  <2>7. \A n \in Messages \cap {m} : Known(n[1])
    BY <2>4, <2>5 DEF Renewed
  <2>8. ReindexKnown(r)' /\ \A t \in Reindexers \ {r} : reindex'[t] = reindex[t]
    BY <1>m, <1>u, <2>1, <2>2
  <2> QED BY <1>k, <1>u, <2>2, <2>6, <2>7, <2>8
<1>7. ASSUME FailReindexDocument(r), q.queued # <<>> PROVE Registered' /\ Persists
  <2> DEFINE p == Head(q.queued)
  <2>1. Request(r, "failJob", q.todo, q.current, q.queued)
    BY <1>7, RequestTurns
  <2>2. /\ q.pc = "failDoc" /\ jobs' = jobs /\ broker' = broker
        /\ docs' = IF Exists(docs[p[1]])
                   THEN [docs EXCEPT ![p[1]].status = "failed", ![p[1]].job_id = p[2]]
                   ELSE docs
    BY <1>7 DEF FailReindexDocument, ReindexAt
  <2>3. p \in ToSet(q.queued) /\ p \in Docs \X Jobs
    BY <1>7, <1>y, ElementsOfTail
  <2>4. PICK d \in Docs, j \in Jobs : p = <<d, j>> /\ Renewed(d, j)
    BY <1>r, <2>3 DEF ReindexKnown
  <2>5. DocsPersist({}) /\ JobsPersist({})
    <3>1. Renewed(d, j)'
      BY <2>2, <2>4 DEF Renewed, Known
    <3>2. docs' = IF Exists(docs[d]) THEN [docs EXCEPT ![d].status = "failed", ![d].job_id = j]
                  ELSE docs
      <4>1. p[1] = d /\ p[2] = j
        BY <2>4
      <4> HIDE DEF p
      <4> QED BY <2>2, <4>1
    <3> QED BY <2>2, <3>1, <3>2, PointingPersists, StatusPersists
  <2>6. ReindexKnown(r)' /\ \A t \in Reindexers \ {r} : reindex'[t] = reindex[t]
    BY <1>m, <2>1, <2>2, <2>5
  <2> QED BY <1>k, <1>none, <1>s, <2>2, <2>5, <2>6
<1>8. ASSUME FailReindexJob(r), q.queued # <<>> PROVE Registered' /\ Persists
  <2> DEFINE rest == Tail(q.queued)
             pc == IF Tail(q.queued) = <<>> THEN "aborted" ELSE "failDoc"
  <2>1. Request(r, pc, q.todo, q.current, rest)
    BY <1>8, RequestTurns
  <2>2. /\ q.pc = "failJob" /\ docs' = docs /\ broker' = broker
        /\ jobs' = SetJobStatus(Head(q.queued)[2], "failed")
    BY <1>8 DEF FailReindexJob, ReindexAt
  <2>3. ToSet(rest) \subseteq ToSet(q.queued) /\ pc # "pointDoc"
    BY <1>8, <1>y, ElementsOfTail
  <2>4. DocsPersist({}) /\ JobsPersist({})
    BY <2>2, StatusPersists
  <2>5. ReindexKnown(r)' /\ \A t \in Reindexers \ {r} : reindex'[t] = reindex[t]
    <3> HIDE DEF rest, pc
    <3> QED BY <1>m, <2>1, <2>2, <2>3, <2>4
  <2> QED BY <1>k, <1>none, <1>s, <2>2, <2>4, <2>5
<1>9. ASSUME ReindexFails(r) PROVE Registered' /\ Persists
  <2>1. Request(r, "aborted", {}, <<None, None>>, <<>>)
    BY <1>9, RequestTurns
  <2>2. docs' = docs /\ jobs' = jobs /\ broker' = broker
    BY <1>9 DEF ReindexFails
  <2>3. ToSet(<<>>) = {}
    BY DEF ToSet
  <2>4. ReindexKnown(r)' /\ \A t \in Reindexers \ {r} : reindex'[t] = reindex[t]
    BY <2>1, <2>3 DEF Request, ReindexKnown
  <2> QED BY <1>k, <1>none, <1>s, <1>u, <2>2, <2>4
<1>10. q.pc \in {"failDoc", "failJob"} => q.queued # <<>>
  BY DEF ReindexInOrder, InOrder
<1>11. FailReindexDocument(r) \/ FailReindexJob(r) => q.queued # <<>>
  BY <1>10 DEF FailReindexDocument, FailReindexJob, ReindexAt
<1> QED BY <1>1, <1>2, <1>3, <1>4, <1>5, <1>6, <1>7, <1>8, <1>9, <1>11

\* And a step of a sweep, which sends for known jobs only.
LEMMA SweepsRegistered ==
    ASSUME TypeOK, Registered, NEW s \in Sweeps,
           ReadFailedJobs(s) \/ SweepProceeds(s) \/ SweepFails(s),
           UNCHANGED <<uploads, worker, deletions, reindex>>
    PROVE  Registered' /\ Persists
<1> DEFINE q == sweeps[s]
           m == <<q.current, s>>
<1>y. /\ jobs \in [Jobs -> Job] /\ broker \in BrokerContents /\ q.todo \subseteq Jobs
  BY DEF TypeOK, StoreTypeOK, BrokerContents, SweepTypeOK
<1>r. SweepKnown(s)
  BY DEF Registered
<1>p. SweepProceeds(s) <=> FindSweptDocument(s) \/ SendSweptMessage(s) \/ CountRetry(s) \/ FinishSweep(s)
  BY DEF SweepProceeds
\* The sweep knows the jobs left to it, whatever it read.
<1>k. ASSUME NEW S, JobsPersist({}), docs' = docs, Sends(S),
             \A n \in Messages \cap S : Known(n[1]),
             \A t \in Sweeps \ {s} : sweeps'[t] = sweeps[t],
             SweepKnown(s)'
      PROVE  Registered' /\ Persists
  <2>1. \A t \in Sweeps : SweepKnown(t)' \/ sweeps'[t] = sweeps[t]
    BY <1>k
  <2>2. (\A j \in {} : JobRecord(j)') /\ {} \in SUBSET (Jobs \ Docs)
    OBVIOUS
  <2> QED BY <1>k, <2>1, <2>2, RegisteredExcept, StatusPersists
<1>n. JobsPersist({}) => \A j \in Jobs : Known(j) => Known(j)'
  BY DEF JobsPersist
<1>m. ASSUME NEW pc, NEW todo \in SUBSET Jobs, NEW cur, SweepTurn(s, pc, todo, cur),
             \A j \in todo : Known(j),
             pc \in {"send", "count"} => cur \in Jobs /\ Known(cur),
             JobsPersist({})
      PROVE  SweepKnown(s)' /\ \A t \in Sweeps \ {s} : sweeps'[t] = sweeps[t]
  <2>1. \A j \in todo : Known(j)'
    BY <1>m, <1>n
  <2>2. pc \in {"send", "count"} => cur \in Jobs /\ Known(cur)'
    BY <1>m, <1>n
  <2> QED BY <1>m, <2>1, <2>2 DEF SweepTurn, SweepKnown, Known
<1>u. jobs' = jobs => JobsPersist({})
  BY StatusPersists
<1>s. broker' = broker => Sends({})
  BY DEF Sends
<1>none. \A n \in Messages \cap {} : Known(n[1])
  OBVIOUS
<1>t. TypeOK
  OBVIOUS
<1>1. ASSUME ReadFailedJobs(s) PROVE Registered' /\ Persists
  <2>1. SweepTurn(s, "find", Retriable, None)
    BY <1>1, SweepTurns
  <2>2. docs' = docs /\ jobs' = jobs /\ broker' = broker
    BY <1>1 DEF ReadFailedJobs
  <2>3. Retriable \in SUBSET Jobs /\ \A j \in Retriable : Known(j)
    BY DEF Retriable, Known
  <2>4. SweepKnown(s)' /\ \A t \in Sweeps \ {s} : sweeps'[t] = sweeps[t]
    BY <1>m, <1>u, <2>1, <2>2, <2>3
  <2> QED BY <1>k, <1>none, <1>s, <1>u, <2>2, <2>4
<1>2. ASSUME FindSweptDocument(s) PROVE Registered' /\ Persists
  <2>1. PICK j \in q.todo, pc \in {"send", "find"} : SweepTurn(s, pc, q.todo \ {j}, j)
    BY <1>2, SweepTurns
  <2>2. docs' = docs /\ jobs' = jobs /\ broker' = broker
    BY <1>2 DEF FindSweptDocument
  <2>3. j \in Jobs /\ Known(j) /\ \A i \in q.todo \ {j} : Known(i)
    BY <1>r, <1>y DEF SweepKnown
  <2>4. q.todo \ {j} \in SUBSET Jobs
    BY <1>y
  <2>5. SweepKnown(s)' /\ \A t \in Sweeps \ {s} : sweeps'[t] = sweeps[t]
    <3> DEFINE left == q.todo \ {j}
    <3>1. left \in SUBSET Jobs /\ (\A i \in left : Known(i)) /\ SweepTurn(s, pc, left, j)
      BY <2>1, <2>3, <2>4
    <3> HIDE DEF left
    <3> QED BY <1>m, <1>u, <2>2, <2>3, <3>1
  <2> QED BY <1>k, <1>none, <1>s, <1>u, <2>2, <2>5
<1>3. ASSUME SendSweptMessage(s) PROVE Registered' /\ Persists
  <2>1. SweepTurn(s, "count", q.todo, q.current)
    BY <1>3, SweepTurns
  <2>2. /\ q.pc = "send" /\ docs' = docs /\ jobs' = jobs
        /\ broker' = broker \/ broker' = Enqueued(m)
    BY <1>3 DEF SendSweptMessage
  <2>3. /\ q.current \in Jobs /\ Known(q.current)
        /\ \A j \in q.todo : Known(j)
    BY <1>r, <2>2 DEF SweepKnown
  <2>4. m \in Messages
    BY <2>3, BoundsAssumption DEF Messages, Sweeps
  <2>5. Sends({m})
    BY <1>y, <2>2, <2>4, SendsOne DEF EnqueuedDespiteError
  <2>6. SweepKnown(s)' /\ \A t \in Sweeps \ {s} : sweeps'[t] = sweeps[t]
    BY <1>m, <1>u, <1>y, <2>1, <2>2, <2>3
  <2>7. \A n \in Messages \cap {m} : Known(n[1])
    BY <2>3
  <2> QED BY <1>k, <1>u, <2>2, <2>5, <2>6, <2>7
<1>4. ASSUME CountRetry(s) PROVE Registered' /\ Persists
  <2> DEFINE j == q.current
  <2>1. SweepTurn(s, "find", q.todo, q.current)
    BY <1>4, SweepTurns
  <2>2. /\ q.pc = "count" /\ docs' = docs /\ broker' = broker
        /\ jobs' = jobs \/ (Exists(jobs[j]) /\ jobs' = [jobs EXCEPT ![j].retry_count = @ + 1])
    BY <1>4 DEF CountRetry
  <2>3. \A i \in Jobs : jobs'[i] = jobs[i] \/ jobs'[i] = [jobs[i] EXCEPT !.retry_count = @ + 1]
    <3> HIDE DEF j
    <3> QED BY <1>y, <2>2
  <2>4. \A i \in Jobs : jobs[i] \in Job
    BY <1>y
  <2>5. JobsPersist({})
    BY <2>3, <2>4 DEF JobsPersist, Known, Job
  <2>6. \A i \in q.todo : Known(i)
    BY <1>r DEF SweepKnown
  <2>7. SweepKnown(s)' /\ \A t \in Sweeps \ {s} : sweeps'[t] = sweeps[t]
    BY <1>m, <1>y, <2>1, <2>5, <2>6
  <2> QED BY <1>k, <1>none, <1>s, <2>2, <2>5, <2>7
<1>5. ASSUME FinishSweep(s) \/ SweepFails(s) PROVE Registered' /\ Persists
  <2>1. SweepTurn(s, "done", q.todo, q.current)
    BY <1>5, SweepTurns
  <2>2. docs' = docs /\ jobs' = jobs
    BY <1>5 DEF FinishSweep, SweepFails
  <2>3. \A i \in q.todo : Known(i)
    BY <1>r DEF SweepKnown
  <2>4. SweepKnown(s)' /\ \A t \in Sweeps \ {s} : sweeps'[t] = sweeps[t]
    BY <1>m, <1>u, <1>y, <2>1, <2>2, <2>3
  <2>5. CASE broker' = broker
    BY <1>k, <1>none, <1>s, <1>u, <2>2, <2>4, <2>5
  <2>6. CASE broker' # broker
    <3>1. q.pc = "send" /\ broker' \in EnqueuedDespiteError(m)
      BY <1>5, <2>6 DEF FinishSweep, SweepFails
    <3>2. q.current \in Jobs /\ Known(q.current)
      BY <1>r, <3>1 DEF SweepKnown
    <3>3. m \in Messages
      BY <3>2, BoundsAssumption DEF Messages, Sweeps
    <3>4. Sends({m})
      BY <1>y, <3>1, <3>3, SendsOne
    <3>5. \A n \in Messages \cap {m} : Known(n[1])
      BY <3>2
    <3> QED BY <1>k, <1>u, <2>2, <2>4, <3>4, <3>5
  <2> QED BY <2>5, <2>6
<1> QED BY <1>1, <1>2, <1>3, <1>4, <1>5, <1>p

\* Nothing is there to be registered.
LEMMA RegisteredInitially == Init => Registered
<1> SUFFICES ASSUME Init PROVE Registered
  OBVIOUS
<1> USE DEF Init, StoreInit, UploadInit, WorkerInit, AdminInit, SweepInit
<1>1. \A d \in Docs : ~Inserted(d) /\ docs[d].superseded_by = None /\ uploads[d].pc = "off"
  BY DEF Inserted, NoDocument
<1>2. \A j \in Jobs : ~Known(j)
  BY DEF Known, NoJob
<1>3. \A d \in Docs : d \in Jobs
  BY BoundsAssumption DEF Docs, Jobs
<1>4. \A d \in Docs : UploadStage(d) /\ RecordOf(d)
  BY <1>1, <1>2, <1>3 DEF UploadStage, RecordOf, AfterDoc, AfterJob
<1>5. \A j \in Jobs : JobRecord(j)
  BY <1>2 DEF JobRecord
<1>6. \A r \in Reindexers : ReindexKnown(r)
  <2>1. ToSet(<<>>) = {}
    BY DEF ToSet
  <2> QED BY <2>1 DEF ReindexKnown, NoReindex
<1>7. \A s \in Sweeps : SweepKnown(s)
  BY DEF SweepKnown
<1>8. \A m \in Messages : broker[m].state = "unsent"
  OBVIOUS
<1>9. \A w \in Workers : HoldsMessage(w)
  BY DEF HoldsMessage, Idle
<1> QED BY <1>4, <1>5, <1>6, <1>7, <1>8, <1>9 DEF Registered

\* Every step keeps records registered, and the records themselves.
LEMMA RegisteredPreserved == IInv /\ Registered /\ [Next]_vars => Registered' /\ Persists
<1> SUFFICES ASSUME IInv, Registered, [Next]_vars PROVE Registered' /\ Persists
  OBVIOUS
<1>y. TypeOK /\ ReindexInOrder
  BY DEF IInv
<1>1. CASE UploadStep /\ UNCHANGED <<worker, deletions, reindex, sweeps>>
  BY <1>1, <1>y, UploadsRegistered DEF UploadStep, Uploading
<1>2. CASE BrokerStep /\ UNCHANGED <<uploads, worker, deletions, reindex, sweeps>>
  BY <1>2, <1>y, BrokerSilent, RegisteredStays, StatusPersists
<1>3. CASE WorkerStep /\ UNCHANGED <<uploads, deletions, reindex, sweeps>>
  BY <1>3, <1>y, WorkersRegistered DEF WorkerStep
<1>4. CASE DeletionStep /\ UNCHANGED <<uploads, worker, sweeps>>
  <2>1. PICK d \in Deletable : StartDeletion(d) \/ DeleteVectors(d) \/ DeleteJobs(d)
                               \/ DeleteDocument(d) \/ DeletionFails(d)
    BY <1>4 DEF DeletionStep
  <2>2. reindex' = reindex
    BY <2>1 DEF StartDeletion, DeleteVectors, DeleteJobs, DeleteDocument, DeletionFails
  <2> QED BY <1>4, <1>y, <2>1, <2>2, DeletionsPersist, RegisteredStays
<1>5. CASE ReindexStep /\ UNCHANGED <<uploads, worker, sweeps>>
  BY <1>5, <1>y, ReindexRegistered DEF ReindexStep
<1>6. CASE SweepStep /\ UNCHANGED <<uploads, worker, deletions, reindex>>
  BY <1>6, <1>y, SweepsRegistered DEF SweepStep
<1>7. CASE UNCHANGED vars
  <2>1. DocsPersist({}) /\ JobsPersist({}) /\ Sends({})
    <3>1. docs' = docs /\ jobs' = jobs /\ broker' = broker
      BY <1>7 DEF vars
    <3> QED BY <1>y, <3>1, StatusPersists DEF Sends
  <2> QED BY <1>7, <1>y, <2>1, RegisteredStays DEF vars
<1> QED BY <1>1, <1>2, <1>3, <1>4, <1>5, <1>6, <1>7 DEF Next

\* The records of documents, jobs and messages stay consistent with each other and with
\* every request, worker and sweep that knows them, whatever fails in between.
THEOREM RecordsStayRegistered == Spec => [](IInv /\ Registered)
<1>1. Init => IInv /\ Registered
  BY InitialInvariant, RegisteredInitially
<1>2. IInv /\ Registered /\ [Next]_vars => (IInv /\ Registered)'
  BY InvariantPreserved, RegisteredPreserved
<1> QED BY <1>1, <1>2, PTL DEF Spec

-----------------------------------------------------------------------------
(* Who moves the status of a document, and of a job. *)

DocStays(d) == docs'[d].status = docs[d].status /\ docs'[d].job_id = docs[d].job_id
Repoints(d, j, s) == Exists(docs[d]) /\ docs'[d].status = s /\ docs'[d].job_id = j
DocBecomes(d, s) == Repoints(d, docs[d].job_id, s)

JobStays(j) == jobs'[j].status = jobs[j].status
JobBecomes(j, s) == Exists(jobs[j]) /\ jobs'[j].status = s

\* SetDocStatus moves one document, if it exists.
LEMMA SetDocStatusMoves ==
    ASSUME docs \in [Docs -> Document], NEW d \in Docs, NEW e, NEW s, docs' = SetDocStatus(e, s)
    PROVE  DocStays(d) \/ (d = e /\ DocBecomes(d, s))
<1>1. docs' = docs \/ (Exists(docs[e]) /\ docs' = [docs EXCEPT ![e].status = s])
  BY DEF SetDocStatus
<1>2. docs'[d] = docs[d] \/ (e = d /\ Exists(docs[d]) /\ docs'[d] = [docs[d] EXCEPT !.status = s])
  BY <1>1
<1>3. docs[d] \in Document
  OBVIOUS
<1> QED BY <1>2, <1>3 DEF DocStays, DocBecomes, Repoints, Document

\* So does pointing it to another job.
LEMMA RepointingMoves ==
    ASSUME docs \in [Docs -> Document], NEW d \in Docs, NEW e, NEW s, NEW j,
           docs' = IF Exists(docs[e]) THEN [docs EXCEPT ![e].status = s, ![e].job_id = j] ELSE docs
    PROVE  DocStays(d) \/ (d = e /\ Repoints(d, j, s))
<1> DEFINE old == docs[d]
           mid == [status |-> s, job_id |-> old.job_id, version |-> old.version,
                   lineage_id |-> old.lineage_id, superseded_by |-> old.superseded_by,
                   content_hash |-> old.content_hash]
           new == [status |-> s, job_id |-> j, version |-> old.version,
                   lineage_id |-> old.lineage_id, superseded_by |-> old.superseded_by,
                   content_hash |-> old.content_hash]
<1>1. docs' = docs \/ (Exists(docs[e]) /\ docs' = [docs EXCEPT ![e] = [[docs[e] EXCEPT !.status = s] EXCEPT !.job_id = j]])
  OBVIOUS
<1>2. docs'[d] = old \/ (e = d /\ Exists(old) /\ docs'[d] = [[old EXCEPT !.status = s] EXCEPT !.job_id = j])
  BY <1>1
<1>3. [old EXCEPT !.status = s] = mid
  BY DEF Document
<1>4. [mid EXCEPT !.job_id = j] = new
  OBVIOUS
<1>5. docs'[d] = old \/ (e = d /\ Exists(old) /\ docs'[d] = new)
  <2> HIDE DEF old, mid, new
  <2> QED BY <1>2, <1>3, <1>4
<1>6. new.status = s /\ new.job_id = j
  OBVIOUS
<1>7. docs'[d] = docs[d] \/ (e = d /\ Exists(docs[d]) /\ docs'[d].status = s /\ docs'[d].job_id = j)
  <2> HIDE DEF new
  <2> QED BY <1>5, <1>6
<1> QED BY <1>7 DEF DocStays, Repoints

\* SetJobStatus moves one job, if it exists.
LEMMA SetJobStatusMoves ==
    ASSUME jobs \in [Jobs -> Job], NEW j \in Jobs, NEW i, NEW s, jobs' = SetJobStatus(i, s)
    PROVE  JobStays(j) \/ (j = i /\ JobBecomes(j, s))
<1>1. jobs' = jobs \/ (Exists(jobs[i]) /\ jobs' = [jobs EXCEPT ![i].status = s])
  BY DEF SetJobStatus
<1>2. jobs'[j] = jobs[j] \/ (i = j /\ Exists(jobs[j]) /\ jobs'[j] = [jobs[j] EXCEPT !.status = s])
  BY <1>1
<1>3. jobs[j] \in Job
  OBVIOUS
<1> QED BY <1>2, <1>3 DEF JobStays, JobBecomes, Job

\* The steps that move the status of document d.
WorkerMovesDoc(w, d) ==
    /\ DocOf(w) = d
    /\ \/ MarkDocumentProcessing(w) /\ DocBecomes(d, "processing")
       \/ ReadyDoc(w) /\ DocBecomes(d, "ready")
       \/ (FailDoc(w) \/ GiveUpDoc(w)) /\ DocBecomes(d, "failed")

DocMoves(d) ==
    \/ DocStays(d)
    \/ InsertDocument(d) /\ docs'[d].status = "queued" /\ docs'[d].job_id = d
    \/ UndoDocument(d) /\ DocBecomes(d, "deleted")
    \/ FailUploadedDocument(d) /\ DocBecomes(d, "failed")
    \/ \E w \in Workers : WorkerMovesDoc(w, d)
    \/ d \in Deletable /\ DeleteDocument(d) /\ DocBecomes(d, "deleted")
    \/ \E r \in Reindexers :
          /\ PointDocument(r)
          /\ reindex[r].current[1] = d /\ Repoints(d, reindex[r].current[2], "queued")
    \/ \E r \in Reindexers :
          /\ FailReindexDocument(r)
          /\ Head(reindex[r].queued)[1] = d /\ Repoints(d, Head(reindex[r].queued)[2], "failed")

\* Nothing else moves it.
LEMMA DocumentsMove ==
    ASSUME TypeOK, [Next]_vars, NEW d \in Docs
    PROVE  DocMoves(d)
<1>y. docs \in [Docs -> Document]
  BY DEF TypeOK, StoreTypeOK
<1>k. docs' = docs => DocStays(d)
  BY DEF DocStays
<1>s. \A e, s : docs' = SetDocStatus(e, s) => DocStays(d) \/ (d = e /\ DocBecomes(d, s))
  BY <1>y, SetDocStatusMoves
<1>r. \A e, j, s : docs' = (IF Exists(docs[e]) THEN [docs EXCEPT ![e].status = s, ![e].job_id = j]
                            ELSE docs)
                   => DocStays(d) \/ (d = e /\ Repoints(d, j, s))
  BY <1>y, RepointingMoves
<1>1. CASE UploadStep
  <2>1. PICK e \in Docs : UploadProceeds(e) \/ \E c \in Contents : StartUpload(e, c)
    BY <1>1 DEF UploadStep
  <2>2. ASSUME InsertDocument(e) PROVE DocMoves(d)
    <3> DEFINE new == [status |-> "queued", job_id |-> e, version |-> uploads[e].version,
                       lineage_id |-> uploads[e].lineage_id, superseded_by |-> None,
                       content_hash |-> uploads[e].content]
    <3>1. docs' = [docs EXCEPT ![e] = new] /\ new.status = "queued" /\ new.job_id = e
      BY <2>2 DEF InsertDocument
    <3> HIDE DEF new
    <3>2. CASE d = e
      BY <1>y, <2>2, <3>1, <3>2 DEF DocMoves
    <3>3. CASE d # e
      BY <1>y, <3>1, <3>3 DEF DocMoves, DocStays
    <3> QED BY <3>2, <3>3
  <2>3. UndoDocument(e) => DocMoves(d)
    BY <1>s DEF UndoDocument, DocMoves
  <2>4. FailUploadedDocument(e) => DocMoves(d)
    BY <1>s DEF FailUploadedDocument, DocMoves
  <2>5. ~InsertDocument(e) /\ ~UndoDocument(e) /\ ~FailUploadedDocument(e) => docs' = docs
    BY <2>1 DEF UploadProceeds, StartUpload, FindPredecessor, PutFile, InsertUploadJob,
                SendUploadMessage, LoseUploadMessage, UndoFile, FailUploadedJob,
                UploadCallRaises, UploadCrashes
  <2> QED BY <1>k, <2>2, <2>3, <2>4, <2>5 DEF DocMoves
<1>2. CASE BrokerStep
  BY <1>2, <1>k, BrokerSilent DEF DocMoves
<1>3. CASE WorkerStep
  <2>1. PICK w \in Workers : WorkerProceeds(w) \/ WorkerFails(w)
    BY <1>3 DEF WorkerStep
  <2>2. MarkDocumentProcessing(w) => DocStays(d) \/ WorkerMovesDoc(w, d)
    BY <1>s DEF MarkDocumentProcessing, WorkerMovesDoc
  <2>3. ReadyDoc(w) => DocStays(d) \/ WorkerMovesDoc(w, d)
    BY <1>s DEF ReadyDoc, WorkerMovesDoc
  <2>4. FailDoc(w) => DocStays(d) \/ WorkerMovesDoc(w, d)
    BY <1>s DEF FailDoc, WorkerMovesDoc
  <2>5. GiveUpDoc(w) => DocStays(d) \/ WorkerMovesDoc(w, d)
    BY <1>s DEF GiveUpDoc, WorkerMovesDoc
  <2>6. ASSUME ArchivePredecessor(w) PROVE DocStays(d)
    <3>1. docs'[d] = docs[d] \/ docs'[d] = [docs[d] EXCEPT !.superseded_by = DocOf(w)]
      BY <1>y, <2>6 DEF ArchivePredecessor
    <3>2. docs[d] \in Document
      BY <1>y
    <3> QED BY <3>1, <3>2 DEF Document, DocStays
  <2>7. \/ \E m \in Messages : Receive(w, m)
        \/ Claim(w) \/ SkipClaimed(w) \/ LoadDocument(w) \/ Deduplicate(w) \/ Upsert(w)
        \/ FindPredecessorToArchive(w) \/ DeletePredecessorVectors(w) \/ RollbackVectors(w)
        \/ Ack(w) \/ Drop(w) \/ ReadyJob(w) \/ GiveUpJob(w) \/ FailJob(w)
        => docs' = docs
    BY DEF Receive, Claim, SkipClaimed, LoadDocument, Deduplicate, Upsert, FindPredecessorToArchive,
           DeletePredecessorVectors, RollbackVectors, Ack, Drop, ReadyJob, GiveUpJob, FailJob
  <2>8. WorkerFails(w) => docs' = docs
    BY DEF WorkerFails, PredecessorDeletionRaises, GuardedCallRaises, UnguardedCallRaises,
           GiveUpRaises, WorkerCrashes
  <2>9. DocStays(d) \/ WorkerMovesDoc(w, d)
    BY <1>k, <2>1, <2>2, <2>3, <2>4, <2>5, <2>6, <2>7, <2>8 DEF WorkerProceeds
  <2> QED BY <2>9 DEF DocMoves
<1>4. CASE DeletionStep
  <2>1. PICK e \in Deletable : StartDeletion(e) \/ DeleteVectors(e) \/ DeleteJobs(e)
                               \/ DeleteDocument(e) \/ DeletionFails(e)
    BY <1>4 DEF DeletionStep
  <2>2. DeleteDocument(e) => DocMoves(d)
    BY <1>s DEF DeleteDocument, DocMoves
  <2>3. ~DeleteDocument(e) => docs' = docs
    BY <2>1 DEF StartDeletion, DeleteVectors, DeleteJobs, DeletionFails
  <2> QED BY <1>k, <2>2, <2>3 DEF DocMoves
<1>5. CASE ReindexStep
  <2>1. PICK r \in Reindexers :
           \/ StartReindex(r) \/ WipeNamespace(r) \/ FindReady(r) \/ InsertReindexJob(r)
           \/ PointDocument(r) \/ SendReindexMessage(r) \/ FinishReindex(r)
           \/ ReindexSendRaises(r) \/ FailReindexDocument(r) \/ FailReindexJob(r)
           \/ ReindexFails(r)
    BY <1>5 DEF ReindexStep
  <2>2. PointDocument(r) => DocMoves(d)
    BY <1>r DEF PointDocument, DocMoves
  <2>3. FailReindexDocument(r) => DocMoves(d)
    BY <1>r DEF FailReindexDocument, DocMoves
  <2>4. docs' = docs \/ PointDocument(r) \/ FailReindexDocument(r)
    BY <2>1 DEF StartReindex, WipeNamespace, FindReady, InsertReindexJob, SendReindexMessage,
                FinishReindex, ReindexSendRaises, FailReindexJob, ReindexFails
  <2> QED BY <1>k, <2>2, <2>3, <2>4 DEF DocMoves
<1>6. CASE SweepStep
  <2>1. docs' = docs
    BY <1>6 DEF SweepStep, ReadFailedJobs, SweepProceeds, FindSweptDocument, SendSweptMessage,
                CountRetry, FinishSweep, SweepFails
  <2> QED BY <1>k, <2>1 DEF DocMoves
<1>7. CASE UNCHANGED vars
  BY <1>7, <1>k DEF vars, DocMoves
<1> QED BY <1>1, <1>2, <1>3, <1>4, <1>5, <1>6, <1>7 DEF Next

\* The steps that move the status of job j.
WorkerMovesJob(w, j) ==
    /\ JobOf(w) = j
    /\ \/ Claim(w) /\ JobBecomes(j, "processing")
       \/ ReadyJob(w) /\ JobBecomes(j, "ready")
       \/ (FailJob(w) \/ GiveUpJob(w)) /\ JobBecomes(j, "failed")

JobMovesBy(j) ==
    \/ JobStays(j)
    \/ j \in Docs /\ InsertUploadJob(j) /\ jobs'[j].status = "queued"
    \/ j \in Docs /\ FailUploadedJob(j) /\ JobBecomes(j, "failed")
    \/ \E w \in Workers : WorkerMovesJob(w, j)
    \/ \E d \in Deletable : DeleteJobs(d) /\ jobs[j].document_id = d /\ JobBecomes(j, "deleted")
    \/ \E r \in Reindexers :
          /\ InsertReindexJob(r) /\ j \in Jobs \ Docs
          /\ jobs[j].status = "absent" /\ jobs'[j].status = "queued"
          /\ reindex'[r].current[2] = j
    \/ \E r \in Reindexers :
          FailReindexJob(r) /\ Head(reindex[r].queued)[2] = j /\ JobBecomes(j, "failed")

\* Nothing else moves it.
LEMMA JobsMove ==
    ASSUME TypeOK, [Next]_vars, NEW j \in Jobs
    PROVE  JobMovesBy(j)
<1>y. jobs \in [Jobs -> Job] /\ jobs[j] \in Job
  BY DEF TypeOK, StoreTypeOK
<1>k. jobs' = jobs => JobStays(j)
  BY DEF JobStays
<1>s. \A i, s : jobs' = SetJobStatus(i, s) => JobStays(j) \/ (j = i /\ JobBecomes(j, s))
  BY <1>y, SetJobStatusMoves
<1>i. \A i, d : jobs' = InsertJob(i, d) => JobStays(j) \/ (j = i /\ jobs'[j].status = "queued")
  BY <1>y DEF InsertJob, NoJob, JobStays
<1>1. CASE UploadStep
  <2>1. PICK e \in Docs : UploadProceeds(e) \/ \E c \in Contents : StartUpload(e, c)
    BY <1>1 DEF UploadStep
  <2>2. InsertUploadJob(e) => JobMovesBy(j)
    BY <1>i DEF InsertUploadJob, JobMovesBy
  <2>3. FailUploadedJob(e) => JobMovesBy(j)
    BY <1>s DEF FailUploadedJob, JobMovesBy
  <2>4. ~InsertUploadJob(e) /\ ~FailUploadedJob(e) => jobs' = jobs
    BY <2>1 DEF UploadProceeds, StartUpload, FindPredecessor, PutFile, InsertDocument,
                SendUploadMessage, LoseUploadMessage, UndoFile, UndoDocument,
                FailUploadedDocument, UploadCallRaises, UploadCrashes
  <2> QED BY <1>k, <2>2, <2>3, <2>4 DEF JobMovesBy
<1>2. CASE BrokerStep
  BY <1>2, <1>k, BrokerSilent DEF JobMovesBy
<1>3. CASE WorkerStep
  <2>1. PICK w \in Workers : WorkerProceeds(w) \/ WorkerFails(w)
    BY <1>3 DEF WorkerStep
  <2>2. ASSUME Claim(w) PROVE JobStays(j) \/ WorkerMovesJob(w, j)
    <3>1. CASE JobOf(w) = j
      <4>1. jobs[j].status = "queued" /\ jobs'[j].status = "processing"
        BY <1>y, <2>2, <3>1 DEF Claim, Claimable, Job
      <4> QED BY <2>2, <3>1, <4>1 DEF WorkerMovesJob, JobBecomes, Exists
    <3>2. CASE JobOf(w) # j
      BY <1>y, <2>2, <3>2 DEF Claim, JobStays
    <3> QED BY <3>1, <3>2
  <2>3. ReadyJob(w) => JobStays(j) \/ WorkerMovesJob(w, j)
    BY <1>s DEF ReadyJob, WorkerMovesJob
  <2>4. GiveUpJob(w) => JobStays(j) \/ WorkerMovesJob(w, j)
    BY <1>s DEF GiveUpJob, WorkerMovesJob
  <2>5. ASSUME FailJob(w) PROVE JobStays(j) \/ WorkerMovesJob(w, j)
    <3> DEFINE i == JobOf(w)
               error == worker[w].error
               failed == SetJobStatus(i, "failed")
    <3>1. CASE ~Exists(jobs[i])
      <4>1. jobs' = jobs
        BY <2>5, <3>1 DEF FailJob, SetJobStatus
      <4> QED BY <1>k, <4>1
    <3>2. CASE Exists(jobs[i])
      <4> DEFINE mid == [jobs EXCEPT ![i].status = "failed"]
      <4>1. jobs' = [mid EXCEPT ![i].error_type = error]
        BY <2>5, <3>2 DEF FailJob, SetJobStatus
      <4>2. mid \in [Jobs -> Job]
        BY <1>y DEF Job, Status
      <4>3. mid[j] = IF i = j THEN [jobs[j] EXCEPT !.status = "failed"] ELSE jobs[j]
        BY <1>y
      <4>m. mid[j].status = IF i = j THEN "failed" ELSE jobs[j].status
        BY <1>y, <4>3 DEF Job
      <4> HIDE DEF mid, error, i
      <4>4. jobs'[j] = mid[j] \/ jobs'[j] = [mid[j] EXCEPT !.error_type = error]
        BY <4>1, <4>2
      <4>5. mid[j] \in Job
        BY <4>2
      <4>6. jobs'[j].status = mid[j].status
        BY <4>4, <4>5 DEF Job
      <4>7. i = j => Exists(jobs[j]) /\ jobs'[j].status = "failed"
        BY <3>2, <4>m, <4>6
      <4>8. i # j => JobStays(j)
        BY <4>m, <4>6 DEF JobStays
      <4> QED BY <2>5, <4>7, <4>8 DEF WorkerMovesJob, JobBecomes, i
    <3> QED BY <3>1, <3>2
  <2>6. \/ \E m \in Messages : Receive(w, m)
        \/ SkipClaimed(w) \/ MarkDocumentProcessing(w) \/ LoadDocument(w) \/ Deduplicate(w)
        \/ Upsert(w) \/ FindPredecessorToArchive(w) \/ DeletePredecessorVectors(w)
        \/ RollbackVectors(w) \/ ArchivePredecessor(w) \/ ReadyDoc(w) \/ FailDoc(w)
        \/ Ack(w) \/ GiveUpDoc(w) \/ Drop(w)
        => jobs' = jobs
    BY DEF Receive, SkipClaimed, MarkDocumentProcessing, LoadDocument, Deduplicate, Upsert,
           FindPredecessorToArchive, DeletePredecessorVectors, RollbackVectors,
           ArchivePredecessor, ReadyDoc, FailDoc, Ack, GiveUpDoc, Drop
  <2>7. WorkerFails(w) => jobs' = jobs
    BY DEF WorkerFails, PredecessorDeletionRaises, GuardedCallRaises, UnguardedCallRaises,
           GiveUpRaises, WorkerCrashes
  <2>8. JobStays(j) \/ WorkerMovesJob(w, j)
    BY <1>k, <2>1, <2>2, <2>3, <2>4, <2>5, <2>6, <2>7 DEF WorkerProceeds
  <2> QED BY <2>8 DEF JobMovesBy
<1>4. CASE DeletionStep
  <2>1. PICK d \in Deletable : StartDeletion(d) \/ DeleteVectors(d) \/ DeleteJobs(d)
                               \/ DeleteDocument(d) \/ DeletionFails(d)
    BY <1>4 DEF DeletionStep
  <2>2. ASSUME DeleteJobs(d) PROVE JobMovesBy(j)
    <3>1. jobs'[j] = IF j \in JobsOf(d) THEN [jobs[j] EXCEPT !.status = "deleted"] ELSE jobs[j]
      BY <2>2 DEF DeleteJobs
    <3>2. CASE j \in JobsOf(d)
      <4>1. jobs'[j].status = "deleted"
        BY <1>y, <3>1, <3>2 DEF Job
      <4>2. Exists(jobs[j]) /\ jobs[j].document_id = d
        BY <3>2 DEF JobsOf
      <4> QED BY <2>2, <4>1, <4>2 DEF JobMovesBy, JobBecomes
    <3>3. CASE j \notin JobsOf(d)
      BY <3>1, <3>3 DEF JobMovesBy, JobStays
    <3> QED BY <3>2, <3>3
  <2>3. ~DeleteJobs(d) => jobs' = jobs
    BY <2>1 DEF StartDeletion, DeleteVectors, DeleteDocument, DeletionFails
  <2> QED BY <1>k, <2>2, <2>3 DEF JobMovesBy
<1>5. CASE ReindexStep
  <2>1. PICK r \in Reindexers :
           \/ StartReindex(r) \/ WipeNamespace(r) \/ FindReady(r) \/ InsertReindexJob(r)
           \/ PointDocument(r) \/ SendReindexMessage(r) \/ FinishReindex(r)
           \/ ReindexSendRaises(r) \/ FailReindexDocument(r) \/ FailReindexJob(r)
           \/ ReindexFails(r)
    BY <1>5 DEF ReindexStep
  <2>2. ASSUME InsertReindexJob(r) PROVE JobMovesBy(j)
    <3>1. PICK d \in reindex[r].todo, i \in Jobs \ Docs :
             /\ jobs[i].status = "absent" /\ jobs' = InsertJob(i, d)
             /\ Request(r, "pointDoc", reindex[r].todo \ {d}, <<d, i>>, reindex[r].queued)
      BY <2>2, RequestTurns
    <3>2. reindex'[r].current[2] = i
      BY <3>1 DEF Request
    <3> QED BY <1>i, <2>2, <3>1, <3>2 DEF JobMovesBy
  <2>3. FailReindexJob(r) => JobMovesBy(j)
    BY <1>s DEF FailReindexJob, JobMovesBy
  <2>4. jobs' = jobs \/ InsertReindexJob(r) \/ FailReindexJob(r)
    BY <2>1 DEF StartReindex, WipeNamespace, FindReady, PointDocument, SendReindexMessage,
                FinishReindex, ReindexSendRaises, FailReindexDocument, ReindexFails
  <2> QED BY <1>k, <2>2, <2>3, <2>4 DEF JobMovesBy
<1>6. CASE SweepStep
  <2>1. \A s \in Sweeps : ~CountRetry(s) => jobs' = jobs \/ ~(ReadFailedJobs(s) \/ SweepProceeds(s) \/ SweepFails(s))
    BY DEF ReadFailedJobs, SweepProceeds, FindSweptDocument, SendSweptMessage,
           FinishSweep, SweepFails
  <2>2. ASSUME NEW s \in Sweeps, CountRetry(s) PROVE JobStays(j)
    <3>1. jobs'[j] = jobs[j] \/ jobs'[j] = [jobs[j] EXCEPT !.retry_count = @ + 1]
      BY <1>y, <2>2 DEF CountRetry
    <3> QED BY <1>y, <3>1 DEF JobStays, Job
  <2> QED BY <1>6, <1>k, <2>1, <2>2 DEF JobMovesBy, SweepStep
<1>7. CASE UNCHANGED vars
  BY <1>7, <1>k DEF vars, JobMovesBy
<1> QED BY <1>1, <1>2, <1>3, <1>4, <1>5, <1>6, <1>7 DEF Next

-----------------------------------------------------------------------------
(* Jobs nobody has heard of. *)

Unheard(j) ==
    /\ \A m \in Messages : m[1] = j => broker[m].state = "unsent"
    /\ \A w \in Workers : worker[w].pc # "idle" => JobOf(w) # j
    /\ \A s \in Sweeps : j \notin sweeps[s].todo /\ sweeps[s].current # j

\* Who sends a message.
SendsFor(j) ==
    \/ j \in Docs /\ SendUploadMessage(j)
    \/ \E r \in Reindexers : SendReindexMessage(r) /\ Head(reindex[r].queued)[2] = j
    \/ \E s \in Sweeps : sweeps[s].pc = "send" /\ sweeps[s].current = j

\* A send changes no other message.
LEMMA EnqueuedOne ==
    ASSUME broker \in BrokerContents, NEW m \in Messages, NEW k,
           broker' = Enqueued(k), broker'[m] # broker[m]
    PROVE  m = k
<1> DEFINE new == [state |-> "visible", receives |-> 0]
<1>1. Enqueued(k) = broker \/ Enqueued(k) = [broker EXCEPT ![k] = new]
  BY DEF Enqueued
<1> HIDE DEF new
<1> QED BY <1>1 DEF BrokerContents

\* A message that was not sent is sent by the one who has it to send, when a send that raises
\* has sent nothing.
LEMMA MessageSent ==
    ASSUME TypeOK, Registered, ~AmbiguousSend, [Next]_vars, NEW m \in Messages,
           broker[m].state = "unsent", broker'[m].state # "unsent"
    PROVE  SendsFor(m[1])
<1>y. broker \in BrokerContents
  BY DEF TypeOK, StoreTypeOK, BrokerContents
<1>e. \A k : broker' = Enqueued(k) => m = k
  BY <1>y, EnqueuedOne
<1>d. \A k : broker' \in EnqueuedDespiteError(k) => broker' = broker
  BY DEF EnqueuedDespiteError
<1>s. ~Sends({})
  BY DEF Sends
<1>k. broker' # broker
  OBVIOUS
<1>1. CASE UploadStep
  <2>1. PICK e \in Docs : UploadProceeds(e) \/ \E c \in Contents : StartUpload(e, c)
    BY <1>1 DEF UploadStep
  <2>2. ~UploadCallRaises(e)
    BY <1>d, <1>k DEF UploadCallRaises
  <2>3. SendUploadMessage(e)
    BY <1>k, <2>1, <2>2
       DEF UploadProceeds, StartUpload, FindPredecessor, PutFile, InsertDocument, InsertUploadJob,
           LoseUploadMessage, UndoFile, UndoDocument, FailUploadedDocument, FailUploadedJob,
           UploadCrashes
  <2>4. m = UploadMessage(e)
    BY <1>e, <2>3 DEF SendUploadMessage
  <2> QED BY <2>3, <2>4 DEF UploadMessage, SendsFor
<1>2. CASE BrokerStep
  BY <1>2, <1>s, BrokerSilent
<1>3. CASE WorkerStep
  BY <1>3, <1>s, WorkersSilent DEF WorkerStep, Registered
<1>4. CASE DeletionStep
  BY <1>4, <1>k DEF DeletionStep, StartDeletion, DeleteVectors, DeleteJobs, DeleteDocument, DeletionFails
<1>5. CASE ReindexStep
  <2>1. PICK r \in Reindexers :
           \/ StartReindex(r) \/ WipeNamespace(r) \/ FindReady(r) \/ InsertReindexJob(r)
           \/ PointDocument(r) \/ SendReindexMessage(r) \/ FinishReindex(r)
           \/ ReindexSendRaises(r) \/ FailReindexDocument(r) \/ FailReindexJob(r)
           \/ ReindexFails(r)
    BY <1>5 DEF ReindexStep
  <2>2. ~ReindexSendRaises(r)
    BY <1>d, <1>k DEF ReindexSendRaises
  <2>3. SendReindexMessage(r)
    BY <1>k, <2>1, <2>2
       DEF StartReindex, WipeNamespace, FindReady, InsertReindexJob, PointDocument,
           FinishReindex, FailReindexDocument, FailReindexJob, ReindexFails
  <2>4. m = ReindexMessage(r)
    BY <1>e, <1>k, <2>3 DEF SendReindexMessage
  <2> QED BY <2>3, <2>4 DEF ReindexMessage, SendsFor
<1>6. CASE SweepStep
  <2>1. PICK s \in Sweeps : ReadFailedJobs(s) \/ SweepProceeds(s) \/ SweepFails(s)
    BY <1>6 DEF SweepStep
  <2>2. ~SweepFails(s)
    BY <1>d, <1>k DEF SweepFails
  <2>3. SendSweptMessage(s)
    BY <1>k, <2>1, <2>2 DEF ReadFailedJobs, SweepProceeds, FindSweptDocument, CountRetry, FinishSweep
  <2>4. sweeps[s].pc = "send" /\ m = <<sweeps[s].current, s>>
    BY <1>e, <1>k, <2>3 DEF SendSweptMessage
  <2> QED BY <2>4 DEF SendsFor
<1>7. CASE UNCHANGED vars
  BY <1>7, <1>k DEF vars
<1> QED BY <1>1, <1>2, <1>3, <1>4, <1>5, <1>6, <1>7 DEF Next

\* The own steps of a worker: it keeps its message, ends, or receives one.
LEMMA MessageKept ==
    ASSUME TypeOK, NEW w \in Workers, WorkerProceeds(w) \/ WorkerFails(w)
    PROVE  \/ worker[w].pc # "idle" /\ KeepsMessage(w)
           \/ Ended(w)
           \/ \E m \in Messages : Receive(w, m)
<1>1. \A pc : Turn(w, pc) => KeepsMessage(w)
  BY DEF Turn
<1>2. \A pc, f : Freshening(w, pc, f) => KeepsMessage(w)
  BY DEF Freshening
<1>3. \A p : Choosing(w, p) => KeepsMessage(w)
  BY DEF Choosing
<1>4. Failing(w) \/ Loading(w) => KeepsMessage(w)
  BY DEF Failing, Loading
<1>5. KeepsMessage(w) \/ Ended(w) \/ \E m \in Messages : Receive(w, m)
  BY <1>1, <1>2, <1>3, <1>4, WorkerTurns DEF WorkerProceeds, WorkerFails
<1>6. WorkerProceeds(w) => worker[w].pc # "idle" \/ \E m \in Messages : Receive(w, m)
  BY DEF WorkerProceeds, Claim, SkipClaimed, MarkDocumentProcessing, LoadDocument, Deduplicate,
         Upsert, FindPredecessorToArchive, DeletePredecessorVectors, RollbackVectors,
         ArchivePredecessor, ReadyJob, ReadyDoc, FailJob, FailDoc, Ack, GiveUpDoc, GiveUpJob,
         Drop, At
<1>7. WorkerFails(w) => worker[w].pc # "idle"
  BY DEF WorkerFails, PredecessorDeletionRaises, GuardedCallRaises, UnguardedCallRaises,
         GiveUpRaises, WorkerCrashes, At, Guarded, Unguarded
<1> QED BY <1>5, <1>6, <1>7

\* Every step: a worker with a message had it, or has received it.
LEMMA WorkersHear ==
    ASSUME TypeOK, [Next]_vars, NEW w \in Workers, worker'[w].pc # "idle"
    PROVE  \/ worker[w].pc # "idle" /\ worker'[w].msg = worker[w].msg
                                    /\ worker'[w].receives = worker[w].receives
           \/ \E m \in Messages : Receive(w, m) /\ worker'[w].msg = m
<1>1. CASE worker'[w] = worker[w]
  BY <1>1
<1>2. CASE worker'[w] # worker[w]
  <2>1. worker' # worker
    BY <1>2
  <2>2. PICK v \in Workers : WorkerProceeds(v) \/ WorkerFails(v)
    BY <2>1 DEF Next, vars, WorkerStep
  <2>3. v = w
    <3>1. Alone(v)
      BY <2>2, AloneTurns
    <3> QED BY <1>2, <3>1 DEF Alone
  <2>4. ~Ended(w)
    BY DEF Ended
  <2> QED BY <2>2, <2>3, <2>4, MessageKept, ReceptionTurns DEF KeepsMessage
<1> QED BY <1>1, <1>2

\* Every step: a sweep picks up what it had listed, or lists the jobs that failed.
LEMMA SweepsPickUp ==
    ASSUME TypeOK, [Next]_vars, NEW s \in Sweeps
    PROVE  /\ sweeps'[s].todo \subseteq sweeps[s].todo \cup Retriable
           /\ sweeps'[s].current \in {sweeps[s].current, None} \cup sweeps[s].todo
<1>1. CASE sweeps'[s] = sweeps[s]
  BY <1>1
<1>2. CASE sweeps'[s] # sweeps[s]
  <2>1. sweeps' # sweeps
    BY <1>2
  <2>2. PICK t \in Sweeps : ReadFailedJobs(t) \/ SweepProceeds(t) \/ SweepFails(t)
    BY <2>1 DEF Next, vars, SweepStep
  <2>3. \E pc, todo, current : SweepTurn(t, pc, todo, current)
    <3>1. FindSweptDocument(t) => \E j \in sweeps[t].todo, pc \in {"send", "find"} :
                                     SweepTurn(t, pc, sweeps[t].todo \ {j}, j)
      BY SweepTurns
    <3> QED BY <2>2, <3>1, SweepTurns DEF SweepProceeds
  <2>4. t = s
    BY <1>2, <2>3 DEF SweepTurn
  <2>5. ReadFailedJobs(s) => SweepTurn(s, "find", Retriable, None)
    BY SweepTurns
  <2>6. FindSweptDocument(s) =>
          \E j \in sweeps[s].todo, pc \in {"send", "find"} : SweepTurn(s, pc, sweeps[s].todo \ {j}, j)
    BY SweepTurns
  <2>7. SendSweptMessage(s) \/ CountRetry(s) \/ FinishSweep(s) \/ SweepFails(s) =>
          \E pc : SweepTurn(s, pc, sweeps[s].todo, sweeps[s].current)
    BY SweepTurns
  <2> QED BY <2>2, <2>4, <2>5, <2>6, <2>7 DEF SweepTurn, SweepProceeds
<1> QED BY <1>1, <1>2

\* Nobody hears of a job before its message is sent, unless it failed.
LEMMA UnheardStays ==
    ASSUME TypeOK, Registered, ~AmbiguousSend, [Next]_vars, NEW j \in Jobs, Unheard(j),
           jobs[j].status # "failed",
           ~(j \in Docs /\ SendUploadMessage(j)),
           \A r \in Reindexers : ~(SendReindexMessage(r) /\ Head(reindex[r].queued)[2] = j)
    PROVE  Unheard(j)'
<1>1. ~SendsFor(j)
  BY DEF SendsFor, Unheard
<1>2. \A m \in Messages : m[1] = j => broker'[m].state = "unsent"
  BY <1>1, MessageSent DEF Unheard
<1>3. ASSUME NEW w \in Workers, worker'[w].pc # "idle" PROVE worker'[w].msg[1] # j
  <2>1. \A m \in Messages : Receive(w, m) => m[1] # j
    BY DEF Receive, Unheard
  <2>2. worker[w].pc # "idle" => worker[w].msg[1] # j
    BY DEF Unheard, JobOf
  <2> QED BY <1>3, <2>1, <2>2, WorkersHear
<1>4. ASSUME NEW s \in Sweeps PROVE j \notin sweeps'[s].todo /\ sweeps'[s].current # j
  <2>1. j \notin Retriable
    BY DEF Retriable
  <2>2. j # None
    BY BoundsAssumption DEF Jobs, None
  <2> QED BY <2>1, <2>2, SweepsPickUp DEF Unheard
<1> QED BY <1>2, <1>3, <1>4 DEF Unheard, JobOf

=============================================================================
