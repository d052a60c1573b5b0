------------------------------ MODULE DlqSweep ------------------------------
(***************************************************************************)
(* run_dlq_sweep: read the failed jobs once, then send each of them again  *)
(* and count the retry.  Nothing keeps two sweeps from overlapping.        *)
(***************************************************************************)
EXTENDS IngestionStore

CONSTANT MaxDlqRetries      \* settings.max_dlq_retries
ASSUME MaxDlqRetriesAssumption == MaxDlqRetries \in Nat

VARIABLE sweeps

Sweeps == 1..MaxSweeps

\* todo: what is left of failed_jobs, filtered by the values read with them.
SweepInit == sweeps = [s \in Sweeps |-> [pc |-> "off", todo |-> {}, current |-> None]]

Retriable ==
    {j \in Jobs : /\ jobs[j].status = "failed"
                  /\ jobs[j].error_type # "permanent"
                  /\ jobs[j].retry_count < MaxDlqRetries}

ReadFailedJobs(s) ==
    /\ sweeps[s].pc = "off"
    /\ Retriable # {}
    /\ sweeps' = [sweeps EXCEPT ![s] = [pc |-> "find", todo |-> Retriable, current |-> None]]
    /\ NoFault
    /\ UNCHANGED <<docs, jobs, files, vectors, vectorStore, broker>>

FindSweptDocument(s) ==
    /\ sweeps[s].pc = "find"
    /\ \E j \in sweeps[s].todo :
          sweeps' = [sweeps EXCEPT
                       ![s].todo = @ \ {j},
                       ![s].current = j,
                       ![s].pc = IF Exists(docs[jobs[j].document_id]) THEN "send" ELSE "find"]
    /\ NoFault
    /\ UNCHANGED <<docs, jobs, files, vectors, vectorStore, broker>>

SendSweptMessage(s) ==
    /\ sweeps[s].pc = "send"
    /\ sweeps' = [sweeps EXCEPT ![s].pc = "count"]
    /\ \/ broker' = Enqueued(<<sweeps[s].current, s>>) /\ UNCHANGED faults
       \/ MayLoseSilently /\ Fault /\ UNCHANGED broker
    /\ UNCHANGED <<docs, jobs, files, vectors, vectorStore, abandoned>>

CountRetry(s) ==
    /\ sweeps[s].pc = "count"
    /\ LET j == sweeps[s].current IN
       jobs' = IF Exists(jobs[j]) THEN [jobs EXCEPT ![j].retry_count = @ + 1] ELSE jobs
    /\ sweeps' = [sweeps EXCEPT ![s].pc = "find"]
    /\ NoFault
    /\ UNCHANGED <<docs, files, vectors, vectorStore, broker>>

\* for job in failed_jobs is exhausted.
FinishSweep(s) ==
    /\ sweeps[s].pc = "find"
    /\ sweeps[s].todo = {}
    /\ sweeps' = [sweeps EXCEPT ![s].pc = "done"]
    /\ NoFault
    /\ UNCHANGED <<docs, jobs, files, vectors, vectorStore, broker>>

\* A call raises: the sweep ends there, a message it sent stays uncounted.
SweepFails(s) ==
    /\ sweeps[s].pc \in {"find", "send", "count"}
    /\ Fault
    /\ broker' \in IF sweeps[s].pc = "send"
                   THEN EnqueuedDespiteError(<<sweeps[s].current, s>>) ELSE {broker}
    /\ sweeps' = [sweeps EXCEPT ![s].pc = "done"]
    /\ UNCHANGED <<docs, jobs, files, vectors, vectorStore, abandoned>>

SweepProceeds(s) ==
    \/ FindSweptDocument(s) \/ SendSweptMessage(s) \/ CountRetry(s) \/ FinishSweep(s)

SweepStep == \E s \in Sweeps : ReadFailedJobs(s) \/ SweepProceeds(s) \/ SweepFails(s)

SweepTypeOK ==
    sweeps \in [Sweeps -> [pc : {"off", "find", "send", "count", "done"},
                           todo : SUBSET Jobs, current : Jobs \cup {None}]]

=============================================================================
