--------------------------- MODULE CircuitBreaker ---------------------------
(***************************************************************************)
(* app/utils/circuit_breaker.py: one breaker object shared by all the      *)
(* requests of a process that use the same provider.  Each section under   *)
(* the breaker's asyncio.Lock awaits nothing, so it is one action; the     *)
(* awaited provider call between _before_call and _on_success/_on_failure  *)
(* is where other callers, and time, get in.                               *)
(***************************************************************************)
EXTENDS Integers

CONSTANTS
    Callers,            \* requests that use the breaker concurrently
    FailureThreshold,   \* failure_threshold
    RecoveryTimeout     \* recovery_timeout_seconds, in ticks

ASSUME ThresholdAssumption == FailureThreshold \in Nat \ {0}
ASSUME TimeoutAssumption == RecoveryTimeout \in Nat

VARIABLES
    state,              \* _state
    failures,           \* _failures, counted up to FailureThreshold: nothing looks further
    openedFor,          \* monotonic() - _opened_at, counted up to RecoveryTimeout
    trialInProgress,    \* _trial_in_progress
    calls,              \* what each caller awaits: nothing, a call, or the trial call
    \* history
    probes,             \* calls admitted since the breaker last opened
    orphanedTrial       \* a trial of this HALF_OPEN episode was cancelled

vars == <<state, failures, openedFor, trialInProgress, calls, probes, orphanedTrial>>

CLOSED == "closed"
OPEN == "open"
HALF_OPEN == "half_open"
NotOpened == -1         \* _opened_at is None

Init ==
    /\ state = CLOSED
    /\ failures = 0
    /\ openedFor = NotOpened
    /\ trialInProgress = FALSE
    /\ calls = [c \in Callers |-> "idle"]
    /\ probes = 0
    /\ orphanedTrial = FALSE

-----------------------------------------------------------------------------
(* _before_call, lines 53-68: the call is let through, made the trial, or rejected. *)

RecoveryDue == state = OPEN /\ openedFor >= RecoveryTimeout

ProbeDueIgnoringTrial == RecoveryDue \/ state = HALF_OPEN

ProbeDue == RecoveryDue \/ (state = HALF_OPEN /\ ~trialInProgress)

Admit(c) ==
    /\ calls[c] = "idle"
    /\ state = CLOSED
    /\ calls' = [calls EXCEPT ![c] = "ordinary"]
    /\ UNCHANGED <<state, failures, openedFor, trialInProgress, probes, orphanedTrial>>

Probe(c) ==
    /\ calls[c] = "idle"
    /\ ProbeDue
    /\ state' = HALF_OPEN
    /\ trialInProgress' = TRUE
    /\ calls' = [calls EXCEPT ![c] = "trial"]
    /\ probes' = probes + 1
    /\ orphanedTrial' = FALSE
    /\ UNCHANGED <<failures, openedFor>>

Reject(c) ==
    /\ calls[c] = "idle"
    /\ state # CLOSED
    /\ ~ProbeDue
    /\ openedFor' = IF state = OPEN /\ openedFor = NotOpened THEN 0 ELSE openedFor
    /\ UNCHANGED <<state, failures, trialInProgress, calls, probes, orphanedTrial>>

-----------------------------------------------------------------------------
(* The awaited call ends.  _on_success and _on_failure do not ask in which *)
(* state the call was admitted: a call admitted long ago counts too.       *)

SucceedKeepingTrial(c) ==
    /\ calls[c] # "idle"
    /\ state' = CLOSED
    /\ failures' = 0
    /\ openedFor' = NotOpened
    /\ calls' = [calls EXCEPT ![c] = "idle"]
    /\ probes' = 0
    /\ orphanedTrial' = FALSE
    /\ UNCHANGED trialInProgress

Succeed(c) ==
    /\ calls[c] # "idle"
    /\ state' = CLOSED
    /\ failures' = 0
    /\ openedFor' = NotOpened
    /\ trialInProgress' = FALSE
    /\ calls' = [calls EXCEPT ![c] = "idle"]
    /\ probes' = 0
    /\ orphanedTrial' = FALSE

CountedTwice == failures + 2

Counted == IF failures < FailureThreshold THEN failures + 1 ELSE failures

\* The failed trial leaves the breaker half open.
FailOnlyAtThreshold(c) ==
    /\ calls[c] # "idle"
    /\ failures' = Counted
    /\ IF state = CLOSED /\ Counted >= FailureThreshold
       THEN state' = OPEN /\ openedFor' = 0 /\ probes' = 0
       ELSE UNCHANGED <<state, openedFor, probes>>
    /\ calls' = [calls EXCEPT ![c] = "idle"]
    /\ UNCHANGED <<trialInProgress, orphanedTrial>>

Fail(c) ==
    /\ calls[c] # "idle"
    /\ failures' = Counted
    /\ IF state = HALF_OPEN \/ Counted >= FailureThreshold
       THEN state' = OPEN /\ openedFor' = 0 /\ probes' = 0 /\ orphanedTrial' = FALSE
       ELSE UNCHANGED <<state, openedFor, probes, orphanedTrial>>
    /\ trialInProgress' = FALSE
    /\ calls' = [calls EXCEPT ![c] = "idle"]

(* The awaiting task is cancelled (the client of a streamed answer goes     *)
(* away).  CancelledError is not an Exception, so call() runs neither       *)
(* handler and the breaker keeps the state it had.                          *)
Cancel(c) ==
    /\ calls[c] # "idle"
    /\ calls' = [calls EXCEPT ![c] = "idle"]
    /\ orphanedTrial' = (orphanedTrial \/ (calls[c] = "trial" /\ state = HALF_OPEN))
    /\ UNCHANGED <<state, failures, openedFor, trialInProgress, probes>>

Tick ==
    /\ openedFor \in 0..(RecoveryTimeout - 1)
    /\ openedFor' = openedFor + 1
    /\ UNCHANGED <<state, failures, trialInProgress, calls, probes, orphanedTrial>>

-----------------------------------------------------------------------------

Finish(c) == Succeed(c) \/ Fail(c) \/ Cancel(c)

Call(c) == Admit(c) \/ Probe(c) \/ Reject(c) \/ Succeed(c) \/ Fail(c) \/ Cancel(c)

Next == Tick \/ \E c \in Callers : Call(c)

Spec == Init /\ [][Next]_vars

\* A provider call ends, with an answer, an error or a cancellation.  Nobody has to call.
FairSpec == Spec /\ \A c \in Callers : WF_vars(Finish(c))

-----------------------------------------------------------------------------

\* The values each variable can hold.
TypeOK ==
    /\ state \in {CLOSED, OPEN, HALF_OPEN}
    /\ failures \in 0..FailureThreshold
    /\ openedFor \in {NotOpened} \cup (0..RecoveryTimeout)
    /\ trialInProgress \in BOOLEAN
    /\ calls \in [Callers -> {"idle", "ordinary", "trial"}]
    /\ probes \in Nat
    /\ orphanedTrial \in BOOLEAN

\* The four fields of the breaker never disagree, whichever calls, old or new,
\* end in whichever order: it is closed exactly while the failures are below the
\* threshold and exactly while no opening time is set (so the "_opened_at is
\* None" repair of line 56 is never needed), and half open exactly while a trial
\* is marked in progress.
StateConsistent ==
    /\ state = CLOSED <=> failures < FailureThreshold
    /\ state = CLOSED <=> openedFor = NotOpened
    /\ state = HALF_OPEN <=> trialInProgress

\* A provider that tripped the breaker receives one call per recovery period:
\* however many callers find the timeout elapsed, one is admitted, until a call ends.
OneProbePerOpening ==
    /\ state # HALF_OPEN => probes = 0
    /\ state = HALF_OPEN => probes = 1

\* The breaker waits half open only for a trial some caller still awaits, unless
\* a trial of this episode was cancelled.
TrialHasOwner ==
    state = HALF_OPEN => orphanedTrial \/ \E c \in Callers : calls[c] = "trial"

\* Half open, with no call left that could end it.
Wedged == state = HALF_OPEN /\ \A c \in Callers : calls[c] = "idle"

\* Once wedged by a cancelled trial, the breaker rejects every later call for
\* the life of the process: no timeout applies in the half-open state.
WedgeIsPermanent == [][Wedged => Wedged']_vars

\* A half-open breaker closes or opens again, as long as its trial is not cancelled.
HalfOpenResolves ==
    (state = HALF_OPEN /\ ~orphanedTrial) ~> (state # HALF_OPEN \/ orphanedTrial)

=============================================================================
