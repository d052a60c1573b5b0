------------------------ MODULE CircuitBreakerProofs ------------------------
(***************************************************************************)
(* Safety of the circuit breaker for every set of callers, threshold and   *)
(* recovery timeout.  None of the four facts is inductive alone: the probe *)
(* count needs the trial flag to follow the state, the state needs the     *)
(* failure count to be above the threshold while it is half open, so the   *)
(* conjunction is what is shown to be preserved.                           *)
(***************************************************************************)
EXTENDS CircuitBreaker, TLAPS

IInv == TypeOK /\ StateConsistent /\ OneProbePerOpening /\ TrialHasOwner

\* One failure more keeps the count within the threshold, and at it once it is there.
LEMMA CountedRange ==
    ASSUME TypeOK
    PROVE  /\ Counted \in 0..FailureThreshold
           /\ failures >= FailureThreshold => Counted >= FailureThreshold
    BY ThresholdAssumption DEF TypeOK, Counted

\* Every reachable state is consistent: the inductive invariant.
THEOREM BreakerInvariant == Spec => []IInv
<1> USE ThresholdAssumption, TimeoutAssumption
        DEF CLOSED, OPEN, HALF_OPEN, NotOpened
<1>1. Init => IInv
  <2> SUFFICES ASSUME Init PROVE IInv
    OBVIOUS
  <2>1. /\ trialInProgress \in BOOLEAN
        /\ orphanedTrial \in BOOLEAN
        /\ ~trialInProgress
    BY Zenon DEF Init
  <2>2. /\ state = CLOSED
        /\ failures = 0
        /\ openedFor = NotOpened
        /\ calls = [c \in Callers |-> "idle"]
        /\ probes = 0
    BY Zenon DEF Init
  <2>3. QED
    BY <2>1, <2>2 DEF IInv, TypeOK, StateConsistent, OneProbePerOpening, TrialHasOwner
<1>2. IInv /\ [Next]_vars => IInv'
  <2> SUFFICES ASSUME IInv, [Next]_vars PROVE IInv'
    OBVIOUS
  <2> USE DEF IInv, TypeOK, StateConsistent, OneProbePerOpening, TrialHasOwner
  <2>1. CASE Tick
    BY <2>1 DEF Tick
  <2>2. ASSUME NEW c \in Callers, Admit(c) PROVE IInv'
    BY <2>2 DEF Admit
  <2>3. ASSUME NEW c \in Callers, Probe(c) PROVE IInv'
    <3>1. /\ trialInProgress'
          /\ trialInProgress' \in BOOLEAN
          /\ orphanedTrial' \in BOOLEAN
      BY <2>3, Zenon DEF Probe
    <3>2. /\ ProbeDue
          /\ state' = HALF_OPEN
          /\ calls' = [calls EXCEPT ![c] = "trial"]
          /\ probes' = probes + 1
          /\ UNCHANGED <<failures, openedFor>>
      BY <2>3, Zenon DEF Probe
    <3>3. state = OPEN
      BY <3>2 DEF ProbeDue, RecoveryDue
    <3>4. QED
      BY <3>1, <3>2, <3>3
  <2>4. ASSUME NEW c \in Callers, Reject(c) PROVE IInv'
    BY <2>4 DEF Reject
  <2>5. ASSUME NEW c \in Callers, Succeed(c) PROVE IInv'
    <3>1. /\ ~trialInProgress'
          /\ trialInProgress' \in BOOLEAN
          /\ orphanedTrial' \in BOOLEAN
      BY <2>5, Zenon DEF Succeed
    <3>2. /\ state' = CLOSED
          /\ failures' = 0
          /\ openedFor' = NotOpened
          /\ calls' = [calls EXCEPT ![c] = "idle"]
          /\ probes' = 0
      BY <2>5, Zenon DEF Succeed
    <3>3. QED
      BY <3>1, <3>2
  <2>6. ASSUME NEW c \in Callers, Fail(c) PROVE IInv'
    <3>1. Counted \in 0..FailureThreshold
      /\ (failures >= FailureThreshold => Counted >= FailureThreshold)
      BY CountedRange
    <3>2. /\ ~trialInProgress'
          /\ trialInProgress' \in BOOLEAN
      BY <2>6, Zenon DEF Fail
    <3>3. /\ failures' = Counted
          /\ calls' = [calls EXCEPT ![c] = "idle"]
      BY <2>6, Zenon DEF Fail
    <3>4. CASE state = HALF_OPEN \/ Counted >= FailureThreshold
      <4>1. /\ state' = OPEN
            /\ openedFor' = 0
            /\ probes' = 0
        BY <2>6, <3>4, Zenon DEF Fail
      <4>2. orphanedTrial' \in BOOLEAN
        BY <2>6, <3>4, Zenon DEF Fail
      <4>3. QED
        BY <3>1, <3>2, <3>3, <3>4, <4>1, <4>2
    <3>5. CASE ~(state = HALF_OPEN \/ Counted >= FailureThreshold)
      <4>1. UNCHANGED <<state, openedFor, probes, orphanedTrial>>
        BY <2>6, <3>5, Zenon DEF Fail
      <4>2. QED
        BY <3>1, <3>2, <3>3, <3>5, <4>1
    <3>6. QED
      BY <3>4, <3>5
  <2>7. ASSUME NEW c \in Callers, Cancel(c) PROVE IInv'
    BY <2>7 DEF Cancel
  <2>8. CASE UNCHANGED vars
    BY <2>8 DEF vars
  <2>9. QED
    BY <2>1, <2>2, <2>3, <2>4, <2>5, <2>6, <2>7, <2>8 DEF Next, Call
<1>3. QED
  BY <1>1, <1>2, PTL DEF Spec

\* Every field keeps its type: the failure counter stops at the threshold.
THEOREM BreakerTypes == Spec => []TypeOK
<1>1. IInv => TypeOK
  BY DEF IInv
<1>2. QED
  BY BreakerInvariant, <1>1, PTL

\* The fields of the breaker agree in every reachable state.
THEOREM StateIsConsistent == Spec => []StateConsistent
<1>1. IInv => StateConsistent
  BY DEF IInv
<1>2. QED
  BY BreakerInvariant, <1>1, PTL

\* A tripped provider gets one call per recovery period.
THEOREM OneProbe == Spec => []OneProbePerOpening
<1>1. IInv => OneProbePerOpening
  BY DEF IInv
<1>2. QED
  BY BreakerInvariant, <1>1, PTL

\* Half open means somebody is on trial, or was and got cancelled.
THEOREM TrialIsOwned == Spec => []TrialHasOwner
<1>1. IInv => TrialHasOwner
  BY DEF IInv
<1>2. QED
  BY BreakerInvariant, <1>1, PTL

\* No step, of any number of callers and after any time, frees a wedged breaker.
THEOREM WedgeLasts == Spec => WedgeIsPermanent
<1>1. IInv /\ [Next]_vars => (Wedged => Wedged')
  <2> SUFFICES ASSUME IInv, [Next]_vars, Wedged PROVE Wedged'
    OBVIOUS
  <2> USE DEF Wedged, CLOSED, OPEN, HALF_OPEN
  <2>1. trialInProgress
    BY DEF IInv, StateConsistent
  <2>2. CASE Tick
    BY <2>2 DEF Tick
  <2>3. ASSUME NEW c \in Callers, Call(c) PROVE Wedged'
    <3>1. Reject(c)
      BY <2>1, <2>3 DEF Call, Admit, Probe, ProbeDue, RecoveryDue, Succeed, Fail, Cancel
    <3>2. QED
      BY <3>1 DEF Reject
  <2>4. CASE UNCHANGED vars
    BY <2>4 DEF vars
  <2>5. QED
    BY <2>2, <2>3, <2>4 DEF Next
<1>2. IInv /\ [Next]_vars => [Wedged => Wedged']_vars
  BY <1>1
<1>3. QED
  BY BreakerInvariant, <1>2, PTL DEF Spec, WedgeIsPermanent
=============================================================================
