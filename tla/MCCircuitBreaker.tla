-------------------------- MODULE MCCircuitBreaker --------------------------
(***************************************************************************)
(* Four callers share a breaker that opens at two failures and recovers    *)
(* after two ticks: two trip it, one stays behind as a stale call, and the *)
(* fourth is on trial while the others knock.                              *)
(***************************************************************************)
EXTENDS CircuitBreaker

MCCallers == 1..4
MCFailureThreshold == 2
MCRecoveryTimeout == 2
=============================================================================
