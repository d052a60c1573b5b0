----------------------------- MODULE RateLimiter -----------------------------
(***************************************************************************)
(* RateLimiterMiddleware: the requests of one tenant, spread over the      *)
(* worker processes of the service, each with its own _counters.  Nothing  *)
(* is awaited between reading and writing them, so a request is one step.  *)
(***************************************************************************)
EXTENDS Integers

CONSTANTS
    Processes,        \* gunicorn's workers
    Limit,            \* tenant.rate_limit_rpm, or the default
    Window            \* 60 seconds, in ticks

ASSUME LimiterAssumption == Limit \in Nat \ {0} /\ Window \in Nat \ {0}

VARIABLES
    started,          \* ticks since each process's window_start; Window once it is over
    count,            \* its request_count
    admitted          \* history: ticks since its latest, second latest... admission

limiterVars == <<started, count, admitted>>

LimiterTypeOK ==
    /\ started \in [Processes -> 0..Window]
    /\ count \in [Processes -> 0..Limit]
    /\ admitted \in [Processes -> [0..(2 * Limit) -> 0..Window]]

\* A process that has no counter yet behaves like one whose window is over.
LimiterInit ==
    /\ started = [p \in Processes |-> Window]
    /\ count = [p \in Processes |-> 0]
    /\ admitted = [p \in Processes |-> [k \in 0..(2 * Limit) |-> Window]]

Admit(p) ==
    admitted' = [admitted EXCEPT ![p] =
                   [k \in 0..(2 * Limit) |-> IF k = 0 THEN 0 ELSE admitted[p][k - 1]]]

\* The request opens a window.
OpenWindow(p) ==
    /\ started[p] = Window
    /\ started' = [started EXCEPT ![p] = 0]
    /\ count' = [count EXCEPT ![p] = 1]
    /\ Admit(p)

\* > for >=.
BelowOrAtLimit(p) == count[p] <= Limit

BelowLimit(p) == count[p] < Limit

CountRequest(p) ==
    /\ started[p] < Window
    /\ BelowLimit(p)
    /\ count' = [count EXCEPT ![p] = count[p] + 1]
    /\ Admit(p)
    /\ UNCHANGED started

\* 429, and nothing is counted.
Refuse(p) ==
    /\ started[p] < Window
    /\ ~BelowLimit(p)
    /\ UNCHANGED limiterVars

Later(ticks) == IF ticks < Window THEN ticks + 1 ELSE Window

Pass ==
    /\ started' = [p \in Processes |-> Later(started[p])]
    /\ admitted' = [p \in Processes |-> [k \in 0..(2 * Limit) |-> Later(admitted[p][k])]]
    /\ UNCHANGED count

LimiterStep == Pass \/ \E p \in Processes : OpenWindow(p) \/ CountRequest(p) \/ Refuse(p)

LimiterSpec == LimiterInit /\ [][LimiterStep]_limiterVars

\* In any 60 seconds a process lets through at most twice the limit, however a tenant
\* times its requests around the boundaries of the fixed windows: when one is admitted,
\* the request admitted 2 * Limit before it is a whole window old.
RateBounded == \A p \in Processes : admitted[p][2 * Limit] = Window

=============================================================================
