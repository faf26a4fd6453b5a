---------------------------- MODULE MCResilience ----------------------------
(***************************************************************************)
(* The two primitives of src/resilience.py in one process: requests pass   *)
(* the limiter, calls to the provider pass the breaker, and the clock is   *)
(* all that the two share.                                                 *)
(***************************************************************************)
EXTENDS TLC, CircuitBreaker, TokenBucket

ResilienceInit == Init /\ LimiterInit

ResilienceNext ==
    \/ \E c \in Calls :
          /\ Start(c) \/ FailFast(c) \/ Succeed(c) \/ Fail(c) \/ Close(c)
          /\ UNCHANGED limiterVars
    \/ LimiterStep /\ UNCHANGED <<circuitVars, admitted>>
    \/ Tick /\ UNCHANGED limiterVars

\* Calls are alike, and so are handlers.
ResilienceSymmetry == Permutations(Calls) \cup Permutations(Handlers)

ResilienceSpec == ResilienceInit /\ [][ResilienceNext]_<<vars, limiterVars>>
=============================================================================
