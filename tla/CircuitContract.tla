-------------------------- MODULE CircuitContract --------------------------
(***************************************************************************)
(* What a caller may rely on from the circuit breaker, without the three   *)
(* states: a run of FailureThreshold failures with no success in between   *)
(* blocks new calls until RecoveryTime after the latest failure, and any   *)
(* success lifts the block at once.                                        *)
(***************************************************************************)
EXTENDS Integers

CONSTANTS Calls, FailureThreshold, RecoveryTime

VARIABLES
    streak,        \* failures since the last success
    blockedUntil,  \* no call starts before this time
    now,
    admitted

vars == <<streak, blockedUntil, now, admitted>>

Init ==
    /\ streak = 0
    /\ blockedUntil = 0
    /\ now = 0
    /\ admitted = {}

Start(c) ==
    /\ c \notin admitted
    /\ now >= blockedUntil
    /\ admitted' = admitted \cup {c}
    /\ UNCHANGED <<streak, blockedUntil, now>>

StayOrReturn(c) == admitted' \in {admitted, admitted \ {c}}

Succeed(c) ==
    /\ c \in admitted
    /\ streak' = 0
    /\ blockedUntil' = 0
    /\ StayOrReturn(c)
    /\ UNCHANGED now

Fail(c) ==
    /\ c \in admitted
    /\ streak' = streak + 1
    /\ blockedUntil' = IF streak' >= FailureThreshold THEN now + RecoveryTime
                                                      ELSE 0
    /\ StayOrReturn(c)
    /\ UNCHANGED now

Close(c) ==
    /\ c \in admitted
    /\ admitted' = admitted \ {c}
    /\ UNCHANGED <<streak, blockedUntil, now>>

Tick ==
    /\ now' = now + 1
    /\ UNCHANGED <<streak, blockedUntil, admitted>>

Next ==
    \/ \E c \in Calls : Start(c) \/ Succeed(c) \/ Fail(c) \/ Close(c)
    \/ Tick

Spec == Init /\ [][Next]_vars
=============================================================================
