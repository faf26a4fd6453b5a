--------------------------- MODULE CircuitBreaker ---------------------------
(***************************************************************************)
(* The circuit breaker of src/resilience.py, and the calls it admits.      *)
(*                                                                         *)
(* Every method of the class runs under the breaker's own lock, so each is *)
(* one action.  Between the methods nothing is locked: an admitted call    *)
(* reports its outcome much later, when the circuit may be in any state,   *)
(* and a streaming call reports twice (when the stream opens and when it   *)
(* ends).  `admitted' is the set of calls that allow() let through and     *)
(* that have not yet returned.                                             *)
(***************************************************************************)
EXTENDS Integers, FiniteSets, Clock

CONSTANTS
    Calls,             \* identities of concurrent calls
    FailureThreshold,  \* failure_threshold, clamped to at least 1
    RecoveryTime,      \* recovery_seconds, clamped to a positive duration
    MaxFailures        \* bound on the failure counter

ASSUME ThresholdAssumption == FailureThreshold \in Nat \ {0}
ASSUME RecoveryAssumption  == RecoveryTime \in Nat \ {0}
ASSUME BoundsAssumption    == MaxTime \in Nat /\ MaxFailures \in Nat

VARIABLES
    circuit,    \* _state
    failures,   \* _failures
    openedAt,   \* _opened_at
    admitted    \* calls let through by allow() and still running

circuitVars == <<circuit, failures, openedAt>>
vars == <<circuit, failures, openedAt, now, admitted>>

CLOSED    == "closed"
HALF_OPEN == "half_open"
OPEN      == "open"

CircuitInit ==
    /\ circuit = CLOSED
    /\ failures = 0
    /\ openedAt = 0

Init ==
    /\ CircuitInit
    /\ now = 0
    /\ admitted = {}

-----------------------------------------------------------------------------
(* The methods, as relations on the breaker's own three fields.            *)

Recovered == now - openedAt >= RecoveryTime

\* allow() returns True; an open circuit becomes half-open on the way.
AllowCall ==
    /\ circuit = OPEN => Recovered
    /\ circuit' = IF circuit = OPEN THEN HALF_OPEN ELSE circuit
    /\ UNCHANGED <<failures, openedAt>>

\* allow() returns False.
RefuseCall ==
    /\ circuit = OPEN
    /\ ~Recovered
    /\ UNCHANGED circuitVars

RecordSuccess ==
    /\ circuit' = CLOSED
    /\ failures' = 0
    /\ UNCHANGED openedAt

\* Mutated form: a failure while the circuit is open or half-open does not
\* start a new recovery period.
FailureKeepsOpeningTime ==
    /\ failures' = failures + 1
    /\ IF circuit = CLOSED /\ failures' >= FailureThreshold
       THEN circuit' = OPEN /\ openedAt' = now
       ELSE UNCHANGED <<circuit, openedAt>>

\* Mutated form: the end of the recovery period is stored, not its start.
FailureStoresRetryTime ==
    /\ failures' = failures + 1
    /\ IF circuit = HALF_OPEN \/ failures' >= FailureThreshold
       THEN circuit' = OPEN /\ openedAt' = now + RecoveryTime
       ELSE UNCHANGED <<circuit, openedAt>>

RecordFailure ==
    /\ failures' = failures + 1
    /\ IF circuit = HALF_OPEN \/ failures' >= FailureThreshold
       THEN circuit' = OPEN /\ openedAt' = now
       ELSE UNCHANGED <<circuit, openedAt>>

-----------------------------------------------------------------------------
(* The calls.                                                              *)

Start(c) ==
    /\ c \notin admitted
    /\ AllowCall
    /\ admitted' = admitted \cup {c}
    /\ UNCHANGED now

\* CircuitOpenError: the call is over before it starts.
FailFast(c) ==
    /\ c \notin admitted
    /\ RefuseCall
    /\ UNCHANGED <<now, admitted>>

\* A call may go on after it has reported: a stream that opened is read.
StayOrReturn(c) == admitted' \in {admitted, admitted \ {c}}

Succeed(c) ==
    /\ c \in admitted
    /\ RecordSuccess
    /\ StayOrReturn(c)
    /\ UNCHANGED now

Fail(c) ==
    /\ c \in admitted
    /\ failures < MaxFailures
    /\ RecordFailure
    /\ StayOrReturn(c)
    /\ UNCHANGED now

\* A stream that its reader closes ends without a record.
Close(c) ==
    /\ c \in admitted
    /\ admitted' = admitted \ {c}
    /\ UNCHANGED <<circuitVars, now>>

Tick ==
    /\ now < MaxTime
    /\ now' = now + 1
    /\ UNCHANGED <<circuitVars, admitted>>

Next ==
    \/ \E c \in Calls :
          Start(c) \/ FailFast(c) \/ Succeed(c) \/ Fail(c) \/ Close(c)
    \/ Tick

Spec == Init /\ [][Next]_vars

-----------------------------------------------------------------------------
(* Properties.                                                             *)

\* The fields and the call set keep their types, and no opening lies in
\* the future (resilience.py, CircuitBreaker).
TypeOK ==
    /\ circuit \in {CLOSED, HALF_OPEN, OPEN}
    /\ failures \in Nat
    /\ now \in Nat
    /\ openedAt \in 0..now
    /\ admitted \subseteq Calls

\* The failure counter alone decides whether the circuit is closed: below
\* the threshold it is closed, and once it has opened it stays open or
\* half-open until a success resets the counter.  Late failures, recovery
\* probes and late successes, in any order, never separate the two fields
\* of record_failure and record_success.
ClosedIffBelowThreshold ==
    (circuit = CLOSED) <=> (failures < FailureThreshold)

\* The circuit is half-open only when a whole recovery period has passed
\* since the last failure that opened it, also when failures of calls
\* admitted earlier arrive late and open it again.
HalfOpenOnlyAfterRecovery ==
    circuit = HALF_OPEN => Recovered

-----------------------------------------------------------------------------
Contract == INSTANCE CircuitContract
    WITH streak       <- failures,
         blockedUntil <- IF circuit = CLOSED THEN 0 ELSE openedAt + RecoveryTime

\* The three-state breaker promises what CircuitContract says with a failure
\* streak and a deadline only: after FailureThreshold failures without a
\* success no call starts until RecoveryTime after the latest failure, in
\* whatever order outcomes of older calls come in.
ImplementsContract == Contract!Spec
=============================================================================
