-------------------------- MODULE ResilienceProofs --------------------------
(***************************************************************************)
(* Proofs about the two lock-protected objects of resilience.py.           *)
(*                                                                         *)
(* The circuit breaker keeps its invariants and implements CircuitContract *)
(* for every set of calls, every threshold, every recovery time and every  *)
(* bound of the model.                                                     *)
(*                                                                         *)
(* The token bucket is honest for any number of clients and handlers, any  *)
(* rate and any burst.  Both of its properties follow from a relation      *)
(* between the tokens of a client and the two ends of a period.  Account:  *)
(* what was granted plus what is left never exceeds a full bucket plus the *)
(* refill of the period, in which an interval counts twice once updatedAt  *)
(* has gone back over it.  Promise: what is left plus the refill until the *)
(* advised time pays for one request.                                      *)
(***************************************************************************)
EXTENDS CircuitBreaker, TokenBucket, TLAPS

-----------------------------------------------------------------------------
(* The circuit breaker.                                                    *)

\* The three invariants together are inductive: half-open is reached only
\* through a recovered open circuit, and the counter is compared with the
\* threshold on every failure.
BreakerInv ==
    /\ TypeOK
    /\ ClosedIffBelowThreshold
    /\ HalfOpenOnlyAfterRecovery

\* A closed, untouched breaker satisfies the invariant (__init__).
LEMMA BreakerInvHolds == Init => BreakerInv
BY ThresholdAssumption
DEF Init, CircuitInit, BreakerInv, TypeOK, ClosedIffBelowThreshold,
    HalfOpenOnlyAfterRecovery, CLOSED, HALF_OPEN, OPEN

\* allow() keeps the invariant: it opens half-way only after the recovery
\* period (resilience.py:55).
LEMMA AllowKeeps ==
    ASSUME BreakerInv, AllowCall, UNCHANGED now, admitted' \subseteq Calls
    PROVE  BreakerInv'
BY DEF BreakerInv, TypeOK, ClosedIffBelowThreshold, HalfOpenOnlyAfterRecovery,
       AllowCall, Recovered, CLOSED, HALF_OPEN, OPEN

\* record_success keeps the invariant, in whatever state it arrives.
LEMMA SuccessKeeps ==
    ASSUME BreakerInv, RecordSuccess, UNCHANGED now, admitted' \subseteq Calls
    PROVE  BreakerInv'
BY ThresholdAssumption
DEF BreakerInv, TypeOK, ClosedIffBelowThreshold, HalfOpenOnlyAfterRecovery,
    RecordSuccess, CLOSED, HALF_OPEN, OPEN

\* record_failure keeps the invariant, in whatever state it arrives.
LEMMA FailureKeeps ==
    ASSUME BreakerInv, RecordFailure, UNCHANGED now, admitted' \subseteq Calls
    PROVE  BreakerInv'
<1> USE DEF BreakerInv, TypeOK, CLOSED, HALF_OPEN, OPEN
<1>1. failures' = failures + 1 /\ now' = now
  BY DEF RecordFailure
<1>2. CASE circuit = HALF_OPEN \/ failures' >= FailureThreshold
  <2>1. circuit' = OPEN /\ openedAt' = now
    BY <1>2 DEF RecordFailure
  <2>2. failures' >= FailureThreshold
    BY <1>1, <1>2, ThresholdAssumption DEF ClosedIffBelowThreshold
  <2>3. TypeOK'
    BY <1>1, <2>1
  <2>4. ClosedIffBelowThreshold'
    BY <1>1, <2>1, <2>2, ThresholdAssumption DEF ClosedIffBelowThreshold
  <2>5. HalfOpenOnlyAfterRecovery'
    BY <2>1 DEF HalfOpenOnlyAfterRecovery
  <2> QED BY <2>3, <2>4, <2>5
<1>3. CASE circuit # HALF_OPEN /\ ~(failures' >= FailureThreshold)
  <2>1. UNCHANGED <<circuit, openedAt>>
    BY <1>3 DEF RecordFailure
  <2>2. TypeOK' /\ HalfOpenOnlyAfterRecovery'
    BY <1>1, <1>3, <2>1 DEF HalfOpenOnlyAfterRecovery
  <2>3. ClosedIffBelowThreshold'
    BY <1>1, <1>3, <2>1, ThresholdAssumption DEF ClosedIffBelowThreshold
  <2> QED BY <2>2, <2>3
<1> QED BY <1>2, <1>3

\* Every step of the breaker, its calls and the clock keeps the invariant.
LEMMA BreakerInvKept == BreakerInv /\ [Next]_vars => BreakerInv'
<1> SUFFICES ASSUME BreakerInv, [Next]_vars PROVE BreakerInv'
  OBVIOUS
<1>1. ASSUME NEW c \in Calls, Start(c) PROVE BreakerInv'
  <2>1. admitted' \subseteq Calls
    BY <1>1 DEF Start, BreakerInv, TypeOK
  <2> QED BY <1>1, <2>1, AllowKeeps DEF Start
<1>2. ASSUME NEW c \in Calls, FailFast(c) PROVE BreakerInv'
  BY <1>2 DEF FailFast, RefuseCall, circuitVars, BreakerInv, TypeOK,
              ClosedIffBelowThreshold, HalfOpenOnlyAfterRecovery, Recovered
<1>3. ASSUME NEW c \in Calls, Succeed(c) PROVE BreakerInv'
  <2>1. admitted' \subseteq Calls
    BY <1>3 DEF Succeed, StayOrReturn, BreakerInv, TypeOK
  <2> QED BY <1>3, <2>1, SuccessKeeps DEF Succeed
<1>4. ASSUME NEW c \in Calls, Fail(c) PROVE BreakerInv'
  <2>1. admitted' \subseteq Calls
    BY <1>4 DEF Fail, StayOrReturn, BreakerInv, TypeOK
  <2> QED BY <1>4, <2>1, FailureKeeps DEF Fail
<1>5. ASSUME NEW c \in Calls, Close(c) PROVE BreakerInv'
  BY <1>5 DEF Close, circuitVars, BreakerInv, TypeOK, ClosedIffBelowThreshold,
              HalfOpenOnlyAfterRecovery, Recovered
<1>6. CASE Tick
  BY <1>6, RecoveryAssumption
  DEF Tick, circuitVars, BreakerInv, TypeOK, ClosedIffBelowThreshold,
      HalfOpenOnlyAfterRecovery, Recovered
<1>7. CASE UNCHANGED vars
  BY <1>7 DEF vars, BreakerInv, TypeOK, ClosedIffBelowThreshold,
              HalfOpenOnlyAfterRecovery, Recovered
<1> QED BY <1>1, <1>2, <1>3, <1>4, <1>5, <1>6, <1>7 DEF Next

\* The inductive invariant holds of every behaviour.
LEMMA BreakerInvAlways == Spec => []BreakerInv
BY BreakerInvHolds, BreakerInvKept, PTL DEF Spec

\* The breaker's fields keep their types and no opening lies in the future.
THEOREM TypeCorrect == Spec => []TypeOK
<1>1. BreakerInv => TypeOK
  BY DEF BreakerInv
<1> QED BY <1>1, BreakerInvAlways, PTL

\* Whatever the order in which outcomes of admitted calls arrive, the circuit
\* is closed exactly while the failure count is below the threshold.
THEOREM CounterDecides == Spec => []ClosedIffBelowThreshold
<1>1. BreakerInv => ClosedIffBelowThreshold
  BY DEF BreakerInv
<1> QED BY <1>1, BreakerInvAlways, PTL

\* A half-open circuit has waited for its recovery period, for every length
\* of that period.
THEOREM ProbeWaits == Spec => []HalfOpenOnlyAfterRecovery
<1>1. BreakerInv => HalfOpenOnlyAfterRecovery
  BY DEF BreakerInv
<1> QED BY <1>1, BreakerInvAlways, PTL

-----------------------------------------------------------------------------
(* The refinement.                                                         *)

\* The deadline that the contract sees.
BlockedUntil == IF circuit = CLOSED THEN 0 ELSE openedAt + RecoveryTime

\* A fresh breaker is a fresh contract.
LEMMA InitRefines == Init => Contract!Init
BY DEF Init, CircuitInit, Contract!Init, CLOSED

\* A call that allow() lets through starts after the contract's deadline; for
\* a half-open circuit this is the invariant.
LEMMA StartRefines ==
    ASSUME BreakerInv, NEW c \in Calls, Start(c)
    PROVE  Contract!Start(c)
<1> USE DEF CLOSED, HALF_OPEN, OPEN
<1>1. now >= BlockedUntil
  BY RecoveryAssumption
  DEF Start, AllowCall, BreakerInv, TypeOK, HalfOpenOnlyAfterRecovery, Recovered,
      BlockedUntil
<1>2. UNCHANGED <<failures, now, BlockedUntil>>
  BY DEF Start, AllowCall, BlockedUntil
<1> QED BY <1>1, <1>2 DEF Start, Contract!Start, BlockedUntil

\* A success lifts the block.
LEMMA SucceedRefines ==
    ASSUME BreakerInv, NEW c \in Calls, Succeed(c)
    PROVE  Contract!Succeed(c)
BY DEF Succeed, RecordSuccess, StayOrReturn, Contract!Succeed,
       Contract!StayOrReturn, CLOSED

\* A failure blocks new calls exactly from the threshold on.
LEMMA FailRefines ==
    ASSUME BreakerInv, NEW c \in Calls, Fail(c)
    PROVE  Contract!Fail(c)
<1> USE DEF CLOSED, HALF_OPEN, OPEN
<1>1. failures' = failures + 1 /\ failures \in Nat
  BY DEF Fail, RecordFailure, BreakerInv, TypeOK
<1>2. circuit = HALF_OPEN => failures' >= FailureThreshold
  BY <1>1, ThresholdAssumption DEF BreakerInv, ClosedIffBelowThreshold
<1>3. BlockedUntil' =
        IF failures' >= FailureThreshold THEN now + RecoveryTime ELSE 0
  <2>1. CASE failures' >= FailureThreshold
    BY <2>1 DEF Fail, RecordFailure, BlockedUntil
  <2>2. CASE ~(failures' >= FailureThreshold)
    <3>1. UNCHANGED <<circuit, openedAt>>
      BY <1>2, <2>2 DEF Fail, RecordFailure
    <3>2. circuit = CLOSED
      BY <1>1, <2>2, ThresholdAssumption DEF BreakerInv, ClosedIffBelowThreshold
    <3> QED BY <2>2, <3>1, <3>2 DEF BlockedUntil
  <2> QED BY <2>1, <2>2
<1> QED BY <1>1, <1>3
        DEF Fail, StayOrReturn, Contract!Fail, Contract!StayOrReturn,
            BlockedUntil

\* Every step of the breaker is a step of the contract or changes nothing the
\* contract sees.
LEMMA NextRefines == BreakerInv /\ [Next]_vars => [Contract!Next]_(Contract!vars)
<1> SUFFICES ASSUME BreakerInv, [Next]_vars PROVE [Contract!Next]_(Contract!vars)
  OBVIOUS
<1>1. ASSUME NEW c \in Calls, Start(c) PROVE Contract!Next
  BY <1>1, StartRefines DEF Contract!Next
<1>2. ASSUME NEW c \in Calls, FailFast(c) PROVE UNCHANGED Contract!vars
  BY <1>2 DEF FailFast, RefuseCall, circuitVars, Contract!vars
<1>3. ASSUME NEW c \in Calls, Succeed(c) PROVE Contract!Next
  BY <1>3, SucceedRefines DEF Contract!Next
<1>4. ASSUME NEW c \in Calls, Fail(c) PROVE Contract!Next
  BY <1>4, FailRefines DEF Contract!Next
<1>5. ASSUME NEW c \in Calls, Close(c) PROVE Contract!Next
  BY <1>5 DEF Close, circuitVars, Contract!Next, Contract!Close
<1>6. CASE Tick
  BY <1>6 DEF Tick, circuitVars, Contract!Next, Contract!Tick
<1>7. CASE UNCHANGED vars
  BY <1>7 DEF vars, Contract!vars
<1> QED BY <1>1, <1>2, <1>3, <1>4, <1>5, <1>6, <1>7 DEF Next

\* The breaker implements its contract: after FailureThreshold failures
\* without a success, no call starts until RecoveryTime after the latest
\* failure, for every set of concurrent calls.
THEOREM BreakerImplementsContract == Spec => ImplementsContract
BY InitRefines, NextRefines, BreakerInvAlways, PTL
DEF Spec, ImplementsContract, Contract!Spec

-----------------------------------------------------------------------------
(* The token bucket.                                                       *)

limiterAll == <<limiterVars, now>>

LimiterNext == LimiterStep \/ LimiterTick

Types ==
    /\ known \subseteq Clients
    /\ tokens \in [Clients -> Int]
    /\ updatedAt \in [Clients -> Int]
    /\ step \in [Handlers -> {"idle", "timed", "refused"}]
    /\ client \in [Handlers -> Clients]
    /\ readAt \in [Handlers -> Int]
    /\ granted \in [Clients -> Int]
    /\ since \in [Clients -> Int]
    /\ rewound \in [Clients -> Int]
    /\ retryAt \in [Clients -> Int]
    /\ now \in Nat

\* No clock reading lies in the future, and no bucket is over-full or in debt.
Bounded ==
    /\ \A k \in Clients : tokens[k] \in 0..Full /\ updatedAt[k] <= now
    /\ \A h \in Handlers : readAt[h] <= now

Paid(k) == updatedAt[k] - since[k] + rewound[k]

Account ==
    \A k \in Clients :
        granted[k] * Minute + tokens[k] <= Full + RatePerMinute * Paid(k)

\* A client without a bucket has used nothing.
Untouched == \A k \in Clients \ known : granted[k] = 0 /\ rewound[k] = 0

\* By time t the client can pay for a request.
Covered(k, t) ==
    \/ tokens[k] >= Minute
    \/ tokens[k] + RatePerMinute * (t - updatedAt[k]) >= Minute

Promise ==
    \A k \in Clients : retryAt[k] # NoAdvice => Covered(k, retryAt[k])

BucketInv == Types /\ Bounded /\ Account /\ Untouched /\ Promise

-----------------------------------------------------------------------------
(* Arithmetic.                                                             *)

LEMMA Distribute ==
    ASSUME NEW a \in Int, NEW b \in Int, NEW c \in Int
    PROVE  a * (b + c) = a * b + a * c
  BY SMT

LEMMA Monotone ==
    ASSUME NEW a \in Nat, NEW b \in Int, NEW c \in Int, b <= c
    PROVE  a * b <= a * c
<1>1. a * (c - b) >= 0
  BY SMT
<1> QED
  BY <1>1, SMT

\* A whole number of seconds past the exact wait covers it.
LEMMA Rounding ==
    ASSUME NEW m \in Nat, NEW r \in Nat \ {0}
    PROVE  /\ m \div r \in Nat
           /\ r * (m \div r + 1) >= m
<1>1. m = r * (m \div r) + (m % r)
  BY SMT
<1>2. m % r < r
  BY SMT
<1>3. m \div r \in Int
  BY SMT
<1> QED
  BY <1>1, <1>2, <1>3, SMT

\* A full bucket pays for a request: burst is at least one.
LEMMA FullPays == Full \in Nat /\ Full >= Minute
<1>1. Minute * 1 <= Minute * Burst
  BY Monotone, LimiterAssumption
<1>2. Minute * Burst = Burst * Minute /\ Burst * Minute \in Nat
  BY LimiterAssumption, SMT
<1> QED
  BY <1>1, <1>2, LimiterAssumption DEF Full

-----------------------------------------------------------------------------
(* What one update under the lock does to the account of its client.       *)

LEMMA ElapsedType ==
    ASSUME Types, NEW k \in Clients, NEW t \in Int
    PROVE  /\ Elapsed(k, t) \in Nat
           /\ Elapsed(k, t) >= t - updatedAt[k]
           /\ Elapsed(k, t) * RatePerMinute = RatePerMinute * Elapsed(k, t)
           /\ RatePerMinute * Elapsed(k, t) \in Nat
<1>1. Elapsed(k, t) \in Nat /\ Elapsed(k, t) >= t - updatedAt[k]
  BY DEF Elapsed, Types
<1> QED
  BY <1>1, LimiterAssumption, SMT

LEMMA RefilledType ==
    ASSUME Types, Bounded, NEW k \in Clients, NEW t \in Int
    PROVE  /\ Refilled(k, t) \in 0..Full
           /\ k \in known => Refilled(k, t) <= tokens[k] + RatePerMinute * Elapsed(k, t)
           /\ Refilled(k, t) >= Minute
                \/ /\ k \in known
                   /\ Refilled(k, t) = tokens[k] + RatePerMinute * Elapsed(k, t)
<1>1. tokens[k] \in 0..Full
  BY DEF Bounded
<1> QED
  BY <1>1, ElapsedType, FullPays, LimiterAssumption DEF Refilled, Earlier

\* An update with a reading t, of a request that n counts as let through.
LEMMA StoreKeepsAccount ==
    ASSUME Types, Bounded, Account, Untouched,
           NEW k \in Clients, NEW t \in Int, NEW n \in {0, 1},
           Store(k, t, n * Minute),
           granted' = [granted EXCEPT ![k] = @ + n]
    PROVE  Account' /\ Untouched'
<1> DEFINE E == Elapsed(k, t)
<1>1. E \in Nat /\ RatePerMinute * E \in Nat
  BY ElapsedType
<1>2. Refilled(k, t) \in Int
  BY RefilledType, FullPays
<1>3. ASSUME NEW c \in Clients, c # k
      PROVE  /\ granted'[c] * Minute + tokens'[c] <= Full + RatePerMinute * Paid(c)'
             /\ c \notin known' => granted'[c] = 0 /\ rewound'[c] = 0
  BY <1>3 DEF Store, Types, Account, Untouched, Paid
<1>4. /\ granted'[k] = granted[k] + n
      /\ tokens'[k] = Refilled(k, t) - n * Minute
      /\ updatedAt'[k] = t
      /\ k \in known'
  BY DEF Store, Types
<1>5. (granted[k] + n) * Minute = granted[k] * Minute + n * Minute
  <2>1. granted[k] \in Int /\ Minute \in Int
    BY LimiterAssumption DEF Types
  <2> QED
    BY <2>1, SMT
<1>6. CASE k \in known
  <2>1. Paid(k)' = Paid(k) + E
    BY <1>6, <1>4 DEF Store, Paid, Types, Elapsed
  <2>2. Paid(k) \in Int
    BY DEF Paid, Types
  <2>3. RatePerMinute * Paid(k)' = RatePerMinute * Paid(k) + RatePerMinute * E
    BY <2>1, <2>2, <1>1, Distribute, LimiterAssumption
  <2>4. Refilled(k, t) <= tokens[k] + RatePerMinute * E
    BY <1>6, RefilledType
  <2> DEFINE before == granted[k] * Minute
             cost == n * Minute
             paid == RatePerMinute * Paid(k)
             refill == RatePerMinute * E
  <2>5. /\ before \in Int /\ cost \in Int /\ paid \in Int /\ refill \in Int
        /\ tokens[k] \in Int /\ Full \in Int
    BY <2>2, <1>1, LimiterAssumption, FullPays DEF Types
  <2>6. before + tokens[k] <= Full + paid
    BY DEF Account
  <2>7. granted'[k] * Minute + tokens'[k] = before + cost + (Refilled(k, t) - cost)
    BY <1>4, <1>5
  <2>8. Refilled(k, t) <= tokens[k] + refill
    BY <2>4
  <2> HIDE DEF before, cost, paid, refill, E
  <2>9. before + cost + (Refilled(k, t) - cost) <= Full + (paid + refill)
    BY <2>5, <2>6, <2>8, <1>2
  <2>10. granted'[k] * Minute + tokens'[k] <= Full + RatePerMinute * Paid(k)'
    BY <2>3, <2>7, <2>9 DEF paid, refill
  <2> QED
    BY <2>10, <1>3, <1>4 DEF Account, Untouched
<1>7. CASE k \notin known
  <2>1. granted[k] = 0 /\ rewound[k] = 0
    BY <1>7 DEF Untouched
  <2>2. Paid(k)' = 0 /\ Refilled(k, t) = Full
    BY <1>7, <1>4, <2>1 DEF Store, Paid, Types, Refilled
  <2>3. granted'[k] * Minute + tokens'[k] = Full
    BY <1>4, <2>1, <2>2, <1>2, LimiterAssumption, FullPays
  <2>4. Full + RatePerMinute * Paid(k)' = Full
    BY <2>2, LimiterAssumption, FullPays
  <2> QED
    BY <2>3, <2>4, <1>3, <1>4, FullPays DEF Account, Untouched
<1> QED
  BY <1>6, <1>7

\* An update that costs nothing keeps what was promised: the refill it adds
\* is the refill it takes off the wait, and none is added twice over.
LEMMA StoreKeepsPromise ==
    ASSUME Types, Bounded, Promise,
           NEW k \in Clients, NEW t \in Int,
           Store(k, t, 0), retryAt' = retryAt
    PROVE  Promise'
<1> DEFINE E == Elapsed(k, t)
           R == retryAt[k]
           U == updatedAt[k]
<1>1. /\ E \in Nat /\ E >= t - U /\ RatePerMinute * E \in Nat
      /\ R \in Int /\ U \in Int /\ tokens[k] \in Int
  BY ElapsedType DEF Types
<1>2. /\ tokens'[k] = Refilled(k, t)
      /\ updatedAt'[k] = t
  BY RefilledType, FullPays DEF Store, Types
<1>3. ASSUME R # NoAdvice
      PROVE  \/ tokens'[k] >= Minute
             \/ tokens'[k] + RatePerMinute * (R - t) >= Minute
  <2>1. CASE tokens'[k] >= Minute
    BY <2>1
  <2>2. CASE tokens'[k] < Minute
    <3>1. tokens'[k] = tokens[k] + RatePerMinute * E
      BY <2>2, <1>2, RefilledType, LimiterAssumption, FullPays
    <3>2. tokens[k] < Minute
      BY <3>1, <2>2, <1>1, LimiterAssumption
    <3>3. tokens[k] + RatePerMinute * (R - U) >= Minute
      BY <3>2, <1>3, <1>1, LimiterAssumption DEF Promise, Covered
    <3>4. RatePerMinute * (R - U) <= RatePerMinute * (E + (R - t))
      BY <1>1, Monotone, LimiterAssumption
    <3>5. RatePerMinute * (E + (R - t)) = RatePerMinute * E + RatePerMinute * (R - t)
      BY <1>1, Distribute, LimiterAssumption
    <3> DEFINE a == RatePerMinute * (R - U)
               b == RatePerMinute * E
               c == RatePerMinute * (R - t)
    <3>6. a \in Int /\ b \in Int /\ c \in Int /\ Minute \in Int
      BY <1>1, LimiterAssumption
    <3>7. a <= b + c /\ tokens[k] + a >= Minute /\ tokens'[k] = tokens[k] + b
      BY <3>1, <3>3, <3>4, <3>5
    <3> HIDE DEF a, b, c
    <3>8. tokens'[k] + c >= Minute
      BY <3>6, <3>7, <1>1
    <3> QED
      BY <3>8 DEF c
  <2>3. tokens'[k] \in Int
    BY <1>2, RefilledType, FullPays
  <2> QED
    BY <2>1, <2>2, <2>3, LimiterAssumption
<1>4. ASSUME NEW c \in Clients, c # k
      PROVE  tokens'[c] = tokens[c] /\ updatedAt'[c] = updatedAt[c]
  BY <1>4 DEF Store, Types
<1> QED
  BY <1>2, <1>3, <1>4 DEF Promise, Covered

\* What Advise promises is kept at once.
LEMMA AdviceHolds ==
    ASSUME Types, Bounded, NEW k \in Clients
    PROVE  now + Wait(k) \in Int /\ Covered(k, now + Wait(k))
<1>1. /\ tokens[k] \in Int /\ updatedAt[k] \in Int /\ now \in Int
      /\ updatedAt[k] <= now
  BY DEF Types, Bounded
<1>2. CASE tokens[k] >= Minute
  BY <1>1, <1>2 DEF Wait, Covered
<1>3. CASE ~(tokens[k] >= Minute)
  <2> DEFINE missing == Minute - tokens[k]
             seconds == missing \div RatePerMinute + 1
             wait == now + seconds - updatedAt[k]
  <2>1. missing \in Nat
    BY <1>1, <1>3, LimiterAssumption
  <2>2. /\ missing \div RatePerMinute \in Nat
        /\ RatePerMinute * seconds >= missing
    BY <2>1, Rounding, LimiterAssumption
  <2>3. seconds \in Int /\ wait \in Int /\ seconds <= wait
    BY <2>2, <1>1
  <2> HIDE DEF seconds, wait
  <2>4. RatePerMinute * seconds <= RatePerMinute * wait
    BY <2>3, Monotone, LimiterAssumption
  <2>5. RatePerMinute * seconds \in Int /\ RatePerMinute * wait \in Int
    BY <2>3, LimiterAssumption
  <2> DEFINE x == RatePerMinute * seconds
             y == RatePerMinute * wait
  <2>6. x \in Int /\ y \in Int /\ x <= y /\ x >= missing
    BY <2>2, <2>4, <2>5
  <2> HIDE DEF x, y
  <2>7. tokens[k] + y >= Minute
    BY <2>6, <1>1, LimiterAssumption
  <2>8. Wait(k) = seconds
    BY <1>3 DEF Wait, seconds
  <2>9. now + Wait(k) - updatedAt[k] = wait
    BY <2>8 DEF wait
  <2> QED
    BY <2>3, <2>7, <2>8, <2>9, <1>1 DEF y, Covered
<1> QED
  BY <1>2, <1>3

-----------------------------------------------------------------------------
(* The invariant.                                                          *)

LEMMA BucketInvHolds == LimiterInit /\ now = 0 => BucketInv
<1> SUFFICES ASSUME LimiterInit, now = 0
             PROVE  BucketInv
  OBVIOUS
<1>1. Types
  BY FullPays DEF LimiterInit, Types, NoAdvice
<1>2. Bounded
  BY FullPays DEF LimiterInit, Bounded
<1>3. Account
  <2>1. SUFFICES ASSUME NEW k \in Clients
                 PROVE  granted[k] * Minute + tokens[k] <= Full + RatePerMinute * Paid(k)
    BY DEF Account
  <2>2. Paid(k) = 0 /\ granted[k] = 0 /\ tokens[k] = Full
    BY DEF LimiterInit, Paid
  <2> QED
    BY <2>2, FullPays, LimiterAssumption
<1>4. Untouched
  BY DEF LimiterInit, Untouched
<1>5. Promise
  BY DEF LimiterInit, Promise
<1> QED
  BY <1>1, <1>2, <1>3, <1>4, <1>5 DEF BucketInv

LEMMA GrantKeeps ==
    ASSUME BucketInv, NEW h \in Handlers, Grant(h)
    PROVE  BucketInv'
<1> DEFINE k == client[h]
           t == readAt[h]
<1>1. k \in Clients /\ t \in Int /\ t <= now
  BY DEF BucketInv, Types, Bounded
<1>2. Refilled(k, t) \in Minute..Full /\ Full \in Nat
  BY <1>1, RefilledType, FullPays, LimiterAssumption DEF Grant, BucketInv
<1>3. Store(k, t, 1 * Minute) /\ granted' = [granted EXCEPT ![k] = @ + 1]
  BY LimiterAssumption DEF Grant
<1>4. Account' /\ Untouched'
  BY <1>1, <1>3, StoreKeepsAccount DEF BucketInv
<1>5. Store(k, t, Minute)
  BY DEF Grant
<1>6. Types'
  BY <1>1, <1>2, <1>5, LimiterAssumption DEF Grant, Store, Types, BucketInv, NoAdvice
<1>7. Bounded'
  BY <1>1, <1>2, <1>5, LimiterAssumption, FullPays DEF Grant, Store, Types, Bounded, BucketInv
<1>8. Promise'
  BY <1>5 DEF Grant, Store, Types, Promise, Covered, BucketInv
<1> QED
  BY <1>4, <1>6, <1>7, <1>8 DEF BucketInv

LEMMA RefuseKeeps ==
    ASSUME BucketInv, NEW h \in Handlers, Refuse(h)
    PROVE  BucketInv'
<1> DEFINE k == client[h]
           t == readAt[h]
<1>1. k \in Clients /\ t \in Int /\ t <= now
  BY DEF BucketInv, Types, Bounded
<1>2. Refilled(k, t) \in 0..Full /\ Full \in Nat
  BY <1>1, RefilledType, FullPays DEF BucketInv
<1>3. Store(k, t, 0)
  BY DEF Refuse
<1>4. Store(k, t, 0 * Minute) /\ granted' = [granted EXCEPT ![k] = @ + 0]
  BY <1>1, <1>3, LimiterAssumption DEF Refuse, Types, BucketInv
<1>5. Account' /\ Untouched'
  BY <1>1, <1>4, StoreKeepsAccount DEF BucketInv
<1>6. Types'
  BY <1>1, <1>2, <1>3 DEF Refuse, Store, Types, BucketInv
<1>7. Bounded'
  BY <1>1, <1>2, <1>3, FullPays DEF Refuse, Store, Types, Bounded, BucketInv
<1>8. Promise'
  BY <1>1, <1>3, StoreKeepsPromise DEF Refuse, BucketInv
<1> QED
  BY <1>5, <1>6, <1>7, <1>8 DEF BucketInv

LEMMA AdviseKeeps ==
    ASSUME BucketInv, NEW h \in Handlers, Advise(h)
    PROVE  BucketInv'
<1> DEFINE k == client[h]
<1>1. k \in Clients /\ Types /\ Bounded
  BY DEF BucketInv, Types
<1>2. now + Wait(k) \in Int
  BY <1>1, AdviceHolds
<1>3. Types'
  BY <1>1, <1>2 DEF Advise, Types, bucketVars, meterVars, Earlier
<1>4. Bounded' /\ Account' /\ Untouched'
  BY DEF Advise, Types, Bounded, Account, Untouched, Paid, bucketVars, meterVars, BucketInv
<1>5. Promise'
  <2>1. ASSUME NEW c \in Clients, c # k
        PROVE  retryAt'[c] = retryAt[c]
    BY <2>1, <1>1 DEF Advise, Types
  <2>2. \/ retryAt'[k] = now + Wait(k)
        \/ retryAt[k] # NoAdvice /\ retryAt'[k] = retryAt[k]
    BY <1>1 DEF Advise, Types, Earlier
  <2>3. tokens' = tokens /\ updatedAt' = updatedAt
    BY DEF Advise, bucketVars
  <2>4. ASSUME NEW c \in Clients, retryAt'[c] # NoAdvice
        PROVE  Covered(c, retryAt'[c])
    <3>1. CASE c = k /\ retryAt'[k] = now + Wait(k)
      BY <3>1, <1>1, AdviceHolds
    <3>2. CASE c # k \/ (retryAt[k] # NoAdvice /\ retryAt'[k] = retryAt[k])
      BY <3>2, <2>1, <2>4 DEF Promise, BucketInv
    <3> QED
      BY <3>1, <3>2, <2>2
  <2> QED
    BY <2>3, <2>4 DEF Promise, Covered
<1> QED
  BY <1>3, <1>4, <1>5 DEF BucketInv

LEMMA ResetKeeps ==
    ASSUME BucketInv, NEW k \in Clients, ResetMeter(k)
    PROVE  BucketInv'
<1>1. Types' /\ Bounded' /\ Promise'
  BY DEF ResetMeter, Types, Bounded, Promise, Covered, bucketVars, BucketInv
<1>2. Untouched'
  BY DEF ResetMeter, Types, Untouched, bucketVars, BucketInv
<1>3. ASSUME NEW c \in Clients
      PROVE  granted'[c] * Minute + tokens'[c] <= Full + RatePerMinute * Paid(c)'
  <2>1. CASE c = k
    <3>1. Paid(c)' = 0 /\ granted'[c] = 0 /\ tokens'[c] \in 0..Full
      BY <2>1 DEF ResetMeter, Types, Bounded, Paid, bucketVars, BucketInv
    <3> QED
      BY <3>1, FullPays, LimiterAssumption
  <2>2. CASE c # k
    <3>1. granted'[c] = granted[c] /\ tokens'[c] = tokens[c] /\ Paid(c)' = Paid(c)
      BY <2>2 DEF ResetMeter, Types, Paid, bucketVars, BucketInv
    <3> QED
      BY <3>1 DEF Account, BucketInv
  <2> QED
    BY <2>1, <2>2
<1> QED
  BY <1>1, <1>2, <1>3 DEF BucketInv, Account

LEMMA BucketInvKept == BucketInv /\ [LimiterNext]_limiterAll => BucketInv'
<1> SUFFICES ASSUME BucketInv, [LimiterNext]_limiterAll
             PROVE  BucketInv'
  OBVIOUS
<1>1. ASSUME NEW h \in Handlers, NEW k \in Clients, Arrive(h, k)
      PROVE  BucketInv'
  BY <1>1 DEF Arrive, bucketVars, meterVars, BucketInv, Types, Bounded, Account, Paid,
              Untouched, Promise, Covered
<1>2. CASE LimiterTick
  BY <1>2 DEF LimiterTick, limiterVars, bucketVars, meterVars, BucketInv, Types, Bounded,
              Account, Paid, Untouched, Promise, Covered
<1>3. CASE UNCHANGED limiterAll
  BY <1>3 DEF limiterAll, limiterVars, bucketVars, meterVars, BucketInv, Types, Bounded,
              Account, Paid, Untouched, Promise, Covered
<1> QED
  BY <1>1, <1>2, <1>3, GrantKeeps, RefuseKeeps, AdviseKeeps, ResetKeeps
  DEF LimiterNext, LimiterStep

LEMMA BucketInvAlways == LimiterSpec => []BucketInv
<1>1. LimiterSpec => LimiterInit /\ now = 0 /\ [][LimiterNext]_limiterAll
  BY DEF LimiterSpec, LimiterNext, limiterAll
<1> QED
  BY <1>1, BucketInvHolds, BucketInvKept, PTL

-----------------------------------------------------------------------------
(* The theorems.                                                           *)

\* In every period the limiter lets through at most a full bucket and the
\* refill, counted twice only where a handler was overtaken.
THEOREM GrantsStayBounded == LimiterSpec => []GrantsBounded
<1>1. ASSUME BucketInv
      PROVE  GrantsBounded
  <2>1. SUFFICES ASSUME NEW k \in Clients
                 PROVE  granted[k] * Minute <=
                            Full + RatePerMinute * (now - since[k] + rewound[k])
    BY DEF GrantsBounded
  <2> DEFINE spent == granted[k] * Minute
             paid == RatePerMinute * Paid(k)
             due == RatePerMinute * (now - since[k] + rewound[k])
  <2>2. Paid(k) \in Int /\ now - since[k] + rewound[k] \in Int
        /\ Paid(k) <= now - since[k] + rewound[k]
    BY <1>1 DEF BucketInv, Types, Bounded, Paid
  <2>3. paid <= due
    BY <2>2, Monotone, LimiterAssumption
  <2>4. spent + tokens[k] <= Full + paid /\ tokens[k] \in Nat
    BY <1>1, FullPays DEF BucketInv, Account, Bounded
  <2>5. spent \in Int /\ paid \in Int /\ due \in Int /\ Full \in Int
    BY <1>1, <2>2, LimiterAssumption, FullPays DEF BucketInv, Types
  <2> HIDE DEF spent, paid, due
  <2>6. spent <= Full + due
    BY <2>3, <2>4, <2>5
  <2> QED
    BY <2>6 DEF spent, due
<1> QED
  BY <1>1, BucketInvAlways, PTL

LEMMA RefusedTooEarly ==
    ASSUME BucketInv, NEW h \in Handlers, Refuse(h), retryAt[client[h]] # NoAdvice
    PROVE  readAt[h] < retryAt[client[h]]
<1> DEFINE k == client[h]
           t == readAt[h]
           R == retryAt[k]
           U == updatedAt[k]
           E == Elapsed(k, t)
<1>1. /\ k \in Clients /\ t \in Int /\ R \in Int /\ U \in Int
      /\ tokens[k] \in Int /\ Types /\ Bounded
  BY DEF BucketInv, Types
<1>2. E \in Nat /\ E >= t - U /\ RatePerMinute * E \in Nat
  BY <1>1, ElapsedType
<1>3. Refilled(k, t) < Minute /\ Refilled(k, t) = tokens[k] + RatePerMinute * E
  BY <1>1, RefilledType, LimiterAssumption, FullPays DEF Refuse
<1>4. SUFFICES ASSUME t >= R
               PROVE  FALSE
  BY <1>1
<1>5. RatePerMinute * (R - U) <= RatePerMinute * E
  BY <1>1, <1>2, <1>4, Monotone, LimiterAssumption
<1>6. tokens[k] >= Minute \/ tokens[k] + RatePerMinute * (R - U) >= Minute
  BY <1>1 DEF Promise, Covered, BucketInv
<1> DEFINE a == RatePerMinute * (R - U)
           b == RatePerMinute * E
<1>7. /\ a \in Int /\ b \in Nat /\ a <= b /\ Minute \in Int
      /\ tokens[k] >= Minute \/ tokens[k] + a >= Minute
      /\ tokens[k] + b < Minute
  BY <1>1, <1>2, <1>3, <1>5, <1>6, LimiterAssumption
<1> HIDE DEF a, b
<1> QED
  BY <1>7, <1>1

\* Only Refuse makes a handler refused.
LEMMA OnlyRefuse ==
    ASSUME BucketInv, [LimiterNext]_limiterAll, NEW h \in Handlers,
           step[h] = "timed", step'[h] = "refused"
    PROVE  Refuse(h)
<1>1. ASSUME NEW g \in Handlers, \/ \E k \in Clients : Arrive(g, k)
                                 \/ Grant(g) \/ Advise(g)
      PROVE  FALSE
  BY <1>1 DEF Arrive, Grant, Advise, BucketInv, Types
<1>2. ASSUME NEW g \in Handlers, Refuse(g), g # h
      PROVE  FALSE
  BY <1>2 DEF Refuse, BucketInv, Types
<1>3. CASE LimiterTick \/ UNCHANGED limiterAll \/ \E k \in Clients : ResetMeter(k)
  BY <1>3 DEF LimiterTick, limiterAll, limiterVars, ResetMeter
<1> QED
  BY <1>1, <1>2, <1>3 DEF LimiterNext, LimiterStep

\* Whoever comes back when told to, with nobody of the same key let through
\* in between, is let through.
THEOREM AdviceIsHonest == LimiterSpec => RetryAfterSuffices
<1>1. ASSUME BucketInv, [LimiterNext]_limiterAll
      PROVE  \A h \in Handlers :
                (step[h] = "timed" /\ step'[h] = "refused"
                   /\ retryAt[client[h]] # NoAdvice) =>
                      readAt[h] < retryAt[client[h]]
  BY <1>1, OnlyRefuse, RefusedTooEarly
<1>2. LimiterSpec => [][LimiterNext]_limiterAll
  BY DEF LimiterSpec, LimiterNext, limiterAll
<1> QED
  BY <1>1, <1>2, BucketInvAlways, PTL DEF RetryAfterSuffices, limiterAll
=============================================================================
