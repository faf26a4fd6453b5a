--------------------------- MODULE GroqPoolProofs ---------------------------
(***************************************************************************)
(* Proofs about GroqPool, for any number of threads, keys, limits and any  *)
(* deadline: a call is late at most once, streams that break are counted   *)
(* against the streams open when the count was reset, and the pool uses    *)
(* its breaker only in the ways CircuitBreaker describes.                  *)
(*                                                                         *)
(* Of the keys: a key is overshot by one use per other thread at most, and *)
(* over all keys the rotation takes an unavailable one only when none is   *)
(* available.                                                              *)
(***************************************************************************)
EXTENDS GroqPool, FiniteSetTheorems, SequenceTheorems, TLAPS

Labels == {"idle", "attempt", "use", "calling", "giveUp", "streaming"}

CallTypes ==
    /\ now \in Nat /\ failures \in Nat /\ streamFailures \in Nat
    /\ pc \in [Callers -> Labels]
    /\ deadline \in [Callers -> Nat]
    /\ late \in [Callers -> Nat]

\* A call that is late has passed its deadline and never gets to another key.
Lateness ==
    \A c \in Callers :
        /\ late[c] <= 1
        /\ late[c] > 0 => pc[c] \notin {"idle", "use"} /\ now >= deadline[c]

Streams == {c \in Callers : pc[c] = "streaming"}

\* Failures that were counted, and those that still can be.
Accounts ==
    /\ failures + Cardinality(Running) <= MaxFailures
    /\ streamFailures + Cardinality(Streams) <= Cardinality(Callers)

IInv == CallTypes /\ Lateness /\ Accounts

-----------------------------------------------------------------------------
(* Sets of threads.                                                        *)

LEMMA ThreadSets ==
    ASSUME NEW S \in SUBSET Callers
    PROVE  /\ IsFiniteSet(S) /\ Cardinality(S) \in Nat
           /\ Cardinality(S) <= Cardinality(Callers)
  BY FS_Subset, FS_CardinalityType, CallersAssumption

LEMMA OneMore ==
    ASSUME NEW S \in SUBSET Callers, NEW c \in Callers \ S
    PROVE  Cardinality(S \cup {c}) = Cardinality(S) + 1
  BY ThreadSets, FS_AddElement

LEMMA OneLess ==
    ASSUME NEW S \in SUBSET Callers, NEW c \in S
    PROVE  Cardinality(S \ {c}) = Cardinality(S) - 1
  BY ThreadSets, FS_RemoveElement

\* A thread that moves to another place changes the two sets by itself only.
LEMMA Moved ==
    ASSUME CallTypes, NEW c \in Callers, NEW l \in Labels, Goto(c, l)
    PROVE  /\ pc' \in [Callers -> Labels] /\ pc'[c] = l
           /\ \A d \in Callers \ {c} : pc'[d] = pc[d]
           /\ Running' = IF l = "idle" THEN Running \ {c} ELSE Running \cup {c}
           /\ Streams' = IF l = "streaming" THEN Streams \cup {c} ELSE Streams \ {c}
<1>1. /\ pc' \in [Callers -> Labels] /\ pc'[c] = l
      /\ \A d \in Callers \ {c} : pc'[d] = pc[d]
  BY DEF CallTypes, Goto
<1> QED
  BY <1>1 DEF Running, Streams

-----------------------------------------------------------------------------
(* What a step does to the places of the threads and to the breaker.       *)

\* Steps between the admission and the outcome.
Working(c) ==
    Attempt(c) \/ UseKey(c) \/ KeyRefused(c) \/ TransientError(c) \/ ModelError(c)

LEMMA WorkingIs ==
    ASSUME CallTypes, NEW c \in Callers, Working(c)
    PROVE  /\ pc[c] \in {"attempt", "use", "calling"}
           /\ \E l \in {"attempt", "use", "calling", "giveUp"} : Goto(c, l)
           /\ UNCHANGED <<breakerVars, streamFailures, now, deadline>>
<1>1. CASE Attempt(c)
  BY <1>1 DEF Attempt, ReadyToAttempt, GiveUpLater, PickKey
<1>2. CASE UseKey(c)
  BY <1>2 DEF UseKey, historyVars
<1>3. ASSUME NextModel(c) PROVE /\ \E l \in {"attempt", "giveUp"} : Goto(c, l)
                                /\ UNCHANGED deadline
  BY <1>3 DEF NextModel, Continue
<1>4. ASSUME Backoff(c) PROVE /\ \E l \in {"attempt", "giveUp"} : Goto(c, l)
                              /\ UNCHANGED deadline
  <2>1. CASE attempt[c] < MaxAttempts
    BY <1>4, <2>1 DEF Backoff, Continue
  <2>2. CASE ~(attempt[c] < MaxAttempts)
    BY <1>3, <1>4, <2>2 DEF Backoff
  <2> QED
    BY <2>1, <2>2
<1>5. CASE KeyRefused(c) \/ TransientError(c)
  BY <1>4, <1>5 DEF KeyRefused, TransientError, Calling, historyVars
<1>6. CASE ModelError(c)
  BY <1>3, <1>6 DEF ModelError, Calling, historyVars
<1> QED
  BY <1>1, <1>2, <1>5, <1>6 DEF Working

LEMMA WorkingMoves ==
    ASSUME CallTypes, NEW c \in Callers, Working(c)
    PROVE  /\ pc' \in [Callers -> Labels] /\ pc'[c] # "idle"
           /\ \A d \in Callers \ {c} : pc'[d] = pc[d]
           /\ UNCHANGED <<Running, Streams>>
<1>1. PICK l \in {"attempt", "use", "calling", "giveUp"} : Goto(c, l)
  BY WorkingIs
<1>2. c \in Running /\ c \notin Streams
  BY WorkingIs DEF Running, Streams
<1> QED
  BY <1>1, <1>2, Moved DEF Labels

\* Outcomes: the call is over, but for a stream that opens.
Ending(c) ==
    \/ CallOk(c) \/ OtherError(c) \/ GiveUp(c)
    \/ StreamEnds(c) \/ StreamBreaks(c) \/ StreamClosed(c)

LEMMA EndingIs ==
    ASSUME CallTypes, NEW c \in Callers, Ending(c)
    PROVE  pc[c] # "idle" /\ Return(c) /\ UNCHANGED now
  BY DEF Ending, CallOk, OtherError, GiveUp, StreamEnds, StreamBreaks, StreamClosed, Calling,
         Streaming

LEMMA EndingMoves ==
    ASSUME CallTypes, NEW c \in Callers, Ending(c)
    PROVE  /\ pc' \in [Callers -> Labels] /\ pc'[c] = "idle"
           /\ \A d \in Callers \ {c} : pc'[d] = pc[d]
           /\ c \in Running /\ Running' = Running \ {c} /\ Streams' = Streams \ {c}
<1>1. Goto(c, "idle") /\ c \in Running
  BY EndingIs DEF Return, Running
<1> QED
  BY <1>1, Moved DEF Labels

-----------------------------------------------------------------------------
LEMMA InitIInv == Init => IInv
<1> SUFFICES ASSUME Init PROVE IInv
  OBVIOUS
<1>1. CallTypes /\ Lateness
  BY DEF Init, Breaker!CircuitInit, CallTypes, Labels, Lateness
<1>2. Running = {} /\ Streams = {}
  BY DEF Init, Running, Streams
<1>3. Accounts
  BY <1>2, FS_EmptySet, ThreadSets, BoundsAssumption DEF Init, Breaker!CircuitInit, Accounts
<1> QED
  BY <1>1, <1>3 DEF IInv

LEMMA BeginKeeps ==
    ASSUME IInv, NEW c \in Callers, Begin(c)
    PROVE  IInv'
<1>1. /\ pc[c] = "idle" /\ RoomForCall /\ Goto(c, "attempt") /\ failures' = failures
      /\ deadline' = [deadline EXCEPT ![c] = now + TotalTimeout]
      /\ UNCHANGED <<now, late, streamFailures>>
  BY DEF Begin, Breaker!AllowCall, historyVars
<1>2. c \notin Running /\ c \notin Streams
  BY <1>1 DEF Running, Streams
<1>3. /\ pc' \in [Callers -> Labels] /\ pc'[c] = "attempt"
      /\ \A d \in Callers \ {c} : pc'[d] = pc[d]
      /\ Running' = Running \cup {c} /\ Streams' = Streams
  BY <1>1, <1>2, Moved DEF IInv, Labels
<1>4. CallTypes'
  <2>1. now + TotalTimeout \in Nat
    BY PolicyAssumption DEF IInv, CallTypes
  <2> QED
    BY <1>1, <1>3, <2>1 DEF IInv, CallTypes
<1>5. Lateness'
  BY <1>1, <1>3 DEF IInv, CallTypes, Lateness
<1>6. Cardinality(Running') = Cardinality(Running) + 1 /\ Cardinality(Running) \in Nat
  BY <1>2, <1>3, OneMore, ThreadSets DEF Running
<1>7. Accounts'
  BY <1>1, <1>3, <1>6, BoundsAssumption DEF IInv, CallTypes, Accounts, RoomForCall
<1> QED
  BY <1>4, <1>5, <1>7 DEF IInv

LEMMA WorkingKeeps ==
    ASSUME IInv, NEW c \in Callers, Working(c)
    PROVE  IInv'
<1>1. /\ UNCHANGED <<failures, streamFailures, now, deadline>>
      /\ pc' \in [Callers -> Labels] /\ pc'[c] # "idle"
      /\ \A d \in Callers \ {c} : pc'[d] = pc[d]
      /\ UNCHANGED <<Running, Streams>>
  BY WorkingIs, WorkingMoves DEF IInv, breakerVars
<1>2. Accounts'
  BY <1>1 DEF IInv, Accounts
<1>3. CASE UseKey(c)
  <2>1. /\ pc[c] = "use" /\ pc'[c] = "calling"
        /\ late' = [late EXCEPT ![c] = IF now >= deadline[c] THEN @ + 1 ELSE @]
    BY <1>3 DEF IInv, CallTypes, UseKey, Goto
  <2>2. late[c] = 0
    BY <2>1 DEF IInv, CallTypes, Lateness
  <2>3. CallTypes' /\ Lateness'
    BY <1>1, <2>1, <2>2 DEF IInv, CallTypes, Lateness
  <2> QED
    BY <1>2, <2>3 DEF IInv
<1>4. CASE ~UseKey(c)
  <2>1. UNCHANGED late
    BY <1>4 DEF Working, Attempt, ReadyToAttempt, KeyRefused, TransientError, ModelError,
                Backoff, NextModel, Continue
  <2>2. pc'[c] = "use" => now < deadline[c]
    <3>1. CASE Attempt(c)
      BY <3>1 DEF IInv, CallTypes, Attempt, GiveUpLater, Goto
    <3>2. CASE KeyRefused(c) \/ TransientError(c) \/ ModelError(c)
      BY <3>2 DEF IInv, CallTypes, KeyRefused, TransientError, ModelError, Backoff, NextModel,
                  Continue, Goto
    <3> QED
      BY <1>4, <3>1, <3>2 DEF Working
  <2>3. CallTypes' /\ Lateness'
    BY <1>1, <2>1, <2>2 DEF IInv, CallTypes, Lateness
  <2> QED
    BY <1>2, <2>3 DEF IInv
<1> QED
  BY <1>3, <1>4

LEMMA EndingKeeps ==
    ASSUME IInv, NEW c \in Callers, Ending(c)
    PROVE  IInv'
<1>1. /\ pc[c] # "idle" /\ UNCHANGED now
      /\ deadline' = [deadline EXCEPT ![c] = 0] /\ late' = [late EXCEPT ![c] = 0]
      /\ pc' \in [Callers -> Labels] /\ pc'[c] = "idle"
      /\ \A d \in Callers \ {c} : pc'[d] = pc[d]
      /\ c \in Running /\ Running' = Running \ {c} /\ Streams' = Streams \ {c}
  BY EndingIs, EndingMoves DEF IInv, Return
<1>2. /\ failures' \in {0, failures, failures + 1}
      /\ \/ streamFailures' \in {0, streamFailures}
         \/ c \in Streams /\ streamFailures' = streamFailures + 1
  BY DEF Ending, CallOk, OtherError, GiveUp, StreamEnds, StreamBreaks, StreamClosed, Streaming,
         Breaker!RecordSuccess, Breaker!RecordFailure, historyVars, breakerVars, Streams
<1>3. CallTypes' /\ Lateness'
  <2>1. CallTypes'
    BY <1>1, <1>2 DEF IInv, CallTypes
  <2>2. Lateness'
    BY <1>1 DEF IInv, CallTypes, Lateness
  <2> QED
    BY <2>1, <2>2
<1>4. Cardinality(Running') = Cardinality(Running) - 1
  BY <1>1, OneLess DEF Running
<1>5. Cardinality(Streams') = IF c \in Streams THEN Cardinality(Streams) - 1 ELSE Cardinality(Streams)
  <2>1. CASE c \in Streams
    BY <1>1, <2>1, OneLess DEF Streams
  <2>2. CASE c \notin Streams
    <3>1. Streams' = Streams
      BY <1>1, <2>2
    <3> QED
      BY <2>2, <3>1
  <2> QED
    BY <2>1, <2>2
<1>6. /\ Cardinality(Running) \in Nat \ {0} /\ Cardinality(Streams) \in Nat
      /\ Cardinality(Streams') \in Nat /\ Cardinality(Callers) \in Nat
      /\ Cardinality(Streams) <= Cardinality(Callers)
  <2>1. Cardinality(Running) # 0
    BY <1>1, FS_EmptySet, ThreadSets DEF Running
  <2> QED
    BY <1>1, <2>1, ThreadSets DEF Running, Streams
<1>7. Accounts'
  BY <1>2, <1>4, <1>5, <1>6, BoundsAssumption DEF IInv, CallTypes, Accounts
<1> QED
  BY <1>3, <1>7 DEF IInv

LEMMA OpeningKeeps ==
    ASSUME IInv, NEW c \in Callers, StreamOpens(c)
    PROVE  IInv'
<1>1. /\ pc[c] = "calling" /\ Goto(c, "streaming") /\ failures' = 0 /\ streamFailures' = 0
      /\ UNCHANGED <<now, deadline, late>>
  BY DEF StreamOpens, Calling, Continue, Breaker!RecordSuccess
<1>2. c \in Running
  BY <1>1 DEF Running
<1>3. /\ pc' \in [Callers -> Labels] /\ pc'[c] = "streaming"
      /\ \A d \in Callers \ {c} : pc'[d] = pc[d]
      /\ Running' = Running
  BY <1>1, <1>2, Moved DEF IInv, Labels
<1>4. CallTypes' /\ Lateness'
  BY <1>1, <1>3 DEF IInv, CallTypes, Lateness
<1>5. Streams' \in SUBSET Callers /\ Running \in SUBSET Callers
  BY DEF Streams, Running
<1>6. /\ Cardinality(Streams') \in Nat /\ Cardinality(Streams') <= Cardinality(Callers)
      /\ Cardinality(Running) \in Nat
  BY <1>5, ThreadSets
<1>7. Accounts'
  BY <1>1, <1>3, <1>6, BoundsAssumption DEF IInv, CallTypes, Accounts
<1> QED
  BY <1>4, <1>7 DEF IInv

LEMMA RestKeeps ==
    ASSUME IInv, Tick \/ UNCHANGED vars
    PROVE  IInv'
<1>1. /\ UNCHANGED <<failures, streamFailures, pc, deadline, late>>
      /\ now' \in {now, now + 1}
  BY DEF Tick, vars, breakerVars, callVars, historyVars
<1>2. UNCHANGED <<Running, Streams>>
  BY <1>1 DEF Running, Streams
<1> QED
  BY <1>1, <1>2 DEF IInv, CallTypes, Lateness, Accounts

LEMMA NextKeeps ==
    ASSUME IInv, [Next]_vars
    PROVE  IInv'
<1>1. ASSUME NEW c \in Callers, Begin(c) \/ Refused(c) \/ Advance(c) PROVE IInv'
  BY <1>1, BeginKeeps, WorkingKeeps, EndingKeeps, OpeningKeeps, RestKeeps
  DEF Advance, Working, Ending, Refused
<1>2. CASE Tick \/ Horizon \/ UNCHANGED vars
  BY <1>2, RestKeeps DEF Horizon
<1> QED
  BY <1>1, <1>2 DEF Next

LEMMA Inductive == Spec => []IInv
  BY InitIInv, NextKeeps, PTL DEF Spec

-----------------------------------------------------------------------------
\* For any models, retries, delays and any number of threads, the total
\* deadline lets at most one attempt of a call out late (groq_pool.py:250).
THEOREM DeadlineHolds == Spec => []AtMostOneLateAttempt
<1>1. IInv => AtMostOneLateAttempt
  BY DEF IInv, Lateness, AtMostOneLateAttempt
<1> QED
  BY <1>1, Inductive, PTL

\* Streams that break are at most as many as threads before a success resets
\* the count: with a threshold above that they never open the circuit.
THEOREM BrokenStreamsStayBounded == Spec => []BrokenStreamsBounded
<1>1. IInv => BrokenStreamsBounded
  <2> SUFFICES ASSUME IInv PROVE BrokenStreamsBounded
    OBVIOUS
  <2>1. Cardinality(Streams) \in Nat /\ Cardinality(Callers) \in Nat
    BY ThreadSets DEF Streams
  <2> QED
    BY <2>1 DEF IInv, CallTypes, Accounts, BrokenStreamsBounded
<1> QED
  BY <1>1, Inductive, PTL

-----------------------------------------------------------------------------
(* The pool as a user of the breaker.                                      *)

LEMMA InitUses == Init => Breaker!Init
  BY DEF Init, Running, Breaker!Init

LEMMA BeginUses ==
    ASSUME IInv, NEW c \in Callers, Begin(c)
    PROVE  Breaker!Start(c)
<1>1. pc[c] = "idle" /\ Goto(c, "attempt") /\ Breaker!AllowCall /\ UNCHANGED now
  BY DEF Begin
<1>2. c \notin Running
  BY <1>1 DEF Running
<1>3. Running' = Running \cup {c}
  BY <1>1, Moved DEF IInv, Labels
<1> QED
  BY <1>1, <1>2, <1>3 DEF Breaker!Start

LEMMA WorkingUses ==
    ASSUME IInv, NEW c \in Callers, Working(c)
    PROVE  UNCHANGED Breaker!vars
  BY WorkingIs, WorkingMoves DEF IInv, breakerVars, Breaker!vars

\* A running call finds room for one more failure.
LEMMA RoomToFail ==
    ASSUME IInv, NEW c \in Running
    PROVE  failures < MaxFailures
<1>1. Cardinality(Running) \in Nat \ {0}
  BY FS_EmptySet, ThreadSets DEF Running
<1> QED
  BY <1>1, BoundsAssumption DEF IInv, CallTypes, Accounts

LEMMA EndingUses ==
    ASSUME IInv, NEW c \in Callers, Ending(c)
    PROVE  Breaker!Succeed(c) \/ Breaker!Fail(c) \/ Breaker!Close(c)
<1>1. UNCHANGED now /\ c \in Running /\ Running' = Running \ {c}
  BY EndingIs, EndingMoves DEF IInv
<1>2. CASE CallOk(c) \/ StreamEnds(c)
  BY <1>1, <1>2 DEF CallOk, StreamEnds, Breaker!Succeed, Breaker!StayOrReturn
<1>3. CASE OtherError(c) \/ GiveUp(c) \/ StreamBreaks(c)
  BY <1>1, <1>3, RoomToFail
  DEF OtherError, GiveUp, StreamBreaks, Breaker!Fail, Breaker!StayOrReturn
<1>4. CASE StreamClosed(c)
  BY <1>1, <1>4 DEF StreamClosed, breakerVars, Breaker!Close, Breaker!circuitVars
<1> QED
  BY <1>2, <1>3, <1>4 DEF Ending

LEMMA OpeningUses ==
    ASSUME IInv, NEW c \in Callers, StreamOpens(c)
    PROVE  Breaker!Succeed(c)
<1>1. pc[c] = "calling" /\ Goto(c, "streaming") /\ Breaker!RecordSuccess /\ UNCHANGED now
  BY DEF StreamOpens, Calling, Continue
<1>2. c \in Running
  BY <1>1 DEF Running
<1>3. Running' = Running
  BY <1>1, <1>2, Moved DEF IInv, Labels
<1> QED
  BY <1>1, <1>2, <1>3 DEF Breaker!Succeed, Breaker!StayOrReturn

LEMMA RestUses ==
    ASSUME Tick \/ UNCHANGED vars
    PROVE  Breaker!Tick \/ UNCHANGED Breaker!vars
<1>1. UNCHANGED <<breakerVars, pc>>
  BY DEF Tick, vars, callVars
<1>2. UNCHANGED <<circuit, failures, openedAt, Running>>
  BY <1>1 DEF breakerVars, Running
<1> QED
  BY <1>2 DEF Tick, vars, Breaker!Tick, Breaker!vars, Breaker!circuitVars

LEMMA StepUses ==
    ASSUME IInv, [Next]_vars
    PROVE  [Breaker!Next]_Breaker!vars
<1>1. ASSUME NEW c \in Callers, Begin(c) \/ Refused(c) \/ Advance(c)
      PROVE  [Breaker!Next]_Breaker!vars
  <2>1. CASE Refused(c)
    BY <2>1, RestUses DEF Refused, Breaker!Next
  <2>2. CASE Begin(c) \/ StreamOpens(c) \/ Ending(c)
    BY <2>2, BeginUses, OpeningUses, EndingUses DEF Breaker!Next
  <2>3. CASE Working(c)
    BY <2>3, WorkingUses
  <2> QED
    BY <1>1, <2>1, <2>2, <2>3 DEF Advance, Working, Ending
<1>2. CASE Tick \/ Horizon \/ UNCHANGED vars
  BY <1>2, RestUses DEF Horizon, Breaker!Next
<1> QED
  BY <1>1, <1>2 DEF Next

\* For any number of threads, whatever the retries, the fallback and the
\* streams do, the breaker hears only what CircuitBreaker allows: one
\* admission per call, outcomes of running calls.
THEOREM PoolUsesBreaker == Spec => UsesBreaker
  BY Inductive, InitUses, StepUses, PTL DEF Spec, UsesBreaker, Breaker!Spec

-----------------------------------------------------------------------------
(* The choice of a key.                                                    *)

PoolTypes ==
    /\ cursor \in 0..(NKeys - 1)
    /\ requests \in [Keys -> Seq(Nat)]
    /\ daily \in [Keys -> [day : Nat, requests : Nat]]
    /\ cooldown \in [Keys -> Nat]

LEMMA Least ==
    ASSUME NEW T \in SUBSET Nat, T # {}
    PROVE  Min(T) \in T /\ \A x \in T : Min(T) <= x
<1>1. IsWellFoundedOn(OpToRel(<, Nat), Nat)
  BY NatLessThanWellFounded
<1>2. PICK m \in T : \A k \in T : ~(<<k, m>> \in OpToRel(<, Nat))
  BY <1>1, WFMin
<1>3. \A k \in T : ~(k < m)
  BY <1>2 DEF OpToRel
<1>4. \A k \in T : m <= k
  BY <1>3
<1> QED
  BY <1>4 DEF Min

LEMMA Greatest ==
    ASSUME NEW S \in SUBSET Nat, S # {}, NEW n \in Nat, \A x \in S : x <= n
    PROVE  \E m \in S : \A x \in S : x <= m
<1> DEFINE Bounds == {k \in Nat : \A x \in S : x <= k}
<1>1. PICK m \in Bounds : \A k \in Bounds : m <= k
  <2>1. Bounds \in SUBSET Nat /\ n \in Bounds
    OBVIOUS
  <2> HIDE DEF Bounds
  <2> QED
    BY <2>1, Least
<1>2. m \in S
  <2> SUFFICES ASSUME m \notin S PROVE FALSE
    OBVIOUS
  <2>1. m \in Nat /\ \A x \in S : x \in Nat /\ x < m
    OBVIOUS
  <2>2. m - 1 \in Nat /\ \A x \in S : x <= m - 1
    <3>1. PICK x \in S : x \in Nat /\ x < m
      BY <2>1
    <3> HIDE DEF Bounds
    <3>2. m - 1 \in Nat
      BY <2>1, <3>1
    <3> QED
      BY <2>1, <3>2
  <2>3. m - 1 \in Bounds
    BY <2>2
  <2> QED
    BY <1>1, <2>1, <2>3
<1> QED
  BY <1>1, <1>2

\* A set of keys has an n-th key for every n below its size: the least one
\* with n or more before it has exactly n before it.
LEMMA NthIs ==
    ASSUME NEW S \in SUBSET Keys, NEW n \in Nat, n < Cardinality(S)
    PROVE  Nth(S, n) \in S
<1> DEFINE Before(k) == {j \in S : j < k}
           T == {k \in S : Cardinality(Before(k)) >= n}
<1>1. S \in SUBSET Nat /\ NKeys \in Nat /\ \A k \in S : k \in Nat /\ k <= NKeys
  BY NKeysAssumption DEF Keys
<1>2. IsFiniteSet(S) /\ Cardinality(S) \in Nat
  <2>1. IsFiniteSet(Keys)
    BY <1>1, FS_Interval DEF Keys
  <2> QED
    BY <2>1, FS_Subset, FS_CardinalityType
<1>3. \A R \in SUBSET S : IsFiniteSet(R) /\ Cardinality(R) \in Nat
  BY <1>2, FS_Subset, FS_CardinalityType
<1>4. S # {}
  BY <1>2, FS_EmptySet
<1>5. T # {}
  <2>1. PICK m \in S : \A x \in S : x <= m
    BY <1>1, <1>4, Greatest
  <2>2. Before(m) = S \ {m}
    <3>1. \A x \in S : x < m <=> x # m
      BY <1>1, <2>1
    <3> QED
      BY <3>1
  <2>3. Cardinality(Before(m)) = Cardinality(S) - 1
    BY <1>2, <2>1, <2>2, FS_RemoveElement
  <2> HIDE DEF Before
  <2> QED
    BY <1>2, <2>1, <2>3
<1>6. PICK k \in T : \A j \in T : k <= j
  <2>1. T \in SUBSET Nat
    BY <1>1
  <2> HIDE DEF T
  <2> QED
    BY <1>5, <2>1, Least
<1>7. k \in S /\ Cardinality(Before(k)) >= n /\ Cardinality(Before(k)) \in Nat
      /\ Before(k) \in SUBSET S
  <2>1. Before(k) \in SUBSET S
    OBVIOUS
  <2> HIDE DEF Before
  <2> QED
    BY <1>3, <2>1
<1>8. Cardinality(Before(k)) = n
  <2> SUFFICES ASSUME Cardinality(Before(k)) > n PROVE FALSE
    <3> HIDE DEF Before
    <3> QED
      BY <1>7
  <2>1. Before(k) # {}
    <3> HIDE DEF Before
    <3> QED
      BY FS_EmptySet
  <2>2. PICK p \in Before(k) : \A x \in Before(k) : x <= p
    <3>1. Before(k) \in SUBSET Nat /\ \A x \in Before(k) : x <= NKeys
      BY <1>1
    <3> HIDE DEF Before
    <3> QED
      BY <1>1, <2>1, <3>1, Greatest
  <2>3. p \in S /\ p < k /\ Before(p) = Before(k) \ {p}
    <3>1. p \in S /\ p \in Nat /\ k \in Nat /\ p < k
      BY <1>1, <1>7, <2>2
    <3>2. \A x \in S : x < p <=> (x < k /\ x # p)
      <4> TAKE x \in S
      <4>1. x \in Nat /\ (x < k => x <= p)
        BY <1>1, <2>2
      <4> HIDE DEF Before
      <4> QED
        BY <3>1, <4>1
    <3> QED
      BY <3>1, <3>2
  <2>4. Cardinality(Before(p)) = Cardinality(Before(k)) - 1
    <3> HIDE DEF Before
    <3> QED
      BY <1>3, <1>7, <2>2, <2>3, FS_RemoveElement
  <2>5. p \in T
    <3>1. Cardinality(Before(p)) >= n
      <4> HIDE DEF Before
      <4> QED
        BY <1>7, <2>4
    <3> QED
      BY <2>3, <3>1
  <2> QED
    BY <1>1, <1>6, <1>7, <2>3, <2>5
<1>9. \E x \in S : Cardinality({j \in S : j < x}) = n
  BY <1>7, <1>8
<1> QED
  BY <1>9 DEF Nth

LEMMA CandidatesAre ==
    ASSUME NEW role \in Roles
    PROVE  /\ Candidates(role) \in SUBSET Keys /\ Candidates(role) # {}
           /\ Cardinality(Candidates(role)) \in Nat \ {0}
<1>1. Candidates(role) \in SUBSET Keys /\ Candidates(role) # {}
  BY NKeysAssumption DEF Candidates, Keys
<1>2. IsFiniteSet(Keys)
  BY NKeysAssumption, FS_Interval DEF Keys
<1> QED
  BY <1>1, <1>2, FS_Subset, FS_CardinalityType, FS_EmptySet

\* Whatever limits and cooldowns say, a role is given one of its keys, and the
\* cursor stays within the keys.
LEMMA ChoiceIs ==
    ASSUME PoolTypes, NEW role \in Roles
    PROVE  /\ ChosenKey(role) \in Keys
           /\ (cursor + ScanLength(Candidates(role))) % NKeys \in 0..(NKeys - 1)
<1> DEFINE cand == Candidates(role)
<1>1. cand \in SUBSET Keys /\ cand # {} /\ Cardinality(cand) \in Nat \ {0}
  BY CandidatesAre
<1> HIDE DEF cand
<1>2. cursor \in Nat /\ NKeys \in Nat \ {0}
  BY NKeysAssumption DEF PoolTypes
<1>3. \A j \in Nat : Inspected(cand, j) \in Keys
  <2> TAKE j \in Nat
  <2>1. (cursor + j) % NKeys \in Nat
    BY <1>2
  <2>2. ((cursor + j) % NKeys) % Cardinality(cand) \in 0..(Cardinality(cand) - 1)
    BY <1>1, <2>1
  <2> QED
    BY <1>1, <2>2, NthIs DEF Inspected
<1>4. Hits(cand) \in SUBSET Nat
  BY DEF Hits
<1>5. SoonestCooled(cand) \in Keys
  <2> DEFINE times == {cooldown[k] : k \in cand}
             least == {k \in cand : \A other \in cand : cooldown[k] <= cooldown[other]}
  <2>1. times \in SUBSET Nat /\ times # {}
    BY <1>1 DEF PoolTypes
  <2>2. Min(times) \in times /\ \A x \in times : Min(times) <= x
    <3> HIDE DEF times
    <3> QED
      BY <2>1, Least
  <2>3. least # {}
    <3>1. PICK k \in cand : cooldown[k] = Min(times)
      BY <2>2
    <3>2. \A other \in cand : cooldown[k] <= cooldown[other]
      BY <2>2, <3>1
    <3> QED
      BY <3>1, <3>2
  <2>4. least \in SUBSET Nat /\ least \subseteq Keys
    <3>1. Keys \subseteq Nat
      BY NKeysAssumption DEF Keys
    <3>2. least \subseteq Keys
      BY <1>1
    <3> QED
      BY <3>1, <3>2
  <2>5. Min(least) \in least
    <3> HIDE DEF least
    <3> QED
      BY <2>3, <2>4, Least
  <2> QED
    BY <2>4, <2>5 DEF SoonestCooled
<1>6. ChosenKey(role) \in Keys /\ ScanLength(cand) \in Nat
  <2>1. CASE Hits(cand) = {}
    BY <1>1, <1>5, <2>1 DEF ChosenKey, ScanLength, cand
  <2>2. CASE Hits(cand) # {}
    <3>1. Min(Hits(cand)) \in Nat
      BY <1>4, <2>2, Least
    <3> QED
      BY <1>3, <2>2, <3>1 DEF ChosenKey, ScanLength, cand
  <2> QED
    BY <2>1, <2>2
<1>7. (cursor + ScanLength(cand)) % NKeys \in 0..(NKeys - 1)
  BY <1>2, <1>6
<1> QED
  BY <1>6, <1>7 DEF cand

-----------------------------------------------------------------------------
(* Uses of a key.                                                          *)

\* Threads that were given key k and have not yet recorded its use.
Using(k) == {c \in Callers : pc[c] = "use" /\ key[c] = k}

\* OvershootBounded with the uses that are still to be recorded.
Overshoot ==
    ~forced => \A k \in Keys :
        Rpm(k) + Cardinality(Using(k)) <= RPM_LIMIT + Cardinality(Callers) - 1

Locals ==
    /\ model \in [Callers -> 1..NModels]
    /\ attempt \in [Callers -> 1..MaxAttempts]
    /\ key \in [Callers -> Keys]
    /\ wake \in [Callers -> Nat]
    /\ forced \in BOOLEAN

CircuitTypes == circuit \in {"closed", "half_open", "open"} /\ openedAt \in 0..now

Whole == IInv /\ PoolTypes /\ Locals /\ CircuitTypes /\ Overshoot

LEMMA RecentIs ==
    ASSUME PoolTypes, NEW k \in Keys
    PROVE  /\ requests[k] \in Seq(Nat) /\ Len(requests[k]) \in Nat
           /\ DOMAIN requests[k] = 1..Len(requests[k])
           /\ IsFiniteSet(Recent(k)) /\ Rpm(k) \in Nat
<1>1. requests[k] \in Seq(Nat) /\ Len(requests[k]) \in Nat
      /\ DOMAIN requests[k] = 1..Len(requests[k])
  BY LenProperties DEF PoolTypes
<1>2. IsFiniteSet(DOMAIN requests[k]) /\ Recent(k) \in SUBSET DOMAIN requests[k]
  BY <1>1, FS_Interval DEF Recent
<1> QED
  BY <1>1, <1>2, FS_Subset, FS_CardinalityType DEF Rpm

LEMMA UsingIs ==
    ASSUME NEW k
    PROVE  Using(k) \in SUBSET Callers /\ IsFiniteSet(Using(k))
           /\ Cardinality(Using(k)) \in Nat
           /\ Cardinality(Using(k)) <= Cardinality(Callers)
<1>1. Using(k) \in SUBSET Callers
  BY DEF Using
<1> QED
  BY <1>1, ThreadSets

LEMMA LimitsAreNumbers ==
    /\ RPM_LIMIT \in Nat /\ Window \in Nat \ {0} /\ DayLength \in Nat \ {0}
    /\ Cardinality(Callers) \in Nat \ {0}
<1>1. Cardinality(Callers) \in Nat /\ Cardinality(Callers) # 0
  BY CallersAssumption, FS_CardinalityType, FS_EmptySet
<1> QED
  BY <1>1, LimitsAssumption

\* The daily counters of a key, as of today.
LEMMA RolledIs ==
    ASSUME PoolTypes, now \in Nat, NEW k \in Keys
    PROVE  Today \in Nat /\ Rolled(k) \in [day : Nat, requests : Nat]
<1>1. Today \in Nat
  BY LimitsAreNumbers DEF Today
<1> QED
  BY <1>1 DEF Rolled, PoolTypes

\* A recorded use is the only new stamp among those that count.
LEMMA RecordIs ==
    ASSUME PoolTypes, now \in Nat, UNCHANGED now, NEW k \in Keys, RecordUsage(k)
    PROVE  /\ PoolTypes'
           /\ Rpm(k)' = Rpm(k) + 1
           /\ \A q \in Keys \ {k} : Rpm(q)' = Rpm(q)
<1> DEFINE s == requests[k]
           new == Append(s, now)
<1>1. /\ s \in Seq(Nat) /\ Len(s) \in Nat /\ DOMAIN s = 1..Len(s)
      /\ IsFiniteSet(Recent(k)) /\ Rpm(k) \in Nat
  BY RecentIs
<1>2. /\ requests' = [requests EXCEPT ![k] = new]
      /\ daily' = [daily EXCEPT ![k] = [day |-> Today, requests |-> Rolled(k).requests + 1]]
      /\ UNCHANGED <<cursor, cooldown, now>>
  BY DEF RecordUsage
<1>3. /\ new \in Seq(Nat) /\ Len(new) = Len(s) + 1 /\ DOMAIN new = 1..Len(s) + 1
      /\ \A i \in 1..Len(s) : new[i] = s[i]
      /\ new[Len(s) + 1] = now
  BY <1>1
<1> HIDE DEF new
<1>4. requests'[k] = new /\ \A q \in Keys \ {k} : requests'[q] = requests[q]
  BY <1>2 DEF PoolTypes
<1>5. [day |-> Today, requests |-> Rolled(k).requests + 1] \in [day : Nat, requests : Nat]
  BY RolledIs
<1>6. PoolTypes'
  <2>1. requests' \in [Keys -> Seq(Nat)]
    BY <1>2, <1>3 DEF PoolTypes
  <2>2. daily' \in [Keys -> [day : Nat, requests : Nat]]
    BY <1>2, <1>5 DEF PoolTypes
  <2> QED
    BY <1>2, <2>1, <2>2 DEF PoolTypes
<1>7. Recent(k)' = Recent(k) \cup {Len(s) + 1} /\ Len(s) + 1 \notin Recent(k)
  <2>1. now - now < Window
    BY LimitsAreNumbers
  <2>2. Recent(k)' = {i \in 1..Len(s) + 1 : now - new[i] < Window}
    BY <1>2, <1>3, <1>4 DEF Recent
  <2>3. Recent(k) = {i \in 1..Len(s) : now - s[i] < Window}
    BY <1>1 DEF Recent
  <2>4. ASSUME NEW i
        PROVE  i \in Recent(k)' <=> i \in Recent(k) \/ i = Len(s) + 1
    <3>1. i \in 1..Len(s) + 1 <=> i \in 1..Len(s) \/ i = Len(s) + 1
      BY <1>1
    <3> QED
      BY <1>3, <2>1, <2>2, <2>3, <3>1
  <2>5. Len(s) + 1 \notin 1..Len(s)
    BY <1>1
  <2> QED
    BY <2>3, <2>4, <2>5
<1>8. Rpm(k)' = Rpm(k) + 1
  <2> DEFINE R == Recent(k)
             n == Len(s) + 1
  <2>1. IsFiniteSet(R) /\ n \notin R /\ Recent(k)' = R \cup {n}
    BY <1>1, <1>7
  <2> HIDE DEF R, n
  <2>2. Cardinality(R \cup {n}) = Cardinality(R) + 1
    BY <2>1, FS_AddElement
  <2> QED
    BY <2>1, <2>2 DEF Rpm, R
<1>9. \A q \in Keys \ {k} : Rpm(q)' = Rpm(q)
  BY <1>2, <1>4 DEF Rpm, Recent
<1> QED
  BY <1>6, <1>8, <1>9

LEMMA OvershootStays ==
    ASSUME Whole, UNCHANGED <<requests, now>>, forced' = forced,
           \A k \in Keys : Using(k)' = Using(k)
    PROVE  Overshoot'
<1>1. \A k \in Keys : Rpm(k)' = Rpm(k)
  BY DEF Rpm, Recent
<1> QED
  BY <1>1 DEF Whole, Overshoot

\* A thread that neither leaves nor enters "use" leaves the uses as they are.
LEMMA UsingStays ==
    ASSUME NEW c \in Callers, pc[c] # "use", pc'[c] # "use",
           \A d \in Callers \ {c} : pc'[d] = pc[d] /\ key'[d] = key[d]
    PROVE  \A k \in Keys : Using(k)' = Using(k)
  BY DEF Using

LEMMA CircuitTyped ==
    ASSUME IInv, CircuitTypes, UNCHANGED now,
           \/ Breaker!AllowCall \/ Breaker!RecordSuccess \/ Breaker!RecordFailure
           \/ UNCHANGED breakerVars
    PROVE  CircuitTypes'
<1>1. circuit' \in {circuit, "closed", "half_open", "open"} /\ openedAt' \in {openedAt, now}
  BY DEF Breaker!AllowCall, Breaker!RecordSuccess, Breaker!RecordFailure, Breaker!CLOSED,
         Breaker!HALF_OPEN, Breaker!OPEN, breakerVars
<1> QED
  BY <1>1 DEF IInv, CallTypes, CircuitTypes

LEMMA BeginWhole ==
    ASSUME Whole, NEW c \in Callers, Begin(c)
    PROVE  Whole'
<1>1. /\ pc[c] = "idle" /\ Goto(c, "attempt") /\ Breaker!AllowCall
      /\ UNCHANGED <<cursor, requests, daily, cooldown, model, attempt, key, wake, forced, now>>
  BY DEF Begin, poolVars, historyVars
<1>2. pc'[c] = "attempt" /\ \A d \in Callers \ {c} : pc'[d] = pc[d]
  BY <1>1, Moved DEF Whole, IInv, Labels
<1>3. Overshoot'
  BY <1>1, <1>2, UsingStays, OvershootStays
<1>4. IInv' /\ CircuitTypes'
  BY <1>1, BeginKeeps, CircuitTyped DEF Whole
<1> QED
  BY <1>1, <1>3, <1>4 DEF Whole, PoolTypes, Locals

\* A thread is given a key: if it was available, its uses are within the
\* limit and at most every thread is about to add one.
LEMMA PickWhole ==
    ASSUME Whole, NEW c \in Callers, ReadyToAttempt(c), PickKey(c), IInv'
    PROVE  Whole'
<1> DEFINE k == ChosenKey(RoleOf[c])
<1>1. /\ pc[c] = "attempt" /\ Goto(c, "use") /\ key' = [key EXCEPT ![c] = k]
      /\ forced' = (forced \/ ~Available(k)) /\ GetNextKey(RoleOf[c])
      /\ UNCHANGED <<breakerVars, model, attempt, wake, now>>
  BY DEF ReadyToAttempt, PickKey
<1>2. k \in Keys /\ PoolTypes' /\ UNCHANGED <<requests, daily, cooldown>>
  <2>1. RoleOf[c] \in Roles
    BY CallersAssumption
  <2> QED
    BY <1>1, <2>1, ChoiceIs DEF Whole, PoolTypes, GetNextKey
<1> HIDE DEF k
<1>3. pc'[c] = "use" /\ \A d \in Callers \ {c} : pc'[d] = pc[d]
  BY <1>1, Moved DEF Whole, IInv, Labels
<1>4. forced' \in BOOLEAN
  BY <1>1, Zenon
<1>5. Locals'
  BY <1>1, <1>2, <1>4 DEF Whole, Locals
<1>6. \A q \in Keys : Rpm(q)' = Rpm(q)
  BY <1>1, <1>2 DEF Rpm, Recent
<1>7. Overshoot'
  <2> SUFFICES ASSUME ~forced', NEW q \in Keys
               PROVE  Rpm(q)' + Cardinality(Using(q)') <= RPM_LIMIT + Cardinality(Callers) - 1
    BY DEF Overshoot
  <2>1. ~forced /\ Available(k)
    BY <1>1
  <2>2. CASE q = k
    <3>1. Rpm(k) < RPM_LIMIT /\ Rpm(k) \in Nat
      BY <1>2, <2>1, RecentIs DEF Available, Whole
    <3>2. Using(q)' \in SUBSET Callers
      BY DEF Using
    <3>3. Cardinality(Using(q)') \in Nat /\ Cardinality(Using(q)') <= Cardinality(Callers)
      BY <3>2, ThreadSets
    <3>4. Rpm(q)' < RPM_LIMIT /\ Rpm(q)' \in Nat
      BY <1>6, <2>2, <3>1
    <3> QED
      BY <3>3, <3>4, LimitsAreNumbers
  <2>3. CASE q # k
    <3>1. Using(q)' = Using(q)
      BY <1>1, <1>3, <2>3 DEF Using, Whole, Locals
    <3> QED
      BY <1>6, <2>1, <3>1 DEF Whole, Overshoot
  <2> QED
    BY <2>2, <2>3
<1>8. CircuitTypes'
  BY <1>1, CircuitTyped DEF Whole
<1> QED
  BY <1>2, <1>5, <1>7, <1>8 DEF Whole

\* A use is recorded: it was counted before.
LEMMA UseWhole ==
    ASSUME Whole, NEW c \in Callers, UseKey(c)
    PROVE  Whole'
<1>0. PICK k \in Keys : k = key[c]
  BY DEF Whole, Locals
<1>1. /\ pc[c] = "use" /\ Goto(c, "calling") /\ RecordUsage(k)
      /\ UNCHANGED <<breakerVars, model, attempt, key, wake, forced, now>>
  BY <1>0 DEF UseKey, historyVars
<1>2. now \in Nat /\ PoolTypes /\ UNCHANGED now
  BY <1>1 DEF Whole, IInv, CallTypes
<1>3. pc'[c] = "calling" /\ \A d \in Callers \ {c} : pc'[d] = pc[d]
  BY <1>1, Moved DEF Whole, IInv, Labels
<1>4. PoolTypes' /\ Rpm(k)' = Rpm(k) + 1 /\ \A q \in Keys \ {k} : Rpm(q)' = Rpm(q)
  BY <1>1, <1>2, RecordIs
<1>5. Using(k)' = Using(k) \ {c} /\ c \in Using(k)
      /\ \A q \in Keys \ {k} : Using(q)' = Using(q)
  BY <1>0, <1>1, <1>3 DEF Using
<1>6. Cardinality(Using(k)') = Cardinality(Using(k)) - 1
  BY <1>5, UsingIs, OneLess
<1>7. Overshoot'
  <2> SUFFICES ASSUME ~forced', NEW q \in Keys
               PROVE  Rpm(q)' + Cardinality(Using(q)') <= RPM_LIMIT + Cardinality(Callers) - 1
    BY DEF Overshoot
  <2>1. Rpm(q) + Cardinality(Using(q)) <= RPM_LIMIT + Cardinality(Callers) - 1
    BY <1>1 DEF Whole, Overshoot
  <2>2. CASE q = k
    <3>1. Rpm(q) \in Nat /\ Cardinality(Using(q)) \in Nat
      BY RecentIs, UsingIs DEF Whole
    <3>2. Rpm(q)' = Rpm(q) + 1 /\ Cardinality(Using(q)') = Cardinality(Using(q)) - 1
      BY <1>4, <1>6, <2>2
    <3>3. Rpm(q)' + Cardinality(Using(q)') = Rpm(q) + Cardinality(Using(q))
      BY <3>1, <3>2
    <3> QED
      BY <2>1, <3>3
  <2>3. CASE q # k
    BY <1>4, <1>5, <2>1, <2>3
  <2> QED
    BY <2>2, <2>3
<1>8. IInv' /\ CircuitTypes'
  BY <1>1, WorkingKeeps, CircuitTyped DEF Whole, Working
<1> QED
  BY <1>1, <1>4, <1>7, <1>8 DEF Whole, Locals

\* How an attempt goes on keeps the locals of the call typed.
LEMMA GoingOn ==
    ASSUME Whole, NEW c \in Callers, Backoff(c) \/ NextModel(c), UNCHANGED forced
    PROVE  Locals' /\ key' = key /\ \E l \in {"attempt", "giveUp"} : Goto(c, l)
<1>1. /\ model[c] \in 1..NModels /\ attempt[c] \in 1..MaxAttempts /\ now \in Nat
      /\ MaxAttempts \in Nat \ {0}
  BY PolicyAssumption DEF Whole, Locals, IInv, CallTypes
<1>2. ASSUME NextModel(c) PROVE Locals' /\ key' = key /\ \E l \in {"attempt", "giveUp"} : Goto(c, l)
  <2>1. CASE model[c] < NModels
    <3>1. model[c] + 1 \in 1..NModels /\ 1 \in 1..MaxAttempts
      BY <1>1, <2>1 DEF NModels
    <3> QED
      BY <1>2, <2>1, <3>1 DEF NextModel, Whole, Locals
  <2>2. CASE ~(model[c] < NModels)
    BY <1>2, <2>2 DEF NextModel, Continue, Whole, Locals
  <2> QED
    BY <2>1, <2>2
<1>3. CASE Backoff(c) /\ attempt[c] < MaxAttempts
  <2>1. attempt[c] + 1 \in 1..MaxAttempts /\ \A d \in Delays : now + d \in Nat
    BY <1>1, <1>3, PolicyAssumption
  <2>2. PICK d \in Delays :
            IF now + d >= deadline[c]
            THEN Continue(c, "giveUp")
            ELSE /\ Goto(c, "attempt")
                 /\ attempt' = [attempt EXCEPT ![c] = @ + 1]
                 /\ wake' = [wake EXCEPT ![c] = now + d]
                 /\ UNCHANGED <<model, key, deadline, late>>
    BY <1>3 DEF Backoff
  <2>3. CASE now + d >= deadline[c]
    BY <2>2, <2>3 DEF Continue, Whole, Locals
  <2>4. CASE ~(now + d >= deadline[c])
    BY <2>1, <2>2, <2>4 DEF Whole, Locals
  <2> QED
    BY <2>3, <2>4
<1>4. CASE Backoff(c) /\ ~(attempt[c] < MaxAttempts)
  BY <1>2, <1>4 DEF Backoff
<1> QED
  BY <1>2, <1>3, <1>4

LEMMA FailingWhole ==
    ASSUME Whole, NEW c \in Callers, KeyRefused(c) \/ TransientError(c) \/ ModelError(c)
    PROVE  Whole'
<1>1. /\ pc[c] = "calling" /\ (Backoff(c) \/ NextModel(c))
      /\ UNCHANGED <<breakerVars, forced, now, cursor, requests, daily>>
  BY DEF KeyRefused, TransientError, ModelError, Calling, historyVars, poolVars, TriggerCooldown
<1>2. cooldown' \in [Keys -> Nat]
  <2>1. CASE KeyRefused(c)
    <3>1. PICK d \in CooldownTimes : cooldown' = [cooldown EXCEPT ![key[c]] = now + d]
      BY <2>1 DEF KeyRefused, TriggerCooldown
    <3>2. now + d \in Nat
      BY PolicyAssumption DEF Whole, IInv, CallTypes
    <3> QED
      BY <3>1, <3>2 DEF Whole, PoolTypes
  <2>2. CASE TransientError(c) \/ ModelError(c)
    BY <2>2 DEF TransientError, ModelError, poolVars, Whole, PoolTypes
  <2> QED
    BY <2>1, <2>2
<1>3. Locals' /\ key' = key
  BY <1>1, GoingOn
<1>4. PICK l \in {"attempt", "giveUp"} : Goto(c, l)
  BY <1>1, GoingOn
<1>5. pc'[c] = l /\ \A d \in Callers \ {c} : pc'[d] = pc[d]
  BY <1>4, Moved DEF Whole, IInv, Labels
<1>6. Overshoot'
  <2>1. \A q \in Keys : Using(q)' = Using(q)
    BY <1>1, <1>3, <1>5, UsingStays
  <2> QED
    BY <1>1, <2>1, OvershootStays
<1>7. IInv' /\ CircuitTypes'
  BY <1>1, WorkingKeeps, CircuitTyped DEF Whole, Working
<1> QED
  BY <1>1, <1>2, <1>3, <1>6, <1>7 DEF Whole, PoolTypes

LEMMA AttemptWhole ==
    ASSUME Whole, NEW c \in Callers, Attempt(c)
    PROVE  Whole'
<1>1. ReadyToAttempt(c) /\ (GiveUpLater(c) \/ PickKey(c))
  BY DEF Attempt
<1>2. IInv'
  BY WorkingKeeps DEF Whole, Working
<1>3. CASE PickKey(c)
  BY <1>1, <1>2, <1>3, PickWhole
<1>4. CASE GiveUpLater(c)
  <2>1. /\ pc[c] = "attempt" /\ Goto(c, "giveUp")
        /\ UNCHANGED <<breakerVars, cursor, requests, daily, cooldown, model, attempt, key,
                       wake, forced, now>>
    BY <1>1, <1>4 DEF ReadyToAttempt, GiveUpLater, poolVars
  <2>2. pc'[c] = "giveUp" /\ \A d \in Callers \ {c} : pc'[d] = pc[d]
    BY <2>1, Moved DEF Whole, IInv, Labels
  <2>3. \A q \in Keys : Using(q)' = Using(q)
    BY <2>1, <2>2, UsingStays
  <2>4. Overshoot' /\ CircuitTypes'
    BY <2>1, <2>3, OvershootStays, CircuitTyped DEF Whole
  <2> QED
    BY <1>2, <2>1, <2>4 DEF Whole, PoolTypes, Locals
<1> QED
  BY <1>1, <1>3, <1>4

LEMMA EndingWhole ==
    ASSUME Whole, NEW c \in Callers, Ending(c)
    PROVE  Whole'
<1>1. /\ pc[c] \in {"calling", "giveUp", "streaming"} /\ Return(c)
      /\ Breaker!RecordSuccess \/ Breaker!RecordFailure \/ UNCHANGED breakerVars
      /\ UNCHANGED <<cursor, requests, daily, cooldown, forced, now>>
  BY DEF Ending, CallOk, OtherError, GiveUp, StreamEnds, StreamBreaks, StreamClosed, Calling,
         Streaming, poolVars, historyVars
<1>2. pc'[c] = "idle" /\ \A d \in Callers \ {c} : pc'[d] = pc[d]
  BY EndingMoves DEF Whole, IInv
<1>3. key' = [key EXCEPT ![c] = 1] /\ \A d \in Callers \ {c} : key'[d] = key[d]
  BY <1>1 DEF Return, Whole, Locals
<1>4. Locals'
  <2>1. 1 \in Keys /\ 1 \in 1..NModels /\ 1 \in 1..MaxAttempts
    BY NKeysAssumption, PolicyAssumption DEF Keys, NModels
  <2> QED
    BY <1>1, <2>1 DEF Return, Whole, Locals
<1>5. \A q \in Keys : Using(q)' = Using(q)
  BY <1>1, <1>2, <1>3, UsingStays
<1>6. Overshoot'
  BY <1>1, <1>5, OvershootStays
<1>7. IInv' /\ CircuitTypes'
  BY <1>1, EndingKeeps, CircuitTyped DEF Whole
<1> QED
  BY <1>1, <1>4, <1>6, <1>7 DEF Whole, PoolTypes

LEMMA OpeningWhole ==
    ASSUME Whole, NEW c \in Callers, StreamOpens(c)
    PROVE  Whole'
<1>1. /\ pc[c] = "calling" /\ Goto(c, "streaming") /\ Breaker!RecordSuccess
      /\ UNCHANGED <<cursor, requests, daily, cooldown, model, attempt, key, wake, forced, now>>
  BY DEF StreamOpens, Calling, Continue, poolVars
<1>2. pc'[c] = "streaming" /\ \A d \in Callers \ {c} : pc'[d] = pc[d]
  BY <1>1, Moved DEF Whole, IInv, Labels
<1>3. \A q \in Keys : Using(q)' = Using(q)
  BY <1>1, <1>2, UsingStays
<1>4. Overshoot' /\ IInv' /\ CircuitTypes'
  BY <1>1, <1>3, OvershootStays, OpeningKeeps, CircuitTyped DEF Whole
<1> QED
  BY <1>1, <1>4 DEF Whole, PoolTypes, Locals

\* As time passes stamps leave the window and none comes into it.
LEMMA RestWhole ==
    ASSUME Whole, Tick \/ UNCHANGED vars
    PROVE  Whole'
<1>1. /\ now' \in {now, now + 1} /\ now \in Nat
      /\ UNCHANGED <<cursor, requests, daily, cooldown, circuit, openedAt, pc, model, attempt,
                     key, wake, forced>>
  BY DEF Tick, vars, poolVars, breakerVars, callVars, historyVars, Whole, IInv, CallTypes
<1>2. ASSUME NEW k \in Keys
      PROVE  Rpm(k)' \in Nat /\ Rpm(k) \in Nat /\ Rpm(k)' <= Rpm(k)
  <2>1. /\ requests[k] \in Seq(Nat) /\ DOMAIN requests[k] = 1..Len(requests[k])
        /\ IsFiniteSet(Recent(k)) /\ Rpm(k) \in Nat
    BY RecentIs DEF Whole
  <2>2. Recent(k)' \subseteq Recent(k)
    <3>1. ASSUME NEW i \in DOMAIN requests[k], now' - requests[k][i] < Window
          PROVE  now - requests[k][i] < Window
      <4>1. requests[k][i] \in Nat
        BY <2>1
      <4> QED
        BY <1>1, <3>1, <4>1, LimitsAreNumbers
    <3>2. Recent(k)' = {i \in DOMAIN requests[k] : now' - requests[k][i] < Window}
      BY <1>1 DEF Recent
    <3> QED
      BY <3>1, <3>2 DEF Recent
  <2>3. Cardinality(Recent(k)') \in Nat /\ Cardinality(Recent(k)') <= Cardinality(Recent(k))
    BY <2>1, <2>2, FS_Subset, FS_CardinalityType
  <2> QED
    BY <2>1, <2>3 DEF Rpm
<1>3. \A k \in Keys : Using(k)' = Using(k)
  BY <1>1 DEF Using
<1>4. Overshoot'
  <2> SUFFICES ASSUME ~forced, NEW k \in Keys
               PROVE  Rpm(k)' + Cardinality(Using(k)') <= RPM_LIMIT + Cardinality(Callers) - 1
    BY <1>1 DEF Overshoot
  <2>1. Rpm(k) + Cardinality(Using(k)) <= RPM_LIMIT + Cardinality(Callers) - 1
    BY DEF Whole, Overshoot
  <2>2. Cardinality(Using(k)') = Cardinality(Using(k)) /\ Cardinality(Using(k)) \in Nat
    BY <1>3, UsingIs
  <2> QED
    BY <1>2, <2>1, <2>2, LimitsAreNumbers
<1>5. IInv'
  BY RestKeeps DEF Whole
<1>6. CircuitTypes'
  BY <1>1 DEF Whole, CircuitTypes
<1> QED
  BY <1>1, <1>4, <1>5, <1>6 DEF Whole, PoolTypes, Locals

LEMMA InitWhole == Init => Whole
<1> SUFFICES ASSUME Init PROVE Whole
  OBVIOUS
<1>1. PoolInit /\ Breaker!CircuitInit /\ now = 0
  BY DEF Init
<1>2. PoolTypes /\ \A k \in Keys : requests[k] = <<>>
  BY <1>1, NKeysAssumption DEF PoolInit, PoolTypes
<1>3. Locals
  <2>1. 1 \in Keys /\ 1 \in 1..NModels /\ 1 \in 1..MaxAttempts
    BY NKeysAssumption, PolicyAssumption DEF Keys, NModels
  <2> QED
    BY <2>1 DEF Init, Locals
<1>4. CircuitTypes
  BY <1>1 DEF Breaker!CircuitInit, Breaker!CLOSED, CircuitTypes
<1>5. Overshoot
  <2> SUFFICES ASSUME NEW k \in Keys
               PROVE  Rpm(k) + Cardinality(Using(k)) <= RPM_LIMIT + Cardinality(Callers) - 1
    BY DEF Overshoot
  <2>1. Recent(k) = {} /\ Using(k) = {}
    BY <1>2 DEF Recent, Using, Init
  <2>2. Rpm(k) = 0 /\ Cardinality(Using(k)) = 0
    BY <2>1, FS_EmptySet DEF Rpm
  <2> QED
    BY <2>2, LimitsAreNumbers
<1> QED
  BY <1>2, <1>3, <1>4, <1>5, InitIInv DEF Whole

LEMMA NextWhole ==
    ASSUME Whole, [Next]_vars
    PROVE  Whole'
<1>1. ASSUME NEW c \in Callers, Begin(c) \/ Refused(c) \/ Advance(c) PROVE Whole'
  <2>1. CASE Refused(c)
    BY <2>1, RestWhole DEF Refused
  <2>2. CASE Begin(c) \/ Attempt(c) \/ UseKey(c) \/ StreamOpens(c)
    BY <2>2, BeginWhole, AttemptWhole, UseWhole, OpeningWhole
  <2>3. CASE KeyRefused(c) \/ TransientError(c) \/ ModelError(c)
    BY <2>3, FailingWhole
  <2>4. CASE Ending(c)
    BY <2>4, EndingWhole
  <2> QED
    BY <1>1, <2>1, <2>2, <2>3, <2>4 DEF Advance, Ending
<1>2. CASE Tick \/ Horizon \/ UNCHANGED vars
  BY <1>2, RestWhole DEF Horizon
<1> QED
  BY <1>1, <1>2 DEF Next

LEMMA WholeHolds == Spec => []Whole
  BY InitWhole, NextWhole, PTL DEF Spec

\* For any keys, role groups and limits, every call holds one of the keys, the
\* shared cursor stays within them, and the breaker opened at a past time.
THEOREM TypeCorrect == Spec => []TypeOK
<1>1. Whole => TypeOK
  <2> SUFFICES ASSUME Whole PROVE TypeOK
    OBVIOUS
  <2>1. {deadline, wake, late} \subseteq [Callers -> Nat]
    BY DEF Whole, IInv, CallTypes, Locals
  <2> QED
    BY <2>1 DEF Whole, IInv, CallTypes, Labels, PoolTypes, Locals, CircuitTypes, TypeOK
<1> QED
  BY <1>1, WholeHolds, PTL

\* For any number of threads and keys: while every choice found an available
\* key, a key is used at most once per other thread above its limit, although
\* it is checked under the lock and the use recorded after it
\* (groq_pool.py:217, 256).
THEOREM OvershootStaysBounded == Spec => []OvershootBounded
<1>1. Whole => OvershootBounded
  <2> SUFFICES ASSUME Whole, ~forced, NEW k \in Keys
               PROVE  Rpm(k) <= RPM_LIMIT + Cardinality(Callers) - 1
    BY DEF OvershootBounded
  <2>1. Rpm(k) \in Nat /\ Cardinality(Using(k)) \in Nat
    BY RecentIs, UsingIs DEF Whole
  <2>2. Rpm(k) + Cardinality(Using(k)) <= RPM_LIMIT + Cardinality(Callers) - 1
    BY DEF Whole, Overshoot
  <2> QED
    BY <2>1, <2>2, LimitsAreNumbers
<1> QED
  BY <1>1, WholeHolds, PTL

-----------------------------------------------------------------------------
(* The rotation over all keys.                                             *)

\* Counting the keys themselves, the n-th one is n + 1.
LEMMA NthKey ==
    ASSUME NEW n \in 0..(NKeys - 1)
    PROVE  Nth(Keys, n) = n + 1
<1>1. ASSUME NEW k \in Keys PROVE Cardinality({j \in Keys : j < k}) = k - 1
  <2>1. {j \in Keys : j < k} = 1..(k - 1) /\ k - 1 \in Nat
    BY NKeysAssumption DEF Keys
  <2>2. Cardinality(1..(k - 1)) = k - 1
    <3>1. \A m \in Nat : Cardinality(1..m) = m
      BY FS_Interval
    <3> QED
      BY <2>1, <3>1
  <2> QED
    BY <2>1, <2>2
<1>2. n + 1 \in Keys
  BY NKeysAssumption DEF Keys
<1>3. \A k \in Keys : Cardinality({j \in Keys : j < k}) = n <=> k = n + 1
  <2> TAKE k \in Keys
  <2>1. k \in Nat /\ n \in Nat
    BY NKeysAssumption DEF Keys
  <2> QED
    BY <1>1, <2>1
<1> QED
  BY <1>2, <1>3 DEF Nth

\* Without role groups the scan inspects every key.
LEMMA ScanCoversKeys ==
    ASSUME PoolTypes, NEW k \in Keys
    PROVE  \E j \in 0..(NKeys - 1) : Inspected(Keys, j) = k
<1>1. Cardinality(Keys) = NKeys
  BY NKeysAssumption, FS_Interval DEF Keys
<1>2. cursor \in 0..(NKeys - 1) /\ NKeys \in Nat \ {0} /\ k - 1 \in 0..(NKeys - 1)
  BY NKeysAssumption DEF PoolTypes, Keys
<1>3. \A x \in 0..(NKeys - 1) : x % NKeys = x /\ (x + NKeys) % NKeys = x
  BY <1>2
<1>4. PICK j \in 0..(NKeys - 1) : cursor + j = k - 1 \/ cursor + j = (k - 1) + NKeys
  <2>1. CASE cursor <= k - 1
    <3>1. (k - 1) - cursor \in 0..(NKeys - 1) /\ cursor + ((k - 1) - cursor) = k - 1
      BY <1>2, <2>1
    <3> QED
      BY <3>1
  <2>2. CASE ~(cursor <= k - 1)
    <3>1. /\ (k - 1) + NKeys - cursor \in 0..(NKeys - 1)
          /\ cursor + ((k - 1) + NKeys - cursor) = (k - 1) + NKeys
      BY <1>2, <2>2
    <3> QED
      BY <3>1
  <2> QED
    BY <2>1, <2>2
<1>5. (cursor + j) % NKeys = k - 1
  BY <1>2, <1>3, <1>4
<1>6. Inspected(Keys, j) = Nth(Keys, k - 1)
  BY <1>1, <1>2, <1>3, <1>5 DEF Inspected
<1>7. Nth(Keys, k - 1) = k
  BY <1>2, NthKey, NKeysAssumption DEF Keys
<1> QED
  BY <1>6, <1>7

LEMMA AvailableIsFound ==
    ASSUME PoolTypes, NEW role \in Roles, Candidates(role) = Keys, SomeCandidateAvailable(role)
    PROVE  Available(ChosenKey(role))
<1>1. PICK k \in Keys : Available(k)
  BY DEF SomeCandidateAvailable
<1>2. Cardinality(Keys) = NKeys
  BY NKeysAssumption, FS_Interval DEF Keys
<1>3. Hits(Keys) # {} /\ Hits(Keys) \in SUBSET Nat
  BY <1>1, <1>2, ScanCoversKeys DEF Hits
<1>4. Min(Hits(Keys)) \in Hits(Keys)
  BY <1>3, Least
<1>5. Available(Inspected(Keys, Min(Hits(Keys))))
  BY <1>4 DEF Hits
<1> QED
  BY <1>3, <1>5 DEF ChosenKey

LEMMA PickPrefers ==
    ASSUME Whole, \A d \in Callers : Candidates(RoleOf[d]) = Keys, [Next]_vars,
           NEW c \in Callers, pc[c] = "attempt", pc'[c] = "use"
    PROVE  Available(key'[c]) \/ ~SomeCandidateAvailable(RoleOf[c])
<1>1. ASSUME NEW d \in Callers, NEW l \in Labels, Goto(d, l)
      PROVE  d = c /\ l = "use"
  BY <1>1, Moved DEF Whole, IInv
<1>2. Attempt(c)
  <2>1. ~UNCHANGED pc
    OBVIOUS
  <2>2. PICK d \in Callers : Begin(d) \/ Refused(d) \/ Advance(d)
    BY <2>1 DEF Next, Tick, Horizon, vars, callVars
  <2>3. ~Begin(d)
    BY <1>1 DEF Begin, Labels
  <2>4. ~Refused(d)
    BY <2>1 DEF Refused, vars, callVars
  <2>5. ~Ending(d) /\ ~StreamOpens(d) /\ ~UseKey(d)
    BY <1>1, EndingIs DEF Whole, IInv, Return, StreamOpens, Continue, UseKey, Labels
  <2>6. ~(KeyRefused(d) \/ TransientError(d) \/ ModelError(d))
    <3> SUFFICES ASSUME KeyRefused(d) \/ TransientError(d) \/ ModelError(d) PROVE FALSE
      OBVIOUS
    <3>1. (Backoff(d) \/ NextModel(d)) /\ UNCHANGED forced
      BY DEF KeyRefused, TransientError, ModelError, historyVars
    <3>2. PICK l \in {"attempt", "giveUp"} : Goto(d, l)
      BY <3>1, GoingOn
    <3> QED
      BY <1>1, <3>2 DEF Labels
  <2>7. Attempt(d)
    BY <2>2, <2>3, <2>4, <2>5, <2>6 DEF Advance, Ending
  <2>8. PICK l \in {"giveUp", "use"} : Goto(d, l)
    BY <2>7 DEF Attempt, GiveUpLater, PickKey
  <2> QED
    BY <1>1, <2>7, <2>8 DEF Labels
<1>3. PickKey(c)
  <2>1. ~Goto(c, "giveUp")
    BY <1>1 DEF Labels
  <2> QED
    BY <1>2, <2>1 DEF Attempt, GiveUpLater
<1>4. key'[c] = ChosenKey(RoleOf[c])
  BY <1>3 DEF PickKey, Whole, Locals
<1>5. RoleOf[c] \in Roles
  BY CallersAssumption
<1> QED
  BY <1>4, <1>5, AvailableIsFound DEF Whole

\* Where the role groups leave no key out, whatever the number of keys, a key
\* that is not available is taken only when none is (_get_next_key).  With
\* groups of some of the keys the run KeyRotation refutes it.
THEOREM RotationFindsAvailable ==
    ASSUME \A c \in Callers : Candidates(RoleOf[c]) = Keys
    PROVE  Spec => AvailableKeyPreferred
<1>1. Whole /\ [Next]_vars =>
        [\A c \in Callers :
          (pc[c] = "attempt" /\ pc'[c] = "use") =>
             \/ Available(key'[c])
             \/ ~SomeCandidateAvailable(RoleOf[c])]_vars
  BY PickPrefers
<1> QED
  BY <1>1, WholeHolds, PTL DEF Spec, AvailableKeyPreferred
=============================================================================
