------------------------------ MODULE GroqPool ------------------------------
(***************************************************************************)
(* Threads of the API process that call the language model through         *)
(* GroqKeyPool.execute_with_fallback and stream_groq_call                  *)
(* (src/groq_pool.py): three models, a bounded number of attempts on each, *)
(* one total deadline, a key from the shared pool for every attempt, and   *)
(* one process-wide circuit breaker that hears of the outcomes.            *)
(*                                                                         *)
(* A step is the code between two points where another thread may matter:  *)
(* a lock, the upstream call, a sleep, a read of the clock.                *)
(***************************************************************************)
EXTENDS KeyPool

CONSTANTS
    Callers,           \* threads
    RoleOf,            \* the role each thread asks keys for
    FailureThreshold, RecoveryTime,  \* of the circuit breaker
    MaxAttempts,       \* groq_max_attempts, at least 1
    TotalTimeout,      \* groq_total_timeout_seconds, at least 1 second
    Delays,            \* backoff delays _retry_delay may return
    CooldownTimes,     \* cooldowns a rate limit or a refused key may cause
    MaxTime,           \* bound on the clock
    MaxFailures,       \* bound on the failure counter
    MaxUses            \* bound on the uses of a key in one window

ASSUME CallersAssumption ==
    IsFiniteSet(Callers) /\ Callers # {} /\ RoleOf \in [Callers -> Roles]
ASSUME BoundsAssumption  == MaxFailures \in Nat
ASSUME PolicyAssumption ==
    /\ MaxAttempts \in Nat \ {0}
    /\ TotalTimeout \in Nat \ {0}
    /\ Delays \subseteq Nat
    /\ CooldownTimes \subseteq Nat

NModels == 3  \* PRIMARY_MODEL, FALLBACK_MODEL, SAFETY_NET_MODEL

VARIABLES
    circuit, failures, openedAt,  \* the breaker, see CircuitBreaker
    pc,        \* where each thread is
    model,     \* index of the model it tries
    attempt,   \* attempt on that model
    key,       \* key_state
    deadline,  \* when the whole call must be over
    wake,      \* end of its backoff sleep
    late,           \* history: attempts a call started after its deadline
    forced,         \* history: some key was taken although it was not available
    streamFailures  \* history: failures by broken streams since a success

breakerVars == <<circuit, failures, openedAt>>
callVars == <<pc, model, attempt, key, deadline, wake, late>>
historyVars == <<forced, streamFailures>>
vars == <<poolVars, breakerVars, callVars, historyVars, now>>

Running == {c \in Callers : pc[c] # "idle"}

Breaker == INSTANCE CircuitBreaker WITH Calls <- Callers, admitted <- Running

Init ==
    /\ PoolInit
    /\ Breaker!CircuitInit
    /\ now = 0
    /\ pc = [c \in Callers |-> "idle"]
    /\ model = [c \in Callers |-> 1]
    /\ attempt = [c \in Callers |-> 1]
    /\ key = [c \in Callers |-> 1]
    /\ deadline = [c \in Callers |-> 0]
    /\ wake = [c \in Callers |-> 0]
    /\ late = [c \in Callers |-> 0]
    /\ forced = FALSE
    /\ streamFailures = 0

Goto(c, label) == pc' = [pc EXCEPT ![c] = label]

-----------------------------------------------------------------------------
\* Every running call may add a failure; MaxUses bounds the pool's stamps.
RoomForCall ==
    /\ failures + Cardinality(Running) < MaxFailures
    /\ \A k \in Keys : Rpm(k) < MaxUses

\* Mutated form: the circuit is not asked.
BeginUnasked(c) ==
    /\ pc[c] = "idle"
    /\ RoomForCall
    /\ Goto(c, "attempt")
    /\ deadline' = [deadline EXCEPT ![c] = now + TotalTimeout]
    /\ UNCHANGED <<poolVars, breakerVars, model, attempt, key, wake, late,
                   historyVars, now>>

\* execute_with_fallback starts: the circuit is asked once.
Begin(c) ==
    /\ pc[c] = "idle"
    /\ RoomForCall
    /\ Breaker!AllowCall
    /\ Goto(c, "attempt")
    /\ deadline' = [deadline EXCEPT ![c] = now + TotalTimeout]
    /\ UNCHANGED <<poolVars, model, attempt, key, wake, late, historyVars, now>>

\* CircuitOpenError.
Refused(c) ==
    /\ pc[c] = "idle"
    /\ Breaker!RefuseCall
    /\ UNCHANGED vars

\* The deadline check before an attempt (the one before a model is the same
\* test), then _get_next_key under the pool's lock.
PickKey(c) ==
    /\ GetNextKey(RoleOf[c])
    /\ key' = [key EXCEPT ![c] = ChosenKey(RoleOf[c])]
    /\ forced' = (forced \/ ~Available(ChosenKey(RoleOf[c])))
    /\ Goto(c, "use")

GiveUpLater(c) ==
    /\ Goto(c, "giveUp")
    /\ UNCHANGED <<poolVars, key, forced>>

ReadyToAttempt(c) ==
    /\ pc[c] = "attempt"
    /\ now >= wake[c]
    /\ UNCHANGED <<breakerVars, model, attempt, deadline, wake, late,
                   streamFailures, now>>

\* Mutated form: the deadline is not looked at before an attempt.
AttemptWithoutDeadline(c) == ReadyToAttempt(c) /\ PickKey(c)

Attempt(c) ==
    /\ ReadyToAttempt(c)
    /\ IF now >= deadline[c] THEN GiveUpLater(c) ELSE PickKey(c)

\* record_usage, and the request goes out.
UseKey(c) ==
    /\ pc[c] = "use"
    /\ RecordUsage(key[c])
    /\ late' = [late EXCEPT ![c] = IF now >= deadline[c] THEN @ + 1 ELSE @]
    /\ Goto(c, "calling")
    /\ UNCHANGED <<breakerVars, model, attempt, key, deadline, wake,
                   historyVars, now>>

-----------------------------------------------------------------------------
(* How an attempt ends.                                                    *)

\* The call is over and its locals are gone.
Return(c) ==
    /\ Goto(c, "idle")
    /\ model' = [model EXCEPT ![c] = 1]
    /\ attempt' = [attempt EXCEPT ![c] = 1]
    /\ key' = [key EXCEPT ![c] = 1]
    /\ deadline' = [deadline EXCEPT ![c] = 0]
    /\ wake' = [wake EXCEPT ![c] = 0]
    /\ late' = [late EXCEPT ![c] = 0]

Continue(c, label) ==
    /\ Goto(c, label)
    /\ UNCHANGED <<model, attempt, key, deadline, wake, late>>

NextModel(c) ==
    IF model[c] < NModels
    THEN /\ Goto(c, "attempt")
         /\ model' = [model EXCEPT ![c] = @ + 1]
         /\ attempt' = [attempt EXCEPT ![c] = 1]
         /\ UNCHANGED <<key, deadline, wake, late>>
    ELSE Continue(c, "giveUp")

\* Sleep before the next attempt on this model, or stop at the deadline.
Backoff(c) ==
    IF attempt[c] < MaxAttempts
    THEN \E d \in Delays :
            IF now + d >= deadline[c]
            THEN Continue(c, "giveUp")
            ELSE /\ Goto(c, "attempt")
                 /\ attempt' = [attempt EXCEPT ![c] = @ + 1]
                 /\ wake' = [wake EXCEPT ![c] = now + d]
                 /\ UNCHANGED <<model, key, deadline, late>>
    ELSE NextModel(c)

Calling(c) == pc[c] = "calling" /\ UNCHANGED now

\* The provider answers with the completion.
CallOk(c) ==
    /\ Calling(c)
    /\ Return(c)
    /\ Breaker!RecordSuccess
    /\ streamFailures' = 0
    /\ UNCHANGED <<poolVars, forced>>

\* Mutated form: a stream that opens is not yet a success.
StreamOpensUnrecorded(c) ==
    /\ Calling(c)
    /\ Continue(c, "streaming")
    /\ UNCHANGED <<poolVars, breakerVars, historyVars>>

\* The provider opens a stream: already a success for the breaker.
StreamOpens(c) ==
    /\ Calling(c)
    /\ Continue(c, "streaming")
    /\ Breaker!RecordSuccess
    /\ streamFailures' = 0
    /\ UNCHANGED <<poolVars, forced>>

\* rate_limit or auth_error: the key cools down.
KeyRefused(c) ==
    /\ Calling(c)
    /\ Backoff(c)
    /\ \E d \in CooldownTimes : TriggerCooldown(key[c], d)
    /\ UNCHANGED <<breakerVars, historyVars>>

\* timeout, connection_error or server_error.
TransientError(c) ==
    /\ Calling(c)
    /\ Backoff(c)
    /\ UNCHANGED <<poolVars, breakerVars, historyVars>>

\* model_error: no retry on this model.
ModelError(c) ==
    /\ Calling(c)
    /\ NextModel(c)
    /\ UNCHANGED <<poolVars, breakerVars, historyVars>>

\* Any other error is recorded and raised at once.
OtherError(c) ==
    /\ Calling(c)
    /\ Return(c)
    /\ Breaker!RecordFailure
    /\ UNCHANGED <<poolVars, historyVars>>

\* UpstreamUnavailable, after the deadline or the last model.
GiveUp(c) ==
    /\ pc[c] = "giveUp"
    /\ Return(c)
    /\ Breaker!RecordFailure
    /\ UNCHANGED <<poolVars, historyVars, now>>

-----------------------------------------------------------------------------
(* token_generator of stream_groq_call, run by the reader of the stream.   *)

Streaming(c) ==
    /\ pc[c] = "streaming"
    /\ Return(c)
    /\ UNCHANGED <<poolVars, forced, now>>

StreamEnds(c) ==
    /\ Streaming(c)
    /\ Breaker!RecordSuccess
    /\ streamFailures' = 0

StreamBreaks(c) ==
    /\ Streaming(c)
    /\ Breaker!RecordFailure
    /\ streamFailures' = streamFailures + 1

\* The reader closes the generator: GeneratorExit is not an Exception.
StreamClosed(c) ==
    /\ Streaming(c)
    /\ UNCHANGED <<breakerVars, streamFailures>>

-----------------------------------------------------------------------------
Tick ==
    /\ now < MaxTime
    /\ now' = now + 1
    /\ UNCHANGED <<poolVars, breakerVars, callVars, historyVars>>

\* The end of the bounded clock: whoever still runs sleeps beyond it.
Horizon ==
    /\ now = MaxTime
    /\ \A c \in Running : wake[c] > now
    /\ UNCHANGED vars

Advance(c) ==
    \/ Attempt(c) \/ UseKey(c)
    \/ CallOk(c) \/ StreamOpens(c) \/ KeyRefused(c) \/ TransientError(c)
    \/ ModelError(c) \/ OtherError(c) \/ GiveUp(c)
    \/ StreamEnds(c) \/ StreamBreaks(c) \/ StreamClosed(c)

Next ==
    \/ \E c \in Callers : Begin(c) \/ Refused(c) \/ Advance(c)
    \/ Tick
    \/ Horizon

Spec == Init /\ [][Next]_vars

-----------------------------------------------------------------------------
(* Properties.                                                             *)

TypeOK ==
    /\ cursor \in 0..(NKeys - 1)
    /\ requests \in [Keys -> Seq(Nat)]
    /\ daily \in [Keys -> [day : Nat, requests : Nat]]
    /\ cooldown \in [Keys -> Nat]
    /\ now \in Nat
    /\ circuit \in {"closed", "half_open", "open"}
    /\ failures \in Nat
    /\ openedAt \in 0..now
    /\ pc \in [Callers -> {"idle", "attempt", "use", "calling", "giveUp",
                          "streaming"}]
    /\ model \in [Callers -> 1..NModels]
    /\ attempt \in [Callers -> 1..MaxAttempts]
    /\ key \in [Callers -> Keys]
    /\ {deadline, wake, late} \subseteq [Callers -> Nat]
    /\ forced \in BOOLEAN
    /\ streamFailures \in Nat

\* The total deadline bounds a call across models and retries: at most the one
\* attempt that was already past the check (groq_pool.py:250) goes out late.
AtMostOneLateAttempt ==
    \A c \in Callers : late[c] <= 1

\* Availability is read under the pool's lock and usage recorded after it, so
\* threads may overshoot the limit together.  While every choice found an
\* available key, the overshoot is at most one request per other thread.
OvershootBounded ==
    ~forced => \A k \in Keys :
                  Rpm(k) <= RPM_LIMIT + Cardinality(Callers) - 1

\* A stream resets the failure count when it opens.  Failures of streams that
\* break later are therefore at most one per stream open at that moment: with
\* fewer threads than FailureThreshold, broken streams never open the circuit.
BrokenStreamsBounded ==
    streamFailures <= Cardinality(Callers)

\* The pool uses the breaker as CircuitBreaker describes it: one admission
\* per call, and outcomes only from calls that were admitted and still run.
UsesBreaker == Breaker!Spec

\* "Round-robin key rotation with rate limits" (groq_pool.py:179): a key that is
\* not available is taken only when no key of the role is (_get_next_key).
AvailableKeyPreferred ==
    [][\A c \in Callers :
         (pc[c] = "attempt" /\ pc'[c] = "use") =>
            \/ Available(key'[c])
            \/ ~SomeCandidateAvailable(RoleOf[c])]_vars
=============================================================================
