----------------------------- MODULE TokenBucket -----------------------------
(***************************************************************************)
(* The rate limiter of src/resilience.py as enforce_rate_limit of          *)
(* src/api.py uses it: allow() and, after a refusal,                       *)
(* retry_after_seconds() for the Retry-After header.                       *)
(*                                                                         *)
(* allow() reads the clock before it takes the lock, so the update under   *)
(* the lock may use a reading older than the one another handler has       *)
(* stored meanwhile.  Each handler is a request; `Arrive' is the reading   *)
(* of the clock, `Grant' and `Refuse' are the two results of the locked    *)
(* part, `Advise' is the second locked section.                            *)
(*                                                                         *)
(* Tokens are counted in units of 1/Minute, so a second refills            *)
(* RatePerMinute units and a request costs Minute of them; Minute is 60 in *)
(* the code.  The fraction of a float below that is not modelled.          *)
(***************************************************************************)
EXTENDS Integers, Clock

CONSTANTS
    Clients,         \* the keys of the limiter: API keys or addresses
    Handlers,        \* requests in progress
    Minute,          \* 60: seconds in a minute
    RatePerMinute,   \* rate_per_minute; 0 would disable the limiter
    Burst            \* burst, which the API leaves at rate_per_minute

ASSUME LimiterAssumption ==
    /\ Minute \in Nat \ {0}
    /\ RatePerMinute \in Nat \ {0}
    /\ Burst \in Nat \ {0}

VARIABLES
    known,       \* clients that have a bucket
    tokens,      \* their tokens, in units
    updatedAt,   \* the clock reading of their last refill
    step,        \* where each handler is
    client,      \* the client of each handler
    readAt,      \* its reading of the clock, 0 when it has none
    (* history *)
    granted,     \* requests let through since the meter was reset
    since,       \* updatedAt when the meter was reset
    rewound,     \* by how much updatedAt has moved back since then
    retryAt      \* earliest time a refused request was told to come back,
                 \* if no request of that client was let through since

bucketVars == <<known, tokens, updatedAt>>
meterVars == <<granted, since, rewound>>
limiterVars == <<bucketVars, step, client, readAt, meterVars, retryAt>>

Full == Burst * Minute

NoAdvice == -1

LimiterInit ==
    /\ known = {}
    /\ tokens = [k \in Clients |-> Full]
    /\ updatedAt = [k \in Clients |-> 0]
    /\ step = [h \in Handlers |-> "idle"]
    /\ client \in [Handlers -> Clients]
    /\ readAt = [h \in Handlers |-> 0]
    /\ granted = [k \in Clients |-> 0]
    /\ since = [k \in Clients |-> 0]
    /\ rewound = [k \in Clients |-> 0]
    /\ retryAt = [k \in Clients |-> NoAdvice]

-----------------------------------------------------------------------------
(* The computation under the lock.                                         *)

Earlier(s, t) == IF s <= t THEN s ELSE t

\* max(0.0, now - bucket.updated_at)
Elapsed(k, t) == IF t > updatedAt[k] THEN t - updatedAt[k] ELSE 0

\* The tokens a reading t finds; a new client starts with a full bucket.
Refilled(k, t) ==
    IF k \in known
    THEN Earlier(Full, tokens[k] + Elapsed(k, t) * RatePerMinute)
    ELSE Full

\* Mutated form: the time of the refill is stored for granted requests only.
StoreGrantedOnly(k, t, cost) ==
    /\ known' = known \cup {k}
    /\ tokens' = [tokens EXCEPT ![k] = Refilled(k, t) - cost]
    /\ updatedAt' = [updatedAt EXCEPT ![k] =
                        IF k \notin known \/ cost > 0 THEN t ELSE @]
    /\ since' = [since EXCEPT ![k] = IF k \in known THEN @ ELSE t]
    /\ rewound' = [rewound EXCEPT ![k] =
                      @ + IF k \in known /\ t < updatedAt[k]
                          THEN updatedAt[k] - t ELSE 0]

Store(k, t, cost) ==
    /\ known' = known \cup {k}
    /\ tokens' = [tokens EXCEPT ![k] = Refilled(k, t) - cost]
    /\ updatedAt' = [updatedAt EXCEPT ![k] = t]
    /\ since' = [since EXCEPT ![k] = IF k \in known THEN @ ELSE t]
    /\ rewound' = [rewound EXCEPT ![k] =
                      @ + IF k \in known /\ t < updatedAt[k]
                          THEN updatedAt[k] - t ELSE 0]

\* Mutated form: the seconds are rounded down.
RoundedDownWait(k) ==
    IF tokens[k] >= Minute THEN 0
    ELSE (Minute - tokens[k]) \div RatePerMinute

\* What retry_after_seconds returns: whole seconds until a token is there.
Wait(k) ==
    IF tokens[k] >= Minute THEN 0
    ELSE (Minute - tokens[k]) \div RatePerMinute + 1

-----------------------------------------------------------------------------
(* A request.                                                              *)

Arrive(h, k) ==
    /\ step[h] = "idle"
    /\ step' = [step EXCEPT ![h] = "timed"]
    /\ client' = [client EXCEPT ![h] = k]
    /\ readAt' = [readAt EXCEPT ![h] = now]
    /\ UNCHANGED <<bucketVars, meterVars, retryAt, now>>

Grant(h) ==
    LET k == client[h] IN
    /\ step[h] = "timed"
    /\ Refilled(k, readAt[h]) >= Minute
    /\ Store(k, readAt[h], Minute)
    /\ step' = [step EXCEPT ![h] = "idle"]
    /\ granted' = [granted EXCEPT ![k] = @ + 1]
    /\ retryAt' = [retryAt EXCEPT ![k] = NoAdvice]
    /\ readAt' = [readAt EXCEPT ![h] = 0]
    /\ UNCHANGED <<client, now>>

Refuse(h) ==
    LET k == client[h] IN
    /\ step[h] = "timed"
    /\ Refilled(k, readAt[h]) < Minute
    /\ Store(k, readAt[h], 0)
    /\ step' = [step EXCEPT ![h] = "refused"]
    /\ readAt' = [readAt EXCEPT ![h] = 0]
    /\ UNCHANGED <<client, granted, retryAt, now>>

\* The 429 response with its Retry-After header.
Advise(h) ==
    LET k == client[h] IN
    /\ step[h] = "refused"
    /\ step' = [step EXCEPT ![h] = "idle"]
    /\ retryAt' = [retryAt EXCEPT ![k] =
                      IF @ = NoAdvice THEN now + Wait(k)
                      ELSE Earlier(@, now + Wait(k))]
    /\ UNCHANGED <<bucketVars, client, readAt, meterVars, now>>

\* The meter starts anew, so that what it says holds of every period.
ResetMeter(k) ==
    /\ granted' = [granted EXCEPT ![k] = 0]
    /\ since' = [since EXCEPT ![k] = updatedAt[k]]
    /\ rewound' = [rewound EXCEPT ![k] = 0]
    /\ UNCHANGED <<bucketVars, step, client, readAt, retryAt, now>>

LimiterStep ==
    \/ \E h \in Handlers :
          \/ \E k \in Clients : Arrive(h, k)
          \/ Grant(h) \/ Refuse(h) \/ Advise(h)
    \/ \E k \in Clients : ResetMeter(k)

LimiterTick ==
    /\ now < MaxTime
    /\ now' = now + 1
    /\ UNCHANGED limiterVars

LimiterSpec ==
    /\ LimiterInit /\ now = 0
    /\ [][LimiterStep \/ LimiterTick]_<<limiterVars, now>>

-----------------------------------------------------------------------------
(* Properties.                                                             *)

\* What the limiter lets through in any period: a full bucket, the refill of
\* the time that has passed, and once more the refill of every interval by
\* which an overtaken handler has set updated_at back (resilience.py:163).
\* Without such overtaking it is the rate that was configured.
GrantsBounded ==
    \A k \in Clients :
        granted[k] * Minute <=
            Full + RatePerMinute * (now - since[k] + rewound[k])

\* Retry-After is honest: a client that comes back when it was told to, and of
\* which no other request was let through meanwhile, is not refused again,
\* whatever handlers with older clock readings do in between.
RetryAfterSuffices ==
    [][\A h \in Handlers :
         (step[h] = "timed" /\ step'[h] = "refused"
            /\ retryAt[client[h]] # NoAdvice) =>
               readAt[h] < retryAt[client[h]]]_<<limiterVars, now>>
=============================================================================
