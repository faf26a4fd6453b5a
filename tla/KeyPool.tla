------------------------------ MODULE KeyPool ------------------------------
(***************************************************************************)
(* The API keys of GroqKeyPool (src/groq_pool.py): the health of each key  *)
(* (KeyState) and the round-robin choice among the keys of a role.         *)
(*                                                                         *)
(* _get_next_key runs under the pool's lock and is one step.  record_usage *)
(* and trigger_cooldown run outside it, later, and are steps of their own. *)
(* Token counts are multiples of one estimate per request, so the token    *)
(* limits are counted in requests times TokenEstimate.                     *)
(***************************************************************************)
EXTENDS Integers, Sequences, FiniteSets, FiniteSetsExt

CONSTANTS
    NKeys,          \* keys found in the environment; a key is its position
    Roles,          \* roles that ask for keys
    RoleGroups,     \* ROLE_GROUPS: the keys wanted by each role
    RPM_LIMIT, TPM_LIMIT, RPD_LIMIT, TPD_LIMIT,
    TokenEstimate,  \* tokens one request is taken to cost
    Window,         \* length of the "minute" of the per-minute limits
    DayLength       \* clock units in a UTC day

ASSUME NKeysAssumption  == NKeys \in Nat \ {0}
ASSUME RolesAssumption  == RoleGroups \in [Roles -> SUBSET Nat]
ASSUME LimitsAssumption ==
    /\ {RPM_LIMIT, TPM_LIMIT, RPD_LIMIT, TPD_LIMIT, TokenEstimate} \subseteq Nat
    /\ {Window, DayLength} \subseteq Nat \ {0}

VARIABLES
    cursor,    \* _current_index, shared by all roles
    requests,  \* request_timestamps of each key
    daily,     \* daily_day and daily_requests of each key
    cooldown,  \* cooldown_until of each key
    now        \* the clock

poolVars == <<cursor, requests, daily, cooldown>>

Keys == 1..NKeys

Today == now \div DayLength

PoolInit ==
    /\ cursor = 0
    /\ requests = [k \in Keys |-> <<>>]
    /\ daily = [k \in Keys |-> [day |-> 0, requests |-> 0]]
    /\ cooldown = [k \in Keys |-> 0]

-----------------------------------------------------------------------------
(* KeyState.                                                               *)

\* Where the stamps lie that is_available counts.  The code drops the others
\* when it looks: no later look would count them again.
Recent(k) == {i \in DOMAIN requests[k] : now - requests[k][i] < Window}
Rpm(k) == Cardinality(Recent(k))

\* _roll_day: the daily counters as of today.
Rolled(k) ==
    IF daily[k].day = Today THEN daily[k] ELSE [day |-> Today, requests |-> 0]

\* Mutated form: the request limit is off by one.
AvailableAtLimit(k) ==
    /\ now >= cooldown[k]
    /\ Rpm(k) <= RPM_LIMIT
    /\ Rpm(k) * TokenEstimate < TPM_LIMIT
    /\ Rolled(k).requests < RPD_LIMIT
    /\ Rolled(k).requests * TokenEstimate < TPD_LIMIT

Available(k) ==
    /\ now >= cooldown[k]
    /\ Rpm(k) < RPM_LIMIT
    /\ Rpm(k) * TokenEstimate < TPM_LIMIT
    /\ Rolled(k).requests < RPD_LIMIT
    /\ Rolled(k).requests * TokenEstimate < TPD_LIMIT

RecordUsage(k) ==
    /\ requests' = [requests EXCEPT ![k] = Append(@, now)]
    /\ daily' = [daily EXCEPT ![k] =
                    [day |-> Today, requests |-> Rolled(k).requests + 1]]
    /\ UNCHANGED <<cursor, cooldown>>

TriggerCooldown(k, seconds) ==
    /\ cooldown' = [cooldown EXCEPT ![k] = now + seconds]
    /\ UNCHANGED <<cursor, requests, daily>>

-----------------------------------------------------------------------------
(* _get_next_key.                                                          *)

\* The keys of the role, or all keys when the role has none.
Candidates(role) ==
    LET wanted == Keys \cap RoleGroups[role] IN IF wanted = {} THEN Keys ELSE wanted

\* The n-th candidate (from 0) in the order of the keys.
Nth(cand, n) == CHOOSE k \in cand : Cardinality({j \in cand : j < k}) = n

\* The candidate that step j of the scan inspects (from 0).  The index wraps
\* at the number of all keys and is then reduced to the candidates.
Inspected(cand, j) == Nth(cand, ((cursor + j) % NKeys) % Cardinality(cand))

\* The scan steps that find an available key; the first of them ends it.
Hits(cand) == {j \in 0..(Cardinality(cand) - 1) : Available(Inspected(cand, j))}

ScanLength(cand) == IF Hits(cand) = {} THEN Cardinality(cand) ELSE Min(Hits(cand)) + 1

\* min(candidates, key=cooldown_until): the first one with the least value.
SoonestCooled(cand) ==
    Min({k \in cand : \A other \in cand : cooldown[k] <= cooldown[other]})

ChosenKey(role) ==
    LET cand == Candidates(role)
    IN  IF Hits(cand) = {} THEN SoonestCooled(cand)
                           ELSE Inspected(cand, Min(Hits(cand)))

\* Mutated form: the index is not wrapped.
GetNextKeyUnwrapped(role) ==
    /\ cursor' = cursor + ScanLength(Candidates(role))
    /\ UNCHANGED <<requests, daily, cooldown>>

GetNextKey(role) ==
    /\ cursor' = (cursor + ScanLength(Candidates(role))) % NKeys
    /\ UNCHANGED <<requests, daily, cooldown>>

SomeCandidateAvailable(role) ==
    \E k \in Candidates(role) : Available(k)
=============================================================================
