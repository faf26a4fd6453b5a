----------------------------- MODULE Readiness ------------------------------
(***************************************************************************)
(* GET /health/ready of src/api.py with check_db and the connection pool   *)
(* of src/db.py, in one API process.                                       *)
(*                                                                         *)
(* The handlers run on one event loop and serve a cached verdict; when it  *)
(* has expired one of them, under _ready_lock, lets a thread borrow a      *)
(* connection and run a statement.  Requests borrow from the same pool.    *)
(*                                                                         *)
(* The pool is psycopg_pool's, modelled as db.py relies on it: it opens a  *)
(* connection when a borrower finds none, hands out an idle one without    *)
(* testing it, and replaces one that comes back broken.  Connections break *)
(* when the server stops and stay in the pool until somebody uses them.    *)
(***************************************************************************)
EXTENDS Integers, Database

CONSTANTS
    Probes,    \* clients of the endpoint
    Slots,     \* places of the pool, max_size of them
    Cache,     \* readiness_cache_seconds
    Lag        \* bound on how long a thread's result waits for the event loop

ASSUME ReadinessAssumption == Cache \in Nat \ {0} /\ Lag \in Nat

VARIABLES
    pool,        \* _pool: "none" before the lifespan, "open", or "dead"
    slot,        \* what each place of the pool holds
    stale,       \* places whose connection is broken
    verdict,     \* the `ready' of _ready_cache
    verdictAge,  \* time since it was stored; Cache when it has expired
    probe,       \* where each client's handler is
    answerAge    \* history: time since a check was last answered

poolVars == <<pool, slot, stale>>
probeVars == <<verdict, verdictAge, probe, answerAge>>
readinessVars == <<poolVars, probeVars>>

AnswerAges == 0..(Cache + Lag + 1)

\* A process in which nothing has run: the cache holds (0.0, False, ...).
ReadinessInit ==
    /\ pool = "none"
    /\ slot = [i \in Slots |-> "none"]
    /\ stale = {}
    /\ verdict = FALSE
    /\ verdictAge = Cache
    /\ probe = [p \in Probes |-> "none"]
    /\ answerAge = Cache + Lag + 1

EndProcess ==
    /\ pool' = "none"
    /\ slot' = [i \in Slots |-> "none"]
    /\ stale' = {}
    /\ verdict' = FALSE
    /\ verdictAge' = Cache
    /\ probe' = [p \in Probes |-> "none"]
    /\ UNCHANGED answerAge

Holds(i, what) == slot' = [slot EXCEPT ![i] = what]
At(p, where) == probe' = [probe EXCEPT ![p] = where]

-----------------------------------------------------------------------------
(* The pool.                                                               *)

\* Mutated form: min_size is one.  Opening then waits for a connection, and
\* when none comes in time the pool is closed and cannot be opened again.
OpenPoolWithConnection ==
    /\ pool = "none"
    /\ pool' = IF db = "up" THEN "open" ELSE "dead"
    /\ UNCHANGED <<slot, stale, probeVars>>

\* open_pool in the lifespan: with min_size 0 there is nothing to wait for.
OpenPool ==
    /\ pool = "none"
    /\ pool' = "open"
    /\ UNCHANGED <<slot, stale, probeVars>>

\* A borrower finds no idle connection.
Grow(i) ==
    /\ pool = "open"
    /\ slot[i] = "none"
    /\ \A j \in Slots : slot[j] # "idle"
    /\ Holds(i, "opening")
    /\ UNCHANGED <<pool, stale, probeVars>>

Connect(i) ==
    /\ slot[i] = "opening"
    /\ db = "up"
    /\ Holds(i, "idle")
    /\ UNCHANGED <<pool, stale, probeVars>>

\* The attempts to connect have a time limit.
GiveUp(i) ==
    /\ slot[i] = "opening"
    /\ db = "down"
    /\ Holds(i, "none")
    /\ UNCHANGED <<pool, stale, probeVars>>

\* A connection comes back: a broken one is replaced.
PutBack(i) ==
    /\ Holds(i, IF i \in stale THEN "opening" ELSE "idle")
    /\ stale' = stale \ {i}

\* A request uses a connection.
Borrow(i) ==
    /\ slot[i] = "idle"
    /\ Holds(i, "borrowed")
    /\ UNCHANGED <<pool, stale, probeVars>>

Return(i) ==
    /\ slot[i] = "borrowed"
    /\ PutBack(i)
    /\ UNCHANGED <<pool, probeVars>>

PoolStep(i) == Grow(i) \/ Connect(i) \/ GiveUp(i) \/ Borrow(i) \/ Return(i)

\* What the server's stop does to the connections of this process.
LoseConnections ==
    stale' = {i \in Slots : slot[i] \in {"idle", "borrowed", "checking"}}

-----------------------------------------------------------------------------
(* A handler.                                                              *)

Verdict == IF verdict THEN "ready" ELSE "unready"

Fresh == verdictAge < Cache

Unlocked == \A p \in Probes : probe[p] \notin {"acquire", "query", "true", "false"}

\* Mutated form: every use of the cache renews it.
AskRenewing(p) ==
    /\ pool # "none"
    /\ probe[p] = "none"
    /\ IF Fresh THEN At(p, Verdict) /\ verdictAge' = 0
       ELSE At(p, "locked") /\ UNCHANGED verdictAge
    /\ UNCHANGED <<poolVars, verdict, answerAge>>

AskReady(p) ==
    /\ pool # "none"
    /\ probe[p] = "none"
    /\ At(p, IF Fresh THEN Verdict ELSE "locked")
    /\ UNCHANGED <<poolVars, verdict, verdictAge, answerAge>>

\* The lock is there; another handler may have stored a verdict meanwhile.
EnterLock(p) ==
    /\ probe[p] = "locked"
    /\ Unlocked
    /\ At(p, IF Fresh THEN Verdict ELSE "acquire")
    /\ UNCHANGED <<poolVars, verdict, verdictAge, answerAge>>

Acquire(p) ==
    /\ probe[p] = "acquire"
    /\ \E i \in Slots : slot[i] = "idle" /\ Holds(i, "checking")
    /\ At(p, "query")
    /\ UNCHANGED <<pool, stale, verdict, verdictAge, answerAge>>

\* PoolTimeout, or a pool that is closed for good.
AcquireFails(p) ==
    /\ probe[p] = "acquire"
    /\ \A i \in Slots : slot[i] # "idle"
    /\ At(p, "false")
    /\ UNCHANGED <<poolVars, verdict, verdictAge, answerAge>>

\* SELECT 1 is answered, or finds its connection broken.
Query(p) ==
    /\ probe[p] = "query"
    /\ \E i \in Slots :
          /\ slot[i] = "checking"
          /\ PutBack(i)
          /\ At(p, IF i \in stale THEN "false" ELSE "true")
          /\ answerAge' = IF i \in stale THEN answerAge ELSE 0
    /\ UNCHANGED <<pool, verdict, verdictAge>>

\* The event loop resumes the handler, which stores the verdict.
Store(p) ==
    /\ probe[p] \in {"true", "false"}
    /\ verdict' = (probe[p] = "true")
    /\ verdictAge' = 0
    /\ At(p, IF probe[p] = "true" THEN "ready" ELSE "unready")
    /\ UNCHANGED <<poolVars, answerAge>>

Reply(p) ==
    /\ probe[p] \in {"ready", "unready"}
    /\ At(p, "none")
    /\ UNCHANGED <<poolVars, verdict, verdictAge, answerAge>>

ProbeStep(p) ==
    \/ AskReady(p) \/ EnterLock(p) \/ Acquire(p) \/ AcquireFails(p)
    \/ Query(p) \/ Store(p) \/ Reply(p)

\* Time passes, but no result waits for the event loop longer than Lag.
PassTime ==
    /\ \A p \in Probes : probe[p] = "true" => answerAge < Lag
    /\ verdictAge' = IF Fresh THEN verdictAge + 1 ELSE Cache
    /\ answerAge' = IF answerAge + 1 \in AnswerAges THEN answerAge + 1 ELSE answerAge
    /\ UNCHANGED <<poolVars, verdict, probe>>

-----------------------------------------------------------------------------
(* Properties.                                                             *)

ReadinessTypeOK ==
    /\ pool \in {"none", "open", "dead"}
    /\ slot \in [Slots -> {"none", "opening", "idle", "borrowed", "checking"}]
    /\ stale \subseteq {i \in Slots : slot[i] \in {"idle", "borrowed", "checking"}}
    /\ verdict \in BOOLEAN
    /\ verdictAge \in 0..Cache
    /\ probe \in [Probes -> {"none", "locked", "acquire", "query", "true", "false",
                             "ready", "unready"}]
    /\ answerAge \in AnswerAges

\* "Ready" is never older than the cache allows: whoever is told so, from the
\* cache, after waiting for the lock or by its own check, is told of an answer
\* that the database gave less than Cache + Lag ago (api.py:208-228).
ReadyIsRecent ==
    [][\A p \in Probes :
         (probe'[p] = "ready" /\ probe[p] # "ready") => answerAge < Cache + Lag
      ]_readinessVars
=============================================================================
