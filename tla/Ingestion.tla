----------------------------- MODULE Ingestion -----------------------------
(***************************************************************************)
(* The ingestion workers (src/refresh.py) and the rows of ingestion_runs   *)
(* they write (src/db.py).  A worker takes a Postgres advisory lock on a   *)
(* pooled session, runs one fetch and index cycle, releases the lock, and  *)
(* only then records the outcome.  Workers are killed and restarted, asked *)
(* to stop, meet database errors, and lose the session that holds the lock *)
(* while their cycle goes on over other sessions.  Every statement commits *)
(* by itself, so one that fails may have taken effect: only its reply was  *)
(* lost.                                                                   *)
(***************************************************************************)
EXTENDS Integers, Sequences, FiniteSets

CONSTANTS
    Workers,
    NoWorker,     \* the lock has no holder
    MaxRuns,      \* bound on the rows of ingestion_runs
    MaxFaults     \* bound on crashes, errors, lost sessions and stop signals

ASSUME WorkersAssumption == NoWorker \notin Workers
ASSUME BoundsAssumption  == MaxRuns \in Nat /\ MaxFaults \in Nat

VARIABLES
    pc,       \* where each worker is in run_once
    run,      \* its run_id, 0 for None
    status,   \* its local status
    lost,     \* its lock session has gone while it was in its cycle
    stop,     \* its stop event
    lock,     \* holder of the advisory lock
    rows,     \* ingestion_runs: status, age over 30 minutes, who started it
    faults,   \* faults so far
    anyLost   \* history: some lock session has been lost

local == <<pc, run, status, lost>>
vars == <<local, stop, lock, rows, faults, anyLost>>

Outcomes == {"success", "partial", "failed"}

\* A row of ingestion_runs.
Statuses == Outcomes \cup {"running", "interrupted"}
RunRows == [status : Statuses, old : BOOLEAN, by : Workers]

\* The points of run_once inside the locked region, after it, and outside.
InCycle == {"sweep", "register", "fetch", "index", "unlock", "unlockRaising"}
Recording == {"record", "recordFailed"}
Outside == {"idle", "down"}

Init ==
    /\ pc = [w \in Workers |-> "idle"]
    /\ run = [w \in Workers |-> 0]
    /\ status = [w \in Workers |-> "failed"]
    /\ lost = [w \in Workers |-> FALSE]
    /\ stop = [w \in Workers |-> FALSE]
    /\ lock = NoWorker
    /\ rows = <<>>
    /\ faults = 0
    /\ anyLost = FALSE

Goto(w, label) == pc' = [pc EXCEPT ![w] = label]

CountFault ==
    /\ faults < MaxFaults
    /\ faults' = faults + 1

Fault == CountFault /\ UNCHANGED anyLost

NoFault == UNCHANGED <<faults, anyLost>>

SetStatus(i, s) == rows' = [rows EXCEPT ![i].status = s]

\* What a new run_once starts from, and what an ended one leaves.
Reset(w, label) ==
    /\ Goto(w, label)
    /\ run' = [run EXCEPT ![w] = 0]
    /\ status' = [status EXCEPT ![w] = "failed"]
    /\ lost' = [lost EXCEPT ![w] = FALSE]

-----------------------------------------------------------------------------
(* run_once, up to the release of the lock.                                *)

\* Mutated form: the result of pg_try_advisory_lock is not looked at.
LockAnyway(w) ==
    /\ pc[w] = "idle" /\ ~stop[w]
    /\ lock' = w
    /\ Goto(w, "sweep")
    /\ UNCHANGED <<run, status, lost, stop, rows>> /\ NoFault

TryLock(w) ==
    /\ pc[w] = "idle" /\ ~stop[w]
    /\ lock = NoWorker
    /\ lock' = w
    /\ Goto(w, "sweep")
    /\ UNCHANGED <<run, status, lost, stop, rows>> /\ NoFault

\* Mutated form: rows of earlier runs are left as they are.
SweepNothing(w) ==
    /\ pc[w] = "sweep"
    /\ Goto(w, "register")
    /\ UNCHANGED <<run, status, lost, stop, lock, rows>> /\ NoFault

\* interrupt_stale_ingestion_runs: running rows older than 30 minutes.
Sweep(w) ==
    /\ pc[w] = "sweep"
    /\ rows' = [i \in DOMAIN rows |->
                  IF rows[i].status = "running" /\ rows[i].old
                  THEN [rows[i] EXCEPT !.status = "interrupted"] ELSE rows[i]]
    /\ Goto(w, "register")
    /\ UNCHANGED <<run, status, lost, stop, lock>> /\ NoFault

\* Mutated form: the new row is never committed.
RegisterUncommitted(w) ==
    /\ pc[w] = "register"
    /\ Len(rows) < MaxRuns
    /\ run' = [run EXCEPT ![w] = Len(rows) + 1]
    /\ Goto(w, "fetch")
    /\ UNCHANGED <<status, lost, stop, lock, rows>> /\ NoFault

\* The row that start_ingestion_run inserts.
AddRow(w) ==
    /\ pc[w] = "register"
    /\ Len(rows) < MaxRuns
    /\ rows' = Append(rows, [status |-> "running", old |-> FALSE, by |-> w])

Register(w) ==
    /\ AddRow(w)
    /\ run' = [run EXCEPT ![w] = Len(rows) + 1]
    /\ Goto(w, "fetch")
    /\ UNCHANGED <<status, lost, stop, lock>> /\ NoFault

\* The INSERT takes effect but the id does not arrive: nobody's run.
RegisterUnseen(w) ==
    /\ AddRow(w)
    /\ Goto(w, "unlockRaising")
    /\ Fault
    /\ UNCHANGED <<run, status, lost, stop, lock>>

\* fetch_all_feeds returns; its failures are results, not exceptions.  A stop
\* request leaves the index alone.
Fetch(w) ==
    /\ pc[w] = "fetch"
    /\ IF stop[w]
       THEN Goto(w, "unlock") /\ status' = [status EXCEPT ![w] = "interrupted"]
       ELSE Goto(w, "index") /\ UNCHANGED status
    /\ UNCHANGED <<run, lost, stop, lock, rows>> /\ NoFault

\* sync_index returns and the results of the feeds decide the status.
Index(w) ==
    /\ pc[w] = "index"
    /\ \E s \in Outcomes : status' = [status EXCEPT ![w] = s]
    /\ Goto(w, "unlock")
    /\ UNCHANGED <<run, lost, stop, lock, rows>> /\ NoFault

\* A statement of the cycle raises.  At MaxRuns rows register always does.  (A
\* sweep whose reply is lost is Sweep and then an error.)
CycleError(w) ==
    /\ pc[w] \in {"sweep", "register", "fetch", "index"}
    /\ IF pc[w] = "register" /\ Len(rows) = MaxRuns THEN NoFault ELSE Fault
    /\ Goto(w, "unlockRaising")
    /\ UNCHANGED <<run, status, lost, stop, lock, rows>>

\* The finally block.  On a lost session the unlock itself raises.
Unlock(w) ==
    /\ pc[w] \in {"unlock", "unlockRaising"}
    /\ lock' = IF lock = w THEN NoWorker ELSE lock
    /\ Goto(w, IF pc[w] = "unlock" /\ ~lost[w] THEN "record" ELSE "recordFailed")
    /\ UNCHANGED <<run, status, lost, stop, rows>> /\ NoFault

-----------------------------------------------------------------------------
(* The rest of run_once: the outcome is recorded without the lock.         *)

\* Feed rows and finish_ingestion_run, which does not look at the old status.
Record(w) ==
    /\ pc[w] = "record"
    /\ SetStatus(run[w], status[w])
    /\ Reset(w, "idle")
    /\ UNCHANGED <<stop, lock>> /\ NoFault

\* A statement raises, before the UPDATE of the row took effect or after it.
RecordError(w) ==
    /\ pc[w] = "record"
    /\ UNCHANGED rows \/ SetStatus(run[w], status[w])
    /\ Goto(w, "recordFailed")
    /\ Fault
    /\ UNCHANGED <<run, status, lost, stop, lock>>

\* Mutated form: the newest row is closed, not the worker's own.
CloseNewestRun(w) ==
    /\ pc[w] = "recordFailed"
    /\ IF run[w] = 0 THEN UNCHANGED rows ELSE SetStatus(Len(rows), "failed")
    /\ Reset(w, "idle")
    /\ UNCHANGED <<stop, lock>> /\ NoFault

\* The exception handler: a run that was registered is marked failed.
RecordFailure(w) ==
    /\ pc[w] = "recordFailed"
    /\ IF run[w] = 0 THEN UNCHANGED rows ELSE SetStatus(run[w], "failed")
    /\ Reset(w, "idle")
    /\ UNCHANGED <<stop, lock>> /\ NoFault

\* refresh_run_record_failed: the row stays as it is.  (If only the reply was
\* lost, this is RecordFailure.)
RecordFailureError(w) ==
    /\ pc[w] = "recordFailed"
    /\ run[w] # 0
    /\ Fault
    /\ Reset(w, "idle")
    /\ UNCHANGED <<stop, lock, rows>>

-----------------------------------------------------------------------------
(* The loop around run_once, the process and the database.                 *)

Signal(w) ==
    /\ pc[w] \notin {"down"} /\ ~stop[w]
    /\ stop' = [stop EXCEPT ![w] = TRUE]
    /\ Fault
    /\ UNCHANGED <<local, lock, rows>>

LeaveLoop(w) ==
    /\ pc[w] = "idle" /\ stop[w]
    /\ Reset(w, "down")
    /\ UNCHANGED <<stop, lock, rows>> /\ NoFault

\* The process is killed: its sessions end, and with them the lock.
Crash(w) ==
    /\ pc[w] # "down"
    /\ Fault
    /\ Reset(w, "down")
    /\ lock' = IF lock = w THEN NoWorker ELSE lock
    /\ UNCHANGED <<stop, rows>>

Restart(w) ==
    /\ pc[w] = "down"
    /\ Goto(w, "idle")
    /\ stop' = [stop EXCEPT ![w] = FALSE]
    /\ UNCHANGED <<run, status, lost, lock, rows>> /\ NoFault

\* The server ends the session that holds the lock; the worker notices only
\* when it unlocks.
SessionLost(w) ==
    /\ lock = w
    /\ lock' = NoWorker
    /\ lost' = [lost EXCEPT ![w] = TRUE]
    /\ anyLost' = TRUE
    /\ CountFault
    /\ UNCHANGED <<pc, run, status, stop, rows>>

\* Thirty minutes have passed since row i was started.
Age(i) ==
    /\ rows[i].status = "running" /\ ~rows[i].old
    /\ rows' = [rows EXCEPT ![i].old = TRUE]
    /\ UNCHANGED <<local, stop, lock>> /\ NoFault

TimePasses == \E i \in DOMAIN rows : Age(i)

RunOnce(w) ==
    \/ TryLock(w) \/ Sweep(w) \/ Register(w) \/ RegisterUnseen(w)
    \/ Fetch(w) \/ Index(w) \/ CycleError(w) \/ Unlock(w)
    \/ Record(w) \/ RecordError(w) \/ RecordFailure(w) \/ RecordFailureError(w)

Next ==
    \/ \E w \in Workers :
          \/ RunOnce(w)
          \/ Signal(w) \/ LeaveLoop(w) \/ Crash(w) \/ Restart(w)
          \/ SessionLost(w)
    \/ TimePasses

Spec == Init /\ [][Next]_vars

\* Workers are scheduled, time passes, and the container runtime starts a
\* worker that is down again.
Fairness ==
    /\ \A w \in Workers : WF_vars(RunOnce(w)) /\ WF_vars(Restart(w))
    /\ WF_vars(TimePasses)

FairSpec == Spec /\ Fairness

-----------------------------------------------------------------------------
(* Properties.                                                             *)

TypeOK ==
    /\ pc \in [Workers -> InCycle \cup Recording \cup Outside]
    /\ run \in [Workers -> 0..Len(rows)]
    /\ status \in [Workers -> Outcomes \cup {"interrupted"}]
    /\ lost \in [Workers -> BOOLEAN]
    /\ stop \in [Workers -> BOOLEAN]
    /\ lock \in Workers \cup {NoWorker}
    /\ rows \in Seq(RunRows)
    /\ faults \in Nat
    /\ anyLost \in BOOLEAN

\* The advisory lock keeps cycles apart: two workers are in their cycles at
\* once only if one of them has lost the session that held the lock.
CyclesExclusive ==
    \A v, w \in Workers :
        (v # w /\ pc[v] \in InCycle /\ pc[w] \in InCycle) => lost[v] \/ lost[w]

\* The claim at refresh.py:3: the lock means that runs are never concurrent.
NoConcurrentRuns ==
    \A v, w \in Workers :
        (pc[v] \in InCycle /\ pc[w] \in InCycle) => v = w

\* As long as no lock session is lost, a sweep never closes the run of a worker
\* that is in its cycle, however long the cycle takes
\* (interrupt_stale_ingestion_runs goes by age alone; the lock protects it).
LiveRunNotSwept ==
    ~anyLost => \A w \in Workers :
        (pc[w] \in InCycle /\ run[w] # 0) => rows[run[w]].status = "running"

\* A row that was closed is written again only by the worker that started it and
\* is still recording that run, in one of two cases: a sweep had closed it under
\* that worker, or the worker takes its own record for lost, in which case it can
\* only end as failed (db.py:355 has no guard on the status it overwrites).
RewritesOwnRow(i) ==
    LET w == rows[i].by IN
    /\ run[w] = i
    /\ \/ pc[w] \in Recording /\ rows[i].status = "interrupted"
       \/ pc[w] = "recordFailed" /\ rows'[i].status = "failed"

ClosedRunKeepsItsOutcome ==
    [][\A i \in DOMAIN rows :
         (rows[i].status # "running" /\ rows'[i].status # rows[i].status) =>
            RewritesOwnRow(i)]_vars

IsRunning(i) == IF i \in DOMAIN rows THEN rows[i].status = "running" ELSE FALSE

\* Every run is closed in the end: by its worker, or after a crash or a failed
\* record by the sweep of a later run, for which no worker may keep the lock for
\* good (docstring of interrupt_stale_ingestion_runs).
EveryRunIsClosed ==
    \A i \in 1..MaxRuns : IsRunning(i) ~> ~IsRunning(i)
=============================================================================
