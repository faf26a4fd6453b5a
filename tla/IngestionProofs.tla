-------------------------- MODULE IngestionProofs --------------------------
(***************************************************************************)
(* The advisory lock keeps the ingestion cycles of any number of workers   *)
(* apart, and the bookkeeping of ingestion_runs is sound, with any number  *)
(* of runs, crashes, errors and lost sessions.                             *)
(***************************************************************************)
EXTENDS Ingestion, SequenceTheorems, TLAPS

-----------------------------------------------------------------------------
(* The inductive invariant.                                                *)

\* A worker in its cycle holds the lock unless its session is gone.
LockProtects ==
    \A w \in Workers : (pc[w] \in InCycle /\ ~lost[w]) => lock = w

\* No session is gone before the first one is lost.
LossIsRecorded == \A w \in Workers : lost[w] => anyLost

\* A worker has a run_id exactly from start_ingestion_run on.
NoRunBeforeRegister ==
    \A w \in Workers : pc[w] \in Outside \cup {"sweep", "register"} => run[w] = 0
RunAfterRegister ==
    \A w \in Workers :
        pc[w] \in {"fetch", "index", "unlock", "record"} => run[w] # 0

\* The row a worker will close is its own, and is not closed but by a sweep or
\* by a record of that worker whose reply was lost.
OwnRunIsOpen ==
    \A w \in Workers : run[w] # 0 =>
        /\ rows[run[w]].by = w
        /\ \/ rows[run[w]].status \in {"running", "interrupted"}
           \/ pc[w] = "recordFailed"

IInv ==
    /\ TypeOK
    /\ LockProtects
    /\ LossIsRecorded
    /\ NoRunBeforeRegister
    /\ RunAfterRegister
    /\ OwnRunIsOpen
    /\ LiveRunNotSwept

-----------------------------------------------------------------------------
(* What the statements on ingestion_runs do to its rows.                   *)

\* An UPDATE of the status of one row leaves everything else alone.
LEMMA SetStatusRows ==
    ASSUME TypeOK, NEW i \in 1..Len(rows), NEW s \in Statuses, SetStatus(i, s)
    PROVE  /\ rows' \in Seq(RunRows)
           /\ Len(rows') = Len(rows)
           /\ \A j \in 1..Len(rows) :
                 /\ rows'[j].by = rows[j].by
                 /\ rows'[j].status = IF j = i THEN s ELSE rows[j].status
<1> DEFINE new == [rows[i] EXCEPT !.status = s]
<1>1. rows \in Seq(RunRows)
  BY DEF TypeOK
<1>2. rows[i] \in RunRows
  BY <1>1, ElementOfSeq
<1>3. new \in RunRows /\ new.by = rows[i].by /\ new.status = s
  BY <1>2 DEF RunRows
<1>4. rows' = [rows EXCEPT ![i] = new]
  BY DEF SetStatus
<1> HIDE DEF new
<1> QED BY <1>1, <1>3, <1>4, ExceptSeq

\* A function on the row numbers that keeps every row's type, number and owner.
LEMMA RowsRewritten ==
    ASSUME TypeOK, NEW f, rows' = f,
           f \in [1..Len(rows) -> RunRows]
    PROVE  rows' \in Seq(RunRows) /\ Len(rows') = Len(rows)
<1>1. Len(rows) \in Nat
  BY DEF TypeOK
<1> QED BY <1>1, SeqDef

\* The sweep only closes running rows.
LEMMA SweepRows ==
    ASSUME TypeOK, NEW w \in Workers, Sweep(w)
    PROVE  /\ rows' \in Seq(RunRows)
           /\ Len(rows') = Len(rows)
           /\ \A j \in 1..Len(rows) :
                 /\ rows'[j].by = rows[j].by
                 /\ \/ rows'[j].status = rows[j].status
                    \/ /\ rows[j].status = "running"
                       /\ rows'[j].status = "interrupted"
<1>1. DOMAIN rows = 1..Len(rows) /\ \A j \in 1..Len(rows) : rows[j] \in RunRows
  BY ElementOfSeq, LenProperties DEF TypeOK
<1>2. rows' = [j \in 1..Len(rows) |->
                 IF rows[j].status = "running" /\ rows[j].old
                 THEN [rows[j] EXCEPT !.status = "interrupted"] ELSE rows[j]]
  BY <1>1 DEF Sweep
<1>3. \A j \in 1..Len(rows) : [rows[j] EXCEPT !.status = "interrupted"] \in RunRows
  BY <1>1 DEF RunRows, Statuses
<1>4. rows' \in [1..Len(rows) -> RunRows]
  BY <1>1, <1>2, <1>3
<1>5. rows' \in Seq(RunRows) /\ Len(rows') = Len(rows)
  BY <1>4, RowsRewritten
<1>6. ASSUME NEW j \in 1..Len(rows)
      PROVE  /\ rows'[j].by = rows[j].by
             /\ \/ rows'[j].status = rows[j].status
                \/ /\ rows[j].status = "running"
                   /\ rows'[j].status = "interrupted"
  BY <1>1, <1>2 DEF RunRows
<1> QED BY <1>5, <1>6

\* Ageing changes no status.
LEMMA AgeRows ==
    ASSUME TypeOK, TimePasses
    PROVE  /\ rows' \in Seq(RunRows)
           /\ Len(rows') = Len(rows)
           /\ \A j \in 1..Len(rows) :
                 rows'[j].by = rows[j].by /\ rows'[j].status = rows[j].status
<1>1. DOMAIN rows = 1..Len(rows) /\ rows \in Seq(RunRows)
  BY LenProperties DEF TypeOK
<1>2. PICK i \in 1..Len(rows) : rows' = [rows EXCEPT ![i].old = TRUE]
  BY <1>1 DEF TimePasses, Age
<1> DEFINE new == [rows[i] EXCEPT !.old = TRUE]
<1>3. rows[i] \in RunRows
  BY <1>1, ElementOfSeq
<1>4. new \in RunRows /\ new.by = rows[i].by /\ new.status = rows[i].status
  BY <1>3 DEF RunRows
<1>5. rows' = [rows EXCEPT ![i] = new]
  BY <1>2
<1> HIDE DEF new
<1> QED BY <1>1, <1>4, <1>5, ExceptSeq

\* start_ingestion_run adds a running row of its own after the others.
LEMMA RegisterRows ==
    ASSUME TypeOK, NEW w \in Workers, AddRow(w)
    PROVE  /\ rows' \in Seq(RunRows)
           /\ Len(rows') = Len(rows) + 1
           /\ \A j \in 1..Len(rows) : rows'[j] = rows[j]
           /\ rows'[Len(rows) + 1].by = w
           /\ rows'[Len(rows) + 1].status = "running"
<1> DEFINE new == [status |-> "running", old |-> FALSE, by |-> w]
<1>1. rows \in Seq(RunRows) /\ rows' = Append(rows, new)
  BY DEF TypeOK, AddRow
<1>2. new \in RunRows /\ new.by = w /\ new.status = "running"
  BY DEF RunRows, Statuses
<1> HIDE DEF new
<1> QED BY <1>1, <1>2, AppendProperties

-----------------------------------------------------------------------------
(* Every step keeps the invariant.                                         *)

\* The steps that leave ingestion_runs alone: locking, working, stopping,
\* crashing, restarting and losing the lock session.
LEMMA QuietStepKeepsIInv ==
    ASSUME IInv, NEW w \in Workers, UNCHANGED rows,
           \/ TryLock(w) \/ Fetch(w) \/ Index(w) \/ CycleError(w) \/ Unlock(w)
           \/ RecordFailureError(w) \/ Signal(w)
           \/ LeaveLoop(w) \/ Crash(w) \/ Restart(w) \/ SessionLost(w)
    PROVE  IInv'
<1> USE DEF IInv, InCycle, Recording, Outside
<1>0. Len(rows) \in Nat /\ UNCHANGED Len(rows)
  BY LenProperties DEF TypeOK
<1>1. CASE TryLock(w)
  <2>1. TypeOK'
    BY <1>0, <1>1
    DEF TryLock, Goto, NoFault, TypeOK
  <2>2. LockProtects' /\ LossIsRecorded'
    BY <1>1, WorkersAssumption
    DEF TryLock, Goto, NoFault, TypeOK, LockProtects, LossIsRecorded
  <2>3. NoRunBeforeRegister' /\ RunAfterRegister' /\ OwnRunIsOpen'
    BY <1>1
    DEF TryLock, Goto, NoFault, TypeOK, NoRunBeforeRegister, RunAfterRegister,
        OwnRunIsOpen
  <2>4. LiveRunNotSwept'
    BY <1>1
    DEF TryLock, Goto, NoFault, TypeOK, NoRunBeforeRegister, LiveRunNotSwept
  <2> QED BY <2>1, <2>2, <2>3, <2>4
<1>2. CASE Fetch(w)
  <2>1. TypeOK'
    BY <1>0, <1>2
    DEF Fetch, Goto, NoFault, TypeOK
  <2>2. LockProtects' /\ LossIsRecorded'
    BY <1>2
    DEF Fetch, Goto, NoFault, TypeOK, LockProtects, LossIsRecorded
  <2>3. NoRunBeforeRegister' /\ RunAfterRegister' /\ OwnRunIsOpen'
    BY <1>2
    DEF Fetch, Goto, NoFault, TypeOK, NoRunBeforeRegister, RunAfterRegister,
        OwnRunIsOpen
  <2>4. LiveRunNotSwept'
    BY <1>2
    DEF Fetch, Goto, NoFault, TypeOK, NoRunBeforeRegister, LiveRunNotSwept
  <2> QED BY <2>1, <2>2, <2>3, <2>4
<1>3. CASE Index(w)
  <2>1. TypeOK'
    BY <1>0, <1>3
    DEF Index, Goto, NoFault, TypeOK, Outcomes
  <2>2. LockProtects' /\ LossIsRecorded'
    BY <1>3
    DEF Index, Goto, NoFault, TypeOK, LockProtects, LossIsRecorded
  <2>3. NoRunBeforeRegister' /\ RunAfterRegister' /\ OwnRunIsOpen'
    BY <1>3
    DEF Index, Goto, NoFault, TypeOK, NoRunBeforeRegister, RunAfterRegister,
        OwnRunIsOpen
  <2>4. LiveRunNotSwept'
    BY <1>3
    DEF Index, Goto, NoFault, TypeOK, NoRunBeforeRegister, LiveRunNotSwept
  <2> QED BY <2>1, <2>2, <2>3, <2>4
<1>4. CASE CycleError(w)
  <2>1. TypeOK'
    BY <1>0, <1>4
    DEF CycleError, Goto, NoFault, Fault, CountFault, TypeOK
  <2>2. LockProtects' /\ LossIsRecorded'
    BY <1>4
    DEF CycleError, Goto, NoFault, Fault, CountFault, TypeOK, LockProtects,
        LossIsRecorded
  <2>3. NoRunBeforeRegister' /\ RunAfterRegister' /\ OwnRunIsOpen'
    BY <1>4
    DEF CycleError, Goto, NoFault, Fault, CountFault, TypeOK,
        NoRunBeforeRegister, RunAfterRegister, OwnRunIsOpen
  <2>4. LiveRunNotSwept'
    BY <1>4
    DEF CycleError, Goto, NoFault, Fault, CountFault, TypeOK,
        NoRunBeforeRegister, LiveRunNotSwept
  <2> QED BY <2>1, <2>2, <2>3, <2>4
<1>5. CASE Unlock(w)
  <2>1. TypeOK'
    BY <1>0, <1>5
    DEF Unlock, Goto, NoFault, TypeOK
  <2>2. LockProtects' /\ LossIsRecorded'
    BY <1>5, WorkersAssumption
    DEF Unlock, Goto, NoFault, TypeOK, LockProtects, LossIsRecorded
  <2>3. NoRunBeforeRegister' /\ RunAfterRegister' /\ OwnRunIsOpen'
    BY <1>5
    DEF Unlock, Goto, NoFault, TypeOK, NoRunBeforeRegister, RunAfterRegister,
        OwnRunIsOpen
  <2>4. LiveRunNotSwept'
    BY <1>5
    DEF Unlock, Goto, NoFault, TypeOK, NoRunBeforeRegister, LiveRunNotSwept
  <2> QED BY <2>1, <2>2, <2>3, <2>4
<1>6. CASE RecordFailureError(w)
  <2>1. TypeOK'
    BY <1>0, <1>6
    DEF RecordFailureError, Reset, Goto, Fault, CountFault, TypeOK, Outcomes
  <2>2. LockProtects' /\ LossIsRecorded'
    BY <1>6
    DEF RecordFailureError, Reset, Goto, Fault, CountFault, TypeOK,
        LockProtects, LossIsRecorded
  <2>3. NoRunBeforeRegister' /\ RunAfterRegister' /\ OwnRunIsOpen'
    BY <1>6
    DEF RecordFailureError, Reset, Goto, Fault, CountFault, TypeOK,
        NoRunBeforeRegister, RunAfterRegister, OwnRunIsOpen
  <2>4. LiveRunNotSwept'
    BY <1>6
    DEF RecordFailureError, Reset, Goto, Fault, CountFault, TypeOK,
        NoRunBeforeRegister, LiveRunNotSwept
  <2> QED BY <2>1, <2>2, <2>3, <2>4
<1>7. CASE Signal(w)
  <2>1. TypeOK'
    BY <1>0, <1>7
    DEF Signal, local, Fault, CountFault, TypeOK
  <2>2. LockProtects' /\ LossIsRecorded'
    BY <1>7
    DEF Signal, local, Fault, CountFault, TypeOK, LockProtects, LossIsRecorded
  <2>3. NoRunBeforeRegister' /\ RunAfterRegister' /\ OwnRunIsOpen'
    BY <1>7
    DEF Signal, local, Fault, CountFault, TypeOK, NoRunBeforeRegister,
        RunAfterRegister, OwnRunIsOpen
  <2>4. LiveRunNotSwept'
    BY <1>7
    DEF Signal, local, Fault, CountFault, TypeOK, NoRunBeforeRegister,
        LiveRunNotSwept
  <2> QED BY <2>1, <2>2, <2>3, <2>4
<1>8. CASE LeaveLoop(w)
  <2>1. TypeOK'
    BY <1>0, <1>8
    DEF LeaveLoop, Reset, Goto, NoFault, TypeOK, Outcomes
  <2>2. LockProtects' /\ LossIsRecorded'
    BY <1>8
    DEF LeaveLoop, Reset, Goto, NoFault, TypeOK, LockProtects, LossIsRecorded
  <2>3. NoRunBeforeRegister' /\ RunAfterRegister' /\ OwnRunIsOpen'
    BY <1>8
    DEF LeaveLoop, Reset, Goto, NoFault, TypeOK, NoRunBeforeRegister,
        RunAfterRegister, OwnRunIsOpen
  <2>4. LiveRunNotSwept'
    BY <1>8
    DEF LeaveLoop, Reset, Goto, NoFault, TypeOK, NoRunBeforeRegister,
        LiveRunNotSwept
  <2> QED BY <2>1, <2>2, <2>3, <2>4
<1>9. CASE Crash(w)
  <2>1. TypeOK'
    BY <1>0, <1>9
    DEF Crash, Reset, Goto, Fault, CountFault, TypeOK, Outcomes
  <2>2. LockProtects' /\ LossIsRecorded'
    BY <1>9, WorkersAssumption
    DEF Crash, Reset, Goto, Fault, CountFault, TypeOK, LockProtects,
        LossIsRecorded
  <2>3. NoRunBeforeRegister' /\ RunAfterRegister' /\ OwnRunIsOpen'
    BY <1>9
    DEF Crash, Reset, Goto, Fault, CountFault, TypeOK, NoRunBeforeRegister,
        RunAfterRegister, OwnRunIsOpen
  <2>4. LiveRunNotSwept'
    BY <1>9
    DEF Crash, Reset, Goto, Fault, CountFault, TypeOK, NoRunBeforeRegister,
        LiveRunNotSwept
  <2> QED BY <2>1, <2>2, <2>3, <2>4
<1>10. CASE Restart(w)
  <2>1. TypeOK'
    BY <1>0, <1>10
    DEF Restart, Goto, NoFault, TypeOK
  <2>2. LockProtects' /\ LossIsRecorded'
    BY <1>10
    DEF Restart, Goto, NoFault, TypeOK, LockProtects, LossIsRecorded
  <2>3. NoRunBeforeRegister' /\ RunAfterRegister' /\ OwnRunIsOpen'
    BY <1>10
    DEF Restart, Goto, NoFault, TypeOK, NoRunBeforeRegister, RunAfterRegister,
        OwnRunIsOpen
  <2>4. LiveRunNotSwept'
    BY <1>10
    DEF Restart, Goto, NoFault, TypeOK, NoRunBeforeRegister, LiveRunNotSwept
  <2> QED BY <2>1, <2>2, <2>3, <2>4
<1>11. CASE SessionLost(w)
  <2>1. TypeOK'
    BY <1>0, <1>11
    DEF SessionLost, CountFault, TypeOK
  <2>2. LockProtects' /\ LossIsRecorded'
    BY <1>11, WorkersAssumption
    DEF SessionLost, CountFault, TypeOK, LockProtects, LossIsRecorded
  <2>3. NoRunBeforeRegister' /\ RunAfterRegister' /\ OwnRunIsOpen'
    BY <1>11
    DEF SessionLost, CountFault, TypeOK, NoRunBeforeRegister, RunAfterRegister,
        OwnRunIsOpen
  <2>4. LiveRunNotSwept'
    BY <1>11
    DEF SessionLost, CountFault, TypeOK, NoRunBeforeRegister, LiveRunNotSwept
  <2> QED BY <2>1, <2>2, <2>3, <2>4
<1> QED BY <1>1, <1>2, <1>3, <1>4, <1>5, <1>6, <1>7, <1>8, <1>9, <1>10, <1>11

\* Two workers in their cycles, with their sessions alive, are one.
LEMMA OneHolder ==
    ASSUME LockProtects, NEW v \in Workers, NEW w \in Workers,
           pc[v] \in InCycle, pc[w] \in InCycle, ~lost[v], ~lost[w]
    PROVE  v = w
BY DEF LockProtects

\* A sweep closes no run of a worker in its cycle: that worker would be the
\* sweeper itself, which has no run yet, or a session has been lost.
LEMMA SweepKeepsIInv ==
    ASSUME IInv, NEW w \in Workers, Sweep(w)
    PROVE  IInv'
<1> USE DEF IInv
<1>0. /\ pc[w] = "sweep" /\ run[w] = 0
      /\ pc' = [pc EXCEPT ![w] = "register"]
      /\ UNCHANGED <<run, status, lost, stop, lock, faults, anyLost>>
  BY DEF Sweep, Goto, NoFault, NoRunBeforeRegister
<1>r. /\ rows' \in Seq(RunRows)
      /\ Len(rows') = Len(rows)
      /\ \A j \in 1..Len(rows) :
            /\ rows'[j].by = rows[j].by
            /\ \/ rows'[j].status = rows[j].status
               \/ /\ rows[j].status = "running"
                  /\ rows'[j].status = "interrupted"
  BY SweepRows
<1>1. TypeOK'
  BY <1>0, <1>r DEF TypeOK, InCycle
<1>2. LockProtects' /\ LossIsRecorded'
  BY <1>0 DEF TypeOK, LockProtects, LossIsRecorded, InCycle
<1>3. NoRunBeforeRegister' /\ RunAfterRegister'
  BY <1>0 DEF TypeOK, NoRunBeforeRegister, RunAfterRegister, Outside
<1>4. OwnRunIsOpen'
  <2> SUFFICES ASSUME NEW v \in Workers, run[v] # 0
               PROVE  /\ rows'[run[v]].by = v
                      /\ \/ rows'[run[v]].status \in {"running", "interrupted"}
                         \/ pc'[v] = "recordFailed"
    BY <1>0 DEF OwnRunIsOpen
  <2>1. run[v] \in 1..Len(rows)
    BY LenProperties DEF TypeOK
  <2>2. pc[v] = "recordFailed" => pc'[v] = "recordFailed"
    BY <1>0 DEF TypeOK
  <2> QED BY <1>r, <2>1, <2>2 DEF OwnRunIsOpen
<1>5. LiveRunNotSwept'
  <2> SUFFICES ASSUME ~anyLost, NEW v \in Workers, pc'[v] \in InCycle, run[v] # 0
               PROVE  FALSE
    BY <1>0 DEF LiveRunNotSwept
  <2>1. v # w /\ pc[v] \in InCycle
    BY <1>0 DEF TypeOK
  <2>2. ~lost[v] /\ ~lost[w]
    BY DEF LossIsRecorded
  <2> QED BY <1>0, <2>1, <2>2, OneHolder DEF InCycle
<1> QED BY <1>1, <1>2, <1>3, <1>4, <1>5

\* A registered run is running, is the worker's own, and has a new number.
LEMMA RegisterKeepsIInv ==
    ASSUME IInv, NEW w \in Workers, Register(w)
    PROVE  IInv'
<1> USE DEF IInv
<1>0. /\ pc[w] = "register"
      /\ pc' = [pc EXCEPT ![w] = "fetch"]
      /\ run' = [run EXCEPT ![w] = Len(rows) + 1]
      /\ UNCHANGED <<status, lost, stop, lock, faults, anyLost>>
  BY DEF Register, AddRow, Goto, NoFault
<1>r. /\ rows' \in Seq(RunRows)
      /\ Len(rows') = Len(rows) + 1
      /\ \A j \in 1..Len(rows) : rows'[j] = rows[j]
      /\ rows'[Len(rows) + 1].by = w
      /\ rows'[Len(rows) + 1].status = "running"
  BY RegisterRows DEF Register
<1>l. Len(rows) \in Nat
  BY LenProperties DEF TypeOK
<1>1. TypeOK'
  <2>1. run' \in [Workers -> 0..Len(rows')]
    BY <1>0, <1>r, <1>l DEF TypeOK
  <2> QED BY <1>0, <1>r, <2>1 DEF TypeOK, InCycle
<1>2. LockProtects' /\ LossIsRecorded'
  BY <1>0 DEF TypeOK, LockProtects, LossIsRecorded, InCycle
<1>3. NoRunBeforeRegister' /\ RunAfterRegister'
  BY <1>0, <1>l DEF TypeOK, NoRunBeforeRegister, RunAfterRegister, Outside
<1>v. ASSUME NEW v \in Workers, run'[v] # 0
      PROVE  \/ v = w /\ run'[v] = Len(rows) + 1
             \/ /\ v # w /\ run'[v] = run[v] /\ pc'[v] = pc[v]
                /\ run[v] \in 1..Len(rows)
  BY <1>0, <1>l, <1>v DEF TypeOK
<1>4. OwnRunIsOpen'
  BY <1>r, <1>v DEF OwnRunIsOpen
<1>5. LiveRunNotSwept'
  BY <1>0, <1>r, <1>v DEF LiveRunNotSwept
<1> QED BY <1>1, <1>2, <1>3, <1>4, <1>5

\* A run whose number did not arrive is nobody's.
LEMMA RegisterUnseenKeepsIInv ==
    ASSUME IInv, NEW w \in Workers, RegisterUnseen(w)
    PROVE  IInv'
<1> USE DEF IInv
<1>0. /\ pc[w] = "register"
      /\ pc' = [pc EXCEPT ![w] = "unlockRaising"]
      /\ UNCHANGED <<run, status, lost, stop, lock, anyLost>>
      /\ faults' = faults + 1
  BY DEF RegisterUnseen, AddRow, Goto, Fault, CountFault
<1>r. /\ rows' \in Seq(RunRows)
      /\ Len(rows') = Len(rows) + 1
      /\ \A j \in 1..Len(rows) : rows'[j] = rows[j]
  BY RegisterRows DEF RegisterUnseen
<1>l. Len(rows) \in Nat
  BY LenProperties DEF TypeOK
<1>1. TypeOK'
  <2>1. run' \in [Workers -> 0..Len(rows')]
    BY <1>0, <1>r, <1>l DEF TypeOK
  <2> QED BY <1>0, <1>r, <2>1 DEF TypeOK, InCycle
<1>2. LockProtects' /\ LossIsRecorded'
  BY <1>0 DEF TypeOK, LockProtects, LossIsRecorded, InCycle
<1>3. NoRunBeforeRegister' /\ RunAfterRegister'
  BY <1>0 DEF TypeOK, NoRunBeforeRegister, RunAfterRegister, Outside
<1>v. ASSUME NEW v \in Workers, run[v] # 0
      PROVE  v # w /\ pc'[v] = pc[v] /\ run[v] \in 1..Len(rows)
  BY <1>0, <1>l, <1>v DEF TypeOK, NoRunBeforeRegister
<1>4. OwnRunIsOpen'
  BY <1>0, <1>r, <1>v DEF OwnRunIsOpen
<1>5. LiveRunNotSwept'
  BY <1>0, <1>r, <1>v DEF LiveRunNotSwept
<1> QED BY <1>1, <1>2, <1>3, <1>4, <1>5

\* A record that raises leaves its worker at the handler, and touches at most
\* the worker's own row.
LEMMA RecordErrorKeepsIInv ==
    ASSUME IInv, NEW w \in Workers, RecordError(w)
    PROVE  IInv'
<1> USE DEF IInv
<1>0. /\ pc[w] = "record" /\ run[w] # 0
      /\ pc' = [pc EXCEPT ![w] = "recordFailed"]
      /\ UNCHANGED <<run, status, lost, stop, lock, anyLost>>
      /\ faults' = faults + 1
  BY DEF RecordError, Goto, Fault, CountFault, RunAfterRegister
<1>l. Len(rows) \in Nat /\ \A v \in Workers : run[v] \in 0..Len(rows)
  BY LenProperties DEF TypeOK
<1>r. /\ rows' \in Seq(RunRows)
      /\ Len(rows') = Len(rows)
      /\ \A j \in 1..Len(rows) :
            /\ rows'[j].by = rows[j].by
            /\ j # run[w] => rows'[j].status = rows[j].status
  <2>1. CASE UNCHANGED rows
    BY <2>1 DEF TypeOK
  <2>2. CASE SetStatus(run[w], status[w])
    <3>1. run[w] \in 1..Len(rows) /\ status[w] \in Statuses
      BY <1>0, <1>l DEF TypeOK, Statuses
    <3> QED BY <2>2, <3>1, SetStatusRows
  <2> QED BY <2>1, <2>2 DEF RecordError
<1>1. TypeOK'
  BY <1>0, <1>r DEF TypeOK, Recording
<1>2. LockProtects' /\ LossIsRecorded'
  BY <1>0 DEF TypeOK, LockProtects, LossIsRecorded, InCycle
<1>3. NoRunBeforeRegister' /\ RunAfterRegister'
  BY <1>0 DEF TypeOK, NoRunBeforeRegister, RunAfterRegister, Outside
<1>v. ASSUME NEW v \in Workers, v # w, run[v] # 0
      PROVE  /\ pc'[v] = pc[v] /\ run[v] \in 1..Len(rows) /\ run[v] # run[w]
  BY <1>0, <1>l, <1>v DEF TypeOK, OwnRunIsOpen
<1>4. OwnRunIsOpen'
  <2> SUFFICES ASSUME NEW v \in Workers, run[v] # 0
               PROVE  /\ rows'[run[v]].by = v
                      /\ \/ rows'[run[v]].status \in {"running", "interrupted"}
                         \/ pc'[v] = "recordFailed"
    BY <1>0 DEF OwnRunIsOpen
  <2>1. CASE v = w
    BY <1>0, <1>r, <1>l, <2>1 DEF TypeOK, OwnRunIsOpen
  <2>2. CASE v # w
    BY <1>r, <1>v, <2>2 DEF OwnRunIsOpen
  <2> QED BY <2>1, <2>2
<1>5. LiveRunNotSwept'
  <2> SUFFICES ASSUME ~anyLost, NEW v \in Workers, pc'[v] \in InCycle, run[v] # 0
               PROVE  rows'[run[v]].status = "running"
    BY <1>0 DEF LiveRunNotSwept
  <2>1. v # w
    BY <1>0 DEF TypeOK, InCycle
  <2> QED BY <1>r, <1>v, <2>1 DEF LiveRunNotSwept
<1> QED BY <1>1, <1>2, <1>3, <1>4, <1>5

\* A worker that records its outcome writes its own row and no other worker's.
LEMMA CloseKeepsIInv ==
    ASSUME IInv, NEW w \in Workers, NEW s \in Statuses,
           pc[w] \in Recording, run[w] # 0, SetStatus(run[w], s),
           Reset(w, "idle"), UNCHANGED <<stop, lock>>, NoFault
    PROVE  IInv'
<1> USE DEF IInv
<1>0. /\ pc' = [pc EXCEPT ![w] = "idle"]
      /\ run' = [run EXCEPT ![w] = 0]
      /\ status' = [status EXCEPT ![w] = "failed"]
      /\ lost' = [lost EXCEPT ![w] = FALSE]
      /\ UNCHANGED <<stop, lock, faults, anyLost>>
  BY DEF Reset, Goto, NoFault
<1>l. Len(rows) \in Nat /\ \A v \in Workers : run[v] \in 0..Len(rows)
  BY LenProperties DEF TypeOK
<1>r. /\ rows' \in Seq(RunRows)
      /\ Len(rows') = Len(rows)
      /\ \A j \in 1..Len(rows) :
            /\ rows'[j].by = rows[j].by
            /\ rows'[j].status = IF j = run[w] THEN s ELSE rows[j].status
  BY <1>l, SetStatusRows
<1>1. TypeOK'
  BY <1>0, <1>r, <1>l DEF TypeOK, Outside, Outcomes
<1>2. LockProtects' /\ LossIsRecorded'
  BY <1>0 DEF TypeOK, LockProtects, LossIsRecorded, InCycle
<1>3. NoRunBeforeRegister' /\ RunAfterRegister'
  BY <1>0 DEF TypeOK, NoRunBeforeRegister, RunAfterRegister, Outside
<1>v. ASSUME NEW v \in Workers, run'[v] # 0
      PROVE  /\ v # w /\ run'[v] = run[v] /\ pc'[v] = pc[v]
             /\ run[v] \in 1..Len(rows) /\ run[v] # run[w]
  <2>1. v # w /\ run'[v] = run[v] /\ pc'[v] = pc[v]
    BY <1>0, <1>v DEF TypeOK
  <2>2. run[v] # run[w]
    BY <1>v, <2>1 DEF OwnRunIsOpen
  <2> QED BY <1>l, <1>v, <2>1, <2>2
<1>4. OwnRunIsOpen'
  BY <1>r, <1>v DEF OwnRunIsOpen
<1>5. LiveRunNotSwept'
  BY <1>0, <1>r, <1>v DEF LiveRunNotSwept
<1> QED BY <1>1, <1>2, <1>3, <1>4, <1>5

\* finish_ingestion_run.
LEMMA RecordKeepsIInv ==
    ASSUME IInv, NEW w \in Workers, Record(w)
    PROVE  IInv'
<1>1. pc[w] \in Recording /\ run[w] # 0 /\ status[w] \in Statuses
  BY DEF Record, Recording, IInv, RunAfterRegister, TypeOK, Statuses
<1> QED BY <1>1, CloseKeepsIInv DEF Record

\* The exception handler.
LEMMA RecordFailureKeepsIInv ==
    ASSUME IInv, NEW w \in Workers, RecordFailure(w)
    PROVE  IInv'
<1>1. CASE run[w] = 0
  <2> USE <1>1 DEF IInv, RecordFailure, Reset, Goto, NoFault
  <2>1. TypeOK'
    <3>1. Len(rows) \in Nat /\ UNCHANGED Len(rows)
      BY LenProperties DEF TypeOK
    <3> QED BY <3>1 DEF TypeOK, Outside, Outcomes
  <2>2. LockProtects' /\ LossIsRecorded'
    BY DEF TypeOK, LockProtects, LossIsRecorded, InCycle
  <2>3. NoRunBeforeRegister' /\ RunAfterRegister' /\ OwnRunIsOpen'
    BY DEF TypeOK, NoRunBeforeRegister, RunAfterRegister, OwnRunIsOpen, Outside
  <2>4. LiveRunNotSwept'
    BY DEF TypeOK, LiveRunNotSwept, InCycle
  <2> QED BY <2>1, <2>2, <2>3, <2>4
<1>2. CASE run[w] # 0
  BY <1>2, CloseKeepsIInv DEF RecordFailure, Recording, Statuses, Outcomes
<1> QED BY <1>1, <1>2

\* Ageing touches only the age of a row.
LEMMA AgeKeepsIInv ==
    ASSUME IInv, TimePasses
    PROVE  IInv'
<1> USE DEF IInv
<1>0. UNCHANGED <<pc, run, status, lost, stop, lock, faults, anyLost>>
  BY DEF TimePasses, Age, local, NoFault
<1>r. /\ rows' \in Seq(RunRows)
      /\ Len(rows') = Len(rows)
      /\ \A j \in 1..Len(rows) :
            rows'[j].by = rows[j].by /\ rows'[j].status = rows[j].status
  BY AgeRows
<1>l. Len(rows) \in Nat /\ \A v \in Workers : run[v] \in 0..Len(rows)
  BY LenProperties DEF TypeOK
<1>1. TypeOK'
  BY <1>0, <1>r DEF TypeOK
<1>2. /\ LockProtects' /\ LossIsRecorded'
      /\ NoRunBeforeRegister' /\ RunAfterRegister'
  BY <1>0 DEF LockProtects, LossIsRecorded, NoRunBeforeRegister, RunAfterRegister
<1>3. OwnRunIsOpen' /\ LiveRunNotSwept'
  BY <1>0, <1>r, <1>l DEF OwnRunIsOpen, LiveRunNotSwept
<1> QED BY <1>1, <1>2, <1>3

\* A fresh set of workers over an empty table satisfies the invariant.
LEMMA InitIInv == Init => IInv
<1> SUFFICES ASSUME Init PROVE IInv
  OBVIOUS
<1> USE DEF Init
<1>1. TypeOK
  <2>1. rows \in Seq(RunRows) /\ Len(rows) = 0
    BY EmptySeq
  <2>2. run \in [Workers -> 0..Len(rows)]
    BY <2>1
  <2>3. faults \in Nat /\ anyLost \in BOOLEAN
    OBVIOUS
  <2> QED BY <2>1, <2>2, <2>3 DEF TypeOK, Outside, Outcomes
<1>2. /\ LockProtects /\ LossIsRecorded /\ NoRunBeforeRegister
      /\ RunAfterRegister /\ OwnRunIsOpen /\ LiveRunNotSwept
  BY DEF LockProtects, LossIsRecorded, NoRunBeforeRegister, RunAfterRegister,
         OwnRunIsOpen, LiveRunNotSwept, InCycle
<1> QED BY <1>1, <1>2 DEF IInv

\* Every step of a worker, of the database and of time keeps the invariant.
LEMMA NextIInv == IInv /\ [Next]_vars => IInv'
<1> SUFFICES ASSUME IInv, [Next]_vars PROVE IInv'
  OBVIOUS
<1>1. ASSUME NEW w \in Workers, Sweep(w) PROVE IInv'
  BY <1>1, SweepKeepsIInv
<1>2. ASSUME NEW w \in Workers, Register(w) PROVE IInv'
  BY <1>2, RegisterKeepsIInv
<1>3. ASSUME NEW w \in Workers, Record(w) PROVE IInv'
  BY <1>3, RecordKeepsIInv
<1>4. ASSUME NEW w \in Workers, RecordFailure(w) PROVE IInv'
  BY <1>4, RecordFailureKeepsIInv
<1>5. CASE TimePasses
  BY <1>5, AgeKeepsIInv
<1>6. ASSUME NEW w \in Workers,
             \/ TryLock(w) \/ Fetch(w) \/ Index(w) \/ CycleError(w) \/ Unlock(w)
             \/ RecordFailureError(w) \/ Signal(w)
             \/ LeaveLoop(w) \/ Crash(w) \/ Restart(w) \/ SessionLost(w)
      PROVE  IInv'
  <2>1. UNCHANGED rows
    BY <1>6 DEF TryLock, Fetch, Index, CycleError, Unlock,
                RecordFailureError, Signal, LeaveLoop, Crash, Restart, SessionLost
  <2> QED BY <1>6, <2>1, QuietStepKeepsIInv
<1>7. CASE UNCHANGED vars
  BY <1>7 DEF vars, local, IInv, TypeOK, LockProtects, LossIsRecorded,
              NoRunBeforeRegister, RunAfterRegister, OwnRunIsOpen,
              LiveRunNotSwept
<1>8. ASSUME NEW w \in Workers, RegisterUnseen(w) PROVE IInv'
  BY <1>8, RegisterUnseenKeepsIInv
<1>9. ASSUME NEW w \in Workers, RecordError(w) PROVE IInv'
  BY <1>9, RecordErrorKeepsIInv
<1> QED BY <1>1, <1>2, <1>3, <1>4, <1>5, <1>6, <1>7, <1>8, <1>9 DEF Next, RunOnce

\* The inductive invariant holds of every behaviour.
LEMMA Invariance == Spec => []IInv
BY InitIInv, NextIInv, PTL DEF Spec

-----------------------------------------------------------------------------
(* The theorems.                                                           *)

\* The workers' locals and the rows keep their types.
THEOREM TypeCorrect == Spec => []TypeOK
<1>1. IInv => TypeOK
  BY DEF IInv
<1> QED BY <1>1, Invariance, PTL

\* Any number of workers: two are in their cycles at once only if one has lost
\* the session of the advisory lock.
THEOREM LockExcludes == Spec => []CyclesExclusive
<1>1. IInv => CyclesExclusive
  BY DEF IInv, LockProtects, CyclesExclusive
<1> QED BY <1>1, Invariance, PTL

\* While every lock session lives, no sweep closes a run in progress, however
\* many workers and runs there are and however old the run is.
THEOREM SweepSparesLiveRuns == Spec => []LiveRunNotSwept
<1>1. IInv => LiveRunNotSwept
  BY DEF IInv
<1> QED BY <1>1, Invariance, PTL

\* A worker that writes a closed row writes its own.
LEMMA CloseRewritesOwnRow ==
    ASSUME IInv, NEW w \in Workers, NEW s \in Statuses,
           SetStatus(run[w], s), run[w] # 0,
           \/ pc[w] = "record"
           \/ pc[w] = "recordFailed" /\ s = "failed",
           NEW i \in DOMAIN rows,
           rows[i].status # "running", rows'[i].status # rows[i].status
    PROVE  RewritesOwnRow(i)
<1>0. TypeOK /\ run[w] \in 1..Len(rows) /\ i \in 1..Len(rows)
  BY LenProperties DEF IInv, TypeOK
<1>1. i = run[w] /\ rows'[i].status = s
  BY <1>0, SetStatusRows
<1>2. rows[i].by = w
  BY <1>1 DEF IInv, OwnRunIsOpen
<1>3. rows[i].status = "interrupted" \/ pc[w] = "recordFailed"
  BY <1>1 DEF IInv, OwnRunIsOpen
<1> QED BY <1>1, <1>2, <1>3 DEF RewritesOwnRow, Recording

\* Every rewrite of a closed row of ingestion_runs is by the worker that
\* started it and is still recording it: over a sweep's verdict, or to mark as
\* failed a run whose record it takes for lost (refresh.py:149-161).
THEOREM ClosedRunsStayClosed == Spec => ClosedRunKeepsItsOutcome
<1> DEFINE Step ==
        \A i \in DOMAIN rows :
            (rows[i].status # "running" /\ rows'[i].status # rows[i].status) =>
                RewritesOwnRow(i)
<1>1. IInv /\ [Next]_vars => [Step]_vars
  <2> SUFFICES ASSUME IInv, Next, NEW i \in DOMAIN rows,
                      rows[i].status # "running",
                      rows'[i].status # rows[i].status
               PROVE  RewritesOwnRow(i)
    OBVIOUS
  <2>0. TypeOK /\ i \in 1..Len(rows)
    BY LenProperties DEF IInv, TypeOK
  <2>1. ASSUME NEW w \in Workers, Sweep(w) PROVE FALSE
    BY <2>0, <2>1, SweepRows
  <2>2. ASSUME NEW w \in Workers, Register(w) \/ RegisterUnseen(w) PROVE FALSE
    BY <2>0, <2>2, RegisterRows DEF Register, RegisterUnseen
  <2>3. CASE TimePasses
    BY <2>0, <2>3, AgeRows
  <2>4. ASSUME NEW w \in Workers, Record(w) \/ RecordError(w)
        PROVE  RewritesOwnRow(i)
    <3>1. pc[w] = "record" /\ run[w] # 0 /\ status[w] \in Statuses
      BY <2>4 DEF Record, RecordError, IInv, RunAfterRegister, TypeOK, Statuses
    <3>2. SetStatus(run[w], status[w])
      BY <2>4 DEF Record, RecordError
    <3> QED BY <3>1, <3>2, CloseRewritesOwnRow
  <2>5. ASSUME NEW w \in Workers, RecordFailure(w)
        PROVE  RewritesOwnRow(i)
    <3>1. run[w] # 0 /\ SetStatus(run[w], "failed") /\ pc[w] = "recordFailed"
      BY <2>5 DEF RecordFailure
    <3>2. "failed" \in Statuses
      BY DEF Statuses, Outcomes
    <3> QED BY <3>1, <3>2, CloseRewritesOwnRow
  <2>6. ASSUME NEW w \in Workers,
               \/ TryLock(w) \/ Fetch(w) \/ Index(w) \/ CycleError(w) \/ Unlock(w)
               \/ RecordFailureError(w) \/ Signal(w)
               \/ LeaveLoop(w) \/ Crash(w) \/ Restart(w) \/ SessionLost(w)
        PROVE  FALSE
    BY <2>6 DEF TryLock, Fetch, Index, CycleError, Unlock,
                RecordFailureError, Signal, LeaveLoop, Crash, Restart, SessionLost
  <2> QED BY <2>1, <2>2, <2>3, <2>4, <2>5, <2>6 DEF Next, RunOnce
<1> QED BY <1>1, Invariance, PTL DEF Spec, ClosedRunKeepsItsOutcome
=============================================================================
