--------------------------- MODULE ServiceProofs ----------------------------
(***************************************************************************)
(* Proofs about the start of the service, for any number of runners,       *)
(* statements and files: the records of schema_migrations are true, and    *)
(* no API process runs without the whole schema.                           *)
(*                                                                         *)
(* A runner trusts its variable `applied', which it filled at the start    *)
(* and extends with what it records itself.  Progress says how far the     *)
(* schema is at least, by where a runner is; it survives the steps of      *)
(* other runners because the schema and the records only grow, and the     *)
(* death of any of them because nothing is undone.                         *)
(*                                                                         *)
(* The second part is about the readiness endpoint: a verdict that may     *)
(* still be served is not much younger than the answer it rests on, and    *)
(* no answer on its way to the event loop is old.                          *)
(***************************************************************************)
EXTENDS Service, TLAPS

Working == {"next", "apply", "record"}

Phases == Exited \cup {"build", "table", "read"} \cup Working

Types ==
    /\ built \subseteq Statements
    /\ applied \subseteq Files
    /\ recorded \subseteq Versions
    /\ at \in [Runners -> Int]
    /\ phase \in [Runners -> Phases]
    /\ seen \in [Runners -> SUBSET Versions]

Progress(r) ==
    /\ seen[r] \subseteq recorded
    /\ phase[r] = "build" => at[r] \in Statements /\ 1..(at[r] - 1) \subseteq built
    /\ phase[r] \in {"table", "read"} \cup Working => built = Statements
    /\ phase[r] \in Working => at[r] \in Versions /\ 0..(at[r] - 1) \subseteq seen[r]
    /\ phase[r] = "next" => at[r] \in seen[r]
    /\ phase[r] = "apply" => at[r] \in Files
    /\ phase[r] = "record" => at[r] = Baseline \/ at[r] \in applied
    /\ phase[r] = "succeeded" => recorded = Versions

Gated ==
    /\ pool # "none" => created
    /\ created => recorded = Versions

SInv ==
    /\ Types
    /\ \A r \in Runners : Progress(r)
    /\ RecordsAreTrue
    /\ Gated

-----------------------------------------------------------------------------
\* When everything is recorded, everything is there.
LEMMA RecordsSuffice ==
    ASSUME SInv, recorded = Versions
    PROVE  built = Statements /\ applied = Files
<1>1. Baseline \in recorded /\ NFiles \in Versions
  BY MigrationAssumption DEF Versions, Files, Baseline
<1>2. built = Statements
  BY <1>1 DEF SInv, RecordsAreTrue
<1>3. 1..NFiles \subseteq applied
  BY <1>1 DEF SInv, RecordsAreTrue
<1> QED
  BY <1>2, <1>3 DEF SInv, Types, Files

LEMMA InitHolds == ServiceInit => SInv
  BY MigrationAssumption
  DEF ServiceInit, MigrationsInit, ReadinessInit, SInv, Types, Progress,
      RecordsAreTrue, Gated, Working, Phases, Exited, Statements, Files, Versions, Baseline

\* What holds of a runner that does not move survives the others' steps.
LEMMA OthersKeep ==
    ASSUME SInv, NEW r \in Runners,
           built \subseteq built', applied \subseteq applied',
           recorded \subseteq recorded',
           built' \subseteq Statements, recorded' \subseteq Versions,
           phase'[r] = phase[r], at'[r] = at[r], seen'[r] = seen[r]
    PROVE  Progress(r)'
  BY DEF SInv, Progress, Working, Types

\* A step of one runner, as far as the others see it.
OnlyMoves(r) ==
    /\ UNCHANGED schemaVars
    /\ at' \in [Runners -> Int]
    /\ phase' \in [Runners -> Phases]
    /\ seen' \in [Runners -> SUBSET Versions]
    /\ \A s \in Runners \ {r} :
          phase'[s] = phase[s] /\ at'[s] = at[s] /\ seen'[s] = seen[s]

LEMMA SchemaKept ==
    ASSUME SInv, NEW r \in Runners, OnlyMoves(r), Progress(r)',
           UNCHANGED <<pool, created>>
    PROVE  SInv'
<1> USE DEF OnlyMoves
<1>1. ASSUME NEW s \in Runners, s # r
      PROVE  Progress(s)'
  <2>1. phase'[s] = phase[s] /\ at'[s] = at[s] /\ seen'[s] = seen[s]
    BY <1>1
  <2> QED
    BY <2>1, OthersKeep DEF schemaVars, SInv, Types
<1>2. Types'
  BY DEF SInv, Types, schemaVars
<1>3. RecordsAreTrue' /\ Gated'
  BY DEF SInv, RecordsAreTrue, Gated, schemaVars
<1> QED
  BY <1>1, <1>2, <1>3 DEF SInv

-----------------------------------------------------------------------------
(* The steps of a runner.                                                  *)

Aside == UNCHANGED <<db, readinessVars, created>>

LEMMA AsideKeeps == Aside => UNCHANGED <<pool, created>>
  BY DEF Aside, readinessVars, poolVars

\* Steps that change no schema.
LEMMA QuietSteps ==
    ASSUME SInv, NEW r \in Runners, Aside,
           \/ StartRunner(r) \/ ReadVersions(r) \/ Advance(r)
           \/ Succeed(r) \/ FileFails(r) \/ Die(r)
    PROVE  SInv'
<1> USE AsideKeeps, MigrationAssumption
    DEF Types, Goto, Exit, Exited, Working, Phases, schemaVars
<1> SUFFICES ASSUME Types, Progress(r)
             PROVE  SInv'
  BY DEF SInv
<1>1. CASE StartRunner(r)
  <2>1. Progress(r)'
    BY <1>1 DEF StartRunner, Progress, Statements
  <2>2. OnlyMoves(r)
    BY <1>1 DEF OnlyMoves, StartRunner
  <2> QED
    BY <2>1, <2>2, SchemaKept
<1>2. CASE ReadVersions(r)
  <2>1. Progress(r)'
    BY <1>2 DEF ReadVersions, Progress, Versions, Baseline
  <2>2. OnlyMoves(r)
    BY <1>2 DEF OnlyMoves, ReadVersions, Versions, Baseline
  <2> QED
    BY <2>1, <2>2, SchemaKept
<1>3. CASE Advance(r)
  <2>1. at[r] \in Versions /\ 0..(at[r] - 1) \subseteq seen[r] /\ at[r] \in seen[r]
    BY <1>3 DEF Advance, Progress
  <2>2. at[r] \in Nat /\ at[r] < NFiles
    BY <1>3, <2>1 DEF Advance, Versions, Files, Baseline
  <2>3. at[r] + 1 \in Files /\ 0..at[r] \subseteq seen[r]
    BY <2>1, <2>2 DEF Files
  <2>4. Progress(r)'
    BY <1>3, <2>2, <2>3 DEF Advance, Progress, Versions
  <2>5. OnlyMoves(r)
    BY <1>3 DEF OnlyMoves, Advance
  <2> QED
    BY <2>4, <2>5, SchemaKept
<1>4. CASE Succeed(r)
  <2>1. 0..NFiles \subseteq recorded
    BY <1>4 DEF Succeed, Progress
  <2>2. recorded = Versions
    <3>1. Versions \subseteq 0..NFiles
      BY DEF Versions, Files, Baseline
    <3> QED
      BY <2>1, <3>1
  <2>3. Progress(r)'
    BY <1>4, <2>2 DEF Succeed, Progress
  <2>4. OnlyMoves(r)
    BY <1>4 DEF OnlyMoves, Succeed
  <2> QED
    BY <2>3, <2>4, SchemaKept
<1>5. CASE FileFails(r) \/ Die(r)
  <2>1. Progress(r)'
    BY <1>5 DEF FileFails, Die, Progress
  <2>2. OnlyMoves(r)
    BY <1>5 DEF OnlyMoves, FileFails, Die
  <2> QED
    BY <2>1, <2>2, SchemaKept
<1> QED
  BY <1>1, <1>2, <1>3, <1>4, <1>5

LEMMA BuildKeeps ==
    ASSUME SInv, NEW r \in Runners, Aside, Build(r)
    PROVE  SInv'
<1> USE DEF Types, Goto, Working, Phases
<1>1. Types /\ Progress(r) /\ at[r] \in Statements
  BY DEF SInv, Build, Progress
<1>2. Types'
  BY <1>1 DEF Build
<1>3. 1..at[r] \subseteq built'
  BY <1>1 DEF Build, Progress, Statements
<1>4. Progress(r)'
  <2>1. CASE at[r] = NStatements
    BY <1>1, <1>2, <1>3, <2>1 DEF Build, Progress, Statements
  <2>2. CASE at[r] # NStatements
    BY <1>1, <1>3, <2>2, MigrationAssumption DEF Build, Progress, Statements
  <2> QED
    BY <2>1, <2>2
<1>5. ASSUME NEW s \in Runners, s # r
      PROVE  Progress(s)'
  BY <1>1, <1>2, <1>5, OthersKeep DEF Build
<1>6. RecordsAreTrue'
  BY <1>1, <1>2 DEF Build, SInv, RecordsAreTrue
<1>7. Gated'
  BY AsideKeeps DEF Build, SInv, Gated
<1> QED
  BY <1>2, <1>4, <1>5, <1>6, <1>7 DEF SInv

LEMMA EnsureKeeps ==
    ASSUME SInv, NEW r \in Runners, Aside, EnsureVersionTable(r)
    PROVE  SInv'
<1> USE DEF Types, Goto, Working, Phases
<1>1. Types /\ Types' /\ Progress(r)
  BY DEF SInv, EnsureVersionTable
<1>2. Progress(r)'
  BY <1>1 DEF EnsureVersionTable, Progress
<1>3. ASSUME NEW s \in Runners, s # r
      PROVE  Progress(s)'
  BY <1>1, <1>3, OthersKeep DEF EnsureVersionTable
<1>4. RecordsAreTrue' /\ Gated'
  BY AsideKeeps DEF EnsureVersionTable, SInv, RecordsAreTrue, Gated
<1> QED
  BY <1>1, <1>2, <1>3, <1>4 DEF SInv

LEMMA ApplyKeeps ==
    ASSUME SInv, NEW r \in Runners, Aside, Apply(r)
    PROVE  SInv'
<1> USE DEF Types, Goto, Working, Phases
<1>1. Types /\ Progress(r) /\ at[r] \in Files
  BY DEF SInv, Apply, Progress
<1>2. Types'
  BY <1>1 DEF Apply
<1>3. Progress(r)'
  BY <1>1 DEF Apply, Progress
<1>4. ASSUME NEW s \in Runners, s # r
      PROVE  Progress(s)'
  BY <1>1, <1>2, <1>4, OthersKeep DEF Apply
<1>5. RecordsAreTrue' /\ Gated'
  BY AsideKeeps DEF Apply, SInv, RecordsAreTrue, Gated
<1> QED
  BY <1>2, <1>3, <1>4, <1>5 DEF SInv

\* The step the others lead up to: what is recorded is there, because the
\* version before it is recorded already.
LEMMA RecordKeeps ==
    ASSUME SInv, NEW r \in Runners, Aside, Record(r)
    PROVE  SInv'
<1> USE DEF Types, Goto, Working, Phases
<1> DEFINE v == at[r]
<1>1. /\ Types /\ Progress(r) /\ v \in Versions /\ 0..(v - 1) \subseteq recorded
      /\ built = Statements
  BY DEF SInv, Record, Progress
<1>2. v \in Nat
  BY <1>1 DEF Versions, Files, Baseline
<1>3. 1..v \subseteq applied
  <2>1. CASE v = 0
    BY <2>1
  <2>2. CASE v # 0
    <3>1. v - 1 \in recorded /\ v \in applied
      BY <1>1, <1>2, <2>2 DEF Record, Progress, Baseline
    <3>2. 1..(v - 1) \subseteq applied
      BY <3>1 DEF SInv, RecordsAreTrue
    <3> QED
      BY <3>1, <3>2, <1>2
  <2> QED
    BY <2>1, <2>2
<1>4. RecordsAreTrue'
  BY <1>1, <1>3 DEF Record, SInv, RecordsAreTrue
<1>5. Types'
  BY <1>1 DEF Record
<1>6. Progress(r)'
  BY <1>1, <1>2 DEF Record, Progress
<1>7. ASSUME NEW s \in Runners, s # r
      PROVE  Progress(s)'
  BY <1>1, <1>5, <1>7, OthersKeep DEF Record
<1>8. Gated'
  BY <1>1, AsideKeeps DEF Record, SInv, Gated
<1> QED
  BY <1>4, <1>5, <1>6, <1>7, <1>8 DEF SInv

-----------------------------------------------------------------------------
(* The steps of the service.                                               *)

LEMMA CreateKeeps ==
    ASSUME SInv, CreateApi
    PROVE  SInv'
<1>1. PICK r \in Runners : phase[r] = "succeeded"
  BY DEF CreateApi
<1>2. recorded = Versions
  BY <1>1 DEF SInv, Progress
<1>3. Types' /\ \A s \in Runners : Progress(s)'
  BY DEF CreateApi, ForgetRunners, SInv, Types, Progress, Working, Phases,
              Exited, schemaVars
<1>4. RecordsAreTrue' /\ Gated'
  BY <1>2 DEF CreateApi, SInv, RecordsAreTrue, Gated, schemaVars
<1> QED
  BY <1>3, <1>4 DEF SInv

LEMMA SchemaUntouched ==
    ASSUME SInv, UNCHANGED <<schemaVars, runnerVars, created>>,
           pool' # "none" => created
    PROVE  SInv'
  BY DEF SInv, Types, Progress, Working, RecordsAreTrue, Gated, schemaVars, runnerVars

LEMMA InvariantKept == SInv /\ [ServiceNext]_serviceVars => SInv'
<1> SUFFICES ASSUME SInv, [ServiceNext]_serviceVars
             PROVE  SInv'
  OBVIOUS
<1>1. CASE Migrating
  <2>1. PICK r \in Runners :
            \/ StartRunner(r) \/ Build(r) \/ EnsureVersionTable(r) \/ ReadVersions(r)
            \/ Advance(r) \/ Apply(r) \/ Record(r) \/ Succeed(r)
            \/ FileFails(r) \/ Die(r)
    BY <1>1 DEF Migrating, MigrationStep
  <2>2. Aside
    BY <1>1 DEF Migrating, Aside
  <2> QED
    BY <2>1, <2>2, QuietSteps, BuildKeeps, EnsureKeeps, ApplyKeeps, RecordKeeps
<1>2. CASE CreateApi
  BY <1>2, CreateKeeps
<1>3. CASE StartApi \/ StopApi \/ StopDatabase \/ StartDatabase
  <2>1. pool' # "none" => created
    BY <1>3 DEF StartApi, OpenPool, StopApi, EndProcess, StopDatabase, StartDatabase,
                readinessVars, poolVars, SInv, Gated
  <2> QED
    BY <1>3, <2>1, SchemaUntouched
    DEF StartApi, StopApi, StopDatabase, StartDatabase
<1>4. CASE Serving
  <2>1. pool' = pool
    BY <1>4 DEF Serving, PoolStep, Grow, Connect, GiveUp, Borrow, Return, ProbeStep,
                AskReady, EnterLock, Acquire, AcquireFails, Query, Store, Reply,
                PassTime, poolVars
  <2> QED
    BY <1>4, <2>1, SchemaUntouched DEF Serving, SInv, Gated
<1>5. CASE UNCHANGED serviceVars
  BY <1>5, SchemaUntouched DEF serviceVars, readinessVars, poolVars, SInv, Gated
<1> QED
  BY <1>1, <1>2, <1>3, <1>4, <1>5 DEF ServiceNext

LEMMA InvariantAlways == ServiceSpec => []SInv
  BY InitHolds, InvariantKept, PTL DEF ServiceSpec

-----------------------------------------------------------------------------
(* The theorems.                                                           *)

\* Whatever runners overlap, fail or die, a recorded version is in the schema
\* with everything before it.
THEOREM RecordsStayTrue == ServiceSpec => []RecordsAreTrue
<1>1. SInv => RecordsAreTrue
  BY DEF SInv
<1> QED
  BY <1>1, InvariantAlways, PTL

\* An API process, also one that was restarted, runs on the whole schema.
THEOREM ApiHasItsSchema == ServiceSpec => []ServedOnSchema
<1>1. SInv => ServedOnSchema
  BY RecordsSuffice DEF SInv, Gated, ServedOnSchema
<1> QED
  BY <1>1, InvariantAlways, PTL

-----------------------------------------------------------------------------
(* The readiness endpoint.                                                 *)

Recent ==
    /\ verdictAge \in 0..Cache
    /\ answerAge \in Nat
    /\ DOMAIN probe = Probes
    /\ (verdict /\ verdictAge < Cache) => answerAge <= verdictAge + Lag
    /\ \A p \in Probes : probe[p] = "true" => answerAge <= Lag

LEMMA RecentInit == ServiceInit => Recent
  BY ReadinessAssumption DEF ServiceInit, ReadinessInit, Recent

LEMMA ProbeStepsKeepRecent ==
    ASSUME Recent, NEW p \in Probes, ProbeStep(p)
    PROVE  Recent'
<1> USE ReadinessAssumption DEF Recent, At
<1>1. CASE AskReady(p)
  BY <1>1 DEF AskReady, Verdict
<1>2. CASE EnterLock(p)
  BY <1>2 DEF EnterLock, Verdict
<1>3. CASE Acquire(p)
  BY <1>3 DEF Acquire
<1>4. CASE AcquireFails(p)
  BY <1>4 DEF AcquireFails
<1>5. CASE Query(p)
  <2>1. \/ answerAge' = 0
        \/ answerAge' = answerAge /\ probe' = [probe EXCEPT ![p] = "false"]
    BY <1>5 DEF Query
  <2>2. /\ DOMAIN probe' = Probes
        /\ verdict' = verdict /\ verdictAge' = verdictAge
    BY <1>5 DEF Query
  <2> QED
    BY <2>1, <2>2
<1>6. CASE Store(p)
  <2>1. verdict' => probe[p] = "true"
    BY <1>6 DEF Store
  <2>2. /\ verdictAge' = 0 /\ answerAge' = answerAge
        /\ DOMAIN probe' = Probes
        /\ \A q \in Probes : probe'[q] = "true" => probe[q] = "true"
    BY <1>6 DEF Store
  <2> QED
    BY <2>1, <2>2
<1>7. CASE Reply(p)
  BY <1>7 DEF Reply
<1> QED
  BY <1>1, <1>2, <1>3, <1>4, <1>5, <1>6, <1>7 DEF ProbeStep

LEMMA RecentKept == Recent /\ [ServiceNext]_serviceVars => Recent'
<1> SUFFICES ASSUME Recent, [ServiceNext]_serviceVars
             PROVE  Recent'
  OBVIOUS
<1>1. CASE PassTime
  BY <1>1, ReadinessAssumption DEF PassTime, Fresh, Recent
<1>2. CASE StopApi
  BY <1>2, ReadinessAssumption DEF StopApi, EndProcess, Recent
<1>3. CASE UNCHANGED probeVars
  BY <1>3 DEF probeVars, Recent
<1>4. ASSUME NEW i \in Slots, PoolStep(i)
      PROVE  UNCHANGED probeVars
  BY <1>4 DEF PoolStep, Grow, Connect, GiveUp, Borrow, Return
<1>5. CASE \/ Migrating \/ CreateApi \/ StartApi \/ StopDatabase \/ StartDatabase
           \/ UNCHANGED serviceVars
  BY <1>3, <1>5 DEF Migrating, CreateApi, StartApi, OpenPool, StopDatabase, StartDatabase,
                    serviceVars, readinessVars
<1> QED
  BY <1>1, <1>2, <1>3, <1>4, <1>5, ProbeStepsKeepRecent DEF ServiceNext, Serving

\* A handler that comes to reply "ready" has a recent answer to report.
LEMMA RepliesAreRecent ==
    ASSUME Recent, NEW p \in Probes, NEW q \in Probes, ProbeStep(q),
           probe'[p] = "ready", probe[p] # "ready"
    PROVE  answerAge < Cache + Lag
<1> USE ReadinessAssumption DEF Recent, At
<1>1. CASE AskReady(q)
  BY <1>1 DEF AskReady, Verdict, Fresh
<1>2. CASE EnterLock(q)
  BY <1>2 DEF EnterLock, Verdict, Fresh
<1>3. CASE Store(q)
  BY <1>3 DEF Store
<1>4. CASE Acquire(q) \/ AcquireFails(q) \/ Query(q) \/ Reply(q)
  BY <1>4 DEF Acquire, AcquireFails, Query, Reply
<1> QED
  BY <1>1, <1>2, <1>3, <1>4 DEF ProbeStep

\* Whoever is told "ready" is told of an answer the database gave less than
\* the cache time and the delay of the event loop ago.
THEOREM ReadyAnswersAreRecent == ServiceSpec => ReadyIsRecent
<1>1. ASSUME Recent, [ServiceNext]_serviceVars
      PROVE  [\A p \in Probes : (probe'[p] = "ready" /\ probe[p] # "ready") =>
                                    answerAge < Cache + Lag]_readinessVars
  <2>1. SUFFICES ASSUME NEW p \in Probes, probe'[p] = "ready", probe[p] # "ready"
                 PROVE  answerAge < Cache + Lag
    OBVIOUS
  <2>2. ASSUME NEW q \in Probes, ProbeStep(q)
        PROVE  answerAge < Cache + Lag
    BY <1>1, <2>1, <2>2, RepliesAreRecent
  <2>3. ASSUME probe' = probe
        PROVE  FALSE
    BY <2>1, <2>3
  <2>4. CASE StopApi
    BY <2>1, <2>4 DEF StopApi, EndProcess
  <2>5. CASE \/ Migrating \/ CreateApi \/ StartApi \/ StopDatabase \/ StartDatabase
             \/ UNCHANGED serviceVars \/ PassTime \/ \E i \in Slots : PoolStep(i)
    BY <2>3, <2>5 DEF Migrating, CreateApi, StartApi, OpenPool, StopDatabase, StartDatabase,
                      PassTime, PoolStep, Grow, Connect, GiveUp, Borrow, Return,
                      serviceVars, readinessVars, probeVars
  <2> QED
    BY <1>1, <2>2, <2>4, <2>5 DEF ServiceNext, Serving
<1>2. ServiceSpec => []Recent
  BY RecentInit, RecentKept, PTL DEF ServiceSpec
<1>3. ServiceSpec => [][ServiceNext]_serviceVars
  BY PTL DEF ServiceSpec
<1> QED
  BY <1>1, <1>2, <1>3, PTL DEF ReadyIsRecent

-----------------------------------------------------------------------------
(* The typing of the whole service.                                        *)

Fields ==
    /\ db \in {"up", "down"}
    /\ created \in BOOLEAN
    /\ versionTable \in BOOLEAN
    /\ ReadinessTypeOK

LEMMA FieldsInit == ServiceInit => Fields
<1> SUFFICES ASSUME ServiceInit
             PROVE  Fields
  OBVIOUS
<1>1. /\ pool = "none" /\ slot = [i \in Slots |-> "none"] /\ stale = {}
      /\ verdictAge \in 0..Cache /\ answerAge \in AnswerAges
      /\ probe = [p \in Probes |-> "none"]
  BY ReadinessAssumption DEF ServiceInit, ReadinessInit, AnswerAges
<1>2. verdict \in BOOLEAN
  BY Zenon DEF ServiceInit, ReadinessInit
<1>3. ReadinessTypeOK
  BY <1>1, <1>2 DEF ReadinessTypeOK
<1> QED
  BY <1>3, Zenon DEF ServiceInit, MigrationsInit, Fields

\* Steps of the pool: a connection is known to be broken only while it is held.
LEMMA PoolStepsKeepTypes ==
    ASSUME ReadinessTypeOK, NEW i \in Slots, PoolStep(i)
    PROVE  ReadinessTypeOK'
<1> USE DEF ReadinessTypeOK, Holds, probeVars
<1>1. CASE Grow(i)
  BY <1>1 DEF Grow
<1>2. CASE Connect(i)
  BY <1>2 DEF Connect
<1>3. CASE GiveUp(i)
  BY <1>3 DEF GiveUp
<1>4. CASE Borrow(i)
  BY <1>4 DEF Borrow
<1>5. CASE Return(i)
  BY <1>5 DEF Return, PutBack
<1> QED
  BY <1>1, <1>2, <1>3, <1>4, <1>5 DEF PoolStep

LEMMA ProbeStepsKeepTypes ==
    ASSUME ReadinessTypeOK, NEW p \in Probes, ProbeStep(p)
    PROVE  ReadinessTypeOK'
<1> USE DEF ReadinessTypeOK, At, Holds, poolVars
<1>1. CASE AskReady(p)
  BY <1>1 DEF AskReady, Verdict
<1>2. CASE EnterLock(p)
  BY <1>2 DEF EnterLock, Verdict
<1>3. CASE Acquire(p)
  BY <1>3 DEF Acquire
<1>4. CASE AcquireFails(p)
  BY <1>4 DEF AcquireFails
<1>5. CASE Query(p)
  BY <1>5, ReadinessAssumption DEF Query, PutBack, AnswerAges
<1>6. CASE Store(p)
  BY <1>6, ReadinessAssumption DEF Store
<1>7. CASE Reply(p)
  BY <1>7 DEF Reply
<1> QED
  BY <1>1, <1>2, <1>3, <1>4, <1>5, <1>6, <1>7 DEF ProbeStep

LEMMA FieldsKept == Fields /\ [ServiceNext]_serviceVars => Fields'
<1> SUFFICES ASSUME Fields, [ServiceNext]_serviceVars
             PROVE  Fields'
  OBVIOUS
<1>1. ASSUME UNCHANGED readinessVars
      PROVE  ReadinessTypeOK'
  BY <1>1 DEF Fields, ReadinessTypeOK, readinessVars, poolVars, probeVars
<1>2. CASE Migrating
  <2>1. versionTable' \in BOOLEAN
    BY <1>2 DEF Migrating, MigrationStep, StartRunner, Build, EnsureVersionTable,
                ReadVersions, Advance, Apply, Record, Succeed, FileFails, Die,
                schemaVars, Fields
  <2> QED
    BY <1>1, <1>2, <2>1 DEF Migrating, Fields
<1>3. CASE CreateApi \/ StartDatabase
  BY <1>1, <1>3 DEF CreateApi, StartDatabase, schemaVars, Fields
<1>4. CASE StartApi
  <2>1. ReadinessTypeOK'
    BY <1>4 DEF StartApi, OpenPool, Fields, ReadinessTypeOK, probeVars
  <2> QED
    BY <1>4, <2>1 DEF StartApi, schemaVars, Fields
<1>5. CASE StopApi
  <2>1. ReadinessTypeOK'
    <3>1. /\ pool' = "none" /\ slot' = [i \in Slots |-> "none"] /\ stale' = {}
          /\ verdictAge' \in 0..Cache /\ answerAge' \in AnswerAges
          /\ probe' = [p \in Probes |-> "none"]
      BY <1>5, ReadinessAssumption DEF StopApi, EndProcess, Fields, ReadinessTypeOK
    <3>2. verdict' \in BOOLEAN
      BY <1>5, Zenon DEF StopApi, EndProcess
    <3> QED
      BY <3>1, <3>2 DEF ReadinessTypeOK
  <2> QED
    BY <1>5, <2>1 DEF StopApi, schemaVars, Fields
<1>6. CASE StopDatabase
  <2>1. ReadinessTypeOK'
    BY <1>6 DEF StopDatabase, LoseConnections, Fields, ReadinessTypeOK, probeVars
  <2> QED
    BY <1>6, <2>1 DEF StopDatabase, schemaVars, Fields
<1>7. CASE Serving
  <2>1. ASSUME PassTime
        PROVE  ReadinessTypeOK'
    BY <2>1, ReadinessAssumption
    DEF PassTime, Fresh, AnswerAges, Fields, ReadinessTypeOK, poolVars
  <2>2. ReadinessTypeOK'
    BY <1>7, <2>1, PoolStepsKeepTypes, ProbeStepsKeepTypes DEF Serving, Fields
  <2> QED
    BY <1>7, <2>2 DEF Serving, schemaVars, Fields
<1>8. CASE UNCHANGED serviceVars
  BY <1>1, <1>8 DEF serviceVars, schemaVars, Fields
<1> QED
  BY <1>2, <1>3, <1>4, <1>5, <1>6, <1>7, <1>8 DEF ServiceNext

\* Where a runner is bounds what it is at.
LEMMA PositionsTyped ==
    ASSUME SInv, NEW r \in Runners
    PROVE  at[r] \in CASE phase[r] = "build" -> Statements
                       [] phase[r] = "apply" -> Files
                       [] phase[r] \in {"next", "record"} -> Versions
                       [] OTHER -> Int
<1>1. Progress(r) /\ at[r] \in Int
  BY DEF SInv, Types
<1> QED
  BY <1>1 DEF Progress, Working

\* Runners, schema, pool, connections and handlers keep their types: a runner
\* is always at a statement or file there is, and only connections that are
\* held can be broken ones.
THEOREM ServiceTyped == ServiceSpec => []ServiceTypeOK
<1>1. SInv /\ Fields => ServiceTypeOK
  <2> SUFFICES ASSUME SInv, Fields
               PROVE  MigrationsTypeOK
    BY DEF Fields, ServiceTypeOK
  <2>1. phase \in [Runners -> Exited \cup
                      {"build", "table", "read", "next", "apply", "record"}]
    BY DEF SInv, Types, Phases, Working
  <2> QED
    BY <2>1, PositionsTyped DEF MigrationsTypeOK, Fields, SInv, Types
<1>2. ServiceSpec => []Fields
  BY FieldsInit, FieldsKept, PTL DEF ServiceSpec
<1> QED
  BY <1>1, <1>2, InvariantAlways, PTL
=============================================================================
