------------------------------ MODULE Service -------------------------------
(***************************************************************************)
(* The start of the service as docker-compose.yml orders it, and its life  *)
(* with a database that stops and starts: the migration runners prepare    *)
(* the schema, the API container is created once one of them has           *)
(* succeeded, and the API process may die and be started again, then       *)
(* without another look at the migrations (restart: unless-stopped).       *)
(***************************************************************************)
EXTENDS Migrations, Readiness

VARIABLE created   \* whether the API container has been created

serviceVars == <<db, schemaVars, runnerVars, readinessVars, created>>

ServiceInit ==
    /\ db = "up"
    /\ created = FALSE
    /\ MigrationsInit
    /\ ReadinessInit

\* Runners are followed until the API is created: a run that ends later or
\* is started again repeats what is there.
ForgetRunners ==
    /\ phase' = [r \in Runners |-> "idle"]
    /\ at' = [r \in Runners |-> 0]
    /\ seen' = [r \in Runners |-> {}]

\* Mutated form: the condition is that a runner has completed.
CreateApiAfterAnyRun ==
    /\ ~created
    /\ db = "up"
    /\ \E r \in Runners : phase[r] \in {"succeeded", "failed"}
    /\ created' = TRUE
    /\ ForgetRunners
    /\ UNCHANGED <<db, schemaVars, readinessVars>>

\* depends_on: postgres healthy, migrate completed successfully.
CreateApi ==
    /\ ~created
    /\ db = "up"
    /\ \E r \in Runners : phase[r] = "succeeded"
    /\ created' = TRUE
    /\ ForgetRunners
    /\ UNCHANGED <<db, schemaVars, readinessVars>>

StartApi ==
    /\ created
    /\ OpenPool
    /\ UNCHANGED <<db, schemaVars, runnerVars, created>>

\* The process dies or is stopped; the next one starts with nothing.
StopApi ==
    /\ pool # "none"
    /\ EndProcess
    /\ UNCHANGED <<db, schemaVars, runnerVars, created>>

StopDatabase ==
    /\ db = "up"
    /\ db' = "down"
    /\ LoseConnections
    /\ UNCHANGED <<schemaVars, runnerVars, pool, slot, probeVars, created>>

StartDatabase ==
    /\ db = "down"
    /\ db' = "up"
    /\ UNCHANGED <<schemaVars, runnerVars, readinessVars, created>>

Migrating == ~created /\ MigrationStep /\ UNCHANGED <<db, readinessVars, created>>

Serving ==
    /\ \/ \E i \in Slots : PoolStep(i)
       \/ \E p \in Probes : ProbeStep(p)
       \/ PassTime
    /\ UNCHANGED <<db, schemaVars, runnerVars, created>>

ServiceNext ==
    \/ Migrating
    \/ CreateApi \/ StartApi \/ StopApi
    \/ StopDatabase \/ StartDatabase
    \/ Serving

ServiceFairness ==
    LET others == <<db, schemaVars, runnerVars, created>> IN
    /\ WF_serviceVars(PassTime /\ UNCHANGED others)
    /\ \A i \in Slots :
          /\ WF_serviceVars(Grow(i) /\ UNCHANGED others)
          /\ WF_serviceVars(Connect(i) /\ UNCHANGED others)
    /\ \A p \in Probes : WF_serviceVars(ProbeStep(p) /\ UNCHANGED others)

ServiceSpec == ServiceInit /\ [][ServiceNext]_serviceVars /\ ServiceFairness

-----------------------------------------------------------------------------
(* Properties.                                                             *)

ServiceTypeOK ==
    /\ db \in {"up", "down"}
    /\ created \in BOOLEAN
    /\ MigrationsTypeOK
    /\ ReadinessTypeOK

\* No request meets a schema that is not there: while an API process runs,
\* also one restarted after a crash, every statement of the baseline and
\* every migration has been committed and recorded (README.md:29).
ServedOnSchema ==
    pool # "none" => recorded = Versions /\ built = Statements /\ applied = Files

\* Nothing that happens to the database, at the start of the API or later,
\* leaves it unready for good: once the database stays up, the process
\* lives and requests give their connections back, the verdict becomes
\* ready and stays so (api.py:55-58, scripts/failure/README.md:16).
Recovers ==
    <>[](/\ db = "up"
         /\ pool # "none"
         /\ \A i \in Slots : slot[i] # "borrowed") => <>[]verdict
=============================================================================
