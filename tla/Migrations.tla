----------------------------- MODULE Migrations -----------------------------
(***************************************************************************)
(* The migration runner, src/migrate.py, with init_db of src/db.py.        *)
(*                                                                         *)
(* A runner is a process `python -m src.migrate'.  The connection is in    *)
(* autocommit mode, so every statement of init_db, the creation of the     *)
(* version table and every record are transactions of their own; a         *)
(* migration file is one transaction.  Nothing locks runners out of each   *)
(* other's way: Compose starts one, an operator may start another.         *)
(*                                                                         *)
(* Version 0 is the baseline, version n the n-th file of migrations/ in    *)
(* the order of their names.                                               *)
(***************************************************************************)
EXTENDS Integers, Database

CONSTANTS
    Runners,       \* processes that run migrate()
    NStatements,   \* statements of init_db
    NFiles         \* files in migrations/

ASSUME MigrationAssumption == NStatements \in Nat \ {0} /\ NFiles \in Nat

VARIABLES
    built,         \* statements of init_db whose objects exist
    versionTable,  \* whether schema_migrations exists
    applied,       \* files whose transaction has committed
    recorded,      \* rows of schema_migrations
    phase,         \* where each runner is
    at,            \* its next statement of init_db, or its file
    seen           \* its variable `applied'

schemaVars == <<built, versionTable, applied, recorded>>
runnerVars == <<phase, at, seen>>

Statements == 1..NStatements
Files == 1..NFiles
Baseline == 0
Versions == {Baseline} \cup Files

\* A runner has exited with status 0 or 1, or has not been started.
Exited == {"idle", "succeeded", "failed"}

MigrationsInit ==
    /\ built = {}
    /\ versionTable = FALSE
    /\ applied = {}
    /\ recorded = {}
    /\ phase = [r \in Runners |-> "idle"]
    /\ at = [r \in Runners |-> 0]
    /\ seen = [r \in Runners |-> {}]

Goto(r, p) == phase' = [phase EXCEPT ![r] = p]

Exit(r, status) ==
    /\ Goto(r, status)
    /\ at' = [at EXCEPT ![r] = 0]
    /\ seen' = [seen EXCEPT ![r] = {}]

-----------------------------------------------------------------------------
StartRunner(r) ==
    /\ phase[r] \in Exited
    /\ Goto(r, "build")
    /\ at' = [at EXCEPT ![r] = 1]
    /\ UNCHANGED <<schemaVars, seen>>

Build(r) ==
    /\ phase[r] = "build"
    /\ db = "up"
    /\ built' = built \cup {at[r]}
    /\ at' = [at EXCEPT ![r] = @ + 1]
    /\ Goto(r, IF at[r] = NStatements THEN "table" ELSE "build")
    /\ UNCHANGED <<versionTable, applied, recorded, seen>>

EnsureVersionTable(r) ==
    /\ phase[r] = "table"
    /\ db = "up"
    /\ versionTable' = TRUE
    /\ Goto(r, "read")
    /\ UNCHANGED <<built, applied, recorded, at, seen>>

ReadVersions(r) ==
    /\ phase[r] = "read"
    /\ db = "up"
    /\ seen' = [seen EXCEPT ![r] = recorded]
    /\ at' = [at EXCEPT ![r] = Baseline]
    /\ Goto(r, IF Baseline \in recorded THEN "next" ELSE "record")
    /\ UNCHANGED schemaVars

\* Mutated form: one file too many is looked for.
AdvancePastLast(r) ==
    /\ phase[r] = "next"
    /\ at[r] <= NFiles
    /\ at' = [at EXCEPT ![r] = @ + 1]
    /\ Goto(r, IF at[r] + 1 \in seen[r] THEN "next" ELSE "apply")
    /\ UNCHANGED <<schemaVars, seen>>

\* The next file that is not among the versions read at the start.
Advance(r) ==
    /\ phase[r] = "next"
    /\ at[r] < NFiles
    /\ at' = [at EXCEPT ![r] = @ + 1]
    /\ Goto(r, IF at[r] + 1 \in seen[r] THEN "next" ELSE "apply")
    /\ UNCHANGED <<schemaVars, seen>>

Apply(r) ==
    /\ phase[r] = "apply"
    /\ db = "up"
    /\ applied' = applied \cup {at[r]}
    /\ Goto(r, "record")
    /\ UNCHANGED <<built, versionTable, recorded, at, seen>>

Record(r) ==
    /\ phase[r] = "record"
    /\ db = "up" /\ versionTable
    /\ recorded' = recorded \cup {at[r]}
    /\ seen' = [seen EXCEPT ![r] = @ \cup {at[r]}]
    /\ Goto(r, "next")
    /\ UNCHANGED <<built, versionTable, applied, at>>

Succeed(r) ==
    /\ phase[r] = "next"
    /\ at[r] = NFiles
    /\ Exit(r, "succeeded")
    /\ UNCHANGED schemaVars

\* Mutated form: a file that fails is logged and passed over.
FilePassedOver(r) ==
    /\ phase[r] \in {"apply", "record"} /\ at[r] \in Files
    /\ Goto(r, "next")
    /\ UNCHANGED <<schemaVars, at, seen>>

\* The except clause around a file: the runner returns 1.
FileFails(r) ==
    /\ phase[r] \in {"apply", "record"} /\ at[r] \in Files
    /\ Exit(r, "failed")
    /\ UNCHANGED schemaVars

\* Any other statement raises (also when two runners create the same object
\* at once), or the process is killed.
Die(r) ==
    /\ phase[r] \notin Exited
    /\ Exit(r, "failed")
    /\ UNCHANGED schemaVars

MigrationStep ==
    \E r \in Runners :
        \/ StartRunner(r) \/ Build(r) \/ EnsureVersionTable(r) \/ ReadVersions(r)
        \/ Advance(r) \/ Apply(r) \/ Record(r) \/ Succeed(r)
        \/ FileFails(r) \/ Die(r)

-----------------------------------------------------------------------------
(* Properties.                                                             *)

MigrationsTypeOK ==
    /\ built \subseteq Statements
    /\ versionTable \in BOOLEAN
    /\ applied \subseteq Files
    /\ recorded \subseteq Versions
    /\ phase \in [Runners -> Exited \cup
                    {"build", "table", "read", "next", "apply", "record"}]
    /\ at \in [Runners -> Int]
    /\ \A r \in Runners :
          at[r] \in CASE phase[r] = "build" -> Statements
                     [] phase[r] = "apply" -> Files
                     [] phase[r] \in {"next", "record"} -> Versions
                     [] OTHER -> Int
    /\ seen \in [Runners -> SUBSET Versions]

\* A recorded version is in the schema, and with it the whole baseline and
\* every earlier file: whatever runners overlap, fail or die between applying
\* a file and recording it, no later run skips a file that is not there
\* (migrate.py:69-88).
RecordsAreTrue ==
    \A v \in recorded :
        /\ built = Statements
        /\ 1..v \subseteq applied
=============================================================================
