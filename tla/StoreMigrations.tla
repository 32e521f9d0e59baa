---------------------------- MODULE StoreMigrations ----------------------------
(***************************************************************************)
(* Opening a writable SQLiteResultStore (storage/sqlite_store.py):         *)
(* _ensure_db runs schema.sql, then _run_migrations applies the numbered   *)
(* scripts of storage/migrations that are newer than PRAGMA user_version.  *)
(* A script takes effect statement by statement, unless it brackets itself *)
(* in BEGIN and COMMIT; the version is stamped after it, in a transaction  *)
(* of its own, and the foreign keys are checked after that.                *)
(*                                                                         *)
(* Several processes may open the same file, and each may be killed.  What *)
(* a database looks like is the set of its features: the tables, columns   *)
(* and constraints that differ between its versions.                       *)
(***************************************************************************)
EXTENDS Integers, Sequences, FiniteSets

CONSTANTS
    Opener,      \* the processes that open the store
    RunId,       \* run ids with rows in the store
    Supervisor,  \* the opener that run-streams uses before it starts its
                 \* workers, which are the others; none if not an opener
    Opens,       \* bound: how often the store is opened
    Faults,      \* {"kill"} if a process may be killed, or {}
    Initial      \* which databases there may be to begin with

ASSUME OpensAssumption == Opens \in Nat
ASSUME FaultsAssumption == Faults \subseteq {"kill"}
ASSUME InitialAssumption == Initial \subseteq {"fresh", "legacy", "release"}

VARIABLES
    \* the file
    version,  \* PRAGMA user_version
    schema,   \* its features
    runs,     \* the run ids with a row in runs
    rows,     \* of each child table, the run ids its rows refer to
    \* each process
    pc, current, found,
    stmt,     \* the next statement of the script
    fk,       \* PRAGMA foreign_keys of the connection
    \* the environment
    opens, workers_may_start

file == <<version, schema, runs, rows>>
connection == <<pc, current, found, stmt, fk>>
vars == <<file, connection, opens, workers_may_start>>

ChildTable == {"task_results", "analyzer_verdicts", "spans"}

-------------------------------------------------------------------------------
(* The scripts.  A statement needs some features and refuses others (SQLite *)
(* has no ADD COLUMN IF NOT EXISTS), adds and drops features, and may first *)
(* add the runs rows that a child table lacks.                              *)

Nothing == [needs |-> {}, refuses |-> {}, adds |-> {}, drops |-> {},
            backfills |-> {}]
CreateTable(table) == [Nothing EXCEPT !.adds = {table}]
AddColumn(column) == [Nothing EXCEPT !.refuses = {column}, !.adds = {column}]

Provenance == <<"benchmark_id", "optimization_profile", "numa_policy",
                "agentperf_version", "result_digest", "owner_id",
                "owner_kind", "host_id", "status">>
Renamed == ({Provenance[k] : k \in DOMAIN Provenance} \ {"agentperf_version"})
               \cup {"agentsysperf_version"}

Baseline == <<>>
Measurements == <<CreateTable("measurements")>>
\* The new task_results has the columns of this version, whatever the old had.
TaskResultsCompositePk ==
    <<[Nothing EXCEPT !.adds = {"logical_task_key"}, !.drops = {"elapsed_s"},
                      !.backfills = {"task_results"}]>>
BenchmarksAndProvenance ==
    <<CreateTable("benchmarks")>> \o
        [k \in DOMAIN Provenance |-> AddColumn(Provenance[k])]
VerdictUnique ==
    <<[Nothing EXCEPT !.adds = {"verdict_unique"},
                      !.backfills = {"analyzer_verdicts"}]>>
Artifacts == <<CreateTable("artifacts")>>
Bug_RenameMistyped ==
    <<[Nothing EXCEPT !.needs = {"agentperf_version"},
                      !.refuses = {"agent_sysperf_version"},
                      !.adds = {"agent_sysperf_version"},
                      !.drops = {"agentperf_version"}]>>
RenameAgentsysperfVersion ==
    <<[Nothing EXCEPT !.needs = {"agentperf_version"},
                      !.refuses = {"agentsysperf_version"},
                      !.adds = {"agentsysperf_version"},
                      !.drops = {"agentperf_version"}]>>
\* The rebuild of runs itself: it selects every column by name.
DropHardwareSkuDefault ==
    <<[Nothing EXCEPT !.needs = Renamed, !.drops = {"sku_default"}]>>
TaskResultsElapsed == <<AddColumn("elapsed_s")>>

Script == <<Baseline, Measurements, TaskResultsCompositePk,
            BenchmarksAndProvenance, VerdictUnique, Artifacts,
            RenameAgentsysperfVersion, DropHardwareSkuDefault,
            TaskResultsElapsed>>
Last == Len(Script)

-------------------------------------------------------------------------------
(* What a version promises, as the comments of the scripts list it.         *)

Column == {Provenance[k] : k \in DOMAIN Provenance} \cup
              {"agentsysperf_version", "logical_task_key", "elapsed_s",
               "sku_default"}
Feature == Column \cup {"tables", "measurements", "benchmarks",
                        "verdict_unique", "artifacts"}
Since(feature) ==
    CASE feature = "tables" -> 1
      [] feature = "measurements" -> 2
      [] feature = "logical_task_key" -> 3
      [] feature = "verdict_unique" -> 5
      [] feature = "artifacts" -> 6
      [] feature = "agentsysperf_version" -> 7
      [] feature = "elapsed_s" -> 9
      [] OTHER -> 4
Promised(v) ==
    {feature \in Feature \ {"sku_default"} : Since(feature) <= v} \
        (IF v >= 7 THEN {"agentperf_version"} ELSE {})

Orphans(t) == rows[t] \ runs
ForeignKeyViolated == \E t \in ChildTable : Orphans(t) # {}

Pc == {"closed", "version", "adopt", "next", "script", "check", "open",
       "script_failed", "check_failed"}
Failed == {"script_failed", "check_failed"}

TypeOK ==
    /\ version \in 0 .. Last
    /\ schema \subseteq Feature
    /\ runs \subseteq RunId
    /\ rows \in [ChildTable -> SUBSET RunId]
    /\ pc \in [Opener -> Pc]
    /\ current \in [Opener -> 0 .. Last]
    /\ found \in [Opener -> 0 .. Last]
    /\ stmt \in [Opener -> Nat]
    /\ fk \in [Opener -> BOOLEAN]
    /\ opens \in 0 .. Opens
    /\ workers_may_start \in BOOLEAN

-------------------------------------------------------------------------------
(* A new file; one from before versions were kept, when foreign keys were   *)
(* not enforced; one that an earlier release left.                          *)
Fresh == version = 0 /\ schema = {} /\ runs = {} /\ \A t \in ChildTable : rows[t] = {}
Legacy == version = 0 /\ schema = {"tables", "sku_default"}
Release ==
    /\ version \in 1 .. Last
    /\ schema \in {Promised(version)} \cup
                      (IF version < 8 THEN {Promised(version) \cup {"sku_default"}}
                                      ELSE {})
    /\ ~ForeignKeyViolated

Init ==
    /\ version \in 0 .. Last
    /\ runs \in SUBSET RunId
    /\ rows \in [ChildTable -> SUBSET RunId]
    /\ \/ "fresh" \in Initial /\ Fresh
       \/ "legacy" \in Initial /\ Legacy
       \/ "release" \in Initial /\ Release
    /\ pc = [o \in Opener |-> "closed"]
    /\ current = [o \in Opener |-> 0]
    /\ found = [o \in Opener |-> 0]
    /\ stmt = [o \in Opener |-> 1]
    /\ fk = [o \in Opener |-> FALSE]
    /\ opens = 0
    /\ workers_may_start = (Supervisor \notin Opener)

-------------------------------------------------------------------------------
Bug_WorkersAtOnce(o) ==
    /\ pc[o] = "closed"
    /\ opens < Opens
    /\ opens' = opens + 1
    /\ fk' = [fk EXCEPT ![o] = TRUE]
    /\ schema' = schema \cup {"tables"}
    /\ pc' = [pc EXCEPT ![o] = "version"]
    /\ UNCHANGED <<version, runs, rows, current, found, stmt, workers_may_start>>

\* _get_connection, and schema.sql: every statement of it is IF NOT EXISTS.
EnsureDb(o) ==
    /\ pc[o] = "closed"
    /\ o = Supervisor \/ workers_may_start
    /\ opens < Opens
    /\ opens' = opens + 1
    /\ fk' = [fk EXCEPT ![o] = TRUE]
    /\ schema' = schema \cup {"tables"}
    /\ pc' = [pc EXCEPT ![o] = "version"]
    /\ UNCHANGED <<version, runs, rows, current, found, stmt, workers_may_start>>

ReadVersion(o) ==
    /\ pc[o] = "version"
    /\ current' = [current EXCEPT ![o] = version]
    /\ found' = [found EXCEPT ![o] = version]
    /\ pc' = [pc EXCEPT ![o] = IF version = 0 THEN "adopt" ELSE "next"]
    /\ UNCHANGED <<file, stmt, fk, opens, workers_may_start>>

\* A version of 0 is set to that of the baseline script, which is not run.
AdoptBaseline(o) ==
    /\ pc[o] = "adopt"
    /\ version' = 1
    /\ current' = [current EXCEPT ![o] = 1]
    /\ pc' = [pc EXCEPT ![o] = "next"]
    /\ UNCHANGED <<schema, runs, rows, found, stmt, fk, opens, workers_may_start>>

Bug_KeepsForeignKeysOn(o) ==
    /\ pc[o] = "next"
    /\ current[o] < Last
    /\ stmt' = [stmt EXCEPT ![o] = 1]
    /\ pc' = [pc EXCEPT ![o] = "script"]
    /\ UNCHANGED <<file, current, found, fk, opens, workers_may_start>>

Bug_StampsFirst(o) ==
    /\ pc[o] = "next"
    /\ current[o] < Last
    /\ version' = current[o] + 1
    /\ fk' = [fk EXCEPT ![o] = FALSE]
    /\ stmt' = [stmt EXCEPT ![o] = 1]
    /\ pc' = [pc EXCEPT ![o] = "script"]
    /\ UNCHANGED <<schema, runs, rows, current, found, opens, workers_may_start>>

BeginMigration(o) ==
    /\ pc[o] = "next"
    /\ current[o] < Last
    /\ fk' = [fk EXCEPT ![o] = FALSE]
    /\ stmt' = [stmt EXCEPT ![o] = 1]
    /\ pc' = [pc EXCEPT ![o] = "script"]
    /\ UNCHANGED <<file, current, found, opens, workers_may_start>>

Statements(o) == Script[current[o] + 1]

\* With foreign keys on, dropping the old runs table deletes its rows first:
\* that cascades to the rebuilt child tables and is refused for the spans.
DropsRuns(statement) == "sku_default" \in statement.drops
Refused(o, statement) ==
    \/ ~(statement.needs \subseteq schema)
    \/ statement.refuses \cap schema # {}
    \/ fk[o] /\ DropsRuns(statement) /\ rows["spans"] \cap runs # {}

Execute(o) ==
    /\ pc[o] = "script"
    /\ stmt[o] <= Len(Statements(o))
    /\ LET statement == Statements(o)[stmt[o]]
       IN  /\ ~Refused(o, statement)
           /\ schema' = (schema \ statement.drops) \cup statement.adds
           /\ runs' = runs \cup UNION {rows[t] : t \in statement.backfills}
           /\ rows' = IF fk[o] /\ DropsRuns(statement)
                      THEN [rows EXCEPT !["task_results"] = {},
                                        !["analyzer_verdicts"] = {}]
                      ELSE rows
    /\ stmt' = [stmt EXCEPT ![o] = @ + 1]
    /\ UNCHANGED <<version, pc, current, found, fk, opens, workers_may_start>>

\* sqlite3.Error: the statement is rolled back, those before it are not.
ScriptFails(o) ==
    /\ pc[o] = "script"
    /\ stmt[o] <= Len(Statements(o))
    /\ Refused(o, Statements(o)[stmt[o]])
    /\ fk' = [fk EXCEPT ![o] = TRUE]
    /\ pc' = [pc EXCEPT ![o] = "script_failed"]
    /\ UNCHANGED <<file, current, found, stmt, opens, workers_may_start>>

Stamp(o) ==
    /\ pc[o] = "script"
    /\ stmt[o] > Len(Statements(o))
    /\ version' = current[o] + 1
    /\ pc' = [pc EXCEPT ![o] = "check"]
    /\ UNCHANGED <<schema, runs, rows, current, found, stmt, fk, opens,
                   workers_may_start>>

Bug_UndoesTheStamp(o) ==
    /\ pc[o] = "check"
    /\ fk' = [fk EXCEPT ![o] = TRUE]
    /\ IF ForeignKeyViolated
       THEN /\ pc' = [pc EXCEPT ![o] = "check_failed"]
            /\ version' = current[o]
            /\ UNCHANGED current
       ELSE /\ pc' = [pc EXCEPT ![o] = "next"]
            /\ current' = [current EXCEPT ![o] = @ + 1]
            /\ UNCHANGED version
    /\ UNCHANGED <<schema, runs, rows, found, stmt, opens, workers_may_start>>

\* foreign_key_check comes after the commit: the rollback undoes nothing.
CheckForeignKeys(o) ==
    /\ pc[o] = "check"
    /\ fk' = [fk EXCEPT ![o] = TRUE]
    /\ IF ForeignKeyViolated
       THEN /\ pc' = [pc EXCEPT ![o] = "check_failed"]
            /\ UNCHANGED current
       ELSE /\ pc' = [pc EXCEPT ![o] = "next"]
            /\ current' = [current EXCEPT ![o] = @ + 1]
    /\ UNCHANGED <<file, found, stmt, opens, workers_may_start>>

Bug_SkipsTheLast(o) ==
    /\ pc[o] = "next"
    /\ current[o] >= Last - 1
    /\ pc' = [pc EXCEPT ![o] = "open"]
    /\ UNCHANGED <<file, current, found, stmt, fk, opens, workers_may_start>>

Opened(o) ==
    /\ pc[o] = "next"
    /\ current[o] = Last
    /\ pc' = [pc EXCEPT ![o] = "open"]
    /\ UNCHANGED <<file, current, found, stmt, fk, opens, workers_may_start>>

-------------------------------------------------------------------------------
\* persist_run names the columns it writes; without one of them it raises, and
\* nothing of the run is kept.
PersistRun(o, run) ==
    /\ pc[o] = "open"
    /\ Promised(Last) \subseteq schema
    /\ runs' = runs \cup {run}
    /\ rows' = [t \in ChildTable |-> rows[t] \cup {run}]
    /\ UNCHANGED <<version, schema, connection, opens, workers_may_start>>

\* run_task_sized_streams closes its store and starts the workers; an opener
\* that failed has raised, and its command ends.
Close(o) ==
    /\ pc[o] \in {"open"} \cup Failed
    /\ pc' = [pc EXCEPT ![o] = "closed"]
    /\ workers_may_start' =
           (workers_may_start \/ (o = Supervisor /\ pc[o] = "open"))
    /\ UNCHANGED <<file, current, found, stmt, fk, opens>>

Kill(o) ==
    /\ "kill" \in Faults
    /\ pc[o] # "closed"
    /\ pc' = [pc EXCEPT ![o] = "closed"]
    /\ UNCHANGED <<file, current, found, stmt, fk, opens, workers_may_start>>

Migrate(o) ==
    \/ EnsureDb(o) \/ ReadVersion(o) \/ AdoptBaseline(o) \/ BeginMigration(o)
    \/ Execute(o) \/ ScriptFails(o) \/ Stamp(o) \/ CheckForeignKeys(o) \/ Opened(o)

Next == \E o \in Opener :
    \/ Migrate(o)
    \/ \E run \in RunId : PersistRun(o, run)
    \/ Close(o)
    \/ Kill(o)

Spec == Init /\ [][Next]_vars

-------------------------------------------------------------------------------
\* user_version never promises what the file does not have: a process that
\* reads it, now or after a kill, never skips a script that did not run.  (A
\* file of version 6 may have the column that script 7 renames already renamed.)
VersionNotAhead ==
    /\ Promised(version) \ {"agentperf_version"} \subseteq schema
    /\ version >= 4 => {"agentperf_version", "agentsysperf_version"} \cap schema # {}

\* Who has opened the store finds all of the newest schema and nothing that a
\* script removed, whatever the file was and whoever was killed before.
OpenIsCurrent ==
    \A o \in Opener : pc[o] = "open" =>
        version = Last /\ schema = Promised(Last)

\* No step of a migration loses a run or a row of its children.
RowsKept ==
    [][/\ runs \subseteq runs'
       /\ \A t \in ChildTable : rows[t] \subseteq rows'[t]]_vars

\* A store that the foreign-key check refuses is not refused for ever: it is
\* left at a later version than it was found, so that the next opening gets
\* further.
FailureAdvances ==
    \A o \in Opener : pc[o] = "check_failed" => version > found[o]

\* After run-streams has opened the store, its workers do so all at once and
\* none of them migrates anything, or fails.
WorkersDoNotMigrate ==
    \A o \in Opener \ {Supervisor} : pc[o] \notin {"adopt", "script", "check"} \cup Failed

\* No script fails on what it finds: "these run exactly once at this migration
\* version".
ScriptsRunOnce == \A o \in Opener : pc[o] # "script_failed"
===============================================================================
