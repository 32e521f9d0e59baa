------------------------- MODULE StoreMigrationsProofs -------------------------
(* Proofs about StoreMigrations, for any number of processes and run ids, any *)
(* store that there may be to begin with, any number of openings and kills.   *)
EXTENDS StoreMigrations, SequenceTheorems, TLAPS

-------------------------------------------------------------------------------
(* The scripts.                                                                *)

LEMMA LastIsNine == Last = 9
  BY DEF Last, Script

LEMMA ProvenanceIs ==
    /\ DOMAIN Provenance = 1 .. 9
    /\ \A k \in 1 .. 9 : Provenance[k] \in Column
<1>1. DOMAIN Provenance = 1 .. 9
  BY DEF Provenance
<1>2. QED
  BY <1>1 DEF Column

\* What a statement adds is a feature, what it backfills from is a child table,
\* and a script is a sequence of statements.
StatementOK(statement) ==
    statement.adds \subseteq Feature /\ statement.backfills \subseteq ChildTable
ScriptOK(script) ==
    Len(script) \in Nat /\ \A k \in 1 .. Len(script) : StatementOK(script[k])

LEMMA CreateAndAdd ==
    /\ \A table : /\ CreateTable(table).adds = {table}
                  /\ CreateTable(table).backfills = {}
    /\ \A column : /\ AddColumn(column).adds = {column}
                   /\ AddColumn(column).backfills = {}
  BY DEF CreateTable, AddColumn, Nothing

LEMMA OneStatement ==
    ASSUME NEW statement, StatementOK(statement)
    PROVE  ScriptOK(<<statement>>)
<1>1. Len(<<statement>>) = 1 /\ <<statement>>[1] = statement
  OBVIOUS
<1>2. QED
  BY <1>1 DEF ScriptOK

LEMMA ScriptsOK == \A v \in 1 .. Last : ScriptOK(Script[v])
<1>1. ScriptOK(Baseline)
  <2>1. Len(<<>>) = 0
    OBVIOUS
  <2>2. QED
    BY <2>1 DEF Baseline, ScriptOK
<1>2. ScriptOK(Measurements) /\ ScriptOK(Artifacts)
  BY OneStatement, CreateAndAdd DEF Measurements, Artifacts, StatementOK, Feature
<1>3. ScriptOK(TaskResultsElapsed)
  BY OneStatement, CreateAndAdd DEF TaskResultsElapsed, StatementOK, Feature, Column
<1>4. ScriptOK(TaskResultsCompositePk)
  <2> DEFINE statement == [Nothing EXCEPT !.adds = {"logical_task_key"},
                                          !.drops = {"elapsed_s"},
                                          !.backfills = {"task_results"}]
  <2>1. StatementOK(statement)
    BY DEF Nothing, StatementOK, Feature, Column, ChildTable
  <2>2. QED
    BY <2>1, OneStatement DEF TaskResultsCompositePk
<1>5. ScriptOK(VerdictUnique)
  <2> DEFINE statement == [Nothing EXCEPT !.adds = {"verdict_unique"},
                                          !.backfills = {"analyzer_verdicts"}]
  <2>1. StatementOK(statement)
    BY DEF Nothing, StatementOK, Feature, ChildTable
  <2>2. QED
    BY <2>1, OneStatement DEF VerdictUnique
<1>6. ScriptOK(RenameAgentsysperfVersion)
  <2> DEFINE statement == [Nothing EXCEPT !.needs = {"agentperf_version"},
                                          !.refuses = {"agentsysperf_version"},
                                          !.adds = {"agentsysperf_version"},
                                          !.drops = {"agentperf_version"}]
  <2>1. StatementOK(statement)
    BY DEF Nothing, StatementOK, Feature, Column, ChildTable
  <2>2. QED
    BY <2>1, OneStatement DEF RenameAgentsysperfVersion
<1>7. ScriptOK(DropHardwareSkuDefault)
  <2> DEFINE statement == [Nothing EXCEPT !.needs = Renamed, !.drops = {"sku_default"}]
  <2>1. StatementOK(statement)
    BY DEF Nothing, StatementOK
  <2>2. QED
    BY <2>1, OneStatement DEF DropHardwareSkuDefault
<1>8. ScriptOK(BenchmarksAndProvenance)
  <2> DEFINE S == {statement \in {CreateTable("benchmarks")} \cup
                       {AddColumn(column) : column \in Column} : TRUE}
             one == <<CreateTable("benchmarks")>>
             columns == [k \in DOMAIN Provenance |-> AddColumn(Provenance[k])]
  <2>1. \A statement \in S : StatementOK(statement)
    BY CreateAndAdd DEF StatementOK, Feature
  <2>2. one \in Seq(S)
    OBVIOUS
  <2>3. columns \in Seq(S)
    <3>1. columns = [k \in 1 .. 9 |-> AddColumn(Provenance[k])]
      BY ProvenanceIs
    <3>2. \A k \in 1 .. 9 : AddColumn(Provenance[k]) \in S
      BY ProvenanceIs
    <3> HIDE DEF S
    <3>3. columns \in [1 .. 9 -> S]
      BY <3>1, <3>2
    <3>4. QED
      BY <3>3
  <2> HIDE DEF S, one, columns
  <2>4. one \o columns \in Seq(S)
    BY <2>2, <2>3, ConcatProperties
  <2>5. QED
    BY <2>1, <2>4, LenProperties, ElementOfSeq
    DEF BenchmarksAndProvenance, ScriptOK, one, columns
<1>9. QED
  <2>1. \A v \in 1 .. 9 :
           Script[v] \in {Baseline, Measurements, TaskResultsCompositePk,
                          BenchmarksAndProvenance, VerdictUnique, Artifacts,
                          RenameAgentsysperfVersion, DropHardwareSkuDefault,
                          TaskResultsElapsed}
    BY DEF Script
  <2>2. QED
    BY <1>1, <1>2, <1>3, <1>4, <1>5, <1>6, <1>7, <1>8, <2>1, LastIsNine

-------------------------------------------------------------------------------
(* Type correctness, and the foreign keys that are off while a script runs.   *)

\* A script is started only if there is a newer one.
CurrentInv ==
    \A o \in Opener : pc[o] \in {"script", "check"} => current[o] < Last
StatementInv == \A o \in Opener : stmt[o] >= 1
TypeInv == TypeOK /\ CurrentInv /\ StatementInv

LEMMA InitType == Init => TypeInv
<1> SUFFICES ASSUME Init PROVE TypeInv
  OBVIOUS
<1>1. schema \subseteq Feature
  BY DEF Init, Fresh, Legacy, Release, Promised, Feature, Column
<1>2. pc \in [Opener -> Pc] /\ opens \in 0 .. Opens
  BY OpensAssumption DEF Init, Pc
<1>3. QED
  BY <1>1, <1>2, LastIsNine DEF Init, TypeInv, TypeOK, CurrentInv, StatementInv

LEMMA NextScript ==
    ASSUME TypeInv, NEW o \in Opener, pc[o] \in {"next", "script", "check"},
           current[o] < Last
    PROVE  /\ current[o] \in 0 .. Last - 1
           /\ current[o] + 1 \in 1 .. Last
           /\ current[o] + 1 \in 0 .. Last
<1>1. current[o] \in 0 .. Last
  BY DEF TypeInv, TypeOK
<1>2. QED
  BY <1>1, LastIsNine

LEMMA TypeStep ==
    ASSUME TypeInv, [Next]_vars
    PROVE  TypeInv'
<1> USE DEF TypeInv, TypeOK, CurrentInv, StatementInv, file, connection
<1>0. Last = 9
  BY LastIsNine
<1>1. ASSUME NEW o \in Opener, EnsureDb(o)
      PROVE  TypeInv'
  BY <1>0, <1>1, OpensAssumption DEF EnsureDb, Pc, Feature
<1>2. ASSUME NEW o \in Opener, ReadVersion(o)
      PROVE  TypeInv'
  BY <1>2 DEF ReadVersion, Pc
<1>3. ASSUME NEW o \in Opener, AdoptBaseline(o)
      PROVE  TypeInv'
  BY <1>0, <1>3 DEF AdoptBaseline, Pc
<1>4. ASSUME NEW o \in Opener, BeginMigration(o)
      PROVE  TypeInv'
  BY <1>0, <1>4 DEF BeginMigration, Pc
<1>5. ASSUME NEW o \in Opener, Execute(o)
      PROVE  TypeInv'
  <2> DEFINE script == Script[current[o] + 1]
             statement == script[stmt[o]]
  <2>1. current[o] + 1 \in 1 .. Last
    BY <1>5, NextScript DEF Execute
  <2>2. ScriptOK(script)
    BY <2>1, ScriptsOK
  <2>3. stmt[o] \in Nat /\ stmt[o] >= 1 /\ stmt[o] <= Len(script)
    BY <1>5 DEF Execute, Statements
  <2> HIDE DEF script
  <2>4. StatementOK(statement)
    BY <2>2, <2>3 DEF ScriptOK
  <2>5. /\ schema' = (schema \ statement.drops) \cup statement.adds
        /\ runs' = runs \cup UNION {rows[t] : t \in statement.backfills}
        /\ rows' = IF fk[o] /\ DropsRuns(statement)
                   THEN [rows EXCEPT !["task_results"] = {},
                                     !["analyzer_verdicts"] = {}]
                   ELSE rows
        /\ stmt' = [stmt EXCEPT ![o] = @ + 1]
        /\ UNCHANGED <<version, pc, current, found, fk, opens, workers_may_start>>
    BY <1>5 DEF Execute, Statements, script
  <2> HIDE DEF statement
  <2>6. schema' \subseteq Feature
    BY <2>4, <2>5 DEF StatementOK
  <2>7. runs' \subseteq RunId
    BY <2>4, <2>5 DEF StatementOK
  <2>8. rows' \in [ChildTable -> SUBSET RunId]
    BY <2>5
  <2>9. stmt' \in [Opener -> Nat] /\ \A r \in Opener : stmt'[r] >= 1
    BY <2>3, <2>5
  <2>10. QED
    BY <2>5, <2>6, <2>7, <2>8, <2>9
<1>6. ASSUME NEW o \in Opener, ScriptFails(o)
      PROVE  TypeInv'
  BY <1>6 DEF ScriptFails, Pc
<1>7. ASSUME NEW o \in Opener, Stamp(o)
      PROVE  TypeInv'
  <2>1. current[o] + 1 \in 0 .. Last /\ current[o] < Last
    BY <1>7, NextScript DEF Stamp
  <2>2. /\ version' = current[o] + 1 /\ pc' = [pc EXCEPT ![o] = "check"]
        /\ UNCHANGED <<schema, runs, rows, current, found, stmt, fk, opens,
                       workers_may_start>>
    BY <1>7 DEF Stamp
  <2>3. QED
    BY <2>1, <2>2 DEF Pc
<1>8. ASSUME NEW o \in Opener, CheckForeignKeys(o)
      PROVE  TypeInv'
  BY <1>0, <1>8 DEF CheckForeignKeys, Pc
<1>9. ASSUME NEW o \in Opener, Opened(o) \/ Close(o) \/ Kill(o)
      PROVE  TypeInv'
  BY <1>9 DEF Opened, Close, Kill, Pc
<1>10. ASSUME NEW o \in Opener, NEW run \in RunId, PersistRun(o, run)
      PROVE  TypeInv'
  BY <1>10 DEF PersistRun
<1>11. CASE UNCHANGED vars
  BY <1>11 DEF vars
<1>12. QED
  BY <1>1, <1>2, <1>3, <1>4, <1>5, <1>6, <1>7, <1>8, <1>9, <1>10, <1>11
  DEF Next, Migrate

\* Every variable keeps its type; in particular no script adds what is not a
\* feature of some version, and the version stays one that there is.
THEOREM TypeCorrect == Spec => []TypeOK
<1>1. TypeInv => TypeOK
  BY DEF TypeInv
<1>2. QED
  BY <1>1, InitType, TypeStep, PTL DEF Spec

-------------------------------------------------------------------------------
(* No row is lost.  Dropping the old runs table would cascade; a process has  *)
(* the foreign keys off for as long as it is in a script.                     *)

ForeignKeysInv == \A o \in Opener : pc[o] = "script" => ~fk[o]

LEMMA ForeignKeysStep ==
    ASSUME TypeInv, ForeignKeysInv, [Next]_vars
    PROVE  ForeignKeysInv'
<1> USE DEF ForeignKeysInv, TypeInv, TypeOK
<1>1. ASSUME NEW o \in Opener,
             EnsureDb(o) \/ ReadVersion(o) \/ AdoptBaseline(o) \/ BeginMigration(o)
      PROVE  ForeignKeysInv'
  BY <1>1 DEF EnsureDb, ReadVersion, AdoptBaseline, BeginMigration
<1>2. ASSUME NEW o \in Opener, ScriptFails(o) \/ Stamp(o) \/ CheckForeignKeys(o)
      PROVE  ForeignKeysInv'
  BY <1>2 DEF ScriptFails, Stamp, CheckForeignKeys
<1>3. ASSUME NEW o \in Opener, Execute(o)
      PROVE  ForeignKeysInv'
  BY <1>3 DEF Execute
<1>4. ASSUME NEW o \in Opener, Opened(o) \/ Close(o) \/ Kill(o)
      PROVE  ForeignKeysInv'
  BY <1>4 DEF Opened, Close, Kill
<1>5. ASSUME NEW o \in Opener, NEW run \in RunId, PersistRun(o, run)
      PROVE  ForeignKeysInv'
  BY <1>5 DEF PersistRun, connection
<1>6. CASE UNCHANGED vars
  BY <1>6 DEF vars, connection
<1>7. QED
  BY <1>1, <1>2, <1>3, <1>4, <1>5, <1>6 DEF Next, Migrate

RowsStay == /\ runs \subseteq runs'
            /\ \A t \in ChildTable : rows[t] \subseteq rows'[t]

LEMMA RowsStep ==
    ASSUME TypeInv, ForeignKeysInv, [Next]_vars
    PROVE  RowsStay
<1>1. ASSUME NEW o \in Opener, Execute(o)
      PROVE  RowsStay
  <2>1. ~fk[o]
    BY <1>1 DEF Execute, ForeignKeysInv
  <2>2. rows' = rows
    BY <1>1, <2>1 DEF Execute
  <2>3. runs \subseteq runs'
    BY <1>1 DEF Execute
  <2>4. QED
    BY <2>2, <2>3 DEF RowsStay
<1>2. ASSUME NEW o \in Opener, NEW run \in RunId, PersistRun(o, run)
      PROVE  RowsStay
  BY <1>2 DEF PersistRun, RowsStay
<1>3. ASSUME NEW o \in Opener,
             \/ EnsureDb(o) \/ ReadVersion(o) \/ AdoptBaseline(o)
             \/ BeginMigration(o) \/ ScriptFails(o) \/ Stamp(o)
             \/ CheckForeignKeys(o) \/ Opened(o) \/ Close(o) \/ Kill(o)
      PROVE  UNCHANGED <<runs, rows>>
  BY <1>3 DEF EnsureDb, ReadVersion, AdoptBaseline, BeginMigration, ScriptFails,
              Stamp, CheckForeignKeys, Opened, Close, Kill, file
<1>4. CASE UNCHANGED vars
  BY <1>4 DEF vars, file, RowsStay
<1>5. QED
  BY <1>1, <1>2, <1>3, <1>4 DEF Next, Migrate, RowsStay

\* No step of any opening loses a run or a row of its children, whoever else
\* opens the file and whoever is killed.
THEOREM RowsAreKept == Spec => RowsKept
<1>1. Init => ForeignKeysInv
  BY DEF Init, ForeignKeysInv
<1>2. TypeInv /\ ForeignKeysInv /\ [Next]_vars =>
          [/\ runs \subseteq runs'
           /\ \A t \in ChildTable : rows[t] \subseteq rows'[t]]_vars
  BY RowsStep DEF RowsStay
<1>3. QED
  BY <1>1, <1>2, InitType, TypeStep, ForeignKeysStep, PTL DEF Spec, RowsKept

-------------------------------------------------------------------------------
(* One process opens the store before all others.  While it is alone, what it *)
(* believes the version to be is what it is; after that the version is the    *)
(* last one and nobody has a script to run.                                    *)

OthersWait ==
    \A o \in Opener \ {Supervisor} : pc[o] # "closed" => workers_may_start
Settled ==
    workers_may_start =>
        /\ version = Last
        /\ \A o \in Opener : /\ pc[o] \in {"closed", "version", "next", "open"}
                             /\ pc[o] = "next" => current[o] = Last
Believes ==
    LET s == Supervisor
    IN  /\ pc[s] = "adopt" => version = 0 /\ found[s] = 0
        /\ pc[s] \in {"next", "script"} => current[s] = version
        /\ pc[s] \in {"check", "check_failed"} => version = current[s] + 1
        /\ pc[s] = "open" => version = Last
        /\ pc[s] \in {"next", "script", "check", "check_failed"}
              => found[s] <= current[s]
SupervisedInv == OthersWait /\ Settled /\ Believes

LEMMA InitSupervised ==
    ASSUME Supervisor \in Opener, Init
    PROVE  SupervisedInv
  BY DEF Init, SupervisedInv, OthersWait, Settled, Believes

\* A worker is only ever active on a store that is settled.
LEMMA WorkerStep ==
    ASSUME Supervisor \in Opener, TypeInv, SupervisedInv,
           NEW o \in Opener \ {Supervisor},
           Migrate(o) \/ (\E run \in RunId : PersistRun(o, run)) \/ Close(o) \/ Kill(o)
    PROVE  SupervisedInv'
<1> USE DEF TypeInv, TypeOK
<1>0. Last = 9
  BY LastIsNine
<1>1. workers_may_start
  BY DEF Migrate, EnsureDb, ReadVersion, AdoptBaseline, BeginMigration, Execute,
         ScriptFails, Stamp, CheckForeignKeys, Opened, PersistRun, Close, Kill,
         Failed, SupervisedInv, OthersWait
<1>2. /\ version = Last /\ pc[o] \in {"closed", "version", "next", "open"}
      /\ pc[o] = "next" => current[o] = Last
  BY <1>1 DEF SupervisedInv, Settled
<1>3. /\ UNCHANGED <<version, workers_may_start>>
      /\ \A r \in Opener \ {o} : UNCHANGED <<pc[r], current[r], found[r]>>
      /\ pc'[o] \in {"closed", "version", "next", "open"}
      /\ pc'[o] = "next" => current'[o] = Last
  <2>1. CASE EnsureDb(o)
    BY <2>1 DEF EnsureDb
  <2>2. CASE ReadVersion(o)
    BY <1>0, <1>2, <2>2 DEF ReadVersion, file
  <2>3. CASE Opened(o)
    BY <2>3 DEF Opened, file
  <2>4. CASE \E run \in RunId : PersistRun(o, run)
    BY <1>2, <2>4 DEF PersistRun, connection
  <2>5. CASE Close(o)
    BY <1>1, <2>5 DEF Close, file
  <2>6. CASE Kill(o)
    BY <2>6 DEF Kill, file
  <2>7. CASE AdoptBaseline(o) \/ BeginMigration(o) \/ Execute(o) \/ ScriptFails(o)
             \/ Stamp(o) \/ CheckForeignKeys(o)
    BY <1>0, <1>2, <2>7 DEF AdoptBaseline, BeginMigration, Execute, ScriptFails,
                            Stamp, CheckForeignKeys
  <2>8. QED
    BY <2>1, <2>2, <2>3, <2>4, <2>5, <2>6, <2>7 DEF Migrate
<1>4. QED
  BY <1>1, <1>2, <1>3 DEF SupervisedInv, OthersWait, Settled, Believes

LEMMA SupervisorStep ==
    ASSUME Supervisor \in Opener, TypeInv, SupervisedInv,
           Migrate(Supervisor) \/ (\E run \in RunId : PersistRun(Supervisor, run))
               \/ Close(Supervisor) \/ Kill(Supervisor)
    PROVE  SupervisedInv'
<1> DEFINE s == Supervisor
<1> USE DEF TypeInv, TypeOK, SupervisedInv, OthersWait, Settled, Believes
<1>0. Last = 9 /\ s \in Opener
  BY LastIsNine
<1>1. CASE EnsureDb(s)
  BY <1>0, <1>1 DEF EnsureDb
<1>2. CASE ReadVersion(s)
  BY <1>0, <1>2 DEF ReadVersion, file
<1>3. CASE AdoptBaseline(s)
  BY <1>0, <1>3 DEF AdoptBaseline
<1>4. CASE BeginMigration(s)
  BY <1>0, <1>4 DEF BeginMigration, file
<1>5. CASE Execute(s)
  <2>1. /\ pc[s] = "script"
        /\ UNCHANGED <<version, pc, current, found, workers_may_start>>
    BY <1>5 DEF Execute
  <2>2. QED
    BY <1>0, <2>1
<1>6. CASE ScriptFails(s)
  BY <1>0, <1>6 DEF ScriptFails, file
<1>7. CASE Stamp(s)
  BY <1>0, <1>7 DEF Stamp
<1>8. CASE CheckForeignKeys(s)
  BY <1>0, <1>8 DEF CheckForeignKeys, file
<1>9. CASE Opened(s)
  BY <1>0, <1>9 DEF Opened, file
<1>10. CASE \E run \in RunId : PersistRun(s, run)
  <2>1. UNCHANGED <<version, pc, current, found, workers_may_start>>
    BY <1>10 DEF PersistRun, connection
  <2>2. QED
    BY <2>1
<1>11. CASE Close(s)
  BY <1>0, <1>11 DEF Close, file, Failed
<1>12. CASE Kill(s)
  BY <1>0, <1>12 DEF Kill, file
<1>13. QED
  BY <1>1, <1>2, <1>3, <1>4, <1>5, <1>6, <1>7, <1>8, <1>9, <1>10, <1>11, <1>12
  DEF Migrate

LEMMA SupervisedStep ==
    ASSUME Supervisor \in Opener, TypeInv, SupervisedInv, [Next]_vars
    PROVE  SupervisedInv'
<1>1. CASE UNCHANGED vars
  BY <1>1 DEF vars, file, connection, SupervisedInv, OthersWait, Settled, Believes
<1>2. CASE Next
  <2>1. PICK o \in Opener :
            Migrate(o) \/ (\E run \in RunId : PersistRun(o, run)) \/ Close(o) \/ Kill(o)
    BY <1>2 DEF Next
  <2>2. QED
    BY <2>1, WorkerStep, SupervisorStep
<1>3. QED
  BY <1>1, <1>2

\* Where one process opens the store before the others, none of those migrates
\* anything or fails.
THEOREM WorkersFindItMigrated ==
    ASSUME Supervisor \in Opener
    PROVE  Spec => []WorkersDoNotMigrate
<1>1. SupervisedInv => WorkersDoNotMigrate
  BY DEF SupervisedInv, OthersWait, Settled, WorkersDoNotMigrate, Failed
<1>2. QED
  BY <1>1, InitType, TypeStep, InitSupervised, SupervisedStep, PTL DEF Spec

\* There, a store that is refused has got further than it was.
THEOREM RefusalsEnd ==
    ASSUME Supervisor \in Opener
    PROVE  Spec => []FailureAdvances
<1>1. TypeInv /\ SupervisedInv => FailureAdvances
  <2> SUFFICES ASSUME TypeInv, SupervisedInv, NEW o \in Opener, pc[o] = "check_failed"
               PROVE  version > found[o]
    BY DEF FailureAdvances
  <2>1. o = Supervisor
    BY DEF SupervisedInv, OthersWait, Settled
  <2>2. version = current[o] + 1 /\ found[o] <= current[o]
    BY <2>1 DEF SupervisedInv, Believes
  <2>3. current[o] \in Int /\ found[o] \in Int
    BY LastIsNine DEF TypeInv, TypeOK
  <2>4. QED
    BY <2>2, <2>3
<1>2. QED
  BY <1>1, InitType, TypeStep, InitSupervised, SupervisedStep, PTL DEF Spec

-------------------------------------------------------------------------------
(* The schema.  What a script is for: it adds what is new in its version, and *)
(* drops nothing that an earlier version promises but the renamed column.     *)

NewIn(v) == {feature \in Feature \ {"sku_default"} : Since(feature) = v}

Fits(script, v) ==
    /\ Len(script) \in Nat
    /\ \A k \in 1 .. Len(script) :
          /\ script[k].drops \cap (Promised(v - 1) \ {"agentperf_version"}) = {}
          /\ \/ script[k].drops = {}
             \/ Len(script) = 1 /\ script[k].drops \cap script[k].adds = {}
          /\ "agentperf_version" \in script[k].drops
                => "agentsysperf_version" \in script[k].adds
          /\ "agentsysperf_version" \notin script[k].drops
          /\ "agentperf_version" \in script[k].adds => v < 7
          /\ "sku_default" \notin script[k].adds
    /\ \A feature \in NewIn(v) :
          \E k \in 1 .. Len(script) : feature \in script[k].adds
    /\ v = 7 => \E k \in 1 .. Len(script) : "agentperf_version" \in script[k].drops
    /\ v = 8 => \E k \in 1 .. Len(script) : "sku_default" \in script[k].drops

LEMMA OneFits ==
    ASSUME NEW statement, NEW v,
           statement.drops \cap (Promised(v - 1) \ {"agentperf_version"}) = {},
           statement.drops \cap statement.adds = {},
           "agentperf_version" \in statement.drops
               => "agentsysperf_version" \in statement.adds,
           "agentsysperf_version" \notin statement.drops,
           "agentperf_version" \notin statement.adds,
           "sku_default" \notin statement.adds,
           NewIn(v) \subseteq statement.adds,
           v = 7 => "agentperf_version" \in statement.drops,
           v = 8 => "sku_default" \in statement.drops
    PROVE  Fits(<<statement>>, v)
<1>1. Len(<<statement>>) = 1 /\ <<statement>>[1] = statement
  OBVIOUS
<1>2. \A k \in 1 .. 1 : <<statement>>[k] = statement
  OBVIOUS
<1> DEFINE script == <<statement>>
<1>3. Len(script) = 1 /\ script[1] = statement /\ \A k \in 1 .. 1 : script[k] = statement
  BY <1>1, <1>2
<1> HIDE DEF script
<1>4. Fits(script, v)
  BY <1>3 DEF Fits
<1>5. QED
  BY <1>4 DEF script

LEMMA VersionColumns ==
    {"agentperf_version", "agentsysperf_version"} \subseteq Feature
<1>1. Provenance[4] = "agentperf_version" /\ 4 \in DOMAIN Provenance
  BY DEF Provenance
<1>2. QED
  BY <1>1 DEF Feature, Column

\* When each feature came, spelled out.
LEMMA SinceIs ==
    /\ NewIn(2) = {"measurements"} /\ NewIn(3) = {"logical_task_key"}
    /\ NewIn(5) = {"verdict_unique"} /\ NewIn(6) = {"artifacts"}
    /\ NewIn(7) = {"agentsysperf_version"} /\ NewIn(8) = {}
    /\ NewIn(9) = {"elapsed_s"}
    /\ NewIn(4) = {Provenance[k] : k \in DOMAIN Provenance} \cup {"benchmarks"}
<1>1. {Provenance[k] : k \in DOMAIN Provenance} =
          {"benchmark_id", "optimization_profile", "numa_policy",
           "agentperf_version", "result_digest", "owner_id", "owner_kind",
           "host_id", "status"}
  <2>1. \A k \in 1 .. 9 : k \in {1, 2, 3, 4, 5, 6, 7, 8, 9}
    OBVIOUS
  <2>2. QED
    BY <2>1, ProvenanceIs DEF Provenance
<1>2. Feature \ {"sku_default"} =
          {"benchmark_id", "optimization_profile", "numa_policy",
           "agentperf_version", "result_digest", "owner_id", "owner_kind",
           "host_id", "status", "agentsysperf_version", "logical_task_key",
           "elapsed_s", "tables", "measurements", "benchmarks",
           "verdict_unique", "artifacts"}
  BY <1>1 DEF Feature, Column
<1>3. /\ Since("tables") = 1 /\ Since("measurements") = 2
      /\ Since("logical_task_key") = 3 /\ Since("verdict_unique") = 5
      /\ Since("artifacts") = 6 /\ Since("agentsysperf_version") = 7
      /\ Since("elapsed_s") = 9
      /\ \A feature \in {"benchmark_id", "optimization_profile", "numa_policy",
                         "agentperf_version", "result_digest", "owner_id",
                         "owner_kind", "host_id", "status", "benchmarks"} :
            Since(feature) = 4
  BY DEF Since
<1>4. NewIn(2) = {"measurements"} /\ NewIn(3) = {"logical_task_key"}
  BY <1>2, <1>3 DEF NewIn
<1>5. NewIn(5) = {"verdict_unique"} /\ NewIn(6) = {"artifacts"}
  BY <1>2, <1>3 DEF NewIn
<1>6. NewIn(7) = {"agentsysperf_version"} /\ NewIn(8) = {} /\ NewIn(9) = {"elapsed_s"}
  BY <1>2, <1>3 DEF NewIn
<1>7. NewIn(4) = {"benchmark_id", "optimization_profile", "numa_policy",
                  "agentperf_version", "result_digest", "owner_id",
                  "owner_kind", "host_id", "status", "benchmarks"}
  BY <1>2, <1>3 DEF NewIn
<1>8. QED
  BY <1>1, <1>4, <1>5, <1>6, <1>7

\* What is promised grows with the version, but for the renamed column.
LEMMA PromisedNext ==
    ASSUME NEW v \in 1 .. 8
    PROVE  /\ Promised(v + 1) \ {"agentperf_version"} \subseteq
                  (Promised(v) \ {"agentperf_version"}) \cup NewIn(v + 1)
           /\ "sku_default" \notin Promised(v)
<1>1. \A feature : Since(feature) \in 1 .. 9
  BY DEF Since
<1>2. \A feature : Since(feature) <= v + 1 => Since(feature) <= v \/ Since(feature) = v + 1
  BY <1>1
<1>3. QED
  BY <1>2 DEF Promised, NewIn

LEMMA PlainStatement ==
    /\ \A table : CreateTable(table).drops = {} /\ CreateTable(table).adds = {table}
    /\ \A column : AddColumn(column).drops = {} /\ AddColumn(column).adds = {column}
  BY DEF CreateTable, AddColumn, Nothing

LEMMA ProvenanceScriptFits == Fits(BenchmarksAndProvenance, 4)
<1> DEFINE script == BenchmarksAndProvenance
           one == <<CreateTable("benchmarks")>>
           columns == [k \in DOMAIN Provenance |-> AddColumn(Provenance[k])]
           S == {CreateTable("benchmarks")} \cup {AddColumn(c) : c \in Column}
<1>1. columns = [k \in 1 .. 9 |-> AddColumn(Provenance[k])]
  BY ProvenanceIs
<1>2. \A k \in 1 .. 9 : AddColumn(Provenance[k]) \in S
  BY ProvenanceIs
<1>3. one \in Seq(S) /\ Len(one) = 1 /\ one[1] = CreateTable("benchmarks")
  OBVIOUS
<1> HIDE DEF S, one
<1>4. columns \in Seq(S)
  BY <1>1, <1>2
<1>5. Len(columns) = 9 /\ \A k \in 1 .. 9 : columns[k] = AddColumn(Provenance[k])
  BY <1>1
<1> HIDE DEF columns
<1>6. script = one \o columns
  BY DEF one, columns, BenchmarksAndProvenance
<1> HIDE DEF script
<1>7. /\ Len(script) = 10 /\ script[1] = CreateTable("benchmarks")
      /\ \A k \in 2 .. 10 : script[k] = AddColumn(Provenance[k - 1])
  <2>1. /\ Len(one \o columns) = Len(one) + Len(columns)
        /\ \A k \in 1 .. Len(one) + Len(columns) :
              (one \o columns)[k] = IF k <= Len(one) THEN one[k]
                                    ELSE columns[k - Len(one)]
    BY <1>3, <1>4, ConcatProperties
  <2>2. /\ Len(script) = 10
        /\ \A k \in 1 .. 10 : script[k] = IF k <= 1 THEN one[k] ELSE columns[k - 1]
    BY <1>3, <1>5, <1>6, <2>1
  <2>3. script[1] = CreateTable("benchmarks")
    BY <1>3, <2>2
  <2>4. ASSUME NEW k \in 2 .. 10
        PROVE  script[k] = AddColumn(Provenance[k - 1])
    <3>1. k - 1 \in 1 .. 9 /\ k \in 1 .. 10 /\ ~(k <= 1)
      OBVIOUS
    <3>2. QED
      BY <1>5, <2>2, <3>1
  <2>5. QED
    BY <2>2, <2>3, <2>4
<1>8. \A k \in 1 .. 10 : /\ script[k].drops = {}
                         /\ script[k].adds \subseteq NewIn(4)
  <2>1. \A k \in 2 .. 10 : Provenance[k - 1] \in NewIn(4)
    BY ProvenanceIs, SinceIs
  <2>2. "benchmarks" \in NewIn(4)
    BY SinceIs
  <2>3. \A k \in 1 .. 10 : k = 1 \/ k \in 2 .. 10
    OBVIOUS
  <2>4. QED
    BY <1>7, <2>1, <2>2, <2>3, PlainStatement
<1>9. \A feature \in NewIn(4) : \E k \in 1 .. 10 : feature \in script[k].adds
  <2> SUFFICES ASSUME NEW feature \in NewIn(4)
               PROVE  \E k \in 1 .. 10 : feature \in script[k].adds
    OBVIOUS
  <2>1. CASE feature = "benchmarks"
    BY <1>7, <2>1, PlainStatement
  <2>2. CASE feature # "benchmarks"
    <3>1. PICK j \in 1 .. 9 : feature = Provenance[j]
      BY <2>2, SinceIs, ProvenanceIs
    <3>2. j + 1 \in 2 .. 10 /\ j + 1 \in 1 .. 10 /\ (j + 1) - 1 = j
      OBVIOUS
    <3>3. script[j + 1] = AddColumn(Provenance[j])
      BY <1>7, <3>2
    <3>4. QED
      BY <3>1, <3>2, <3>3, PlainStatement
  <2>3. QED
    BY <2>1, <2>2
<1>10. "agentsysperf_version" \notin NewIn(4) /\ "sku_default" \notin NewIn(4)
  BY DEF NewIn, Since
<1>11. Fits(script, 4)
  BY <1>7, <1>8, <1>9, <1>10 DEF Fits
<1>12. QED
  BY <1>11 DEF script

LEMMA ScriptsFit == \A v \in 2 .. 9 : Fits(Script[v], v)
<1>1. Fits(Measurements, 2)
  BY OneFits, PlainStatement, SinceIs DEF Measurements
<1>2. Fits(TaskResultsCompositePk, 3)
  <2> DEFINE statement == [Nothing EXCEPT !.adds = {"logical_task_key"},
                                          !.drops = {"elapsed_s"},
                                          !.backfills = {"task_results"}]
  <2>1. statement.adds = {"logical_task_key"} /\ statement.drops = {"elapsed_s"}
    BY DEF Nothing
  <2>2. "elapsed_s" \notin Promised(3 - 1)
    BY DEF Promised, Since
  <2> HIDE DEF statement
  <2>3. Fits(<<statement>>, 3)
    BY <2>1, <2>2, OneFits, SinceIs
  <2>4. QED
    BY <2>3 DEF statement, TaskResultsCompositePk
<1>3. Fits(VerdictUnique, 5)
  <2> DEFINE statement == [Nothing EXCEPT !.adds = {"verdict_unique"},
                                          !.backfills = {"analyzer_verdicts"}]
  <2>1. statement.adds = {"verdict_unique"} /\ statement.drops = {}
    BY DEF Nothing
  <2> HIDE DEF statement
  <2>2. Fits(<<statement>>, 5)
    BY <2>1, OneFits, SinceIs
  <2>3. QED
    BY <2>2 DEF statement, VerdictUnique
<1>4. Fits(Artifacts, 6)
  BY OneFits, PlainStatement, SinceIs DEF Artifacts
<1>5. Fits(RenameAgentsysperfVersion, 7)
  <2> DEFINE statement == [Nothing EXCEPT !.needs = {"agentperf_version"},
                                          !.refuses = {"agentsysperf_version"},
                                          !.adds = {"agentsysperf_version"},
                                          !.drops = {"agentperf_version"}]
  <2>1. /\ statement.adds = {"agentsysperf_version"}
        /\ statement.drops = {"agentperf_version"}
    BY DEF Nothing
  <2> HIDE DEF statement
  <2>2. Fits(<<statement>>, 7)
    BY <2>1, OneFits, SinceIs
  <2>3. QED
    BY <2>2 DEF statement, RenameAgentsysperfVersion
<1>6. Fits(DropHardwareSkuDefault, 8)
  <2> DEFINE statement == [Nothing EXCEPT !.needs = Renamed, !.drops = {"sku_default"}]
  <2>1. statement.adds = {} /\ statement.drops = {"sku_default"}
    BY DEF Nothing
  <2>2. "sku_default" \notin Promised(8 - 1)
    BY DEF Promised
  <2> HIDE DEF statement
  <2>3. Fits(<<statement>>, 8)
    BY <2>1, <2>2, OneFits, SinceIs
  <2>4. QED
    BY <2>3 DEF statement, DropHardwareSkuDefault
<1>7. Fits(TaskResultsElapsed, 9)
  BY OneFits, PlainStatement, SinceIs DEF TaskResultsElapsed
<1>8. /\ Script[2] = Measurements /\ Script[3] = TaskResultsCompositePk
      /\ Script[4] = BenchmarksAndProvenance /\ Script[5] = VerdictUnique
      /\ Script[6] = Artifacts /\ Script[7] = RenameAgentsysperfVersion
      /\ Script[8] = DropHardwareSkuDefault /\ Script[9] = TaskResultsElapsed
  BY DEF Script
<1>9. \A v \in 2 .. 9 : v \in {2, 3, 4, 5, 6, 7, 8, 9}
  OBVIOUS
<1>10. QED
  BY <1>1, <1>2, <1>3, <1>4, <1>5, <1>6, <1>7, <1>8, <1>9, ProvenanceScriptFits

\* What a script has executed so far is done, and the version is stamped after
\* all of it.
DroppedInv ==
    /\ version >= 7 => "agentperf_version" \notin schema
    /\ version >= 8 => "sku_default" \notin schema
StartedInv ==
    /\ pc[Supervisor] # "closed" => "tables" \in schema
    /\ pc[Supervisor] \in {"next", "script", "check"} => current[Supervisor] >= 1
ProgressInv ==
    LET script == Statements(Supervisor)
    IN  pc[Supervisor] = "script" =>
            \A k \in 1 .. Len(script) : k < stmt[Supervisor] =>
                /\ script[k].adds \subseteq schema
                /\ script[k].drops \cap schema = {}
SchemaInv == VersionNotAhead /\ DroppedInv /\ StartedInv /\ ProgressInv

LEMMA RenamedColumn ==
    /\ \A v \in 4 .. 6 : "agentperf_version" \in Promised(v)
    /\ \A v \in 7 .. 9 : "agentsysperf_version" \in Promised(v)
    /\ \A v \in 7 .. 9 : "agentperf_version" \notin Promised(v)
    /\ \A v : "sku_default" \notin Promised(v)
<1>1. Since("agentperf_version") = 4 /\ Since("agentsysperf_version") = 7
  BY DEF Since
<1>2. "agentperf_version" \in Feature /\ "agentsysperf_version" \in Feature
  BY VersionColumns
<1>3. QED
  BY <1>1, <1>2 DEF Promised

LEMMA NothingPromised ==
    /\ Promised(0) = {}
    /\ Promised(1) = {"tables"}
<1>1. \A feature : Since(feature) \in 1 .. 9
  BY DEF Since
<1>2. \A feature : Since(feature) = 1 <=> feature = "tables"
  BY DEF Since
<1>3. QED
  BY <1>1, <1>2 DEF Promised, Feature

LEMMA InitSchema ==
    ASSUME Supervisor \in Opener, Init
    PROVE  SchemaInv
<1>1. pc[Supervisor] = "closed"
  BY DEF Init
<1>2. StartedInv /\ ProgressInv
  BY <1>1 DEF StartedInv, ProgressInv
<1>3. CASE version = 0
  BY <1>2, <1>3, NothingPromised DEF VersionNotAhead, DroppedInv, SchemaInv
<1>4. CASE Release
  <2>1. version \in 1 .. 9 /\ Promised(version) \subseteq schema
    BY <1>4, LastIsNine DEF Release
  <2>2. version \in 4 .. 6 \/ version \in 7 .. 9 \/ version < 4
    BY <2>1
  <2>3. VersionNotAhead
    BY <2>1, <2>2, RenamedColumn DEF VersionNotAhead
  <2>4. schema \subseteq Promised(version) \cup (IF version < 8 THEN {"sku_default"} ELSE {})
    BY <1>4 DEF Release
  <2>5. DroppedInv
    BY <2>1, <2>4, RenamedColumn DEF DroppedInv
  <2>6. QED
    BY <1>2, <2>3, <2>5 DEF SchemaInv
<1>5. QED
  BY <1>3, <1>4 DEF Init, Fresh, Legacy

LEMMA ScriptOfVersion ==
    ASSUME Supervisor \in Opener, TypeInv, SupervisedInv, SchemaInv,
           pc[Supervisor] = "script"
    PROVE  /\ current[Supervisor] = version /\ version \in 1 .. 8
           /\ Statements(Supervisor) = Script[version + 1]
           /\ Fits(Statements(Supervisor), version + 1)
<1>1. current[Supervisor] = version /\ current[Supervisor] >= 1
  BY DEF SupervisedInv, Believes, SchemaInv, StartedInv
<1>2. version \in 0 .. 9 /\ version < 9
  BY <1>1, LastIsNine DEF TypeInv, TypeOK, CurrentInv
<1>3. version \in 1 .. 8 /\ version + 1 \in 2 .. 9
  BY <1>1, <1>2
<1>4. Statements(Supervisor) = Script[version + 1]
  BY <1>1 DEF Statements
<1>5. QED
  BY <1>1, <1>3, <1>4, ScriptsFit

LEMMA ExecuteSchema ==
    ASSUME Supervisor \in Opener, TypeInv, SupervisedInv, SchemaInv,
           Execute(Supervisor)
    PROVE  SchemaInv'
<1> DEFINE s == Supervisor
           script == Statements(s)
           v == version + 1
           n == stmt[s]
           now == script[n]
<1>1. pc[s] = "script"
  BY DEF Execute
<1>2. version \in 1 .. 8 /\ Fits(script, v)
  BY <1>1, ScriptOfVersion
<1>3. /\ n \in 1 .. Len(script) /\ Len(script) \in Nat
      /\ schema' = (schema \ now.drops) \cup now.adds
      /\ stmt'[s] = n + 1
      /\ UNCHANGED <<version, pc, current>>
  <2>1. n \in Nat /\ n >= 1
    BY DEF TypeInv, TypeOK, StatementInv
  <2>2. n <= Len(script)
    BY DEF Execute
  <2>3. Len(script) \in Nat
    BY <1>2 DEF Fits
  <2>4. stmt'[s] = n + 1
    BY DEF Execute, TypeInv, TypeOK
  <2>5. QED
    BY <2>1, <2>2, <2>3, <2>4 DEF Execute
<1>4. script' = script
  BY <1>3 DEF Statements
<1>5. /\ VersionNotAhead /\ DroppedInv
      /\ \A k \in 1 .. Len(script) : k < n =>
            script[k].adds \subseteq schema /\ script[k].drops \cap schema = {}
  BY <1>1 DEF SchemaInv, ProgressInv
<1>6. "tables" \in schema /\ current[s] >= 1
  BY <1>1 DEF SchemaInv, StartedInv
<1>7. "tables" \notin now.drops
  <2>1. "tables" \in Promised(version)
    <3>1. Since("tables") = 1 /\ "tables" \in Feature
      BY DEF Since, Feature
    <3>2. QED
      BY <1>2, <3>1 DEF Promised
  <2>2. now.drops \cap (Promised(v - 1) \ {"agentperf_version"}) = {}
    BY <1>2, <1>3 DEF Fits
  <2>3. v - 1 = version
    BY <1>2
  <2>4. QED
    BY <2>1, <2>2, <2>3
<1> HIDE DEF script, v, n, now
<1>8. /\ now.drops \cap (Promised(version) \ {"agentperf_version"}) = {}
      /\ now.drops = {} \/ (Len(script) = 1 /\ now.drops \cap now.adds = {})
      /\ "agentperf_version" \in now.drops => "agentsysperf_version" \in now.adds
      /\ "agentsysperf_version" \notin now.drops
      /\ "agentperf_version" \in now.adds => version + 1 < 7
      /\ "sku_default" \notin now.adds
  <2>1. v - 1 = version
    BY <1>2 DEF v
  <2>2. QED
    BY <1>2, <1>3, <2>1 DEF Fits, now, v
<1>9. VersionNotAhead'
  BY <1>3, <1>5, <1>8 DEF VersionNotAhead
<1>10. DroppedInv'
  BY <1>2, <1>3, <1>5, <1>8 DEF DroppedInv
<1>11. StartedInv'
  BY <1>3, <1>6, <1>7 DEF StartedInv, s
<1>12. ASSUME NEW k \in 1 .. Len(script), k < n + 1
       PROVE  script[k].adds \subseteq schema' /\ script[k].drops \cap schema' = {}
  <2>1. CASE k = n
    BY <1>3, <1>8, <2>1 DEF now
  <2>2. CASE k < n
    <3>1. Len(script) # 1
      <4> DEFINE length == Len(script)
      <4>1. /\ length \in Nat /\ n \in Nat /\ k \in Nat
            /\ 1 <= k /\ n <= length
        BY <1>3, <1>12
      <4> HIDE DEF length
      <4>2. length # 1
        BY <2>2, <4>1
      <4>3. QED
        BY <4>2 DEF length
    <3>2. now.drops = {} /\ script[k].drops = {}
      BY <1>2, <1>8, <1>12, <3>1 DEF Fits
    <3>3. QED
      BY <1>3, <1>5, <1>12, <2>2, <3>2
  <2>3. QED
    BY <1>3, <1>12, <2>1, <2>2
<1>13. ProgressInv'
  BY <1>3, <1>4, <1>12 DEF ProgressInv, script, s
<1>14. QED
  BY <1>9, <1>10, <1>11, <1>13 DEF SchemaInv

LEMMA StampSchema ==
    ASSUME Supervisor \in Opener, TypeInv, SupervisedInv, SchemaInv,
           Stamp(Supervisor)
    PROVE  SchemaInv'
<1> DEFINE s == Supervisor
           script == Statements(s)
           v == version + 1
<1>1. /\ pc[s] = "script" /\ pc'[s] = "check" /\ stmt[s] > Len(script)
      /\ version' = current[s] + 1 /\ UNCHANGED <<schema, current>>
  BY DEF Stamp, TypeInv, TypeOK
<1>2. version \in 1 .. 8 /\ Fits(script, v) /\ version' = v
  BY <1>1, ScriptOfVersion
<1>3. Len(script) \in Nat /\ stmt[s] \in Nat
  BY <1>2 DEF Fits, TypeInv, TypeOK
<1>4. \A k \in 1 .. Len(script) :
          script[k].adds \subseteq schema /\ script[k].drops \cap schema = {}
  BY <1>1, <1>3 DEF SchemaInv, ProgressInv
<1> HIDE DEF script
<1>5. NewIn(v) \subseteq schema
  BY <1>2, <1>4 DEF Fits
<1>6. /\ v = 7 => "agentperf_version" \notin schema
      /\ v = 8 => "sku_default" \notin schema
  BY <1>2, <1>4 DEF Fits
<1>7. VersionNotAhead /\ DroppedInv
  BY DEF SchemaInv
<1>8. Promised(v) \ {"agentperf_version"} \subseteq schema
  BY <1>2, <1>5, <1>7, PromisedNext DEF VersionNotAhead
<1>9. v >= 4 => {"agentperf_version", "agentsysperf_version"} \cap schema # {}
  <2>1. CASE v = 4
    <3>1. "agentperf_version" \in NewIn(4)
      BY VersionColumns DEF NewIn, Since
    <3>2. QED
      BY <1>5, <2>1, <3>1
  <2>2. CASE v # 4 /\ v >= 4
    BY <1>2, <1>7, <2>2 DEF VersionNotAhead
  <2>3. QED
    BY <2>1, <2>2
<1>10. VersionNotAhead'
  BY <1>1, <1>2, <1>8, <1>9 DEF VersionNotAhead
<1>11. DroppedInv'
  BY <1>1, <1>2, <1>6, <1>7 DEF DroppedInv
<1>12. StartedInv' /\ ProgressInv'
  BY <1>1 DEF SchemaInv, StartedInv, ProgressInv
<1>13. QED
  BY <1>10, <1>11, <1>12 DEF SchemaInv

\* A step that touches neither version nor schema, but for schema.sql's tables.
LEMMA QuietSchema ==
    ASSUME Supervisor \in Opener, SchemaInv, version' = version,
           schema' \in {schema, schema \cup {"tables"}},
           pc'[Supervisor] # "closed" => "tables" \in schema',
           pc'[Supervisor] \in {"next", "script", "check"}
               => current'[Supervisor] >= 1,
           pc'[Supervisor] = "script"
               => \/ stmt'[Supervisor] = 1
                  \/ pc[Supervisor] = "script" /\ schema' = schema
                     /\ stmt'[Supervisor] = stmt[Supervisor]
                     /\ current'[Supervisor] = current[Supervisor]
    PROVE  SchemaInv'
<1>1. VersionNotAhead' /\ DroppedInv'
  BY DEF SchemaInv, VersionNotAhead, DroppedInv
<1>2. StartedInv'
  BY DEF StartedInv
<1>3. ProgressInv'
  <2>1. CASE stmt'[Supervisor] = 1
    <3>1. \A k \in 1 .. Len(Statements(Supervisor))' : ~(k < 1)
      OBVIOUS
    <3>2. QED
      BY <2>1, <3>1 DEF ProgressInv
  <2>2. CASE /\ pc[Supervisor] = "script" /\ schema' = schema
             /\ stmt'[Supervisor] = stmt[Supervisor]
             /\ current'[Supervisor] = current[Supervisor]
    <3>1. Statements(Supervisor)' = Statements(Supervisor)
      BY <2>2 DEF Statements
    <3>2. QED
      BY <2>2, <3>1 DEF SchemaInv, ProgressInv
  <2>3. CASE pc'[Supervisor] # "script"
    BY <2>3 DEF ProgressInv
  <2>4. QED
    BY <2>1, <2>2, <2>3
<1>4. QED
  BY <1>1, <1>2, <1>3 DEF SchemaInv

LEMMA SupervisorSchemaStep ==
    ASSUME Supervisor \in Opener, TypeInv, SupervisedInv, SchemaInv,
           Migrate(Supervisor) \/ (\E run \in RunId : PersistRun(Supervisor, run))
               \/ Close(Supervisor) \/ Kill(Supervisor)
    PROVE  SchemaInv'
<1> DEFINE s == Supervisor
<1> USE DEF TypeInv, TypeOK, file, connection
<1>0. /\ pc[s] # "closed" => "tables" \in schema
      /\ pc[s] \in {"next", "script", "check"} => current[s] >= 1
      /\ s \in Opener /\ current[s] \in 0 .. 9 /\ version \in 0 .. 9
  BY LastIsNine DEF SchemaInv, StartedInv
<1>1. CASE EnsureDb(s)
  BY <1>0, <1>1, QuietSchema DEF EnsureDb
<1>2. CASE ReadVersion(s)
  BY <1>0, <1>2, QuietSchema DEF ReadVersion
<1>3. CASE AdoptBaseline(s)
  <2>1. /\ version = 0 /\ version' = 1 /\ schema' = schema /\ "tables" \in schema
        /\ pc'[s] = "next" /\ current'[s] = 1
    BY <1>0, <1>3 DEF AdoptBaseline, SupervisedInv, Believes
  <2>2. QED
    BY <2>1, NothingPromised
    DEF SchemaInv, VersionNotAhead, DroppedInv, StartedInv, ProgressInv
<1>4. CASE BeginMigration(s)
  BY <1>0, <1>4, QuietSchema DEF BeginMigration
<1>5. CASE Execute(s)
  BY <1>5, ExecuteSchema
<1>6. CASE ScriptFails(s)
  BY <1>0, <1>6, QuietSchema DEF ScriptFails
<1>7. CASE Stamp(s)
  BY <1>7, StampSchema
<1>8. CASE CheckForeignKeys(s)
  BY <1>0, <1>8, QuietSchema DEF CheckForeignKeys
<1>9. CASE Opened(s) \/ Close(s) \/ Kill(s)
  BY <1>0, <1>9, QuietSchema DEF Opened, Close, Kill
<1>10. CASE \E run \in RunId : PersistRun(s, run)
  <2>1. UNCHANGED <<version, schema, pc, current, stmt>>
    BY <1>10 DEF PersistRun
  <2>2. QED
    BY <1>0, <2>1, QuietSchema
<1>11. QED
  BY <1>1, <1>2, <1>3, <1>4, <1>5, <1>6, <1>7, <1>8, <1>9, <1>10 DEF Migrate

LEMMA WorkerSchemaStep ==
    ASSUME Supervisor \in Opener, TypeInv, SupervisedInv, SchemaInv,
           NEW o \in Opener \ {Supervisor},
           Migrate(o) \/ (\E run \in RunId : PersistRun(o, run)) \/ Close(o) \/ Kill(o)
    PROVE  SchemaInv'
<1> DEFINE s == Supervisor
<1> USE DEF TypeInv, TypeOK, file, connection
<1>0. /\ pc[s] # "closed" => "tables" \in schema
      /\ pc[s] \in {"next", "script", "check"} => current[s] >= 1
  BY DEF SchemaInv, StartedInv
<1>1. pc[o] \notin {"adopt", "script", "check"}
  BY DEF SupervisedInv, OthersWait, Settled
<1>2. pc[o] = "next" => current[o] = Last
  BY DEF SupervisedInv, OthersWait, Settled
<1>3. UNCHANGED <<version, pc[s], current[s], stmt[s]>>
  <2>1. CASE EnsureDb(o) \/ ReadVersion(o) \/ Opened(o) \/ Close(o) \/ Kill(o)
    BY <2>1 DEF EnsureDb, ReadVersion, Opened, Close, Kill
  <2>2. CASE \E run \in RunId : PersistRun(o, run)
    BY <2>2 DEF PersistRun
  <2>3. CASE AdoptBaseline(o) \/ Execute(o) \/ ScriptFails(o) \/ Stamp(o)
             \/ CheckForeignKeys(o)
    BY <1>1, <2>3 DEF AdoptBaseline, Execute, ScriptFails, Stamp, CheckForeignKeys
  <2>4. CASE BeginMigration(o)
    BY <1>2, <2>4, LastIsNine DEF BeginMigration
  <2>5. QED
    BY <2>1, <2>2, <2>3, <2>4 DEF Migrate
<1>4. /\ schema' = schema
      \/ /\ schema' = schema \cup {"tables"}
         /\ pc[s] = "script" => schema' = schema
  <2>1. CASE EnsureDb(o)
    BY <1>0, <2>1 DEF EnsureDb
  <2>2. CASE ReadVersion(o) \/ Opened(o) \/ Close(o) \/ Kill(o) \/ BeginMigration(o)
    BY <2>2 DEF ReadVersion, Opened, Close, Kill, BeginMigration
  <2>3. CASE \E run \in RunId : PersistRun(o, run)
    BY <2>3 DEF PersistRun
  <2>4. CASE AdoptBaseline(o) \/ Execute(o) \/ ScriptFails(o) \/ Stamp(o)
             \/ CheckForeignKeys(o)
    BY <1>1, <2>4 DEF AdoptBaseline, Execute, ScriptFails, Stamp, CheckForeignKeys
  <2>5. QED
    BY <2>1, <2>2, <2>3, <2>4 DEF Migrate
<1>5. QED
  BY <1>0, <1>3, <1>4, QuietSchema

LEMMA SchemaStep ==
    ASSUME Supervisor \in Opener, TypeInv, SupervisedInv, SchemaInv, [Next]_vars
    PROVE  SchemaInv'
<1>1. CASE UNCHANGED vars
  BY <1>1, QuietSchema DEF vars, file, connection, SchemaInv, StartedInv
<1>2. CASE Next
  <2>1. PICK o \in Opener :
            Migrate(o) \/ (\E run \in RunId : PersistRun(o, run)) \/ Close(o) \/ Kill(o)
    BY <1>2 DEF Next
  <2>2. QED
    BY <2>1, WorkerSchemaStep, SupervisorSchemaStep
<1>3. QED
  BY <1>1, <1>2

LEMMA NewestIsPromised ==
    ASSUME TypeInv, VersionNotAhead, DroppedInv, version = Last
    PROVE  schema = Promised(Last)
<1>1. Last = 9 /\ version = 9
  BY LastIsNine
<1>2. "agentperf_version" \notin Promised(9) /\ Promised(9) \subseteq schema
  BY <1>1, RenamedColumn DEF VersionNotAhead
<1>3. \A feature : Since(feature) <= 9
  BY DEF Since
<1>4. \A feature \in schema : feature \in Feature \ {"sku_default", "agentperf_version"}
  BY <1>1 DEF TypeInv, TypeOK, DroppedInv
<1>5. schema \subseteq Promised(9)
  BY <1>3, <1>4 DEF Promised
<1>6. QED
  BY <1>1, <1>2, <1>5

\* Where one process opens the store before the others, its version never
\* promises what the file does not have, whoever is killed and wherever.
THEOREM VersionIsHonest ==
    ASSUME Supervisor \in Opener
    PROVE  Spec => []VersionNotAhead
<1>1. SchemaInv => VersionNotAhead
  BY DEF SchemaInv
<1>2. QED
  BY <1>1, InitType, TypeStep, InitSupervised, SupervisedStep, InitSchema,
     SchemaStep, PTL DEF Spec

\* There, whoever has opened the store has exactly the newest schema.
THEOREM OpenedIsCurrent ==
    ASSUME Supervisor \in Opener
    PROVE  Spec => []OpenIsCurrent
<1>1. TypeInv /\ SupervisedInv /\ SchemaInv => OpenIsCurrent
  <2> SUFFICES ASSUME TypeInv, SupervisedInv, SchemaInv,
                      NEW o \in Opener, pc[o] = "open"
               PROVE  version = Last /\ schema = Promised(Last)
    BY DEF OpenIsCurrent
  <2>1. version = Last
    BY DEF SupervisedInv, OthersWait, Settled, Believes
  <2>2. QED
    BY <2>1, NewestIsPromised DEF SchemaInv
<1>2. QED
  BY <1>1, InitType, TypeStep, InitSupervised, SupervisedStep, InitSchema,
     SchemaStep, PTL DEF Spec
===============================================================================
