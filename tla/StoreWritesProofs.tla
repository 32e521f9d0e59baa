--------------------------- MODULE StoreWritesProofs ---------------------------
(* Every method of the store is one step, and what the store holds fits       *)
(* together, for any processes, runs and tasks, and any calls in the order    *)
(* in which the users of the store make them.                                 *)
EXTENDS StoreWrites, SequenceTheorems, FiniteSetTheorems, WellFoundedInduction, TLAPS

-------------------------------------------------------------------------------
(* The databases that a transaction goes through.  After is a recursive       *)
(* function; that it satisfies its own equation is shown by induction, in     *)
(* the form that every set of numbers has a least element.                    *)

LEMMA LeastNumber ==
    ASSUME NEW T \in SUBSET Nat, T # {}
    PROVE  \E n \in T : \A m \in T : n <= m
<1> DEFINE R == OpToRel(<, Nat)
<1>1. IsWellFoundedOn(R, Nat)
  BY NatLessThanWellFounded
<1> HIDE DEF R
<1>2. PICK n \in T : \A m \in T : <<m, n>> \notin R
  BY <1>1, WFMin
<1>3. \A m \in T : m < n => <<m, n>> \in R
  BY DEF R, OpToRel
<1>4. \A m \in T : ~ (m < n)
  BY <1>2, <1>3
<1>5. \A m \in T : n <= m
  BY <1>4
<1> QED
  BY <1>5

\* f is After, as far as the n-th statement.
UpTo(d, stmts, f, n) ==
    f = [k \in 0 .. n |-> IF k = 0 THEN d ELSE Apply(f[k - 1], stmts[k])]

LEMMA UpToExists ==
    ASSUME NEW d, NEW stmts, NEW n \in Nat
    PROVE  \E f : UpTo(d, stmts, f, n)
<1> DEFINE T == {m \in Nat : ~ \E f : UpTo(d, stmts, f, m)}
<1>1. SUFFICES ASSUME T # {} PROVE FALSE
  OBVIOUS
<1>2. PICK m \in T : \A k \in T : m <= k
  BY <1>1, LeastNumber
<1>3. UpTo(d, stmts, [k \in 0 .. 0 |-> d], 0)
  BY DEF UpTo
<1>4. m # 0
  BY <1>2, <1>3
<1>5. m - 1 \in Nat /\ m - 1 \notin T
  BY <1>2, <1>4
<1>6. PICK f : UpTo(d, stmts, f, m - 1)
  BY <1>5
<1> DEFINE g == [k \in 0 .. m |-> IF k = m THEN Apply(f[m - 1], stmts[m]) ELSE f[k]]
<1>7. \A k \in 0 .. m - 1 : f[k] = IF k = 0 THEN d ELSE Apply(f[k - 1], stmts[k])
  BY <1>5, <1>6 DEF UpTo
<1>8. ASSUME NEW k \in 0 .. m
      PROVE  g[k] = IF k = 0 THEN d ELSE Apply(g[k - 1], stmts[k])
  <2>1. CASE k = m
    <3>1. g[k] = Apply(f[m - 1], stmts[m]) /\ g[k - 1] = f[m - 1]
      BY <2>1, <1>4, <1>5
    <3>2. QED
      BY <3>1, <2>1, <1>4
  <2>2. CASE k # m
    <3>1. k \in 0 .. m - 1 /\ g[k] = f[k]
      BY <2>2, <1>5
    <3>2. k # 0 => g[k - 1] = f[k - 1]
      BY <2>2, <3>1, <1>5
    <3>3. QED
      BY <3>1, <3>2, <1>7
  <2>3. QED
    BY <2>1, <2>2
<1> HIDE DEF g
<1>9. UpTo(d, stmts, g, m)
  <2>1. g = [k \in 0 .. m |-> g[k]]
    BY DEF g
  <2>2. QED
    BY <2>1, <1>8 DEF UpTo
<1> QED
  BY <1>2, <1>9

LEMMA AfterIs ==
    ASSUME NEW d, NEW stmts, Len(stmts) \in Nat
    PROVE  /\ After(d, stmts)[0] = d
           /\ \A k \in 1 .. Len(stmts) :
                 After(d, stmts)[k] = Apply(After(d, stmts)[k - 1], stmts[k])
<1> DEFINE f == After(d, stmts)
<1>1. f = CHOOSE g : g = [k \in 0 .. Len(stmts) |->
                             IF k = 0 THEN d ELSE Apply(g[k - 1], stmts[k])]
  BY DEF After
<1>2. \E g : g = [k \in 0 .. Len(stmts) |->
                             IF k = 0 THEN d ELSE Apply(g[k - 1], stmts[k])]
  <2>1. PICK g : UpTo(d, stmts, g, Len(stmts))
    BY UpToExists
  <2>2. QED
    BY <2>1 DEF UpTo
<1>3. f = [k \in 0 .. Len(stmts) |-> IF k = 0 THEN d ELSE Apply(f[k - 1], stmts[k])]
  BY <1>1, <1>2
<1> HIDE DEF f
<1>4. QED
  BY <1>3 DEF f

-------------------------------------------------------------------------------
(* Types: what the store holds, what its methods execute, and who calls them. *)

Meta == [status : {Null, "complete"}, total_tasks : Nat \cup {Null},
         passed_tasks : Nat \cup {Null}, benchmark_id : {Null, Benchmark},
         extra : SUBSET MetadataKey]

RowStmt == [op : {"metadata"}, run : RunId, meta : Meta]
           \cup [op : {"tasks"}, run : RunId, new : Table(TaskId, BOOLEAN)]
           \cup [op : {"measurements", "spans"}, run : RunId, new : Table(TaskId, Process)]
           \cup [op : {"verdicts"}, run : RunId,
                 new : Table(TaskId \cup {SweepId}, Process)]
           \cup [op : {"artifacts"}, run : RunId, new : Table({"emon_csv"}, Process)]
           \cup [op : {"delete_spans", "delete_run"}, run : RunId]
PointStmt == [op : {"delete_points", "point"}, run : RunId]
SweepStmt == [op : {"sweep", "delete_sweep_points", "delete_sweep", "benchmark",
                    "delete_benchmark"}]
Stmt == RowStmt \cup PointStmt \cup SweepStmt

Job == UserCall \cup {record_point(r, m) : r \in RunId, m \in Meta}
                \cup {delete_sweep_row, delete_benchmark_row}

LEMMA UpsertTable ==
    ASSUME NEW keys, NEW values, NEW old \in Table(keys, values),
           NEW new \in Table(keys, values)
    PROVE  Upsert(old, new) \in Table(keys, values)
<1>1. PICK h \in SUBSET keys : old \in [h -> values]
  BY DEF Table
<1>2. PICK g \in SUBSET keys : new \in [g -> values]
  BY DEF Table
<1>3. Upsert(old, new) \in [h \cup g -> values]
  BY <1>1, <1>2 DEF Upsert
<1>4. QED
  BY <1>3 DEF Table

LEMMA EmptyIsTable ==
    ASSUME NEW keys, NEW values
    PROVE  EmptyTable \in Table(keys, values)
<1>1. EmptyTable \in [{} -> values]
  BY DEF EmptyTable
<1>2. QED
  BY <1>1 DEF Table

LEMMA NoRowsType == NoRows \in Row
<1>1. \A keys, values : EmptyTable \in Table(keys, values)
  BY EmptyIsTable
<1>2. QED
  BY <1>1 DEF NoRows, Row

LEMMA WithRowsType ==
    ASSUME NEW d \in Database, NEW r \in RunId, NEW row \in Row
    PROVE  /\ WithRows(d, r, row) \in Database
           /\ WithRows(d, r, row).rows[r] = row
           /\ \A q \in RunId \ {r} : WithRows(d, r, row).rows[q] = d.rows[q]
           /\ WithRows(d, r, row).points = d.points
           /\ WithRows(d, r, row).sweep = d.sweep
  BY DEF Database, WithRows

LEMMA MetadataRow ==
    ASSUME NEW row \in Row, NEW m \in Meta, NEW new, new = store_run_metadata(row, m)
    PROVE  /\ new \in Row /\ new.exists
           /\ new.status = IF m.status = Null THEN row.status ELSE m.status
           /\ new.passed_tasks =
                  IF m.passed_tasks = Null THEN row.passed_tasks ELSE m.passed_tasks
           /\ new.benchmark_id =
                  IF m.benchmark_id = Null THEN row.benchmark_id ELSE m.benchmark_id
           /\ new.metadata = m.extra
           /\ new.task_results = row.task_results
           /\ new.measurements = row.measurements
  BY DEF store_run_metadata, Coalesce, Row, Meta

\* The row that a statement about one run leaves of the row it finds.
NewRow(row, s) ==
    CASE s.op = "metadata" -> store_run_metadata(row, s.meta)
      [] s.op = "tasks" -> store_task_results(row, s.new)
      [] s.op = "measurements" -> store_measurements(row, s.new)
      [] s.op = "spans" -> store_spans(row, s.new)
      [] s.op = "verdicts" -> store_analysis_results(row, s.new)
      [] s.op = "artifacts" -> store_artifacts(row, s.new)
      [] s.op = "delete_spans" -> [row EXCEPT !.spans = EmptyTable]
      [] s.op = "delete_run" -> NoRows

LEMMA NewRowType ==
    ASSUME NEW row \in Row, NEW s \in RowStmt
    PROVE  NewRow(row, s) \in Row
<1> USE DEF NewRow
<1>1. CASE s \in [op : {"metadata"}, run : RunId, meta : Meta]
  BY <1>1, MetadataRow
<1>2. CASE s \in [op : {"tasks"}, run : RunId, new : Table(TaskId, BOOLEAN)]
  <2>1. Upsert(row.task_results, s.new) \in Table(TaskId, BOOLEAN)
    BY <1>2, UpsertTable DEF Row
  <2>2. QED
    BY <1>2, <2>1 DEF store_task_results, Row
<1>3. CASE s \in [op : {"measurements", "spans"}, run : RunId, new : Table(TaskId, Process)]
  <2>1. /\ Upsert(row.measurements, s.new) \in Table(TaskId, Process)
        /\ Upsert(row.spans, s.new) \in Table(TaskId, Process)
    BY <1>3, UpsertTable DEF Row
  <2>2. QED
    BY <1>3, <2>1 DEF store_measurements, store_spans, Row
<1>4. CASE s \in [op : {"verdicts"}, run : RunId, new : Table(TaskId \cup {SweepId}, Process)]
  <2>1. Upsert(row.verdicts, s.new) \in Table(TaskId \cup {SweepId}, Process)
    BY <1>4, UpsertTable DEF Row
  <2>2. QED
    BY <1>4, <2>1 DEF store_analysis_results, Row
<1>5. CASE s \in [op : {"artifacts"}, run : RunId, new : Table({"emon_csv"}, Process)]
  <2>1. Upsert(row.artifacts, s.new) \in Table({"emon_csv"}, Process)
    BY <1>5, UpsertTable DEF Row
  <2>2. QED
    BY <1>5, <2>1 DEF store_artifacts, Row
<1>6. CASE s \in [op : {"delete_spans", "delete_run"}, run : RunId]
  <2>1. EmptyTable \in Table(TaskId, Process)
    BY EmptyIsTable
  <2>2. QED
    BY <1>6, <2>1, NoRowsType DEF Row
<1>7. QED
  BY <1>1, <1>2, <1>3, <1>4, <1>5, <1>6 DEF RowStmt

LEMMA ApplyRow ==
    ASSUME NEW d \in Database, NEW s \in RowStmt
    PROVE  Apply(d, s) = WithRows(d, s.run, NewRow(d.rows[s.run], s))
  BY DEF Apply, NewRow, RowStmt

LEMMA ApplyPoint ==
    ASSUME NEW d \in Database, NEW s \in PointStmt \cup SweepStmt
    PROVE  /\ Apply(d, s) \in Database
           /\ Apply(d, s).rows = d.rows
           /\ Apply(d, s).points = CASE s.op = "point" -> d.points \cup {s.run}
                                     [] s.op = "delete_points" -> d.points \ {s.run}
                                     [] s.op = "delete_sweep_points" -> {}
                                     [] OTHER -> d.points
           /\ Apply(d, s).sweep = CASE s.op = "sweep" -> TRUE
                                    [] s.op = "delete_sweep" -> FALSE
                                    [] OTHER -> d.sweep
<1>1. CASE s \in PointStmt
  BY <1>1 DEF Apply, PointStmt, Database
<1>2. CASE s \in SweepStmt
  BY <1>2 DEF Apply, SweepStmt, Database
<1>3. QED
  BY <1>1, <1>2

LEMMA ApplyType ==
    ASSUME NEW d \in Database, NEW s \in Stmt
    PROVE  Apply(d, s) \in Database
<1>1. CASE s \in RowStmt
  <2>1. s.run \in RunId /\ d.rows[s.run] \in Row
    BY <1>1 DEF RowStmt, Database
  <2>2. QED
    BY <1>1, <2>1, ApplyRow, NewRowType, WithRowsType
<1>2. CASE s \in PointStmt \cup SweepStmt
  BY <1>2, ApplyPoint
<1>3. QED
  BY <1>1, <1>2 DEF Stmt

-------------------------------------------------------------------------------
(* The calls, one by one: the statements of each. *)

LEMMA MetaTypes ==
    ASSUME NEW p \in Process, NEW passed \in SUBSET TaskId
    PROVE  /\ StartMetadata \in Meta /\ CompleteMetadata(p, passed) \in Meta
           /\ RowMetadata({<<"cell">>}) \in Meta
           /\ StartMetadata.status = Null /\ StartMetadata.passed_tasks = Null
           /\ StartMetadata.benchmark_id = Benchmark /\ StartMetadata.extra = {<<"run">>}
           /\ CompleteMetadata(p, passed).status = "complete"
           /\ CompleteMetadata(p, passed).passed_tasks = Cardinality(passed)
           /\ CompleteMetadata(p, passed).benchmark_id = Benchmark
           /\ CompleteMetadata(p, passed).extra = {<<"run">>, <<"counts", p>>}
           /\ RowMetadata({<<"cell">>}).status = Null
           /\ RowMetadata({<<"cell">>}).passed_tasks = Null
           /\ RowMetadata({<<"cell">>}).benchmark_id = Null
           /\ RowMetadata({<<"cell">>}).extra = {<<"cell">>}
<1>1. Cardinality(TaskId) \in Nat /\ Cardinality(passed) \in Nat
  BY TaskIdAssumption, FS_CardinalityType, FS_Subset
<1>2. /\ {<<"run">>} \subseteq MetadataKey /\ {<<"cell">>} \subseteq MetadataKey
      /\ {<<"run">>, <<"counts", p>>} \subseteq MetadataKey
  BY DEF MetadataKey
<1>3. QED
  BY <1>1, <1>2 DEF StartMetadata, CompleteMetadata, RowMetadata, Meta

LEMMA ByTable ==
    ASSUME NEW p \in Process, NEW keys, NEW held \in SUBSET keys
    PROVE  By(p, held) \in Table(keys, Process)
<1>1. By(p, held) \in [held -> Process]
  BY DEF By
<1>2. QED
  BY <1>1 DEF Table

LEMMA MeasuredCall ==
    ASSUME NEW p \in Process, NEW r \in RunId
    PROVE  LET c == persist_measured(p, r)
           IN  /\ c.name = "measured" /\ c.kind = "write" /\ c.fatal = FALSE
               /\ c.stmts = <<StoreMetadata(r, StartMetadata),
                              Put("measurements", r, By(p, TaskId)),
                              Put("spans", r, By(p, TaskId)),
                              Put("artifacts", r, By(p, {"emon_csv"}))>>
               /\ c.stmts \in Seq(RowStmt) /\ Len(c.stmts) = 4
<1>1. /\ StoreMetadata(r, StartMetadata) \in RowStmt
      /\ Put("measurements", r, By(p, TaskId)) \in RowStmt
      /\ Put("spans", r, By(p, TaskId)) \in RowStmt
      /\ Put("artifacts", r, By(p, {"emon_csv"})) \in RowStmt
  BY MetaTypes, ByTable DEF RowStmt, StoreMetadata, Put
<1>2. QED
  BY <1>1 DEF persist_measured, Call

LEMMA ResultsCall ==
    ASSUME NEW p \in Process, NEW r \in RunId, NEW passed \in SUBSET TaskId
    PROVE  LET c == persist_results(p, r, passed)
           IN  /\ c.name = "results" /\ c.kind = "write" /\ c.fatal = TRUE
               /\ c.stmts = <<StoreMetadata(r, CompleteMetadata(p, passed)),
                              Put("tasks", r, [t \in TaskId |-> t \in passed]),
                              Put("verdicts", r, By(p, TaskId))>>
               /\ c.stmts \in Seq(RowStmt) /\ Len(c.stmts) = 3
<1>1. [t \in TaskId |-> t \in passed] \in Table(TaskId, BOOLEAN)
  <2>1. [t \in TaskId |-> t \in passed] \in [TaskId -> BOOLEAN]
    OBVIOUS
  <2>2. QED
    BY <2>1 DEF Table
<1>2. By(p, TaskId) \in Table(TaskId \cup {SweepId}, Process)
  BY ByTable
<1>3. /\ StoreMetadata(r, CompleteMetadata(p, passed)) \in RowStmt
      /\ Put("tasks", r, [t \in TaskId |-> t \in passed]) \in RowStmt
      /\ Put("verdicts", r, By(p, TaskId)) \in RowStmt
  BY <1>1, <1>2, MetaTypes DEF RowStmt, StoreMetadata, Put
<1>4. QED
  BY <1>3 DEF persist_results, Must, Call

LEMMA RecordCall ==
    ASSUME NEW r \in RunId, NEW m \in Meta
    PROVE  LET c == record_point(r, m)
           IN  /\ c.name = "record" /\ c.kind = "write" /\ c.fatal = FALSE
               /\ c.stmts = <<StoreMetadata(r, m)>>
               /\ c.stmts \in Seq(RowStmt) /\ Len(c.stmts) = 1
<1>1. StoreMetadata(r, m) \in RowStmt
  BY DEF RowStmt, StoreMetadata
<1>2. QED
  BY <1>1 DEF record_point, Call

LEMMA EnsureCall ==
    ASSUME NEW r \in RunId
    PROVE  LET c == ensure_run_row(r)
           IN  /\ c.name = "ensure" /\ c.kind = "write" /\ c.fatal = FALSE
               /\ c.stmts = <<StoreMetadata(r, RowMetadata({<<"cell">>}))>>
               /\ c.stmts \in Seq(RowStmt) /\ Len(c.stmts) = 1
<1>1. RowMetadata({<<"cell">>}) \in Meta
  BY DEF RowMetadata, Meta, MetadataKey
<1>2. StoreMetadata(r, RowMetadata({<<"cell">>})) \in RowStmt
  BY <1>1 DEF RowStmt, StoreMetadata
<1>3. QED
  BY <1>2 DEF ensure_run_row, Call

LEMMA VerdictCall ==
    ASSUME NEW p \in Process
    PROVE  LET c == store_verdict(p)
           IN  /\ c.name = "verdict" /\ c.kind = "write" /\ c.fatal = FALSE
               /\ c.stmts = <<Put("verdicts", SweepId, By(p, {SweepId}))>>
               /\ c.stmts \in Seq(RowStmt) /\ Len(c.stmts) = 1
<1>1. By(p, {SweepId}) \in Table(TaskId \cup {SweepId}, Process) /\ SweepId \in RunId
  BY ByTable, RunIdAssumption
<1>2. Put("verdicts", SweepId, By(p, {SweepId})) \in RowStmt
  BY <1>1 DEF RowStmt, Put
<1>3. QED
  BY <1>2 DEF store_verdict, Call

LEMMA DeleteCall ==
    ASSUME NEW r \in RunId
    PROVE  LET c == delete_run(r)
           IN  /\ c.name = "delete_run" /\ c.kind = "write" /\ c.fatal = FALSE
               /\ c.stmts = <<On("delete_spans", r), On("delete_points", r),
                              On("delete_run", r)>>
               /\ c.stmts \in Seq(Stmt) /\ Len(c.stmts) = 3
<1>1. /\ On("delete_spans", r) \in RowStmt /\ On("delete_points", r) \in PointStmt
      /\ On("delete_run", r) \in RowStmt
  BY DEF On, RowStmt, PointStmt
<1>2. QED
  BY <1>1 DEF delete_run, Call, Stmt

LEMMA PointCall ==
    ASSUME NEW r \in RunId
    PROVE  LET c == store_sweep_point(r)
           IN  /\ c.name = "point" /\ c.kind = "write" /\ c.fatal = FALSE
               /\ c.stmts = <<On("point", r)>>
               /\ c.stmts \in Seq(PointStmt) /\ Len(c.stmts) = 1
<1>1. On("point", r) \in PointStmt
  BY DEF On, PointStmt
<1>2. QED
  BY <1>1 DEF store_sweep_point, Call

LEMMA SweepCallsOfOne ==
    /\ store_sweep.name = "sweep" /\ store_sweep.kind = "write"
    /\ store_sweep.fatal = FALSE
    /\ store_sweep.stmts = <<[op |-> "sweep"]>>
    /\ delete_sweep_row.name = "delete_sweep" /\ delete_sweep_row.kind = "write"
    /\ delete_sweep_row.fatal = TRUE
    /\ delete_sweep_row.stmts = <<[op |-> "delete_sweep_points"], [op |-> "delete_sweep"]>>
    /\ delete_benchmark_row.name = "delete_benchmark"
    /\ delete_benchmark_row.kind = "write" /\ delete_benchmark_row.fatal = FALSE
    /\ delete_benchmark_row.stmts = <<[op |-> "delete_benchmark"]>>
    /\ \A c \in {store_sweep, delete_sweep_row, delete_benchmark_row} :
          c.stmts \in Seq(SweepStmt)
    /\ Len(store_sweep.stmts) = 1 /\ Len(delete_sweep_row.stmts) = 2
    /\ Len(delete_benchmark_row.stmts) = 1
  BY DEF store_sweep, delete_sweep_row, delete_benchmark_row, Call, Must, SweepStmt

LEMMA LookCall ==
    ASSUME NEW kind, NEW r
    PROVE  LET c == Look(kind, r)
           IN  c.name = kind /\ c.kind = kind /\ c.fatal = FALSE /\ c.run = r
  BY DEF Look

\* What one call may be, by its name.
LEMMA JobCases ==
    ASSUME NEW job \in Job
    PROVE  \/ \E p \in Process, r \in RunId : job = persist_measured(p, r)
           \/ \E p \in Process, r \in RunId, passed \in SUBSET TaskId :
                 job = persist_results(p, r, passed)
           \/ \E r \in RunId, m \in Meta : job = record_point(r, m)
           \/ \E r \in RunId : job = ensure_run_row(r)
           \/ \E p \in Process : job = store_verdict(p)
           \/ \E r \in RunId : job = delete_run(r)
           \/ \E r \in RunId : job = store_sweep_point(r)
           \/ job \in {store_sweep, delete_sweep_row, delete_benchmark_row}
           \/ \E r \in RunId : job = Look("get_run", r)
           \/ job = Look("list_benchmark", Null)
           \/ job = Look("list_sweep", Null)
  BY DEF Job, UserCall

LEMMA JobType ==
    ASSUME NEW job \in Job
    PROVE  /\ job.kind = "write" =>
                  job.stmts \in Seq(Stmt) /\ Len(job.stmts) \in Nat \ {0}
           /\ job.kind # "write" =>
                  /\ job.kind \in {"get_run", "list_benchmark", "list_sweep"}
                  /\ job.kind = "get_run" => job.run \in RunId
<1>1. /\ \A stmts \in Seq(RowStmt) : stmts \in Seq(Stmt)
      /\ \A stmts \in Seq(PointStmt) : stmts \in Seq(Stmt)
      /\ \A stmts \in Seq(SweepStmt) : stmts \in Seq(Stmt)
  BY SeqDef DEF Stmt
<1>2. CASE \E p \in Process, r \in RunId : job = persist_measured(p, r)
  <2>1. PICK p \in Process, r \in RunId : job = persist_measured(p, r)
    BY <1>2
  <2>2. /\ job.kind = "write" /\ job.stmts \in Seq(RowStmt)
        /\ Len(job.stmts) = 4
    BY <2>1, MeasuredCall
  <2>3. QED
    BY <1>1, <2>2
<1>3. CASE \E p \in Process, r \in RunId, passed \in SUBSET TaskId :
              job = persist_results(p, r, passed)
  <2>1. PICK p \in Process, r \in RunId, passed \in SUBSET TaskId : job = persist_results(p, r, passed)
    BY <1>3
  <2>2. /\ job.kind = "write" /\ job.stmts \in Seq(RowStmt)
        /\ Len(job.stmts) = 3
    BY <2>1, ResultsCall
  <2>3. QED
    BY <1>1, <2>2
<1>4. CASE \E r \in RunId, m \in Meta : job = record_point(r, m)
  <2>1. PICK r \in RunId, m \in Meta : job = record_point(r, m)
    BY <1>4
  <2>2. /\ job.kind = "write" /\ job.stmts \in Seq(RowStmt)
        /\ Len(job.stmts) = 1
    BY <2>1, RecordCall
  <2>3. QED
    BY <1>1, <2>2
<1>5. CASE \E r \in RunId : job = ensure_run_row(r)
  <2>1. PICK r \in RunId : job = ensure_run_row(r)
    BY <1>5
  <2>2. /\ job.kind = "write" /\ job.stmts \in Seq(RowStmt)
        /\ Len(job.stmts) = 1
    BY <2>1, EnsureCall
  <2>3. QED
    BY <1>1, <2>2
<1>6. CASE \E p \in Process : job = store_verdict(p)
  <2>1. PICK p \in Process : job = store_verdict(p)
    BY <1>6
  <2>2. /\ job.kind = "write" /\ job.stmts \in Seq(RowStmt)
        /\ Len(job.stmts) = 1
    BY <2>1, VerdictCall
  <2>3. QED
    BY <1>1, <2>2
<1>7. CASE \E r \in RunId : job = delete_run(r)
  <2>1. PICK r \in RunId : job = delete_run(r)
    BY <1>7
  <2>2. /\ job.kind = "write" /\ job.stmts \in Seq(Stmt)
        /\ Len(job.stmts) = 3
    BY <2>1, DeleteCall
  <2>3. QED
    BY <1>1, <2>2
<1>8. CASE \E r \in RunId : job = store_sweep_point(r)
  <2>1. PICK r \in RunId : job = store_sweep_point(r)
    BY <1>8
  <2>2. /\ job.kind = "write" /\ job.stmts \in Seq(PointStmt)
        /\ Len(job.stmts) = 1
    BY <2>1, PointCall
  <2>3. QED
    BY <1>1, <2>2
<1>9. CASE job \in {store_sweep, delete_sweep_row, delete_benchmark_row}
  BY <1>1, <1>9, SweepCallsOfOne
<1>10. CASE \E r \in RunId : job = Look("get_run", r)
  BY <1>10 DEF Look
<1>11. CASE job = Look("list_benchmark", Null) \/ job = Look("list_sweep", Null)
  BY <1>11 DEF Look
<1>12. QED
  BY <1>2, <1>3, <1>4, <1>5, <1>6, <1>7, <1>8, <1>9, <1>10, <1>11, JobCases

LEMMA SetToSeqIs ==
    ASSUME NEW S, IsFiniteSet(S)
    PROVE  /\ SetToSeq(S) \in Seq(S)
           /\ \A x \in S : \E k \in 1 .. Len(SetToSeq(S)) : SetToSeq(S)[k] = x
<1> DEFINE n == Cardinality(S)
           f == SetToSeq(S)
<1>1. n \in Nat /\ ExistsBijection(1 .. n, S)
  BY FS_CardinalityType
<1>2. \E g \in [1 .. n -> S] : IsInjective(g)
  BY <1>1 DEF ExistsBijection, Bijection, Injection
<1>3. f \in [1 .. n -> S] /\ IsInjective(f)
  BY <1>2 DEF SetToSeq
<1> HIDE DEF f
<1>4. f \in Injection(1 .. n, S)
  BY <1>3 DEF Injection
<1>5. IsFiniteSet(1 .. n) /\ Cardinality(1 .. n) = n
  BY <1>1, FS_Interval
<1>6. f \in Surjection(1 .. n, S)
  BY <1>4, <1>5, FS_Injection
<1>7. f \in Seq(S) /\ Len(f) = n
  BY <1>1, <1>3
<1>8. \A x \in S : \E k \in 1 .. n : f[k] = x
  BY <1>6 DEF Surjection
<1>9. QED
  BY <1>7, <1>8 DEF f

LEMMA MergedType ==
    ASSUME NEW row \in Row, NEW p \in Process
    PROVE  LET m == Merged(row, p)
           IN  /\ m \in Meta
               /\ m.status = row.status /\ m.passed_tasks = row.passed_tasks
               /\ m.benchmark_id = row.benchmark_id
               /\ m.extra = (IF row.metadata = Null THEN {} ELSE row.metadata)
                               \cup {<<"evidence", p>>}
<1>1. (IF row.metadata = Null THEN {} ELSE row.metadata) \cup {<<"evidence", p>>}
         \in SUBSET MetadataKey
  BY DEF Row, MetadataKey
<1>2. QED
  BY <1>1 DEF Merged, RowMetadata, Meta, Row

\* The deletions that follow a listing of some runs.
LEMMA DeleteRunsSeq ==
    ASSUME NEW runs \in Seq(RunId)
    PROVE  /\ DeleteRuns(runs) \in Seq(Job)
           /\ Len(DeleteRuns(runs)) = Len(runs)
           /\ \A k \in 1 .. Len(runs) : DeleteRuns(runs)[k] = delete_run(runs[k])
<1>1. Len(runs) \in Nat /\ \A k \in 1 .. Len(runs) : runs[k] \in RunId
  BY ElementOfSeq, LenProperties
<1>2. \A k \in 1 .. Len(runs) : delete_run(runs[k]) \in Job
  BY <1>1 DEF Job, UserCall
<1>3. DeleteRuns(runs) \in [1 .. Len(runs) -> Job]
  BY <1>2 DEF DeleteRuns
<1>4. QED
  BY <1>1, <1>3 DEF DeleteRuns

LEMMA AfterReadType ==
    ASSUME NEW d \in Database, NEW p \in Process, NEW job \in Job, job.kind # "write"
    PROVE  AfterRead(d, p, job) \in Seq(Job)
<1>1. CASE job.kind = "get_run"
  <2>1. job.run \in RunId
    BY <1>1, JobType
  <2>2. Merged(d.rows[job.run], p) \in Meta
    BY <2>1, MergedType DEF Database
  <2>3. record_point(job.run, Merged(d.rows[job.run], p)) \in Job
    BY <2>1, <2>2 DEF Job
  <2>4. QED
    BY <1>1, <2>3 DEF AfterRead
<1>2. CASE job.kind = "list_benchmark"
  <2> DEFINE S == {r \in RunId : d.rows[r].benchmark_id = Benchmark}
  <2>1. IsFiniteSet(S) /\ S \subseteq RunId
    BY RunIdAssumption, FS_Subset
  <2>2. SetToSeq(S) \in Seq(RunId)
    BY <2>1, SetToSeqIs, SeqDef
  <2>3. DeleteRuns(SetToSeq(S)) \in Seq(Job) /\ <<delete_benchmark_row>> \in Seq(Job)
    BY <2>2, DeleteRunsSeq DEF Job
  <2>4. DeleteBenchmark(SetToSeq(S)) \in Seq(Job)
    BY <2>3, ConcatProperties DEF DeleteBenchmark
  <2>5. QED
    BY <1>2, <2>4 DEF AfterRead
<1>3. CASE job.kind = "list_sweep"
  <2>1. IsFiniteSet(d.points) /\ d.points \subseteq RunId
    BY RunIdAssumption, FS_Subset DEF Database
  <2>2. SetToSeq(d.points) \in Seq(RunId)
    BY <2>1, SetToSeqIs, SeqDef
  <2>3. delete_run(SweepId) \in Job
    BY RunIdAssumption DEF Job, UserCall
  <2>4. /\ DeleteRuns(SetToSeq(d.points)) \in Seq(Job)
        /\ <<delete_sweep_row>> \in Seq(Job) /\ <<delete_run(SweepId)>> \in Seq(Job)
    BY <2>2, <2>3, DeleteRunsSeq DEF Job
  <2>5. DeleteSweep(SetToSeq(d.points)) \in Seq(Job)
    BY <2>4, ConcatProperties DEF DeleteSweep
  <2>6. QED
    BY <1>3, <2>5 DEF AfterRead
<1>4. QED
  BY <1>1, <1>2, <1>3, JobType

-------------------------------------------------------------------------------
(* What the open transaction has done so far is what its statements do to     *)
(* what is committed: nobody else commits while it is open.                   *)

TypeInv == calls \in [Process -> Seq(Job)] /\ database \in Database

TxnInv ==
    txn # Null =>
        LET stmts == NextCall(txn.by).stmts
        IN  /\ txn.by \in Process /\ Writing(txn.by)
            /\ txn.at \in 1 .. Len(stmts)
            /\ txn.copy \in Database
            /\ txn.copy = After(database, stmts)[txn.at]
            /\ \A k \in 1 .. txn.at : ~Refused(After(database, stmts)[k - 1], stmts[k])

LEMMA HeadJob ==
    ASSUME TypeInv, NEW p \in Process, calls[p] # <<>>
    PROVE  /\ NextCall(p) \in Job /\ NextCall(p) = calls[p][1]
           /\ Tail(calls[p]) \in Seq(Job)
           /\ Len(calls[p]) \in Nat \ {0} /\ Len(Tail(calls[p])) = Len(calls[p]) - 1
           /\ \A k \in 1 .. Len(Tail(calls[p])) : Tail(calls[p])[k] = calls[p][k + 1]
<1>1. calls[p] \in Seq(Job)
  BY DEF TypeInv
<1>2. QED
  BY <1>1, HeadTailProperties, LenProperties DEF NextCall

\* The process that writes, and what its next statement meets.
LEMMA WriterJob ==
    ASSUME TypeInv, NEW p \in Process, Writing(p)
    PROVE  /\ NextCall(p) \in Job
           /\ NextCall(p).stmts \in Seq(Stmt) /\ Len(NextCall(p).stmts) \in Nat \ {0}
           /\ \A k \in 1 .. Len(NextCall(p).stmts) : NextCall(p).stmts[k] \in Stmt
<1>1. NextCall(p) \in Job
  BY HeadJob DEF Writing
<1>2. NextCall(p).stmts \in Seq(Stmt) /\ Len(NextCall(p).stmts) \in Nat \ {0}
  BY <1>1, JobType DEF Writing
<1>3. QED
  BY <1>1, <1>2, ElementOfSeq

LEMMA TxnKept ==
    ASSUME TxnInv, UNCHANGED <<database, txn>>,
           txn # Null => calls'[txn.by] = calls[txn.by]
    PROVE  TxnInv'
  BY DEF TxnInv, NextCall, Writing

LEMMA ExecuteTxn ==
    ASSUME TypeInv, TxnInv, NEW p \in Process, ExecuteStatement(p)
    PROVE  TxnInv'
<1> DEFINE stmts == NextCall(p).stmts
           n == AtStatement(p)
<1>1. /\ Len(stmts) \in Nat \ {0} /\ \A k \in 1 .. Len(stmts) : stmts[k] \in Stmt
      /\ Writing(p)
  BY WriterJob DEF ExecuteStatement, MayExecute
<1>2. /\ After(database, stmts)[0] = database
      /\ \A k \in 1 .. Len(stmts) :
            After(database, stmts)[k] = Apply(After(database, stmts)[k - 1], stmts[k])
  BY <1>1, AfterIs
<1>3. /\ n \in 1 .. Len(stmts) /\ View(p) \in Database
      /\ View(p) = After(database, stmts)[n - 1]
      /\ \A k \in 1 .. n - 1 : ~Refused(After(database, stmts)[k - 1], stmts[k])
  <2>1. CASE Mine(p)
    <3>1. /\ txn.at \in 1 .. Len(stmts) /\ n = txn.at + 1 /\ View(p) = txn.copy
          /\ txn.copy \in Database /\ txn.copy = After(database, stmts)[txn.at]
          /\ \A k \in 1 .. txn.at : ~Refused(After(database, stmts)[k - 1], stmts[k])
      BY <2>1 DEF TxnInv, Mine, AtStatement, View
    <3>2. n <= Len(stmts)
      BY DEF ExecuteStatement, MayExecute
    <3>3. n - 1 = txn.at /\ n \in 1 .. Len(stmts)
      BY <1>1, <3>1, <3>2
    <3>4. QED
      BY <3>1, <3>3
  <2>2. CASE ~Mine(p)
    <3>1. n = 1 /\ View(p) = database
      BY <2>2 DEF AtStatement, View
    <3>2. QED
      BY <1>1, <1>2, <3>1 DEF TypeInv
  <2>3. QED
    BY <2>1, <2>2
<1>4. /\ txn' = [by |-> p, at |-> n, copy |-> Apply(View(p), stmts[n])]
      /\ UNCHANGED <<database, calls>> /\ ~Refused(View(p), stmts[n])
  BY DEF ExecuteStatement, Statement
<1>5. Apply(View(p), stmts[n]) \in Database
  BY <1>1, <1>3, ApplyType
<1>6. Apply(View(p), stmts[n]) = After(database, stmts)[n]
  BY <1>2, <1>3
<1> HIDE DEF n
<1>7. /\ txn'.by = p /\ txn'.at = n /\ txn'.copy = Apply(View(p), stmts[n])
      /\ NextCall(txn.by)' = NextCall(p) /\ Writing(txn.by)'
  BY <1>1, <1>4 DEF NextCall, Writing
<1>8. ASSUME NEW k \in 1 .. n
      PROVE  ~Refused(After(database, stmts)[k - 1], stmts[k])
  <2>1. CASE k = n
    BY <2>1, <1>3, <1>4
  <2>2. CASE k # n
    <3>1. k \in 1 .. n - 1
      BY <2>2, <1>3
    <3>2. QED
      BY <3>1, <1>3
  <2>3. QED
    BY <2>1, <2>2
<1>9. /\ txn'.by \in Process /\ txn'.at \in 1 .. Len(stmts) /\ txn'.copy \in Database
      /\ txn'.copy = After(database, stmts)[txn'.at]
      /\ \A k \in 1 .. txn'.at : ~Refused(After(database, stmts)[k - 1], stmts[k])
      /\ NextCall(txn.by)'.stmts = stmts /\ database' = database
  BY <1>3, <1>4, <1>5, <1>6, <1>7, <1>8
<1> HIDE DEF stmts
<1>10. QED
  BY <1>7, <1>9 DEF TxnInv

\* What a step makes of the calls of its process, and that it is no other's.
LEMMA CallsStep ==
    ASSUME TypeInv, NEW p \in Process,
           Fails(p) \/ Busy(p) \/ Commit(p) \/ Read(p) \/ Die(p), calls[p] # <<>>
    PROVE  /\ calls' \in [Process -> Seq(Job)]
           /\ \A q \in Process \ {p} : calls'[q] = calls[q]
<1>1. Tail(calls[p]) \in Seq(Job) /\ <<>> \in Seq(Job) /\ NextCall(p) \in Job
  BY HeadJob
<1>2. CASE Fails(p) \/ Busy(p)
  BY <1>1, <1>2 DEF Fails, Busy, GivesUp, TypeInv
<1>3. CASE Commit(p)
  BY <1>1, <1>3 DEF Commit, TypeInv
<1>4. CASE Read(p)
  <2>1. AfterRead(database, p, NextCall(p)) \in Seq(Job)
    BY <1>1, <1>4, AfterReadType DEF Read, TypeInv
  <2>2. AfterRead(database, p, NextCall(p)) \o Tail(calls[p]) \in Seq(Job)
    BY <1>1, <2>1, ConcatProperties
  <2>3. QED
    BY <1>4, <2>2 DEF Read, TypeInv
<1>5. CASE Die(p)
  BY <1>1, <1>5 DEF Die, TypeInv
<1>6. QED
  BY <1>2, <1>3, <1>4, <1>5

LEMMA TypeStep ==
    ASSUME TypeInv, TxnInv, [StoreNext]_storeVars
    PROVE  TypeInv' /\ TxnInv'
<1>1. CASE UNCHANGED storeVars
  BY <1>1, TxnKept DEF TypeInv, storeVars
<1>2. ASSUME NEW p \in Process, ExecuteStatement(p)
      PROVE  TypeInv' /\ TxnInv'
  BY <1>2, ExecuteTxn DEF ExecuteStatement, TypeInv
<1>3. ASSUME NEW p \in Process, Fails(p)
      PROVE  TypeInv' /\ TxnInv'
  <2>1. calls[p] # <<>> /\ txn' = Null /\ UNCHANGED database
    BY <1>3 DEF Fails, MayExecute, Writing
  <2>2. QED
    BY <1>3, <2>1, CallsStep DEF TypeInv, TxnInv
<1>4. ASSUME NEW p \in Process, Busy(p)
      PROVE  TypeInv' /\ TxnInv'
  <2>1. calls[p] # <<>> /\ txn.by # p /\ UNCHANGED <<database, txn>>
    BY <1>4 DEF Busy, Writing
  <2>2. TxnInv'
    BY <1>4, <2>1, CallsStep, TxnKept DEF TxnInv
  <2>3. QED
    BY <1>4, <2>1, <2>2, CallsStep DEF TypeInv
<1>5. ASSUME NEW p \in Process, Commit(p)
      PROVE  TypeInv' /\ TxnInv'
  <2>1. /\ calls[p] # <<>> /\ txn' = Null
        /\ database' \in Database
    BY <1>5 DEF Commit, Mine, TxnInv, Writing
  <2>2. QED
    BY <1>5, <2>1, CallsStep DEF TypeInv, TxnInv
<1>6. ASSUME NEW p \in Process, Read(p)
      PROVE  TypeInv' /\ TxnInv'
  <2>1. calls[p] # <<>> /\ ~Writing(p) /\ UNCHANGED <<database, txn>>
    BY <1>6 DEF Read, Writing
  <2>2. TxnInv'
    BY <1>6, <2>1, CallsStep, TxnKept DEF TxnInv
  <2>3. QED
    BY <1>6, <2>1, <2>2, CallsStep DEF TypeInv
<1>7. ASSUME NEW p \in Process, Die(p)
      PROVE  TypeInv' /\ TxnInv'
  <2>1. calls[p] # <<>> /\ UNCHANGED database
    BY <1>7 DEF Die
  <2>2. CASE Mine(p)
    <3>1. txn' = Null
      BY <1>7, <2>2 DEF Die
    <3>2. QED
      BY <1>7, <2>1, <3>1, CallsStep DEF TypeInv, TxnInv
  <2>3. CASE ~Mine(p)
    <3>1. txn' = txn /\ (txn # Null => txn.by # p)
      BY <1>7, <2>3 DEF Die, Mine
    <3>2. TxnInv'
      BY <1>7, <2>1, <3>1, CallsStep, TxnKept DEF TxnInv
    <3>3. QED
      BY <1>7, <2>1, <3>2, CallsStep DEF TypeInv
  <2>4. QED
    BY <2>2, <2>3
<1>8. QED
  BY <1>1, <1>2, <1>3, <1>4, <1>5, <1>6, <1>7 DEF StoreNext

LEMMA InitType ==
    ASSUME StoreInit
    PROVE  TypeInv /\ TxnInv
<1>1. PICK scene \in Scenes : StoreFrom(scene)
  BY DEF StoreInit
<1>2. /\ scene.db \in Database /\ scene.todo \in [Process -> Seq(UserCall)]
      /\ database = scene.db /\ calls = scene.todo /\ txn = Null
  BY <1>1, ScenesAssumption DEF StoreFrom, WholeDatabase
<1>3. \A todo \in Seq(UserCall) : todo \in Seq(Job)
  BY SeqDef DEF Job
<1>4. QED
  BY <1>2, <1>3 DEF TypeInv, TxnInv

-------------------------------------------------------------------------------
(* The refinement: a statement is no step of the abstract store, a commit is  *)
(* the whole method, and everything else leaves what is committed alone.      *)

LEMMA CommitIsWrite ==
    ASSUME TypeInv, TxnInv, NEW p \in Process, Commit(p)
    PROVE  /\ Writing(p) /\ NextCall(p) \in Job
           /\ ~SomeRefused(database, NextCall(p).stmts)
           /\ database' = ApplyAll(database, NextCall(p).stmts)
<1> DEFINE stmts == NextCall(p).stmts
<1>1. /\ Writing(p) /\ txn.at = Len(stmts) /\ txn.copy = After(database, stmts)[Len(stmts)]
      /\ \A k \in 1 .. Len(stmts) : ~Refused(After(database, stmts)[k - 1], stmts[k])
      /\ database' = txn.copy
  BY DEF Commit, Mine, TxnInv
<1>2. NextCall(p) \in Job
  BY <1>1, WriterJob
<1>3. QED
  BY <1>1, <1>2 DEF SomeRefused, ApplyAll

\* RunStore reads the same tables and statements.
LEMMA SameTables ==
    /\ \A d, stmts : Store!ApplyAll(d, stmts) = ApplyAll(d, stmts)
    /\ \A d, stmts : Store!SomeRefused(d, stmts) = SomeRefused(d, stmts)
    /\ \A d, p, job : Store!AfterRead(d, p, job) = AfterRead(d, p, job)
<1>1. \A d, s : Store!Apply(d, s) = Apply(d, s)
  BY DEF Store!Apply, Apply, Store!WithRows, WithRows, Store!store_run_metadata,
         store_run_metadata, Store!Coalesce, Coalesce, Store!store_task_results,
         store_task_results, Store!Upsert, Upsert, Store!store_measurements,
         store_measurements, Store!store_spans, store_spans,
         Store!store_analysis_results, store_analysis_results,
         Store!store_artifacts, store_artifacts, Store!EmptyTable, EmptyTable,
         Store!NoRows, NoRows
<1>2. \A d, stmts : Store!After(d, stmts) = After(d, stmts)
  BY DEF Store!After, After, Store!Apply, Apply, Store!WithRows, WithRows,
         Store!store_run_metadata, store_run_metadata, Store!Coalesce, Coalesce,
         Store!store_task_results, store_task_results, Store!Upsert, Upsert,
         Store!store_measurements, store_measurements, Store!store_spans, store_spans,
         Store!store_analysis_results, store_analysis_results,
         Store!store_artifacts, store_artifacts, Store!EmptyTable, EmptyTable,
         Store!NoRows, NoRows
<1>3. \A d, s : Store!Refused(d, s) = Refused(d, s)
  BY DEF Store!Refused, Refused, Store!EmptyTable, EmptyTable
<1>4. \A d, p, job : Store!AfterRead(d, p, job) = AfterRead(d, p, job)
  BY DEF Store!AfterRead, AfterRead, Store!record_point, record_point, Store!Merged,
         Merged, Store!RowMetadata, RowMetadata, Store!StoreMetadata, StoreMetadata,
         Store!Call, Call, Store!Must, Must, Store!On, On, Store!Benchmark, Benchmark,
         Store!DeleteBenchmark, DeleteBenchmark, Store!DeleteRuns, DeleteRuns,
         Store!delete_run, delete_run, Store!delete_benchmark_row, delete_benchmark_row,
         Store!DeleteSweep, DeleteSweep, Store!delete_sweep_row, delete_sweep_row
<1>5. QED
  BY <1>2, <1>3, <1>4 DEF Store!ApplyAll, ApplyAll, Store!SomeRefused, SomeRefused

LEMMA RefinementStep ==
    ASSUME TypeInv, TxnInv, [StoreNext]_storeVars
    PROVE  [Store!Next]_<<database, calls>>
<1> DEFINE S == Store!Next
<1>0. DOMAIN calls = Process
  BY DEF TypeInv
<1>1. CASE UNCHANGED storeVars
  BY <1>1 DEF storeVars
<1>2. ASSUME NEW p \in Process, ExecuteStatement(p)
      PROVE  UNCHANGED <<database, calls>>
  BY <1>2 DEF ExecuteStatement
<1>3. ASSUME NEW p \in Process, Fails(p) \/ Busy(p)
      PROVE  Store!Next
  <2>1. /\ Writing(p) /\ UNCHANGED database
        /\ calls' = [calls EXCEPT ![p] =
                        IF NextCall(p).fatal THEN <<>> ELSE Tail(calls[p])]
    BY <1>3 DEF Fails, Busy, MayExecute, GivesUp
  <2>2. Store!FailsToWrite(p)
    BY <2>1 DEF Store!FailsToWrite, Store!Become, Writing, NextCall
  <2>3. QED
    BY <1>0, <2>2 DEF Store!Next, Store!Caller
<1>4. ASSUME NEW p \in Process, Commit(p)
      PROVE  Store!Next
  <2>1. /\ Writing(p) /\ ~SomeRefused(database, NextCall(p).stmts)
        /\ database' = ApplyAll(database, NextCall(p).stmts)
        /\ calls' = [calls EXCEPT ![p] = Tail(calls[p])]
    BY <1>4, CommitIsWrite DEF Commit
  <2>2. Store!Writes(p)
    BY <2>1, SameTables DEF Store!Writes, Store!Become, Writing, NextCall
  <2>3. QED
    BY <1>0, <2>2 DEF Store!Next, Store!Caller
<1>5. ASSUME NEW p \in Process, Read(p)
      PROVE  Store!Next
  <2>1. Store!Reads(p)
    BY <1>5, SameTables DEF Read, Store!Reads, Store!Become, NextCall
  <2>2. QED
    BY <1>0, <2>1 DEF Store!Next, Store!Caller
<1>6. ASSUME NEW p \in Process, Die(p)
      PROVE  Store!Next
  <2>1. Store!Dies(p)
    BY <1>6 DEF Die, Store!Dies, Store!Become
  <2>2. QED
    BY <1>0, <2>1 DEF Store!Next, Store!Caller
<1>7. QED
  BY <1>1, <1>2, <1>3, <1>4, <1>5, <1>6 DEF StoreNext

\* Every store_* method, persist_run with all its parts, and each delete_run,
\* of any processes on any database, is one step on what is committed: it
\* happens as a whole or not at all, whatever fails and whoever dies.
THEOREM MethodsAreAtomic == StoreSpec => ImplementsRunStore
<1>1. StoreInit => TypeInv /\ TxnInv
  BY InitType
<1>2. TypeInv /\ TxnInv /\ [StoreNext]_storeVars => (TypeInv /\ TxnInv)'
  BY TypeStep
<1>3. TypeInv /\ TxnInv /\ [StoreNext]_storeVars => [Store!Next]_Store!vars
  BY RefinementStep DEF Store!vars
<1>4. QED
  BY <1>1, <1>2, <1>3, PTL DEF StoreSpec, ImplementsRunStore, Store!Spec

-------------------------------------------------------------------------------
(* What the store holds, and what a deletion leaves of it, fits together      *)
(* however the calls of its users interleave, fail and die.                   *)

-------------------------------------------------------------------------------
(* What each method commits. *)

LEMMA JobNames ==
    ASSUME NEW job \in Job
    PROVE  /\ job.name = "measured" =>
                  \E p \in Process, r \in RunId : job = persist_measured(p, r)
           /\ job.name = "results" =>
                  \E p \in Process, r \in RunId, passed \in SUBSET TaskId :
                      job = persist_results(p, r, passed)
           /\ job.name = "record" => \E r \in RunId, m \in Meta : job = record_point(r, m)
           /\ job.name = "ensure" => \E r \in RunId : job = ensure_run_row(r)
           /\ job.name = "verdict" => \E p \in Process : job = store_verdict(p)
           /\ job.name = "delete_run" => \E r \in RunId : job = delete_run(r)
           /\ job.name = "point" => \E r \in RunId : job = store_sweep_point(r)
           /\ job.name = "sweep" => job = store_sweep
           /\ job.name = "delete_sweep" => job = delete_sweep_row
           /\ job.name = "delete_benchmark" => job = delete_benchmark_row
           /\ job.name = "get_run" => \E r \in RunId : job = Look("get_run", r)
           /\ job.kind = "write" <=>
                  job.name \in {"measured", "results", "record", "ensure", "verdict",
                                "delete_run", "point", "sweep", "delete_sweep",
                                "delete_benchmark"}
           /\ job.kind # "write" =>
                  /\ job.name = job.kind
                  /\ job.name \in {"get_run", "list_benchmark", "list_sweep"}
<1> DEFINE Named(name) == job.name = name /\ job.kind = "write"
<1>1. ASSUME NEW p \in Process, NEW r \in RunId, job = persist_measured(p, r)
      PROVE  Named("measured")
  BY <1>1, MeasuredCall
<1>2. ASSUME NEW p \in Process, NEW r \in RunId, NEW passed \in SUBSET TaskId,
             job = persist_results(p, r, passed)
      PROVE  Named("results")
  BY <1>2, ResultsCall
<1>3. ASSUME NEW r \in RunId, NEW m \in Meta, job = record_point(r, m)
      PROVE  Named("record")
  BY <1>3, RecordCall
<1>4. ASSUME NEW r \in RunId, job = ensure_run_row(r)
      PROVE  Named("ensure")
  BY <1>4, EnsureCall
<1>5. ASSUME NEW p \in Process, job = store_verdict(p)
      PROVE  Named("verdict")
  BY <1>5, VerdictCall
<1>6. ASSUME NEW r \in RunId, job = delete_run(r)
      PROVE  Named("delete_run")
  BY <1>6, DeleteCall
<1>7. ASSUME NEW r \in RunId, job = store_sweep_point(r)
      PROVE  Named("point")
  BY <1>7, PointCall
<1>8. /\ job = store_sweep => Named("sweep")
      /\ job = delete_sweep_row => Named("delete_sweep")
      /\ job = delete_benchmark_row => Named("delete_benchmark")
  BY SweepCallsOfOne
<1>9. /\ \A r \in RunId : job = Look("get_run", r) => job.kind = "get_run" /\ job.name = "get_run"
      /\ job = Look("list_benchmark", Null) =>
             job.kind = "list_benchmark" /\ job.name = "list_benchmark"
      /\ job = Look("list_sweep", Null) => job.kind = "list_sweep" /\ job.name = "list_sweep"
  BY DEF Look
<1>10. QED
  BY <1>1, <1>2, <1>3, <1>4, <1>5, <1>6, <1>7, <1>8, <1>9, JobCases

LEMMA FatalNames ==
    ASSUME NEW job \in Job
    PROVE  job.name = "results" => job.fatal = TRUE
<1>1. ASSUME job.name = "results" PROVE job.fatal = TRUE
  <2>1. PICK p \in Process, r \in RunId, passed \in SUBSET TaskId :
               job = persist_results(p, r, passed)
    BY <1>1, JobNames
  <2>2. QED
    BY <2>1, ResultsCall
<1>2. QED
  BY <1>1

\* Nothing but one run's row is different.
OnlyRow(d, e, r) ==
    /\ e \in Database /\ e.points = d.points /\ e.sweep = d.sweep
    /\ \A q \in RunId \ {r} : e.rows[q] = d.rows[q]

LEMMA OnlyRowStep ==
    ASSUME NEW d \in Database, NEW e, NEW r \in RunId, OnlyRow(d, e, r),
           NEW s \in RowStmt, s.run = r
    PROVE  OnlyRow(d, Apply(e, s), r) /\ Apply(e, s).rows[r] = NewRow(e.rows[r], s)
<1>1. e \in Database /\ e.rows[r] \in Row
  BY DEF OnlyRow, Database
<1>2. NewRow(e.rows[r], s) \in Row /\ Apply(e, s) = WithRows(e, r, NewRow(e.rows[r], s))
  BY <1>1, NewRowType, ApplyRow
<1>3. QED
  BY <1>1, <1>2, WithRowsType DEF OnlyRow

LEMMA WrittenIs ==
    ASSUME NEW S, NEW stmts \in Seq(S)
    PROVE  /\ \A r : r \in Written(stmts) <=>
                  \E k \in 1 .. Len(stmts) :
                      /\ stmts[k].op \notin {"delete_spans", "delete_points", "delete_run",
                             "point", "sweep", "delete_sweep", "delete_sweep_points",
                             "benchmark", "delete_benchmark"}
                      /\ r = stmts[k].run
           /\ \A r : r \in Deleted(stmts) <=>
                  \E k \in 1 .. Len(stmts) :
                      stmts[k].op = "delete_run" /\ r = stmts[k].run
<1>1. DOMAIN stmts = 1 .. Len(stmts)
  BY LenProperties
<1>2. QED
  BY <1>1 DEF Written, Deleted, Range

\* Four statements at most, all about one run.
LEMMA RowCallStores ==
    ASSUME NEW d \in Database, NEW r \in RunId, NEW stmts \in Seq(RowStmt),
           \A k \in 1 .. Len(stmts) :
              stmts[k].run = r /\ stmts[k].op \notin {"delete_spans", "delete_run"},
           Len(stmts) \in 1 .. 4
    PROVE  /\ OnlyRow(d, ApplyAll(d, stmts), r)
           /\ Written(stmts) = {r} /\ Deleted(stmts) = {}
           /\ After(d, stmts)[0].rows[r] = d.rows[r]
           /\ \A k \in 1 .. Len(stmts) :
                 After(d, stmts)[k].rows[r] = NewRow(After(d, stmts)[k - 1].rows[r], stmts[k])
           /\ \A k \in 0 .. Len(stmts) : After(d, stmts)[k].rows[r] \in Row
<1>1. \A k \in 1 .. Len(stmts) : stmts[k] \in RowStmt
  BY ElementOfSeq
<1>2. /\ After(d, stmts)[0] = d
      /\ \A k \in 1 .. Len(stmts) :
            After(d, stmts)[k] = Apply(After(d, stmts)[k - 1], stmts[k])
  BY AfterIs
<1>3. OnlyRow(d, After(d, stmts)[0], r)
  BY <1>2 DEF OnlyRow
<1>4. ASSUME NEW k \in 1 .. Len(stmts), OnlyRow(d, After(d, stmts)[k - 1], r)
      PROVE  /\ OnlyRow(d, After(d, stmts)[k], r)
             /\ After(d, stmts)[k].rows[r] = NewRow(After(d, stmts)[k - 1].rows[r], stmts[k])
  BY <1>1, <1>2, <1>4, OnlyRowStep
<1>5. OnlyRow(d, After(d, stmts)[1], r)
  <2>1. 1 \in 1 .. Len(stmts) /\ OnlyRow(d, After(d, stmts)[1 - 1], r)
    BY <1>3
  <2>2. QED
    BY <2>1, <1>4
<1>6. Len(stmts) >= 2 => OnlyRow(d, After(d, stmts)[2], r)
  BY <1>4, <1>5
<1>7. Len(stmts) >= 3 => OnlyRow(d, After(d, stmts)[3], r)
  BY <1>4, <1>6
<1>8. Len(stmts) >= 4 => OnlyRow(d, After(d, stmts)[4], r)
  BY <1>4, <1>7
<1>9. \A k \in 0 .. Len(stmts) : OnlyRow(d, After(d, stmts)[k], r)
  BY <1>3, <1>5, <1>6, <1>7, <1>8
<1>10. Written(stmts) = {r} /\ Deleted(stmts) = {}
  <2>1. \A k \in 1 .. Len(stmts) :
           stmts[k].op \in {"metadata", "tasks", "measurements", "spans", "verdicts",
                            "artifacts"}
    BY <1>1 DEF RowStmt
  <2>2. 1 \in 1 .. Len(stmts)
    OBVIOUS
  <2>3. QED
    BY <2>1, <2>2, WrittenIs
<1>11. \A k \in 0 .. Len(stmts) : After(d, stmts)[k].rows[r] \in Row
  BY <1>9 DEF OnlyRow, Database
<1>12. QED
  BY <1>2, <1>4, <1>9, <1>10, <1>11 DEF ApplyAll

\* Two rows that differ only in tables about which nothing is said here.
Like(row, old) ==
    /\ row.exists = old.exists /\ row.status = old.status
    /\ row.passed_tasks = old.passed_tasks /\ row.benchmark_id = old.benchmark_id
    /\ row.metadata = old.metadata

LEMMA TableRow ==
    ASSUME NEW row \in Row, NEW r, NEW new
    PROVE  /\ LET m == NewRow(row, Put("measurements", r, new))
              IN  /\ Like(m, row) /\ m.task_results = row.task_results
                  /\ m.measurements = Upsert(row.measurements, new)
           /\ LET t == NewRow(row, Put("tasks", r, new))
              IN  /\ Like(t, row) /\ t.measurements = row.measurements
                  /\ t.task_results = Upsert(row.task_results, new)
           /\ \A op \in {"spans", "verdicts", "artifacts"} :
                 LET o == NewRow(row, Put(op, r, new))
                 IN  /\ Like(o, row) /\ o.task_results = row.task_results
                     /\ o.measurements = row.measurements
<1>1. LET m == NewRow(row, Put("measurements", r, new))
      IN  /\ Like(m, row) /\ m.task_results = row.task_results
          /\ m.measurements = Upsert(row.measurements, new)
  BY DEF NewRow, Put, Like, store_measurements, Row
<1>2. LET t == NewRow(row, Put("tasks", r, new))
      IN  /\ Like(t, row) /\ t.measurements = row.measurements
          /\ t.task_results = Upsert(row.task_results, new)
  BY DEF NewRow, Put, Like, store_task_results, Row
<1>3. ASSUME NEW op \in {"spans", "verdicts", "artifacts"}
      PROVE  LET o == NewRow(row, Put(op, r, new))
             IN  /\ Like(o, row) /\ o.task_results = row.task_results
                 /\ o.measurements = row.measurements
  <2>1. CASE op = "spans"
    BY <2>1 DEF NewRow, Put, Like, store_spans, Row
  <2>2. CASE op = "verdicts"
    BY <2>2 DEF NewRow, Put, Like, store_analysis_results, Row
  <2>3. CASE op = "artifacts"
    BY <2>3 DEF NewRow, Put, Like, store_artifacts, Row
  <2>4. QED
    BY <2>1, <2>2, <2>3
<1>4. QED
  BY <1>1, <1>2, <1>3

LEMMA MetadataStmt ==
    ASSUME NEW row \in Row, NEW r, NEW m \in Meta
    PROVE  NewRow(row, StoreMetadata(r, m)) = store_run_metadata(row, m)
  BY DEF NewRow, StoreMetadata

LEMMA UpsertNotEmpty ==
    ASSUME NEW old, NEW p
    PROVE  Upsert(old, By(p, TaskId)) # EmptyTable
<1>1. PICK t \in TaskId : TRUE
  BY TaskIdAssumption
<1>2. t \in DOMAIN Upsert(old, By(p, TaskId))
  BY DEF Upsert, By
<1>3. DOMAIN EmptyTable = {}
  BY DEF EmptyTable
<1>4. QED
  BY <1>2, <1>3

LEMMA NotNull ==
    /\ "complete" # Null /\ Benchmark # Null /\ \A n \in Nat : n # Null
    /\ \A metadata \in SUBSET MetadataKey : metadata # Null
  BY NullAssumption

LEMMA MeasuredEffect ==
    ASSUME NEW d \in Database, NEW p \in Process, NEW r \in RunId
    PROVE  LET stmts == persist_measured(p, r).stmts
               row == ApplyAll(d, stmts).rows[r]
           IN  /\ OnlyRow(d, ApplyAll(d, stmts), r)
               /\ Written(stmts) = {r} /\ Deleted(stmts) = {}
               /\ row.exists /\ row.status = d.rows[r].status
               /\ row.passed_tasks = d.rows[r].passed_tasks
               /\ row.benchmark_id = Benchmark /\ row.metadata = {<<"run">>}
               /\ row.task_results = d.rows[r].task_results
               /\ row.measurements # EmptyTable
<1> DEFINE stmts == persist_measured(p, r).stmts
           e == After(d, stmts)
<1>1. /\ stmts \in Seq(RowStmt) /\ Len(stmts) = 4
      /\ stmts[1] = StoreMetadata(r, StartMetadata)
      /\ stmts[2] = Put("measurements", r, By(p, TaskId))
      /\ stmts[3] = Put("spans", r, By(p, TaskId))
      /\ stmts[4] = Put("artifacts", r, By(p, {"emon_csv"}))
  <2>1. /\ stmts = <<StoreMetadata(r, StartMetadata),
                     Put("measurements", r, By(p, TaskId)),
                     Put("spans", r, By(p, TaskId)),
                     Put("artifacts", r, By(p, {"emon_csv"}))>>
        /\ stmts \in Seq(RowStmt) /\ Len(stmts) = 4
    BY MeasuredCall
  <2> HIDE DEF stmts
  <2>2. QED
    BY <2>1
<1>2. \A k \in 1 .. Len(stmts) :
         stmts[k].run = r /\ stmts[k].op \notin {"delete_spans", "delete_run"}
  <2>1. /\ stmts[1].run = r /\ stmts[1].op = "metadata"
        /\ stmts[2].run = r /\ stmts[2].op = "measurements"
        /\ stmts[3].run = r /\ stmts[3].op = "spans"
        /\ stmts[4].run = r /\ stmts[4].op = "artifacts"
    BY <1>1 DEF StoreMetadata, Put
  <2>2. \A k \in 1 .. 4 : k = 1 \/ k = 2 \/ k = 3 \/ k = 4
    OBVIOUS
  <2>3. QED
    BY <1>1, <2>1, <2>2
<1> HIDE DEF stmts
<1>3. /\ OnlyRow(d, ApplyAll(d, stmts), r)
      /\ Written(stmts) = {r} /\ Deleted(stmts) = {}
      /\ e[0].rows[r] = d.rows[r]
      /\ \A k \in 1 .. 4 : e[k].rows[r] = NewRow(e[k - 1].rows[r], stmts[k])
      /\ \A k \in 0 .. 4 : e[k].rows[r] \in Row
      /\ ApplyAll(d, stmts) = e[4]
  <2>1. Len(stmts) \in 1 .. 4 /\ stmts \in Seq(RowStmt)
    BY <1>1
  <2>2. ApplyAll(d, stmts) = e[Len(stmts)]
    BY DEF ApplyAll
  <2>3. /\ OnlyRow(d, ApplyAll(d, stmts), r)
        /\ Written(stmts) = {r} /\ Deleted(stmts) = {}
        /\ e[0].rows[r] = d.rows[r]
        /\ \A k \in 1 .. Len(stmts) : e[k].rows[r] = NewRow(e[k - 1].rows[r], stmts[k])
        /\ \A k \in 0 .. Len(stmts) : e[k].rows[r] \in Row
    BY <1>2, <2>1, RowCallStores
  <2> HIDE DEF e
  <2>4. QED
    BY <1>1, <2>2, <2>3
<1> HIDE DEF e
<1>4. /\ e[1].rows[r] = NewRow(d.rows[r], stmts[1])
      /\ e[2].rows[r] = NewRow(e[1].rows[r], stmts[2])
      /\ e[3].rows[r] = NewRow(e[2].rows[r], stmts[3])
      /\ e[4].rows[r] = NewRow(e[3].rows[r], stmts[4])
      /\ d.rows[r] \in Row /\ e[1].rows[r] \in Row /\ e[2].rows[r] \in Row
      /\ e[3].rows[r] \in Row
  BY <1>3
<1>5. e[1].rows[r] = store_run_metadata(d.rows[r], StartMetadata)
  <2>1. {} \in SUBSET TaskId
    OBVIOUS
  <2>2. StartMetadata \in Meta
    BY <2>1, MetaTypes
  <2>3. QED
    BY <1>1, <1>4, <2>2, MetadataStmt
<1>6. /\ e[1].rows[r].exists /\ e[1].rows[r].status = d.rows[r].status
      /\ e[1].rows[r].passed_tasks = d.rows[r].passed_tasks
      /\ e[1].rows[r].benchmark_id = Benchmark /\ e[1].rows[r].metadata = {<<"run">>}
      /\ e[1].rows[r].task_results = d.rows[r].task_results
  <2>1. /\ StartMetadata \in Meta
        /\ StartMetadata.status = Null /\ StartMetadata.passed_tasks = Null
        /\ StartMetadata.benchmark_id = Benchmark /\ StartMetadata.extra = {<<"run">>}
    BY MetaTypes, TaskIdAssumption
  <2>2. QED
    BY <1>4, <1>5, <2>1, MetadataRow, NotNull
<1>7. /\ Like(e[2].rows[r], e[1].rows[r])
      /\ e[2].rows[r].task_results = e[1].rows[r].task_results
      /\ e[2].rows[r].measurements # EmptyTable
  BY <1>1, <1>4, TableRow, UpsertNotEmpty
<1>8. /\ Like(e[3].rows[r], e[2].rows[r])
      /\ e[3].rows[r].task_results = e[2].rows[r].task_results
      /\ e[3].rows[r].measurements = e[2].rows[r].measurements
  BY <1>1, <1>4, TableRow
<1>9. /\ Like(e[4].rows[r], e[3].rows[r])
      /\ e[4].rows[r].task_results = e[3].rows[r].task_results
      /\ e[4].rows[r].measurements = e[3].rows[r].measurements
  BY <1>1, <1>4, TableRow
<1>10. QED
  BY <1>3, <1>6, <1>7, <1>8, <1>9 DEF Like, stmts

LEMMA ResultsWritten ==
    ASSUME NEW p \in Process, NEW r \in RunId, NEW passed \in SUBSET TaskId
    PROVE  Written(persist_results(p, r, passed).stmts) = {r}
<1> DEFINE stmts == persist_results(p, r, passed).stmts
           outcome == [t \in TaskId |-> t \in passed]
<1>1. /\ stmts = <<StoreMetadata(r, CompleteMetadata(p, passed)),
                   Put("tasks", r, outcome), Put("verdicts", r, By(p, TaskId))>>
      /\ stmts \in Seq(RowStmt) /\ Len(stmts) = 3
  BY ResultsCall
<1> HIDE DEF stmts, outcome
<1>2. \A k \in 1 .. 3 : stmts[k].run = r /\ stmts[k].op \in {"metadata", "tasks", "verdicts"}
  <2>1. /\ stmts[1].run = r /\ stmts[1].op = "metadata"
        /\ stmts[2].run = r /\ stmts[2].op = "tasks"
        /\ stmts[3].run = r /\ stmts[3].op = "verdicts"
    BY <1>1 DEF StoreMetadata, Put
  <2>2. \A k \in 1 .. 3 : k = 1 \/ k = 2 \/ k = 3
    OBVIOUS
  <2>3. QED
    BY <2>1, <2>2
<1>3. \A x : x \in Written(stmts) <=> x = r
  <2>1. /\ 1 \in DOMAIN stmts /\ DOMAIN stmts = 1 .. 3
        /\ Range(stmts) = {stmts[k] : k \in DOMAIN stmts}
    BY <1>1, LenProperties DEF Range
  <2>2. QED
    BY <1>2, <2>1 DEF Written
<1>4. QED
  BY <1>3 DEF stmts

LEMMA ResultsEffect ==
    ASSUME NEW d \in Database, NEW p \in Process, NEW r \in RunId,
           NEW passed \in SUBSET TaskId
    PROVE  LET stmts == persist_results(p, r, passed).stmts
               row == ApplyAll(d, stmts).rows[r]
           IN  /\ OnlyRow(d, ApplyAll(d, stmts), r)
               /\ Written(stmts) = {r} /\ Deleted(stmts) = {}
               /\ row.exists /\ row.status = "complete"
               /\ row.passed_tasks = Cardinality(passed)
               /\ row.benchmark_id = Benchmark
               /\ row.metadata = {<<"run">>, <<"counts", p>>}
               /\ DOMAIN row.task_results = TaskId
               /\ {t \in TaskId : row.task_results[t]} = passed
               /\ row.measurements = d.rows[r].measurements
<1> DEFINE stmts == persist_results(p, r, passed).stmts
           e == After(d, stmts)
           outcome == [t \in TaskId |-> t \in passed]
<1>1. /\ stmts \in Seq(RowStmt) /\ Len(stmts) = 3
      /\ stmts[1] = StoreMetadata(r, CompleteMetadata(p, passed))
      /\ stmts[2] = Put("tasks", r, outcome)
      /\ stmts[3] = Put("verdicts", r, By(p, TaskId))
  <2>1. /\ stmts = <<StoreMetadata(r, CompleteMetadata(p, passed)),
                     Put("tasks", r, outcome), Put("verdicts", r, By(p, TaskId))>>
        /\ stmts \in Seq(RowStmt) /\ Len(stmts) = 3
    BY ResultsCall
  <2> HIDE DEF stmts, outcome
  <2>2. QED
    BY <2>1
<1>2. \A k \in 1 .. Len(stmts) :
         stmts[k].run = r /\ stmts[k].op \notin {"delete_spans", "delete_run"}
  <2>1. /\ stmts[1].run = r /\ stmts[1].op = "metadata"
        /\ stmts[2].run = r /\ stmts[2].op = "tasks"
        /\ stmts[3].run = r /\ stmts[3].op = "verdicts"
    BY <1>1 DEF StoreMetadata, Put
  <2>2. \A k \in 1 .. 3 : k = 1 \/ k = 2 \/ k = 3
    OBVIOUS
  <2>3. QED
    BY <1>1, <2>1, <2>2
<1> HIDE DEF stmts
<1>3. /\ OnlyRow(d, ApplyAll(d, stmts), r)
      /\ Written(stmts) = {r} /\ Deleted(stmts) = {}
      /\ e[0].rows[r] = d.rows[r]
      /\ \A k \in 1 .. 3 : e[k].rows[r] = NewRow(e[k - 1].rows[r], stmts[k])
      /\ \A k \in 0 .. 3 : e[k].rows[r] \in Row
      /\ ApplyAll(d, stmts) = e[3]
  <2>1. Len(stmts) \in 1 .. 4 /\ stmts \in Seq(RowStmt)
    BY <1>1
  <2>2. ApplyAll(d, stmts) = e[Len(stmts)]
    BY DEF ApplyAll
  <2>3. /\ OnlyRow(d, ApplyAll(d, stmts), r)
        /\ Written(stmts) = {r} /\ Deleted(stmts) = {}
        /\ e[0].rows[r] = d.rows[r]
        /\ \A k \in 1 .. Len(stmts) : e[k].rows[r] = NewRow(e[k - 1].rows[r], stmts[k])
        /\ \A k \in 0 .. Len(stmts) : e[k].rows[r] \in Row
    BY <1>2, <2>1, RowCallStores
  <2> HIDE DEF e
  <2>4. QED
    BY <1>1, <2>2, <2>3
<1> HIDE DEF e
<1>4. /\ e[1].rows[r] = NewRow(d.rows[r], stmts[1])
      /\ e[2].rows[r] = NewRow(e[1].rows[r], stmts[2])
      /\ e[3].rows[r] = NewRow(e[2].rows[r], stmts[3])
      /\ d.rows[r] \in Row /\ e[1].rows[r] \in Row /\ e[2].rows[r] \in Row
  BY <1>3
<1>5. e[1].rows[r] = store_run_metadata(d.rows[r], CompleteMetadata(p, passed))
  BY <1>1, <1>4, MetadataStmt, MetaTypes
<1>6. Cardinality(passed) \in Nat
  BY TaskIdAssumption, FS_Subset, FS_CardinalityType
<1>7. /\ e[1].rows[r].exists /\ e[1].rows[r].status = "complete"
      /\ e[1].rows[r].passed_tasks = Cardinality(passed)
      /\ e[1].rows[r].benchmark_id = Benchmark
      /\ e[1].rows[r].metadata = {<<"run">>, <<"counts", p>>}
      /\ e[1].rows[r].task_results = d.rows[r].task_results
      /\ e[1].rows[r].measurements = d.rows[r].measurements
  <2> DEFINE m == CompleteMetadata(p, passed)
  <2>1. /\ m \in Meta /\ m.status = "complete" /\ m.passed_tasks = Cardinality(passed)
        /\ m.benchmark_id = Benchmark /\ m.extra = {<<"run">>, <<"counts", p>>}
    BY MetaTypes
  <2>2. m.status # Null /\ m.passed_tasks # Null /\ m.benchmark_id # Null
    BY <1>6, <2>1, NotNull
  <2> HIDE DEF m
  <2>3. QED
    BY <1>4, <1>5, <2>1, <2>2, MetadataRow DEF m
<1>8. /\ Like(e[2].rows[r], e[1].rows[r])
      /\ e[2].rows[r].task_results = Upsert(d.rows[r].task_results, outcome)
      /\ e[2].rows[r].measurements = e[1].rows[r].measurements
  BY <1>1, <1>4, <1>7, TableRow
<1>9. /\ Like(e[3].rows[r], e[2].rows[r])
      /\ e[3].rows[r].task_results = e[2].rows[r].task_results
      /\ e[3].rows[r].measurements = e[2].rows[r].measurements
  BY <1>1, <1>4, TableRow
<1>10. /\ DOMAIN Upsert(d.rows[r].task_results, outcome) = TaskId
       /\ \A t \in TaskId : Upsert(d.rows[r].task_results, outcome)[t] = (t \in passed)
  <2>1. PICK held \in SUBSET TaskId : d.rows[r].task_results \in [held -> BOOLEAN]
    BY <1>4 DEF Row, Table
  <2>2. DOMAIN outcome = TaskId /\ DOMAIN d.rows[r].task_results = held
    BY <2>1
  <2>3. QED
    BY <2>2 DEF Upsert
<1>11. {t \in TaskId : e[3].rows[r].task_results[t]} = passed
  BY <1>8, <1>9, <1>10
<1>12. QED
  BY <1>3, <1>7, <1>8, <1>9, <1>10, <1>11 DEF Like, stmts

\* One metadata statement is all that these calls execute.
LEMMA MetadataEffect ==
    ASSUME NEW d \in Database, NEW r \in RunId, NEW m \in Meta
    PROVE  LET stmts == <<StoreMetadata(r, m)>>
               row == ApplyAll(d, stmts).rows[r]
           IN  /\ OnlyRow(d, ApplyAll(d, stmts), r)
               /\ Written(stmts) = {r} /\ Deleted(stmts) = {}
               /\ row = store_run_metadata(d.rows[r], m) /\ d.rows[r] \in Row
<1> DEFINE stmts == <<StoreMetadata(r, m)>>
<1>1. /\ stmts \in Seq(RowStmt) /\ Len(stmts) = 1
      /\ stmts[1] = StoreMetadata(r, m)
  BY RecordCall
<1> HIDE DEF stmts
<1>2. \A k \in 1 .. Len(stmts) :
         stmts[k].run = r /\ stmts[k].op \notin {"delete_spans", "delete_run"}
  BY <1>1 DEF StoreMetadata
<1>3. Len(stmts) \in 1 .. 4
  BY <1>1
<1>4. /\ OnlyRow(d, ApplyAll(d, stmts), r)
      /\ Written(stmts) = {r} /\ Deleted(stmts) = {}
      /\ After(d, stmts)[0].rows[r] = d.rows[r]
      /\ \A k \in 1 .. Len(stmts) :
            After(d, stmts)[k].rows[r] = NewRow(After(d, stmts)[k - 1].rows[r], stmts[k])
  <2>1. stmts \in Seq(RowStmt)
    BY <1>1
  <2>2. QED
    BY <2>1, <1>2, <1>3, RowCallStores
<1>5. 1 \in 1 .. Len(stmts) /\ 1 - 1 = 0
  BY <1>1
<1>6. After(d, stmts)[1].rows[r] = NewRow(d.rows[r], stmts[1])
  BY <1>4, <1>5
<1>7. d.rows[r] \in Row
  BY DEF Database
<1>8. ApplyAll(d, stmts).rows[r] = store_run_metadata(d.rows[r], m)
  BY <1>1, <1>6, <1>7, MetadataStmt DEF ApplyAll
<1>9. QED
  BY <1>4, <1>7, <1>8 DEF stmts

LEMMA RecordEffect ==
    ASSUME NEW d \in Database, NEW r \in RunId, NEW m \in Meta
    PROVE  LET stmts == record_point(r, m).stmts
               row == ApplyAll(d, stmts).rows[r]
           IN  /\ OnlyRow(d, ApplyAll(d, stmts), r)
               /\ Written(stmts) = {r} /\ Deleted(stmts) = {}
               /\ row.exists /\ row.metadata = m.extra
               /\ row.status = IF m.status = Null THEN d.rows[r].status ELSE m.status
               /\ row.passed_tasks =
                      IF m.passed_tasks = Null THEN d.rows[r].passed_tasks
                      ELSE m.passed_tasks
               /\ row.benchmark_id =
                      IF m.benchmark_id = Null THEN d.rows[r].benchmark_id
                      ELSE m.benchmark_id
               /\ row.task_results = d.rows[r].task_results
               /\ row.measurements = d.rows[r].measurements
<1>1. record_point(r, m).stmts = <<StoreMetadata(r, m)>>
  BY RecordCall
<1> DEFINE stmts == <<StoreMetadata(r, m)>>
           row == ApplyAll(d, stmts).rows[r]
<1>2. /\ OnlyRow(d, ApplyAll(d, stmts), r)
      /\ Written(stmts) = {r} /\ Deleted(stmts) = {}
      /\ row = store_run_metadata(d.rows[r], m) /\ d.rows[r] \in Row
  BY MetadataEffect
<1> HIDE DEF row, stmts
<1>3. /\ row.exists /\ row.metadata = m.extra
      /\ row.status = IF m.status = Null THEN d.rows[r].status ELSE m.status
      /\ row.passed_tasks =
             IF m.passed_tasks = Null THEN d.rows[r].passed_tasks ELSE m.passed_tasks
      /\ row.benchmark_id =
             IF m.benchmark_id = Null THEN d.rows[r].benchmark_id ELSE m.benchmark_id
      /\ row.task_results = d.rows[r].task_results
      /\ row.measurements = d.rows[r].measurements
  BY <1>2, MetadataRow
<1>4. QED
  BY <1>1, <1>2, <1>3 DEF row, stmts

LEMMA EnsureEffect ==
    ASSUME NEW d \in Database, NEW r \in RunId
    PROVE  LET stmts == ensure_run_row(r).stmts
               row == ApplyAll(d, stmts).rows[r]
           IN  /\ OnlyRow(d, ApplyAll(d, stmts), r)
               /\ Written(stmts) = {r} /\ Deleted(stmts) = {}
               /\ row.exists /\ row.metadata = {<<"cell">>}
               /\ row.status = d.rows[r].status
               /\ row.passed_tasks = d.rows[r].passed_tasks
               /\ row.benchmark_id = d.rows[r].benchmark_id
               /\ row.task_results = d.rows[r].task_results
               /\ row.measurements = d.rows[r].measurements
<1> DEFINE m == RowMetadata({<<"cell">>})
           stmts == <<StoreMetadata(r, m)>>
           row == ApplyAll(d, stmts).rows[r]
<1>1. ensure_run_row(r).stmts = stmts
  BY EnsureCall
<1>2. /\ m \in Meta /\ m.status = Null /\ m.passed_tasks = Null
      /\ m.benchmark_id = Null /\ m.extra = {<<"cell">>}
  BY DEF RowMetadata, Meta, MetadataKey
<1> HIDE DEF m
<1>3. /\ OnlyRow(d, ApplyAll(d, stmts), r)
      /\ Written(stmts) = {r} /\ Deleted(stmts) = {}
      /\ row = store_run_metadata(d.rows[r], m) /\ d.rows[r] \in Row
  BY <1>2, MetadataEffect
<1> HIDE DEF row, stmts
<1>4. /\ row.exists /\ row.metadata = {<<"cell">>}
      /\ row.status = d.rows[r].status
      /\ row.passed_tasks = d.rows[r].passed_tasks
      /\ row.benchmark_id = d.rows[r].benchmark_id
      /\ row.task_results = d.rows[r].task_results
      /\ row.measurements = d.rows[r].measurements
  BY <1>2, <1>3, MetadataRow
<1>5. QED
  BY <1>1, <1>3, <1>4 DEF row

\* A sweep's verdict is refused unless the sweep's own run has its row.
LEMMA VerdictEffect ==
    ASSUME NEW d \in Database, NEW p \in Process,
           ~SomeRefused(d, store_verdict(p).stmts)
    PROVE  LET stmts == store_verdict(p).stmts
               row == ApplyAll(d, stmts).rows[SweepId]
           IN  /\ OnlyRow(d, ApplyAll(d, stmts), SweepId)
               /\ Written(stmts) = {SweepId} /\ Deleted(stmts) = {}
               /\ d.rows[SweepId].exists /\ Like(row, d.rows[SweepId])
               /\ row.task_results = d.rows[SweepId].task_results
               /\ row.measurements = d.rows[SweepId].measurements
<1> DEFINE stmts == store_verdict(p).stmts
           row == ApplyAll(d, stmts).rows[SweepId]
<1>1. /\ stmts \in Seq(RowStmt) /\ Len(stmts) = 1
      /\ stmts[1] = Put("verdicts", SweepId, By(p, {SweepId}))
  <2>1. /\ stmts = <<Put("verdicts", SweepId, By(p, {SweepId}))>>
        /\ stmts \in Seq(RowStmt) /\ Len(stmts) = 1
    BY VerdictCall
  <2> HIDE DEF stmts
  <2>2. QED
    BY <2>1
<1> HIDE DEF stmts
<1>2. \A k \in 1 .. Len(stmts) :
         stmts[k].run = SweepId /\ stmts[k].op \notin {"delete_spans", "delete_run"}
  BY <1>1 DEF Put
<1>3. Len(stmts) \in 1 .. 4 /\ SweepId \in RunId
  BY <1>1, RunIdAssumption
<1>4. /\ OnlyRow(d, ApplyAll(d, stmts), SweepId)
      /\ Written(stmts) = {SweepId} /\ Deleted(stmts) = {}
      /\ After(d, stmts)[0].rows[SweepId] = d.rows[SweepId]
      /\ \A k \in 1 .. Len(stmts) :
            After(d, stmts)[k].rows[SweepId]
                = NewRow(After(d, stmts)[k - 1].rows[SweepId], stmts[k])
  BY <1>1, <1>2, <1>3, RowCallStores
<1>5. 1 \in 1 .. Len(stmts) /\ 1 - 1 = 0
  BY <1>1
<1>6. row = NewRow(d.rows[SweepId], stmts[1])
  BY <1>1, <1>4, <1>5 DEF ApplyAll
<1>7. d.rows[SweepId] \in Row
  BY <1>3 DEF Database
<1>8. /\ Like(row, d.rows[SweepId])
      /\ row.task_results = d.rows[SweepId].task_results
      /\ row.measurements = d.rows[SweepId].measurements
  BY <1>1, <1>6, <1>7, TableRow
<1>9. d.rows[SweepId].exists
  <2>1. ~Refused(After(d, stmts)[0], stmts[1])
    BY <1>5 DEF SomeRefused, stmts
  <2>2. After(d, stmts)[0] = d
    BY <1>1, AfterIs
  <2>3. stmts[1].op = "verdicts" /\ stmts[1].run = SweepId
    BY <1>1 DEF Put
  <2>4. QED
    BY <2>1, <2>2, <2>3 DEF Refused
<1>10. QED
  BY <1>4, <1>8, <1>9 DEF stmts

LEMMA PointEffect ==
    ASSUME NEW d \in Database, NEW r \in RunId,
           ~SomeRefused(d, store_sweep_point(r).stmts)
    PROVE  LET stmts == store_sweep_point(r).stmts
               e == ApplyAll(d, stmts)
           IN  /\ Written(stmts) = {} /\ Deleted(stmts) = {}
               /\ d.sweep /\ e.sweep = d.sweep
               /\ e.rows = d.rows /\ e.points = d.points \cup {r}
<1> DEFINE stmts == store_sweep_point(r).stmts
<1>1. /\ stmts \in Seq(PointStmt) /\ Len(stmts) = 1
      /\ stmts[1] = On("point", r)
  <2>1. stmts = <<On("point", r)>> /\ stmts \in Seq(PointStmt) /\ Len(stmts) = 1
    BY PointCall
  <2> HIDE DEF stmts
  <2>2. QED
    BY <2>1
<1> HIDE DEF stmts
<1>2. /\ After(d, stmts)[0] = d /\ 1 \in 1 .. Len(stmts) /\ 1 - 1 = 0
      /\ \A k \in 1 .. Len(stmts) :
            After(d, stmts)[k] = Apply(After(d, stmts)[k - 1], stmts[k])
  BY <1>1, AfterIs
<1>3. ApplyAll(d, stmts) = Apply(d, stmts[1])
  BY <1>1, <1>2 DEF ApplyAll
<1>4. stmts[1] \in PointStmt /\ stmts[1].op = "point" /\ stmts[1].run = r
  <2>1. On("point", r) \in PointStmt
    BY DEF On, PointStmt
  <2>2. QED
    BY <1>1, <2>1 DEF On
<1>5. /\ ApplyAll(d, stmts).rows = d.rows
      /\ ApplyAll(d, stmts).points = d.points \cup {r}
      /\ ApplyAll(d, stmts).sweep = d.sweep
  <2> DEFINE s == stmts[1]
  <2>1. s \in PointStmt \cup SweepStmt /\ s.op = "point" /\ s.run = r
    BY <1>4
  <2> HIDE DEF s
  <2>2. /\ Apply(d, s).rows = d.rows /\ Apply(d, s).points = d.points \cup {r}
        /\ Apply(d, s).sweep = d.sweep
    BY <2>1, ApplyPoint
  <2>3. QED
    BY <1>3, <2>2 DEF s
<1>6. d.sweep
  <2>1. ~Refused(d, stmts[1])
    BY <1>2 DEF SomeRefused, stmts
  <2>2. QED
    BY <2>1, <1>4 DEF Refused
<1>7. Written(stmts) = {} /\ Deleted(stmts) = {}
  BY <1>1, <1>4, WrittenIs
<1>8. QED
  BY <1>5, <1>6, <1>7 DEF stmts

\* delete_run: when its last statement is due the run's spans are gone, and
\* afterwards the run and its points are.
LEMMA DeleteEffect ==
    ASSUME NEW d \in Database, NEW r \in RunId
    PROVE  LET stmts == delete_run(r).stmts
               e == ApplyAll(d, stmts)
           IN  /\ Written(stmts) = {} /\ Deleted(stmts) = {r}
               /\ After(d, stmts)[2].rows[r].spans = EmptyTable
               /\ e.rows[r] = NoRows /\ \A q \in RunId \ {r} : e.rows[q] = d.rows[q]
               /\ e.points = d.points \ {r} /\ e.sweep = d.sweep
<1> DEFINE stmts == delete_run(r).stmts
           s1 == On("delete_spans", r)
           s2 == On("delete_points", r)
           s3 == On("delete_run", r)
           e == After(d, stmts)
<1>1. /\ stmts \in Seq(Stmt) /\ Len(stmts) = 3
      /\ stmts[1] = s1 /\ stmts[2] = s2 /\ stmts[3] = s3
  <2>1. stmts = <<s1, s2, s3>> /\ stmts \in Seq(Stmt) /\ Len(stmts) = 3
    BY DeleteCall
  <2> HIDE DEF stmts, s1, s2, s3
  <2>2. QED
    BY <2>1
<1>2. /\ s1 \in RowStmt /\ s1.op = "delete_spans" /\ s1.run = r
      /\ s2 \in PointStmt \cup SweepStmt /\ s2.op = "delete_points" /\ s2.run = r
      /\ s3 \in RowStmt /\ s3.op = "delete_run" /\ s3.run = r
  BY DEF On, RowStmt, PointStmt
<1> HIDE DEF stmts, s1, s2, s3
<1>3. /\ e[0] = d /\ e[1] = Apply(e[0], s1) /\ e[2] = Apply(e[1], s2)
      /\ e[3] = Apply(e[2], s3) /\ ApplyAll(d, stmts) = e[3]
  <2>0. Len(stmts) \in Nat
    BY <1>1
  <2>1. /\ e[0] = d
        /\ \A k \in 1 .. Len(stmts) : e[k] = Apply(e[k - 1], stmts[k])
    BY <2>0, AfterIs
  <2>2. ApplyAll(d, stmts) = e[Len(stmts)]
    BY DEF ApplyAll
  <2> HIDE DEF e
  <2>3. /\ 1 \in 1 .. Len(stmts) /\ 2 \in 1 .. Len(stmts) /\ 3 \in 1 .. Len(stmts)
        /\ 1 - 1 = 0 /\ 2 - 1 = 1 /\ 3 - 1 = 2
    BY <1>1
  <2>4. e[1] = Apply(e[1 - 1], stmts[1]) /\ e[2] = Apply(e[2 - 1], stmts[2])
        /\ e[3] = Apply(e[3 - 1], stmts[3])
    BY <2>1, <2>3
  <2>5. QED
    BY <1>1, <2>1, <2>2, <2>3, <2>4
<1>4. Written(stmts) = {} /\ Deleted(stmts) = {r}
  <2>1. \A k \in 1 .. 3 : k = 1 \/ k = 2 \/ k = 3
    OBVIOUS
  <2>2. \A k \in 1 .. Len(stmts) :
           /\ stmts[k].op \in {"delete_spans", "delete_points", "delete_run"}
           /\ stmts[k].run = r
    BY <1>1, <1>2, <2>1
  <2>3. 3 \in 1 .. Len(stmts) /\ stmts[3].op = "delete_run" /\ stmts[3].run = r
    BY <1>1, <1>2
  <2>4. QED
    BY <1>1, <2>2, <2>3, WrittenIs
<1> HIDE DEF e
<1>5. /\ e[1] \in Database
      /\ e[1].rows[r] = NewRow(d.rows[r], s1)
      /\ \A q \in RunId \ {r} : e[1].rows[q] = d.rows[q]
      /\ e[1].points = d.points /\ e[1].sweep = d.sweep
  <2>1. d.rows[r] \in Row
    BY DEF Database
  <2>2. NewRow(d.rows[r], s1) \in Row
    BY <1>2, <2>1, NewRowType
  <2>3. e[1] = WithRows(d, r, NewRow(d.rows[r], s1))
    BY <1>2, <1>3, ApplyRow
  <2>4. QED
    BY <2>2, <2>3, WithRowsType
<1>6. e[1].rows[r].spans = EmptyTable
  <2>1. d.rows[r] \in Row
    BY DEF Database
  <2>2. NewRow(d.rows[r], s1) = [d.rows[r] EXCEPT !.spans = EmptyTable]
    BY <1>2 DEF NewRow
  <2>3. QED
    BY <1>5, <2>1, <2>2 DEF Row
<1>7. /\ e[2] \in Database /\ e[2].rows = e[1].rows
      /\ e[2].points = e[1].points \ {r} /\ e[2].sweep = e[1].sweep
  <2> DEFINE f == e[1]
  <2>1. f \in Database
    BY <1>5
  <2> HIDE DEF f
  <2>2. /\ Apply(f, s2) \in Database /\ Apply(f, s2).rows = f.rows
        /\ Apply(f, s2).points = f.points \ {r} /\ Apply(f, s2).sweep = f.sweep
    BY <1>2, <2>1, ApplyPoint
  <2>3. QED
    BY <1>3, <2>2 DEF f
<1>8. /\ e[3].rows[r] = NoRows /\ \A q \in RunId \ {r} : e[3].rows[q] = e[2].rows[q]
      /\ e[3].points = e[2].points /\ e[3].sweep = e[2].sweep
  <2>1. e[3] = WithRows(e[2], r, NoRows)
    BY <1>2, <1>3, <1>7, ApplyRow DEF NewRow
  <2>2. QED
    BY <1>7, <2>1, NoRowsType, WithRowsType
<1>9. QED
  BY <1>3, <1>4, <1>5, <1>6, <1>7, <1>8 DEF stmts, e

LEMMA SweepEffect ==
    ASSUME NEW d \in Database, NEW job \in {store_sweep, delete_benchmark_row}
    PROVE  LET e == ApplyAll(d, job.stmts)
           IN  /\ Written(job.stmts) = {} /\ Deleted(job.stmts) = {}
               /\ e.rows = d.rows /\ e.points = d.points /\ (d.sweep => e.sweep)
<1> DEFINE stmts == job.stmts
<1>1. /\ stmts \in Seq(SweepStmt) /\ Len(stmts) = 1
      /\ stmts[1] \in PointStmt \cup SweepStmt
      /\ stmts[1].op \in {"sweep", "delete_benchmark"}
  <2>1. /\ stmts \in Seq(SweepStmt) /\ Len(stmts) = 1
        /\ stmts = <<[op |-> "sweep"]>> \/ stmts = <<[op |-> "delete_benchmark"]>>
    BY SweepCallsOfOne
  <2>2. stmts[1] \in SweepStmt
    BY <2>1, ElementOfSeq
  <2> HIDE DEF stmts
  <2>3. stmts[1] = [op |-> "sweep"] \/ stmts[1] = [op |-> "delete_benchmark"]
    BY <2>1
  <2>4. QED
    BY <2>1, <2>2, <2>3
<1> HIDE DEF stmts
<1>2. ApplyAll(d, stmts) = Apply(d, stmts[1])
  <2>0. Len(stmts) \in Nat /\ 1 \in 1 .. Len(stmts) /\ 1 - 1 = 0
    BY <1>1
  <2>1. /\ After(d, stmts)[0] = d
        /\ \A k \in 1 .. Len(stmts) :
              After(d, stmts)[k] = Apply(After(d, stmts)[k - 1], stmts[k])
    BY <2>0, AfterIs
  <2>2. QED
    BY <1>1, <2>0, <2>1 DEF ApplyAll
<1>3. Written(stmts) = {} /\ Deleted(stmts) = {}
  BY <1>1, WrittenIs
<1> DEFINE s == stmts[1]
<1>4. /\ s \in PointStmt \cup SweepStmt /\ s.op \in {"sweep", "delete_benchmark"}
      /\ ApplyAll(d, stmts) = Apply(d, s)
  BY <1>1, <1>2
<1> HIDE DEF s
<1>5. /\ Apply(d, s).rows = d.rows /\ Apply(d, s).points = d.points
      /\ (d.sweep => Apply(d, s).sweep)
  BY <1>4, ApplyPoint
<1>6. QED
  BY <1>3, <1>4, <1>5 DEF stmts

LEMMA DeleteSweepEffect ==
    ASSUME NEW d \in Database
    PROVE  LET stmts == delete_sweep_row.stmts
               e == ApplyAll(d, stmts)
           IN  /\ Written(stmts) = {} /\ Deleted(stmts) = {}
               /\ After(d, stmts)[1].points = {}
               /\ e.rows = d.rows /\ e.points = {}
<1> DEFINE stmts == delete_sweep_row.stmts
           s1 == [op |-> "delete_sweep_points"]
           s2 == [op |-> "delete_sweep"]
           e == After(d, stmts)
<1>1. /\ stmts \in Seq(SweepStmt) /\ Len(stmts) = 2 /\ stmts[1] = s1 /\ stmts[2] = s2
  <2>1. stmts = <<s1, s2>> /\ stmts \in Seq(SweepStmt) /\ Len(stmts) = 2
    BY SweepCallsOfOne
  <2> HIDE DEF stmts, s1, s2
  <2>2. QED
    BY <2>1
<1>2. /\ s1 \in PointStmt \cup SweepStmt /\ s1.op = "delete_sweep_points"
      /\ s2 \in PointStmt \cup SweepStmt /\ s2.op = "delete_sweep"
  BY DEF SweepStmt
<1> HIDE DEF stmts, s1, s2
<1>3. /\ e[0] = d /\ e[1] = Apply(e[0], s1) /\ e[2] = Apply(e[1], s2)
      /\ ApplyAll(d, stmts) = e[2]
  <2>0. Len(stmts) \in Nat
    BY <1>1
  <2>1. /\ e[0] = d
        /\ \A k \in 1 .. Len(stmts) : e[k] = Apply(e[k - 1], stmts[k])
    BY <2>0, AfterIs
  <2>2. ApplyAll(d, stmts) = e[Len(stmts)]
    BY DEF ApplyAll
  <2> HIDE DEF e
  <2>3. /\ 1 \in 1 .. Len(stmts) /\ 2 \in 1 .. Len(stmts) /\ 1 - 1 = 0 /\ 2 - 1 = 1
    BY <1>1
  <2>4. e[1] = Apply(e[1 - 1], stmts[1]) /\ e[2] = Apply(e[2 - 1], stmts[2])
    BY <2>1, <2>3
  <2>5. QED
    BY <1>1, <2>1, <2>2, <2>3, <2>4
<1>4. Written(stmts) = {} /\ Deleted(stmts) = {}
  <2>1. \A k \in 1 .. 2 : k = 1 \/ k = 2
    OBVIOUS
  <2>2. \A k \in 1 .. Len(stmts) : stmts[k].op \in {"delete_sweep_points", "delete_sweep"}
    BY <1>1, <1>2, <2>1
  <2>3. QED
    BY <1>1, <2>2, WrittenIs
<1> HIDE DEF e
<1>5. e[1] \in Database /\ e[1].rows = d.rows /\ e[1].points = {}
  <2>1. /\ Apply(d, s1) \in Database /\ Apply(d, s1).rows = d.rows
        /\ Apply(d, s1).points = {}
    BY <1>2, ApplyPoint
  <2>2. QED
    BY <1>3, <2>1
<1>6. e[2].rows = e[1].rows /\ e[2].points = e[1].points
  <2> DEFINE f == e[1]
  <2>1. f \in Database
    BY <1>5
  <2> HIDE DEF f
  <2>2. Apply(f, s2).rows = f.rows /\ Apply(f, s2).points = f.points
    BY <1>2, <2>1, ApplyPoint
  <2>3. QED
    BY <1>3, <2>2 DEF f
<1>7. QED
  BY <1>3, <1>4, <1>5, <1>6 DEF stmts, e

-------------------------------------------------------------------------------
(* The inductive invariant.                                                   *)

\* What a call that comes next may rely on: it was in the database once, and is
\* there yet unless the run was deleted, or the call that stores it has failed.
HasFailed(name) == \E p \in Process : name \in failedCalls[p]
HasMeasurements(r) ==
    database.rows[r].measurements # EmptyTable \/ r \in deleted \/ HasFailed("measured")
Identified(r) == database.rows[r].benchmark_id # Null \/ r \in deleted
Ensured(r) == database.rows[r].exists \/ r \in deleted \/ HasFailed("ensure")

CallName == {"measured", "results", "record", "ensure", "verdict", "delete_run",
             "point", "sweep", "delete_sweep", "delete_benchmark"}

ObserversType ==
    /\ storeFaults \in 0 .. MaxStoreFaults
    /\ failedCalls \in [Process -> SUBSET CallName]
    /\ deadCallers \subseteq Process /\ deleted \subseteq RunId
    /\ rewritten \in [Process -> SUBSET RunId] /\ listed \in [Process -> SUBSET RunId]
    /\ raced \in [Process -> BOOLEAN]

\* A row that is complete has its results, and its measurements as far as they
\* can be there; a row that carries evidence says what was run.
RowOK(r) ==
    LET row == database.rows[r]
    IN  /\ IF row.exists THEN row.metadata # Null ELSE row = NoRows
        /\ row.status = "complete" /\ ~stale =>
               /\ DOMAIN row.task_results = TaskId /\ HasMeasurements(r)
               /\ row.passed_tasks = Cardinality({t \in TaskId : row.task_results[t]})
        /\ row.exists /\ ~Identified(r) =>
               \A p \in Process : <<"evidence", p>> \notin row.metadata
RowsInv == \A r \in RunId : RowOK(r)

PointsInv ==
    /\ database.points # {} => database.sweep
    /\ \A r \in database.points : Ensured(r)

\* What the next call of a process relies on is there.
Prepared(q, job) ==
    LET r == RunOfCall(job)
    IN  /\ job.name = "results" => HasMeasurements(r)
        /\ job.name = "get_run" => Identified(r)
        /\ job.name = "point" => Ensured(r)
        /\ job.name = "record" =>
               /\ r \in deleted \/ job.stmts[1].meta.benchmark_id # Null
               /\ ~raced[q] => job = record_point(r, Merged(database.rows[r], q))
NextInv == \A q \in Process : calls[q] # <<>> => Prepared(q, NextCall(q))

\* And the later ones come after the calls that see to it.
LaterOK(todo) ==
    \A k \in 2 .. Len(todo) :
        /\ todo[k].name # "record"
        /\ todo[k].name = "results" => Follows(todo, k, "measured")
        /\ todo[k].name = "get_run" => Follows(todo, k, "results")
        /\ todo[k].name = "point" => Follows(todo, k, "ensure")
LaterInv == \A q \in Process : LaterOK(calls[q])

\* A run that was listed is gone, was written again, or its deletion is to come.
ListedInv ==
    \A p \in Process : \A r \in listed[p] :
        /\ p \notin deadCallers /\ failedCalls[p] = {} /\ r \notin rewritten[p]
        => \/ ~database.rows[r].exists
           \/ \E k \in 1 .. Len(calls[p]) : calls[p][k] = delete_run(r)

StoreInv ==
    /\ TypeInv /\ TxnInv /\ ObserversType /\ RowsInv /\ PointsInv
    /\ NextInv /\ LaterInv /\ ListedInv

-------------------------------------------------------------------------------
(* What a commit does to the rows, whatever the call.                         *)

\* What stays of a row that is not deleted.
Keeps(old, new) ==
    /\ old.exists => new.exists
    /\ old.measurements # EmptyTable => new.measurements # EmptyTable
    /\ old.benchmark_id # Null => new.benchmark_id # Null

LEMMA CallEffect ==
    ASSUME NEW d \in Database, NEW job \in Job, job.kind = "write",
           ~SomeRefused(d, job.stmts)
    PROVE  LET e == ApplyAll(d, job.stmts)
           IN  /\ Written(job.stmts) \subseteq RunId
               /\ \A r \in Deleted(job.stmts) :
                     r \in RunId /\ job = delete_run(r) /\ e.rows[r] = NoRows
               /\ \A r \in RunId :
                     r \notin Written(job.stmts) \cup Deleted(job.stmts) =>
                         e.rows[r] = d.rows[r]
               /\ \A r \in RunId :
                     r \notin Deleted(job.stmts) => Keeps(d.rows[r], e.rows[r])
<1> DEFINE e == ApplyAll(d, job.stmts)
           Good == /\ Written(job.stmts) \subseteq RunId
                   /\ \A r \in Deleted(job.stmts) :
                         r \in RunId /\ job = delete_run(r) /\ e.rows[r] = NoRows
                   /\ \A r \in RunId :
                         r \notin Written(job.stmts) \cup Deleted(job.stmts) =>
                             e.rows[r] = d.rows[r]
                   /\ \A r \in RunId :
                         r \notin Deleted(job.stmts) => Keeps(d.rows[r], e.rows[r])
<1>1. ASSUME NEW r \in RunId, OnlyRow(d, e, r), Written(job.stmts) = {r},
             Deleted(job.stmts) = {}, Keeps(d.rows[r], e.rows[r])
      PROVE  Good
  BY <1>1 DEF OnlyRow, Keeps
<1>2. ASSUME Written(job.stmts) = {}, Deleted(job.stmts) = {}, e.rows = d.rows
      PROVE  Good
  BY <1>2 DEF Keeps
<1> SUFFICES Good
  OBVIOUS
<1> HIDE DEF Good
<1>3. CASE job.name = "measured"
  <2>1. PICK p \in Process, r \in RunId : job = persist_measured(p, r)
    BY <1>3, JobNames
  <2>2. /\ OnlyRow(d, e, r) /\ Written(job.stmts) = {r} /\ Deleted(job.stmts) = {}
        /\ e.rows[r].exists /\ e.rows[r].benchmark_id = Benchmark
        /\ e.rows[r].measurements # EmptyTable
    BY <2>1, MeasuredEffect
  <2> HIDE DEF e
  <2>3. QED
    BY <1>1, <2>2, NotNull DEF Keeps
<1>4. CASE job.name = "results"
  <2>1. PICK p \in Process, r \in RunId, passed \in SUBSET TaskId :
               job = persist_results(p, r, passed)
    BY <1>4, JobNames
  <2>2. /\ OnlyRow(d, e, r) /\ Written(job.stmts) = {r} /\ Deleted(job.stmts) = {}
        /\ e.rows[r].exists /\ e.rows[r].benchmark_id = Benchmark
        /\ e.rows[r].measurements = d.rows[r].measurements
    BY <2>1, ResultsEffect
  <2> HIDE DEF e
  <2>3. QED
    BY <1>1, <2>2, NotNull DEF Keeps
<1>5. CASE job.name = "record"
  <2>1. PICK r \in RunId, m \in Meta : job = record_point(r, m)
    BY <1>5, JobNames
  <2>2. /\ OnlyRow(d, e, r) /\ Written(job.stmts) = {r} /\ Deleted(job.stmts) = {}
        /\ e.rows[r].exists
        /\ e.rows[r].benchmark_id =
               IF m.benchmark_id = Null THEN d.rows[r].benchmark_id ELSE m.benchmark_id
        /\ e.rows[r].measurements = d.rows[r].measurements
    BY <2>1, RecordEffect
  <2> HIDE DEF e
  <2>3. QED
    BY <1>1, <2>2 DEF Keeps
<1>6. CASE job.name = "ensure"
  <2>1. PICK r \in RunId : job = ensure_run_row(r)
    BY <1>6, JobNames
  <2>2. /\ OnlyRow(d, e, r) /\ Written(job.stmts) = {r} /\ Deleted(job.stmts) = {}
        /\ e.rows[r].exists /\ e.rows[r].benchmark_id = d.rows[r].benchmark_id
        /\ e.rows[r].measurements = d.rows[r].measurements
    BY <2>1, EnsureEffect
  <2> HIDE DEF e
  <2>3. QED
    BY <1>1, <2>2 DEF Keeps
<1>7. CASE job.name = "verdict"
  <2>1. PICK p \in Process : job = store_verdict(p)
    BY <1>7, JobNames
  <2>2. /\ OnlyRow(d, e, SweepId)
        /\ Written(job.stmts) = {SweepId} /\ Deleted(job.stmts) = {}
        /\ Like(e.rows[SweepId], d.rows[SweepId])
        /\ e.rows[SweepId].measurements = d.rows[SweepId].measurements
    BY <2>1, VerdictEffect
  <2> HIDE DEF e
  <2>3. QED
    BY <1>1, <2>2, RunIdAssumption DEF Keeps, Like
<1>8. CASE job.name = "delete_run"
  <2>1. PICK r \in RunId : job = delete_run(r)
    BY <1>8, JobNames
  <2>2. /\ Written(job.stmts) = {} /\ Deleted(job.stmts) = {r}
        /\ e.rows[r] = NoRows /\ \A q \in RunId \ {r} : e.rows[q] = d.rows[q]
    BY <2>1, DeleteEffect
  <2> HIDE DEF e
  <2>3. QED
    BY <2>1, <2>2 DEF Keeps, Good
<1>9. CASE job.name = "point"
  <2>1. PICK r \in RunId : job = store_sweep_point(r)
    BY <1>9, JobNames
  <2>2. Written(job.stmts) = {} /\ Deleted(job.stmts) = {} /\ e.rows = d.rows
    BY <2>1, PointEffect
  <2> HIDE DEF e
  <2>3. QED
    BY <1>2, <2>2
<1>10. CASE job.name \in {"sweep", "delete_benchmark"}
  <2>1. job \in {store_sweep, delete_benchmark_row}
    BY <1>10, JobNames
  <2>2. Written(job.stmts) = {} /\ Deleted(job.stmts) = {} /\ e.rows = d.rows
    BY <2>1, SweepEffect
  <2> HIDE DEF e
  <2>3. QED
    BY <1>2, <2>2
<1>11. CASE job.name = "delete_sweep"
  <2>1. job = delete_sweep_row
    BY <1>11, JobNames
  <2>2. Written(job.stmts) = {} /\ Deleted(job.stmts) = {} /\ e.rows = d.rows
    BY <2>1, DeleteSweepEffect
  <2> HIDE DEF e
  <2>3. QED
    BY <1>2, <2>2
<1>12. job.name \in {"measured", "results", "record", "ensure", "verdict",
                     "delete_run", "point", "sweep", "delete_sweep", "delete_benchmark"}
  BY JobNames
<1>13. QED
  BY <1>3, <1>4, <1>5, <1>6, <1>7, <1>8, <1>9, <1>10, <1>11, <1>12

\* The points that a call leaves, and the sweep to which they belong.
LEMMA PointsEffect ==
    ASSUME NEW d \in Database, NEW job \in Job, job.kind = "write",
           ~SomeRefused(d, job.stmts), d.points # {} => d.sweep
    PROVE  LET e == ApplyAll(d, job.stmts)
           IN  /\ e.points # {} => e.sweep
               /\ \A r \in e.points :
                     /\ r \in d.points \/ job = store_sweep_point(r)
                     /\ r \notin Deleted(job.stmts)
<1> DEFINE e == ApplyAll(d, job.stmts)
           Good == /\ e.points # {} => e.sweep
                   /\ \A r \in e.points :
                         /\ r \in d.points \/ job = store_sweep_point(r)
                         /\ r \notin Deleted(job.stmts)
<1>1. ASSUME NEW r \in RunId, OnlyRow(d, e, r), Deleted(job.stmts) = {}
      PROVE  Good
  BY <1>1 DEF OnlyRow
<1> SUFFICES Good
  OBVIOUS
<1> HIDE DEF Good
<1>3. CASE job.name = "measured"
  <2>1. PICK p \in Process, r \in RunId : job = persist_measured(p, r)
    BY <1>3, JobNames
  <2>2. OnlyRow(d, e, r) /\ Deleted(job.stmts) = {}
    BY <2>1, MeasuredEffect
  <2> HIDE DEF e
  <2>3. QED
    BY <1>1, <2>2
<1>4. CASE job.name = "results"
  <2>1. PICK p \in Process, r \in RunId, passed \in SUBSET TaskId :
               job = persist_results(p, r, passed)
    BY <1>4, JobNames
  <2>2. OnlyRow(d, e, r) /\ Deleted(job.stmts) = {}
    BY <2>1, ResultsEffect
  <2> HIDE DEF e
  <2>3. QED
    BY <1>1, <2>2
<1>5. CASE job.name = "record"
  <2>1. PICK r \in RunId, m \in Meta : job = record_point(r, m)
    BY <1>5, JobNames
  <2>2. OnlyRow(d, e, r) /\ Deleted(job.stmts) = {}
    BY <2>1, RecordEffect
  <2> HIDE DEF e
  <2>3. QED
    BY <1>1, <2>2
<1>6. CASE job.name = "ensure"
  <2>1. PICK r \in RunId : job = ensure_run_row(r)
    BY <1>6, JobNames
  <2>2. OnlyRow(d, e, r) /\ Deleted(job.stmts) = {}
    BY <2>1, EnsureEffect
  <2> HIDE DEF e
  <2>3. QED
    BY <1>1, <2>2
<1>7. CASE job.name = "verdict"
  <2>1. PICK p \in Process : job = store_verdict(p)
    BY <1>7, JobNames
  <2>2. OnlyRow(d, e, SweepId) /\ Deleted(job.stmts) = {}
    BY <2>1, VerdictEffect
  <2> HIDE DEF e
  <2>3. QED
    BY <1>1, <2>2, RunIdAssumption
<1>8. CASE job.name = "delete_run"
  <2>1. PICK r \in RunId : job = delete_run(r)
    BY <1>8, JobNames
  <2>2. /\ Deleted(job.stmts) = {r} /\ e.points = d.points \ {r} /\ e.sweep = d.sweep
    BY <2>1, DeleteEffect
  <2> HIDE DEF e
  <2>3. QED
    BY <2>2 DEF Good
<1>9. CASE job.name = "point"
  <2>1. PICK r \in RunId : job = store_sweep_point(r)
    BY <1>9, JobNames
  <2>2. /\ Deleted(job.stmts) = {} /\ d.sweep /\ e.sweep = d.sweep
        /\ e.points = d.points \cup {r}
    BY <2>1, PointEffect
  <2> HIDE DEF e
  <2>3. QED
    BY <2>1, <2>2 DEF Good
<1>10. CASE job.name \in {"sweep", "delete_benchmark"}
  <2>1. job \in {store_sweep, delete_benchmark_row}
    BY <1>10, JobNames
  <2>2. Deleted(job.stmts) = {} /\ e.points = d.points /\ (d.sweep => e.sweep)
    BY <2>1, SweepEffect
  <2> HIDE DEF e
  <2>3. QED
    BY <2>2 DEF Good
<1>11. CASE job.name = "delete_sweep"
  <2>1. job = delete_sweep_row
    BY <1>11, JobNames
  <2>2. e.points = {}
    BY <2>1, DeleteSweepEffect
  <2> HIDE DEF e
  <2>3. QED
    BY <2>2 DEF Good
<1>12. job.name \in {"measured", "results", "record", "ensure", "verdict",
                     "delete_run", "point", "sweep", "delete_sweep", "delete_benchmark"}
  BY JobNames
<1>13. QED
  BY <1>3, <1>4, <1>5, <1>6, <1>7, <1>8, <1>9, <1>10, <1>11, <1>12

-------------------------------------------------------------------------------
(* What every step keeps.                                                     *)

LEMMA CommitEffect ==
    ASSUME TypeInv, TxnInv, NEW p \in Process, Commit(p)
    PROVE  LET stmts == NextCall(p).stmts
           IN  /\ calls[p] # <<>> /\ NextCall(p) \in Job /\ NextCall(p).kind = "write"
               /\ ~SomeRefused(database, stmts)
               /\ database' = ApplyAll(database, stmts)
               /\ Written(stmts) \subseteq RunId
               /\ \A r \in Deleted(stmts) :
                     /\ r \in RunId /\ NextCall(p) = delete_run(r)
                     /\ database'.rows[r] = NoRows
               /\ \A r \in RunId :
                     r \notin Written(stmts) \cup Deleted(stmts) =>
                         database'.rows[r] = database.rows[r]
               /\ \A r \in RunId :
                     r \notin Deleted(stmts) => Keeps(database.rows[r], database'.rows[r])
<1>1. /\ calls[p] # <<>> /\ NextCall(p) \in Job /\ NextCall(p).kind = "write"
      /\ ~SomeRefused(database, NextCall(p).stmts)
      /\ database' = ApplyAll(database, NextCall(p).stmts)
  BY CommitIsWrite DEF Writing
<1>2. database \in Database
  BY DEF TypeInv
<1>3. QED
  BY <1>1, <1>2, CallEffect

LEMMA NoCommit ==
    ASSUME ObserversType, [StoreNext]_storeVars, ~ \E p \in Process : Commit(p)
    PROVE  /\ UNCHANGED <<database, deleted, stale>>
           /\ \A q \in Process : failedCalls[q] \subseteq failedCalls'[q]
<1>1. CASE UNCHANGED storeVars
  BY <1>1 DEF storeVars
<1>2. ASSUME NEW p \in Process, Fails(p) \/ Busy(p)
      PROVE  /\ UNCHANGED <<database, deleted, stale>>
             /\ \A q \in Process : failedCalls[q] \subseteq failedCalls'[q]
  BY <1>2 DEF Fails, Busy, GivesUp, ObserversType
<1>3. ASSUME NEW p \in Process, ExecuteStatement(p) \/ Read(p) \/ Die(p)
      PROVE  UNCHANGED <<database, deleted, stale, failedCalls>>
  BY <1>3 DEF ExecuteStatement, Read, Die, observers
<1>4. QED
  BY <1>1, <1>2, <1>3 DEF StoreNext

LEMMA StepKeeps ==
    ASSUME TypeInv, TxnInv, ObserversType, [StoreNext]_storeVars
    PROVE  /\ deleted \subseteq deleted'
           /\ \A q \in Process : failedCalls[q] \subseteq failedCalls'[q]
           /\ \A r \in RunId :
                 r \in deleted' \/ Keeps(database.rows[r], database'.rows[r])
<1>1. ASSUME NEW p \in Process, Commit(p)
      PROVE  /\ deleted \subseteq deleted'
             /\ \A q \in Process : failedCalls[q] \subseteq failedCalls'[q]
             /\ \A r \in RunId :
                   r \in deleted' \/ Keeps(database.rows[r], database'.rows[r])
  <2>1. /\ deleted' = deleted \cup Deleted(NextCall(p).stmts)
        /\ failedCalls' = failedCalls
    BY <1>1 DEF Commit
  <2>2. \A r \in RunId : r \notin Deleted(NextCall(p).stmts) =>
                             Keeps(database.rows[r], database'.rows[r])
    BY <1>1, CommitEffect
  <2>3. QED
    BY <2>1, <2>2
<1>2. CASE ~ \E p \in Process : Commit(p)
  BY <1>2, NoCommit DEF Keeps
<1>3. QED
  BY <1>1, <1>2

LEMMA PromisesKept ==
    ASSUME TypeInv, TxnInv, ObserversType, [StoreNext]_storeVars, NEW r \in RunId
    PROVE  /\ HasMeasurements(r) => HasMeasurements(r)'
           /\ Identified(r) => Identified(r)'
           /\ Ensured(r) => Ensured(r)'
<1>1. /\ deleted \subseteq deleted'
      /\ \A q \in Process : failedCalls[q] \subseteq failedCalls'[q]
      /\ r \in deleted' \/ Keeps(database.rows[r], database'.rows[r])
  BY StepKeeps
<1>2. /\ HasFailed("measured") => HasFailed("measured")'
      /\ HasFailed("ensure") => HasFailed("ensure")'
  BY <1>1 DEF HasFailed
<1>3. QED
  BY <1>1, <1>2 DEF HasMeasurements, Identified, Ensured, Keeps

\* The run of a call.
LEMMA FirstOf ==
    \A a, b, c, d : <<a>>[1] = a /\ <<a, b, c>>[1] = a /\ <<a, b, c, d>>[1] = a
  OBVIOUS

LEMMA RunsOfCalls ==
    /\ \A p \in Process, r \in RunId :
          LET job == persist_measured(p, r)
          IN  RunOfCall(job) = r /\ job.stmts[1] = StoreMetadata(r, StartMetadata)
    /\ \A p \in Process, r \in RunId, passed \in SUBSET TaskId :
          RunOfCall(persist_results(p, r, passed)) = r
    /\ \A r \in RunId, m \in Meta :
          LET job == record_point(r, m)
          IN  RunOfCall(job) = r /\ job.stmts[1].meta = m
    /\ \A r \in RunId : /\ RunOfCall(ensure_run_row(r)) = r
                        /\ RunOfCall(store_sweep_point(r)) = r
                        /\ RunOfCall(Look("get_run", r)) = r
<1>1. ASSUME NEW p \in Process, NEW r \in RunId
      PROVE  /\ RunOfCall(persist_measured(p, r)) = r
             /\ persist_measured(p, r).stmts[1] = StoreMetadata(r, StartMetadata)
  <2> DEFINE job == persist_measured(p, r)
  <2>1. job.kind = "write" /\ job.stmts = <<StoreMetadata(r, StartMetadata),
                                              Put("measurements", r, By(p, TaskId)),
                                              Put("spans", r, By(p, TaskId)),
                                              Put("artifacts", r, By(p, {"emon_csv"}))>>
    BY MeasuredCall
  <2> HIDE DEF job
  <2>2. job.stmts[1] = StoreMetadata(r, StartMetadata)
    BY <2>1, FirstOf
  <2>3. QED
    BY <2>1, <2>2 DEF job, RunOfCall, StoreMetadata
<1>2. ASSUME NEW p \in Process, NEW r \in RunId, NEW passed \in SUBSET TaskId
      PROVE  RunOfCall(persist_results(p, r, passed)) = r
  <2> DEFINE job == persist_results(p, r, passed)
  <2>1. job.kind = "write" /\ job.stmts = <<StoreMetadata(r, CompleteMetadata(p, passed)),
                                              Put("tasks", r, [t \in TaskId |-> t \in passed]),
                                              Put("verdicts", r, By(p, TaskId))>>
    BY ResultsCall
  <2> HIDE DEF job
  <2>2. job.stmts[1] = StoreMetadata(r, CompleteMetadata(p, passed))
    BY <2>1, FirstOf
  <2>3. QED
    BY <2>1, <2>2 DEF job, RunOfCall, StoreMetadata
<1>3. ASSUME NEW r \in RunId, NEW m \in Meta
      PROVE  /\ RunOfCall(record_point(r, m)) = r
             /\ record_point(r, m).stmts[1].meta = m
  <2> DEFINE job == record_point(r, m)
  <2>1. job.kind = "write" /\ job.stmts = <<StoreMetadata(r, m)>>
    BY RecordCall
  <2> HIDE DEF job
  <2>2. job.stmts[1] = StoreMetadata(r, m)
    BY <2>1, FirstOf
  <2>3. QED
    BY <2>1, <2>2 DEF job, RunOfCall, StoreMetadata
<1>4. ASSUME NEW r \in RunId
      PROVE  RunOfCall(ensure_run_row(r)) = r
  <2> DEFINE job == ensure_run_row(r)
  <2>1. job.kind = "write" /\ job.stmts = <<StoreMetadata(r, RowMetadata({<<"cell">>}))>>
    BY EnsureCall
  <2> HIDE DEF job
  <2>2. job.stmts[1] = StoreMetadata(r, RowMetadata({<<"cell">>}))
    BY <2>1, FirstOf
  <2>3. QED
    BY <2>1, <2>2 DEF job, RunOfCall, StoreMetadata
<1>5. ASSUME NEW r \in RunId
      PROVE  RunOfCall(store_sweep_point(r)) = r
  <2> DEFINE job == store_sweep_point(r)
  <2>1. job.kind = "write" /\ job.stmts = <<On("point", r)>>
    BY PointCall
  <2> HIDE DEF job
  <2>2. job.stmts[1] = On("point", r)
    BY <2>1, FirstOf
  <2>3. QED
    BY <2>1, <2>2 DEF job, RunOfCall, On
<1>6. \A r \in RunId : RunOfCall(Look("get_run", r)) = r
  BY DEF RunOfCall, Look
<1>7. QED
  BY <1>1, <1>2, <1>3, <1>4, <1>5, <1>6

LEMMA RunOfNamed ==
    ASSUME NEW job \in Job, job.name \in {"measured", "results", "record", "ensure",
                                          "point", "get_run"}
    PROVE  RunOfCall(job) \in RunId
  BY JobNames, RunsOfCalls

-------------------------------------------------------------------------------
(* Every step keeps the invariant, conjunct by conjunct.                      *)

LEMMA ObserversStep ==
    ASSUME TypeInv, TxnInv, ObserversType, [StoreNext]_storeVars
    PROVE  ObserversType'
<1>1. CASE UNCHANGED storeVars
  BY <1>1 DEF storeVars, ObserversType
<1>2. ASSUME NEW p \in Process, ExecuteStatement(p)
      PROVE  ObserversType'
  BY <1>2 DEF ExecuteStatement, observers, ObserversType
<1>3. ASSUME NEW p \in Process, Fails(p) \/ Busy(p)
      PROVE  ObserversType'
  <2>1. /\ Writing(p) /\ GivesUp(p)
        /\ \/ storeFaults' = storeFaults
           \/ storeFaults < MaxStoreFaults /\ storeFaults' = storeFaults + 1
    BY <1>3 DEF Fails, Busy, MayExecute
  <2>2. NextCall(p) \in Job /\ NextCall(p).kind = "write"
    BY <2>1, HeadJob DEF Writing
  <2>3. NextCall(p).name \in CallName
    BY <2>2, JobNames DEF CallName
  <2>4. storeFaults' \in 0 .. MaxStoreFaults
    BY <2>1, MaxStoreFaultsAssumption DEF ObserversType
  <2>5. QED
    BY <2>1, <2>3, <2>4 DEF GivesUp, ObserversType
<1>4. ASSUME NEW p \in Process, Commit(p)
      PROVE  ObserversType'
  <2> DEFINE stmts == NextCall(p).stmts
  <2>1. Written(stmts) \subseteq RunId /\ Deleted(stmts) \subseteq RunId
    BY <1>4, CommitEffect
  <2>2. /\ deleted' = deleted \cup Deleted(stmts)
        /\ rewritten' = [q \in Process |->
               (rewritten[q] \ Deleted(stmts)) \cup Written(stmts)]
        /\ raced' = [q \in Process |->
               raced[q] \/ (q # p /\ Written(stmts) \cup Deleted(stmts) # {})]
        /\ UNCHANGED <<storeFaults, failedCalls, deadCallers, listed>>
    BY <1>4 DEF Commit
  <2> HIDE DEF stmts
  <2>3. QED
    BY <2>1, <2>2 DEF ObserversType
<1>5. ASSUME NEW p \in Process, Read(p)
      PROVE  ObserversType'
  <2>1. /\ NextCall(p) \in Job /\ NextCall(p).kind # "write"
    BY <1>5, HeadJob DEF Read
  <2>2. NextCall(p).kind \in {"get_run", "list_benchmark", "list_sweep"}
    BY <2>1, JobType
  <2>3. /\ database.points \cup {SweepId} \subseteq RunId
        /\ {r \in RunId : database.rows[r].benchmark_id = Benchmark} \subseteq RunId
    BY RunIdAssumption DEF TypeInv, Database
  <2>4. listed' \in [Process -> SUBSET RunId]
    BY <1>5, <2>2, <2>3 DEF Read, ObserversType
  <2>5. rewritten' \in [Process -> SUBSET RunId] /\ raced' \in [Process -> BOOLEAN]
    BY <1>5 DEF Read, ObserversType
  <2>6. QED
    BY <1>5, <2>4, <2>5 DEF Read, ObserversType
<1>6. ASSUME NEW p \in Process, Die(p)
      PROVE  ObserversType'
  BY <1>6 DEF Die, ObserversType
<1>7. QED
  BY <1>1, <1>2, <1>3, <1>4, <1>5, <1>6 DEF StoreNext

\* A call that was prepared is prepared yet, while its process has not made it.
LEMMA PreparedKept ==
    ASSUME TypeInv, TxnInv, ObserversType, [StoreNext]_storeVars,
           NEW q \in Process, NEW job \in Job, Prepared(q, job),
           ~raced'[q] => ~raced[q] /\ database'.rows = database.rows
    PROVE  Prepared(q, job)'
<1>1. CASE job.name \in {"measured", "results", "record", "ensure", "point", "get_run"}
  <2> DEFINE r == RunOfCall(job)
  <2>1. r \in RunId
    BY <1>1, RunOfNamed
  <2>2. /\ HasMeasurements(r) => HasMeasurements(r)'
        /\ Identified(r) => Identified(r)'
        /\ Ensured(r) => Ensured(r)'
        /\ deleted \subseteq deleted'
    BY <2>1, PromisesKept, StepKeeps
  <2> HIDE DEF r
  <2>3. /\ job.name = "results" => HasMeasurements(r)
        /\ job.name = "get_run" => Identified(r)
        /\ job.name = "point" => Ensured(r)
        /\ job.name = "record" =>
               /\ r \in deleted \/ job.stmts[1].meta.benchmark_id # Null
               /\ ~raced[q] => job = record_point(r, Merged(database.rows[r], q))
    BY DEF Prepared, r
  <2>4. /\ job.name = "results" => HasMeasurements(r)'
        /\ job.name = "get_run" => Identified(r)'
        /\ job.name = "point" => Ensured(r)'
        /\ job.name = "record" =>
               /\ r \in deleted' \/ job.stmts[1].meta.benchmark_id # Null
               /\ ~raced'[q] => job = record_point(r, Merged(database'.rows[r], q))
    BY <2>2, <2>3
  <2>5. QED
    BY <2>4 DEF Prepared, r
<1>2. CASE job.name \notin {"measured", "results", "record", "ensure", "point", "get_run"}
  BY <1>2 DEF Prepared
<1>3. QED
  BY <1>1, <1>2

\* What the later calls of a process become the next one with.
LEMMA SecondCall ==
    ASSUME TypeInv, LaterInv, NEW p \in Process, calls[p] # <<>>, Tail(calls[p]) # <<>>
    PROVE  LET job == Head(Tail(calls[p]))
           IN  /\ job \in Job /\ job = calls[p][2] /\ job.name # "record"
               /\ job.name = "results" =>
                     /\ NextCall(p).name = "measured"
                     /\ RunOfCall(NextCall(p)) = RunOfCall(job)
               /\ job.name = "get_run" =>
                     /\ NextCall(p).name = "results"
                     /\ RunOfCall(NextCall(p)) = RunOfCall(job)
               /\ job.name = "point" =>
                     /\ NextCall(p).name = "ensure"
                     /\ RunOfCall(NextCall(p)) = RunOfCall(job)
<1> DEFINE rest == Tail(calls[p])
           job == Head(rest)
<1>1. /\ rest \in Seq(Job) /\ Len(rest) = Len(calls[p]) - 1
      /\ Len(calls[p]) \in Nat \ {0} /\ NextCall(p) = calls[p][1]
      /\ \A k \in 1 .. Len(rest) : rest[k] = calls[p][k + 1]
  BY HeadJob
<1> HIDE DEF rest
<1>2. job = rest[1] /\ job \in Job /\ Len(rest) \in Nat \ {0}
  <2>1. rest # <<>>
    BY DEF rest
  <2>2. Len(rest) \in Nat \ {0}
    BY <1>1, <2>1, EmptySeq
  <2>3. 1 \in 1 .. Len(rest)
    BY <2>2
  <2>4. rest[1] \in Job /\ job = rest[1]
    BY <1>1, <2>3, ElementOfSeq
  <2>5. QED
    BY <2>2, <2>4
<1>3. job = calls[p][2] /\ 2 \in 2 .. Len(calls[p])
  <2>1. 1 \in 1 .. Len(rest) /\ 1 + 1 = 2 /\ Len(rest) + 1 = Len(calls[p])
    BY <1>1, <1>2
  <2>2. QED
    BY <1>1, <1>2, <2>1
<1> HIDE DEF job
<1>4. /\ job.name # "record"
      /\ job.name = "results" => Follows(calls[p], 2, "measured")
      /\ job.name = "get_run" => Follows(calls[p], 2, "results")
      /\ job.name = "point" => Follows(calls[p], 2, "ensure")
  BY <1>3 DEF LaterInv, LaterOK
<1>5. 2 - 1 = 1
  OBVIOUS
<1>6. QED
  BY <1>1, <1>2, <1>3, <1>4, <1>5 DEF Follows, job, rest

\* A listing is followed by deletions: of every run that it named, and none of
\* these is a call that relies on an earlier one.
Deletions(todo) ==
    \A k \in 1 .. Len(todo) :
        todo[k].name \in {"delete_run", "delete_sweep", "delete_benchmark"}

LEMMA DeletionsOf ==
    ASSUME NEW runs \in Seq(RunId)
    PROVE  /\ Deletions(DeleteRuns(runs)) /\ DeleteRuns(runs) \in Seq(Job)
           /\ \A k \in 1 .. Len(runs) :
                 \E i \in 1 .. Len(DeleteRuns(runs)) :
                     DeleteRuns(runs)[i] = delete_run(runs[k])
<1>1. /\ DeleteRuns(runs) \in Seq(Job) /\ Len(DeleteRuns(runs)) = Len(runs)
      /\ \A k \in 1 .. Len(runs) : DeleteRuns(runs)[k] = delete_run(runs[k])
  BY DeleteRunsSeq
<1>2. \A k \in 1 .. Len(runs) : delete_run(runs[k]).name = "delete_run"
  BY DEF delete_run, Call
<1>3. QED
  BY <1>1, <1>2 DEF Deletions

LEMMA ConcatCalls ==
    ASSUME NEW a \in Seq(Job), NEW b \in Seq(Job)
    PROVE  /\ a \o b \in Seq(Job) /\ Len(a \o b) = Len(a) + Len(b)
           /\ \A i \in 1 .. Len(a) :
                 i \in 1 .. Len(a \o b) /\ (a \o b)[i] = a[i]
           /\ \A j \in 1 .. Len(b) :
                 /\ Len(a) + j \in 1 .. Len(a \o b) /\ (a \o b)[Len(a) + j] = b[j]
           /\ \A k \in 1 .. Len(a \o b) :
                 \/ k \in 1 .. Len(a)
                 \/ k - Len(a) \in 1 .. Len(b) /\ (a \o b)[k] = b[k - Len(a)]
           /\ Deletions(a) /\ Deletions(b) => Deletions(a \o b)
<1>1. Len(a) \in Nat /\ Len(b) \in Nat
  BY LenProperties
<1>2. /\ a \o b \in Seq(Job) /\ Len(a \o b) = Len(a) + Len(b)
      /\ \A k \in 1 .. Len(a) + Len(b) :
            (a \o b)[k] = IF k <= Len(a) THEN a[k] ELSE b[k - Len(a)]
  BY ConcatProperties
<1> DEFINE c == a \o b
           m == Len(a)
           n == Len(b)
<1>3. /\ m \in Nat /\ n \in Nat /\ Len(c) = m + n /\ c \in Seq(Job)
      /\ \A k \in 1 .. m + n : c[k] = IF k <= m THEN a[k] ELSE b[k - m]
  BY <1>1, <1>2
<1> HIDE DEF c, m, n
<1>4. \A i \in 1 .. m : i \in 1 .. Len(c) /\ c[i] = a[i]
  BY <1>3
<1>5. ASSUME NEW j \in 1 .. n
      PROVE  m + j \in 1 .. Len(c) /\ c[m + j] = b[j]
  <2>1. m + j \in 1 .. m + n /\ ~(m + j <= m) /\ (m + j) - m = j
    BY <1>3
  <2>2. QED
    BY <1>3, <2>1
<1>6. \A k \in 1 .. Len(c) :
         \/ k \in 1 .. m
         \/ k - m \in 1 .. n /\ c[k] = b[k - m]
  BY <1>3
<1>7. Deletions(a) /\ Deletions(b) => Deletions(c)
  BY <1>4, <1>6 DEF Deletions, m, n
<1>8. QED
  BY <1>3, <1>4, <1>5, <1>6, <1>7 DEF c, m, n

LEMMA ListingDeletes ==
    ASSUME NEW d \in Database, NEW p, NEW look \in Job, look.kind # "write",
           look.kind # "get_run"
    PROVE  LET after == AfterRead(d, p, look)
           IN  /\ Deletions(after) /\ after \in Seq(Job) /\ Len(after) \in Nat \ {0}
               /\ look.kind = "list_benchmark" =>
                     \A r \in RunId : d.rows[r].benchmark_id = Benchmark =>
                         \E k \in 1 .. Len(after) : after[k] = delete_run(r)
               /\ look.kind = "list_sweep" =>
                     \A r \in d.points \cup {SweepId} :
                         \E k \in 1 .. Len(after) : after[k] = delete_run(r)
<1>1. CASE look.kind = "list_benchmark"
  <2> DEFINE S == {r \in RunId : d.rows[r].benchmark_id = Benchmark}
             runs == SetToSeq(S)
             a == DeleteRuns(runs)
             b == <<delete_benchmark_row>>
  <2>1. IsFiniteSet(S) /\ S \subseteq RunId
    BY RunIdAssumption, FS_Subset
  <2> HIDE DEF S
  <2>2. /\ runs \in Seq(RunId)
        /\ \A r \in S : \E k \in 1 .. Len(runs) : runs[k] = r
    BY <2>1, SetToSeqIs, SeqDef
  <2>3. AfterRead(d, p, look) = a \o b
    BY <1>1 DEF AfterRead, DeleteBenchmark, S
  <2> HIDE DEF runs
  <2>4. /\ Deletions(a) /\ a \in Seq(Job)
        /\ \A k \in 1 .. Len(runs) :
              \E i \in 1 .. Len(a) : a[i] = delete_run(runs[k])
    BY <2>2, DeletionsOf
  <2>5. /\ b \in Seq(Job) /\ Len(b) = 1
        /\ \A k \in 1 .. Len(b) : b[k].name = "delete_benchmark"
    <3>1. delete_benchmark_row \in Job
      BY DEF Job
    <3>2. delete_benchmark_row.name = "delete_benchmark"
      BY SweepCallsOfOne
    <3>3. QED
      BY <3>1, <3>2
  <2>6. Deletions(b)
    BY <2>5 DEF Deletions
  <2> HIDE DEF a, b
  <2>7. /\ a \o b \in Seq(Job) /\ Len(a \o b) = Len(a) + Len(b) /\ Deletions(a \o b)
        /\ \A i \in 1 .. Len(a) : i \in 1 .. Len(a \o b) /\ (a \o b)[i] = a[i]
    BY <2>4, <2>5, <2>6, ConcatCalls
  <2>8. Len(a) \in Nat
    BY <2>4, LenProperties
  <2>9. Len(a \o b) \in Nat \ {0}
    BY <2>5, <2>7, <2>8
  <2>10. ASSUME NEW r \in S
         PROVE  \E k \in 1 .. Len(a \o b) : (a \o b)[k] = delete_run(r)
    <3>1. PICK k \in 1 .. Len(runs) : runs[k] = r
      BY <2>2
    <3>2. PICK i \in 1 .. Len(a) : a[i] = delete_run(r)
      BY <2>4, <3>1
    <3>3. QED
      BY <2>7, <3>2
  <2>11. QED
    BY <1>1, <2>3, <2>7, <2>9, <2>10 DEF S
<1>2. CASE look.kind = "list_sweep"
  <2> DEFINE runs == SetToSeq(d.points)
             a == <<delete_sweep_row>>
             b == DeleteRuns(runs)
             c == <<delete_run(SweepId)>>
  <2>1. IsFiniteSet(d.points) /\ d.points \subseteq RunId
    BY RunIdAssumption, FS_Subset DEF Database
  <2>2. /\ runs \in Seq(RunId)
        /\ \A r \in d.points : \E k \in 1 .. Len(runs) : runs[k] = r
    BY <2>1, SetToSeqIs, SeqDef
  <2>3. AfterRead(d, p, look) = (a \o b) \o c
    BY <1>2 DEF AfterRead, DeleteSweep
  <2> HIDE DEF runs
  <2>4. /\ Deletions(b) /\ b \in Seq(Job)
        /\ \A k \in 1 .. Len(runs) :
              \E i \in 1 .. Len(b) : b[i] = delete_run(runs[k])
    BY <2>2, DeletionsOf
  <2>5. /\ a \in Seq(Job) /\ Len(a) = 1
        /\ \A k \in 1 .. Len(a) : a[k].name = "delete_sweep"
    <3>1. delete_sweep_row \in Job
      BY DEF Job
    <3>2. delete_sweep_row.name = "delete_sweep"
      BY SweepCallsOfOne
    <3>3. QED
      BY <3>1, <3>2
  <2>6. /\ c \in Seq(Job) /\ Len(c) = 1 /\ c[1] = delete_run(SweepId)
        /\ \A k \in 1 .. Len(c) : c[k].name = "delete_run"
    <3>1. delete_run(SweepId) \in Job
      BY RunIdAssumption DEF Job, UserCall
    <3>2. delete_run(SweepId).name = "delete_run"
      BY DEF delete_run, Call
    <3>3. QED
      BY <3>1, <3>2
  <2>7. Deletions(a) /\ Deletions(c)
    BY <2>5, <2>6 DEF Deletions
  <2> HIDE DEF a, b, c
  <2>8. /\ a \o b \in Seq(Job) /\ Len(a \o b) = Len(a) + Len(b) /\ Deletions(a \o b)
        /\ \A j \in 1 .. Len(b) :
              Len(a) + j \in 1 .. Len(a \o b) /\ (a \o b)[Len(a) + j] = b[j]
    BY <2>4, <2>5, <2>7, ConcatCalls
  <2> DEFINE ab == a \o b
  <2>9. ab \in Seq(Job) /\ Deletions(ab)
    BY <2>8
  <2> HIDE DEF ab
  <2>10. /\ ab \o c \in Seq(Job) /\ Len(ab \o c) = Len(ab) + Len(c)
         /\ Deletions(ab \o c)
         /\ \A i \in 1 .. Len(ab) : i \in 1 .. Len(ab \o c) /\ (ab \o c)[i] = ab[i]
         /\ \A j \in 1 .. Len(c) :
               /\ Len(ab) + j \in 1 .. Len(ab \o c)
               /\ (ab \o c)[Len(ab) + j] = c[j]
    BY <2>6, <2>7, <2>9, ConcatCalls
  <2>11. Len(ab) \in Nat
    BY <2>9, LenProperties
  <2>12. Len(ab \o c) \in Nat \ {0}
    BY <2>6, <2>10, <2>11
  <2>13. ASSUME NEW r \in d.points
         PROVE  \E k \in 1 .. Len(ab \o c) : (ab \o c)[k] = delete_run(r)
    <3>1. PICK k \in 1 .. Len(runs) : runs[k] = r
      BY <2>2
    <3>2. PICK i \in 1 .. Len(b) : b[i] = delete_run(r)
      BY <2>4, <3>1
    <3>3. Len(a) + i \in 1 .. Len(ab) /\ ab[Len(a) + i] = delete_run(r)
      BY <2>8, <3>2 DEF ab
    <3>4. QED
      BY <2>10, <3>3
  <2>14. \E k \in 1 .. Len(ab \o c) : (ab \o c)[k] = delete_run(SweepId)
    <3>1. 1 \in 1 .. Len(c)
      BY <2>6
    <3>2. Len(ab) + 1 \in 1 .. Len(ab \o c) /\ (ab \o c)[Len(ab) + 1] = c[1]
      BY <2>10, <3>1
    <3>3. QED
      BY <2>6, <3>2
  <2>15. QED
    BY <1>2, <2>3, <2>10, <2>12, <2>13, <2>14 DEF ab
<1>3. QED
  BY <1>1, <1>2, JobType

LEMMA HeadOfDeletions ==
    ASSUME NEW d \in Database, NEW p, NEW look \in Job, look.kind # "write",
           look.kind # "get_run", NEW rest \in Seq(Job)
    PROVE  Head(AfterRead(d, p, look) \o rest).name
               \in {"delete_run", "delete_sweep", "delete_benchmark"}
<1> DEFINE after == AfterRead(d, p, look)
<1>1. Deletions(after) /\ after \in Seq(Job) /\ Len(after) \in Nat \ {0}
  BY ListingDeletes
<1> HIDE DEF after
<1>2. 1 \in 1 .. Len(after)
  BY <1>1
<1>3. /\ after \o rest \in Seq(Job) /\ 1 \in 1 .. Len(after \o rest)
      /\ (after \o rest)[1] = after[1]
  BY <1>1, <1>2, ConcatCalls
<1> DEFINE all == after \o rest
<1>4. all \in Seq(Job) /\ Len(all) \in Nat /\ 1 \in 1 .. Len(all) /\ all[1] = after[1]
  BY <1>3, LenProperties
<1> HIDE DEF all
<1>5. Head(all) = all[1]
  BY <1>4, HeadTailProperties, EmptySeq
<1>6. QED
  BY <1>1, <1>2, <1>4, <1>5 DEF Deletions, all, after

LEMMA NextStep ==
    ASSUME TypeInv, TxnInv, ObserversType, NextInv, LaterInv, [StoreNext]_storeVars
    PROVE  NextInv'
<1> SUFFICES ASSUME NEW q \in Process, calls'[q] # <<>>, NEW job, job = Head(calls'[q])
             PROVE  Prepared(q, job)'
  BY DEF NextInv, NextCall, Prepared
<1>1. ASSUME calls'[q] = calls[q], ~raced'[q] => ~raced[q] /\ database'.rows = database.rows
      PROVE  Prepared(q, job)'
  <2>1. job = NextCall(q) /\ job \in Job
    BY <1>1, HeadJob DEF NextCall
  <2>2. Prepared(q, job)
    BY <1>1, <2>1 DEF NextInv, Prepared
  <2>3. QED
    BY <1>1, <2>1, <2>2, PreparedKept
<1>2. CASE UNCHANGED storeVars
  BY <1>1, <1>2 DEF storeVars
<1>3. ASSUME NEW p \in Process, ExecuteStatement(p)
      PROVE  Prepared(q, job)'
  BY <1>1, <1>3 DEF ExecuteStatement, observers
<1>4. ASSUME NEW p \in Process, Fails(p) \/ Busy(p)
      PROVE  Prepared(q, job)'
  <2>1. /\ calls[p] # <<>> /\ GivesUp(p) /\ UNCHANGED database
    BY <1>4 DEF Fails, Busy, MayExecute, Writing
  <2>2. CASE q # p
    <3>1. calls'[q] = calls[q] /\ raced' = raced
      BY <2>1, <2>2 DEF GivesUp, TypeInv
    <3>2. QED
      BY <1>1, <2>1, <3>1
  <2>3. CASE q = p
    <3>1. /\ ~NextCall(p).fatal /\ job = Head(Tail(calls[p])) /\ calls'[q] = Tail(calls[p])
          /\ failedCalls'[p] = failedCalls[p] \cup {NextCall(p).name}
      BY <2>1, <2>3 DEF GivesUp, TypeInv, ObserversType
    <3>2. NextCall(p) \in Job /\ NextCall(p).name # "results"
      BY <2>1, <3>1, HeadJob, FatalNames
    <3>3. /\ job.name # "record" /\ job.name # "get_run"
          /\ job.name = "results" => NextCall(p).name = "measured"
          /\ job.name = "point" => NextCall(p).name = "ensure"
      BY <2>1, <3>1, <3>2, SecondCall
    <3>4. /\ job.name = "results" => HasFailed("measured")'
          /\ job.name = "point" => HasFailed("ensure")'
      BY <3>1, <3>3 DEF HasFailed
    <3>5. QED
      BY <3>3, <3>4 DEF Prepared, HasMeasurements, Ensured
  <2>4. QED
    BY <2>2, <2>3
<1>5. ASSUME NEW p \in Process, Commit(p)
      PROVE  Prepared(q, job)'
  <2> DEFINE stmts == NextCall(p).stmts
  <2>1. /\ calls[p] # <<>> /\ NextCall(p) \in Job /\ NextCall(p).kind = "write"
        /\ ~SomeRefused(database, stmts) /\ database' = ApplyAll(database, stmts)
        /\ \A r \in RunId : r \notin Written(stmts) \cup Deleted(stmts) =>
                                database'.rows[r] = database.rows[r]
    BY <1>5, CommitEffect
  <2>2. /\ calls' = [calls EXCEPT ![p] = Tail(@)]
        /\ raced' = [x \in Process |->
               raced[x] \/ (x # p /\ Written(stmts) \cup Deleted(stmts) # {})]
    BY <1>5 DEF Commit
  <2>3. database \in Database /\ database' \in Database
    BY TypeStep DEF TypeInv
  <2> HIDE DEF stmts
  <2>4. CASE q # p
    <3>1. calls'[q] = calls[q]
      BY <2>2, <2>4 DEF TypeInv
    <3>2. ASSUME ~raced'[q]
          PROVE  ~raced[q] /\ database'.rows = database.rows
      <4>1. ~raced[q] /\ Written(stmts) \cup Deleted(stmts) = {}
        BY <2>2, <2>4, <3>2 DEF ObserversType
      <4>2. \A r \in RunId : database'.rows[r] = database.rows[r]
        BY <2>1, <4>1
      <4>3. database'.rows = database.rows
        BY <2>3, <4>2 DEF Database
      <4>4. QED
        BY <4>1, <4>3
    <3>3. QED
      BY <1>1, <3>1, <3>2
  <2>5. CASE q = p
    <3> DEFINE r == RunOfCall(job)
    <3>1. calls'[q] = Tail(calls[p]) /\ job = Head(Tail(calls[p]))
      BY <2>2, <2>5 DEF TypeInv
    <3>2. /\ job.name # "record"
          /\ job.name = "results" =>
                NextCall(p).name = "measured" /\ RunOfCall(NextCall(p)) = r
          /\ job.name = "get_run" =>
                NextCall(p).name = "results" /\ RunOfCall(NextCall(p)) = r
          /\ job.name = "point" =>
                NextCall(p).name = "ensure" /\ RunOfCall(NextCall(p)) = r
      BY <2>1, <3>1, SecondCall
    <3> HIDE DEF r
    <3>3. ASSUME job.name = "results"
          PROVE  HasMeasurements(r)'
      <4>1. PICK x \in Process, y \in RunId : NextCall(p) = persist_measured(x, y)
        BY <2>1, <3>2, <3>3, JobNames
      <4>2. y = r
        BY <3>2, <3>3, <4>1, RunsOfCalls
      <4>3. database'.rows[y].measurements # EmptyTable
        BY <2>1, <2>3, <4>1, MeasuredEffect DEF stmts
      <4>4. QED
        BY <4>2, <4>3 DEF HasMeasurements
    <3>4. ASSUME job.name = "get_run"
          PROVE  Identified(r)'
      <4>1. PICK x \in Process, y \in RunId, passed \in SUBSET TaskId :
                   NextCall(p) = persist_results(x, y, passed)
        BY <2>1, <3>2, <3>4, JobNames
      <4>2. y = r
        BY <3>2, <3>4, <4>1, RunsOfCalls
      <4>3. database'.rows[y].benchmark_id = Benchmark
        BY <2>1, <2>3, <4>1, ResultsEffect DEF stmts
      <4>4. QED
        BY <4>2, <4>3, NotNull DEF Identified
    <3>5. ASSUME job.name = "point"
          PROVE  Ensured(r)'
      <4>1. PICK y \in RunId : NextCall(p) = ensure_run_row(y)
        BY <2>1, <3>2, <3>5, JobNames
      <4>2. y = r
        BY <3>2, <3>5, <4>1, RunsOfCalls
      <4>3. database'.rows[y].exists
        BY <2>1, <2>3, <4>1, EnsureEffect DEF stmts
      <4>4. QED
        BY <4>2, <4>3 DEF Ensured
    <3>6. QED
      BY <3>1, <3>2, <3>3, <3>4, <3>5 DEF Prepared, r
  <2>6. QED
    BY <2>4, <2>5
<1>6. ASSUME NEW p \in Process, Read(p)
      PROVE  Prepared(q, job)'
  <2> DEFINE look == NextCall(p)
             after == AfterRead(database, p, look)
  <2>1. /\ calls[p] # <<>> /\ look.kind # "write" /\ look \in Job
        /\ calls' = [calls EXCEPT ![p] = after \o Tail(@)]
        /\ raced' = [raced EXCEPT ![p] = FALSE] /\ UNCHANGED <<database, deleted>>
    BY <1>6, HeadJob DEF Read
  <2>2. CASE q # p
    <3>1. calls'[q] = calls[q] /\ raced'[q] = raced[q]
      BY <2>1, <2>2 DEF TypeInv, ObserversType
    <3>2. QED
      BY <1>1, <2>1, <3>1
  <2>3. CASE q = p
    <3>1. calls'[q] = after \o Tail(calls[p])
      BY <2>1, <2>3 DEF TypeInv
    <3>2. database \in Database /\ Tail(calls[p]) \in Seq(Job)
      BY <2>1, HeadJob DEF TypeInv
    <3>3. CASE look.kind = "get_run"
      <4>1. PICK r \in RunId : look = Look("get_run", r)
        BY <2>1, <3>3, JobNames
      <4> DEFINE m == Merged(database.rows[r], p)
                 new == record_point(r, m)
      <4>2. look.run = r /\ look.name = "get_run" /\ RunOfCall(look) = r
        BY <4>1 DEF Look, RunOfCall
      <4>3. after = <<new>>
        BY <3>3, <4>2 DEF AfterRead
      <4>4. m \in Meta /\ m.benchmark_id = database.rows[r].benchmark_id
        BY <3>2, MergedType DEF Database
      <4>5. new.name = "record" /\ RunOfCall(new) = r /\ new.stmts[1].meta = m
        BY <4>4, RecordCall, RunsOfCalls
      <4>6. job = new
        <5> HIDE DEF new, after
        <5>1. QED
          BY <3>1, <3>2, <4>3
      <4>7. r \in deleted \/ m.benchmark_id # Null
        BY <2>1, <4>2, <4>4 DEF NextInv, Prepared, Identified
      <4>8. job = record_point(r, Merged(database'.rows[r], q))
        BY <2>1, <2>3, <4>6
      <4>9. /\ job.name = "record" /\ RunOfCall(job) = r
            /\ r \in deleted' \/ job.stmts[1].meta.benchmark_id # Null
        <5> HIDE DEF new, m
        <5>1. QED
          BY <2>1, <4>5, <4>6, <4>7
      <4>10. QED
        BY <4>8, <4>9 DEF Prepared
    <3>4. CASE look.kind # "get_run"
      <4>1. job.name \in {"delete_run", "delete_sweep", "delete_benchmark"}
        BY <2>1, <3>1, <3>2, <3>4, HeadOfDeletions
      <4>2. QED
        BY <4>1 DEF Prepared
    <3>5. QED
      BY <3>3, <3>4
  <2>4. QED
    BY <2>2, <2>3
<1>7. ASSUME NEW p \in Process, Die(p)
      PROVE  Prepared(q, job)'
  <2>1. q # p
    BY <1>7 DEF Die, TypeInv
  <2>2. calls'[q] = calls[q] /\ raced' = raced /\ database' = database
    BY <1>7, <2>1 DEF Die, TypeInv
  <2>3. QED
    BY <1>1, <2>2
<1>8. QED
  BY <1>2, <1>3, <1>4, <1>5, <1>6, <1>7 DEF StoreNext

LEMMA LaterTail ==
    ASSUME NEW todo \in Seq(Job), todo # <<>>, LaterOK(todo)
    PROVE  LaterOK(Tail(todo)) /\ Len(Tail(todo)) \in Nat
<1> DEFINE rest == Tail(todo)
<1>1. /\ rest \in Seq(Job) /\ Len(rest) = Len(todo) - 1
      /\ Len(rest) \in Nat /\ Len(todo) \in Nat
      /\ \A k \in 1 .. Len(rest) : rest[k] = todo[k + 1]
  BY HeadTailProperties, LenProperties
<1> HIDE DEF rest
<1>2. ASSUME NEW k \in 2 .. Len(rest)
      PROVE  /\ rest[k].name # "record"
             /\ rest[k].name = "results" => Follows(rest, k, "measured")
             /\ rest[k].name = "get_run" => Follows(rest, k, "results")
             /\ rest[k].name = "point" => Follows(rest, k, "ensure")
  <2>1. /\ k \in 1 .. Len(rest) /\ k - 1 \in 1 .. Len(rest) /\ k > 1
        /\ k + 1 \in 2 .. Len(todo) /\ (k - 1) + 1 = k /\ (k + 1) - 1 = k
    BY <1>1
  <2>2. rest[k] = todo[k + 1] /\ rest[k - 1] = todo[k]
    BY <1>1, <2>1
  <2>3. QED
    BY <2>1, <2>2 DEF LaterOK, Follows
<1>3. QED
  BY <1>1, <1>2 DEF LaterOK, rest

\* What follows a read was later than the read, and is later now.
LEMMA LaterAfterRead ==
    ASSUME NEW todo \in Seq(Job), todo # <<>>, LaterOK(todo),
           todo[1].name \in {"get_run", "list_benchmark", "list_sweep"},
           NEW after \in Seq(Job), Len(after) \in Nat \ {0},
           \/ Deletions(after)
           \/ Len(after) = 1 /\ after[1].name = "record"
    PROVE  LaterOK(after \o Tail(todo))
<1> DEFINE rest == Tail(todo)
           all == after \o rest
           n == Len(after)
<1>1. /\ rest \in Seq(Job) /\ Len(rest) = Len(todo) - 1
      /\ Len(rest) \in Nat /\ Len(todo) \in Nat
      /\ \A k \in 1 .. Len(rest) : rest[k] = todo[k + 1]
  BY HeadTailProperties, LenProperties
<1> HIDE DEF rest
<1>2. /\ all \in Seq(Job) /\ Len(all) = n + Len(rest) /\ n \in Nat \ {0}
      /\ \A i \in 1 .. n : all[i] = after[i]
      /\ \A k \in 1 .. Len(all) :
            \/ k \in 1 .. n
            \/ k - n \in 1 .. Len(rest) /\ all[k] = rest[k - n]
  BY <1>1, ConcatCalls
<1> HIDE DEF all
<1>3. ASSUME NEW k \in 2 .. Len(all)
      PROVE  /\ all[k].name # "record"
             /\ all[k].name = "results" => Follows(all, k, "measured")
             /\ all[k].name = "get_run" => Follows(all, k, "results")
             /\ all[k].name = "point" => Follows(all, k, "ensure")
  <2>1. CASE k \in 1 .. n
    <3>1. Deletions(after) /\ all[k] = after[k]
      BY <1>2, <2>1 DEF n
    <3>2. all[k].name \in {"delete_run", "delete_sweep", "delete_benchmark"}
      BY <2>1, <3>1 DEF Deletions, n
    <3>3. QED
      BY <3>2
  <2>2. CASE k \notin 1 .. n
    <3> DEFINE j == k - n
    <3>1. /\ j \in 1 .. Len(rest) /\ all[k] = rest[j] /\ rest[j] = todo[j + 1]
          /\ j + 1 \in 2 .. Len(todo) /\ (j + 1) - 1 = j /\ k > 1
      BY <1>1, <1>2, <2>2
    <3>2. /\ all[k].name # "record"
          /\ all[k].name = "results" => Follows(todo, j + 1, "measured")
          /\ all[k].name = "get_run" => Follows(todo, j + 1, "results")
          /\ all[k].name = "point" => Follows(todo, j + 1, "ensure")
      BY <3>1 DEF LaterOK
    <3>3. CASE j = 1
      <4>1. todo[j].name \in {"get_run", "list_benchmark", "list_sweep"}
        BY <3>3
      <4>2. QED
        BY <3>1, <3>2, <4>1 DEF Follows
    <3>4. CASE j # 1
      <4>1. /\ k - 1 \in 1 .. Len(all) /\ k - 1 \notin 1 .. n /\ (k - 1) - n = j - 1
            /\ j - 1 \in 1 .. Len(rest) /\ (j - 1) + 1 = j
        BY <1>2, <2>2, <3>1, <3>4
      <4>2. all[k - 1] = rest[j - 1] /\ rest[j - 1] = todo[j]
        BY <1>1, <1>2, <4>1
      <4> HIDE DEF j
      <4>3. QED
        BY <3>1, <3>2, <4>2 DEF Follows
    <3>5. QED
      BY <3>3, <3>4
  <2>3. QED
    BY <2>1, <2>2
<1>4. QED
  BY <1>3 DEF LaterOK, all, rest

LEMMA LaterStep ==
    ASSUME TypeInv, TxnInv, LaterInv, [StoreNext]_storeVars
    PROVE  LaterInv'
<1>1. \A q \in Process : LaterOK(calls[q])
  BY DEF LaterInv
<1>2. SUFFICES ASSUME NEW q \in Process
               PROVE  LaterOK(calls'[q])
  BY DEF LaterInv
<1>3. LaterOK(<<>>)
  BY DEF LaterOK
<1>4. CASE calls' = calls
  BY <1>1, <1>4
<1>5. ASSUME NEW p \in Process, calls[p] # <<>>,
             \/ calls' = [calls EXCEPT ![p] = Tail(@)]
             \/ calls' = [calls EXCEPT ![p] = <<>>]
      PROVE  LaterOK(calls'[q])
  <2>1. calls[p] \in Seq(Job) /\ calls[q] \in Seq(Job)
    BY DEF TypeInv
  <2>2. LaterOK(Tail(calls[p]))
    BY <1>1, <1>5, <2>1, LaterTail
  <2>3. QED
    BY <1>1, <1>3, <1>5, <2>2 DEF TypeInv
<1>6. ASSUME NEW p \in Process, Read(p)
      PROVE  LaterOK(calls'[q])
  <2> DEFINE look == NextCall(p)
             after == AfterRead(database, p, look)
  <2>1. /\ calls[p] # <<>> /\ calls[p] \in Seq(Job) /\ look.kind # "write" /\ look \in Job
        /\ look = calls[p][1] /\ calls' = [calls EXCEPT ![p] = after \o Tail(@)]
        /\ database \in Database
    BY <1>6, HeadJob DEF Read, TypeInv
  <2>2. look.name \in {"get_run", "list_benchmark", "list_sweep"} /\ look.name = look.kind
    BY <2>1, JobNames
  <2>3. after \in Seq(Job)
    BY <2>1, AfterReadType
  <2>4. CASE look.kind = "get_run"
    <3>1. PICK r \in RunId, m \in Meta : after = <<record_point(r, m)>>
      <4>1. PICK r \in RunId : look = Look("get_run", r)
        BY <2>1, <2>2, <2>4, JobNames
      <4>2. look.run = r
        BY <4>1 DEF Look
      <4>3. Merged(database.rows[r], p) \in Meta
        BY <2>1, MergedType DEF Database
      <4>4. QED
        BY <2>4, <4>2, <4>3 DEF AfterRead
    <3>2. record_point(r, m).name = "record"
      BY RecordCall
    <3> HIDE DEF after
    <3>3. Len(after) = 1 /\ after[1].name = "record"
      BY <3>1, <3>2
    <3>4. Len(after) \in Nat \ {0}
      BY <3>3
    <3>5. LaterOK(calls[p]) /\ calls[p][1].name \in {"get_run", "list_benchmark", "list_sweep"}
      BY <1>1, <2>1, <2>2
    <3>6. LaterOK(after \o Tail(calls[p]))
      BY <2>1, <2>3, <3>3, <3>4, <3>5, LaterAfterRead
    <3>7. QED
      BY <1>1, <2>1, <3>6 DEF TypeInv
  <2>5. CASE look.kind # "get_run"
    <3>1. Deletions(after) /\ Len(after) \in Nat \ {0}
      BY <2>1, <2>5, ListingDeletes
    <3> HIDE DEF after
    <3>2. QED
      BY <1>1, <2>1, <2>2, <2>3, <3>1, LaterAfterRead DEF TypeInv
  <2>6. QED
    BY <2>4, <2>5
<1>7. ASSUME NEW p \in Process, ExecuteStatement(p)
      PROVE  calls' = calls
  BY <1>7 DEF ExecuteStatement
<1>8. ASSUME NEW p \in Process, Fails(p) \/ Busy(p) \/ Commit(p) \/ Die(p),
             calls[p] # <<>>
      PROVE  LaterOK(calls'[q])
  <2>1. \/ calls' = [calls EXCEPT ![p] = Tail(@)]
        \/ calls' = [calls EXCEPT ![p] = <<>>]
    BY <1>8 DEF Fails, Busy, GivesUp, Commit, Die
  <2>2. QED
    BY <1>5, <1>8, <2>1
<1>9. \A p \in Process : Fails(p) \/ Busy(p) \/ Commit(p) \/ Die(p) => calls[p] # <<>>
  BY CommitEffect DEF Fails, MayExecute, Busy, Writing, Die
<1>10. QED
  BY <1>4, <1>6, <1>7, <1>8, <1>9 DEF StoreNext, storeVars

LEMMA ListedStep ==
    ASSUME TypeInv, TxnInv, ObserversType, ListedInv, [StoreNext]_storeVars
    PROVE  ListedInv'
<1> DEFINE Pending(todo, r) == \E k \in 1 .. Len(todo) : todo[k] = delete_run(r)
<1> SUFFICES ASSUME NEW q \in Process, NEW r \in listed'[q],
                    q \notin deadCallers', failedCalls'[q] = {}, r \notin rewritten'[q]
             PROVE  ~database'.rows[r].exists \/ Pending(calls'[q], r)
  BY DEF ListedInv
<1>0. /\ r \in RunId
      /\ r \in listed[q] /\ q \notin deadCallers /\ failedCalls[q] = {}
            /\ r \notin rewritten[q]
         => ~database.rows[r].exists \/ Pending(calls[q], r)
  <2>1. r \in RunId
    BY ObserversStep DEF ObserversType
  <2>2. QED
    BY <2>1 DEF ListedInv
<1> HIDE DEF Pending
<1>1. CASE UNCHANGED storeVars
  BY <1>0, <1>1 DEF storeVars
<1>2. ASSUME NEW p \in Process, ExecuteStatement(p)
      PROVE  ~database'.rows[r].exists \/ Pending(calls'[q], r)
  BY <1>0, <1>2 DEF ExecuteStatement, observers
<1>3. ASSUME NEW p \in Process, Fails(p) \/ Busy(p)
      PROVE  ~database'.rows[r].exists \/ Pending(calls'[q], r)
  <2>1. /\ GivesUp(p) /\ UNCHANGED database
    BY <1>3 DEF Fails, Busy
  <2>2. q # p
    BY <2>1 DEF GivesUp, ObserversType
  <2>3. calls'[q] = calls[q] /\ failedCalls'[q] = failedCalls[q]
    BY <2>1, <2>2 DEF GivesUp, ObserversType, TypeInv
  <2>4. QED
    BY <1>0, <2>1, <2>3 DEF GivesUp
<1>4. ASSUME NEW p \in Process, Commit(p)
      PROVE  ~database'.rows[r].exists \/ Pending(calls'[q], r)
  <2> DEFINE stmts == NextCall(p).stmts
  <2>1. /\ calls[p] # <<>> /\ NextCall(p) \in Job /\ NextCall(p).kind = "write"
        /\ \A x \in Deleted(stmts) :
              NextCall(p) = delete_run(x) /\ database'.rows[x] = NoRows
        /\ r \notin Written(stmts) \cup Deleted(stmts) =>
              database'.rows[r] = database.rows[r]
    BY <1>0, <1>4, CommitEffect
  <2>2. /\ calls' = [calls EXCEPT ![p] = Tail(@)]
        /\ rewritten'[q] = (rewritten[q] \ Deleted(stmts)) \cup Written(stmts)
        /\ UNCHANGED <<failedCalls, deadCallers, listed>>
    BY <1>4 DEF Commit
  <2>3. CASE r \in Deleted(stmts)
    <3>1. database'.rows[r] = NoRows
      BY <2>1, <2>3
    <3>2. QED
      BY <3>1 DEF NoRows
  <2>4. CASE r \notin Deleted(stmts)
    <3>1. r \notin Written(stmts) /\ r \notin rewritten[q]
      BY <2>2, <2>4
    <3>2. database'.rows[r] = database.rows[r]
      BY <2>1, <2>4, <3>1
    <3>3. ~database.rows[r].exists \/ Pending(calls[q], r)
      BY <1>0, <2>2, <3>1
    <3>4. NextCall(p) # delete_run(r)
      <4>1. ASSUME NextCall(p) = delete_run(r) PROVE r \in Deleted(stmts)
        <5>1. Deleted(stmts) = {r}
          BY <1>0, <4>1, DeleteEffect DEF TypeInv
        <5>2. QED
          BY <5>1
      <4>2. QED
        BY <2>4, <4>1
    <3>5. ASSUME q = p, Pending(calls[q], r)
          PROVE  Pending(calls'[q], r)
      <4>1. PICK k \in 1 .. Len(calls[p]) : calls[p][k] = delete_run(r)
        BY <3>5 DEF Pending
      <4>2. /\ calls'[q] = Tail(calls[p]) /\ NextCall(p) = calls[p][1]
            /\ Len(calls[p]) \in Nat \ {0} /\ Len(Tail(calls[p])) = Len(calls[p]) - 1
            /\ \A i \in 1 .. Len(Tail(calls[p])) : Tail(calls[p])[i] = calls[p][i + 1]
        BY <2>1, <2>2, <3>5, HeadJob DEF TypeInv
      <4>3. k # 1
        BY <3>4, <4>1, <4>2
      <4>4. k - 1 \in 1 .. Len(Tail(calls[p])) /\ (k - 1) + 1 = k
        BY <4>1, <4>2, <4>3
      <4>5. Tail(calls[p])[k - 1] = delete_run(r)
        BY <4>1, <4>2, <4>4
      <4>6. QED
        BY <4>2, <4>4, <4>5 DEF Pending
    <3>6. q # p => calls'[q] = calls[q]
      BY <2>2 DEF TypeInv
    <3>7. QED
      BY <3>2, <3>3, <3>5, <3>6
  <2>5. QED
    BY <2>3, <2>4
<1>5. ASSUME NEW p \in Process, Read(p)
      PROVE  ~database'.rows[r].exists \/ Pending(calls'[q], r)
  <2> DEFINE look == NextCall(p)
             after == AfterRead(database, p, look)
             rest == Tail(calls[p])
  <2>1. /\ calls[p] # <<>> /\ look.kind # "write" /\ look \in Job /\ look = calls[p][1]
        /\ calls' = [calls EXCEPT ![p] = after \o rest]
        /\ UNCHANGED <<database, failedCalls, deadCallers>>
        /\ database \in Database /\ rest \in Seq(Job)
        /\ Len(calls[p]) \in Nat \ {0} /\ Len(rest) = Len(calls[p]) - 1
        /\ \A i \in 1 .. Len(rest) : rest[i] = calls[p][i + 1]
    BY <1>5, HeadJob DEF Read, TypeInv
  <2>2. look.kind \in {"get_run", "list_benchmark", "list_sweep"} /\ look.name = look.kind
    BY <2>1, JobNames
  <2>3. after \in Seq(Job)
    BY <2>1, AfterReadType
  <2>4. /\ listed'[p] = CASE look.kind = "list_benchmark" ->
                                 {x \in RunId : database.rows[x].benchmark_id = Benchmark}
                          [] look.kind = "list_sweep" -> database.points \cup {SweepId}
                          [] OTHER -> listed[p]
        /\ rewritten'[p] = IF look.kind = "get_run" THEN rewritten[p] ELSE {}
        /\ \A x \in Process \ {p} : listed'[x] = listed[x] /\ rewritten'[x] = rewritten[x]
    BY <1>5 DEF Read, ObserversType
  <2> HIDE DEF after, rest
  <2>5. /\ calls'[p] = after \o rest /\ \A x \in Process \ {p} : calls'[x] = calls[x]
    BY <2>1 DEF TypeInv
  <2>6. CASE q # p
    BY <1>0, <2>1, <2>4, <2>5, <2>6
  <2>7. CASE q = p /\ look.kind = "get_run"
    <3>1. r \in listed[p] /\ r \notin rewritten[p]
      BY <2>4, <2>7
    <3>2. ~database.rows[r].exists \/ Pending(calls[p], r)
      BY <1>0, <2>1, <2>7, <3>1
    <3>3. ASSUME Pending(calls[p], r)
          PROVE  Pending(calls'[p], r)
      <4>1. PICK k \in 1 .. Len(calls[p]) : calls[p][k] = delete_run(r)
        BY <3>3 DEF Pending
      <4>2. delete_run(r).name = "delete_run"
        BY <1>0, DeleteCall
      <4>3. k # 1
        BY <2>1, <2>2, <2>7, <4>1, <4>2
      <4>4. k - 1 \in 1 .. Len(rest) /\ (k - 1) + 1 = k
        BY <2>1, <4>1, <4>3
      <4>5. rest[k - 1] = delete_run(r)
        BY <2>1, <4>1, <4>4
      <4>6. /\ Len(after) + (k - 1) \in 1 .. Len(after \o rest)
            /\ (after \o rest)[Len(after) + (k - 1)] = rest[k - 1]
        BY <2>1, <2>3, <4>4, ConcatCalls
      <4>7. QED
        BY <2>5, <4>5, <4>6 DEF Pending
    <3>4. QED
      BY <2>1, <2>7, <3>2, <3>3
  <2>8. CASE q = p /\ look.kind # "get_run"
    <3>1. \E k \in 1 .. Len(after) : after[k] = delete_run(r)
      <4>1. /\ look.kind = "list_benchmark" =>
                  \A x \in RunId : database.rows[x].benchmark_id = Benchmark =>
                      \E k \in 1 .. Len(after) : after[k] = delete_run(x)
            /\ look.kind = "list_sweep" =>
                  \A x \in database.points \cup {SweepId} :
                      \E k \in 1 .. Len(after) : after[k] = delete_run(x)
        BY <2>1, <2>8, ListingDeletes DEF after
      <4>2. QED
        BY <2>2, <2>4, <2>8, <4>1
    <3>2. PICK k \in 1 .. Len(after) : after[k] = delete_run(r)
      BY <3>1
    <3>3. k \in 1 .. Len(after \o rest) /\ (after \o rest)[k] = after[k]
      BY <2>1, <2>3, ConcatCalls
    <3>4. Pending(calls'[p], r)
      BY <2>5, <3>2, <3>3 DEF Pending
    <3>5. QED
      BY <2>8, <3>4
  <2>9. QED
    BY <2>6, <2>7, <2>8
<1>6. ASSUME NEW p \in Process, Die(p)
      PROVE  ~database'.rows[r].exists \/ Pending(calls'[q], r)
  <2>1. q # p
    BY <1>6 DEF Die
  <2>2. /\ calls'[q] = calls[q]
        /\ UNCHANGED <<database, failedCalls, rewritten, listed>>
        /\ q \notin deadCallers
    BY <1>6, <2>1 DEF Die, TypeInv
  <2>3. QED
    BY <1>0, <2>2
<1>7. QED
  BY <1>1, <1>2, <1>3, <1>4, <1>5, <1>6 DEF StoreNext

LEMMA RowsStep ==
    ASSUME TypeInv, TxnInv, ObserversType, RowsInv, NextInv, [StoreNext]_storeVars
    PROVE  RowsInv'
<1> SUFFICES ASSUME NEW r \in RunId
             PROVE  RowOK(r)'
  BY DEF RowsInv
<1> DEFINE old == database.rows[r]
           new == database'.rows[r]
<1>1. /\ IF old.exists THEN old.metadata # Null ELSE old = NoRows
      /\ old.status = "complete" /\ ~stale =>
             /\ DOMAIN old.task_results = TaskId /\ HasMeasurements(r)
             /\ old.passed_tasks = Cardinality({t \in TaskId : old.task_results[t]})
      /\ old.exists /\ ~Identified(r) =>
             \A p \in Process : <<"evidence", p>> \notin old.metadata
  BY DEF RowsInv, RowOK
<1>2. /\ HasMeasurements(r) => HasMeasurements(r)'
      /\ Identified(r) => Identified(r)'
  BY PromisesKept
<1>3. /\ new.benchmark_id # Null => Identified(r)'
      /\ new.measurements # EmptyTable => HasMeasurements(r)'
  BY DEF Identified, HasMeasurements
\* What is left to show of the row.
<1>4. SUFFICES
        /\ IF new.exists THEN new.metadata # Null ELSE new = NoRows
        /\ new.status = "complete" /\ ~stale' =>
               /\ DOMAIN new.task_results = TaskId /\ HasMeasurements(r)'
               /\ new.passed_tasks = Cardinality({t \in TaskId : new.task_results[t]})
        /\ new.exists /\ ~Identified(r)' =>
               \A p \in Process : <<"evidence", p>> \notin new.metadata
  BY DEF RowOK
<1> DEFINE Good ==
        /\ IF new.exists THEN new.metadata # Null ELSE new = NoRows
        /\ new.status = "complete" /\ ~stale' =>
               /\ DOMAIN new.task_results = TaskId /\ HasMeasurements(r)'
               /\ new.passed_tasks = Cardinality({t \in TaskId : new.task_results[t]})
        /\ new.exists /\ ~Identified(r)' =>
               \A p \in Process : <<"evidence", p>> \notin new.metadata
<1> SUFFICES Good
  OBVIOUS
<1> HIDE DEF old, new
<1>5. ASSUME new = old, ~stale' => ~stale
      PROVE  Good
  BY <1>1, <1>2, <1>5
<1>6. CASE ~ \E p \in Process : Commit(p)
  <2>1. database' = database /\ stale' = stale
    BY <1>6, NoCommit
  <2> HIDE DEF Good
  <2>2. QED
    BY <1>5, <2>1 DEF old, new
<1>7. ASSUME NEW p \in Process, Commit(p)
      PROVE  Good
  <2> DEFINE job == NextCall(p)
             stmts == job.stmts
  <2>1. /\ calls[p] # <<>> /\ job \in Job /\ job.kind = "write"
        /\ ~SomeRefused(database, stmts) /\ database' = ApplyAll(database, stmts)
        /\ database \in Database
        /\ r \in Deleted(stmts) => database'.rows[r] = NoRows
        /\ r \notin Written(stmts) \cup Deleted(stmts) =>
               database'.rows[r] = database.rows[r]
    BY <1>7, CommitEffect DEF TypeInv
  <2>2. stale' = (stale \/ (job.name = "record" /\ raced[p]))
    BY <1>7 DEF Commit
  <2>3. Prepared(p, job)
    BY <2>1 DEF NextInv
  <2> HIDE DEF job
  <2>4. CASE r \in Deleted(stmts)
    <3>1. new = NoRows
      BY <2>1, <2>4 DEF new
    <3>2. new.exists = FALSE /\ new.status = Null
      BY <3>1 DEF NoRows
    <3>3. QED
      BY <3>1, <3>2, NotNull
  <2>5. CASE r \notin Written(stmts) \cup Deleted(stmts)
    <3>1. new = old /\ (~stale' => ~stale)
      BY <2>1, <2>2, <2>5 DEF new, old
    <3> HIDE DEF Good
    <3>2. QED
      BY <1>5, <3>1
  <2>6. ASSUME r \in Written(stmts), job.name = "measured"
        PROVE  Good
    <3>1. PICK x \in Process, y \in RunId : job = persist_measured(x, y)
      BY <2>1, <2>6, JobNames
    <3>2. y = r
      BY <2>1, <2>6, <3>1, MeasuredEffect
    <3>3. /\ new.exists /\ new.status = old.status
          /\ new.passed_tasks = old.passed_tasks
          /\ new.benchmark_id = Benchmark /\ new.metadata = {<<"run">>}
          /\ new.task_results = old.task_results
          /\ new.measurements # EmptyTable
      BY <2>1, <3>1, <3>2, MeasuredEffect DEF new, old
    <3>4. {<<"run">>} # Null
      BY NotNull DEF MetadataKey
    <3>5. QED
      BY <1>1, <1>3, <2>2, <3>3, <3>4, NotNull
  <2>7. ASSUME r \in Written(stmts), job.name = "results"
        PROVE  Good
    <3>1. PICK x \in Process, y \in RunId, passed \in SUBSET TaskId :
                 job = persist_results(x, y, passed)
      BY <2>1, <2>7, JobNames
    <3>2. y = r
      <4>0. /\ database \in Database /\ x \in Process /\ y \in RunId
            /\ passed \in SUBSET TaskId
        BY <2>1
      <4>1. Written(persist_results(x, y, passed).stmts) = {y}
        BY <4>0, ResultsWritten
      <4>2. QED
        BY <2>7, <3>1, <4>1
    <3>3. /\ new.exists
          /\ new.passed_tasks = Cardinality(passed)
          /\ new.benchmark_id = Benchmark
          /\ new.metadata = {<<"run">>, <<"counts", x>>}
          /\ DOMAIN new.task_results = TaskId
          /\ {t \in TaskId : new.task_results[t]} = passed
      BY <2>1, <3>1, <3>2, ResultsEffect DEF new
    <3>4. {<<"run">>, <<"counts", x>>} # Null
      BY NotNull DEF MetadataKey
    <3>5. HasMeasurements(r)
      BY <2>3, <2>7, <3>1, <3>2, RunsOfCalls DEF Prepared
    <3>6. QED
      BY <1>2, <1>3, <3>3, <3>4, <3>5, NotNull
  <2>8. ASSUME r \in Written(stmts), job.name = "record"
        PROVE  Good
    <3>1. PICK y \in RunId, m \in Meta : job = record_point(y, m)
      BY <2>1, <2>8, JobNames
    <3>2. y = r
      BY <2>1, <2>8, <3>1, RecordEffect
    <3>3. /\ new.exists /\ new.metadata = m.extra
          /\ new.status = IF m.status = Null THEN old.status ELSE m.status
          /\ new.passed_tasks =
                 IF m.passed_tasks = Null THEN old.passed_tasks ELSE m.passed_tasks
          /\ new.benchmark_id =
                 IF m.benchmark_id = Null THEN old.benchmark_id ELSE m.benchmark_id
          /\ new.task_results = old.task_results
          /\ new.measurements = old.measurements
      BY <2>1, <3>1, <3>2, RecordEffect DEF new, old
    <3>4. RunOfCall(job) = r /\ job.stmts[1].meta = m
      BY <3>1, <3>2, RunsOfCalls
    <3>5. m.extra # Null
      BY NotNull DEF Meta
    <3>6. Identified(r)'
      <4>1. r \in deleted \/ m.benchmark_id # Null
        BY <2>3, <2>8, <3>4 DEF Prepared
      <4>2. r \in deleted => Identified(r)'
        BY <1>2 DEF Identified
      <4>3. QED
        BY <1>3, <3>3, <4>1, <4>2
    <3>7. ASSUME ~raced[p]
          PROVE  new.status = old.status /\ new.passed_tasks = old.passed_tasks
      <4>1. job = record_point(r, Merged(old, p))
        BY <2>3, <2>8, <3>4, <3>7 DEF Prepared, old
      <4>2. old \in Row
        BY <2>1 DEF Database, old
      <4>3. /\ Merged(old, p) \in Meta /\ Merged(old, p).status = old.status
            /\ Merged(old, p).passed_tasks = old.passed_tasks
        BY <4>2, MergedType
      <4>4. m = Merged(old, p)
        BY <3>4, <4>1, <4>3, RunsOfCalls
      <4>5. QED
        BY <3>3, <4>3, <4>4
    <3>8. QED
      BY <1>1, <1>2, <2>2, <2>8, <3>3, <3>5, <3>6, <3>7
  <2>9. ASSUME r \in Written(stmts), job.name = "ensure"
        PROVE  Good
    <3>1. PICK y \in RunId : job = ensure_run_row(y)
      BY <2>1, <2>9, JobNames
    <3>2. y = r
      BY <2>1, <2>9, <3>1, EnsureEffect
    <3>3. /\ new.exists /\ new.metadata = {<<"cell">>} /\ new.status = old.status
          /\ new.passed_tasks = old.passed_tasks
          /\ new.task_results = old.task_results
      BY <2>1, <3>1, <3>2, EnsureEffect DEF new, old
    <3>4. {<<"cell">>} # Null /\ \A x : <<"evidence", x>> \notin {<<"cell">>}
      BY NotNull DEF MetadataKey
    <3>5. QED
      BY <1>1, <1>2, <2>2, <3>3, <3>4
  <2>10. ASSUME r \in Written(stmts), job.name = "verdict"
         PROVE  Good
    <3>1. PICK x \in Process : job = store_verdict(x)
      BY <2>1, <2>10, JobNames
    <3>2. r = SweepId
      BY <2>1, <2>10, <3>1, VerdictEffect
    <3>3. /\ old.exists /\ Like(new, old) /\ new.task_results = old.task_results
      BY <2>1, <3>1, <3>2, VerdictEffect DEF new, old
    <3>4. QED
      BY <1>1, <1>2, <2>2, <3>3 DEF Like
  <2>11. r \in Written(stmts) =>
             job.name \in {"measured", "results", "record", "ensure", "verdict"}
    <3>1. ASSUME job.name = "delete_run" PROVE Written(stmts) = {}
      BY <2>1, <3>1, JobNames, DeleteEffect
    <3>2. ASSUME job.name = "point" PROVE Written(stmts) = {}
      BY <2>1, <3>2, JobNames, PointEffect
    <3>3. ASSUME job.name \in {"sweep", "delete_benchmark"} PROVE Written(stmts) = {}
      BY <2>1, <3>3, JobNames, SweepEffect
    <3>4. ASSUME job.name = "delete_sweep" PROVE Written(stmts) = {}
      BY <2>1, <3>4, JobNames, DeleteSweepEffect
    <3>5. QED
      BY <2>1, <3>1, <3>2, <3>3, <3>4, JobNames
  <2> HIDE DEF Good
  <2>12. QED
    BY <2>4, <2>5, <2>6, <2>7, <2>8, <2>9, <2>10, <2>11
<1>8. QED
  BY <1>6, <1>7

LEMMA PointsStep ==
    ASSUME TypeInv, TxnInv, ObserversType, PointsInv, NextInv, [StoreNext]_storeVars
    PROVE  PointsInv'
<1>1. \A r \in RunId : Ensured(r) => Ensured(r)'
  BY PromisesKept
<1>2. database \in Database /\ database' \in Database
  BY TypeStep DEF TypeInv
<1>3. CASE ~ \E p \in Process : Commit(p)
  <2>1. database' = database
    BY <1>3, NoCommit
  <2>2. QED
    BY <1>1, <1>2, <2>1 DEF PointsInv, Database
<1>4. ASSUME NEW p \in Process, Commit(p)
      PROVE  PointsInv'
  <2> DEFINE job == NextCall(p)
             stmts == job.stmts
  <2>1. /\ calls[p] # <<>> /\ job \in Job /\ job.kind = "write"
        /\ ~SomeRefused(database, stmts) /\ database' = ApplyAll(database, stmts)
    BY <1>4, CommitEffect
  <2>2. Prepared(p, job)
    BY <2>1 DEF NextInv
  <2> HIDE DEF job
  <2>3. /\ database'.points # {} => database'.sweep
        /\ \A r \in database'.points : r \in database.points \/ job = store_sweep_point(r)
    BY <1>2, <2>1, PointsEffect DEF PointsInv
  <2>4. ASSUME NEW r \in database'.points
        PROVE  Ensured(r)'
    <3>1. r \in RunId
      BY <1>2 DEF Database
    <3>2. CASE r \in database.points
      BY <1>1, <3>1, <3>2 DEF PointsInv
    <3>3. CASE job = store_sweep_point(r)
      <4>1. job.name = "point" /\ RunOfCall(job) = r
        BY <3>1, <3>3, PointCall, RunsOfCalls
      <4>2. QED
        BY <1>1, <2>2, <3>1, <4>1 DEF Prepared
    <3>4. QED
      BY <2>3, <3>2, <3>3
  <2>5. QED
    BY <2>3, <2>4 DEF PointsInv
<1>5. QED
  BY <1>3, <1>4

-------------------------------------------------------------------------------
(* The first state, and what follows from the invariant.                      *)

LEMMA UserCallNames ==
    ASSUME NEW job \in UserCall
    PROVE  job.name # "record"
<1>1. /\ \A p \in Process, r \in RunId : persist_measured(p, r).name = "measured"
      /\ \A p \in Process, r \in RunId, passed \in SUBSET TaskId :
            persist_results(p, r, passed).name = "results"
  BY MeasuredCall, ResultsCall
<1>2. /\ \A r \in RunId : /\ ensure_run_row(r).name = "ensure"
                          /\ store_sweep_point(r).name = "point"
                          /\ delete_run(r).name = "delete_run"
                          /\ Look("get_run", r).name = "get_run"
      /\ \A p \in Process : store_verdict(p).name = "verdict"
  BY EnsureCall, PointCall, DeleteCall, VerdictCall DEF Look
<1>3. /\ store_sweep.name = "sweep"
      /\ Look("list_benchmark", Null).name = "list_benchmark"
      /\ Look("list_sweep", Null).name = "list_sweep"
  BY SweepCallsOfOne DEF Look
<1>4. QED
  BY <1>1, <1>2, <1>3 DEF UserCall

LEMMA InitStoreInv ==
    ASSUME StoreInit
    PROVE  StoreInv
<1>1. PICK scene \in Scenes : StoreFrom(scene)
  BY DEF StoreInit
<1>2. /\ database = scene.db /\ calls = scene.todo /\ storeFaults = 0
      /\ failedCalls = [p \in Process |-> {}] /\ deadCallers = {} /\ deleted = {}
      /\ rewritten = [p \in Process |-> {}] /\ listed = [p \in Process |-> {}]
      /\ raced = [p \in Process |-> FALSE] /\ stale = FALSE
  BY <1>1 DEF StoreFrom
<1>3. /\ database \in Database /\ \A r \in RunId : WholeRow(database.rows[r])
      /\ database.points \subseteq {r \in RunId : database.rows[r].exists}
      /\ database.points # {} => database.sweep
      /\ calls \in [Process -> Seq(UserCall)]
      /\ \A p \in Process : InOrder(calls[p])
  BY <1>2, ScenesAssumption DEF WholeDatabase
<1>4. ObserversType
  BY <1>2, MaxStoreFaultsAssumption DEF ObserversType
<1>5. RowsInv
  <2>1. SUFFICES ASSUME NEW r \in RunId
                 PROVE  RowOK(r)
    BY DEF RowsInv
  <2> DEFINE row == database.rows[r]
  <2>2. row \in Row /\ WholeRow(row)
    BY <1>3 DEF Database
  <2> HIDE DEF row
  <2>3. /\ IF row.exists THEN row.metadata # Null ELSE row = NoRows
        /\ row.exists /\ row.benchmark_id = Null =>
               \A p \in Process : <<"evidence", p>> \notin row.metadata
        /\ row.status = "complete" =>
               /\ DOMAIN row.task_results = TaskId /\ row.measurements # EmptyTable
               /\ row.passed_tasks = Cardinality({t \in TaskId : row.task_results[t]})
    BY <2>2 DEF WholeRow
  <2>4. QED
    BY <2>3 DEF RowOK, HasMeasurements, Identified, row
<1>6. PointsInv
  BY <1>3 DEF PointsInv, Ensured
<1>7. /\ \A p \in Process : calls[p] \in Seq(UserCall) /\ Len(calls[p]) \in Nat
      /\ \A p \in Process : DOMAIN calls[p] = 1 .. Len(calls[p])
  BY <1>3, LenProperties
<1>8. NextInv
  <2>1. SUFFICES ASSUME NEW q \in Process, calls[q] # <<>>
                 PROVE  Prepared(q, NextCall(q))
    BY DEF NextInv
  <2>2. NextCall(q) = calls[q][1] /\ 1 \in DOMAIN calls[q] /\ NextCall(q) \in UserCall
    BY <1>7, <2>1, HeadTailProperties, EmptySeq, ElementOfSeq DEF NextCall
  <2>3. NextCall(q).name \notin {"results", "get_run", "point", "record"}
    BY <1>3, <2>2, UserCallNames DEF InOrder, Follows
  <2>4. QED
    BY <2>3 DEF Prepared
<1>9. LaterInv
  <2>1. SUFFICES ASSUME NEW q \in Process, NEW k \in 2 .. Len(calls[q])
                 PROVE  /\ calls[q][k].name # "record"
                        /\ calls[q][k].name = "results" => Follows(calls[q], k, "measured")
                        /\ calls[q][k].name = "get_run" => Follows(calls[q], k, "results")
                        /\ calls[q][k].name = "point" => Follows(calls[q], k, "ensure")
    BY DEF LaterInv, LaterOK
  <2>2. k \in DOMAIN calls[q] /\ k \in 1 .. Len(calls[q])
    BY <1>7
  <2>3. calls[q][k] \in UserCall
    BY <1>7, <2>2, ElementOfSeq
  <2>4. QED
    BY <1>3, <2>2, <2>3, UserCallNames DEF InOrder
<1>10. ListedInv
  BY <1>2 DEF ListedInv
<1>11. QED
  BY <1>4, <1>5, <1>6, <1>8, <1>9, <1>10, InitType DEF StoreInv

LEMMA StoreInvStep ==
    ASSUME StoreInv, [StoreNext]_storeVars
    PROVE  StoreInv'
<1>1. TypeInv' /\ TxnInv'
  BY TypeStep DEF StoreInv
<1>2. ObserversType' /\ RowsInv' /\ PointsInv'
  BY ObserversStep, RowsStep, PointsStep DEF StoreInv
<1>3. NextInv' /\ LaterInv' /\ ListedInv'
  BY NextStep, LaterStep, ListedStep DEF StoreInv
<1>4. QED
  BY <1>1, <1>2, <1>3 DEF StoreInv

\* What the next statement of a transaction meets.
LEMMA NextView ==
    ASSUME TypeInv, TxnInv, NEW p \in Process, MayExecute(p)
    PROVE  /\ AtStatement(p) \in 1 .. Len(NextCall(p).stmts)
           /\ View(p) = After(database, NextCall(p).stmts)[AtStatement(p) - 1]
<1> DEFINE stmts == NextCall(p).stmts
<1>1. Len(stmts) \in Nat \ {0}
  BY WriterJob DEF MayExecute
<1>2. After(database, stmts)[0] = database
  BY <1>1, AfterIs
<1>3. CASE Mine(p)
  <2>1. /\ txn.at \in 1 .. Len(stmts) /\ AtStatement(p) = txn.at + 1
        /\ View(p) = txn.copy /\ txn.copy = After(database, stmts)[txn.at]
    BY <1>3 DEF TxnInv, Mine, AtStatement, View
  <2>2. AtStatement(p) <= Len(stmts)
    BY DEF MayExecute
  <2>3. AtStatement(p) - 1 = txn.at /\ AtStatement(p) \in 1 .. Len(stmts)
    BY <1>1, <2>1, <2>2
  <2>4. QED
    BY <2>1, <2>3
<1>4. CASE ~Mine(p)
  <2>1. AtStatement(p) = 1 /\ View(p) = database /\ 1 - 1 = 0
    BY <1>4 DEF AtStatement, View
  <2>2. QED
    BY <1>1, <1>2, <2>1
<1>5. QED
  BY <1>3, <1>4

LEMMA DeletionsGoOn ==
    ASSUME TypeInv, TxnInv
    PROVE  NoDeleteRefused
<1> SUFFICES ASSUME NEW p \in Process, MayExecute(p),
                    NextCall(p).name \in {"delete_run", "delete_sweep"}
             PROVE  ~Refused(View(p), Statement(p))
  BY DEF NoDeleteRefused
<1> DEFINE job == NextCall(p)
           stmts == job.stmts
           n == AtStatement(p)
<1>1. /\ job \in Job /\ database \in Database /\ Statement(p) = stmts[n]
      /\ n \in 1 .. Len(stmts) /\ View(p) = After(database, stmts)[n - 1]
  BY WriterJob, NextView DEF MayExecute, TypeInv, Statement
<1> HIDE DEF job, n
<1>2. CASE job.name = "delete_run"
  <2>1. PICK r \in RunId : job = delete_run(r)
    BY <1>1, <1>2, JobNames
  <2>2. /\ stmts = <<On("delete_spans", r), On("delete_points", r), On("delete_run", r)>>
        /\ Len(stmts) = 3
    BY <2>1, DeleteCall
  <2>3. After(database, stmts)[2].rows[r].spans = EmptyTable
    BY <1>1, <2>1, DeleteEffect
  <2> HIDE DEF stmts
  <2>4. /\ stmts[1] = On("delete_spans", r) /\ stmts[2] = On("delete_points", r)
        /\ stmts[3] = On("delete_run", r) /\ n \in {1, 2, 3}
    BY <1>1, <2>2
  <2>5. CASE n \in {1, 2}
    BY <1>1, <2>4, <2>5 DEF Refused, On
  <2>6. CASE n = 3
    <3>1. n - 1 = 2
      BY <2>6
    <3>2. View(p).rows[r].spans = EmptyTable
      BY <1>1, <2>3, <3>1
    <3>3. Statement(p).op = "delete_run" /\ Statement(p).run = r
      BY <1>1, <2>4, <2>6 DEF On
    <3>4. QED
      BY <3>2, <3>3 DEF Refused
  <2>7. QED
    BY <2>4, <2>5, <2>6
<1>3. CASE job.name = "delete_sweep"
  <2>1. job = delete_sweep_row
    BY <1>1, <1>3, JobNames
  <2>2. /\ stmts = <<[op |-> "delete_sweep_points"], [op |-> "delete_sweep"]>>
        /\ Len(stmts) = 2
    BY <2>1, SweepCallsOfOne
  <2>3. After(database, stmts)[1].points = {}
    BY <1>1, <2>1, DeleteSweepEffect
  <2> HIDE DEF stmts
  <2>4. /\ stmts[1] = [op |-> "delete_sweep_points"] /\ stmts[2] = [op |-> "delete_sweep"]
        /\ n \in {1, 2}
    BY <1>1, <2>2
  <2>5. CASE n = 1
    BY <1>1, <2>4, <2>5 DEF Refused
  <2>6. CASE n = 2
    <3>1. n - 1 = 1
      BY <2>6
    <3>2. View(p).points = {} /\ Statement(p).op = "delete_sweep"
      BY <1>1, <2>3, <2>4, <2>6, <3>1
    <3>3. QED
      BY <3>2 DEF Refused
  <2>7. QED
    BY <2>4, <2>5, <2>6
<1>4. QED
  BY <1>2, <1>3 DEF job

LEMMA StoreInvImplies ==
    ASSUME StoreInv
    PROVE  StoreConsistent
<1>1. StoreTypeOK
  <2>1. /\ DOMAIN database.rows = RunId /\ database.points \subseteq RunId
        /\ txn = Null \/ txn.by \in Process
    BY DEF StoreInv, TypeInv, Database, TxnInv
  <2>2. \A r \in RunId : ~database.rows[r].exists => database.rows[r] = NoRows
    BY DEF StoreInv, RowsInv, RowOK
  <2>3. QED
    BY <2>1, <2>2 DEF StoreInv, PointsInv, ObserversType, StoreTypeOK
<1>2. CompleteIsWhole
  BY DEF StoreInv, RowsInv, RowOK, HasMeasurements, HasFailed, CompleteIsWhole
<1>3. CountsMatchRows
  <2>1. ASSUME NEW r \in RunId, database.rows[r].status = "complete", ~stale
        PROVE  LET row == database.rows[r]
               IN  row.passed_tasks =
                      Cardinality({t \in DOMAIN row.task_results : row.task_results[t]})
    BY <2>1 DEF StoreInv, RowsInv, RowOK
  <2>2. QED
    BY <2>1 DEF CountsMatchRows
<1>4. GhostOnlyAfterDelete
  BY DEF StoreInv, RowsInv, RowOK, Identified, GhostOnlyAfterDelete
<1>5. NoDeleteRefused
  BY DeletionsGoOn DEF StoreInv
<1>6. ListedIsGone
  <2>1. ASSUME NEW p \in Process, NEW r \in listed[p], calls[p] = <<>>,
               p \notin deadCallers, failedCalls[p] = {}, r \notin rewritten[p]
        PROVE  ~database.rows[r].exists
    <3>1. Len(calls[p]) = 0
      BY <2>1
    <3>2. \/ ~database.rows[r].exists
          \/ \E k \in 1 .. Len(calls[p]) : calls[p][k] = delete_run(r)
      BY <2>1 DEF StoreInv, ListedInv
    <3>3. QED
      BY <3>1, <3>2
  <2>2. QED
    BY <2>1 DEF ListedIsGone
<1>7. PointHasRun
  BY DEF StoreInv, PointsInv, Ensured, HasFailed, PointHasRun
<1>8. QED
  BY <1>1, <1>2, <1>3, <1>4, <1>5, <1>6, <1>7 DEF StoreConsistent

LEMMA MergeKeeps ==
    ASSUME StoreInv, StoreInv', [StoreNext]_storeVars,
           NEW p \in Process, NEW r \in RunId,
           Mine(p), txn' = Null, database' # database,
           NextCall(p).name = "record", ~raced[p],
           r \in Written(NextCall(p).stmts), database.rows[r].exists
    PROVE  database.rows[r].metadata \subseteq database'.rows[r].metadata
<1>1. Commit(p)
  <2>1. PICK q \in Process : Commit(q)
    BY NoCommit DEF StoreInv
  <2>2. q = p
    BY <2>1 DEF Commit, Mine
  <2>3. QED
    BY <2>1, <2>2
<1> DEFINE job == NextCall(p)
<1>2. /\ calls[p] # <<>> /\ job \in Job /\ database \in Database
      /\ database' = ApplyAll(database, job.stmts)
  BY <1>1, CommitEffect DEF StoreInv, TypeInv
<1>3. PICK y \in RunId, m \in Meta : job = record_point(y, m)
  BY <1>2, JobNames
<1>4. y = r
  <2>1. Written(record_point(y, m).stmts) = {y}
    BY <1>2, RecordEffect
  <2>2. QED
    BY <1>3, <2>1
<1>5. Prepared(p, job)
  BY <1>2 DEF StoreInv, NextInv
<1> HIDE DEF job
<1>6. job = record_point(r, Merged(database.rows[r], p)) /\ job.name = "record"
  <2>1. RunOfCall(job) = r /\ job.name = "record"
    BY <1>3, <1>4, RunsOfCalls DEF job
  <2>2. QED
    BY <1>5, <2>1 DEF Prepared
<1>7. /\ Merged(database.rows[r], p) \in Meta
      /\ database.rows[r].metadata # Null =>
             database.rows[r].metadata \subseteq Merged(database.rows[r], p).extra
  BY <1>2, MergedType DEF Database
<1>8. database'.rows[r].metadata = Merged(database.rows[r], p).extra
  BY <1>2, <1>6, <1>7, RecordEffect
<1>9. database.rows[r].metadata # Null
  BY DEF StoreInv, RowsInv, RowOK
<1>10. QED
  BY <1>7, <1>8, <1>9

\* Rows that are complete are whole and count what they hold, a row without its
\* benchmark stands for a deleted run, no deletion is refused, what a deletion
\* listed is gone when it ends, and a point has its run: for any processes and
\* runs, whatever of their calls interleaves, fails, meets a lock or dies.
THEOREM WritesFitTogether == StoreSpec => []StoreConsistent
<1>1. StoreInit => StoreInv
  BY InitStoreInv
<1>2. StoreInv /\ [StoreNext]_storeVars => StoreInv'
  BY StoreInvStep
<1>3. StoreInv => StoreConsistent
  BY StoreInvImplies
<1>4. QED
  BY <1>1, <1>2, <1>3, PTL DEF StoreSpec

\* Recording a stream point's evidence keeps every key of the metadata that is
\* stored, unless another process has written since the merge read it.
THEOREM MergesKeepMetadata == StoreSpec => [][RecordKeeps]_storeVars
<1>1. StoreInit => StoreInv
  BY InitStoreInv
<1>2. StoreInv /\ [StoreNext]_storeVars => StoreInv'
  BY StoreInvStep
<1>3. StoreInv /\ StoreInv' /\ [StoreNext]_storeVars => RecordKeeps
  BY MergeKeeps DEF RecordKeeps, storeVars
<1>4. QED
  BY <1>1, <1>2, <1>3, PTL DEF StoreSpec
===============================================================================
