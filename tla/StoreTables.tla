------------------------------ MODULE StoreTables ------------------------------
(***************************************************************************)
(* The whole database of SQLiteResultStore (storage/sqlite_store.py), the  *)
(* statements its methods execute on it, and the sequences of method calls *)
(* its users make: a run that ends, a sweep, and the three deletions.      *)
(*                                                                         *)
(* A database holds the rows of every run, and one sweep and one benchmark *)
(* of interest.  A statement is a record; Refused says when a foreign key  *)
(* forbids it and Apply what it does otherwise.  A method is one           *)
(* transaction, a sequence of statements; a read is a method without any.  *)
(***************************************************************************)
EXTENDS ResultStore, FiniteSets, Sequences, SequencesExt

CONSTANTS
    RunId,     \* run ids
    SweepId,   \* the run id under which a sweep stores its verdict
    CellRuns,  \* the run ids of the sweep's cells, in order
    TaskId     \* the tasks of a run

ASSUME RunIdAssumption ==
    /\ IsFiniteSet(RunId)
    /\ SweepId \in RunId /\ Range(CellRuns) \subseteq RunId \ {SweepId}
ASSUME TaskIdAssumption == IsFiniteSet(TaskId) /\ TaskId # {}

Benchmark == "terminal-bench"

EmptyDatabase == [rows |-> [r \in RunId |-> NoRows],
                  sweep |-> FALSE,      \* is there a row in sweeps
                  points |-> {},        \* run ids of the rows in sweep_points
                  benchmark |-> FALSE]  \* is there a row in benchmarks

-------------------------------------------------------------------------------
(* Statements. *)

Bug_ForeignKeysOff(d, s) == FALSE

\* spans and the tables that cascade refer to runs; sweep_points to sweeps.
\* sweep_points.run_id refers to nothing.
Refused(d, s) ==
    CASE s.op \in {"tasks", "measurements", "spans", "verdicts", "artifacts"}
             -> ~d.rows[s.run].exists
      [] s.op = "point" -> ~d.sweep
      [] s.op = "delete_run" -> d.rows[s.run].spans # EmptyTable
      [] s.op = "delete_sweep" -> d.points # {}
      [] OTHER -> FALSE

WithRows(d, run, new) == [d EXCEPT !.rows[run] = new]

Apply(d, s) ==
    CASE s.op = "metadata" ->
             WithRows(d, s.run, store_run_metadata(d.rows[s.run], s.meta))
      [] s.op = "tasks" ->
             WithRows(d, s.run, store_task_results(d.rows[s.run], s.new))
      [] s.op = "measurements" ->
             WithRows(d, s.run, store_measurements(d.rows[s.run], s.new))
      [] s.op = "spans" -> WithRows(d, s.run, store_spans(d.rows[s.run], s.new))
      [] s.op = "verdicts" ->
             WithRows(d, s.run, store_analysis_results(d.rows[s.run], s.new))
      [] s.op = "artifacts" ->
             WithRows(d, s.run, store_artifacts(d.rows[s.run], s.new))
      [] s.op = "delete_spans" ->
             WithRows(d, s.run, [d.rows[s.run] EXCEPT !.spans = EmptyTable])
      [] s.op = "delete_run" -> WithRows(d, s.run, NoRows)
      [] s.op = "sweep" -> [d EXCEPT !.sweep = TRUE]
      [] s.op = "point" -> [d EXCEPT !.points = @ \cup {s.run}]
      [] s.op = "delete_points" -> [d EXCEPT !.points = @ \ {s.run}]
      [] s.op = "delete_sweep_points" -> [d EXCEPT !.points = {}]
      [] s.op = "delete_sweep" -> [d EXCEPT !.sweep = FALSE]
      [] s.op = "benchmark" -> [d EXCEPT !.benchmark = TRUE]
      [] s.op = "delete_benchmark" -> [d EXCEPT !.benchmark = FALSE]

\* The databases that a transaction goes through while it meets no refusal.
After(d, stmts) ==
    LET after[k \in 0 .. Len(stmts)] ==
            IF k = 0 THEN d ELSE Apply(after[k - 1], stmts[k])
    IN  after

ApplyAll(d, stmts) == After(d, stmts)[Len(stmts)]
SomeRefused(d, stmts) ==
    \E k \in 1 .. Len(stmts) : Refused(After(d, stmts)[k - 1], stmts[k])

-------------------------------------------------------------------------------
(* Methods.  A failure is logged, and the caller goes on, unless it is      *)
(* fatal: persist_run raises, and delete_sweep gives up.                    *)

Call(name, stmts) == [name |-> name, kind |-> "write", fatal |-> FALSE, stmts |-> stmts]
Must(name, stmts) == [Call(name, stmts) EXCEPT !.fatal = TRUE]
Look(kind, run) == [name |-> kind, kind |-> kind, fatal |-> FALSE, run |-> run]

On(op, run) == [op |-> op, run |-> run]
Put(op, run, new) == [op |-> op, run |-> run, new |-> new]

StoreMetadata(run, meta) == [op |-> "metadata", run |-> run, meta |-> meta]

RowMetadata(extra) == [status |-> Null, total_tasks |-> Null, passed_tasks |-> Null,
                       benchmark_id |-> Null, extra |-> extra]

Bug_SpansLast(run) ==
    Call("delete_run", <<On("delete_points", run), On("delete_run", run),
                         On("delete_spans", run)>>)

\* delete_run: what refers to the run without a cascade goes first.
delete_run(run) ==
    Call("delete_run", <<On("delete_spans", run), On("delete_points", run),
                         On("delete_run", run)>>)

DeleteRuns(runs) == [k \in 1 .. Len(runs) |-> delete_run(runs[k])]

\* delete_benchmark, once it has listed the runs.
delete_benchmark_row == Call("delete_benchmark", <<[op |-> "delete_benchmark"]>>)
DeleteBenchmark(runs) == DeleteRuns(runs) \o <<delete_benchmark_row>>

delete_sweep_row ==
    Must("delete_sweep", <<[op |-> "delete_sweep_points"], [op |-> "delete_sweep"]>>)

Bug_CellsOnly(runs) == <<delete_sweep_row>> \o DeleteRuns(runs)

\* delete_sweep, once it has listed the cells.
DeleteSweep(runs) ==
    <<delete_sweep_row>> \o DeleteRuns(runs) \o <<delete_run(SweepId)>>

Bug_ForgetStored(row, p) ==
    [RowMetadata({<<"evidence", p>>}) EXCEPT
        !.status = row.status, !.total_tasks = row.total_tasks,
        !.passed_tasks = row.passed_tasks, !.benchmark_id = row.benchmark_id]

\* _record_point_metadata merges its evidence into what get_run returned.
Merged(row, p) ==
    [RowMetadata((IF row.metadata = Null THEN {} ELSE row.metadata)
                 \cup {<<"evidence", p>>}) EXCEPT
        !.status = row.status, !.total_tasks = row.total_tasks,
        !.passed_tasks = row.passed_tasks, !.benchmark_id = row.benchmark_id]

record_point(run, meta) == Call("record", <<StoreMetadata(run, meta)>>)

\* What the caller does next with what a read returned.
AfterRead(d, p, job) ==
    CASE job.kind = "get_run" ->
             <<record_point(job.run, Merged(d.rows[job.run], p))>>
      [] job.kind = "list_benchmark" ->
             DeleteBenchmark(SetToSeq({r \in RunId : d.rows[r].benchmark_id = Benchmark}))
      [] job.kind = "list_sweep" -> DeleteSweep(SetToSeq(d.points))

-------------------------------------------------------------------------------
(* What the users of the store call, in order. *)

StartMetadata ==
    [RowMetadata({<<"run">>}) EXCEPT !.benchmark_id = Benchmark]
CompleteMetadata(p, passed) ==
    [RowMetadata({<<"run">>, <<"counts", p>>}) EXCEPT
        !.benchmark_id = Benchmark, !.status = "complete",
        !.total_tasks = Cardinality(TaskId), !.passed_tasks = Cardinality(passed)]

By(p, keys) == [key \in keys |-> p]

persist_measured(p, run) ==
    Call("measured", <<StoreMetadata(run, StartMetadata),
                       Put("measurements", run, By(p, TaskId)),
                       Put("spans", run, By(p, TaskId)),
                       Put("artifacts", run, By(p, {"emon_csv"}))>>)

persist_results(p, run, passed) ==
    Must("results", <<StoreMetadata(run, CompleteMetadata(p, passed)),
                      Put("tasks", run, [t \in TaskId |-> t \in passed]),
                      Put("verdicts", run, By(p, TaskId))>>)

\* A stream worker's run: RunContext.stop, run_benchmark, _record_point_metadata.
EndOfRun(p, run, passed) ==
    <<persist_measured(p, run), persist_results(p, run, passed),
      Look("get_run", run)>>

ensure_run_row(run) == Call("ensure", <<StoreMetadata(run, RowMetadata({<<"cell">>}))>>)
store_sweep_point(run) == Call("point", <<On("point", run)>>)

StoreCellRows(run) == <<ensure_run_row(run), store_sweep_point(run)>>

store_sweep == Call("sweep", <<[op |-> "sweep"]>>)
store_verdict(p) == Call("verdict", <<Put("verdicts", SweepId, By(p, {SweepId}))>>)

\* HarborSweep.run.
SweepCalls(p) ==
    <<store_sweep, ensure_run_row(SweepId)>>
        \o FlattenSeq([k \in 1 .. Len(CellRuns) |-> StoreCellRows(CellRuns[k])])
        \o <<store_verdict(p)>>
===============================================================================
