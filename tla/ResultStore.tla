----------------------------- MODULE ResultStore -----------------------------
(***************************************************************************)
(* What one run's rows of SQLiteResultStore (storage/sqlite_store.py) hold *)
(* and how the store_* upserts change them.  The rows are one record, so   *)
(* that persist_run, one transaction, is one operator from rows to rows;   *)
(* who calls it, when, and what a failed or interrupted call leaves is in  *)
(* the modules that use this one.                                          *)
(*                                                                         *)
(* Every stored value carries the attempt that wrote it: a run id may be   *)
(* run again, and the upserts then meet the rows of the earlier attempt.   *)
(***************************************************************************)
EXTENDS Integers, TLC

CONSTANTS
    Null  \* SQL NULL, and a metadata key that is absent

-------------------------------------------------------------------------------
(* measurements, task_results, spans, verdicts and artifacts are functions  *)
(* from the row's key, without the run id, to what the row says.                     *)

EmptyTable == [key \in {} |-> Null]
NoRows == [exists |-> FALSE, status |-> Null, total_tasks |-> Null,
           passed_tasks |-> Null, benchmark_id |-> Null, metadata |-> Null,
           task_results |-> EmptyTable, measurements |-> EmptyTable,
           spans |-> EmptyTable, verdicts |-> EmptyTable, artifacts |-> EmptyTable]

Bug_InsertOrIgnore(table, new) == table @@ new

\* ON CONFLICT ... DO UPDATE SET c = excluded.c, for each new row.
Upsert(table, new) ==
    [key \in DOMAIN new \cup DOMAIN table |->
        IF key \in DOMAIN new THEN new[key] ELSE table[key]]
\* COALESCE(excluded.c, c).
Coalesce(new, old) == IF new = Null THEN old ELSE new

\* The promoted columns keep an earlier value that the new metadata does not
\* give; the metadata blob is replaced as a whole.
store_run_metadata(rows, meta) ==
    [rows EXCEPT !.exists = TRUE,
                 !.status = Coalesce(meta.status, @),
                 !.total_tasks = Coalesce(meta.total_tasks, @),
                 !.passed_tasks = Coalesce(meta.passed_tasks, @),
                 !.benchmark_id = Coalesce(meta.benchmark_id, @),
                 !.metadata = meta.extra]

store_task_results(rows, results) ==
    [rows EXCEPT !.task_results = Upsert(@, results)]

store_measurements(rows, records) ==
    [rows EXCEPT !.measurements = Upsert(@, records)]

store_spans(rows, traces) == [rows EXCEPT !.spans = Upsert(@, traces)]

store_analysis_results(rows, verdicts) ==
    [rows EXCEPT !.verdicts = Upsert(@, verdicts)]

store_artifacts(rows, files) == [rows EXCEPT !.artifacts = Upsert(@, files)]

\* One transaction over all of them, run metadata first.
persist_run(rows, meta, results, records, traces, verdicts, artifacts) ==
    store_artifacts(
        store_analysis_results(
            store_spans(
                store_measurements(
                    store_task_results(store_run_metadata(rows, meta), results),
                    records),
                traces),
            verdicts),
        artifacts)
===============================================================================
