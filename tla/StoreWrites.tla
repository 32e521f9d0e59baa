------------------------------ MODULE StoreWrites ------------------------------
(***************************************************************************)
(* Processes that share one SQLite file through SQLiteResultStore          *)
(* (storage/sqlite_store.py).  A method's first statement takes SQLite's   *)
(* write lock and works on a copy; the commit publishes it.  A statement   *)
(* that is refused or fails, a lock that is not given within the time      *)
(* limit, and the death of a process, all end in a rollback.               *)
(*                                                                         *)
(* Implements RunStore, where a method is one step.                        *)
(***************************************************************************)
EXTENDS StoreTables

CONSTANTS
    Process,         \* processes with a connection of their own
    Scenes,          \* the database and the calls its processes start with
    MaxStoreFaults   \* statements that fail for a reason of their own

VARIABLES
    database,     \* what is committed
    calls,        \* process -> the calls it has yet to make
    txn,          \* the open write transaction, or Null
    storeFaults,  \* how many statements have failed so far
    \* What follows only observes.
    failedCalls,  \* process -> names of its calls that failed
    deadCallers,  \* processes that were killed
    deleted,      \* runs that were deleted
    rewritten,    \* process -> runs written since its last listing
    listed,       \* process -> runs that its listing named
    raced,        \* process -> whether its run was written since it read it
    stale         \* a merge was stored over a newer row

storeVars == <<database, calls, txn, storeFaults, failedCalls, deadCallers,
               deleted, rewritten, listed, raced, stale>>
observers == <<failedCalls, deadCallers, deleted, rewritten, listed, raced, stale>>

\* Types; no row refers to a run or a sweep that has no row.
StoreTypeOK ==
    /\ DOMAIN database.rows = RunId /\ database.points \subseteq RunId
    /\ \A r \in RunId : ~database.rows[r].exists => database.rows[r] = NoRows
    /\ database.points # {} => database.sweep
    /\ txn = Null \/ txn.by \in Process
    /\ storeFaults \in 0 .. MaxStoreFaults
    /\ deadCallers \subseteq Process /\ deleted \subseteq RunId
    /\ rewritten \in [Process -> SUBSET RunId] /\ listed \in [Process -> SUBSET RunId]
    /\ raced \in [Process -> BOOLEAN]

-------------------------------------------------------------------------------
(* What the processes may start with: a database that whole methods left,   *)
(* and calls of the store's users, in the order in which those make them.   *)

MetadataKey ==
    {<<"run">>, <<"cell">>} \cup {<<"counts", p>> : p \in Process}
                            \cup {<<"evidence", p>> : p \in Process}
Table(keys, values) == UNION {[held -> values] : held \in SUBSET keys}
Row == [exists : BOOLEAN, status : {Null, "complete"},
        total_tasks : Nat \cup {Null}, passed_tasks : Nat \cup {Null},
        benchmark_id : {Null, Benchmark}, metadata : {Null} \cup SUBSET MetadataKey,
        task_results : Table(TaskId, BOOLEAN),
        measurements : Table(TaskId, Process), spans : Table(TaskId, Process),
        verdicts : Table(TaskId \cup {SweepId}, Process),
        artifacts : Table({"emon_csv"}, Process)]

Database == [rows : [RunId -> Row], sweep : BOOLEAN, points : SUBSET RunId,
             benchmark : BOOLEAN]

WholeRow(row) ==
    /\ IF row.exists THEN row.metadata # Null ELSE row = NoRows
    /\ row.exists /\ row.benchmark_id = Null =>
           \A p \in Process : <<"evidence", p>> \notin row.metadata
    /\ row.status = "complete" =>
           /\ DOMAIN row.task_results = TaskId /\ row.measurements # EmptyTable
           /\ row.passed_tasks = Cardinality({t \in TaskId : row.task_results[t]})

WholeDatabase(d) ==
    /\ d \in Database /\ \A r \in RunId : WholeRow(d.rows[r])
    /\ d.points \subseteq {r \in RunId : d.rows[r].exists}
    /\ d.points # {} => d.sweep

UserCall ==
    {persist_measured(p, r) : p \in Process, r \in RunId}
    \cup {persist_results(p, r, passed) :
              p \in Process, r \in RunId, passed \in SUBSET TaskId}
    \cup {ensure_run_row(r) : r \in RunId} \cup {store_sweep_point(r) : r \in RunId}
    \cup {delete_run(r) : r \in RunId} \cup {store_verdict(p) : p \in Process}
    \cup {Look("get_run", r) : r \in RunId}
    \cup {store_sweep, Look("list_benchmark", Null), Look("list_sweep", Null)}

RunOfCall(job) == IF job.kind = "write" THEN job.stmts[1].run ELSE job.run

\* The call before the k-th is one of that name for the same run.
Follows(todo, k, name) ==
    k > 1 /\ todo[k - 1].name = name /\ RunOfCall(todo[k - 1]) = RunOfCall(todo[k])

\* A run's results are stored after its measurements, what is known of it is
\* read after its results are stored, and a point follows its run's row.
InOrder(todo) ==
    \A k \in DOMAIN todo :
        /\ todo[k].name = "results" => Follows(todo, k, "measured")
        /\ todo[k].name = "get_run" => Follows(todo, k, "results")
        /\ todo[k].name = "point" => Follows(todo, k, "ensure")

ASSUME MaxStoreFaultsAssumption == MaxStoreFaults \in Nat
ASSUME NullAssumption ==
    /\ Null \notin Nat /\ Null \notin {"complete", Benchmark}
    /\ \A metadata \in SUBSET MetadataKey : metadata # Null
ASSUME ScenesAssumption ==
    \A scene \in Scenes :
        /\ WholeDatabase(scene.db)
        /\ scene.todo \in [Process -> Seq(UserCall)]
        /\ \A p \in Process : InOrder(scene.todo[p])

StoreFrom(scene) ==
    /\ database = scene.db /\ calls = scene.todo
    /\ txn = Null
    /\ storeFaults = 0
    /\ failedCalls = [p \in Process |-> {}]
    /\ deadCallers = {}
    /\ deleted = {}
    /\ rewritten = [p \in Process |-> {}]
    /\ listed = [p \in Process |-> {}]
    /\ raced = [p \in Process |-> FALSE]
    /\ stale = FALSE

StoreInit == \E scene \in Scenes : StoreFrom(scene)

-------------------------------------------------------------------------------
NextCall(p) == Head(calls[p])
Writing(p) == calls[p] # <<>> /\ NextCall(p).kind = "write"
Mine(p) == txn # Null /\ txn.by = p

\* What the next statement of p meets, and which one it is.
View(p) == IF Mine(p) THEN txn.copy ELSE database
AtStatement(p) == IF Mine(p) THEN txn.at + 1 ELSE 1
Statement(p) == NextCall(p).stmts[AtStatement(p)]
MayExecute(p) ==
    /\ Writing(p)
    /\ txn = Null \/ Mine(p)
    /\ AtStatement(p) <= Len(NextCall(p).stmts)

ExecuteStatement(p) ==
    /\ MayExecute(p)
    /\ ~Refused(View(p), Statement(p))
    /\ txn' = [by |-> p, at |-> AtStatement(p), copy |-> Apply(View(p), Statement(p))]
    /\ UNCHANGED <<database, calls, storeFaults, observers>>

GivesUp(p) ==
    /\ calls' = [calls EXCEPT ![p] = IF NextCall(p).fatal THEN <<>> ELSE Tail(@)]
    /\ failedCalls' = [failedCalls EXCEPT ![p] = @ \cup {NextCall(p).name}]
    /\ UNCHANGED <<deadCallers, deleted, rewritten, listed, raced, stale>>

Bug_LogAndGoOn(p) ==
    /\ MayExecute(p)
    /\ \/ Refused(View(p), Statement(p)) /\ UNCHANGED storeFaults
       \/ storeFaults < MaxStoreFaults /\ storeFaults' = storeFaults + 1
    /\ database' = View(p)
    /\ txn' = Null
    /\ GivesUp(p)

\* A foreign key refuses the statement, or the disk does: _on_write_error.
Fails(p) ==
    /\ MayExecute(p)
    /\ \/ Refused(View(p), Statement(p)) /\ UNCHANGED storeFaults
       \/ storeFaults < MaxStoreFaults /\ storeFaults' = storeFaults + 1
    /\ txn' = Null
    /\ GivesUp(p)
    /\ UNCHANGED database

\* "database is locked", after the five seconds of sqlite3.connect.
Busy(p) ==
    /\ Writing(p)
    /\ txn # Null /\ txn.by # p
    /\ GivesUp(p)
    /\ UNCHANGED <<database, txn, storeFaults>>

\* Runs that the statements write, and runs that they delete.
Written(stmts) ==
    {s.run : s \in {s \in Range(stmts) :
        s.op \notin {"delete_spans", "delete_points", "delete_run", "point",
                     "sweep", "delete_sweep", "delete_sweep_points",
                     "benchmark", "delete_benchmark"}}}
Deleted(stmts) == {s.run : s \in {s \in Range(stmts) : s.op = "delete_run"}}

Commit(p) ==
    /\ Mine(p) /\ txn.at = Len(NextCall(p).stmts)
    /\ database' = txn.copy
    /\ txn' = Null
    /\ calls' = [calls EXCEPT ![p] = Tail(@)]
    /\ LET stmts == NextCall(p).stmts
       IN  /\ deleted' = deleted \cup Deleted(stmts)
           /\ rewritten' = [q \in Process |->
                  (rewritten[q] \ Deleted(stmts)) \cup Written(stmts)]
           /\ raced' = [q \in Process |->
                  raced[q] \/ (q # p /\ Written(stmts) \cup Deleted(stmts) # {})]
           /\ stale' = (stale \/ (NextCall(p).name = "record" /\ raced[p]))
    /\ UNCHANGED <<storeFaults, failedCalls, deadCallers, listed>>

\* Reads see what is committed, and take no lock.
Read(p) ==
    /\ calls[p] # <<>> /\ NextCall(p).kind # "write"
    /\ calls' = [calls EXCEPT ![p] = AfterRead(database, p, NextCall(p)) \o Tail(@)]
    /\ listed' = [listed EXCEPT ![p] =
           CASE NextCall(p).kind = "list_benchmark" ->
                    {r \in RunId : database.rows[r].benchmark_id = Benchmark}
             [] NextCall(p).kind = "list_sweep" -> database.points \cup {SweepId}
             [] OTHER -> @]
    /\ rewritten' = [rewritten EXCEPT ![p] =
           IF NextCall(p).kind = "get_run" THEN @ ELSE {}]
    /\ raced' = [raced EXCEPT ![p] = FALSE]
    /\ UNCHANGED <<database, txn, storeFaults, failedCalls, deadCallers, deleted, stale>>

\* The process is killed; SQLite rolls its transaction back.
Die(p) ==
    /\ calls[p] # <<>>
    /\ calls' = [calls EXCEPT ![p] = <<>>]
    /\ txn' = IF Mine(p) THEN Null ELSE txn
    /\ deadCallers' = deadCallers \cup {p}
    /\ UNCHANGED <<database, storeFaults, failedCalls, deleted, rewritten, listed, raced, stale>>

StoreNext == \E p \in Process :
    ExecuteStatement(p) \/ Fails(p) \/ Busy(p) \/ Commit(p) \/ Read(p) \/ Die(p)

StoreSpec == StoreInit /\ [][StoreNext]_storeVars

-------------------------------------------------------------------------------
(* Properties. *)

Store == INSTANCE RunStore WITH db <- database, todo <- calls

\* Every store_* method, persist_run with all its parts, and each delete_run,
\* happens at once on the committed rows or not at all.
ImplementsRunStore == Store!Spec

\* A run that says it is complete has a result for every task, and has
\* measurements unless storing those failed and was only logged; a process that
\* rewrites a deleted run with what it read before is the exception.
CompleteIsWhole ==
    \A r \in RunId :
        /\ database.rows[r].status = "complete"
        /\ ~stale
        => /\ DOMAIN database.rows[r].task_results = TaskId
           /\ \/ database.rows[r].measurements # EmptyTable
              \/ r \in deleted
              \/ \E p \in Process : "measured" \in failedCalls[p]

\* passed_tasks counts the rows of task_results that passed, also when the same
\* run id is stored twice, unless a merge brought an older count back.
CountsMatchRows ==
    \A r \in RunId :
        LET row == database.rows[r]
        IN  row.status = "complete" /\ ~stale =>
                row.passed_tasks =
                    Cardinality({t \in DOMAIN row.task_results : row.task_results[t]})

\* A row that knows only the evidence of a stream point, and not its benchmark,
\* replaces a run that was deleted in the meantime.
GhostOnlyAfterDelete ==
    \A r \in RunId :
        /\ database.rows[r].exists
        /\ database.rows[r].benchmark_id = Null
        /\ \E p \in Process : <<"evidence", p>> \in database.rows[r].metadata
        => r \in deleted

\* Recording a point's evidence loses nothing of the metadata that is stored,
\* unless another process wrote to the store since the merge read it.
RecordKeeps ==
    [ \A p \in Process : \A r \in RunId :
           /\ Mine(p) /\ txn' = Null /\ database' # database
           /\ NextCall(p).name = "record" /\ ~raced[p]
           /\ r \in Written(NextCall(p).stmts) /\ database.rows[r].exists
           => database.rows[r].metadata \subseteq database'.rows[r].metadata]_storeVars

\* No deletion is refused because something still refers to what it deletes.
NoDeleteRefused ==
    \A p \in Process :
        /\ MayExecute(p)
        /\ NextCall(p).name \in {"delete_run", "delete_sweep"}
        => ~Refused(View(p), Statement(p))

\* When a deletion of a benchmark or a sweep has ended without a failure, every
\* run that it listed, and the sweep's own, is gone or was written again.
ListedIsGone ==
    \A p \in Process : \A r \in listed[p] :
        /\ calls[p] = <<>> /\ p \notin deadCallers /\ failedCalls[p] = {}
        /\ r \notin rewritten[p]
        => ~database.rows[r].exists

\* A point whose run has no row is left only by a failed write of that row or
\* by a deletion between the two.
PointHasRun ==
    \A r \in database.points :
        \/ database.rows[r].exists
        \/ r \in deleted
        \/ \E p \in Process : "ensure" \in failedCalls[p]

\* What the store holds, and what a deletion leaves of it, fits together however
\* the writes of several processes interleave and fail.
StoreConsistent ==
    /\ StoreTypeOK /\ CompleteIsWhole /\ CountsMatchRows /\ GhostOnlyAfterDelete
    /\ NoDeleteRefused /\ ListedIsGone /\ PointHasRun
===============================================================================
