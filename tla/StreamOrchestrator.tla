-------------------------- MODULE StreamOrchestrator --------------------------
(***************************************************************************)
(* run_task_sized_streams (streams/orchestrator.py): one parent process    *)
(* hands the items of a run to worker processes, one per slot, through one *)
(* multiprocessing queue per task size, and collects their results from a  *)
(* shared result queue while it supervises them.  Every worker runs its    *)
(* items one after the other, removes the Docker resources of each run     *)
(* under one shared lock, and posts one result per item.                   *)
(*                                                                         *)
(* Any worker may die at any step (it is a process); a task thread that    *)
(* run_benchmark gave up on keeps running inside its worker; what a killed *)
(* worker was holding stays held.                                          *)
(***************************************************************************)
EXTENDS Integers, Sequences, FiniteSets

CONSTANTS
    NumSlots,  \* planned worker slots; stream_id = 0 .. NumSlots - 1
    Item,      \* the work items, the pairs (task name, repeat index)
    SlotSize,  \* CPU size class of each slot
    ItemSize,  \* CPU size class of each item's task
    Backlog,   \* the items of each size, in the order the parent puts them
    None,      \* the sentinel that ends a worker, and "no item"
    Faults     \* what may go wrong, a subset of FaultKind

Slot == 0 .. NumSlots - 1
Sizes == {SlotSize[w] : w \in Slot}
Run == Slot \X Item

FaultKind == {"start", "crash", "benchmark", "timeout", "cleanup", "store",
              "callback", "deadline"}

ASSUME SlotsAssumption == NumSlots \in Nat \ {0}
ASSUME ItemsAssumption == IsFiniteSet(Item) /\ Item # {}
ASSUME NoneAssumption == None \notin Item \cup Slot
ASSUME SizesAssumption ==
    /\ SlotSize \in [Slot -> Nat]
    /\ ItemSize \in [Item -> Sizes]
\* The parent's put loop: Backlog[s] lists the items of size s, each one once.
ASSUME BacklogAssumption ==
    /\ Backlog \in [Sizes -> Seq(Item)]
    /\ \A s \in Sizes :
          /\ \A k \in DOMAIN Backlog[s] : ItemSize[Backlog[s][k]] = s
          /\ \A j, k \in DOMAIN Backlog[s] :
                Backlog[s][j] = Backlog[s][k] => j = k
    /\ \A i \in Item : \E k \in DOMAIN Backlog[ItemSize[i]] :
          Backlog[ItemSize[i]][k] = i
ASSUME FaultsAssumption == Faults \subseteq FaultKind

VARIABLES
    \* the parent
    parent,           \* where the parent is
    started,          \* workers started so far
    results,          \* results received, in order
    idle_after_exit,  \* empty polls seen with no worker alive
    raised,           \* the exception being raised, "none" if there is none
    expired,          \* time.monotonic() has passed supervision_deadline
    \* shared between the processes
    task_queue,       \* one queue per size
    read_lost,        \* a queue's read lock died with its holder
    result_queue,     \* results in the pipe
    write_lost,       \* the result queue's write lock died with its holder
    cleanup_lock,     \* holder of cleanup_lock, None when free
    \* the workers
    phase, item, primary_error, cleanup_error, outbox, exitcode,
    \* outside the processes
    attempts,         \* runs whose task may still create Docker resources
    docker,           \* runs that have containers or networks
    recorded          \* runs whose point metadata is in the store

parentVars == <<parent, started, results, idle_after_exit, raised, expired>>
sharedVars == <<task_queue, read_lost, result_queue, write_lost, cleanup_lock>>
workerVars == <<phase, item, primary_error, cleanup_error, outbox, exitcode>>
worldVars == <<attempts, docker, recorded>>
vars == <<parentVars, sharedVars, workerVars, worldVars>>

Phase == {"new", "fetch", "run", "cleanup", "locked", "report", "metadata",
          "exiting", "exited"}
ExitCode == {"none", "ok", "error", "killed"}
ErrorType == {"none", "WorkerError", "CleanupError"}
Result == [run : Run, error_type : ErrorType, cleanup_error : BOOLEAN]
\* What the parent raises for a worker; "WorkerError+cleanup" carries both errors.
WorkerRaised == {"WorkerError", "CleanupError", "WorkerError+cleanup"}
Raised == WorkerRaised \cup {"none", "start", "deadline", "exited", "callback",
                             "exitcode", "final"}
Supervising == {"check", "get", "empty"}

Alive(w) == phase[w] \notin {"new", "exited"}
Fatal(result) == result.error_type # "none"
RunOf(w) == <<w, item[w]>>
QueueOf(w) == SlotSize[w]
SlotsOf(s) == {w \in Slot : SlotSize[w] = s}
Bug_OneSentinelPerSize(s) == <<None>>
Sentinels(s) == [k \in 1 .. Cardinality(SlotsOf(s)) |-> None]

TypeOK ==
    /\ parent \in {"starting", "join", "shutdown", "final", "returned",
                   "raised"} \cup Supervising
    /\ started \in 0 .. NumSlots
    /\ results \in Seq(Result)
    /\ idle_after_exit \in 0 .. 4
    /\ raised \in Raised
    /\ expired \in BOOLEAN
    /\ task_queue \in [Sizes -> Seq(Item \cup {None})]
    /\ read_lost \in [Sizes -> BOOLEAN]
    /\ result_queue \in Seq(Result)
    /\ write_lost \in BOOLEAN
    /\ cleanup_lock \in Slot \cup {None}
    /\ phase \in [Slot -> Phase]
    /\ item \in [Slot -> Item \cup {None}]
    /\ primary_error \in [Slot -> BOOLEAN]
    /\ cleanup_error \in [Slot -> BOOLEAN]
    /\ outbox \in [Slot -> Seq(Result)]
    /\ exitcode \in [Slot -> ExitCode]
    /\ attempts \subseteq Run
    /\ docker \subseteq Run
    /\ recorded \subseteq Run

-------------------------------------------------------------------------------
(* The queues are filled, with one sentinel per slot, before any worker is  *)
(* started.                                                                 *)

Bug_RepeatsTwice(s) == Backlog[s] \o Backlog[s] \o Sentinels(s)
Bug_SentinelsFirst(s) == Sentinels(s) \o Backlog[s]

InitialQueue(s) == Backlog[s] \o Sentinels(s)

Init ==
    /\ parent = "starting"
    /\ started = 0
    /\ results = <<>>
    /\ idle_after_exit = 0
    /\ raised = "none"
    /\ expired = FALSE
    /\ task_queue = [s \in Sizes |-> InitialQueue(s)]
    /\ read_lost = [s \in Sizes |-> FALSE]
    /\ result_queue = <<>>
    /\ write_lost = FALSE
    /\ cleanup_lock = None
    /\ phase = [w \in Slot |-> "new"]
    /\ item = [w \in Slot |-> None]
    /\ primary_error = [w \in Slot |-> FALSE]
    /\ cleanup_error = [w \in Slot |-> FALSE]
    /\ outbox = [w \in Slot |-> <<>>]
    /\ exitcode = [w \in Slot |-> "none"]
    /\ attempts = {}
    /\ docker = {}
    /\ recorded = {}

-------------------------------------------------------------------------------
(* Worker w, _worker: one action per step another process can see.         *)

\* task_queue.get(): a sentinel ends the worker, an item starts its run.
Fetch(w) ==
    LET s == QueueOf(w)
        head == Head(task_queue[s])
    IN  /\ phase[w] = "fetch"
        /\ ~read_lost[s]
        /\ task_queue[s] # <<>>
        /\ task_queue' = [task_queue EXCEPT ![s] = Tail(@)]
        /\ IF head = None
             THEN /\ phase' = [phase EXCEPT ![w] = "exiting"]
                  /\ UNCHANGED <<item, primary_error, cleanup_error, attempts>>
             ELSE /\ phase' = [phase EXCEPT ![w] = "run"]
                  /\ item' = [item EXCEPT ![w] = head]
                  /\ primary_error' = [primary_error EXCEPT ![w] = FALSE]
                  /\ cleanup_error' = [cleanup_error EXCEPT ![w] = FALSE]
                  /\ attempts' = attempts \cup {<<w, head>>}
        /\ UNCHANGED <<read_lost, result_queue, write_lost, cleanup_lock,
                       outbox, exitcode, docker, recorded, parentVars>>

\* The task of run r creates containers or networks.
TaskCreates(r) ==
    /\ r \in attempts
    /\ docker' = docker \cup {r}
    /\ UNCHANGED <<attempts, recorded, parentVars, sharedVars, workerVars>>

\* The task of run r ends; its own teardown removes its resources or fails to.
TaskEnds(r) ==
    /\ r \in attempts
    /\ attempts' = attempts \ {r}
    /\ docker' \in {docker, docker \ {r}}
    /\ UNCHANGED <<recorded, parentVars, sharedVars, workerVars>>

EndRun(w, error) ==
    /\ phase' = [phase EXCEPT ![w] = "cleanup"]
    /\ primary_error' = [primary_error EXCEPT ![w] = error]
    /\ UNCHANGED <<item, cleanup_error, outbox, exitcode, docker, recorded,
                   parentVars, sharedVars>>

\* run_benchmark returns a summary once its task has ended ...
BenchmarkReturns(w) ==
    /\ phase[w] = "run"
    /\ RunOf(w) \notin attempts
    /\ EndRun(w, FALSE)
    /\ UNCHANGED attempts

\* ... or after timeout_s: the task is given up, not stopped ...
BenchmarkTimesOut(w) ==
    /\ "timeout" \in Faults
    /\ phase[w] = "run"
    /\ RunOf(w) \in attempts
    /\ EndRun(w, FALSE)
    /\ UNCHANGED attempts

\* ... or it raises, before its task started, after it ended or after a timeout.
BenchmarkRaises(w) ==
    /\ "benchmark" \in Faults
    /\ phase[w] = "run"
    /\ EndRun(w, TRUE)
    /\ \/ attempts' = attempts \ {RunOf(w)}
       \/ "timeout" \in Faults /\ UNCHANGED attempts

Bug_NoCleanupLock(w) ==
    /\ phase[w] = "cleanup"
    /\ cleanup_lock' = w
    /\ phase' = [phase EXCEPT ![w] = "locked"]
    /\ UNCHANGED <<item, primary_error, cleanup_error, outbox, exitcode,
                   task_queue, read_lost, result_queue, write_lost,
                   parentVars, worldVars>>

\* with args.cleanup_lock: ...
AcquireCleanup(w) ==
    /\ phase[w] = "cleanup"
    /\ cleanup_lock = None
    /\ cleanup_lock' = w
    /\ phase' = [phase EXCEPT ![w] = "locked"]
    /\ UNCHANGED <<item, primary_error, cleanup_error, outbox, exitcode,
                   task_queue, read_lost, result_queue, write_lost,
                   parentVars, worldVars>>

\* _cleanup_point_containers(run_id): a removal that Docker carried out.
CleanupRemoves(w) ==
    /\ phase[w] = "locked"
    /\ RunOf(w) \in docker
    /\ docker' = docker \ {RunOf(w)}
    /\ UNCHANGED <<attempts, recorded, parentVars, sharedVars, workerVars>>

Bug_LockKept(w, error) ==
    /\ phase[w] = "locked"
    /\ phase' = [phase EXCEPT ![w] = "report"]
    /\ cleanup_error' = [cleanup_error EXCEPT ![w] = error]
    /\ UNCHANGED <<item, primary_error, outbox, exitcode, sharedVars,
                   parentVars, worldVars>>

EndCleanup(w, error) ==
    /\ phase[w] = "locked"
    /\ phase' = [phase EXCEPT ![w] = "report"]
    /\ cleanup_error' = [cleanup_error EXCEPT ![w] = error]
    /\ cleanup_lock' = None
    /\ UNCHANGED <<item, primary_error, outbox, exitcode, task_queue, read_lost,
                   result_queue, write_lost, parentVars, worldVars>>

Bug_NotRelisted(w) == EndCleanup(w, FALSE)

\* A listing came back empty: the cleanup is verified.
CleanupVerified(w) == RunOf(w) \notin docker /\ EndCleanup(w, FALSE)

\* The deadline passed with something left, or with a listing that failed: all
\* that the docker calls raised before is only the cause of this CleanupError.
CleanupFails(w) == "cleanup" \in Faults /\ EndCleanup(w, TRUE)

Bug_KeepsFirstError(w) ==
    [run |-> RunOf(w),
     error_type |-> IF primary_error[w] THEN "WorkerError"
                    ELSE IF cleanup_error[w] THEN "CleanupError" ELSE "none",
     cleanup_error |-> FALSE]

\* The result names the first error, and the cleanup's error besides it when
\* there are two.
ResultOf(w) ==
    [run |-> RunOf(w),
     error_type |-> IF primary_error[w] THEN "WorkerError"
                    ELSE IF cleanup_error[w] THEN "CleanupError" ELSE "none",
     cleanup_error |-> primary_error[w] /\ cleanup_error[w]]

Bug_NoMetadata(w) ==
    /\ phase[w] = "report"
    /\ outbox' = [outbox EXCEPT ![w] = Append(@, ResultOf(w))]
    /\ phase' = [phase EXCEPT ![w] =
                    IF Fatal(ResultOf(w)) THEN "exiting" ELSE "fetch"]
    /\ UNCHANGED <<item, primary_error, cleanup_error, exitcode,
                   parentVars, sharedVars, worldVars>>

\* result_queue.put(result) only fills the worker's buffer.  The metadata step
\* follows when there is a summary; a primary error is raised at once.
Report(w) ==
    /\ phase[w] = "report"
    /\ outbox' = [outbox EXCEPT ![w] = Append(@, ResultOf(w))]
    /\ phase' = [phase EXCEPT ![w] =
                    IF primary_error[w] THEN "exiting" ELSE "metadata"]
    /\ UNCHANGED <<item, primary_error, cleanup_error, exitcode,
                   parentVars, sharedVars, worldVars>>

\* _record_point_metadata swallows store errors; then a cleanup error is raised.
RecordMetadata(w) ==
    /\ phase[w] = "metadata"
    /\ \/ recorded' = recorded \cup {RunOf(w)}
       \/ "store" \in Faults /\ UNCHANGED recorded
    /\ phase' = [phase EXCEPT ![w] =
                    IF cleanup_error[w] THEN "exiting" ELSE "fetch"]
    /\ UNCHANGED <<item, primary_error, cleanup_error, outbox, exitcode,
                   attempts, docker, parentVars, sharedVars>>

\* The queue's feeder thread writes the oldest buffered result to the pipe.
Flush(w) ==
    /\ Alive(w)
    /\ outbox[w] # <<>>
    /\ ~write_lost
    /\ result_queue' = Append(result_queue, Head(outbox[w]))
    /\ outbox' = [outbox EXCEPT ![w] = Tail(@)]
    /\ UNCHANGED <<phase, item, primary_error, cleanup_error, exitcode,
                   task_queue, read_lost, write_lost, cleanup_lock,
                   parentVars, worldVars>>

\* The interpreter exits after the feeder and every task thread have ended.
Exit(w) ==
    /\ phase[w] = "exiting"
    /\ outbox[w] = <<>>
    /\ \A i \in Item : <<w, i>> \notin attempts
    /\ phase' = [phase EXCEPT ![w] = "exited"]
    /\ exitcode' = [exitcode EXCEPT ![w] =
                      IF primary_error[w] \/ cleanup_error[w]
                        THEN "error" ELSE "ok"]
    /\ UNCHANGED <<item, primary_error, cleanup_error, outbox,
                   parentVars, sharedVars, worldVars>>

\* A worker is killed.  Its buffer is gone, the locks it held stay locked, and
\* a docker command it had started still runs.
Kill(w) ==
    /\ Alive(w)
    /\ phase' = [phase EXCEPT ![w] = "exited"]
    /\ exitcode' = [exitcode EXCEPT ![w] = "killed"]
    /\ outbox' = [outbox EXCEPT ![w] = <<>>]
    /\ \/ UNCHANGED read_lost
       \/ /\ phase[w] = "fetch"
          /\ read_lost' = [read_lost EXCEPT ![QueueOf(w)] = TRUE]
    /\ \/ UNCHANGED write_lost
       \/ outbox[w] # <<>> /\ write_lost' = TRUE
    /\ UNCHANGED <<item, primary_error, cleanup_error, task_queue,
                   result_queue, cleanup_lock, parentVars, worldVars>>

\* A signal or the OOM killer; also an exception that leaves _worker outside its
\* try, as os.sched_setaffinity's does before the first item.
Crash(w) ==
    /\ "crash" \in Faults
    /\ parent # "shutdown"
    /\ Kill(w)

-------------------------------------------------------------------------------
(* The parent, run_task_sized_streams from its first process.start().      *)

Raise(error) ==
    /\ raised' = error
    /\ parent' = "shutdown"

\* process.start() for the next stream_id, or its failure.
StartWorker ==
    /\ parent = "starting"
    /\ started < NumSlots
    /\ \/ /\ phase' = [phase EXCEPT ![started] = "fetch"]
          /\ started' = started + 1
          /\ UNCHANGED <<parent, raised>>
       \/ /\ "start" \in Faults
          /\ Raise("start")
          /\ UNCHANGED <<phase, started>>
    /\ UNCHANGED <<results, idle_after_exit, expired, item, primary_error,
                   cleanup_error, outbox, exitcode, sharedVars, worldVars>>

AllStarted ==
    /\ parent = "starting"
    /\ started = NumSlots
    /\ parent' = "check"
    /\ UNCHANGED <<started, results, idle_after_exit, raised, expired,
                   sharedVars, workerVars, worldVars>>

\* supervision_deadline passes.
Expire ==
    /\ "deadline" \in Faults
    /\ parent \in Supervising
    /\ ~expired
    /\ expired' = TRUE
    /\ UNCHANGED <<parent, started, results, idle_after_exit, raised,
                   sharedVars, workerVars, worldVars>>

Bug_NoDeadlineCheck ==
    /\ parent = "check"
    /\ parent' = IF Len(results) = Cardinality(Item) THEN "join" ELSE "get"
    /\ UNCHANGED <<started, results, idle_after_exit, raised, expired,
                   sharedVars, workerVars, worldVars>>

Bug_OneResultShort ==
    /\ parent = "check"
    /\ IF Len(results) + 1 >= Cardinality(Item)
         THEN parent' = "join" /\ UNCHANGED raised
         ELSE IF expired THEN Raise("deadline")
                         ELSE parent' = "get" /\ UNCHANGED raised
    /\ UNCHANGED <<started, results, idle_after_exit, expired,
                   sharedVars, workerVars, worldVars>>

\* The head of the loop: all results are in, or the deadline is over, or poll.
Check ==
    /\ parent = "check"
    /\ \/ /\ Len(results) = Cardinality(Item)
          /\ parent' = "join"
          /\ UNCHANGED raised
       \/ /\ Len(results) < Cardinality(Item)
          /\ IF expired THEN Raise("deadline")
                        ELSE parent' = "get" /\ UNCHANGED raised
    /\ UNCHANGED <<started, results, idle_after_exit, expired,
                   sharedVars, workerVars, worldVars>>

\* _worker_error_from_result: a CleanupError when the cleanup alone failed, else
\* a WorkerError, with the cleanup's error attached when there is one.
WorkerErrorFromResult(result) ==
    IF result.error_type = "CleanupError" /\ ~result.cleanup_error
      THEN "CleanupError"
      ELSE IF result.cleanup_error THEN "WorkerError+cleanup" ELSE "WorkerError"

\* result_queue.get returns a result; on_task_done may raise, a fatal result
\* is raised as the worker's own error.
Get ==
    /\ parent = "get"
    /\ result_queue # <<>>
    /\ LET result == Head(result_queue)
       IN  /\ results' = Append(results, result)
           /\ \/ "callback" \in Faults /\ Raise("callback")
              \/ Fatal(result) /\ Raise(WorkerErrorFromResult(result))
              \/ ~Fatal(result) /\ parent' = "check" /\ UNCHANGED raised
    /\ result_queue' = Tail(result_queue)
    /\ idle_after_exit' = 0
    /\ UNCHANGED <<started, expired, task_queue, read_lost, write_lost,
                   cleanup_lock, workerVars, worldVars>>

\* result_queue.get(timeout=0.5) raises queue.Empty.
PollEmpty ==
    /\ parent = "get"
    /\ result_queue = <<>>
    /\ parent' = "empty"
    /\ UNCHANGED <<started, results, idle_after_exit, raised, expired,
                   sharedVars, workerVars, worldVars>>

\* any(process.is_alive() ...): the fourth empty poll with none alive gives up.
Bug_FirstIdlePoll == 1
Bug_SixIdlePolls == 6
IdleLimit == 4

CheckAlive ==
    /\ parent = "empty"
    /\ IF \E w \in Slot : Alive(w)
         THEN parent' = "check" /\ UNCHANGED <<idle_after_exit, raised>>
         ELSE /\ idle_after_exit' = idle_after_exit + 1
              /\ IF idle_after_exit' >= IdleLimit
                   THEN Raise("exited")
                   ELSE parent' = "check" /\ UNCHANGED raised
    /\ UNCHANGED <<started, results, expired, sharedVars, workerVars, worldVars>>

\* process.join(timeout=10) on every worker, which may give up on any of them;
\* then the exit codes are looked at, and "none" passes.
Join ==
    /\ parent = "join"
    /\ IF \E w \in Slot : exitcode[w] \notin {"none", "ok"}
         THEN Raise("exitcode")
         ELSE parent' = "shutdown" /\ UNCHANGED raised
    /\ UNCHANGED <<started, results, idle_after_exit, expired,
                   sharedVars, workerVars, worldVars>>

\* _shutdown_workers: SIGTERM, then SIGKILL, for whoever is alive.
ShutdownWorker(w) ==
    /\ parent = "shutdown"
    /\ Kill(w)

Bug_OnlyTerminated ==
    /\ parent = "shutdown"
    /\ parent' = "final"
    /\ UNCHANGED <<started, results, idle_after_exit, raised, expired,
                   sharedVars, workerVars, worldVars>>

ShutdownDone ==
    /\ parent = "shutdown"
    /\ \A w \in Slot : ~Alive(w)
    /\ parent' = "final"
    /\ UNCHANGED <<started, results, idle_after_exit, raised, expired,
                   sharedVars, workerVars, worldVars>>

\* _cleanup_point_containers(base_run_id), outside the lock, after the workers.
FinalRemoves(r) ==
    /\ parent = "final"
    /\ r \in docker
    /\ docker' = docker \ {r}
    /\ UNCHANGED <<attempts, recorded, parentVars, sharedVars, workerVars>>

Bug_ReturnsAfterError ==
    /\ parent = "final"
    /\ docker = {}
    /\ parent' = "returned"
    /\ raised' = "none"
    /\ UNCHANGED <<started, results, idle_after_exit, expired,
                   sharedVars, workerVars, worldVars>>

FinalVerified ==
    /\ parent = "final"
    /\ docker = {}
    /\ parent' = IF raised = "none" THEN "returned" ELSE "raised"
    /\ UNCHANGED <<started, results, idle_after_exit, raised, expired,
                   sharedVars, workerVars, worldVars>>

Bug_CleanupReplacesError ==
    /\ "cleanup" \in Faults
    /\ parent = "final"
    /\ parent' = "raised"
    /\ raised' = "final"
    /\ UNCHANGED <<started, results, idle_after_exit, expired,
                   sharedVars, workerVars, worldVars>>

\* A cleanup error is raised only when nothing else is being raised.
FinalFails ==
    /\ "cleanup" \in Faults
    /\ parent = "final"
    /\ parent' = "raised"
    /\ raised' = IF raised = "none" THEN "final" ELSE raised
    /\ UNCHANGED <<started, results, idle_after_exit, expired,
                   sharedVars, workerVars, worldVars>>

-------------------------------------------------------------------------------
Worker(w) ==
    \/ Fetch(w) \/ BenchmarkReturns(w) \/ BenchmarkTimesOut(w)
    \/ BenchmarkRaises(w) \/ AcquireCleanup(w) \/ CleanupRemoves(w)
    \/ CleanupVerified(w) \/ CleanupFails(w) \/ Report(w)
    \/ RecordMetadata(w) \/ Flush(w) \/ Exit(w)

Parent ==
    \/ StartWorker \/ AllStarted \/ Check \/ Get \/ PollEmpty \/ CheckAlive
    \/ Join \/ ShutdownDone \/ FinalVerified \/ FinalFails
    \/ \E w \in Slot : ShutdownWorker(w)
    \/ \E r \in Run : FinalRemoves(r)

Next ==
    \/ Parent
    \/ Expire
    \/ \E w \in Slot : Worker(w) \/ Crash(w)
    \/ \E r \in Run : TaskCreates(r) \/ TaskEnds(r)

Spec == Init /\ [][Next]_vars

Terminated == parent \in {"returned", "raised"}

\* The parent is a running process whose every wait has a timeout: the 0.5 s
\* poll, the joins, the docker calls, the cleanup deadline.
ParentFairness ==
    /\ WF_vars(Parent)
    /\ WF_vars(FinalVerified \/ FinalFails)

\* Time passes.
ClockFairness == WF_vars(Expire)

\* A worker that is not killed keeps running, and a task that is not stuck ends.
WorkerFairness ==
    /\ \A w \in Slot : WF_vars(Worker(w))
    /\ \A r \in Run : WF_vars(TaskEnds(r))

FairSpec == Spec /\ ParentFairness

-------------------------------------------------------------------------------
(* Properties *)

PostedResults ==
    UNION {{seq[k] : k \in DOMAIN seq} :
              seq \in {results, result_queue} \cup {outbox[w] : w \in Slot}}

ItemsIn(seq) == {seq[k].run[2] : k \in DOMAIN seq}
Holding(w) == phase[w] \in {"run", "cleanup", "locked", "report"}

\* Every item is handed out once and reported once: across the queues, the
\* workers, their buffers, the pipe and the parent's list no item occurs twice.
NoItemTwice ==
    LET delivered == results \o result_queue
    IN  /\ \A j, k \in DOMAIN delivered :
              delivered[j].run[2] = delivered[k].run[2] => j = k
        /\ \A w \in Slot :
              /\ \A j, k \in DOMAIN outbox[w] :
                    outbox[w][j].run[2] = outbox[w][k].run[2] => j = k
              /\ ItemsIn(outbox[w]) \cap ItemsIn(delivered) = {}
              /\ \A v \in Slot \ {w} :
                    ItemsIn(outbox[w]) \cap ItemsIn(outbox[v]) = {}
              /\ Holding(w) =>
                    /\ item[w] \notin ItemsIn(delivered)
                    /\ \A v \in Slot : item[w] \notin ItemsIn(outbox[v])
                    /\ \A v \in Slot \ {w} : Holding(v) => item[w] # item[v]

\* A worker never waits on an empty queue: there is a sentinel left for every
\* worker that has not taken one, whatever the others died of.
NeverBlockedOnEmpty ==
    \A w \in Slot : phase[w] = "fetch" => task_queue[QueueOf(w)] # <<>>

\* A worker that ends normally leaves no item of its size in the queue.
SentinelsLast ==
    \A w \in Slot : exitcode[w] = "ok" =>
        \A k \in DOMAIN task_queue[QueueOf(w)] :
            task_queue[QueueOf(w)][k] = None

\* At most one worker is inside the Docker cleanup, also after a worker died
\* in it.
CleanupExclusive ==
    \A w \in Slot : phase[w] = "locked" => cleanup_lock = w

\* A result that reports no error means that no resource of its run is left,
\* from the moment the worker posts it.  A task that was given up and still runs
\* breaks this, so it is stated where no task is ("timeout" \notin Faults) and
\* refuted where one may be.
ReportedClean ==
    \A result \in PostedResults : ~Fatal(result) => result.run \notin docker

\* A normal return means that every item ran and reported no error.
ReturnedComplete ==
    parent = "returned" =>
        /\ ItemsIn(results) = Item
        /\ \A k \in DOMAIN results : ~Fatal(results[k])

\* The two verdicts about dead workers are never a false alarm: a worker was
\* killed, and no result that reached the pipe was left unread.
NoFalseAlarm ==
    raised \in {"exited", "exitcode"} =>
        /\ result_queue = <<>>
        /\ \E w \in Slot : exitcode[w] = "killed"

\* A worker's failure goes through a result, a buffer and a pipe, while its worker
\* ends or is killed, before the parent rebuilds an exception from it.  What the
\* caller gets is still what happened in the worker that posted the last result
\* read: a WorkerError exactly when the benchmark raised, with the cleanup's error
\* exactly when the cleanup failed too, a CleanupError when only the cleanup did;
\* and that worker took no further item.
WorkerErrorSurfaces ==
    raised \in WorkerRaised =>
        /\ results # <<>>
        /\ LET last == results[Len(results)]
               w == last.run[1]
           IN  /\ RunOf(w) = last.run
               /\ raised # "CleanupError" <=> primary_error[w]
               /\ raised # "WorkerError" <=> cleanup_error[w]

\* Once an exception is being raised neither the shutdown nor the final cleanup
\* replaces it, and it is the one the caller gets.
PrimaryPreserved ==
    [][raised # "none" => raised' = raised /\ parent' # "returned"]_vars

\* The metadata of a reported run is missing only when its worker was killed:
\* by a crash or by the parent's own shutdown after a join that timed out
\* (stated where the store does not fail, "store" \notin Faults).
MetadataLostOnlyByKill ==
    parent = "returned" =>
        \A k \in DOMAIN results :
            \/ results[k].run \in recorded
            \/ exitcode[results[k].run[1]] = "killed"

\* When the parent returns, no worker process and no resource of the point is
\* left (where no task is given up, as for ReportedClean).
ReturnedClean ==
    parent = "returned" => docker = {} /\ \A w \in Slot : ~Alive(w)

\* What is reported, and what is returned, is clean and on record.
LeavesNothing == ReportedClean /\ MetadataLostOnlyByKill /\ ReturnedClean

\* Seen by its caller, the orchestrator is a StreamPoint.
Outcome ==
    IF raised # "none" THEN "failed"
    ELSE IF parent = "returned" THEN "returned" ELSE "running"

Point == INSTANCE StreamPoint WITH done <- ItemsIn(results), outcome <- Outcome

ImplementsPoint == Point!Spec

\* The parent ends, whatever the workers do and wherever they die: at the latest
\* when the supervision deadline has passed.
ParentTerminates == ClockFairness => <>Terminated

\* It does not take the deadline: when workers and tasks go on, and none is
\* killed, the run returns or an exception is raised.
Killed == \E w \in Slot : exitcode[w] = "killed"
RunReturns ==
    WorkerFairness =>
        <>(parent = "returned" \/ raised # "none" \/ expired \/ Killed)
===============================================================================
