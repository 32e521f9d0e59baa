------------------------------- MODULE RunDriver -------------------------------
(***************************************************************************)
(* run_benchmark (run_driver.py): the loop that runs the tasks of one run  *)
(* id.  The driver's thread opens a span for a task, submits the task to a *)
(* pool of ONE thread and waits for it with a timeout.  Python cannot stop *)
(* a thread: a task that timed out goes on running, and the tasks that are *)
(* submitted after it wait behind it.  When the loop is over the context   *)
(* is stopped, which stores the measurements, and a second transaction     *)
(* stores the results and the status.  shutdown(wait=False) lets go of the *)
(* pool; the interpreter joins its thread at exit.                         *)
(*                                                                         *)
(* The process may die at any step, and the same run id may be run again.  *)
(***************************************************************************)
EXTENDS RunContext, TLC

CONSTANTS
    NumTasks,    \* len(specs); task i is the i-th spec
    TaskResult,  \* what run_task may return, records of ResultType
    Attempts,    \* bound: how often the run id is run
    Faults,      \* what may go wrong, a subset of FaultKind
    Null         \* SQL NULL, and "no task"

Task == 1 .. NumTasks
ResultType == [passed : BOOLEAN, error : BOOLEAN, oracle_run : BOOLEAN]
FaultKind == {"timeout", "raise", "agent", "store", "crash"}

ASSUME TasksAssumption == NumTasks \in Nat
ASSUME ResultsAssumption == TaskResult \subseteq ResultType
ASSUME AttemptsAssumption == Attempts \in Nat \ {0}
ASSUME FaultsAssumption == Faults \subseteq FaultKind
ASSUME NullAssumption == Null \notin Int \cup {"complete"}

\* The spans of a task: the driver's own, and those that the task opens on
\* the pool thread (the turns of the agent are one span here).
Phases == {"admit", "turns", "commit"}
SpanId == Task \X ({"task"} \cup Phases)

ASSUME SpansAssumption == Span = SpanId /\ Thread = {"driver", "pool"}

VARIABLES
    \* the driver's thread, beside the variables of RunContext
    pc,                  \* where run_benchmark is
    i,                   \* the task of the current iteration
    outcome,             \* what the driver saw of each task
    passed, execution_failures, oracle_failures,
    analysis,            \* the spans the analyzers judged
    \* the pool
    future,              \* state of each task's future, or its result
    step,                \* where the running task is, "idle" if there is none
    answer,              \* what run_task returns once it has torn down
    \* the store, and what the environment did
    rows, attempt,
    \* history: whose work went on while each task's span was open
    under

INSTANCE ResultStore

driverVars == <<pc, i, outcome, passed, execution_failures, oracle_failures,
                analysis>>
poolVars == <<future, step, answer>>
vars == <<ctxVars, driverVars, poolVars, rows, attempt, under>>

\* What run_task returns when the agent's invoker raises.
AgentError == [passed |-> FALSE, error |-> TRUE, oracle_run |-> FALSE]
Results == TaskResult \cup {AgentError}

\* A future that has no result, and what becomes of a task without one.
New == [mark |-> "new"]
Queued == [mark |-> "queued"]
RunningNow == [mark |-> "running"]
Raised == [mark |-> "raised"]
Timeout == [mark |-> "timeout"]
Waiting == {New, Queued, RunningNow}
Outcome == Results \cup {New, Raised, Timeout}

Running == {t \in Task : future[t] = RunningNow}
Done(t) == future[t] \notin Waiting
Ok(t) == outcome[t] \in Results /\ outcome[t].passed

TypeOK ==
    /\ CtxTypeOK
    /\ pc \in {"enter", "loop", "wait", "close", "stop", "persist", "analyze",
               "complete", "returned", "raised", "exited", "dead"}
    /\ i \in 1 .. NumTasks + 1
    /\ outcome \in [Task -> Outcome]
    /\ passed \in Nat /\ execution_failures \in Nat /\ oracle_failures \in Nat
    /\ analysis \subseteq SpanId
    /\ future \in [Task -> Waiting \cup Results \cup {Raised}]
    /\ step \in {"idle", "admitted", "solved", "teardown"} \cup Phases
    /\ answer \in Results \cup {Raised, Null}
    /\ attempt \in 1 .. Attempts
    /\ under \in [Task -> SUBSET Task]

-------------------------------------------------------------------------------
Init ==
    /\ CtxInit
    /\ pc = "enter"
    /\ i = 1
    /\ outcome = [t \in Task |-> New]
    /\ passed = 0 /\ execution_failures = 0 /\ oracle_failures = 0
    /\ analysis = {}
    /\ future = [t \in Task |-> New]
    /\ step = "idle"
    /\ answer = Null
    /\ under = [t \in Task |-> {}]
    /\ rows = NoRows
    /\ attempt = 1

-------------------------------------------------------------------------------
(* The driver's thread. *)

Enter ==
    /\ pc = "enter"
    /\ CtxStart
    /\ pc' = "loop"
    /\ UNCHANGED <<registry, records, step_traces, json, i, outcome, passed,
                   execution_failures, oracle_failures, analysis, poolVars,
                   rows, attempt, under>>

Bug_OneTooMany ==
    /\ pc = "loop"
    /\ i <= NumTasks + 1
    /\ SpanOpen("driver", <<i, "task">>)
    /\ future' = [t \in Task |-> IF t = i THEN Queued ELSE future[t]]
    /\ pc' = "wait"
    /\ UNCHANGED <<ctx_started, records, step_traces, json, i, outcome, passed,
                   execution_failures, oracle_failures, analysis, step, answer,
                   rows, attempt, under>>

Submit ==
    /\ pc = "loop"
    /\ i <= NumTasks
    /\ SpanOpen("driver", <<i, "task">>)
    /\ future' = [future EXCEPT ![i] = Queued]
    /\ pc' = "wait"
    /\ UNCHANGED <<ctx_started, records, step_traces, json, i, outcome, passed,
                   execution_failures, oracle_failures, analysis, step, answer,
                   rows, attempt, under>>

Bug_NotWaiting ==
    /\ pc = "wait"
    /\ outcome' = [outcome EXCEPT ![i] = IF Done(i) THEN future[i] ELSE Raised]
    /\ pc' = "close"
    /\ UNCHANGED <<ctxVars, i, passed, execution_failures, oracle_failures,
                   analysis, poolVars, rows, attempt, under>>

\* fut.result() returns or raises what the task did.
Answered ==
    /\ pc = "wait"
    /\ Done(i)
    /\ outcome' = [outcome EXCEPT ![i] = future[i]]
    /\ pc' = "close"
    /\ UNCHANGED <<ctxVars, i, passed, execution_failures, oracle_failures,
                   analysis, poolVars, rows, attempt, under>>

\* fut.result(timeout) gives up.  The future may be done by the time the
\* handler looks at it; only the log line tells.  An idle thread takes a task
\* long before any timeout, so the thread is busy with this task or another.
TimesOut ==
    /\ pc = "wait"
    /\ "timeout" \in Faults
    /\ ~Done(i) /\ step # "idle"
    /\ outcome' = [outcome EXCEPT ![i] = Timeout]
    /\ pc' = "close"
    /\ UNCHANGED <<ctxVars, i, passed, execution_failures, oracle_failures,
                   analysis, poolVars, rows, attempt, under>>

Failed(t) == outcome[t] \notin Results \/ outcome[t].error
OracleFailed(t) ==
    /\ ~Failed(t)
    /\ outcome[t].oracle_run
    /\ ~outcome[t].passed

Bug_LateAnswerCounts ==
    /\ pc = "close"
    /\ SpanClose("driver", <<i, "task">>)
    /\ passed' = passed + (IF Done(i) /\ future[i] # Raised /\ future[i].passed
                           THEN 1 ELSE 0)
    /\ execution_failures' = execution_failures + (IF Failed(i) THEN 1 ELSE 0)
    /\ oracle_failures' = oracle_failures + (IF OracleFailed(i) THEN 1 ELSE 0)
    /\ i' = i + 1
    /\ pc' = "loop"
    /\ UNCHANGED <<ctx_started, step_traces, json, outcome, analysis, poolVars,
                   rows, attempt, under>>

\* The span is closed, then the outcome is counted.
Account ==
    /\ pc = "close"
    /\ SpanClose("driver", <<i, "task">>)
    /\ passed' = passed + (IF Ok(i) THEN 1 ELSE 0)
    /\ execution_failures' = execution_failures + (IF Failed(i) THEN 1 ELSE 0)
    /\ oracle_failures' = oracle_failures + (IF OracleFailed(i) THEN 1 ELSE 0)
    /\ i' = i + 1
    /\ pc' = "loop"
    /\ UNCHANGED <<ctx_started, step_traces, json, outcome, analysis, poolVars,
                   rows, attempt, under>>

Leave ==
    /\ pc = "loop"
    /\ i > NumTasks
    /\ CtxStop
    /\ pc' = "persist"
    /\ UNCHANGED <<registry, records, step_traces, i, outcome, passed,
                   execution_failures, oracle_failures, analysis, poolVars,
                   rows, attempt, under>>

-------------------------------------------------------------------------------
(* The two transactions. *)

Stamp(set) == [key \in set |-> attempt]
StartMetadata == [status |-> Null, total_tasks |-> Null, passed_tasks |-> Null,
                  benchmark_id |-> "terminal-bench", extra |-> "start"]
CompleteMetadata ==
    [status |-> "complete", total_tasks |-> NumTasks, passed_tasks |-> passed,
     benchmark_id |-> "terminal-bench",
     extra |-> [execution_failures |-> execution_failures,
                oracle_failures |-> oracle_failures]]
TaskRows == [t \in Task |-> [passed |-> Ok(t), attempt |-> attempt]]

\* RunContext.stop(): measurements and spans; a failure is only logged.
PersistMeasurements ==
    /\ pc = "persist"
    /\ \/ rows' = persist_run(rows, StartMetadata, EmptyTable,
                              Stamp(records), Stamp(step_traces), EmptyTable,
                              EmptyTable)
       \/ "store" \in Faults /\ UNCHANGED rows
    /\ pc' = "analyze"
    /\ UNCHANGED <<ctxVars, i, outcome, passed, execution_failures,
                   oracle_failures, analysis, poolVars, attempt, under>>

Analyze ==
    /\ pc = "analyze"
    /\ analysis' = {record[2] : record \in records}
    /\ pc' = "complete"
    /\ UNCHANGED <<ctxVars, i, outcome, passed, execution_failures,
                   oracle_failures, poolVars, rows, attempt, under>>

Bug_ResultsAfterStatus ==
    /\ pc = "complete"
    /\ \/ /\ rows' = persist_run(rows, CompleteMetadata, EmptyTable, EmptyTable,
                                 EmptyTable, Stamp(analysis), EmptyTable)
          /\ pc' = "returned"
       \/ "store" \in Faults /\ pc' = "raised" /\ UNCHANGED rows
    /\ UNCHANGED <<ctxVars, i, outcome, passed, execution_failures,
                   oracle_failures, analysis, poolVars, attempt, under>>

Bug_ShutdownWaits ==
    /\ pc = "complete"
    /\ \A t \in Task : Done(t)
    /\ \/ /\ rows' = persist_run(rows, CompleteMetadata, TaskRows, EmptyTable,
                                 EmptyTable, Stamp(analysis), EmptyTable)
          /\ pc' = "returned"
       \/ "store" \in Faults /\ pc' = "raised" /\ UNCHANGED rows
    /\ UNCHANGED <<ctxVars, i, outcome, passed, execution_failures,
                   oracle_failures, analysis, poolVars, attempt, under>>

\* Results, verdicts and the status "complete"; a failure is raised.
PersistResults ==
    /\ pc = "complete"
    /\ \/ /\ rows' = persist_run(rows, CompleteMetadata, TaskRows, EmptyTable,
                                 EmptyTable, Stamp(analysis), EmptyTable)
          /\ pc' = "returned"
       \/ "store" \in Faults /\ pc' = "raised" /\ UNCHANGED rows
    /\ UNCHANGED <<ctxVars, i, outcome, passed, execution_failures,
                   oracle_failures, analysis, poolVars, attempt, under>>

\* The interpreter joins the pool's thread before the process exits.
Exit ==
    /\ pc \in {"returned", "raised"}
    /\ \A t \in Task : future[t] \notin {Queued, RunningNow}
    /\ pc' = "exited"
    /\ UNCHANGED <<ctxVars, i, outcome, passed, execution_failures,
                   oracle_failures, analysis, poolVars, rows, attempt, under>>

-------------------------------------------------------------------------------
(* The pool's thread runs the submitted tasks in order.  Each of its steps  *)
(* is work that the probes charge to the span the driver has open.          *)

OpenSpan == IF pc \in {"wait", "close"} THEN {i} ELSE {}
WorkOf(t) ==
    under' = [s \in Task |-> IF s \in OpenSpan THEN under[s] \cup {t}
                                               ELSE under[s]]

Begin(t) ==
    /\ step = "idle"
    /\ future[t] = Queued
    /\ \A s \in Task : future[s] = Queued => t <= s
    /\ future' = [future EXCEPT ![t] = RunningNow]
    /\ SpanOpen("pool", <<t, "admit">>)
    /\ step' = "admit"
    /\ WorkOf(t)
    /\ UNCHANGED <<ctx_started, records, step_traces, json, driverVars, answer,
                   rows, attempt>>

EndPhase(t, phase, next, result) ==
    /\ step = phase
    /\ t \in Running
    /\ SpanClose("pool", <<t, phase>>)
    /\ step' = next
    /\ answer' = result
    /\ WorkOf(t)
    /\ UNCHANGED <<ctx_started, json, driverVars, future, rows, attempt>>

\* The environment is started and set up; either may raise.
Admit(t) ==
    /\ \/ EndPhase(t, "admit", "admitted", answer)
       \/ "raise" \in Faults /\ EndPhase(t, "admit", "teardown", Raised)
    /\ UNCHANGED step_traces

\* The agent's turns.  The loop hands over its traces whether or not it
\* failed; when the invoker itself raises there are none and no oracle runs.
Turns(t) ==
    \/ EndPhase(t, "turns", "solved", answer) /\ AddStepTraces(<<t, "turns">>)
    \/ /\ "agent" \in Faults
       /\ EndPhase(t, "turns", "teardown", AgentError)
       /\ UNCHANGED step_traces

\* The oracle's verdict, or what the agent says of itself, is the result.
Commit(t) ==
    /\ \/ \E result \in TaskResult : EndPhase(t, "commit", "teardown", result)
       \/ "raise" \in Faults /\ EndPhase(t, "commit", "teardown", Raised)
    /\ UNCHANGED step_traces

OpenPhase(t) ==
    /\ t \in Running
    /\ \/ step = "admitted" /\ step' = "turns"
       \/ step = "solved" /\ step' = "commit"
    /\ SpanOpen("pool", <<t, step'>>)
    /\ WorkOf(t)
    /\ UNCHANGED <<ctx_started, records, step_traces, json, driverVars, future,
                   answer, rows, attempt>>

Bug_AnswerLost(t) ==
    /\ step = "teardown"
    /\ t \in Running
    /\ answer' = Null
    /\ step' = "idle"
    /\ WorkOf(t)
    /\ UNCHANGED <<ctxVars, driverVars, future, rows, attempt>>

\* run_task's finally clause tears the environment down; then the future is
\* answered and the pool's thread takes the next task.
Finish(t) ==
    /\ step = "teardown"
    /\ t \in Running
    /\ future' = [future EXCEPT ![t] = answer]
    /\ answer' = Null
    /\ step' = "idle"
    /\ WorkOf(t)
    /\ UNCHANGED <<ctxVars, driverVars, rows, attempt>>

Work(t) == Begin(t) \/ Admit(t) \/ OpenPhase(t) \/ Turns(t) \/ Commit(t)
           \/ Finish(t)

-------------------------------------------------------------------------------
(* The process may be killed; the store keeps what was committed.  A run id *)
(* may be run again after that, or after a run that ended.                  *)

Crash ==
    /\ "crash" \in Faults
    /\ pc \notin {"dead", "exited"}
    /\ pc' = "dead"
    /\ UNCHANGED <<ctxVars, i, outcome, passed, execution_failures,
                   oracle_failures, analysis, poolVars, rows, attempt, under>>

RunAgain ==
    /\ pc \in {"dead", "exited"}
    /\ attempt < Attempts
    /\ attempt' = attempt + 1
    /\ ctx_started' = FALSE
    /\ registry' = [thread \in Thread |-> <<>>]
    /\ records' = {} /\ step_traces' = {} /\ json' = {} /\ analysis' = {}
    /\ pc' = "enter"
    /\ i' = 1
    /\ outcome' = [t \in Task |-> New]
    /\ passed' = 0 /\ execution_failures' = 0 /\ oracle_failures' = 0
    /\ future' = [t \in Task |-> New]
    /\ step' = "idle"
    /\ answer' = Null
    /\ under' = [t \in Task |-> {}]
    /\ UNCHANGED rows

Driver == Enter \/ Submit \/ Answered \/ TimesOut \/ Account \/ Leave
          \/ PersistMeasurements \/ Analyze \/ PersistResults \/ Exit

Next ==
    \/ Driver
    \/ pc # "dead" /\ \E t \in Task : Work(t)
    \/ Crash
    \/ RunAgain

Spec == Init /\ [][Next]_vars

\* The driver's thread keeps running and every wait of it has a timeout; the
\* pool's thread, when idle, takes the next task.
DriverFairness == WF_vars(Driver) /\ WF_vars(pc # "dead" /\ \E t \in Task : Begin(t))
\* A task ends by itself: the agent's turns and every command are bounded.
TaskFairness == WF_vars(pc # "dead" /\ \E t \in Task : Work(t))
FairSpec == Spec /\ DriverFairness

-------------------------------------------------------------------------------
TimedOut == {t \in Task : outcome[t] = Timeout}

\* Whatever runs while a task's span is open is charged to that span.  That is
\* the work of another task only if the other task was given up on before.
ForeignWorkOnlyAfterTimeout ==
    \A s, t \in Task : t \in under[s] /\ t # s => t < s /\ t \in TimedOut

\* A run row that says "complete" has a result for every task, all of one
\* attempt, and its passed_tasks agrees with them: whatever late answers,
\* crashes and earlier attempts of the run id there were.
CompleteIsWhole ==
    rows.status = "complete" =>
        /\ DOMAIN rows.task_results = Task
        /\ rows.total_tasks = NumTasks
        /\ rows.passed_tasks =
               Cardinality({t \in Task : rows.task_results[t].passed})
        /\ \A s, t \in Task :
               rows.task_results[s].attempt = rows.task_results[t].attempt

\* The counts a run reports are about the same tasks as its results: a task
\* the driver gave up on is an execution failure and not a pass, even when it
\* answers before the next line runs.
CountsMatchOutcomes ==
    LET seen == 1 .. i - 1
    IN  /\ passed = Cardinality({t \in seen : Ok(t)})
        /\ execution_failures = Cardinality({t \in seen : Failed(t)})
        /\ TimedOut \cap {t \in seen : ~Failed(t)} = {}

\* Unless a transaction failed, a stored result is never newer than the stored
\* measurements of the task's own span: they are committed first, and an
\* attempt that is run again replaces them.
ResultsHaveMeasurements ==
    "store" \notin Faults =>
        \A t \in DOMAIN rows.task_results, p \in Probe \ FlakyProbe :
            /\ <<p, <<t, "task">>>> \in DOMAIN rows.measurements
            /\ rows.measurements[<<p, <<t, "task">>>>] >= rows.task_results[t].attempt

\* A run that is stored as complete has all its results and their measurements.
StoredIsWhole == CompleteIsWhole /\ ResultsHaveMeasurements

\* Once the context is stopped, and no task was given up on, nothing is left
\* running: no span is open, and the records in memory, which the analyzers
\* judge and the store receives, are those in the JSON file.
QuietAfterStop ==
    pc \in {"persist", "analyze", "complete", "returned"} /\ TimedOut = {} =>
        /\ Running = {}
        /\ AllActive = {}
        /\ json = records

\* One bad task is not a dead run: run_benchmark ends, also when a task never
\* does.
DriverReturns == <>(pc \in {"returned", "raised", "exited", "dead"})

\* When every task ends in the end, so does the process, which joins the
\* tasks that run_benchmark gave up on.
ProcessExits == TaskFairness => <>(pc \in {"exited", "dead"})

\* timeout_s is a per-task cap: a task that is reported as timed out has run.
TimedOutTaskRan ==
    pc = "close" /\ i \in TimedOut => future[i] # Queued
===============================================================================
