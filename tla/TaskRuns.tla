-------------------------------- MODULE TaskRuns --------------------------------
(***************************************************************************)
(* One Terminal-Bench task after the other: the adapter's run_task         *)
(* (benchmarks/terminal_bench/adapter.py) and the environments it drives   *)
(* (environment.py, harbor_environment.py, prebuild.py).  Workers run at   *)
(* the same time, each with its own run id, which names the container of   *)
(* all its tasks, and share the images of the host.                        *)
(***************************************************************************)
EXTENDS Integers, Sequences, FiniteSets, SequencesExt

CONSTANTS
    TaskIds,
    Workers,
    Workloads,      \* what each worker has to do: functions to sequences of tasks
    Profiles,       \* what the tasks are: functions to TaskProfile
    MaxTroubles     \* bound on failures of the environment and on kills

TaskProfile == [kind : {"harbor", "inline", "plain"}, memory : Nat \ {0}, setup : BOOLEAN]

ASSUME TaskAssumption ==
    /\ \A load \in Workloads : load \in [Workers -> Seq(TaskIds)]
    /\ \A profile \in Profiles : profile \in [TaskIds -> TaskProfile]

VARIABLES
    profile,        \* what the tasks are
    sized,          \* task-sized streams: images pulled before, workers pinned
    todo,           \* per worker, the tasks left, the current first
    work,           \* per worker, where it is, its environment and what it knows
    container,      \* per run id, the container that Docker holds for it
    images,         \* the task images on the host
    reports,        \* per worker, the results of its tasks
    troubles

taskVars == <<profile, sized, todo, work, container, images, reports, troubles>>

\* A limit of 0 is none.
NoContainer == [task |-> "none", memory |-> 0]
AtRest == [pc |-> "idle", env |-> "none", memory |-> 0, claim |-> FALSE,
           outcome |-> [kind |-> "none"], stopFailed |-> FALSE]

Task(w) == Head(todo[w])
Profile(w) == profile[Task(w)]

TaskConfigs == [profile : Profiles, sized : BOOLEAN, todo : Workloads]

\* ensure_task_images: in a task-sized run every image is there before the first
\* task starts; otherwise one is built when its task starts, by a single worker.
TaskFrom(config) ==
    /\ profile = config.profile /\ sized = config.sized /\ todo = config.todo
    /\ work = [w \in Workers |-> AtRest]
    /\ container = [w \in Workers |-> NoContainer]
    /\ images = IF sized THEN {t \in TaskIds : profile[t].kind = "harbor"} ELSE {}
    /\ reports = [w \in Workers |-> <<>>]
    /\ troubles = 0
    /\ IF sized THEN \A t \in TaskIds : profile[t].kind = "harbor"
                ELSE Cardinality({w \in Workers : todo[w] # <<>>}) <= 1

TaskInit == \E config \in TaskConfigs : TaskFrom(config)

Now(w, s) == work' = [work EXCEPT ![w] = s]
Goes(w, pc) == Now(w, [work[w] EXCEPT !.pc = pc])

\* The task ends with this outcome, once its environment is torn down.
Ends(w, outcome) == Now(w, [work[w] EXCEPT !.pc = "teardown", !.outcome = outcome])
Bug_NoOutcome == [kind |-> "none"]

Raised == [kind |-> "raised"]

Trouble == troubles < MaxTroubles /\ troubles' = troubles + 1

-------------------------------------------------------------------------------
(* Admission: the environment is made, pinned, started and set up.          *)

\* _make_environment: the Harbor handle is found under extra["raw"].
EnvironmentFor(w) == IF Profile(w).kind = "harbor" THEN "harbor" ELSE "standalone"

Bug_PinsWorkerMemory(w) == 0

\* _pin_environment: the worker's CPUs, and the memory this task declares.
PinnedMemory(w) == IF sized THEN Profile(w).memory ELSE 0

Bug_WaitsForStop(w) == work[w].pc = "idle" /\ todo[w] # <<>> /\ ~work[w].stopFailed

\* The driver has a next task for this worker.
TaskReady(w) == work[w].pc = "idle" /\ todo[w] # <<>>

\* A standalone environment cannot be pinned.
MakeEnvironment(w) ==
    /\ TaskReady(w)
    /\ IF sized /\ EnvironmentFor(w) = "standalone"
       THEN Ends(w, Raised)
       ELSE Now(w, [work[w] EXCEPT !.pc = "start", !.env = EnvironmentFor(w),
                                   !.memory = PinnedMemory(w)])
    /\ UNCHANGED <<profile, sized, todo, container, images, reports, troubles>>

StartStandalone(w) ==
    /\ work[w].pc = "start" /\ work[w].env = "standalone"
    /\ Goes(w, "setup")
    /\ UNCHANGED <<profile, sized, todo, container, images, reports, troubles>>

\* start: the container of this run id is created, with the limits, from an image
\* that is built or present; then the tests are uploaded.  It may fail before
\* there is anything to stop, or later.
StartHarbor(w) ==
    /\ work[w].pc = "start" /\ work[w].env = "harbor"
    /\ \/ /\ Trouble /\ UNCHANGED <<container, images>>
          /\ Now(w, [work[w] EXCEPT !.pc = "teardown", !.env = "none", !.outcome = Raised])
       \/ /\ images' = images \cup {Task(w)}
          /\ container' = [container EXCEPT ![w] = [task |-> Task(w), memory |-> work[w].memory]]
          /\ \/ Goes(w, "setup") /\ UNCHANGED troubles
             \/ Trouble /\ Ends(w, Raised)
    /\ UNCHANGED <<profile, sized, todo, reports>>

\* _run_setup stops at the first command that fails.
RunSetup(w) ==
    /\ work[w].pc = "setup"
    /\ \/ Goes(w, "agent") /\ UNCHANGED troubles
       \/ Profile(w).setup /\ Trouble /\ Ends(w, Raised)
    /\ UNCHANGED <<profile, sized, todo, container, images, reports>>

-------------------------------------------------------------------------------
(* The agent, the oracle and the score.                                     *)

Failed == [kind |-> "result", passed |-> FALSE, scored |-> FALSE, truth |-> "none",
           claim |-> FALSE]

InvokeAgent(w) ==
    /\ work[w].pc = "agent"
    /\ \/ /\ \E claim \in BOOLEAN : Now(w, [work[w] EXCEPT !.pc = "oracle", !.claim = claim])
          /\ UNCHANGED troubles
       \/ Trouble /\ Ends(w, Failed)
    /\ UNCHANGED <<profile, sized, todo, container, images, reports>>

\* What the test script may leave behind, by what the tests found.  Reward files
\* may be absent, unreadable or hold no number; the report may hold no test at all.
Left(truth) ==
    LET verdict == IF truth = "passed" THEN {"pos"} ELSE {"neg"}
    IN  [json : {"none", "bad", "novalue"} \cup verdict, text : {"none", "bad"} \cup verdict,
         ctrf : {"none", "bad"} \cup verdict \cup (IF truth = "passed" THEN {} ELSE {"empty"})]

Bug_NoFailureIsAPass(report) ==
    IF report \in {"pos", "empty"} THEN "passed" ELSE IF report = "neg" THEN "failed" ELSE "unknown"

\* _read_ctrf_verdict: a pass needs a test that ran.
CtrfVerdict(report) ==
    CASE report = "pos" -> "passed" [] report = "neg" -> "failed" [] OTHER -> "unknown"

\* _read_reward_verdict: reward.json, then reward.txt, then the report of pytest.
RewardVerdict(files) ==
    LET Read(content) == IF content = "pos" THEN "passed" ELSE "failed"
    IN  IF files.json \in {"pos", "neg"} THEN Read(files.json)
        ELSE IF files.text \in {"pos", "neg"} THEN Read(files.text)
        ELSE CtrfVerdict(files.ctrf)

\* _score: the oracle decides, and without a verdict the agent's own word.
Score(w, verdict, truth) ==
    [kind |-> "result", scored |-> verdict # "unknown", truth |-> truth, claim |-> work[w].claim,
     passed |-> IF verdict = "unknown" THEN work[w].claim ELSE verdict = "passed"]

\* _run_oracle: a Harbor task has a script whose verdict is in files, and which may
\* be missing; an inline oracle answers with its exit code; some tasks have none.
RunOracle(w) ==
    /\ work[w].pc = "oracle"
    /\ \/ /\ Profile(w).kind = "plain"
          /\ Ends(w, Score(w, "unknown", "none")) /\ UNCHANGED troubles
       \/ /\ Profile(w).kind = "inline"
          /\ \E truth \in {"passed", "failed"} : Ends(w, Score(w, truth, truth))
          /\ UNCHANGED troubles
       \/ /\ Profile(w).kind = "harbor"
          /\ \E truth \in {"passed", "failed"} : \E files \in Left(truth) :
                 Ends(w, Score(w, RewardVerdict(files), truth))
          /\ UNCHANGED troubles
       \/ /\ Profile(w).kind = "harbor"                 \* the script is missing
          /\ Trouble /\ Ends(w, Score(w, "unknown", "none"))
       \/ Profile(w).kind # "plain" /\ Trouble /\ Ends(w, Raised)
    /\ UNCHANGED <<profile, sized, todo, container, images, reports>>

-------------------------------------------------------------------------------
Bug_DeletesImages(w) == images \ {Task(w)}

\* stop(delete=force_build)
ImagesAfterStop(w) == IF sized THEN images ELSE images \ {Task(w)}

Bug_TeardownOfStarted(w) ==
    /\ work[w].pc = "teardown"
    /\ IF work[w].env = "harbor" /\ work[w].outcome # Raised
       THEN container' = [container EXCEPT ![w] = NoContainer] /\ images' = ImagesAfterStop(w)
       ELSE UNCHANGED <<container, images>>
    /\ reports' = [reports EXCEPT ![w] = Append(@, work[w].outcome)]
    /\ todo' = [todo EXCEPT ![w] = Tail(@)]
    /\ Now(w, AtRest) /\ UNCHANGED troubles
    /\ UNCHANGED <<profile, sized>>

\* _teardown_environment, after every outcome.  A stop that fails is only logged.
Teardown(w) ==
    /\ work[w].pc = "teardown"
    /\ \/ /\ IF work[w].env = "harbor"
             THEN container' = [container EXCEPT ![w] = NoContainer] /\ images' = ImagesAfterStop(w)
             ELSE UNCHANGED <<container, images>>
          /\ Now(w, [AtRest EXCEPT !.stopFailed = work[w].stopFailed /\ work[w].env # "harbor"])
          /\ UNCHANGED troubles
       \/ /\ work[w].env = "harbor" /\ Trouble
          /\ Now(w, [AtRest EXCEPT !.stopFailed = TRUE]) /\ UNCHANGED <<container, images>>
    /\ reports' = [reports EXCEPT ![w] = Append(@, work[w].outcome)]
    /\ todo' = [todo EXCEPT ![w] = Tail(@)]
    /\ UNCHANGED <<profile, sized>>

\* The worker's process is killed where it is.
KillWorker(w) ==
    /\ work[w].pc \notin {"idle", "killed"} /\ Trouble
    /\ Goes(w, "killed")
    /\ UNCHANGED <<profile, sized, todo, container, images, reports>>

Works(w) == \/ MakeEnvironment(w) \/ StartStandalone(w) \/ StartHarbor(w) \/ RunSetup(w)
            \/ InvokeAgent(w) \/ RunOracle(w) \/ Teardown(w)

TaskNext == \E w \in Workers : Works(w) \/ KillWorker(w)

\* Every command in an environment has a timeout, and so has its stop.
TaskFairness == \A w \in Workers : WF_taskVars(Works(w))
TaskSpec == TaskInit /\ [][TaskNext]_taskVars /\ TaskFairness

-------------------------------------------------------------------------------
(* Properties. *)

TaskTypeOK ==
    /\ container \in [Workers -> [task : TaskIds \cup {"none"}, memory : Nat]]
    /\ images \subseteq TaskIds
    /\ \A w \in Workers :
           /\ work[w].pc \in {"idle", "start", "setup", "agent", "oracle", "teardown", "killed"}
           /\ work[w].env \in {"none", "harbor", "standalone"}
           /\ \A i \in DOMAIN reports[w] : reports[w][i].kind \in {"raised", "result"}

\* The commands of the agent and of the tests run in a container of the very task,
\* limited to the memory it declares, whatever an earlier task of the run left; the
\* commands of a Harbor task never run on the host.
OwnContainer ==
    \A w \in Workers :
        work[w].pc \in {"setup", "agent", "oracle"} /\ Profile(w).kind = "harbor" =>
            /\ work[w].env = "harbor"
            /\ container[w].task = Task(w)
            /\ sized => container[w].memory = Profile(w).memory

\* A worker between two tasks, or at its end, holds no container, unless the stop
\* of one failed: a start that fails halfway is cleaned up as well.
NothingLeftRunning ==
    \A w \in Workers :
        work[w].pc = "idle" /\ ~work[w].stopFailed => container[w] = NoContainer

\* A task counts as scored only by what its tests found, and then with their
\* verdict; otherwise its result is the agent's own claim.
VerdictNotInvented ==
    \A w \in Workers : \A i \in DOMAIN reports[w] :
        LET r == reports[w][i]
        IN  r.kind = "result" => IF r.scored THEN r.passed = (r.truth = "passed")
                                             ELSE r.passed = r.claim

\* A task-sized run measures no image pull or build: what was pulled before the
\* first task is there until the last, whichever worker stops its container.
PulledImagesStay ==
    sized => \A w \in Workers : \A i \in DOMAIN todo[w] : todo[w][i] \in images

\* Every worker that is not killed works through all its tasks.
TasksEnd == <>(\A w \in Workers : todo[w] = <<>> \/ work[w].pc = "killed")
===============================================================================
