------------------------------- MODULE TauRuns -------------------------------
(***************************************************************************)
(* experiments/scaling/launch_vllm_taubench: a server, and for each density *)
(* EMON and that many agents, threads of one process.  An agent has a      *)
(* TauBenchAdapter and a LatencyRecorder of its own, but the lock of the   *)
(* recorders, the patches of tau2 and sys.argv belong to the process.      *)
(*                                                                         *)
(* tau2 is external: it reads sys.argv when it starts, runs a simulation   *)
(* of the task it finds there, and may raise.                              *)
(***************************************************************************)
EXTENDS Integers, Sequences, SequencesExt

CONSTANTS
    TauLaunches,    \* [densities: Seq(Nat), tasks: Seq, tau2, server: BOOLEAN]
    MaxTauAgents, \* bound on the agents of a density
    MaxTauTasks, \* bound on the tasks of an agent
    Occurs,      \* pairs <<task, sim>>: the id occurs in the key of the simulation
    MaxTauCalls, \* bound on the model's calls in a simulation
    MaxTauFaults \* tau2 raises, a process cannot be stopped in time

TauAgents == 1 .. MaxTauAgents
AllSims == TauAgents \X (1 .. MaxTauTasks)

ASSUME TauAssumption ==
    /\ \A l \in TauLaunches : \A k \in DOMAIN l.densities : l.densities[k] \in TauAgents
    /\ \A l \in TauLaunches :
           Len(l.tasks) \in 1 .. MaxTauTasks /\ DOMAIN l.tasks = 1 .. Len(l.tasks)
    /\ MaxTauAgents \in Nat /\ MaxTauTasks \in Nat /\ MaxTauCalls \in Nat /\ MaxTauFaults \in Nat

VARIABLES
    launch,      \* the command line, the densities that are left, the driver's step
    running,     \* the processes it runs: "vllm", "emon"
    tau,         \* agent -> its step, its task, the argv it saved, the patches it read
    latencyLock, \* the agent that holds _LATENCY_LOCK, or 0
    hooks,       \* the recorders that a call of tau2 goes through
    argv,        \* sys.argv: the simulation it asks for, or <<0, 0>>, the launcher's
    recorders,   \* agent -> its _data, in order of insertion
    tauReports,     \* agent -> its results
    made,        \* history: simulation -> the calls it made
    replaced,    \* history: agents whose patches another replaced after reading older ones
    crossed,     \* history: sys.argv was set while another agent had set it
    tauFaults

tauVars == <<launch, running, tau, latencyLock, hooks, argv, recorders, tauReports, made,
             replaced, crossed, tauFaults>>

Launcher == <<0, 0>>
NoData == [task |-> "none", sim |-> Launcher, calls |-> 0, status |-> "none"]
TauSteps == {"idle", "read", "patch", "argv", "parse", "enter", "calls", "restore", "look",
             "dump", "summary", "ended"}
At(a, step) == tau[a].pc = step
Here(a) == <<a, tau[a].k>>
NewAgent == [pc |-> "idle", k |-> 1, saved |-> Launcher, chain |-> <<>>, asked |-> Launcher,
             status |-> "ok"]

TauTypeOK ==
    /\ launch.pc \in {"boot", "density", "emon", "agents", "stop", "finally", "ended"}
    /\ running \subseteq {"vllm", "emon"}
    /\ \A a \in TauAgents : tau[a].pc \in TauSteps /\ tau[a].k \in DOMAIN launch.tasks
    /\ latencyLock \in {0} \cup TauAgents
    /\ argv \in {Launcher} \cup AllSims
    /\ tauFaults \in 0 .. MaxTauFaults
    \* No recorder has two entries of a simulation.
    /\ \A a \in TauAgents : \A i, j \in DOMAIN recorders[a] :
           recorders[a][i].sim = recorders[a][j].sim => i = j

TauFrom(l) ==
    /\ launch = [tasks |-> l.tasks, tau2 |-> l.tau2, server |-> l.server,
                 left |-> l.densities, pc |-> "boot", failed |-> FALSE]
    /\ running = {}
    /\ tau = [a \in TauAgents |-> NewAgent]
    /\ latencyLock = 0 /\ hooks = <<>> /\ argv = Launcher
    /\ recorders = [a \in TauAgents |-> <<>>]
    /\ tauReports = [a \in TauAgents |-> <<>>]
    /\ made = [s \in AllSims |-> 0]
    /\ replaced = {} /\ crossed = FALSE /\ tauFaults = 0

TauInit == \E l \in TauLaunches : TauFrom(l)

TauFault == tauFaults < MaxTauFaults /\ tauFaults' = tauFaults + 1
marks == <<replaced, crossed>>
agentState == <<tau, latencyLock, hooks, argv, recorders, tauReports, made, marks>>
TauGoes(a, step) == tau' = [tau EXCEPT ![a].pc = step]
DriverGoes(step) == launch' = [launch EXCEPT !.pc = step]

-------------------------------------------------------------------------------
(* The driver: main and _run_density.                                       *)

\* --start-vllm: the server comes up within the timeout, or main exits.
Boot ==
    /\ launch.pc = "boot"
    /\ running' = running \cup {p \in {"vllm"} : launch.server}
    /\ DriverGoes("density")
    /\ UNCHANGED <<agentState, tauFaults>>

VllmNeverReady ==
    /\ launch.pc = "boot" /\ launch.server /\ TauFault
    /\ launch' = [launch EXCEPT !.pc = "ended", !.failed = TRUE]
    /\ UNCHANGED <<running, agentState>>

NextTauDensity ==
    /\ launch.pc = "density" /\ launch.left # <<>>
    /\ DriverGoes("emon")
    /\ UNCHANGED <<running, agentState, tauFaults>>

(* _start_emon, and one thread per agent.  Without the emon binary there is *)
(* no collection.                                                           *)
StartAgents(found) ==
    /\ launch.pc = "emon"
    /\ running' = running \cup {p \in {"emon"} : found}
    /\ DriverGoes("agents")
    /\ tau' = [a \in TauAgents |->
           IF a > Head(launch.left) THEN [NewAgent EXCEPT !.pc = "ended"]
           ELSE [NewAgent EXCEPT !.pc = IF launch.tau2 THEN "read" ELSE "look"]]
    /\ recorders' = [a \in TauAgents |-> <<>>]
    /\ tauReports' = [a \in TauAgents |-> <<>>]
    /\ made' = [s \in AllSims |-> 0]
    \* The patches of earlier agents reach recorders that nobody reads any more.
    /\ hooks' = <<>> /\ replaced' = {}
    /\ UNCHANGED <<latencyLock, argv, crossed, tauFaults>>

AgentsEnded ==
    /\ launch.pc = "agents" /\ \A a \in TauAgents : At(a, "ended")
    /\ DriverGoes("stop")
    /\ UNCHANGED <<running, agentState, tauFaults>>

StopTauEmon ==
    /\ launch.pc = "stop"
    /\ running' = running \ {"emon"}
    /\ launch' = [launch EXCEPT !.left = Tail(@),
                                !.pc = IF Len(launch.left) = 1 THEN "finally" ELSE "density"]
    /\ UNCHANGED <<agentState, tauFaults>>

\* `emon -stop` outlives its timeout: the exception ends the other densities.
StopEmonRaises ==
    /\ launch.pc = "stop" /\ "emon" \in running /\ TauFault
    /\ launch' = [launch EXCEPT !.pc = "finally", !.failed = TRUE]
    /\ UNCHANGED <<running, agentState>>

Bug_FinallyOnlyIfDone ==
    /\ launch.pc = "finally"
    /\ running' = IF launch.failed THEN running ELSE running \ {"vllm"}
    /\ DriverGoes("ended")
    /\ UNCHANGED <<agentState, tauFaults>>

(* The finally of main: terminate, and kill when it does not end.           *)
StopVllm ==
    /\ launch.pc = "finally"
    /\ running' = running \ {"vllm"}
    /\ DriverGoes("ended")
    /\ UNCHANGED <<agentState, tauFaults>>

-------------------------------------------------------------------------------
(* _install_tau2_patches: the functions of tau2 are read, then replaced by  *)
(* ones that call what was read.                                            *)
ReadPatches(a) ==
    /\ At(a, "read")
    /\ tau' = [tau EXCEPT ![a].pc = "patch", ![a].chain = hooks]
    /\ UNCHANGED <<launch, running, latencyLock, hooks, argv, recorders, tauReports, made,
                   marks, tauFaults>>

Bug_PatchReplaces(a) ==
    /\ At(a, "patch")
    /\ hooks' = <<a>>
    /\ replaced' = replaced \cup (ToSet(hooks) \ ToSet(tau[a].chain))
    /\ tau' = [tau EXCEPT ![a].pc = "argv", ![a].chain = <<>>]
    /\ UNCHANGED <<launch, running, latencyLock, argv, recorders, tauReports, made, crossed,
                   tauFaults>>

Patch(a) ==
    /\ At(a, "patch")
    /\ hooks' = Append(tau[a].chain, a)
    /\ replaced' = replaced \cup (ToSet(hooks) \ ToSet(tau[a].chain))
    /\ tau' = [tau EXCEPT ![a].pc = "argv", ![a].chain = <<>>]
    /\ UNCHANGED <<launch, running, latencyLock, argv, recorders, tauReports, made, crossed,
                   tauFaults>>

HasArgv(a) == tau[a].pc \in {"parse", "enter", "calls", "restore"}

(* _run_tau2_task saves sys.argv and sets it ...                            *)
SetArgv(a) ==
    /\ At(a, "argv")
    /\ argv' = Here(a)
    /\ tau' = [tau EXCEPT ![a].pc = "parse", ![a].saved = argv, ![a].status = "ok"]
    /\ crossed' = (crossed \/ \E b \in TauAgents \ {a} : HasArgv(b))
    /\ UNCHANGED <<launch, running, latencyLock, hooks, recorders, tauReports, made, replaced,
                   tauFaults>>

(* ... and tau2's main reads it.  The launcher's own arguments make it exit *)
(* with a code.                                                             *)
ParseArgv(a) ==
    /\ At(a, "parse")
    /\ tau' = [tau EXCEPT ![a].asked = argv,
                          ![a].pc = IF argv = Launcher THEN "restore" ELSE "enter",
                          ![a].status = IF argv = Launcher THEN "exit" ELSE "ok"]
    /\ UNCHANGED <<launch, running, latencyLock, hooks, argv, recorders, tauReports, made,
                   marks, tauFaults>>

AskedTask(a) == launch.tasks[tau[a].asked[2]]

Bug_AlwaysNew(data, task, sim) ==
    Append(data, [task |-> task, sim |-> sim, calls |-> 0, status |-> "none"])

(* _ensure: the entry of a simulation, new at the end when there is none.   *)
Ensure(data, task, sim) ==
    IF \E i \in DOMAIN data : data[i].sim = sim THEN data
    ELSE Append(data, [task |-> task, sim |-> sim, calls |-> 0, status |-> "none"])

\* record_llm, record_tool: one call more in the entry of the simulation.
Counted(data, task, sim) ==
    LET kept == Ensure(data, task, sim)
    IN  [i \in DOMAIN kept |-> IF kept[i].sim = sim THEN [kept[i] EXCEPT !.calls = @ + 1]
                               ELSE kept[i]]

\* A patched function reaches the recorders it was chained with.
Recorded(added) ==
    recorders' = [b \in TauAgents |-> IF b \in ToSet(hooks) THEN added[b] ELSE recorders[b]]

(* patched_enter: start_sim. *)
EnterSim(a) ==
    /\ At(a, "enter") /\ latencyLock = 0
    /\ Recorded([b \in TauAgents |-> Ensure(recorders[b], AskedTask(a), Here(a))])
    /\ TauGoes(a, "calls")
    /\ UNCHANGED <<launch, running, latencyLock, hooks, argv, tauReports, made, marks,
                   tauFaults>>

(* patched_generate and patched_get_response, also for a call that raised.  *)
TauCall(a) ==
    /\ At(a, "calls") /\ latencyLock = 0 /\ made[Here(a)] < MaxTauCalls
    /\ Recorded([b \in TauAgents |-> Counted(recorders[b], AskedTask(a), Here(a))])
    /\ made' = [made EXCEPT ![Here(a)] = @ + 1]
    /\ UNCHANGED <<launch, running, tau, latencyLock, hooks, argv, tauReports, marks,
                   tauFaults>>

EndsSim(data, sim, status) ==
    [i \in DOMAIN data |-> IF data[i].sim = sim THEN [data[i] EXCEPT !.status = status]
                           ELSE data[i]]

(* patched_exit: end_sim. *)
ExitSim(a) ==
    /\ At(a, "calls") /\ latencyLock = 0
    /\ Recorded([b \in TauAgents |-> EndsSim(recorders[b], Here(a), "ok")])
    /\ TauGoes(a, "restore")
    /\ UNCHANGED <<launch, running, latencyLock, hooks, argv, tauReports, made, marks,
                   tauFaults>>

Bug_LockKeptOnError(a) ==
    /\ At(a, "calls") /\ latencyLock = 0 /\ TauFault
    /\ Recorded([b \in TauAgents |-> EndsSim(recorders[b], Here(a), "error")])
    /\ latencyLock' = a
    /\ tau' = [tau EXCEPT ![a].pc = "restore", ![a].status = "error"]
    /\ UNCHANGED <<launch, running, hooks, argv, tauReports, made, marks>>

ExitRaised(a) ==
    /\ At(a, "calls") /\ latencyLock = 0 /\ TauFault
    /\ Recorded([b \in TauAgents |-> EndsSim(recorders[b], Here(a), "error")])
    /\ tau' = [tau EXCEPT ![a].pc = "restore", ![a].status = "error"]
    /\ UNCHANGED <<launch, running, latencyLock, hooks, argv, tauReports, made, marks>>

Bug_ArgvKeptOnError(a) ==
    /\ At(a, "restore")
    /\ argv' = IF tau[a].status = "ok" THEN tau[a].saved ELSE argv
    /\ TauGoes(a, "look")
    /\ UNCHANGED <<launch, running, latencyLock, hooks, recorders, tauReports, made, marks,
                   tauFaults>>

RestoreArgv(a) ==
    /\ At(a, "restore")
    /\ argv' = tau[a].saved
    /\ TauGoes(a, "look")
    /\ UNCHANGED <<launch, running, latencyLock, hooks, recorders, tauReports, made, marks,
                   tauFaults>>

-------------------------------------------------------------------------------
(* The result.  No simulation has the id "0": the data are those of the     *)
(* first key in which the task id occurs.                                   *)
InKey(task, entry) == entry.task = task \/ <<task, entry.sim>> \in Occurs

Bug_AnyEntry(data, task) == IF data = <<>> THEN NoData ELSE Head(data)

SimData(data, task) ==
    LET found == {i \in DOMAIN data : InKey(task, data[i])}
    IN  IF found = {} THEN NoData ELSE data[CHOOSE i \in found : \A j \in found : i <= j]

Reported(a, passed, data) ==
    /\ tauReports' = [tauReports EXCEPT ![a] = Append(@,
           [task |-> launch.tasks[tau[a].k], asked |-> tau[a].asked, own |-> Here(a),
            passed |-> passed, data |-> data])]
    /\ tau' = [tau EXCEPT ![a] =
           IF tau[a].k = Len(launch.tasks) THEN [NewAgent EXCEPT !.pc = "dump"]
           ELSE [NewAgent EXCEPT !.k = tau[a].k + 1,
                                 !.pc = IF launch.tau2 THEN "argv" ELSE "look"]]

(* The exit status alone decides.                                           *)
LookUp(a) ==
    /\ At(a, "look") /\ launch.tau2 /\ latencyLock = 0
    /\ Reported(a, tau[a].status = "ok", SimData(recorders[a], launch.tasks[tau[a].k]))
    /\ UNCHANGED <<launch, running, latencyLock, hooks, argv, recorders, made, marks,
                   tauFaults>>

\* The loop over _data runs without the lock: another agent's simulation that is
\* entered meanwhile makes it raise, and run_task answers with the error.
LookRaises(a) ==
    /\ At(a, "look") /\ launch.tau2 /\ latencyLock = 0
    /\ a \in ToSet(hooks) /\ \E b \in TauAgents \ {a} : At(b, "enter")
    /\ recorders[a] # <<>>
    /\ Reported(a, FALSE, NoData)
    /\ UNCHANGED <<launch, running, latencyLock, hooks, argv, recorders, made, marks,
                   tauFaults>>

(* _run_task_fallback: without tau2 the launcher's invoker answers "".      *)
Fallback(a) ==
    /\ At(a, "look") /\ ~launch.tau2
    /\ Reported(a, TRUE, NoData)
    /\ UNCHANGED <<launch, running, latencyLock, hooks, argv, recorders, made, marks,
                   tauFaults>>

(* teardown: nothing to dump, ...                                           *)
TeardownEmpty(a) ==
    /\ At(a, "dump") /\ recorders[a] = <<>>
    /\ TauGoes(a, "ended")
    /\ UNCHANGED <<launch, running, latencyLock, hooks, argv, recorders, tauReports, made,
                   marks, tauFaults>>

(* ... or dump takes the lock and calls summary, which takes it: a          *)
(* threading.Lock.                                                          *)
TeardownDumps(a) ==
    /\ tau[a].pc \in {"dump", "summary"} /\ recorders[a] # <<>>
    /\ latencyLock = 0
    /\ IF At(a, "dump") THEN latencyLock' = a /\ TauGoes(a, "summary")
                        ELSE latencyLock' = 0 /\ TauGoes(a, "ended")
    /\ UNCHANGED <<launch, running, hooks, argv, recorders, tauReports, made, marks, tauFaults>>

TauAgentStep(a) ==
    \/ ReadPatches(a) \/ Patch(a) \/ SetArgv(a) \/ ParseArgv(a) \/ EnterSim(a)
    \/ ExitSim(a) \/ RestoreArgv(a) \/ LookUp(a) \/ Fallback(a)
    \/ TeardownEmpty(a) \/ TeardownDumps(a)

TauDriverStep ==
    \/ Boot \/ NextTauDensity \/ AgentsEnded \/ StopTauEmon \/ StopVllm
    \/ \E found \in BOOLEAN : StartAgents(found)

TauNext ==
    \/ TauDriverStep \/ VllmNeverReady \/ StopEmonRaises
    \/ \E a \in TauAgents : TauAgentStep(a) \/ TauCall(a) \/ ExitRaised(a) \/ LookRaises(a)

\* The threads run by themselves, and so does the process.
TauSpec ==
    /\ TauInit /\ [][TauNext]_tauVars
    /\ \A a \in TauAgents : WF_tauVars(TauAgentStep(a))
    /\ WF_tauVars(TauDriverStep)

-------------------------------------------------------------------------------
(* The recorder of an agent has every call of the agent's own simulations,  *)
(* unless another agent put back patches it had read before: the chain of   *)
(* _install_tau2_patches, however many adapters patch tau2.                 *)
OwnCallsRecorded ==
    \A a \in TauAgents \ replaced : \A s \in {a} \X (1 .. MaxTauTasks) : made[s] > 0 =>
        \E i \in DOMAIN recorders[a] :
            recorders[a][i].sim = s /\ recorders[a][i].calls = made[s]

(* A task that is reported as passed is the one tau2 ran, and the launcher  *)
(* gets its sys.argv back, unless two agents had set theirs at once:        *)
(* _run_tau2_task on every way out of tau2.                                 *)
ArgvIsOwn ==
    (launch.tau2 /\ ~crossed) =>
        /\ \A a \in TauAgents : \A i \in DOMAIN tauReports[a] :
               tauReports[a][i].passed => tauReports[a][i].asked = tauReports[a][i].own
        /\ (\A a \in TauAgents : ~HasArgv(a)) => argv = Launcher

(* A result with the data of another simulation has a reason: the task id   *)
(* occurs in that simulation's key, or another agent ran the same task.     *)
ForeignDataHasReason ==
    ~crossed => \A a \in TauAgents : \A i \in DOMAIN tauReports[a] :
        LET r == tauReports[a][i]
        IN  r.data \notin {NoData} /\ r.data.sim # r.own =>
                <<r.task, r.data.sim>> \in Occurs \/ r.data.task = r.task

(* The launcher ends its server on every way out, and leaves EMON only when *)
(* the call that stops it timed out.                                        *)
LauncherCleansUp ==
    launch.pc = "ended" => "vllm" \notin running /\ ("emon" \in running => launch.failed)

(* Only a teardown that has calls to dump keeps the agents of a density from *)
(* ending: no other step waits for another agent for ever.                  *)
TauSettles ==
    launch.pc = "agents" ~> launch.pc # "agents" \/ \E a \in TauAgents : At(a, "summary")

(* An agent that comes to its teardown ends: "Dump latency data and clean   *)
(* up."                                                                     *)
TeardownReturns == \A a \in TauAgents : At(a, "dump") ~> At(a, "ended")
===============================================================================
