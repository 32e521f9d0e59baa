------------------------------ MODULE DensityRuns ------------------------------
(***************************************************************************)
(* The cells of a density experiment (experiments/scaling).  In each, the  *)
(* driver starts EMON, then one process per agent; all meet at a barrier,  *)
(* work, and put one result each into a queue; the driver joins them and   *)
(* stops EMON.  Two drivers do this: run_experiment (orchestrator.py)      *)
(* reads the queue after the last join; run_density (density_emon_runner)  *)
(* has a thread that reads it all the time.                                *)
(*                                                                         *)
(* A multiprocessing.Queue is a pipe of bounded size behind a lock that    *)
(* its writers share; a process does not exit before what it put is        *)
(* written.  A result is written and read in two parts, an error in one.   *)
(***************************************************************************)
EXTENDS Integers, Sequences

CONSTANTS
    AgentCount,    \* agents of a cell
    CellTotal,     \* cells of the experiment
    PipeSize,      \* how many parts of results the pipe holds
    MaxMishaps     \* processes that die or are slow, calls that raise

ASSUME DensityAssumption ==
    /\ AgentCount \in Nat \ {0} /\ CellTotal \in Nat
    /\ PipeSize \in Nat \ {0} /\ MaxMishaps \in Nat

VARIABLES
    setting,     \* which driver, and whether it has EMON
    driver,      \* its step, its cell, and how many agents it has joined
    emon,        \* EMON collects
    phase,       \* cell -> agent -> where its process is
    broken,      \* cells whose barrier is broken
    holder,      \* cell -> the agent that has the lock of the queue, or 0
    pipe,        \* cell -> the parts in the pipe
    reading,     \* cell -> the agent whose first part has been read, or 0
    heard,       \* cell -> the results that were read
    records,     \* what the driver has recorded
    killed,      \* cell -> history: agents that were killed
    mishaps

workers == <<phase, broken, holder, pipe, reading, heard, killed>>
densityVars == <<setting, driver, emon, workers, records, mishaps>>

DensityAgents == 1 .. AgentCount
DensityCells == 1 .. CellTotal
cell == driver.cell
Drained == setting.drained

PhaseNames == {"none", "setup", "ready", "working", "erring", "putting", "rest",
               "ended", "dead"}
Alive(c, a) == phase[c][a] \notin {"none", "ended", "dead"}

DensityTypeOK ==
    /\ driver.pc \in {"next", "spawn", "barrier", "join", "collect", "done"}
    /\ cell \in 0 .. CellTotal /\ driver.joined \in 0 .. AgentCount
    /\ emon \in BOOLEAN /\ mishaps \in 0 .. MaxMishaps
    /\ phase \in [DensityCells -> [DensityAgents -> PhaseNames]]
    /\ \A c \in DensityCells :
           /\ Len(pipe[c]) <= PipeSize
           \* Only the holder of the lock is in the middle of a result.
           /\ \A a \in DensityAgents : phase[c][a] = "rest" => holder[c] = a

DensityFrom(s, pc) ==
    /\ setting = s
    /\ driver = [pc |-> pc, cell |-> 0, joined |-> 0]
    /\ emon = FALSE
    /\ phase = [c \in DensityCells |-> [a \in DensityAgents |-> "none"]]
    /\ broken = {}
    /\ holder = [c \in DensityCells |-> 0]
    /\ pipe = [c \in DensityCells |-> <<>>]
    /\ reading = [c \in DensityCells |-> 0]
    /\ heard = [c \in DensityCells |-> [ok |-> {}, failed |-> {}]]
    /\ records = <<>>
    /\ killed = [c \in DensityCells |-> {}]
    /\ mishaps = 0

DensitySettings == [drained : BOOLEAN, emon : BOOLEAN]
DensityInit == \E s \in DensitySettings : DensityFrom(s, "next")

Mishap == mishaps < MaxMishaps /\ mishaps' = mishaps + 1
DriverAt(pc) == driver' = [driver EXCEPT !.pc = pc]
Record(c, error, results) ==
    records' = Append(records, [cell |-> c, error |-> error, results |-> results])
Nothing == [ok |-> {}, failed |-> {}]
Dead(c, a) ==
    /\ phase' = [phase EXCEPT ![c][a] = "dead"]
    /\ killed' = [killed EXCEPT ![c] = @ \cup {a}]

-------------------------------------------------------------------------------
(* The driver. *)

NextDensity ==
    /\ driver.pc = "next" /\ cell < CellTotal
    /\ driver' = [pc |-> "spawn", cell |-> cell + 1, joined |-> 0]
    /\ emon' = (emon \/ setting.emon)
    /\ UNCHANGED <<setting, workers, records, mishaps>>

\* assign_cpusets raises ValueError: run_experiment returns an error, the other
\* driver skips the density.
DoesNotFit ==
    /\ driver.pc = "next" /\ cell < CellTotal
    /\ driver' = [driver EXCEPT !.cell = cell + 1]
    /\ IF Drained THEN UNCHANGED records ELSE Record(cell + 1, TRUE, Nothing)
    /\ UNCHANGED <<setting, emon, workers, mishaps>>

LastDensity ==
    /\ driver.pc = "next" /\ cell = CellTotal
    /\ DriverAt("done")
    /\ UNCHANGED <<setting, emon, workers, records, mishaps>>

Spawn ==
    /\ driver.pc = "spawn"
    /\ phase' = [phase EXCEPT ![cell] = [a \in DensityAgents |-> "setup"]]
    /\ DriverAt("barrier")
    /\ UNCHANGED <<setting, emon, broken, holder, pipe, reading, heard, killed,
                   records, mishaps>>

\* Everyone waits at the barrier, the driver too.
Release ==
    /\ driver.pc = "barrier"
    /\ \A a \in DensityAgents : phase[cell][a] = "ready"
    /\ phase' = [phase EXCEPT ![cell] = [a \in DensityAgents |-> "working"]]
    /\ DriverAt("join")
    /\ UNCHANGED <<setting, emon, broken, holder, pipe, reading, heard, killed,
                   records, mishaps>>

Bug_GoesToWork == "working"
\* agent_worker: who finds the barrier broken puts an error instead.
AfterBroken == "erring"

\* Someone died, or still sets up when the wait of the others times out.
Breaks ==
    /\ driver.pc = "barrier"
    /\ \/ \E a \in DensityAgents : phase[cell][a] = "dead"
          /\ UNCHANGED mishaps
       \/ \E a \in DensityAgents : phase[cell][a] = "setup"
          /\ Mishap
    /\ broken' = broken \cup {cell}
    /\ phase' = [phase EXCEPT ![cell] =
            [a \in DensityAgents |->
                IF phase[cell][a] = "ready" THEN AfterBroken ELSE phase[cell][a]]]
    /\ IF Drained
       THEN DriverAt("join") /\ UNCHANGED <<emon, records>>
       ELSE DriverAt("next") /\ emon' = FALSE /\ Record(cell, TRUE, Nothing)
    /\ UNCHANGED <<setting, holder, pipe, reading, heard, killed>>

\* The agent that the driver waits for.
Joining(a) == driver.pc = "join" /\ a = driver.joined + 1

Join ==
    /\ \E a \in DensityAgents : Joining(a) /\ ~Alive(cell, a)
    /\ driver' = [driver EXCEPT !.joined = @ + 1]
    /\ UNCHANGED <<setting, emon, workers, records, mishaps>>

Bug_ReadAtTheEnd == driver.pc = "collect"
\* The thread _drain, or the loop after the joins.
Reading == IF Drained THEN driver.pc \in {"barrier", "join", "collect"}
                      ELSE driver.pc = "collect"

\* Waits for room that nobody makes, or for a lock whose holder is dead or waits.
Starved(c, a) ==
    /\ phase[c][a] \in {"putting", "rest", "erring"}
    /\ \/ Len(pipe[c]) = PipeSize /\ ~Reading
       \/ holder[c] # 0 /\ phase[c][holder[c]] = "dead"

Bug_StragglerGoesOn(a) == UNCHANGED <<phase, killed>>
Terminate(a) == Dead(cell, a)

Bug_JoinsForEver(a) == Mishap
\* An agent that is merely slow, or one that can never end.
TimesOut(a) == IF Starved(cell, a) THEN UNCHANGED mishaps ELSE Mishap

\* The join times out; the straggler is terminated, and killed if need be.
Straggler ==
    /\ \E a \in DensityAgents : Joining(a) /\ Alive(cell, a) /\ TimesOut(a) /\ Terminate(a)
    /\ driver' = [driver EXCEPT !.joined = @ + 1]
    /\ UNCHANGED <<setting, emon, broken, holder, pipe, reading, heard, records>>

Bug_OnceAllStarted == driver.pc = "join"
AllJoined == driver.pc = "join" /\ driver.joined = AgentCount

StopEmon ==
    /\ AllJoined
    /\ emon' = FALSE
    /\ DriverAt("collect")
    /\ UNCHANGED <<setting, workers, records, mishaps>>

\* A process cannot be started, or EMON does not stop in time: run_matrix records
\* the error and goes on, the other driver ends with it and takes its agents along.
CellRaises ==
    /\ driver.pc = "spawn" \/ AllJoined
    /\ Mishap
    /\ \E started \in 0 .. AgentCount - 1 :
           /\ driver.pc = "spawn" \/ started = 0
           /\ phase' = [phase EXCEPT ![cell] = [a \in DensityAgents |->
                   IF ~Drained /\ a <= started THEN "setup" ELSE phase[cell][a]]]
    /\ broken' = IF driver.pc = "spawn" THEN broken \cup {cell} ELSE broken
    /\ IF Drained THEN DriverAt("done") /\ UNCHANGED records
                  ELSE DriverAt("next") /\ Record(cell, TRUE, Nothing)
    /\ UNCHANGED <<setting, emon, holder, pipe, reading, heard, killed>>

Bug_StopsReading == TRUE
\* No part is left, or the rest of one never comes: reading then takes for ever in
\* run_experiment, and is given up after three seconds in the other driver.
ReadAll == pipe[cell] = <<>> /\ (reading[cell] # 0 => Drained)

Collected ==
    /\ driver.pc = "collect" /\ ReadAll
    /\ Record(cell, FALSE, heard[cell])
    /\ DriverAt("next")
    /\ UNCHANGED <<setting, emon, workers, mishaps>>

-------------------------------------------------------------------------------
(* The queue, and the agents. *)

ReadPart ==
    /\ Reading /\ pipe[cell] # <<>>
    /\ LET part == Head(pipe[cell])
       IN  /\ reading' = [reading EXCEPT ![cell] = IF part.more THEN part.by ELSE 0]
           /\ heard' = CASE part.more -> heard
                         [] ~part.more /\ part.ok ->
                                [heard EXCEPT ![cell].ok = @ \cup {part.by}]
                         [] ~part.more /\ ~part.ok ->
                                [heard EXCEPT ![cell].failed = @ \cup {part.by}]
    /\ pipe' = [pipe EXCEPT ![cell] = Tail(@)]
    /\ UNCHANGED <<setting, driver, emon, phase, broken, holder, killed, records, mishaps>>

\* agent_worker, up to the barrier, and through the turns; a turn may raise.
Progress(c, a) ==
    /\ \/ phase[c][a] = "setup"
          /\ phase' = [phase EXCEPT ![c][a] = IF c \in broken THEN AfterBroken ELSE "ready"]
          /\ UNCHANGED mishaps
       \/ phase[c][a] = "working"
          /\ phase' = [phase EXCEPT ![c][a] = "putting"]
          /\ UNCHANGED mishaps
       \/ phase[c][a] = "working" /\ Mishap
          /\ phase' = [phase EXCEPT ![c][a] = "erring"]
    /\ UNCHANGED <<setting, driver, emon, broken, holder, pipe, reading, heard, killed,
                   records>>

Bug_NoLock(c, a) == Len(pipe[c]) < PipeSize
MayWrite(c, a) == holder[c] \in {0, a} /\ Len(pipe[c]) < PipeSize

\* The feeder thread writes under the lock, and the process then exits.  A result with
\* an error is kept to one part; that of a late turn carries the durations of the turns
\* before it and may be longer.
PutResult(c, a) ==
    /\ phase[c][a] \in {"putting", "rest", "erring"}
    /\ MayWrite(c, a)
    /\ LET more == phase[c][a] = "putting"
       IN  /\ pipe' = [pipe EXCEPT ![c] =
                  Append(@, [by |-> a, more |-> more, ok |-> phase[c][a] # "erring"])]
           /\ holder' = [holder EXCEPT ![c] = IF more THEN a ELSE 0]
           /\ phase' = [phase EXCEPT ![c][a] = IF more THEN "rest" ELSE "ended"]
    /\ UNCHANGED <<setting, driver, emon, broken, reading, heard, killed, records, mishaps>>

AgentDies(c, a) ==
    /\ Alive(c, a) /\ Mishap
    /\ Dead(c, a)
    /\ UNCHANGED <<setting, driver, emon, broken, holder, pipe, reading, heard, records>>

DensitySteps ==
    \/ NextDensity \/ LastDensity \/ Spawn \/ Release \/ Breaks \/ Join \/ Straggler
    \/ StopEmon \/ Collected \/ ReadPart
    \/ \E c \in DensityCells, a \in DensityAgents : Progress(c, a) \/ PutResult(c, a)

DensityNext ==
    \/ DensitySteps \/ DoesNotFit \/ CellRaises
    \/ \E c \in DensityCells, a \in DensityAgents : AgentDies(c, a)

\* The joins have a timeout, and the processes run by themselves.
DensitySpec == DensityInit /\ [][DensityNext]_densityVars /\ WF_densityVars(DensitySteps)

-------------------------------------------------------------------------------
(* Properties. *)

\* No agent of a cell works before all of its agents are there.
StartTogether ==
    \A c \in DensityCells :
        (\E a \in DensityAgents : phase[c][a] \in {"working", "putting", "rest"}) =>
            \A a \in DensityAgents : phase[c][a] \notin {"none", "setup", "ready"}

\* In a cell that is recorded, a result is missing only for an agent that was
\* killed, although results share a pipe that their writers may leave torn.
LostOnlyIfKilled ==
    \A i \in DOMAIN records :
        LET r == records[i]
        IN  r.error \/ DensityAgents \subseteq
                           r.results.ok \cup r.results.failed \cup killed[r.cell]

\* Large results do no harm where a thread reads them: nobody is killed for
\* waiting at a full pipe, and the cell has all its results.
DrainedIsWhole ==
    Drained /\ mishaps = 0 =>
        \A i \in DOMAIN records : records[i].results.ok = DensityAgents

\* EMON collects as long as an agent of the cell works.
EmonCoversAgents ==
    setting.emon /\ (\E a \in DensityAgents : cell # 0 /\ phase[cell][a] = "working") => emon

\* While agents of a cell work, none of an earlier cell is there, unless that one's
\* agents never came to work.
CellsDoNotOverlap ==
    \A c \in 1 .. cell - 1 :
        /\ \E a \in DensityAgents : Alive(c, a)
        /\ \E a \in DensityAgents : phase[cell][a] = "working"
        => c \in broken

\* The experiment ends, whoever dies or waits; run_experiment alone may hang, on
\* the rest of a result whose writer was killed.
DensitiesEnd ==
    <>(\/ driver.pc = "done"
       \/ driver.pc = "collect" /\ ~Drained /\ reading[cell] # 0
          /\ reading[cell] \in killed[cell])
===============================================================================
