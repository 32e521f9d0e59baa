-------------------------------- MODULE MCLoops --------------------------------
(***************************************************************************)
(* An instance for TLC of the modules of which it is asked whether what is  *)
(* started ends.  A behaviour plays one part; the variables of the others  *)
(* keep their first value.                                                 *)
(***************************************************************************)
EXTENDS TrialRuns, CellRuns, TLC

CONSTANTS
    Parts,   \* the parts that are played
    a1, a2, t1, t2, t3, w1, w2

ASSUME Agents = {a1, a2} /\ Workers = {w1, w2}

VARIABLE part

vars == <<part, replayVars, taskVars, sweepVars, densityVars, tauVars>>

ReplayIdle == ReplayFrom(CHOOSE config \in ReplayConfigs : TRUE)
TaskIdle == TaskFrom([profile |-> CHOOSE p \in Profiles : TRUE, sized |-> FALSE,
                      todo |-> [w \in Workers |-> <<>>]])

Init ==
    /\ part \in Parts
    /\ SweepInit
    /\ IF part = "replay" THEN ReplayInit ELSE ReplayIdle
    /\ IF part = "tasks" THEN TaskInit ELSE TaskIdle
    /\ IF part = "density" THEN DensityInit
       ELSE DensityFrom([drained |-> TRUE, emon |-> TRUE], "done")
    /\ IF part = "tau" THEN TauInit ELSE TauFrom(CHOOSE l \in TauLaunches : TRUE)

ReplayPart(Step) ==
    /\ part = "replay" /\ Step
    /\ UNCHANGED <<part, taskVars, sweepVars, densityVars, tauVars>>
TaskPart(Step) ==
    /\ part = "tasks" /\ Step
    /\ UNCHANGED <<part, replayVars, sweepVars, densityVars, tauVars>>
SweepPart(Step) ==
    /\ part = "sweeps" /\ Step
    /\ UNCHANGED <<part, replayVars, taskVars, densityVars, tauVars>>
DensityPart(Step) ==
    /\ part = "density" /\ Step
    /\ UNCHANGED <<part, replayVars, taskVars, sweepVars, tauVars>>
TauPart(Step) ==
    /\ part = "tau" /\ Step
    /\ UNCHANGED <<part, replayVars, taskVars, sweepVars, densityVars>>

Next == \/ ReplayPart(ReplayNext) \/ TaskPart(TaskNext) \/ SweepPart(SweepRunsNext)
        \/ DensityPart(DensityNext) \/ TauPart(TauNext)

\* A behaviour plays one part, so that the steps of the actors of all the parts can
\* share a condition.
FirstActor == ReplayPart(AgentStep(a1)) \/ TaskPart(Works(w1)) \/ TauPart(TauAgentStep(1))
SecondActor == ReplayPart(AgentStep(a2)) \/ TaskPart(Works(w2)) \/ TauPart(TauAgentStep(2))
Driver == SweepPart(SweepSteps) \/ DensityPart(DensitySteps) \/ TauPart(TauDriverStep)

Fairness == WF_vars(FirstActor) /\ WF_vars(SecondActor) /\ WF_vars(Driver)

Spec == Init /\ [][Next]_vars /\ Fairness

Pass(mode, agents, replies) == [mode |-> mode, agents |-> agents, replies |-> replies]
MCPassPlans ==
    LET two == {"run", "submit", "empty"}
    IN  {<<Pass("record", 1, ReplyKinds), Pass("record", 1, two), Pass("replay", 1, two)>>,
         <<Pass("record", 2, two), Pass("replay", 1, two)>>}

MCWorkloads == {(w1 :> <<t1, t2>> @@ w2 :> <<t2>>), (w1 :> <<t1, t2, t3>> @@ w2 :> <<>>)}
MCProfiles ==
    LET Harbor(memory, setup) == [kind |-> "harbor", memory |-> memory, setup |-> setup]
        Local(kind) == [kind |-> kind, memory |-> 1, setup |-> kind = "inline"]
    IN  {(t1 :> Harbor(1, TRUE) @@ t2 :> Harbor(2, FALSE) @@ t3 :> Harbor(1, FALSE)),
         (t1 :> Harbor(1, TRUE) @@ t2 :> Local("inline") @@ t3 :> Local("plain"))}

MCLaunches ==
    LET Launched(densities, tau2, tasks) ==
            [densities |-> densities, tau2 |-> tau2, server |-> ~tau2, tasks |-> tasks]
    IN  {Launched(<<2>>, TRUE, <<"t1">>), Launched(<<1>>, TRUE, <<"t10", "t1", "t2">>),
         Launched(<<1, 2>>, FALSE, <<"t1">>)}
MCOccurs == {<<"t1", <<1, 1>>>>}

-------------------------------------------------------------------------------
(* Every loop ends although what it talks to fails, and a replay pass never  *)
(* writes to the fixture.                                                    *)
LoopsEnd == TrialsEnd /\ TasksEnd /\ SweepsEnd /\ DensitiesEnd /\ TauSettles /\ ReplayOnlyReads
===============================================================================
