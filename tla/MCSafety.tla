------------------------------- MODULE MCSafety --------------------------------
(***************************************************************************)
(* An instance for TLC of the modules of functions, and of the modules     *)
(* with state of which only safety is asked.  A behaviour plays one part;  *)
(* the variables of the others keep their first value.                     *)
(***************************************************************************)
EXTENDS MCDecisions, ProbeRuns, StoreWrites, AdapterRuns, TelemetryRuns

CONSTANTS
    Parts,   \* the parts that are played
    w1, w2, p1, p2, p3, t1, t2

VARIABLE part

vars == <<part, call, probeVars, storeVars, sweVars, phaseVars, serverVars, harnessVars, telemetryVars>>

ProbeIdle == ProbeFrom(CHOOSE h \in ProbeHosts : TRUE)
StoreIdle == StoreFrom([db |-> EmptyDatabase, todo |-> [p \in Process |-> <<>>]])
SweIdle == SweFrom(CHOOSE lists \in SwePlans : TRUE)
ServerIdle ==
    ServerFrom(CHOOSE m \in ServerModes : TRUE, CHOOSE l \in TaskLists : TRUE, FALSE)
HarnessIdle == HarnessFrom(<<>>, {}, FALSE, "none")

Init ==
    /\ part \in Parts
    /\ CallInit
    /\ IF part = "probes" THEN ProbeInit ELSE ProbeIdle
    /\ IF part = "store" THEN StoreInit ELSE StoreIdle
    /\ IF part = "swe" THEN SweInit ELSE SweIdle
    /\ PhaseInit
    /\ IF part = "servers" THEN ServerInit ELSE ServerIdle
    /\ IF part = "harness" THEN HarnessInit ELSE HarnessIdle
    /\ IF part = "telemetry" THEN TelemetryInit ELSE TelemetryFrom("none", {})

CallPart(Step) ==
    /\ part = "calls" /\ Step
    /\ UNCHANGED <<part, probeVars, storeVars, sweVars, phaseVars, serverVars,
                   harnessVars, telemetryVars>>
ProbePart(Step) ==
    /\ part = "probes" /\ Step
    /\ UNCHANGED <<part, call, storeVars, sweVars, phaseVars, serverVars,
                   harnessVars, telemetryVars>>
StorePart(Step) ==
    /\ part = "store" /\ Step
    /\ UNCHANGED <<part, call, probeVars, sweVars, phaseVars, serverVars,
                   harnessVars, telemetryVars>>
SwePart(Step) ==
    /\ part = "swe" /\ Step
    /\ UNCHANGED <<part, call, probeVars, storeVars, phaseVars, serverVars,
                   harnessVars, telemetryVars>>
PhasePart(Step) ==
    /\ part = "phases" /\ Step
    /\ UNCHANGED <<part, call, probeVars, storeVars, sweVars, serverVars,
                   harnessVars, telemetryVars>>
ServerPart(Step) ==
    /\ part = "servers" /\ Step
    /\ UNCHANGED <<part, call, probeVars, storeVars, sweVars, phaseVars,
                   harnessVars, telemetryVars>>
HarnessPart(Step) ==
    /\ part = "harness" /\ Step
    /\ UNCHANGED <<part, call, probeVars, storeVars, sweVars, phaseVars, serverVars,
                   telemetryVars>>
TelemetryPart(Step) ==
    /\ part = "telemetry" /\ Step
    /\ UNCHANGED <<part, call, probeVars, storeVars, sweVars, phaseVars, serverVars,
                   harnessVars>>

Next == \/ CallPart(CallNext)
        \/ ProbePart(ProbeStep)
        \/ StorePart(StoreNext)
        \/ SwePart(SweNext)
        \/ PhasePart(PhaseNext)
        \/ ServerPart(ServerNext)
        \/ HarnessPart(HarnessNext)
        \/ TelemetryPart(TelemetryNext)

Spec == Init /\ [][Next]_vars

MCProbeHosts ==
    LET Host(found, able, owner) == [found |-> found, able |-> able, owner |-> owner]
        both == {"l3_perf", "perfspect"}
    IN  {Host(both, both, ""), Host(both, {"perfspect"}, ""), Host(both, both, "perfspect"),
         Host({"l1_subspan", "l3_perf"}, {}, ""),
         Host({"l1_system", "perfspect"}, {"perfspect"}, "")}

\* A run of the benchmark that is stored, whole, before anything starts.
MCStored(r) ==
    ApplyAll(EmptyDatabase,
             persist_measured("w1", r).stmts \o persist_results("w1", r, TaskId).stmts)

MCSwePlans == {(w1 :> <<t1, t1>> @@ w2 :> <<t2>>)}

MCTaskLists == {<<"plain", "speculative", "plain">>, <<"speculative", "speculative", "plain">>}

MCHarnessPlans ==
    {<<"off", "replay", "off">>, <<"record", "off", "record">>, <<"replay", "replay", "live">>}

MCImage(c) == IF c = "x1" THEN "tenant" ELSE "cell"

MCCellRuns == <<"c1", "c2">>

\* Two workers given one run id; a worker and the deletion of its run, or of its
\* benchmark; a sweep and its deletion, or that of its cell's run.
MCScenes ==
    LET Scene(d, first, second) == [db |-> d, todo |-> [w1 |-> first, w2 |-> second]]
        ends == EndOfRun("w1", "r", TaskId)
        known == ApplyAll(MCStored("c1"), <<[op |-> "benchmark"]>>)
    IN  {Scene(EmptyDatabase, ends, EndOfRun("w2", "r", {})),
         Scene(EmptyDatabase, ends, <<delete_run("r")>>),
         Scene(known, ends, <<Look("list_benchmark", Null)>>),
         Scene(EmptyDatabase, SweepCalls("w1"), <<Look("list_sweep", Null)>>),
         Scene(MCStored("c1"), SweepCalls("w1"), <<delete_run("c1")>>)}

-------------------------------------------------------------------------------
(* A step loses nothing that an earlier one had: one garbage interval costs *)
(* a span that interval only, a merge keeps the metadata it finds stored,   *)
(* and predictions are not lost to another thread's.                        *)
NothingIsLost ==
    [][BadIntervalCostsItself /\ RecordKeeps /\ PredictionsStay]_vars
================================================================================
