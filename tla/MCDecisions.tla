------------------------------ MODULE MCDecisions ------------------------------
(***************************************************************************)
(* Inputs for the modules of functions: one call each, over all of the     *)
(* sets below.                                                             *)
(***************************************************************************)
EXTENDS SlotPlanning, SweepAnalysis, DensityPlans,
        CpusetSamples, ProfileChecks, CommandPhases

CallInit == call = NoCall
CallNext == \/ SlotNext \/ AnalyzerNext \/ SweepNext \/ ImportSweep
            \/ DensityPlanNext \/ HostNext \/ ProfileNext \/ SampleCpuset \/ ChoiceNext \/ Classify

MCHistograms == [{1, 2, 4} -> 0 .. 3]
MCLayouts == {<<<<0, 1, 2, 3>>, <<4, 5, 6, 7>>>>,
              <<<<0, 1, 3, 4>>, <<6, 7, 8>>>>,
              <<<<0, 1, 2, 3, 4, 5, 6, 7>>>>}
MCSpanSignals ==
    {s \in [l3 : BOOLEAN, perfspect : BOOLEAN,
            ipc : {Unmeasured, 10, 17, 27, 40}, miss : {Unmeasured, 20, 45, 65, 80},
            rss : {Unmeasured, 400, 800, 2000}, numa : {Unmeasured, 30},
            tma_memory : {Unmeasured, 35, 50, 3500},
            bandwidth : {Unmeasured, 60, 80}, peak_bw : {0, 100}, l3_budget : {300}] :
        /\ s.l3 \/ {s.ipc, s.miss} = {Unmeasured}
        /\ s.perfspect \/ {s.numa, s.tma_memory, s.bandwidth} = {Unmeasured}}

MCCpuRecords ==
    [l3 : BOOLEAN, ipc : {Unmeasured, 10}, branch_miss : {Unmeasured, 5, 20},
     llc : {Unmeasured, 5, 20}, miss : {Unmeasured, 1, 10, 15, 30},
     cpu : {0, 50, 94}, duration : {0, 100}]

MCTaskRecords ==
    LET Span(kind, us, instructions, miss) ==
            [kind |-> kind, us |-> us, instructions |-> instructions,
             cycles |-> instructions, miss |-> miss]
    IN  SeqOf({Span("inference", 2, 0, 0), Span("inference", 7, 0, 0),
               Span("execution", 3, 4, 10), Span("execution", 7, 1, Unmeasured),
               Span("execution", 0, 0, 0), Span("orchestration", 2, 0, 0)}, 3)

MCMemorySeries == SeqOf((0 .. 2) \X {0, 1, 3, 6}, 3)

MCPhaseSpans ==
    LET Phases == {<<"llm", "">>, <<"cmd", "">>, <<"", "commit">>, <<"llm", "audit">>, <<"", "">>}
        All == {[turn |-> t, name |-> p[1], phase |-> p[2], us |-> u] :
                    t \in -1 .. 2, p \in Phases, u \in {1, 3}}
    IN  {{a, b, c} : a, b, c \in All}

\* Cells of a sweep: idle, pegged, queueing, short of memory, waiting, and one
\* where neither the run queue nor the memory was measured.
MCCells ==
    LET Quiet == [cpu_avg |-> 40, cpu_peak |-> 60, iowait |-> 1, p95 |-> 10,
                  runqueue |-> 2, mem_avail |-> 9000]
    IN  {Quiet, [Quiet EXCEPT !.cpu_avg = 90, !.cpu_peak = 99, !.p95 = 20],
         [Quiet EXCEPT !.runqueue = 40], [Quiet EXCEPT !.mem_avail = 1000],
         [Quiet EXCEPT !.iowait = 40],
         [Quiet EXCEPT !.runqueue = Unmeasured, !.mem_avail = Unmeasured]}

MCSweeps ==
    {[k \in 1 .. 3 |-> cells[k] @@ [density |-> d[k], throughput |-> y[k]]] :
        cells \in [1 .. 3 -> MCCells], y \in {<<1, 2, 3>>, <<1, 3, 3>>, <<3, 2, 2>>},
        d \in {<<1, 2, 3>>, <<1, 2, 2>>, <<2, 1, Unmeasured>>}}

MCCurves == UNION {[1 .. n -> 0 .. 4] : n \in 1 .. 5}

MCLadders ==
    LET Row(n, per_agent, fill, cpu, bw) ==
            [n |-> n, quota_fill |-> fill, cpu_s |-> cpu, mem_bw |-> bw,
             wall_s |-> IF bw = 0 THEN 0 ELSE 4, throttled |-> fill, sampled |-> 2,
             throughput |-> IF Measured(per_agent) THEN n * per_agent ELSE Unmeasured]
        Rows == {Row(n, y, f[1], f[2], f[3]) : n \in {1, 2, 4}, y \in {Unmeasured, 0, 3, 6},
                 f \in {<<80, 4, 5>>, <<30, 1, 0>>, <<Unmeasured, Unmeasured, Unmeasured>>}}
    IN  Rows \X Rows \X Rows

\* Cells of distinct directories: sound, failed, unreadable, incomplete.
MCImportedCells ==
    LET Cells(k) == {[n |-> n, replicate |-> 1, status |-> st, cores |-> q[1], wide |-> q[2],
                      host_cpus |-> q[3], cpu_avg |-> Unmeasured] :
                        n \in {0, k}, st \in {"ok", "failed", "unreadable"},
                        q \in {<<4, FALSE, 0>>, <<4, TRUE, 16>>, <<4, TRUE, 0>>,
                               <<8, FALSE, 16>>, <<0, TRUE, 16>>}}
    IN  UNION {{<<a, b>> : a \in Cells(1), b \in Cells(2)},
               {<<a>> : a \in Cells(1)}, {<<>>}}

MCCoreLayouts ==
    {(0 :> <<0, 1, 2, 3>> @@ 1 :> <<4, 5, 6, 7>> @@ 2 :> <<8, 9, 10, 11>>),
     (0 :> <<0, 1, 6>> @@ 1 :> <<2, 3, 7>> @@ 2 :> <<4, 5, 8>>),
     (0 :> <<0, 1, 2, 3>> @@ 1 :> <<4, 5>> @@ 2 :> <<6>>),
     (0 :> <<0, 1, 2, 3>> @@ 1 :> <<4, 5, 6, 7>>)}
MCExperiments ==
    [density : {0, 1, 2, 3, 5, 7, 9, 10, 12}, cpa : 1 .. 3, oversubscribe : BOOLEAN,
     mixed : BOOLEAN, placement : {"intra_node", "cross_node", "spread"}]
MCWorkloadMixes == <<"compile", "sat", "linalg">>

MCDensityCurves ==
    LET Results == {[error |-> FALSE, rate |-> y, ipc |-> c[1], mpki |-> c[2]] :
                        y \in {0, 4, 7, 10}, c \in {<<0, 0>>, <<20, 3>>, <<11, 7>>}}
                       \cup {[error |-> TRUE, rate |-> 9, ipc |-> 20, mpki |-> 3]}
        Cell(d, agents) == [density |-> d, agents |-> agents]
    IN  {<<Cell(d[1], <<a>>), Cell(d[2], <<b, c>>), Cell(d[3], <<c, a>>)>> :
            d \in {<<1, 2, 3>>, <<3, 1, 2>>, <<2, 3, 4>>}, a, b, c \in Results}

MCCallDumps ==
    LET Dumps == {[calls |-> <<2, 4>>, number |-> 2, mean |-> 3],
                  [calls |-> <<>>, number |-> 2, mean |-> 3],
                  [calls |-> <<>>, number |-> 0, mean |-> 0],
                  [calls |-> <<1>>, number |-> 1, mean |-> 1]}
    IN  SeqOf([failed : BOOLEAN, llm : Dumps, tool : Dumps], 2)

MCCpuInfos ==
    LET Cpu(readable, vendor, sku, cpuid, flags) ==
            [readable |-> readable, vendor |-> vendor, sku |-> sku, cpuid |-> cpuid,
             flags |-> flags, core_ids |-> 4, cpus |-> 16]
    IN  {Cpu(TRUE, "intel", "generic", "GNR", {"amx", "avx512", "avx2"}),
         Cpu(TRUE, "intel", "CLX", "SKX", {"avx512", "avx2"}),
         Cpu(TRUE, "intel", "ICX", "other", {"avx512", "avx2"}),
         Cpu(TRUE, "intel", "generic", "other", {}),
         Cpu(TRUE, "amd", "Zen4c", "none", {"avx2"}), Cpu(TRUE, "amd", "generic", "none", {}),
         Cpu(TRUE, "arm", "V2", "none", {}), Cpu(FALSE, "intel", "GNR", "GNR", {})}

MCLscpuOutputs ==
    LET Of(status, per_socket, sockets, nodes, l3) ==
            [status |-> status, l3 |-> l3,
             lines |-> [logical |-> 16, per_socket |-> per_socket, sockets |-> sockets,
                        nodes |-> nodes]]
    IN  {Of("ok", 7, s, n, s * 100) : s \in 1 .. 2, n \in {1, 2, 3, 4}}
            \cup {Of("ok", 4, Garbage, 2, 200), Of("ok", Absent, 2, 2, 200),
                  Of("ok", 4, 2, Absent, Absent), Of("ok", 4, Absent, 2, 200),
                  Of("failed", 4, 2, 2, 200), Of("absent", 4, 2, 2, 200)}
MCCacheFiles == {[present |-> p, l3 |-> l] : p \in BOOLEAN, l \in {Absent, 100}}
MCMlcResults == {<<>>, <<<<>>, <<300>>>>, <<<<3, 200>>, <<300>>>>, <<<<3>>, <<200000>>>>}

MCHostSettings ==
    [vendor : {"intel"}, uarch_known : {TRUE}, paranoid : {Absent, 0, 1, 2}, nmi : {1},
     msr : {FALSE}, governor : {"none", "performance", "powersave"}, perf : BOOLEAN,
     numactl : BOOLEAN, perfspect : BOOLEAN, at_home : BOOLEAN, tools : {FALSE}, headers : {FALSE}]
        \cup [vendor : {"amd"}, uarch_known : BOOLEAN, paranoid : {-1}, nmi : {Absent, 0, 1},
              msr : {TRUE}, governor : {"performance"}, perf : {TRUE}, numactl : {TRUE},
              perfspect : {FALSE}, at_home : {TRUE}, tools : {TRUE}, headers : BOOLEAN]

MCWindows ==
    LET Good == [cycles |-> 5, cache_references |-> 4, cache_misses |-> 3, amx_active |-> 5,
                 onednn_dispatch |-> 60, hugepage_fault |-> 50, remote_access_max |-> 15,
                 accel_queue |-> 1, openvino_infer |-> 95]
        Truths == {Good} \cup {[Good EXCEPT ![c] = IF c = "remote_access_max" THEN 16 ELSE 0] :
                                   c \in DOMAIN Good \ {"cache_references"}}
        Window(truth, counted, contended, available, failed) ==
            [truth |-> truth, counted |-> counted, contended |-> contended,
             available |-> available, failed |-> failed,
             shown |-> IF contended
                       THEN [c \in DOMAIN truth |-> IF c \in GenericEvents THEN 999 ELSE truth[c]]
                       ELSE truth]
    IN  {Window(t, DOMAIN Good \ u, c, a, f) :
            t \in Truths, u \in {{}} \cup {{x} : x \in DOMAIN Good}, c, a, f \in BOOLEAN}

MCSutConfigs ==
    {[backend |-> b, scheduler |-> s] :
        b \in {<<>>, [isa |-> "sse"], [isa |-> "sse", threads |-> "8"]},
        s \in {<<>>, [numa |-> "interleaved", priority |-> "1"]}}
MCCounterClaims ==
    {[cycles |-> 2], [cycles |-> 2, cache_misses |-> 3], [cache_misses |-> 3],
     [cycles |-> 2, amx_active |-> 5]}

MCCpuLists == {<<>>, <<<<0, 1>>>>, <<<<1, 1>>>>}
\* Three CPUs that are busy or idle in each of three intervals; CPU 1 may be away.
MCStatReadings ==
    {[k \in 1 .. 4 |->
        [online |-> IF k \in away THEN {0, 2} ELSE 0 .. 2,
         all |-> [c \in 0 .. 2 |->
                     LET busy == Cardinality({j \in 1 .. k - 1 : c \in loads[j]})
                     IN  [busy |-> busy, idle |-> k - 1 - busy]]]] :
        loads \in [1 .. 3 -> SUBSET (0 .. 2)], away \in SUBSET (1 .. 4)}

MCCatalogues ==
    LET Task(id, category) == [id |-> id, category |-> category]
    IN  {<<Task(<<"a">>, <<"b">>), Task(<<"a", "b">>, <<"a">>), Task(<<"b", "a">>, <<"b">>)>>,
         <<Task(<<"c">>, <<"c">>), Task(<<"b", "a", "c">>, <<"a", "b">>), Task(<<"a">>, <<"c">>)>>}
MCSelectors == {{}, {<<"a">>}, {<<"b">>}, {<<"a", "b">>, <<"c">>}, {<<"b", "a">>}}
MCDatasets ==
    {<<<<"terminal-bench", "x">>, <<"terminal-bench", "y">>, <<"terminal-bench", "z">>>>,
     <<<<"other", "x">>, <<"terminal-bench", "z">>>>}
MCRunRequests ==
    [tasks : {<<>>, <<"x">>, <<"z", "x">>, <<"y", "y">>}, num_tasks : {0, 1}, full : BOOLEAN,
     preresolved : {<<>>, <<<<"other", "x">>, <<"terminal-bench", "x">>, <<"other", "z">>>>}]
MCLegalTasks == [gold : BOOLEAN, criteria : {0, 4}, citations : {0, 2}]
MCCommands ==
    SeqOf({"sudo", "timeout", "bash", "30", "-c", "grep", "'grep", "'sudo", "faiss", "'faiss"}, 4)
        \cup {c \in SeqOf({"nohup", "|", "cat", "echo", "grep", "awk", "nvcc", "make"}, 4) :
                  \A k \in DOMAIN c : c[k] = "|" => k \notin {1, Len(c)} /\ c[k - 1] # "|"}

MCProbeOutcomes == [create : {"ok", "refused", "late"}, remove : {"ok", "refused"}]

-------------------------------------------------------------------------------
\* Slots, cores and ports are handed out once, completely and fairly, and what is
\* admitted fits the host.
PlansFit ==
    /\ SlotCountsRight /\ UnpinnedCountsRight /\ SlotsDisjoint /\ CpusetRoundTrip
    /\ DemandCoversAnyMix /\ AdmittedFits /\ EverySlotHasWork /\ NoProbeLeft /\ CleanupScoped
    /\ AgentsArePlaced /\ WrapIsFair /\ DedicatedUnlessOverflow /\ FilterIsExact

\* The verdict on a sweep, native or imported, is about what was measured: cells that
\* can be compared, signals that are there, the load of the CPUs under test, a knee where
\* the gains shrink.
SweepVerdicts ==
    /\ KneeWhereGainsShrink /\ BottleneckMeasured /\ MissingIsNotZero /\ SaturationPastPeak
    /\ ImportAccountsForCells /\ DensitiesComparable /\ RunqueueScopeMatches
    /\ BridgeKeepsTime /\ FindingsAgree /\ LossIsReported
    /\ PeggedReadsPegged /\ SamplesAreOfTheList /\ PercentileIsBetween
===============================================================================
