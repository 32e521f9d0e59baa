------------------------------- MODULE Analyzers -------------------------------
(***************************************************************************)
(* The analyzers (src/analyzers): each turns measurement records of spans  *)
(* into a verdict.  A number is an integer in the unit its comment names;  *)
(* a quantity that no probe delivered is Unmeasured (None in the code).    *)
(* Verdicts are kept, their wording is not.                                *)
(***************************************************************************)
EXTENDS Calls

CONSTANTS
    SpanSignals,     \* signals of a span for the memory analyzer
    CpuRecords,      \* signals for the CPU and the cache analyzer
    TaskRecords,     \* sub-spans of a task for the breakdown
    MemorySeries,    \* sequences of <<minutes, megabytes>>
    PhaseSpans       \* sets of spans of an agent run

Unmeasured == -1
Measured(x) == x # Unmeasured
Above(x, t) == Measured(x) /\ x > t
Below(x, t) == Measured(x) /\ x < t
Between(low, x, high) == Measured(x) /\ low < x /\ x < high

-------------------------------------------------------------------------------
(* memory_bandwidth.py.  ipc in tenths, rss in MB, the rest in percent. *)

Worth(condition, points) == IF condition THEN points ELSE 0

PatternOrder == <<"weight_streaming", "working_set_overflow", "cross_numa_traffic",
                  "bandwidth_saturation", "kv_cache_pressure", "capacity_thrashing">>
Patterns == Range(PatternOrder)

\* PATTERNS[p].solutions, keys into SOLUTIONS.
Solutions ==
    [weight_streaming |-> {"speculative_decoding", "quantization", "model_sharding"},
     working_set_overflow |-> {"data_tiling", "numa_pinning", "cache_partitioning"},
     cross_numa_traffic |->
         {"numa_pinning", "memory_local_scheduling", "workload_isolation"},
     bandwidth_saturation |-> {"memory_interleaving", "model_sharding", "quantization"},
     kv_cache_pressure |->
         {"kv_cache_compression", "rag_context_reduction", "cache_partitioning"},
     capacity_thrashing |-> {"cache_partitioning", "workload_isolation", "numa_pinning"}]

\* The score from which a pattern matches, and the most confidence it gets.
Threshold == [p \in Patterns |-> IF p = "kv_cache_pressure" THEN 50 ELSE 40]
Cap == [p \in Patterns |-> CASE p = "kv_cache_pressure" -> 80
                             [] p = "capacity_thrashing" -> 70
                             [] OTHER -> 100]

\* A TMA bucket, in hundredths, is a ratio up to 1 and a percentage above it.
as_pct(bucket) == IF bucket <= 100 THEN bucket ELSE bucket \div 100

\* _match_patterns: what each pattern scores.
Bug_LowestExcluded(s) ==
    Worth(Between(10, s.ipc, 15), 40) + Worth(Between(14, s.ipc, 20), 20)
    + Worth(Above(s.miss, 70), 35) + Worth(Between(50, s.miss, 71), 15)
    + Worth(Above(s.rss, 1000), 25)

weight_streaming(s) ==
    Worth(Below(s.ipc, 15), 40) + Worth(Between(14, s.ipc, 20), 20)
    + Worth(Above(s.miss, 70), 35) + Worth(Between(50, s.miss, 71), 15)
    + Worth(Above(s.rss, 1000), 25)

working_set_overflow(s) ==
    Worth(Between(30, s.miss, 71), 40) + Worth(Between(14, s.ipc, 36), 30)
    + Worth(s.l3_budget # 0 /\ Above(s.rss, s.l3_budget), 30)

Bug_Inferred(s) ==
    Worth(Above(s.numa, 20) \/ Below(s.ipc, 15), 50) + Worth(Above(as_pct(s.tma_memory), 30), 30)

cross_numa_traffic(s) ==
    Worth(Measured(s.numa),
          Worth(Above(s.numa, 20), 50) + Worth(Above(as_pct(s.tma_memory), 30), 30))

bandwidth_saturation(s) ==
    LET share(tenths) == (tenths * s.peak_bw) \div 10
    IN  Worth(s.peak_bw > 0, Worth(Above(s.bandwidth, share(7)), 70)
                             + Worth(Between(share(5), s.bandwidth, share(7) + 1), 40))
        + Worth(Above(as_pct(s.tma_memory), 40), 30)

kv_cache_pressure(s) ==
    Worth(Above(s.rss, 500), 30) + Worth(Above(s.miss, 40), 30)
    + Worth(Between(10, s.ipc, 30), 20)

capacity_thrashing(s) ==
    Worth(Above(s.miss, 60), 30) + Worth(Between(15, s.ipc, 30), 30)

Scores(s) ==
    [weight_streaming |-> weight_streaming(s),
     working_set_overflow |-> working_set_overflow(s),
     cross_numa_traffic |-> cross_numa_traffic(s),
     bandwidth_saturation |-> bandwidth_saturation(s),
     kv_cache_pressure |-> kv_cache_pressure(s),
     capacity_thrashing |-> capacity_thrashing(s)]

\* _analyze_span: nothing without one of the two records; the solutions of all
\* matched patterns, the first of the most confident ones on top.
MemoryVerdict(s) ==
    LET score == Scores(s)
        matched == {p \in Patterns : score[p] >= Threshold[p]}
        confidence(p) == Min({Cap[p], score[p]})
        most == Max({confidence(p) : p \in matched})
    IN  IF ~s.l3 /\ ~s.perfspect THEN [verdict |-> "none"]
        ELSE IF matched = {}
        THEN [verdict |-> "no_memory_bottleneck",
              confidence |-> IF s.perfspect THEN 80 ELSE 40]
        ELSE [verdict |-> CASE most >= 70 -> "memory_bottleneck_severe"
                            [] most >= 40 -> "memory_bottleneck_moderate"
                            [] OTHER -> "memory_bottleneck_mild",
              confidence |-> most,
              patterns |-> matched,
              primary |-> SelectSeq(PatternOrder, LAMBDA p :
                              p \in matched /\ confidence(p) = most)[1],
              solutions |-> UNION {Solutions[p] : p \in matched}]

-------------------------------------------------------------------------------
(* cpu_bound.py and cache.py, on the same L3 record.  llc: millions of misses *)
(* per second; miss and branch_miss in percent; cpu and duration in           *)
(* hundredths of a second.                                                    *)

Bug_EitherMissCounts(r) ==
    IF ~r.l3 \/ ~Measured(r.ipc) \/ ~Measured(r.branch_miss) THEN "none"
    ELSE IF Above(r.llc, 10) \/ Above(r.miss, 20) THEN "memory_bound"
    ELSE "io_bound"

\* Without an L1 record the CPU time, and with it the utilization, is 0.
cpu_bound(r) ==
    IF ~r.l3 \/ ~Measured(r.ipc) \/ ~Measured(r.branch_miss) THEN "none"
    ELSE IF Above(r.llc, 10) /\ Above(r.miss, 20) THEN "memory_bound"
    ELSE IF r.duration > 0 /\ 100 * r.cpu >= 94 * r.duration THEN "core_bound"
    ELSE IF r.branch_miss > 11 THEN "frontend_starved" ELSE "io_bound"

cache(r) ==
    IF ~r.l3 \/ ~Measured(r.miss) THEN "none"
    ELSE IF r.miss < 2 THEN "l3_resident"
    ELSE IF r.miss < 15 THEN "l3_pressure" ELSE "dram_bound"

-------------------------------------------------------------------------------
(* breakdown.py.  Sub-spans are [kind, us, instructions, cycles, miss]; kind  *)
(* is "orchestration" when the record names none.                             *)

TimeOf(kind, spans) ==
    Total([k \in DOMAIN spans |-> IF spans[k].kind = kind THEN spans[k].us ELSE 0],
          DOMAIN spans)

\* _phase_hardware: execution sub-spans with counters, by instructions; a miss
\* ratio that was not measured counts as 0.
phase_hardware(spans) ==
    LET used == {k \in DOMAIN spans : /\ spans[k].kind = "execution"
                                      /\ spans[k].instructions > 0
                                      /\ spans[k].cycles > 0}
        instructions == Total([k \in used |-> spans[k].instructions], used)
    IN  IF used = {} THEN [spans |-> 0]
        ELSE [spans |-> Cardinality(used),
              instructions |-> instructions,
              cycles |-> Total([k \in used |-> spans[k].cycles], used),
              misses |-> Total([k \in used |->
                  Max({0, spans[k].miss}) * spans[k].instructions], used)]

Bug_NoFloor(task_us, spans) ==
    LET inference == TimeOf("inference", spans)
        execution == TimeOf("execution", spans)
        rest == task_us - (inference + execution)
    IN  IF task_us = 0 THEN [verdict |-> "none"]
        ELSE [inference |-> inference, execution |-> execution, orchestration |-> rest,
              verdict |-> IF rest > inference THEN "orchestration_heavy"
                          ELSE "inference_heavy",
              hardware |-> phase_hardware(spans)]

\* Orchestration is what the task's time leaves; the first greatest part names
\* the verdict.
breakdown(task_us, spans) ==
    LET inference == TimeOf("inference", spans)
        execution == TimeOf("execution", spans)
        rest == Max({0, task_us - (inference + execution)})
    IN  IF task_us = 0 THEN [verdict |-> "none"]
        ELSE [inference |-> inference, execution |-> execution, orchestration |-> rest,
              verdict |->
                  IF inference >= Max({execution, rest})
                  THEN IF 100 * inference > 60 * task_us
                       THEN "inference_dominant" ELSE "inference_heavy"
                  ELSE IF execution >= rest
                  THEN IF 100 * execution > 60 * task_us
                       THEN "execution_dominant" ELSE "execution_heavy"
                  ELSE "orchestration_heavy",
              hardware |-> phase_hardware(spans)]

-------------------------------------------------------------------------------
(* memory_leak.py.  The time of a sample is the duration of its span. *)

Xs(series) == Total([k \in DOMAIN series |-> series[k][1]], DOMAIN series)
Ys(series) == Total([k \in DOMAIN series |-> series[k][2]], DOMAIN series)
\* Len(series) times the sum of (a - mean a)(b - mean b).
Spread(series, i, j) ==
    Len(series) * Total([k \in DOMAIN series |-> series[k][i] * series[k][j]],
                        DOMAIN series)
    - Total([k \in DOMAIN series |-> series[k][i]], DOMAIN series)
      * Total([k \in DOMAIN series |-> series[k][j]], DOMAIN series)

Bug_NotCentred(series) ==
    [num |-> Total([k \in DOMAIN series |-> series[k][1] * series[k][2]], DOMAIN series),
     den |-> Total([k \in DOMAIN series |-> series[k][1] * series[k][1]], DOMAIN series),
     r2num |-> 0, r2den |-> 1]

\* The slope num/den and the share r2num/r2den of the variance it explains.
fit_linear(series) ==
    LET xx == Spread(series, 1, 1)
        xy == Spread(series, 1, 2)
        yy == Spread(series, 2, 2)
    IN  IF xx = 0 THEN [num |-> 0, den |-> 1, r2num |-> 0, r2den |-> 1]
        ELSE [num |-> xy, den |-> xx,
              r2num |-> IF yy > 0 THEN xy * xy ELSE 0,
              r2den |-> IF yy > 0 THEN xx * yy ELSE 1]

memory_leak(series) ==
    LET fit == fit_linear(series)
    IN  IF Len(series) < 3 THEN "none"
        ELSE IF fit.num > fit.den /\ 10 * fit.r2num > 7 * fit.r2den
        THEN "leak_suspected"
        ELSE IF 2 * fit.num < fit.den /\ 2 * fit.num > - fit.den THEN "stable"
        ELSE IF 2 * fit.r2num < fit.r2den THEN "gc_pressure" ELSE "growing"

-------------------------------------------------------------------------------
(* phase_profiler.py.  Spans are [turn, name, phase, us]: the phase that the  *)
(* record states or "", the phase's sign in the span's name, the L1 duration. *)

PhaseOrder == <<"admit", "retrieve", "reason", "act", "commit">>

\* _extract_phase_from_span_id, for names without a stated phase.
PhaseOf(span) ==
    IF span.phase # "" THEN span.phase
    ELSE IF span.name = "llm" THEN "reason" ELSE IF span.name = "cmd" THEN "act" ELSE ""

UsOf(spans) == Total([s \in spans |-> s.us], spans)
InPhase(spans, phase) == {s \in spans : PhaseOf(s) = phase}

Bug_LowerBar(ipc, miss, wall, cpu) ==
    IF ~Measured(ipc) \/ ~Measured(miss) THEN "unknown"
    ELSE IF miss > 20 /\ ipc < 25 THEN "working_set_overflow" ELSE "mixed"

\* _classify_pattern; ipc in tenths, wall and cpu in the same unit.
classify_pattern(ipc, miss, wall, cpu) ==
    LET waits == wall > 0 /\ cpu > 0 /\ wall > 5 * cpu
    IN  IF ~Measured(ipc) \/ ~Measured(miss)
        THEN IF waits THEN "io_dominant" ELSE "unknown"
        ELSE IF ipc < 15 /\ miss > 70 THEN "weight_streaming"
        ELSE IF miss > 40 /\ ipc < 25 THEN "working_set_overflow"
        ELSE IF miss > 60 /\ ipc > 15 THEN "bandwidth_saturation"
        ELSE IF ipc > 35 /\ miss < 15 THEN "compute_efficient"
        ELSE IF waits THEN "io_dominant" ELSE "mixed"

Bug_RestartsEachTurn(spans) ==
    LET points == {s \in spans : s.turn >= 0 /\ PhaseOf(s) # ""}
        last == Max({s.turn : s \in points})
        upto(k) == {s \in points : s.turn = k}
        reason(k) == UsOf(InPhase(upto(k), "reason"))
        over == {k \in 0 .. last : reason(k) > 0 /\ UsOf(upto(k)) > 2 * reason(k)}
    IN  IF points = {} \/ last < 2 \/ over = {} THEN Unmeasured ELSE Min(over)

\* _detect_inflection on _build_iteration_points: the turn from which the time
\* outside reason exceeds the time in it.  Turns are counted from 0; a span
\* without a turn has -1.
detect_inflection(spans) ==
    LET points == {s \in spans : s.turn >= 0 /\ PhaseOf(s) # ""}
        last == Max({s.turn : s \in points})
        upto(k) == {s \in points : s.turn <= k}
        reason(k) == UsOf(InPhase(upto(k), "reason"))
        over == {k \in 0 .. last : reason(k) > 0 /\ UsOf(upto(k)) > 2 * reason(k)}
    IN  IF points = {} \/ last < 2 \/ over = {} THEN Unmeasured ELSE Min(over)

\* analyze: phases that are not in PhaseOrder count in the whole only.
phase_profile(spans) ==
    LET known == {s \in spans : PhaseOf(s) # ""}
        us == [p \in {PhaseOf(s) : s \in known} |-> UsOf(InPhase(known, p))]
        shown == DOMAIN us \cap Range(PhaseOrder)
    IN  IF UsOf(known) = 0 THEN [verdict |-> "none"]
        ELSE [verdict |-> "profile",
              wall |-> us,
              dominant |-> IF shown = {} THEN ""
                           ELSE SelectSeq(PhaseOrder, LAMBDA p : p \in shown /\
                                    \A q \in shown : us[p] >= us[q])[1],
              inflection |-> detect_inflection(spans)]

-------------------------------------------------------------------------------
(* The calls. *)

AnalyzeMemory ==
    /\ Idle
    /\ \E s \in SpanSignals : Answer("memory", s, MemoryVerdict(s))

AnalyzeCpu ==
    /\ Idle
    /\ \E r \in CpuRecords : Answer("cpu", r, [cpu |-> cpu_bound(r), cache |-> cache(r)])

AnalyzeBreakdown ==
    /\ Idle
    /\ \E task_us \in {0, 5, 10} : \E spans \in TaskRecords :
           Answer("breakdown", [task_us |-> task_us, spans |-> spans],
                  breakdown(task_us, spans))

AnalyzeLeak ==
    /\ Idle
    /\ \E series \in MemorySeries :
           Answer("leak", series,
                  [fit |-> fit_linear(series), verdict |-> memory_leak(series)])

AnalyzePhases ==
    /\ Idle
    /\ \E spans \in PhaseSpans : Answer("phases", spans, phase_profile(spans))

ClassifyPhase ==
    /\ Idle
    /\ \E ipc \in {Unmeasured, 10, 15, 20, 25, 29, 40} : \E wall, cpu \in {0, 1, 6} :
         \E miss \in {Unmeasured, 10, 25, 41, 61, 65, 71, 80} :
           Answer("pattern", <<ipc, miss, wall, cpu>>,
                  classify_pattern(ipc, miss, wall, cpu))

AnalyzerNext == \/ AnalyzeMemory \/ AnalyzeCpu \/ AnalyzeBreakdown
                \/ AnalyzeLeak \/ AnalyzePhases \/ ClassifyPhase

-------------------------------------------------------------------------------
(* Properties. *)

IsBottleneck(r) == r.verdict \notin {"none", "no_memory_bottleneck"}

\* With an IPC below 3, a span that has a memory bottleneck still has one when
\* it misses the cache more often.  (The bands of the patterns overlap just
\* enough; from an IPC of 3 on, or with none measured, they do not.)
BottleneckOutlastsMisses ==
    Called("memory") /\ Below(call.args.ipc, 30) /\ IsBottleneck(call.result) =>
        \A miss \in 0 .. 100 :
            Measured(call.args.miss) /\ miss >= call.args.miss =>
                IsBottleneck(MemoryVerdict([call.args EXCEPT !.miss = miss]))

\* Advice about where memory is placed or how its channels are shared is given
\* only when remote accesses, or the bandwidth, were measured; and a span whose
\* memory was not observed is never given a confident clean bill of health.
AdviceNeedsInstrument ==
    Called("memory") =>
        LET r == call.result
        IN  /\ IsBottleneck(r) =>
                   /\ "memory_local_scheduling" \in r.solutions => Measured(call.args.numa)
                   /\ "memory_interleaving" \in r.solutions =>
                          Measured(call.args.bandwidth) /\ call.args.peak_bw > 0
                   /\ r.primary \in r.patterns /\ Solutions[r.primary] \subseteq r.solutions
            /\ r.verdict = "no_memory_bottleneck" /\ r.confidence > 50 =>
                   call.args.perfspect

\* The two analyzers of one record do not contradict each other: what one calls
\* memory bound, the other calls bound by DRAM, never resident in the cache.
AnalyzersAgree ==
    Called("cpu") => (call.result.cpu = "memory_bound" => call.result.cache = "dram_bound")

\* The three parts are the whole of the task's time unless its sub-spans exceed
\* it, no part is negative, and the one the verdict names is the longest.
BreakdownAddsUp ==
    Called("breakdown") /\ call.result.verdict # "none" =>
        LET r == call.result
            sum == r.inference + r.execution + r.orchestration
            named == CASE r.verdict \in {"inference_dominant", "inference_heavy"} -> r.inference
                       [] r.verdict \in {"execution_dominant", "execution_heavy"} -> r.execution
                       [] OTHER -> r.orchestration
        IN  /\ sum >= call.args.task_us
            /\ sum > call.args.task_us => r.orchestration = 0
            /\ r.orchestration >= 0
            /\ named = Max({r.inference, r.execution, r.orchestration})
            /\ r.verdict \in {"inference_dominant", "execution_dominant"} =>
                   2 * named > call.args.task_us

\* The sum of the squared distances of the points from the line of slope num/den
\* and height height/den.
Residual(series, num, den, height) ==
    Total([k \in DOMAIN series |->
              (den * series[k][2] - num * series[k][1] - height)
              * (den * series[k][2] - num * series[k][1] - height)], DOMAIN series)

\* No line with small coefficients fits the samples better than the one found,
\* the explained share of the variance is a share, and a leak is suspected only
\* when the fitted line explains more than half of it.
LineFitsBest ==
    Called("leak") =>
        LET f == call.result.fit
            n == Len(call.args)
            height == f.den * Ys(call.args) - f.num * Xs(call.args)
        IN  /\ f.r2num <= f.r2den
            /\ \A slope \in -3 .. 3 : \A level \in -3 .. 6 :
                   Residual(call.args, n * f.num, n * f.den, height)
                     <= n * f.den * n * f.den * Residual(call.args, slope, 1, level)
            /\ call.result.verdict = "leak_suspected" => 2 * f.r2num > f.r2den

\* In a run of three turns or more whose spans all belong to a turn, the profile
\* reports an inflection exactly if the other phases overtake reason at the end
\* of some turn, and it does whenever they have more time in the profile itself.
InflectionMatchesProfile ==
    Called("phases") /\ call.result.verdict # "none" =>
        LET spans == call.args
            reason(S) == UsOf(InPhase(S, "reason"))
            other(S) == UsOf({s \in S : PhaseOf(s) \notin {"", "reason"}})
            k == call.result.inflection
        IN  /\ (/\ \A s \in spans : s.turn >= 0
                /\ \E s \in spans : s.turn >= 2 /\ PhaseOf(s) # ""
                /\ reason(spans) > 0 /\ other(spans) > reason(spans))
                    => Measured(k)
            /\ Measured(k) =>
                   LET upto(j) == {s \in spans : s.turn >= 0 /\ s.turn <= j}
                   IN  /\ other(upto(k)) > reason(upto(k))
                       /\ \A j \in 0 .. k - 1 :
                              reason(upto(j)) > 0 => other(upto(j)) <= reason(upto(j))

Missing == {"weight_streaming", "working_set_overflow", "bandwidth_saturation"}
Unobserved == [l3 |-> TRUE, perfspect |-> FALSE, ipc |-> Unmeasured,
               miss |-> Unmeasured, rss |-> Unmeasured, numa |-> Unmeasured,
               tma_memory |-> Unmeasured, bandwidth |-> Unmeasured,
               peak_bw |-> 0, l3_budget |-> 0]

\* A phase of which the profiler says that it misses the cache still does when
\* it misses it more often, and with an IPC below 3 the memory analyzer finds a
\* bottleneck in the same two counters.
ProfilerAgreesWithMemory ==
    Called("pattern") /\ call.result \in Missing =>
        LET ipc == call.args[1]
            miss == call.args[2]
        IN  /\ \A more \in miss .. 100 :
                   classify_pattern(ipc, more, call.args[3], call.args[4]) \in Missing
            /\ Below(ipc, 30) =>
                   IsBottleneck(MemoryVerdict(
                       [Unobserved EXCEPT !.ipc = ipc, !.miss = miss]))

\* The verdicts on one trace are consistent: with each other, with what was
\* measured, and under more misses.
TraceVerdicts ==
    /\ BottleneckOutlastsMisses /\ ProfilerAgreesWithMemory /\ AnalyzersAgree
    /\ AdviceNeedsInstrument /\ BreakdownAddsUp /\ LineFitsBest /\ InflectionMatchesProfile
===============================================================================
