------------------------------- MODULE ProbeRuns -------------------------------
(***************************************************************************)
(* The measurement probes of one run (measurements/l1_subspan, l1_system,  *)
(* l3_perf, perfspect) under the RunContext and the PsutilSampler of       *)
(* runner.py.  Threads and processes sample by themselves; a span is given *)
(* the samples that fall in its window when it is finalized, one probe     *)
(* after the other.  Another collector on the host may take the PMU; what  *)
(* is read then may be impossible, or look like any other reading.         *)
(*                                                                         *)
(* Every event has an instant of its own: clock counts them.  The start-up *)
(* time of perf, by which the instants of its rows lag, is left out.       *)
(***************************************************************************)
EXTENDS Integers, Sequences, FiniteSets, FiniteSetsExt, SequencesExt

CONSTANTS
    TaskSpans,    \* span ids of a kind that perfspect collects
    TurnSpans,    \* the others
    ProbeHosts,   \* [found: SUBSET ProbeNames, able: SUBSET PmuProbes, owner]
    MaxClock,     \* bound on the events of a run
    MaxForeign    \* bound on the times another collector takes the PMU

ProbeSpans == TaskSpans \cup TurnSpans

\* The order in which discovery finds the probes, and the PMU's priority.
ProbeOrder == <<"l1_subspan", "l1_system", "l3_perf", "perfspect">>
PMU_OWNER_PRIORITY == <<"l3_perf", "perfspect">>
PmuProbes == ToSet(PMU_OWNER_PRIORITY)

Position(p, seq) == CHOOSE k \in DOMAIN seq : seq[k] = p

ASSUME ProbesRunAssumption ==
    /\ TaskSpans \cap TurnSpans = {} /\ "l3_perf" \notin ProbeSpans
    /\ MaxClock \in Nat /\ MaxForeign \in Nat
    /\ \A h \in ProbeHosts :
          /\ h.found \subseteq ToSet(ProbeOrder) /\ h.found # {}
          /\ h.able \subseteq PmuProbes

VARIABLES
    clock, probePhase,  \* "new", "on", "stopped"
    probeHost, probes,  \* the host, and the probes kept by the election
    openSpans,      \* [id -> [opened, closed, left (to be asked), cpu]]
    cpuTick,        \* the sampler's tick under way: its reading, where its window began
    sampled,        \* the sampler's last tick: _last_tick_ns
    sysSamples,     \* instants of the samples of l1_system
    perfRows,       \* the rows of l3_perf_continuous.csv
    collectors,     \* perf, and the spans that perfspect collects
    foreign,        \* another collector: holds the PMU, held it since the last row, times
    probeRecords

probeVars == <<clock, probePhase, probeHost, probes, openSpans, cpuTick, sampled,
               sysSamples, perfRows, collectors, foreign, probeRecords>>

\* The CPU figures of a span: _pct_weight_total, and the instants of the readings
\* that its mean and its peak are made of.
NoCpu == [weight |-> 0, mean |-> {}, peak |-> {}]
NoTick == [step |-> "idle", read |-> 0, from |-> 0]

ProbeFrom(h) ==
    /\ clock = 0 /\ probePhase = "new" /\ probeHost = h /\ probes = {}
    /\ openSpans = [s \in {} |-> 0] /\ cpuTick = NoTick /\ sampled = 0
    /\ sysSamples = {} /\ perfRows = {}
    /\ collectors = {} /\ foreign = [on |-> FALSE, dirty |-> FALSE, times |-> 0] /\ probeRecords = {}

ProbeInit == \E h \in ProbeHosts : ProbeFrom(h)

Advance == clock < MaxClock /\ clock' = clock + 1

-------------------------------------------------------------------------------
(* _elect_pmu_owner: able probes first, then the one the environment names, *)
(* then the priority.                                                       *)
Rank(h, p) == IF p = h.owner THEN 0 ELSE Position(p, PMU_OWNER_PRIORITY)

Outranks(h, p, q) ==
    IF {p, q} \subseteq h.able \/ {p, q} \cap h.able = {}
    THEN Rank(h, p) < Rank(h, q)
    ELSE p \in h.able

Bug_DefaultOwner(h) == (h.found \ PmuProbes) \cup {Head(PMU_OWNER_PRIORITY)}

Bug_UnableWins(h) ==
    LET rivals == h.found \cap PmuProbes
    IN  {p \in h.found :
            p \in rivals => \A q \in rivals \ {p} : Rank(h, p) < Rank(h, q)}

ElectPmuOwner(h) ==
    LET rivals == h.found \cap PmuProbes
    IN  {p \in h.found :
            p \in rivals => \A q \in rivals \ {p} : Outranks(h, p, q)}

(* pmu_available: each probe's own check of the host. *)
CanCollect(p) == p \in PmuProbes => p \in probeHost.able

(* l3_perf boots one perf process for the run, or stands down. *)
PerfProcess(kept) == {p \in kept : p = "l3_perf" /\ CanCollect(p)}

(* start(): the election, the sampler, then each probe.                     *)
ProbesStart ==
    /\ probePhase = "new" /\ Advance
    /\ probePhase' = "on"
    /\ probes' = ElectPmuOwner(probeHost)
    /\ collectors' = PerfProcess(probes')
    /\ sampled' = clock'
    /\ UNCHANGED <<probeHost, openSpans, cpuTick, sysSamples, perfRows, foreign, probeRecords>>

Active(p) == probePhase = "on" /\ p \in probes /\ CanCollect(p)

(* perfspect starts a process for a span of the kinds it collects. *)
PerfspectProcess(s) == {t \in {s} \cap TaskSpans : Active("perfspect")}

(* track_span on entry: the span is registered, then every probe observes it. *)
ProbeSpanOpen(s) ==
    /\ probePhase = "on" /\ Advance
    /\ s \notin DOMAIN openSpans /\ ~\E r \in probeRecords : r.span = s
    /\ openSpans' = [t \in DOMAIN openSpans \cup {s} |->
            IF t = s THEN [opened |-> clock', closed |-> 0, left |-> {}, cpu |-> NoCpu]
                     ELSE openSpans[t]]
    /\ collectors' = collectors \cup PerfspectProcess(s)
    /\ UNCHANGED <<probePhase, probeHost, probes, cpuTick, sampled, sysSamples, perfRows, foreign,
                   probeRecords>>

-------------------------------------------------------------------------------
Bug_CreditsWholeWindow(opened, previous, at) == at - previous

(* The part of the sampler's window that lies inside the span; none when the *)
(* span was opened after the tick was stamped.                               *)
Overlap(opened, previous, at) == Max({at - Max({previous, opened}), 0})

(* A reading counts by its overlap.  Without any it is the mean of a span    *)
(* that had no other reading, and the next one with an overlap replaces it.  *)
(* Every reading counts for the peak.                                        *)
Folded(cpu, opened) ==
    LET dt == Overlap(opened, cpuTick.from, sampled)
        others == IF cpu.weight = 0 THEN {} ELSE cpu.mean
    IN  [weight |-> cpu.weight + dt,
         mean |-> IF dt > 0 THEN others \cup {cpuTick.read}
                  ELSE IF cpu.peak = {} THEN {cpuTick.read} ELSE cpu.mean,
         peak |-> cpu.peak \cup {cpuTick.read}]

(* PsutilSampler._run: cpu_percent() reads what the process used since the   *)
(* last call ...                                                             *)
SamplerReads ==
    /\ Active("l1_subspan") /\ cpuTick.step = "idle"
    /\ cpuTick' = [step |-> "read", read |-> clock, from |-> 0]
    /\ UNCHANGED <<clock, probePhase, probeHost, probes, openSpans, sampled, sysSamples,
                   perfRows, collectors, foreign, probeRecords>>

(* ... then the tick is stamped ...                                          *)
SamplerStamps ==
    /\ cpuTick.step = "read" /\ Advance
    /\ cpuTick' = [cpuTick EXCEPT !.step = "stamped", !.from = sampled]
    /\ sampled' = clock'
    /\ UNCHANGED <<probePhase, probeHost, probes, openSpans, sysSamples, perfRows,
                   collectors, foreign, probeRecords>>

(* ... and folded into every span that is in the registry by then.           *)
SamplerFolds ==
    /\ cpuTick.step = "stamped"
    /\ openSpans' = [s \in DOMAIN openSpans |-> [openSpans[s] EXCEPT
            !.cpu = Folded(@, openSpans[s].opened)]]
    /\ cpuTick' = NoTick
    /\ UNCHANGED <<clock, probePhase, probeHost, probes, sampled, sysSamples, perfRows,
                   collectors, foreign, probeRecords>>

(* L1SystemMeasurement._sample_loop appends a sample. *)
SystemSample ==
    /\ Active("l1_system") /\ Advance
    /\ sysSamples' = sysSamples \cup {clock'}
    /\ UNCHANGED <<probePhase, probeHost, probes, openSpans, cpuTick, sampled, perfRows,
                   collectors, foreign, probeRecords>>

(* What the counts of one interval look like: "impossible" when the cycles   *)
(* are more than the CPUs can retire in it; "excess" when they are not, but  *)
(* may be too many for a span together with others, or when misses outnumber *)
(* references; else "plain".  An interval that another collector spoilt may  *)
(* look like any; one that it did not shows an excess only when an event was *)
(* <not counted> and dropped as the row was parsed.                          *)
Readings(spoilt) == {"plain", "excess"} \cup (IF spoilt THEN {"impossible"} ELSE {})

(* perf writes the row of an interval. *)
PerfRow ==
    /\ "l3_perf" \in collectors /\ Advance
    /\ \E reading \in Readings(foreign.dirty) :
          perfRows' = perfRows \cup
              {[at |-> clock', spoilt |-> foreign.dirty, reading |-> reading]}
    /\ foreign' = [foreign EXCEPT !.dirty = foreign.on]
    /\ UNCHANGED <<probePhase, probeHost, probes, openSpans, cpuTick, sampled, sysSamples,
                   collectors, probeRecords>>

ForeignTakes ==
    /\ probePhase = "on" /\ foreign.times < MaxForeign /\ ~foreign.on /\ Advance
    /\ foreign' = [on |-> TRUE, dirty |-> TRUE, times |-> foreign.times + 1]
    /\ UNCHANGED <<probePhase, probeHost, probes, openSpans, cpuTick, sampled, sysSamples,
                   perfRows, collectors, probeRecords>>

ForeignLeaves ==
    /\ foreign.on /\ Advance
    /\ foreign' = [foreign EXCEPT !.on = FALSE]
    /\ UNCHANGED <<probePhase, probeHost, probes, openSpans, cpuTick, sampled, sysSamples,
                   perfRows, collectors, probeRecords>>

-------------------------------------------------------------------------------
(* track_span on exit: the span is closed, then every probe is asked. *)
ProbeSpanClose(s) ==
    /\ s \in DOMAIN openSpans /\ openSpans[s].closed = 0 /\ Advance
    /\ openSpans' = [openSpans EXCEPT ![s].closed = clock',
                                      ![s].left = probes]
    /\ UNCHANGED <<probePhase, probeHost, probes, cpuTick, sampled, sysSamples, perfRows,
                   collectors, foreign, probeRecords>>

Bug_SinceStart(times, opened, at) == {t \in times : t <= at}

Within(times, opened, at) == {t \in times : opened <= t /\ t <= at}

Bug_BadIntervalDropsSpan(rows) ==
    IF \E r \in rows : r.reading = "impossible" THEN {} ELSE rows

(* The intervals whose cycles this machine cannot have retired are dropped  *)
(* before the counts are summed.                                            *)
Plausible(rows) == {r \in rows : r.reading # "impossible"}

(* The interval of row r began when the one before it ended.                *)
BeganInside(r, opened) == \E q \in perfRows : opened <= q.at /\ q.at < r.at

(* The gate on the sums of a whole span: more cycles than the CPUs can      *)
(* retire in its time, or more misses than references.  It passes counts    *)
(* that are real, taken to stay under half of that many cycles; but the sum *)
(* of an interval that began before a short span may be too much for it.    *)
CountsArePhysical(kept, opened) ==
    IF (\A r \in kept : r.reading = "plain") /\ (\E r \in kept : BeganInside(r, opened))
    THEN {TRUE} ELSE {TRUE, FALSE}

(* What a perfspect process leaves: perhaps no summary, when the span was   *)
(* shorter than its start and one interval, or one with the mark of a       *)
(* contended PMU (_pmu_corrupted), which is discarded.                      *)
Summary == {"none", "marked", "metrics"}

RecordOf(s, layer, samples, cpu) ==
    [span |-> s, layer |-> layer, samples |-> samples, cpu |-> cpu,
     opened |-> openSpans[s].opened, closed |-> openSpans[s].closed,
     emitted |-> clock']

(* The record over a window; a window without a sample has none. *)
Sliced(s, layer, times) == IF times = {} THEN {} ELSE {RecordOf(s, layer, times, NoCpu)}

(* finalize_span of each probe: the records it may emit. *)
RecordsOf(p, s) ==
    LET span == openSpans[s]
        kept == {r \in Plausible(perfRows) : span.opened <= r.at /\ r.at <= clock'}
    IN  CASE ~Active(p) -> {{}}
          [] Active(p) /\ p = "l1_subspan" ->
                {{RecordOf(s, "l1", {span.closed}, span.cpu)}}
          [] Active(p) /\ p = "l1_system" ->
                {Sliced(s, "l1_system", Within(sysSamples, span.opened, clock'))}
          [] Active(p) /\ p = "l3_perf" ->
                {IF physical THEN Sliced(s, "l3", {r.at : r \in kept}) ELSE {} :
                     physical \in CountsArePhysical(kept, span.opened)}
          [] Active(p) /\ p = "perfspect" ->
                {IF s \in collectors /\ summary = "metrics"
                 THEN {RecordOf(s, "perfspect", {span.closed}, NoCpu)}
                 ELSE {} : summary \in Summary}

Bug_LeavesProcess(p, s) == collectors

Stopped(p, s) == IF p = "perfspect" THEN collectors \ {s} ELSE collectors

(* The probes are asked in the order in which they were found. *)
NextProbe(left) ==
    CHOOSE p \in left : \A q \in left : Position(p, ProbeOrder) <= Position(q, ProbeOrder)

(* One probe's finalize_span.  perfspect stops its process first and waits  *)
(* for the summary.  After the last probe the span leaves the registry.     *)
FinalizeSpan(s) ==
    /\ s \in DOMAIN openSpans /\ openSpans[s].closed > 0 /\ openSpans[s].left # {}
    /\ Advance
    /\ LET p == NextProbe(openSpans[s].left)
           rest == openSpans[s].left \ {p}
       IN  /\ \E emitted \in RecordsOf(p, s) : probeRecords' = probeRecords \cup emitted
           /\ collectors' = Stopped(p, s)
           /\ openSpans' = IF rest = {}
                           THEN [t \in DOMAIN openSpans \ {s} |-> openSpans[t]]
                           ELSE [openSpans EXCEPT ![s].left = rest]
    /\ UNCHANGED <<probePhase, probeHost, probes, cpuTick, sampled, sysSamples, perfRows, foreign>>

(* perf is interrupted, killed if it does not end, and reaped; what         *)
(* perfspect still collects is finalized and its records dropped.           *)
Halted(running) == running \ ({"l3_perf"} \cup ProbeSpans)

(* stop(): each probe, then the sampler. *)
ProbesStop ==
    /\ probePhase = "on" /\ DOMAIN openSpans = {} /\ Advance
    /\ probePhase' = "stopped"
    /\ collectors' = Halted(collectors)
    /\ UNCHANGED <<probeHost, probes, openSpans, cpuTick, sampled, sysSamples, perfRows,
                   foreign, probeRecords>>

ProbeStep ==
    \/ ProbesStart \/ ProbesStop
    \/ \E s \in ProbeSpans : ProbeSpanOpen(s) \/ ProbeSpanClose(s) \/ FinalizeSpan(s)
    \/ SamplerReads \/ SamplerStamps \/ SamplerFolds
    \/ SystemSample \/ PerfRow
    \/ ForeignTakes \/ ForeignLeaves

ProbeSpec == ProbeInit /\ [][ProbeStep]_probeVars

-------------------------------------------------------------------------------
(* The variables of the probes have their types. *)
ProbeTypeOK ==
    /\ clock \in 0..MaxClock /\ probePhase \in {"new", "on", "stopped"}
    /\ probes \subseteq probeHost.found
    /\ DOMAIN openSpans \subseteq ProbeSpans
    /\ collectors \subseteq ProbeSpans \cup {"l3_perf"}
    /\ \A r \in probeRecords : r.span \in ProbeSpans /\ r.opened < r.emitted

(* Two probes of a run never program the PMU at once, and when one that was *)
(* found could collect, the one that keeps the PMU can (_elect_pmu_owner).  *)
OnePmuOwner ==
    probePhase = "on" =>
        /\ Cardinality(probes \cap PmuProbes) <= 1
        /\ "l3_perf" \in collectors => collectors = {"l3_perf"}
        /\ probeHost.found \cap probeHost.able # {} => probes \cap probeHost.able # {}

(* A span has at most one record of a layer, made of samples that were      *)
(* taken after it opened: a span in which nothing was sampled has none      *)
(* (finalize_span of l1_system and l3_perf: unmeasured is not zero).        *)
RecordsAreOfTheirSpan ==
    \A r \in probeRecords :
        /\ r.samples # {}
        /\ \A t \in r.samples : r.opened <= t /\ t <= r.emitted
        /\ \A q \in probeRecords : q.span = r.span /\ q.layer = r.layer => q = r

(* The CPU that the process used before a span opened is not credited to it, *)
(* however late the sampler is between reading, stamping and folding a tick  *)
(* (the weighting in PsutilSampler): a span's weight is never more than its  *)
(* own time; at most one reading, the first, ended before the span opened;   *)
(* and a mean without weight is that of a span with a single reading.        *)
CpuOfTheSpan(cpu, opened, now) ==
    /\ cpu.weight <= now - opened
    /\ cpu.mean \subseteq cpu.peak
    /\ \A t, u \in cpu.peak : t < opened /\ u < opened => t = u
    /\ cpu.weight = 0 => \A t, u \in cpu.peak : t = u
CpuWithinSpan ==
    /\ \A s \in DOMAIN openSpans : CpuOfTheSpan(openSpans[s].cpu, openSpans[s].opened, clock)
    /\ \A r \in probeRecords : CpuOfTheSpan(r.cpu, r.opened, r.emitted)

(* A perfspect process does not outlive its span, and no collector outlives *)
(* the run.                                                                 *)
NoCollectorLeft ==
    /\ collectors \cap ProbeSpans \subseteq DOMAIN openSpans
    /\ probePhase = "stopped" => collectors = {}

(* A burst of spoilt intervals costs a span those intervals and no more: when *)
(* every spoilt interval of its window is impossible, every other one is      *)
(* counted in full, and one of these lies wholly inside the span, the span    *)
(* gets an l3 record, of exactly the intervals that were not spoilt.          *)
BadIntervalCostsItself ==
    [ \A s \in DOMAIN openSpans :
          LET window == {row \in perfRows : row.at >= openSpans[s].opened}
              good == {row \in window : ~row.spoilt}
          IN  (/\ openSpans[s].left # {} /\ NextProbe(openSpans[s].left) = "l3_perf"
               /\ s \in DOMAIN openSpans' => openSpans'[s].left # openSpans[s].left
               /\ "l3_perf" \in collectors
               /\ \A row \in window :
                     row.reading = IF row.spoilt THEN "impossible" ELSE "plain"
               /\ \E row \in good : BeganInside(row, openSpans[s].opened))
              => \E r \in probeRecords' :
                     r.span = s /\ r.layer = "l3" /\ r.samples = {row.at : row \in good}
    ]_probeVars

(* What the probes of a run report is of its spans and its own, and they end *)
(* with it.                                                                  *)
ProbesHonest ==
    /\ ProbeTypeOK /\ OnePmuOwner /\ RecordsAreOfTheirSpan
    /\ CpuWithinSpan /\ NoCollectorLeft
===============================================================================
