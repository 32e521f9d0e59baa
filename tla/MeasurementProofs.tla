--------------------------- MODULE MeasurementProofs ---------------------------
(***************************************************************************)
(* Proofs about what is measured: the probes of a run report of its spans  *)
(* and their own, for any spans, any hosts, and any other collector that   *)
(* takes the PMU; a cell of the harness and the sampler beside it keep to  *)
(* the cell; what is said of the host and of an engaged profile follows    *)
(* from what the host shows.  The parts share no variable and have         *)
(* invariants of their own.                                                *)
(***************************************************************************)
EXTENDS ProbeRuns, TelemetryRuns, ProfileChecks, FiniteSetTheorems, SequenceTheorems,
        WellFoundedInduction, TLAPS

-------------------------------------------------------------------------------
(* The operators of the model.                                                *)

ProbeName == {"l1_subspan", "l1_system", "l3_perf", "perfspect"}
Layer == {"l1", "l1_system", "l3", "perfspect"}
Cpu == [weight : Nat, mean : SUBSET Nat, peak : SUBSET Nat]
CpuTick == [step : {"idle", "read", "stamped"}, read : Nat, from : Nat]
Span == [opened : Nat, closed : Nat, left : SUBSET ProbeName, cpu : Cpu]
Record == [span : ProbeSpans, layer : Layer, samples : SUBSET Nat, cpu : Cpu,
           opened : Nat, closed : Nat, emitted : Nat]

LEMMA ProbeNames ==
    /\ ToSet(ProbeOrder) = ProbeName
    /\ PmuProbes = {"l3_perf", "perfspect"}
<1>1. /\ DOMAIN ProbeOrder = 1 .. 4 /\ ProbeOrder[1] = "l1_subspan"
      /\ ProbeOrder[2] = "l1_system" /\ ProbeOrder[3] = "l3_perf"
      /\ ProbeOrder[4] = "perfspect"
  BY DEF ProbeOrder
<1>2. /\ DOMAIN PMU_OWNER_PRIORITY = 1 .. 2 /\ PMU_OWNER_PRIORITY[1] = "l3_perf"
      /\ PMU_OWNER_PRIORITY[2] = "perfspect"
  BY DEF PMU_OWNER_PRIORITY
<1>3. \A k \in 1 .. 4 : k = 1 \/ k = 2 \/ k = 3 \/ k = 4
  OBVIOUS
<1>4. \A k \in 1 .. 2 : k = 1 \/ k = 2
  OBVIOUS
<1>5. ToSet(ProbeOrder) = ProbeName
  BY <1>1, <1>3 DEF ToSet, ProbeName
<1>6. PmuProbes = {"l3_perf", "perfspect"}
  BY <1>2, <1>4 DEF ToSet, PmuProbes
<1>7. QED
  BY <1>5, <1>6

LEMMA Positions ==
    /\ \A p \in ProbeName : Position(p, ProbeOrder) \in 1 .. 4
    /\ \A p \in PmuProbes : Position(p, PMU_OWNER_PRIORITY) \in 1 .. 2
    /\ Position("l3_perf", PMU_OWNER_PRIORITY) # Position("perfspect", PMU_OWNER_PRIORITY)
<1>1. /\ DOMAIN ProbeOrder = 1 .. 4 /\ ProbeOrder[1] = "l1_subspan"
      /\ ProbeOrder[2] = "l1_system" /\ ProbeOrder[3] = "l3_perf"
      /\ ProbeOrder[4] = "perfspect"
  BY DEF ProbeOrder
<1>2. /\ DOMAIN PMU_OWNER_PRIORITY = 1 .. 2 /\ PMU_OWNER_PRIORITY[1] = "l3_perf"
      /\ PMU_OWNER_PRIORITY[2] = "perfspect"
  BY DEF PMU_OWNER_PRIORITY
<1>3. \A p \in ProbeName : \E k \in 1 .. 4 : ProbeOrder[k] = p
  BY <1>1 DEF ProbeName
<1>4. \A p \in ProbeName : Position(p, ProbeOrder) \in 1 .. 4
  BY <1>1, <1>3 DEF Position
<1>5. \A p \in PmuProbes : \E k \in 1 .. 2 : PMU_OWNER_PRIORITY[k] = p
  BY <1>2, ProbeNames
<1>6. \A p \in PmuProbes :
         /\ Position(p, PMU_OWNER_PRIORITY) \in 1 .. 2
         /\ PMU_OWNER_PRIORITY[Position(p, PMU_OWNER_PRIORITY)] = p
  BY <1>2, <1>5 DEF Position
<1>7. QED
  BY <1>4, <1>6, ProbeNames

LEMMA NextIsLeft ==
    ASSUME NEW left \in SUBSET ProbeName, left # {}
    PROVE  NextProbe(left) \in left
<1> DEFINE at(p) == Position(p, ProbeOrder)
<1>1. \A p \in left : at(p) \in 1 .. 4
  BY Positions
<1> HIDE DEF at
<1>2. \E p \in left : \A q \in left : at(p) <= at(q)
  <2>1. CASE \E p \in left : at(p) = 1
    BY <1>1, <2>1
  <2>2. CASE (\A p \in left : at(p) # 1) /\ \E p \in left : at(p) = 2
    BY <1>1, <2>2
  <2>3. CASE (\A p \in left : at(p) \notin {1, 2}) /\ \E p \in left : at(p) = 3
    BY <1>1, <2>3
  <2>4. CASE \A p \in left : at(p) \notin {1, 2, 3}
    BY <1>1, <2>4
  <2>5. QED
    BY <2>1, <2>2, <2>3, <2>4
<1>3. QED
  BY <1>2 DEF NextProbe, at

\* The election leaves one of the probes that program the PMU, and one that can
\* collect if there is any.
LEMMA ElectionSound ==
    ASSUME NEW h \in ProbeHosts
    PROVE  /\ ElectPmuOwner(h) \subseteq h.found /\ ElectPmuOwner(h) \subseteq ProbeName
           /\ ~({"l3_perf", "perfspect"} \subseteq ElectPmuOwner(h))
           /\ h.found \cap h.able # {} => ElectPmuOwner(h) \cap h.able # {}
<1>1. h.found \subseteq ProbeName /\ h.able \subseteq {"l3_perf", "perfspect"}
  BY ProbesRunAssumption, ProbeNames
<1>2. /\ Rank(h, "l3_perf") \in Int /\ Rank(h, "perfspect") \in Int
      /\ Rank(h, "l3_perf") # Rank(h, "perfspect")
  BY Positions, ProbeNames DEF Rank
<1>3. \A p \in h.found :
         p \in ElectPmuOwner(h) <=>
             (p \in {"l3_perf", "perfspect"} =>
                 \A q \in (h.found \cap {"l3_perf", "perfspect"}) \ {p} : Outranks(h, p, q))
  BY ProbeNames DEF ElectPmuOwner
<1>4. ElectPmuOwner(h) \subseteq h.found
  BY DEF ElectPmuOwner
<1>5. ~(Outranks(h, "l3_perf", "perfspect") /\ Outranks(h, "perfspect", "l3_perf"))
  BY <1>2 DEF Outranks
<1>6. /\ "l3_perf" \in h.able /\ "perfspect" \notin h.able =>
             Outranks(h, "l3_perf", "perfspect")
      /\ "perfspect" \in h.able /\ "l3_perf" \notin h.able =>
             Outranks(h, "perfspect", "l3_perf")
      /\ Outranks(h, "l3_perf", "perfspect") \/ Outranks(h, "perfspect", "l3_perf")
  BY <1>2 DEF Outranks
<1>7. ~({"l3_perf", "perfspect"} \subseteq ElectPmuOwner(h))
  BY <1>3, <1>4, <1>5
<1>8. ASSUME h.found \cap h.able # {}
      PROVE  ElectPmuOwner(h) \cap h.able # {}
  BY <1>1, <1>3, <1>6, <1>8
<1>9. QED
  BY <1>1, <1>4, <1>7, <1>8

LEMMA MaxOfTwo ==
    ASSUME NEW a \in Int, NEW b \in Int
    PROVE  Max({a, b}) \in {a, b} /\ Max({a, b}) >= a /\ Max({a, b}) >= b
<1>1. \E x \in {a, b} : \A y \in {a, b} : x >= y
  <2>1. a >= b \/ b >= a
    OBVIOUS
  <2>2. QED
    BY <2>1
<1>2. QED
  BY <1>1 DEF Max

-------------------------------------------------------------------------------
(* The inductive invariant.                                                   *)

TypeInv ==
    /\ clock \in 0 .. MaxClock /\ probePhase \in {"new", "on", "stopped"}
    /\ probeHost \in ProbeHosts /\ probes \subseteq ProbeName
    /\ DOMAIN openSpans \subseteq ProbeSpans
    /\ openSpans \in [DOMAIN openSpans -> Span]
    /\ sampled \in 0 .. clock /\ sysSamples \subseteq 0 .. clock
    /\ cpuTick \in CpuTick
    /\ perfRows \subseteq [at : 0 .. clock, spoilt : BOOLEAN,
                           reading : {"plain", "excess", "impossible"}]
    /\ collectors \subseteq ProbeSpans \cup {"l3_perf"}
    /\ foreign \in [on : BOOLEAN, dirty : BOOLEAN, times : Nat]
    /\ probeRecords \subseteq Record

\* The probes are those of the election, and outside the run nothing is open.
PhaseInv ==
    /\ probePhase = "new" => probes = {}
    /\ probePhase # "new" => probes = ElectPmuOwner(probeHost)
    /\ probePhase # "on" => collectors = {} /\ DOMAIN openSpans = {}

SpanOK(span) ==
    /\ span.opened <= clock /\ span.closed <= clock
    /\ IF span.closed > 0 THEN span.opened <= span.closed ELSE span.left = {}
    /\ span.left \subseteq probes
SpansInv == \A s \in DOMAIN openSpans : SpanOK(openSpans[s])

\* A tick reads after the last one was stamped, and is stamped after it read.
TickInv ==
    /\ probePhase = "new" => cpuTick.step = "idle"
    /\ cpuTick.step = "read" => sampled <= cpuTick.read /\ cpuTick.read <= clock
    /\ cpuTick.step = "stamped" => cpuTick.from <= cpuTick.read /\ cpuTick.read < sampled

\* A span has the CPU of the ticks that were folded so far, as far as they lie in it;
\* a tick that reads once the span has a reading reads inside the span.
FoldedUpTo == IF cpuTick.step = "stamped" THEN cpuTick.from ELSE sampled
CpuOK(cpu, opened) ==
    /\ cpu.weight = 0 \/ cpu.weight + opened <= FoldedUpTo
    /\ cpuTick.step # "idle" /\ cpu.peak # {} => opened <= cpuTick.read
    /\ cpu.mean \subseteq cpu.peak
    /\ \A t, u \in cpu.peak : t < opened /\ u < opened => t = u
    /\ cpu.weight = 0 => \A t, u \in cpu.peak : t = u
CpuInv == \A s \in DOMAIN openSpans : CpuOK(openSpans[s].cpu, openSpans[s].opened)

\* A process of perfspect belongs to a span for which perfspect is yet to be asked.
CollectorsInv ==
    /\ "l3_perf" \in collectors => "l3_perf" \in probes /\ CanCollect("l3_perf")
    /\ \A s \in collectors \cap ProbeSpans :
          /\ s \in DOMAIN openSpans /\ "perfspect" \in probes
          /\ openSpans[s].closed = 0 \/ "perfspect" \in openSpans[s].left

ProbeOf(layer) ==
    CASE layer = "l1" -> "l1_subspan" [] layer = "l3" -> "l3_perf" [] OTHER -> layer

RecordOK(r) ==
    /\ r.opened < r.emitted /\ r.emitted <= clock
    /\ r.samples # {} /\ \A t \in r.samples : r.opened <= t /\ t <= r.emitted
    /\ CpuOfTheSpan(r.cpu, r.opened, r.emitted)

\* A probe that left a record for a span has been asked, and is not asked again.
Answered(r) ==
    r.span \in DOMAIN openSpans =>
        openSpans[r.span].closed > 0 /\ ProbeOf(r.layer) \notin openSpans[r.span].left

RecordsInv ==
    /\ \A r \in probeRecords : RecordOK(r) /\ Answered(r)
    /\ \A q, r \in probeRecords : q.span = r.span /\ q.layer = r.layer => q = r

ProbeInv ==
    /\ TypeInv /\ PhaseInv /\ SpansInv /\ TickInv /\ CpuInv /\ CollectorsInv
    /\ RecordsInv

-------------------------------------------------------------------------------
(* What a probe emits for a span.                                             *)

LEMMA RecordIs ==
    ASSUME TypeInv, SpansInv, Advance, NEW s \in DOMAIN openSpans,
           NEW layer \in Layer, NEW samples \in SUBSET Nat, NEW cpu \in Cpu,
           samples # {}, \A t \in samples : openSpans[s].opened <= t /\ t <= clock',
           CpuOfTheSpan(cpu, openSpans[s].opened, clock')
    PROVE  \A r : r = RecordOf(s, layer, samples, cpu) =>
               r \in Record /\ r.span = s /\ r.layer = layer /\ RecordOK(r)'
<1> DEFINE span == openSpans[s]
<1> SUFFICES ASSUME NEW r, r = RecordOf(s, layer, samples, cpu)
             PROVE  r \in Record /\ r.span = s /\ r.layer = layer /\ RecordOK(r)'
  OBVIOUS
<1>1. /\ span \in Span /\ s \in ProbeSpans
      /\ clock \in Nat /\ clock' = clock + 1 /\ span.opened <= clock
  BY ProbesRunAssumption DEF TypeInv, SpansInv, SpanOK, Advance
<1>2. /\ r.span = s /\ r.layer = layer /\ r.samples = samples /\ r.cpu = cpu
      /\ r.opened = span.opened /\ r.emitted = clock'
  BY DEF RecordOf
<1>3. r \in Record
  BY <1>1 DEF RecordOf, Record, Span
<1>4. span.opened \in Nat
  BY <1>1 DEF Span
<1>5. r.opened < r.emitted /\ r.emitted <= clock'
  BY <1>1, <1>2, <1>4
<1>6. /\ r.samples # {} /\ \A t \in r.samples : r.opened <= t /\ t <= r.emitted
      /\ CpuOfTheSpan(r.cpu, r.opened, r.emitted)
  BY <1>2
<1>7. RecordOK(r)'
  BY <1>5, <1>6 DEF RecordOK
<1>8. QED
  BY <1>2, <1>3, <1>7

LEMMA EmittedIs ==
    ASSUME TypeInv, SpansInv, CpuInv, TickInv, NEW s \in DOMAIN openSpans, FinalizeSpan(s),
           NEW p \in ProbeName, NEW emitted \in RecordsOf(p, s)
    PROVE  /\ \A r \in emitted : /\ r \in Record /\ r.span = s
                                 /\ ProbeOf(r.layer) = p /\ RecordOK(r)'
           /\ \A q, r \in emitted : q = r
<1> DEFINE span == openSpans[s]
           Good(set) ==
               /\ \A r \in set : /\ r \in Record /\ r.span = s
                                 /\ ProbeOf(r.layer) = p /\ RecordOK(r)'
               /\ \A q, r \in set : q = r
<1>1. /\ Advance /\ span.closed > 0
      /\ clock \in Nat /\ clock' = clock + 1 /\ span \in Span
      /\ span.opened <= span.closed /\ span.closed <= clock
      /\ span.opened \in Nat /\ span.closed \in Nat /\ span.cpu \in Cpu
  <2>1. span \in Span /\ SpanOK(span)
    BY DEF TypeInv, SpansInv
  <2>2. /\ Advance /\ span.closed > 0 /\ clock \in Nat /\ clock' = clock + 1
    BY ProbesRunAssumption DEF FinalizeSpan, Advance, TypeInv
  <2>3. QED
    BY <2>1, <2>2 DEF SpanOK, Span
<1>0. /\ CpuOfTheSpan(span.cpu, span.opened, clock')
      /\ NoCpu \in Cpu /\ CpuOfTheSpan(NoCpu, span.opened, clock')
  <2>1. CpuOK(span.cpu, span.opened) /\ span.cpu.weight \in Nat
    BY <1>1 DEF CpuInv, Cpu
  <2>2. FoldedUpTo \in Nat /\ FoldedUpTo <= clock
    BY <1>1 DEF FoldedUpTo, TypeInv, TickInv, CpuTick
  <2>3. span.cpu.weight <= clock' - span.opened
    BY <1>1, <2>1, <2>2 DEF CpuOK
  <2>4. NoCpu \in Cpu /\ NoCpu.weight = 0 /\ NoCpu.mean = {} /\ NoCpu.peak = {}
    BY DEF NoCpu, Cpu
  <2>5. 0 <= clock' - span.opened
    BY <1>1
  <2>6. QED
    BY <2>1, <2>3, <2>4, <2>5 DEF CpuOK, CpuOfTheSpan
<1>2. ASSUME NEW l \in Layer, NEW samples \in SUBSET Nat, NEW cpu \in Cpu,
             ProbeOf(l) = p,
             samples # {}, \A t \in samples : span.opened <= t /\ t <= clock',
             CpuOfTheSpan(cpu, span.opened, clock')
      PROVE  Good({RecordOf(s, l, samples, cpu)})
  <2>1. \A r : r = RecordOf(s, l, samples, cpu) =>
                  r \in Record /\ r.span = s /\ r.layer = l /\ RecordOK(r)'
    BY <1>1, <1>2, RecordIs
  <2>2. QED
    BY <1>2, <2>1
<1>3. Good({})
  OBVIOUS
<1> HIDE DEF Good
<1>4. ASSUME NEW l \in Layer, ProbeOf(l) = p, NEW times \in SUBSET Nat,
             \A t \in times : span.opened <= t /\ t <= clock'
      PROVE  Good(Sliced(s, l, times))
  <2>1. CASE times = {}
    BY <1>3, <2>1 DEF Sliced
  <2>2. CASE times # {}
    <3>1. Good({RecordOf(s, l, times, NoCpu)})
      BY <1>0, <1>2, <1>4, <2>2
    <3>2. QED
      BY <2>2, <3>1 DEF Sliced
  <2>3. QED
    BY <2>1, <2>2
<1>5. CASE ~Active(p)
  <2>1. emitted = {}
    BY <1>5 DEF RecordsOf
  <2>2. QED
    BY <1>3, <2>1 DEF Good
<1>6. CASE Active(p) /\ p = "l1_subspan"
  <2>1. emitted = {RecordOf(s, "l1", {span.closed}, span.cpu)}
    BY <1>6 DEF RecordsOf
  <2>2. ProbeOf("l1") = p /\ "l1" \in Layer
    BY <1>6 DEF ProbeOf, Layer
  <2> DEFINE samples == {span.closed}
  <2>3. /\ samples \in SUBSET Nat /\ samples # {}
        /\ \A t \in samples : span.opened <= t /\ t <= clock'
    BY <1>1
  <2> HIDE DEF samples
  <2>4. Good({RecordOf(s, "l1", samples, span.cpu)})
    BY <1>0, <1>1, <1>2, <2>2, <2>3
  <2>5. QED
    BY <2>1, <2>4 DEF Good, samples
<1>7. CASE Active(p) /\ p = "l1_system"
  <2> DEFINE times == Within(sysSamples, span.opened, clock')
  <2>1. emitted = Sliced(s, "l1_system", times)
    BY <1>7 DEF RecordsOf
  <2>2. ProbeOf("l1_system") = p /\ "l1_system" \in Layer
    BY <1>7 DEF ProbeOf, Layer
  <2>3. times \in SUBSET Nat /\ \A t \in times : span.opened <= t /\ t <= clock'
    BY ProbesRunAssumption DEF TypeInv, Within
  <2> HIDE DEF times
  <2>4. Good(emitted)
    BY <1>4, <2>1, <2>2, <2>3
  <2>5. QED
    BY <2>4 DEF Good
<1>8. CASE Active(p) /\ p = "l3_perf"
  <2> DEFINE kept == {r \in Plausible(perfRows) : span.opened <= r.at /\ r.at <= clock'}
             times == {r.at : r \in kept}
  <2>1. emitted = Sliced(s, "l3", times) \/ emitted = {}
    BY <1>8 DEF RecordsOf
  <2>2. ProbeOf("l3") = p /\ "l3" \in Layer
    BY <1>8 DEF ProbeOf, Layer
  <2>3. times \in SUBSET Nat /\ \A t \in times : span.opened <= t /\ t <= clock'
    BY ProbesRunAssumption DEF TypeInv, Plausible
  <2> HIDE DEF times
  <2>4. Good(emitted)
    BY <1>3, <1>4, <2>1, <2>2, <2>3
  <2>5. QED
    BY <2>4 DEF Good
<1>9. CASE Active(p) /\ p = "perfspect"
  <2>1. emitted = {} \/ emitted = {RecordOf(s, "perfspect", {span.closed}, NoCpu)}
    BY <1>9 DEF RecordsOf
  <2>2. ProbeOf("perfspect") = p /\ "perfspect" \in Layer
    BY <1>9 DEF ProbeOf, Layer
  <2> DEFINE samples == {span.closed}
  <2>3. /\ samples \in SUBSET Nat /\ samples # {}
        /\ \A t \in samples : span.opened <= t /\ t <= clock'
    BY <1>1
  <2> HIDE DEF samples
  <2>4. Good({RecordOf(s, "perfspect", samples, NoCpu)})
    BY <1>0, <1>2, <2>2, <2>3
  <2>5. Good(emitted)
    BY <1>3, <2>1, <2>4 DEF samples
  <2>6. QED
    BY <2>5 DEF Good
<1>10. QED
  BY <1>5, <1>6, <1>7, <1>8, <1>9 DEF ProbeName

-------------------------------------------------------------------------------
(* What each step preserves.                                                  *)

LEMMA ClockStep ==
    ASSUME TypeInv, Advance
    PROVE  /\ clock \in Nat /\ clock' = clock + 1 /\ clock' \in 0 .. MaxClock
           /\ 0 .. clock \subseteq 0 .. clock'
  BY ProbesRunAssumption DEF TypeInv, Advance

LEMMA HostIs ==
    ASSUME TypeInv
    PROVE  /\ ElectPmuOwner(probeHost) \subseteq ProbeName
           /\ PerfProcess(probes) \subseteq {"l3_perf"}
           /\ PerfProcess(probes) \subseteq probes
  BY ElectionSound DEF TypeInv, PerfProcess

LEMMA FinalizeIs ==
    ASSUME TypeInv, SpansInv, CpuInv, TickInv, NEW s \in ProbeSpans, FinalizeSpan(s)
    PROVE  /\ s \in DOMAIN openSpans /\ openSpans[s].closed > 0 /\ Advance
           /\ \E p \in openSpans[s].left : \E emitted :
                 LET rest == openSpans[s].left \ {p}
                 IN  /\ \A r \in emitted : /\ r \in Record /\ r.span = s
                                           /\ ProbeOf(r.layer) = p /\ RecordOK(r)'
                     /\ \A q, r \in emitted : q = r
                     /\ p = NextProbe(openSpans[s].left)
                     /\ emitted \in RecordsOf(p, s)
                     /\ probeRecords' = probeRecords \cup emitted
                     /\ collectors' = Stopped(p, s)
                     /\ openSpans' = IF rest = {}
                                     THEN [t \in DOMAIN openSpans \ {s} |-> openSpans[t]]
                                     ELSE [openSpans EXCEPT ![s].left = rest]
<1> DEFINE left == openSpans[s].left
           p == NextProbe(left)
<1>1. s \in DOMAIN openSpans /\ openSpans[s].closed > 0 /\ Advance /\ left # {}
  BY DEF FinalizeSpan
<1>2. left \in SUBSET ProbeName
  BY <1>1 DEF TypeInv, Span
<1>3. p \in left
  BY <1>1, <1>2, NextIsLeft
<1> HIDE DEF p
<1>4. PICK emitted \in RecordsOf(p, s) : probeRecords' = probeRecords \cup emitted
  BY DEF FinalizeSpan, p
<1>5. /\ \A r \in emitted : /\ r \in Record /\ r.span = s
                            /\ ProbeOf(r.layer) = p /\ RecordOK(r)'
      /\ \A q, r \in emitted : q = r
  <2>1. p \in ProbeName
    BY <1>2, <1>3
  <2>2. QED
    BY <1>1, <1>4, <2>1, EmittedIs
<1>6. /\ collectors' = Stopped(p, s)
      /\ openSpans' = IF left \ {p} = {}
                      THEN [t \in DOMAIN openSpans \ {s} |-> openSpans[t]]
                      ELSE [openSpans EXCEPT ![s].left = left \ {p}]
  BY DEF FinalizeSpan, p
<1>7. QED
  BY <1>1, <1>3, <1>4, <1>5, <1>6 DEF p

LEMMA FoldedIs ==
    ASSUME TypeInv, NEW cpu \in Cpu, NEW opened \in Nat
    PROVE  LET dt == Overlap(opened, cpuTick.from, sampled)
               to == Folded(cpu, opened)
           IN  /\ to \in Cpu /\ dt \in Nat
               /\ dt = 0 <=> sampled <= cpuTick.from \/ sampled <= opened
               /\ dt # 0 => dt <= sampled - opened /\ dt <= sampled - cpuTick.from
               /\ to.weight = cpu.weight + dt /\ to.peak = cpu.peak \cup {cpuTick.read}
               /\ to.mean \subseteq cpu.mean \cup {cpuTick.read}
<1> DEFINE dt == Overlap(opened, cpuTick.from, sampled)
           left == Max({cpuTick.from, opened})
<1>1. /\ sampled \in Nat /\ cpuTick.from \in Nat /\ cpuTick.read \in Nat
      /\ cpu.weight \in Nat /\ cpu.mean \in SUBSET Nat /\ cpu.peak \in SUBSET Nat
  BY DEF TypeInv, CpuTick, Cpu
<1>2. left \in {cpuTick.from, opened} /\ left >= cpuTick.from /\ left >= opened
  <2>1. cpuTick.from \in Int /\ opened \in Int
    BY <1>1
  <2>2. /\ Max({cpuTick.from, opened}) \in {cpuTick.from, opened}
        /\ Max({cpuTick.from, opened}) >= cpuTick.from
        /\ Max({cpuTick.from, opened}) >= opened
    BY <2>1, MaxOfTwo
  <2>3. QED
    BY <2>2
<1>3. dt = Max({sampled - left, 0})
  BY DEF Overlap
<1> HIDE DEF left, dt
<1>4. dt \in {sampled - left, 0} /\ dt >= sampled - left /\ dt >= 0
  <2>1. left \in Int /\ sampled - left \in Int /\ 0 \in Int
    BY <1>1, <1>2
  <2>2. /\ Max({sampled - left, 0}) \in {sampled - left, 0}
        /\ Max({sampled - left, 0}) >= sampled - left /\ Max({sampled - left, 0}) >= 0
    BY <2>1, MaxOfTwo
  <2>3. QED
    BY <1>3, <2>2
<1>5. /\ dt \in Nat
      /\ dt = 0 <=> sampled <= cpuTick.from \/ sampled <= opened
      /\ dt # 0 => dt <= sampled - opened /\ dt <= sampled - cpuTick.from
  BY <1>1, <1>2, <1>4
<1> DEFINE to == Folded(cpu, opened)
<1>6. /\ to.weight = cpu.weight + dt /\ to.peak = cpu.peak \cup {cpuTick.read}
      /\ to.mean \subseteq cpu.mean \cup {cpuTick.read}
      /\ to = [weight |-> to.weight, mean |-> to.mean, peak |-> to.peak]
  BY DEF Folded, dt
<1>7. to.weight \in Nat /\ to.peak \in SUBSET Nat /\ to.mean \in SUBSET Nat
  BY <1>1, <1>5, <1>6
<1> HIDE DEF to
<1>8. to \in Cpu
  BY <1>6, <1>7 DEF Cpu
<1>9. QED
  BY <1>5, <1>6, <1>8 DEF to, dt

LEMMA TypeStep ==
    ASSUME TypeInv, SpansInv, CpuInv, TickInv, [ProbeStep]_probeVars
    PROVE  TypeInv'
<1> USE DEF TypeInv
<1>1. CASE ProbesStart
  <2>1. /\ probes' \subseteq ProbeName /\ collectors' \subseteq {"l3_perf"}
    BY <1>1, ElectionSound DEF ProbesStart, PerfProcess
  <2>2. QED
    BY <1>1, <2>1, ClockStep DEF ProbesStart
<1>2. CASE ProbesStop
  BY <1>2, ClockStep DEF ProbesStop, Halted
<1>3. ASSUME NEW s \in ProbeSpans, ProbeSpanOpen(s)
      PROVE  TypeInv'
  <2>1. /\ DOMAIN openSpans' = DOMAIN openSpans \cup {s}
        /\ openSpans' \in [DOMAIN openSpans' -> Span]
    <3>1. [opened |-> clock', closed |-> 0, left |-> {}, cpu |-> NoCpu] \in Span
      <4>1. NoCpu \in Cpu
        BY DEF NoCpu, Cpu
      <4>2. clock' \in Nat
        BY <1>3, ClockStep DEF ProbeSpanOpen
      <4>3. QED
        BY <4>1, <4>2 DEF Span
    <3>2. QED
      BY <1>3, <3>1 DEF ProbeSpanOpen
  <2>2. PerfspectProcess(s) \subseteq ProbeSpans
    BY <1>3 DEF PerfspectProcess
  <2>3. QED
    BY <1>3, <2>1, <2>2, ClockStep DEF ProbeSpanOpen
<1>4. ASSUME NEW s \in ProbeSpans, ProbeSpanClose(s)
      PROVE  TypeInv'
  <2>1. /\ DOMAIN openSpans' = DOMAIN openSpans
        /\ openSpans' \in [DOMAIN openSpans' -> Span]
    BY <1>4, ClockStep DEF ProbeSpanClose, Span
  <2>2. QED
    BY <1>4, <2>1, ClockStep DEF ProbeSpanClose
<1>5. ASSUME NEW s \in ProbeSpans, FinalizeSpan(s)
      PROVE  TypeInv'
  <2>1. PICK p, emitted :
               /\ p \in openSpans[s].left
               /\ \A r \in emitted : r \in Record
               /\ probeRecords' = probeRecords \cup emitted
               /\ collectors' = Stopped(p, s)
               /\ openSpans' = IF openSpans[s].left \ {p} = {}
                               THEN [t \in DOMAIN openSpans \ {s} |-> openSpans[t]]
                               ELSE [openSpans EXCEPT ![s].left = openSpans[s].left \ {p}]
    BY <1>5, FinalizeIs
  <2>2. s \in DOMAIN openSpans /\ Advance
    BY <1>5 DEF FinalizeSpan
  <2>3. /\ DOMAIN openSpans' \subseteq ProbeSpans
        /\ openSpans' \in [DOMAIN openSpans' -> Span]
    BY <2>1, <2>2 DEF Span
  <2>4. collectors' \subseteq collectors /\ probeRecords' \subseteq Record
    BY <2>1 DEF Stopped
  <2>5. QED
    BY <1>5, <2>2, <2>3, <2>4, ClockStep DEF FinalizeSpan
<1>6. CASE SamplerReads \/ SamplerStamps
  <2>1. cpuTick' \in CpuTick
    <3>1. CASE SamplerReads
      BY <3>1, ProbesRunAssumption DEF SamplerReads, CpuTick
    <3>2. CASE SamplerStamps
      <4>1. sampled \in Nat /\ cpuTick \in CpuTick
            /\ cpuTick' = [cpuTick EXCEPT !.step = "stamped", !.from = sampled]
        BY <3>2, ProbesRunAssumption DEF SamplerStamps
      <4>2. QED
        BY <4>1 DEF CpuTick
    <3>3. QED
      BY <1>6, <3>1, <3>2
  <2>2. QED
    BY <1>6, <2>1, ClockStep DEF SamplerReads, SamplerStamps
<1>13. CASE SamplerFolds
  <2>1. \A s \in DOMAIN openSpans : Folded(openSpans[s].cpu, openSpans[s].opened) \in Cpu
    <3> SUFFICES ASSUME NEW s \in DOMAIN openSpans
                 PROVE  Folded(openSpans[s].cpu, openSpans[s].opened) \in Cpu
      OBVIOUS
    <3>1. openSpans[s].cpu \in Cpu /\ openSpans[s].opened \in Nat
      BY DEF Span
    <3>2. QED
      BY <3>1, FoldedIs
  <2>2. /\ DOMAIN openSpans' = DOMAIN openSpans
        /\ openSpans' \in [DOMAIN openSpans' -> Span]
    BY <1>13, <2>1 DEF SamplerFolds, Span
  <2>3. cpuTick' \in CpuTick
    BY <1>13 DEF SamplerFolds, NoTick, CpuTick
  <2>4. QED
    BY <1>13, <2>2, <2>3 DEF SamplerFolds
<1>7. CASE SystemSample
  BY <1>7, ClockStep DEF SystemSample
<1>8. CASE PerfRow
  BY <1>8, ClockStep DEF PerfRow, Readings
<1>9. CASE ForeignTakes
  BY <1>9, ClockStep DEF ForeignTakes
<1>10. CASE ForeignLeaves
  BY <1>10, ClockStep DEF ForeignLeaves
<1>11. CASE UNCHANGED probeVars
  BY <1>11 DEF probeVars
<1>12. QED
  BY <1>1, <1>2, <1>3, <1>4, <1>5, <1>6, <1>7, <1>8, <1>9, <1>10, <1>11, <1>13 DEF ProbeStep

LEMMA PhaseStep ==
    ASSUME TypeInv, PhaseInv, [ProbeStep]_probeVars
    PROVE  PhaseInv'
<1> USE DEF PhaseInv
<1>1. CASE ProbesStart
  BY <1>1 DEF ProbesStart
<1>2. CASE ProbesStop
  BY <1>2 DEF ProbesStop, Halted, TypeInv
<1>3. ASSUME NEW s \in ProbeSpans, ProbeSpanOpen(s)
      PROVE  PhaseInv'
  BY <1>3 DEF ProbeSpanOpen
<1>4. ASSUME NEW s \in ProbeSpans, ProbeSpanClose(s) \/ FinalizeSpan(s)
      PROVE  PhaseInv'
  <2>1. s \in DOMAIN openSpans /\ probePhase = "on"
    BY <1>4 DEF ProbeSpanClose, FinalizeSpan, TypeInv
  <2>2. UNCHANGED <<probePhase, probeHost, probes>>
    BY <1>4 DEF ProbeSpanClose, FinalizeSpan
  <2>3. QED
    BY <2>1, <2>2
<1>5. CASE SamplerReads \/ SamplerStamps \/ SamplerFolds \/ SystemSample
  BY <1>5 DEF SamplerReads, SamplerStamps, SamplerFolds, SystemSample, Active
<1>6. CASE PerfRow \/ ForeignLeaves
  BY <1>6 DEF PerfRow, ForeignLeaves
<1>7. CASE ForeignTakes
  BY <1>7 DEF ForeignTakes
<1>8. CASE UNCHANGED probeVars
  BY <1>8 DEF probeVars
<1>9. QED
  BY <1>1, <1>2, <1>3, <1>4, <1>5, <1>6, <1>7, <1>8 DEF ProbeStep

LEMMA ClockKeeps ==
    ASSUME TypeInv, [ProbeStep]_probeVars
    PROVE  clock' \in Nat /\ clock \in Nat /\ clock <= clock'
<1>1. Advance \/ clock' = clock
  BY DEF ProbeStep, ProbesStart, ProbesStop, ProbeSpanOpen, ProbeSpanClose, FinalizeSpan,
         SamplerReads, SamplerStamps, SamplerFolds, SystemSample, PerfRow, ForeignTakes,
         ForeignLeaves, probeVars
<1>2. QED
  BY <1>1, ClockStep DEF TypeInv

\* All that happens to the CPU of a span that is open already is to be folded into.
LEMMA SpansKept ==
    ASSUME TypeInv, SpansInv, CpuInv, TickInv, [ProbeStep]_probeVars, ~SamplerFolds,
           NEW t \in DOMAIN openSpans, t \in DOMAIN openSpans'
    PROVE  /\ openSpans'[t].opened = openSpans[t].opened
           /\ openSpans'[t].cpu = openSpans[t].cpu
<1>0. openSpans[t] \in Span
  BY DEF TypeInv
<1>1. ASSUME NEW s \in ProbeSpans, ProbeSpanOpen(s)
      PROVE  openSpans'[t] = openSpans[t]
  BY <1>1 DEF ProbeSpanOpen
<1>2. ASSUME NEW s \in ProbeSpans, ProbeSpanClose(s)
      PROVE  /\ openSpans'[t].opened = openSpans[t].opened
             /\ openSpans'[t].cpu = openSpans[t].cpu
  BY <1>0, <1>2 DEF ProbeSpanClose, Span
<1>3. ASSUME NEW s \in ProbeSpans, FinalizeSpan(s)
      PROVE  /\ openSpans'[t].opened = openSpans[t].opened
             /\ openSpans'[t].cpu = openSpans[t].cpu
  <2>1. PICK p \in openSpans[s].left :
               openSpans' = IF openSpans[s].left \ {p} = {}
                            THEN [x \in DOMAIN openSpans \ {s} |-> openSpans[x]]
                            ELSE [openSpans EXCEPT ![s].left = openSpans[s].left \ {p}]
    BY <1>3, FinalizeIs
  <2>2. QED
    BY <1>0, <2>1 DEF Span
<1>4. QED
  BY <1>1, <1>2, <1>3 DEF ProbeStep, ProbesStart, ProbesStop, SamplerReads, SamplerStamps,
     SystemSample, PerfRow, ForeignTakes, ForeignLeaves, probeVars

LEMMA SpansStep ==
    ASSUME TypeInv, PhaseInv, SpansInv, CpuInv, TickInv, [ProbeStep]_probeVars
    PROVE  SpansInv'
<1>0. \A s \in DOMAIN openSpans :
         /\ openSpans[s] \in Span /\ SpanOK(openSpans[s])
  BY DEF TypeInv, SpansInv
<1>1. CASE ProbesStart
  BY <1>1 DEF ProbesStart, PhaseInv, SpansInv
<1>2. CASE ProbesStop
  BY <1>2 DEF ProbesStop, SpansInv
<1>3. ASSUME NEW s \in ProbeSpans, ProbeSpanOpen(s)
      PROVE  SpansInv'
  <2>1. clock \in Nat /\ clock' = clock + 1 /\ probes' = probes
    BY <1>3, ClockStep DEF ProbeSpanOpen
  <2>2. SUFFICES ASSUME NEW t \in DOMAIN openSpans'
                 PROVE  SpanOK(openSpans[t])'
    BY DEF SpansInv
  <2>3. CASE t = s
    <3>1. /\ openSpans'[t].opened = clock' /\ openSpans'[t].closed = 0
          /\ openSpans'[t].left = {}
      BY <1>3, <2>3 DEF ProbeSpanOpen
    <3>2. QED
      BY <2>1, <3>1 DEF SpanOK
  <2>4. CASE t # s
    <3>1. t \in DOMAIN openSpans /\ openSpans'[t] = openSpans[t]
      BY <1>3, <2>4 DEF ProbeSpanOpen
    <3>2. QED
      BY <1>0, <2>1, <3>1 DEF SpanOK, Span
  <2>5. QED
    BY <2>3, <2>4
<1>4. ASSUME NEW s \in ProbeSpans, ProbeSpanClose(s)
      PROVE  SpansInv'
  <2>1. clock \in Nat /\ clock' = clock + 1 /\ probes' = probes
    BY <1>4, ClockStep DEF ProbeSpanClose
  <2>2. SUFFICES ASSUME NEW t \in DOMAIN openSpans'
                 PROVE  SpanOK(openSpans[t])'
    BY DEF SpansInv
  <2>3. t \in DOMAIN openSpans
    BY <1>4 DEF ProbeSpanClose
  <2>4. CASE t = s
    <3>1. /\ openSpans'[t].opened = openSpans[t].opened /\ openSpans'[t].closed = clock'
          /\ openSpans'[t].left = probes
      BY <1>0, <1>4, <2>3, <2>4 DEF ProbeSpanClose, Span
    <3>2. QED
      BY <1>0, <2>1, <2>3, <3>1 DEF SpanOK, Span
  <2>5. CASE t # s
    <3>1. openSpans'[t] = openSpans[t]
      BY <1>4, <2>3, <2>5 DEF ProbeSpanClose
    <3>2. QED
      BY <1>0, <2>1, <2>3, <3>1 DEF SpanOK, Span
  <2>6. QED
    BY <2>4, <2>5
<1>5. ASSUME NEW s \in ProbeSpans, FinalizeSpan(s)
      PROVE  SpansInv'
  <2>1. clock \in Nat /\ clock' = clock + 1 /\ probes' = probes
    BY <1>5, ClockStep DEF FinalizeSpan
  <2>2. PICK p \in openSpans[s].left :
               openSpans' = IF openSpans[s].left \ {p} = {}
                            THEN [t \in DOMAIN openSpans \ {s} |-> openSpans[t]]
                            ELSE [openSpans EXCEPT ![s].left = openSpans[s].left \ {p}]
    BY <1>5, FinalizeIs
  <2>3. SUFFICES ASSUME NEW t \in DOMAIN openSpans'
                 PROVE  SpanOK(openSpans[t])'
    BY DEF SpansInv
  <2>4. /\ t \in DOMAIN openSpans
        /\ openSpans'[t].opened = openSpans[t].opened
        /\ openSpans'[t].closed = openSpans[t].closed
        /\ openSpans'[t].left \subseteq openSpans[t].left
    <3>1. CASE openSpans[s].left \ {p} = {}
      BY <2>2, <3>1
    <3>2. CASE openSpans[s].left \ {p} # {} /\ t = s
      BY <1>0, <2>2, <3>2 DEF Span
    <3>3. CASE openSpans[s].left \ {p} # {} /\ t # s
      BY <2>2, <3>3
    <3>4. QED
      BY <3>1, <3>2, <3>3
  <2>5. QED
    BY <1>0, <2>1, <2>4 DEF SpanOK, Span
<1>6. CASE SamplerFolds
  <2>1. /\ clock' = clock /\ probes' = probes /\ DOMAIN openSpans' = DOMAIN openSpans
        /\ \A t \in DOMAIN openSpans : /\ openSpans'[t].opened = openSpans[t].opened
                                       /\ openSpans'[t].closed = openSpans[t].closed
                                       /\ openSpans'[t].left = openSpans[t].left
    BY <1>0, <1>6 DEF SamplerFolds, Span
  <2>2. QED
    BY <1>0, <2>1 DEF SpansInv, SpanOK
<1>8. ASSUME UNCHANGED <<openSpans, probes>>
      PROVE  SpansInv'
  <2>1. clock' \in Nat /\ clock \in Nat /\ clock <= clock'
    BY ClockKeeps
  <2>2. QED
    BY <1>0, <1>8, <2>1 DEF SpansInv, SpanOK, Span
<1>9. CASE \/ SamplerReads \/ SamplerStamps \/ SystemSample \/ PerfRow
           \/ ForeignTakes \/ ForeignLeaves \/ UNCHANGED probeVars
  BY <1>8, <1>9 DEF SamplerReads, SamplerStamps, SystemSample, PerfRow, ForeignTakes,
     ForeignLeaves, probeVars
<1>10. QED
  BY <1>1, <1>2, <1>3, <1>4, <1>5, <1>6, <1>9 DEF ProbeStep

LEMMA TickStep ==
    ASSUME TypeInv, TickInv, [ProbeStep]_probeVars
    PROVE  TickInv'
<1>0. clock \in Nat /\ sampled \in Nat /\ sampled <= clock /\ cpuTick \in CpuTick
  BY DEF TypeInv
<1>1. CASE ProbesStart
  BY <1>1 DEF ProbesStart, TickInv
<1>2. CASE SamplerReads
  BY <1>0, <1>2 DEF SamplerReads, TickInv, Active
<1>3. CASE SamplerStamps
  <2>1. /\ clock' = clock + 1 /\ sampled' = clock' /\ probePhase' = probePhase
        /\ cpuTick'.step = "stamped" /\ cpuTick'.from = sampled /\ cpuTick'.read = cpuTick.read
        /\ cpuTick.step = "read"
    BY <1>0, <1>3, ClockStep DEF SamplerStamps, CpuTick
  <2>2. cpuTick.read \in Nat /\ probePhase # "new"
    BY <1>0, <2>1 DEF CpuTick, TickInv
  <2>3. QED
    BY <1>0, <2>1, <2>2 DEF TickInv
<1>4. CASE SamplerFolds
  BY <1>4 DEF SamplerFolds, NoTick, TickInv
<1>5. ASSUME UNCHANGED <<cpuTick, sampled>>, probePhase' # "new" \/ UNCHANGED probePhase
      PROVE  TickInv'
  <2>1. clock' \in Nat /\ clock <= clock' /\ cpuTick.read \in Nat
    BY <1>0, ClockKeeps DEF CpuTick
  <2>2. QED
    BY <1>0, <1>5, <2>1 DEF TickInv
<1>6. CASE \/ ProbesStop \/ SystemSample \/ PerfRow \/ ForeignTakes \/ ForeignLeaves
           \/ UNCHANGED probeVars
  BY <1>5, <1>6 DEF ProbesStop, SystemSample, PerfRow, ForeignTakes, ForeignLeaves, probeVars
<1>7. ASSUME NEW s \in ProbeSpans,
             ProbeSpanOpen(s) \/ ProbeSpanClose(s) \/ FinalizeSpan(s)
      PROVE  TickInv'
  BY <1>5, <1>7 DEF ProbeSpanOpen, ProbeSpanClose, FinalizeSpan
<1>8. QED
  BY <1>1, <1>2, <1>3, <1>4, <1>6, <1>7 DEF ProbeStep

LEMMA CpuStep ==
    ASSUME TypeInv, PhaseInv, SpansInv, TickInv, CpuInv, [ProbeStep]_probeVars
    PROVE  CpuInv'
<1>0. /\ clock \in Nat /\ sampled \in Nat /\ sampled <= clock /\ cpuTick \in CpuTick
      /\ \A t \in DOMAIN openSpans :
            /\ openSpans[t].opened \in Nat /\ openSpans[t].cpu \in Cpu
            /\ openSpans[t].opened <= clock
            /\ CpuOK(openSpans[t].cpu, openSpans[t].opened)
  BY DEF TypeInv, SpansInv, SpanOK, CpuInv, Span
<1>1. SUFFICES ASSUME NEW t \in DOMAIN openSpans'
               PROVE  CpuOK(openSpans[t].cpu, openSpans[t].opened)'
  BY DEF CpuInv
<1> DEFINE cpu == openSpans[t].cpu
           opened == openSpans[t].opened
<1>2. CASE t \notin DOMAIN openSpans
  <2>1. ProbeSpanOpen(t)
    <3>1. ASSUME NEW s \in ProbeSpans, FinalizeSpan(s)
          PROVE  DOMAIN openSpans' \subseteq DOMAIN openSpans
      <4>1. PICK p : openSpans' = IF openSpans[s].left \ {p} = {}
                                  THEN [u \in DOMAIN openSpans \ {s} |-> openSpans[u]]
                                  ELSE [openSpans EXCEPT ![s].left = openSpans[s].left \ {p}]
        BY <3>1, FinalizeIs
      <4>2. QED
        BY <4>1
    <3>2. ASSUME NEW s \in ProbeSpans, ProbeSpanOpen(s)
          PROVE  DOMAIN openSpans' = DOMAIN openSpans \cup {s}
      BY <3>2 DEF ProbeSpanOpen
    <3>3. ASSUME NEW s \in ProbeSpans, ProbeSpanClose(s)
          PROVE  DOMAIN openSpans' = DOMAIN openSpans
      BY <3>3 DEF ProbeSpanClose
    <3>4. CASE SamplerFolds
      BY <1>1, <1>2, <3>4 DEF SamplerFolds
    <3>5. CASE UNCHANGED openSpans
      BY <1>1, <1>2, <3>5
    <3>6. QED
      BY <1>1, <1>2, <3>1, <3>2, <3>3, <3>4, <3>5 DEF ProbeStep, ProbesStart, ProbesStop,
         SamplerReads, SamplerStamps, SystemSample, PerfRow, ForeignTakes, ForeignLeaves, probeVars
  <2>2. openSpans'[t].cpu = NoCpu
    BY <2>1 DEF ProbeSpanOpen
  <2>3. NoCpu.weight = 0 /\ NoCpu.mean = {} /\ NoCpu.peak = {}
    BY DEF NoCpu
  <2>4. QED
    BY <2>2, <2>3 DEF CpuOK
<1>3. CASE t \in DOMAIN openSpans /\ SamplerFolds
  <2> DEFINE to == Folded(cpu, opened)
             dt == Overlap(opened, cpuTick.from, sampled)
  <2>1. /\ openSpans'[t].cpu = to /\ openSpans'[t].opened = opened
        /\ cpuTick.step = "stamped" /\ cpuTick'.step = "idle" /\ sampled' = sampled
    BY <1>3 DEF SamplerFolds, NoTick, TypeInv, Span
  <2>2. /\ cpu.weight \in Nat /\ opened \in Nat /\ cpu.peak \in SUBSET Nat
        /\ cpuTick.read \in Nat /\ cpuTick.from \in Nat
        /\ cpuTick.from <= cpuTick.read /\ cpuTick.read < sampled
    BY <1>0, <1>3, <2>1 DEF Cpu, CpuTick, TickInv
  <2>3. /\ dt \in Nat
        /\ dt = 0 <=> sampled <= cpuTick.from \/ sampled <= opened
        /\ dt # 0 => dt <= sampled - opened /\ dt <= sampled - cpuTick.from
        /\ to.weight = cpu.weight + dt /\ to.peak = cpu.peak \cup {cpuTick.read}
        /\ to.mean \subseteq cpu.mean \cup {cpuTick.read}
    BY <1>0, <1>3, FoldedIs
  <2>4. /\ cpu.weight = 0 \/ cpu.weight + opened <= cpuTick.from
        /\ cpu.peak # {} => opened <= cpuTick.read
        /\ cpu.mean \subseteq cpu.peak
        /\ \A x, u \in cpu.peak : x < opened /\ u < opened => x = u
        /\ cpu.weight = 0 => \A x, u \in cpu.peak : x = u
    BY <1>0, <1>3, <2>1 DEF CpuOK, FoldedUpTo
  <2> HIDE DEF cpu, opened, to, dt
  <2>5. to.weight = 0 \/ to.weight + opened <= sampled
    BY <1>0, <2>2, <2>3, <2>4
  <2>6. to.mean \subseteq to.peak
    BY <2>3, <2>4
  <2>7. \A x, u \in to.peak : x < opened /\ u < opened => x = u
    <3>1. CASE cpu.peak = {}
      BY <2>3, <3>1
    <3>2. CASE cpu.peak # {}
      <4>1. ~(cpuTick.read < opened)
        BY <2>2, <2>4, <3>2
      <4>2. QED
        BY <2>3, <2>4, <4>1
    <3>3. QED
      BY <3>1, <3>2
  <2>8. to.weight = 0 => \A x, u \in to.peak : x = u
    <3>1. ASSUME to.weight = 0
          PROVE  cpu.peak = {}
      <4>1. dt = 0
        BY <2>2, <2>3, <3>1
      <4>2. sampled <= opened
        BY <1>0, <2>2, <2>3, <4>1
      <4>3. QED
        BY <1>0, <2>2, <2>4, <4>2
    <3>2. QED
      BY <2>3, <3>1
  <2>9. QED
    BY <2>1, <2>5, <2>6, <2>7, <2>8 DEF CpuOK, FoldedUpTo
<1>4. CASE t \in DOMAIN openSpans /\ ~SamplerFolds
  <2>1. openSpans'[t].opened = opened /\ openSpans'[t].cpu = cpu
    BY <1>4, SpansKept
  <2>2. ~ProbesStart
    BY <1>4 DEF ProbesStart, PhaseInv
  <2>3. /\ FoldedUpTo' = FoldedUpTo
        /\ cpuTick'.step # "idle" /\ cpu.peak # {} => opened <= cpuTick'.read
    <3>1. CASE SamplerReads
      <4>1. /\ cpuTick.step = "idle" /\ cpuTick'.step = "read" /\ cpuTick'.read = clock
            /\ sampled' = sampled
        BY <3>1 DEF SamplerReads
      <4>2. QED
        BY <1>0, <1>4, <4>1 DEF FoldedUpTo
    <3>2. CASE SamplerStamps
      <4>1. /\ cpuTick.step = "read" /\ cpuTick'.step = "stamped"
            /\ cpuTick'.from = sampled /\ cpuTick'.read = cpuTick.read
        BY <1>0, <3>2 DEF SamplerStamps, CpuTick
      <4>2. QED
        BY <1>0, <1>4, <4>1 DEF FoldedUpTo, CpuOK
    <3>3. CASE UNCHANGED <<cpuTick, sampled>>
      BY <1>0, <1>4, <3>3 DEF FoldedUpTo, CpuOK
    <3>4. QED
      BY <1>4, <2>2, <3>1, <3>2, <3>3 DEF ProbeStep, ProbesStop, ProbeSpanOpen,
         ProbeSpanClose, FinalizeSpan, SystemSample, PerfRow, ForeignTakes, ForeignLeaves,
         probeVars
  <2>4. CpuOK(cpu, opened)
    BY <1>0, <1>4
  <2> HIDE DEF cpu, opened
  <2>5. QED
    BY <2>1, <2>3, <2>4 DEF CpuOK
<1>5. QED
  BY <1>2, <1>3, <1>4

LEMMA CollectorsStep ==
    ASSUME TypeInv, PhaseInv, SpansInv, CpuInv, TickInv, CollectorsInv,
           [ProbeStep]_probeVars
    PROVE  CollectorsInv'
<1>0. \A s \in DOMAIN openSpans : openSpans[s] \in Span
  BY DEF TypeInv
<1>1. CASE ProbesStart
  <2>1. /\ collectors' \subseteq {"l3_perf"} /\ collectors' \subseteq probes'
        /\ "l3_perf" \in collectors' => CanCollect("l3_perf")'
    BY <1>1 DEF ProbesStart, PerfProcess, CanCollect
  <2>2. QED
    BY <2>1, ProbesRunAssumption DEF CollectorsInv
<1>2. CASE ProbesStop
  <2>1. collectors' = {}
    BY <1>2 DEF ProbesStop, Halted, TypeInv
  <2>2. QED
    BY <2>1 DEF CollectorsInv, CanCollect
<1>3. ASSUME NEW s \in ProbeSpans, ProbeSpanOpen(s)
      PROVE  CollectorsInv'
  <2>1. /\ collectors' = collectors \cup PerfspectProcess(s) /\ probes' = probes
        /\ probeHost' = probeHost
        /\ DOMAIN openSpans' = DOMAIN openSpans \cup {s}
        /\ openSpans'[s].closed = 0
        /\ \A t \in DOMAIN openSpans \ {s} : openSpans'[t] = openSpans[t]
    BY <1>3 DEF ProbeSpanOpen
  <2>2. /\ PerfspectProcess(s) \subseteq {s}
        /\ PerfspectProcess(s) # {} => "perfspect" \in probes
    BY DEF PerfspectProcess, Active
  <2>3. QED
    BY <1>3, <2>1, <2>2, ProbesRunAssumption DEF CollectorsInv, CanCollect
<1>4. ASSUME NEW s \in ProbeSpans, ProbeSpanClose(s)
      PROVE  CollectorsInv'
  <2>1. /\ collectors' = collectors /\ probes' = probes /\ probeHost' = probeHost
        /\ DOMAIN openSpans' = DOMAIN openSpans /\ s \in DOMAIN openSpans
        /\ openSpans'[s].left = probes
        /\ \A t \in DOMAIN openSpans \ {s} : openSpans'[t] = openSpans[t]
    BY <1>0, <1>4 DEF ProbeSpanClose, Span
  <2>2. QED
    BY <2>1 DEF CollectorsInv, CanCollect
<1>5. ASSUME NEW s \in ProbeSpans, FinalizeSpan(s)
      PROVE  CollectorsInv'
  <2>1. PICK p \in openSpans[s].left :
               /\ collectors' = Stopped(p, s)
               /\ openSpans' = IF openSpans[s].left \ {p} = {}
                               THEN [t \in DOMAIN openSpans \ {s} |-> openSpans[t]]
                               ELSE [openSpans EXCEPT ![s].left = openSpans[s].left \ {p}]
    BY <1>5, FinalizeIs
  <2>2. /\ s \in DOMAIN openSpans /\ openSpans[s].closed > 0 /\ probes' = probes
        /\ openSpans[s].closed \in Nat
    BY <1>0, <1>5 DEF FinalizeSpan, Span
  <2>3. /\ collectors' \subseteq collectors
        /\ s \in collectors' => s \in collectors /\ p # "perfspect"
    BY <2>1 DEF Stopped
  <2>4. \A t \in DOMAIN openSpans \ {s} :
           t \in DOMAIN openSpans' /\ openSpans'[t] = openSpans[t]
    BY <2>1
  <2>5. ASSUME s \in collectors'
        PROVE  /\ s \in DOMAIN openSpans' /\ "perfspect" \in probes
               /\ "perfspect" \in openSpans'[s].left
    <3>1. "perfspect" \in probes /\ "perfspect" \in openSpans[s].left \ {p}
      BY <1>5, <2>2, <2>3, <2>5 DEF CollectorsInv
    <3>2. s \in DOMAIN openSpans' /\ openSpans'[s].left = openSpans[s].left \ {p}
      BY <1>0, <2>1, <2>2, <3>1 DEF Span
    <3>3. QED
      BY <3>1, <3>2
  <2>6. "l3_perf" \in collectors' => "l3_perf" \in probes' /\ CanCollect("l3_perf")'
    BY <1>5, <2>2, <2>3 DEF CollectorsInv, CanCollect, FinalizeSpan
  <2>7. ASSUME NEW t \in collectors' \cap ProbeSpans
        PROVE  /\ t \in DOMAIN openSpans' /\ "perfspect" \in probes'
               /\ openSpans'[t].closed = 0 \/ "perfspect" \in openSpans'[t].left
    <3>1. CASE t = s
      BY <2>2, <2>5, <2>7, <3>1
    <3>2. CASE t # s
      BY <2>2, <2>3, <2>4, <2>7, <3>2 DEF CollectorsInv
    <3>3. QED
      BY <3>1, <3>2
  <2>8. QED
    BY <2>6, <2>7 DEF CollectorsInv
<1>6. CASE SamplerFolds
  <2>1. /\ collectors' = collectors /\ probes' = probes /\ probeHost' = probeHost
        /\ DOMAIN openSpans' = DOMAIN openSpans
        /\ \A t \in DOMAIN openSpans : /\ openSpans'[t].closed = openSpans[t].closed
                                       /\ openSpans'[t].left = openSpans[t].left
    BY <1>0, <1>6 DEF SamplerFolds, Span
  <2>2. QED
    BY <2>1 DEF CollectorsInv, CanCollect
<1>7. CASE \/ SamplerReads \/ SamplerStamps \/ SystemSample \/ PerfRow
           \/ ForeignTakes \/ ForeignLeaves \/ UNCHANGED probeVars
  BY <1>7 DEF SamplerReads, SamplerStamps, SystemSample, PerfRow, ForeignTakes,
     ForeignLeaves, probeVars, CollectorsInv, CanCollect
<1>8. QED
  BY <1>1, <1>2, <1>3, <1>4, <1>5, <1>6, <1>7 DEF ProbeStep

LEMMA OldRecord ==
    ASSUME TypeInv, [ProbeStep]_probeVars, NEW r \in probeRecords, RecordOK(r)
    PROVE  RecordOK(r)'
<1>1. clock' \in Nat /\ clock \in Nat /\ clock <= clock' /\ r.emitted \in Nat
  BY ClockKeeps DEF TypeInv, Record
<1>2. QED
  BY <1>1 DEF RecordOK

LEMMA RecordsStep ==
    ASSUME TypeInv, PhaseInv, SpansInv, CpuInv, TickInv, RecordsInv, [ProbeStep]_probeVars
    PROVE  RecordsInv'
<1>0. \A s \in DOMAIN openSpans : openSpans[s] \in Span
  BY DEF TypeInv
<1>1. \A r \in probeRecords : RecordOK(r)'
  BY OldRecord DEF RecordsInv
<1>2. ASSUME probeRecords' = probeRecords, \A r \in probeRecords : Answered(r)'
      PROVE  RecordsInv'
  BY <1>1, <1>2 DEF RecordsInv
<1>3. ASSUME probeRecords' = probeRecords, DOMAIN openSpans' \subseteq DOMAIN openSpans,
             \A t \in DOMAIN openSpans' :
                /\ openSpans[t].closed > 0 => openSpans'[t].closed > 0
                /\ openSpans[t].closed > 0 => openSpans'[t].left \subseteq openSpans[t].left
      PROVE  RecordsInv'
  <2>1. \A r \in probeRecords : Answered(r)'
    BY <1>3 DEF RecordsInv, Answered
  <2>2. QED
    BY <1>2, <1>3, <2>1
<1>4. CASE ProbesStart \/ ProbesStop
  BY <1>3, <1>4 DEF ProbesStart, ProbesStop
<1>5. ASSUME NEW s \in ProbeSpans, ProbeSpanOpen(s)
      PROVE  RecordsInv'
  <2>1. /\ probeRecords' = probeRecords
        /\ DOMAIN openSpans' = DOMAIN openSpans \cup {s}
        /\ \A t \in DOMAIN openSpans \ {s} : openSpans'[t] = openSpans[t]
        /\ \A r \in probeRecords : r.span # s
    BY <1>5 DEF ProbeSpanOpen
  <2>2. \A r \in probeRecords : Answered(r)'
    BY <2>1 DEF RecordsInv, Answered
  <2>3. QED
    BY <1>2, <2>1, <2>2
<1>6. ASSUME NEW s \in ProbeSpans, ProbeSpanClose(s)
      PROVE  RecordsInv'
  <2>1. /\ probeRecords' = probeRecords /\ openSpans[s].closed = 0
        /\ DOMAIN openSpans' = DOMAIN openSpans
        /\ \A t \in DOMAIN openSpans \ {s} : openSpans'[t] = openSpans[t]
    BY <1>6 DEF ProbeSpanClose
  <2>2. QED
    BY <1>3, <2>1
<1>7. ASSUME NEW s \in ProbeSpans, FinalizeSpan(s)
      PROVE  RecordsInv'
  <2>1. PICK p, emitted :
               /\ p \in openSpans[s].left
               /\ \A r \in emitted : /\ r \in Record /\ r.span = s
                                     /\ ProbeOf(r.layer) = p /\ RecordOK(r)'
               /\ \A q, r \in emitted : q = r
               /\ probeRecords' = probeRecords \cup emitted
               /\ openSpans' = IF openSpans[s].left \ {p} = {}
                               THEN [t \in DOMAIN openSpans \ {s} |-> openSpans[t]]
                               ELSE [openSpans EXCEPT ![s].left = openSpans[s].left \ {p}]
    BY <1>7, FinalizeIs
  <2>2. s \in DOMAIN openSpans /\ openSpans[s].closed > 0
    BY <1>7 DEF FinalizeSpan
  <2>3. /\ \A t \in DOMAIN openSpans' \ {s} :
              t \in DOMAIN openSpans /\ openSpans'[t] = openSpans[t]
        /\ s \in DOMAIN openSpans' =>
              /\ openSpans'[s].closed = openSpans[s].closed
              /\ openSpans'[s].left = openSpans[s].left \ {p}
    BY <1>0, <2>1, <2>2 DEF Span
  <2>4. \A r \in probeRecords' : Answered(r)'
    <3> SUFFICES ASSUME NEW r \in probeRecords', r.span \in DOMAIN openSpans'
                 PROVE  /\ openSpans'[r.span].closed > 0
                        /\ ProbeOf(r.layer) \notin openSpans'[r.span].left
      BY DEF Answered
    <3>1. CASE r \in probeRecords
      BY <2>2, <2>3, <3>1 DEF RecordsInv, Answered
    <3>2. CASE r \in emitted
      BY <2>1, <2>2, <2>3, <3>2
    <3>3. QED
      BY <2>1, <3>1, <3>2
  <2>5. ASSUME NEW q \in probeRecords', NEW r \in probeRecords',
               q.span = r.span, q.layer = r.layer
        PROVE  q = r
    <3>1. \A x \in probeRecords, y \in emitted : ~(x.span = y.span /\ x.layer = y.layer)
      <4> SUFFICES ASSUME NEW x \in probeRecords, NEW y \in emitted,
                          x.span = y.span, x.layer = y.layer
                   PROVE  FALSE
        OBVIOUS
      <4>1. x.span = s /\ ProbeOf(x.layer) = p
        BY <2>1
      <4>2. ProbeOf(x.layer) \notin openSpans[s].left
        BY <2>2, <4>1 DEF RecordsInv, Answered
      <4>3. QED
        BY <2>1, <4>1, <4>2
    <3>2. QED
      BY <2>1, <2>5, <3>1 DEF RecordsInv
  <2>6. \A r \in probeRecords' : RecordOK(r)'
    BY <1>1, <2>1
  <2>7. QED
    BY <2>4, <2>5, <2>6 DEF RecordsInv
<1>8. CASE SamplerFolds
  <2>1. /\ probeRecords' = probeRecords /\ DOMAIN openSpans' = DOMAIN openSpans
        /\ \A t \in DOMAIN openSpans : /\ openSpans'[t].closed = openSpans[t].closed
                                       /\ openSpans'[t].left = openSpans[t].left
    BY <1>0, <1>8 DEF SamplerFolds, Span
  <2>2. QED
    BY <1>3, <2>1
<1>9. CASE \/ SamplerReads \/ SamplerStamps \/ SystemSample \/ PerfRow
           \/ ForeignTakes \/ ForeignLeaves \/ UNCHANGED probeVars
  <2>1. probeRecords' = probeRecords /\ openSpans' = openSpans
    BY <1>9 DEF SamplerReads, SamplerStamps, SystemSample, PerfRow, ForeignTakes,
       ForeignLeaves, probeVars
  <2>2. QED
    BY <1>3, <2>1
<1>10. QED
  BY <1>4, <1>5, <1>6, <1>7, <1>8, <1>9 DEF ProbeStep

-------------------------------------------------------------------------------
LEMMA InitProbeInv == ProbeInit => ProbeInv
<1> SUFFICES ASSUME NEW h \in ProbeHosts, ProbeFrom(h)
             PROVE  ProbeInv
  BY DEF ProbeInit
<1>1. TypeInv
  BY ProbesRunAssumption DEF ProbeFrom, TypeInv, Span, NoTick, CpuTick
<1>2. PhaseInv /\ SpansInv /\ TickInv /\ CpuInv /\ CollectorsInv /\ RecordsInv
  BY DEF ProbeFrom, PhaseInv, SpansInv, TickInv, CpuInv, CollectorsInv, RecordsInv, NoTick
<1>3. QED
  BY <1>1, <1>2 DEF ProbeInv

LEMMA ProbeInvStep == ProbeInv /\ [ProbeStep]_probeVars => ProbeInv'
  BY TypeStep, PhaseStep, SpansStep, TickStep, CpuStep, CollectorsStep, RecordsStep
     DEF ProbeInv

LEMMA ProbeInvImplies == ProbeInv => ProbesHonest
<1> SUFFICES ASSUME ProbeInv
             PROVE  ProbesHonest
  OBVIOUS
<1> USE DEF ProbeInv
<1>1. probePhase = "on" =>
         /\ probes = ElectPmuOwner(probeHost)
         /\ ~({"l3_perf", "perfspect"} \subseteq probes)
         /\ probeHost.found \cap probeHost.able # {} => probes \cap probeHost.able # {}
  BY ElectionSound DEF PhaseInv, TypeInv
<1>2. ProbeTypeOK
  <2>1. probes \subseteq probeHost.found
    BY ElectionSound DEF PhaseInv, TypeInv
  <2>2. \A r \in probeRecords : r.span \in ProbeSpans /\ r.opened < r.emitted
    BY DEF RecordsInv, RecordOK, TypeInv, Record
  <2>3. QED
    BY <2>1, <2>2 DEF ProbeTypeOK, TypeInv
<1>3. OnePmuOwner
  <2> SUFFICES ASSUME probePhase = "on"
               PROVE  /\ Cardinality(probes \cap PmuProbes) <= 1
                      /\ "l3_perf" \in collectors => collectors = {"l3_perf"}
                      /\ probeHost.found \cap probeHost.able # {} =>
                             probes \cap probeHost.able # {}
    BY DEF OnePmuOwner
  <2>1. Cardinality(probes \cap PmuProbes) <= 1
    <3>1. PICK p : probes \cap PmuProbes \subseteq {p}
      BY <1>1, ProbeNames
    <3>2. probes \cap PmuProbes = {} \/ probes \cap PmuProbes = {p}
      BY <3>1
    <3>3. Cardinality({}) = 0 /\ Cardinality({p}) = 1
      BY FS_EmptySet, FS_Singleton
    <3>4. QED
      BY <3>2, <3>3
  <2>2. "l3_perf" \in collectors => collectors = {"l3_perf"}
    BY <1>1 DEF CollectorsInv, TypeInv
  <2>3. QED
    BY <1>1, <2>1, <2>2
<1>4. RecordsAreOfTheirSpan
  BY DEF RecordsAreOfTheirSpan, RecordsInv, RecordOK
<1>6. CpuWithinSpan
  <2>1. ASSUME NEW s \in DOMAIN openSpans
        PROVE  CpuOfTheSpan(openSpans[s].cpu, openSpans[s].opened, clock)
    <3>1. /\ openSpans[s].opened \in Nat /\ openSpans[s].cpu.weight \in Nat
          /\ openSpans[s].opened <= clock /\ clock \in Nat
          /\ CpuOK(openSpans[s].cpu, openSpans[s].opened)
      BY DEF TypeInv, Span, Cpu, SpansInv, SpanOK, CpuInv
    <3>2. FoldedUpTo \in Nat /\ FoldedUpTo <= clock
      BY <3>1 DEF FoldedUpTo, TypeInv, TickInv, CpuTick
    <3>3. openSpans[s].cpu.weight <= clock - openSpans[s].opened
      BY <3>1, <3>2 DEF CpuOK
    <3>4. QED
      BY <3>1, <3>3 DEF CpuOK, CpuOfTheSpan
  <2>2. QED
    BY <2>1 DEF CpuWithinSpan, RecordsInv, RecordOK
<1>7. NoCollectorLeft
  BY DEF NoCollectorLeft, CollectorsInv, PhaseInv
<1>8. QED
  BY <1>2, <1>3, <1>4, <1>6, <1>7 DEF ProbesHonest

\* The step of a span that l3_perf is asked for while perf runs.
LEMMA L3Record ==
    ASSUME ProbeInv, NEW s \in ProbeSpans, FinalizeSpan(s),
           NextProbe(openSpans[s].left) = "l3_perf", "l3_perf" \in collectors,
           NEW window, window = {row \in perfRows : row.at >= openSpans[s].opened},
           \A row \in window : row.reading = IF row.spoilt THEN "impossible" ELSE "plain",
           NEW sound \in window, ~sound.spoilt, BeganInside(sound, openSpans[s].opened)
    PROVE  \E r \in probeRecords' :
               /\ r.span = s /\ r.layer = "l3"
               /\ r.samples = {row.at : row \in {row \in window : ~row.spoilt}}
<1> USE DEF ProbeInv
<1> DEFINE opened == openSpans[s].opened
           good == {row \in window : ~row.spoilt}
           kept == {r \in Plausible(perfRows) : opened <= r.at /\ r.at <= clock'}
           times == {r.at : r \in kept}
<1>1. s \in DOMAIN openSpans /\ Advance /\ opened \in Nat
  BY DEF FinalizeSpan, TypeInv, Span
<1>2. kept = good
  <2>1. \A row \in perfRows : row.at \in Nat /\ row.at <= clock'
    BY <1>1, ClockStep DEF TypeInv
  <2>2. \A row \in perfRows : row.at >= opened <=> opened <= row.at
    BY <1>1, <2>1
  <2>3. QED
    BY <2>1, <2>2 DEF Plausible
<1>3. sound \in kept /\ \A row \in kept : row.reading = "plain"
  BY <1>2
<1>4. CountsArePhysical(kept, opened) = {TRUE}
  BY <1>3 DEF CountsArePhysical
<1>5. times # {} /\ times = {row.at : row \in good}
  BY <1>2, <1>3
<1>6. Active("l3_perf")
  BY <1>1 DEF CollectorsInv, PhaseInv, TypeInv, Active
<1>7. PICK p, emitted :
             /\ p \in openSpans[s].left
             /\ p = NextProbe(openSpans[s].left) /\ emitted \in RecordsOf(p, s)
             /\ probeRecords' = probeRecords \cup emitted
  BY FinalizeIs
<1>8. emitted = Sliced(s, "l3", times)
  <2>1. RecordsOf("l3_perf", s) = {IF physical THEN Sliced(s, "l3", times) ELSE {} :
                                      physical \in CountsArePhysical(kept, opened)}
    BY <1>6 DEF RecordsOf
  <2>2. QED
    BY <1>4, <1>7, <2>1
<1> HIDE DEF times
<1>9. emitted = {RecordOf(s, "l3", times, NoCpu)}
  BY <1>5, <1>8 DEF Sliced
<1> DEFINE r == RecordOf(s, "l3", times, NoCpu)
<1>10. r.span = s /\ r.layer = "l3" /\ r.samples = times
  BY DEF RecordOf
<1>11. r \in probeRecords'
  BY <1>7, <1>9
<1>12. QED
  BY <1>5, <1>10, <1>11

\* No other step takes a span out of the registry, or asks a probe for it.
LEMMA OnlyFinalizeAsks ==
    ASSUME ProbeInv, [ProbeStep]_probeVars, NEW s \in DOMAIN openSpans,
           openSpans[s].left # {},
           s \in DOMAIN openSpans' => openSpans'[s].left # openSpans[s].left
    PROVE  FinalizeSpan(s) /\ s \in ProbeSpans
<1> USE DEF ProbeInv
<1>0. s \in ProbeSpans /\ openSpans[s] \in Span /\ SpanOK(openSpans[s])
  BY DEF TypeInv, SpansInv
<1>1. openSpans[s].closed > 0
  BY <1>0 DEF SpanOK
<1>2. CASE openSpans' = openSpans
  BY <1>2
<1>3. CASE SamplerFolds
  BY <1>0, <1>3 DEF SamplerFolds, Span
<1>4. ASSUME NEW t \in ProbeSpans, ProbeSpanOpen(t)
      PROVE  FALSE
  BY <1>4 DEF ProbeSpanOpen
<1>5. ASSUME NEW t \in ProbeSpans, ProbeSpanClose(t)
      PROVE  FALSE
  BY <1>1, <1>5 DEF ProbeSpanClose
<1>6. ASSUME NEW t \in ProbeSpans, FinalizeSpan(t), t # s
      PROVE  FALSE
  <2>1. PICK p \in openSpans[t].left :
               openSpans' = IF openSpans[t].left \ {p} = {}
                            THEN [x \in DOMAIN openSpans \ {t} |-> openSpans[x]]
                            ELSE [openSpans EXCEPT ![t].left = openSpans[t].left \ {p}]
    BY <1>6, FinalizeIs
  <2>2. QED
    BY <1>6, <2>1
<1>7. CASE \/ ProbesStart \/ ProbesStop \/ SamplerReads \/ SamplerStamps \/ SystemSample
           \/ PerfRow \/ ForeignTakes \/ ForeignLeaves \/ UNCHANGED probeVars
  BY <1>2, <1>7 DEF ProbesStart, ProbesStop, SamplerReads, SamplerStamps, SystemSample,
     PerfRow, ForeignTakes, ForeignLeaves, probeVars
<1>8. QED
  BY <1>0, <1>3, <1>4, <1>5, <1>6, <1>7 DEF ProbeStep

\* One probe at a time programs the PMU; a span has one record a layer, made of
\* samples of its own time; its CPU figures weigh no more than its own time, and at most
\* one reading of them ended before it opened; and no collector outlives its span or the
\* run: for any hosts and spans, any order of samples and of the sampler's steps.
THEOREM ProbesAreHonest == ProbeSpec => []ProbesHonest
<1>1. ProbeInit => ProbeInv
  BY InitProbeInv
<1>2. ProbeInv /\ [ProbeStep]_probeVars => ProbeInv'
  BY ProbeInvStep
<1>3. ProbeInv => ProbesHonest
  BY ProbeInvImplies
<1>4. QED
  BY <1>1, <1>2, <1>3, PTL DEF ProbeSpec

\* Intervals that another collector spoilt cost a span those intervals: when each of
\* them is impossible, and one that it did not spoil lies wholly inside the span, the
\* record of l3_perf is of all that it did not spoil.
THEOREM BadIntervalIsDropped == ProbeSpec => [][BadIntervalCostsItself]_probeVars
<1>1. ProbeInit => ProbeInv
  BY InitProbeInv
<1>2. ProbeInv /\ [ProbeStep]_probeVars => ProbeInv'
  BY ProbeInvStep
<1>3. ProbeInv /\ [ProbeStep]_probeVars => BadIntervalCostsItself
  <2> DEFINE window(s) == {row \in perfRows : row.at >= openSpans[s].opened}
             good(s) == {row \in window(s) : ~row.spoilt}
             asked(s) == /\ openSpans[s].left # {} /\ NextProbe(openSpans[s].left) = "l3_perf"
                         /\ s \in DOMAIN openSpans' => openSpans'[s].left # openSpans[s].left
                         /\ "l3_perf" \in collectors
                         /\ \A row \in window(s) :
                               row.reading = IF row.spoilt THEN "impossible" ELSE "plain"
                         /\ \E row \in good(s) : BeganInside(row, openSpans[s].opened)
             answered(s) == \E r \in probeRecords' :
                                /\ r.span = s /\ r.layer = "l3"
                                /\ r.samples = {row.at : row \in good(s)}
  <2>1. ASSUME ProbeInv, [ProbeStep]_probeVars, NEW s \in DOMAIN openSpans, asked(s)
        PROVE  answered(s)
    <3>1. FinalizeSpan(s) /\ s \in ProbeSpans
      BY <2>1, OnlyFinalizeAsks
    <3>2. PICK sound \in good(s) : BeganInside(sound, openSpans[s].opened)
      BY <2>1
    <3>3. sound \in window(s) /\ ~sound.spoilt
      BY <3>2
    <3>4. /\ NextProbe(openSpans[s].left) = "l3_perf" /\ "l3_perf" \in collectors
          /\ \A row \in window(s) :
                row.reading = IF row.spoilt THEN "impossible" ELSE "plain"
      BY <2>1
    <3>5. window(s) = {row \in perfRows : row.at >= openSpans[s].opened}
      OBVIOUS
    <3> HIDE DEF window, good, asked
    <3>6. \E r \in probeRecords' :
             /\ r.span = s /\ r.layer = "l3"
             /\ r.samples = {row.at : row \in {row \in window(s) : ~row.spoilt}}
      BY <2>1, <3>1, <3>2, <3>3, <3>4, <3>5, L3Record
    <3>7. QED
      BY <3>6 DEF good
  <2>2. (\A s \in DOMAIN openSpans : asked(s) => answered(s)) => BadIntervalCostsItself
    BY DEF BadIntervalCostsItself
  <2>3. QED
    BY <2>1, <2>2
<1>4. QED
  BY <1>1, <1>2, <1>3, PTL DEF ProbeSpec

-------------------------------------------------------------------------------
(* The cells of runner.py.                                                    *)
HarnessSteps == {"done", "proxy", "mpstat", "vmstat", "docker", "perf", "harbor", "stop", "collect"}
Ends == {"Success", "ProxyFail", "raised", "killed"}
Modes == HarnessModes \cup {"none"}
Bench == [todo : Seq(HarnessModes), n : Nat, at : HarnessSteps, mode : Modes,
          made : 0 .. TrialsPerCell, ends : Seq(Ends)]
Listener == [cell : Nat, mode : Modes, logged : 0 .. PipeRoom, wedged : BOOLEAN]
TrialOf == [cell : Nat, number : Nat, by : Modes, from : Nat,
            answer : {"empty", "hit", "miss", "error"}]
Stats == [cell : Nat, completed : SUBSET TrialOf, counters : Nat]
Directories == [trials : SUBSET TrialOf, csv : Nat, stats : Stats]

HarnessShapeInv ==
    /\ bench \in Bench
    /\ Len(bench.ends) = IF CellAt("done") THEN Cell ELSE Cell - 1
    /\ ~CellAt("done") => bench.mode \in HarnessModes
    /\ running \subseteq (1 .. Cell) \X ToStop
    /\ listener \in Listener
    /\ outputs \in [HarnessModes -> Directories]

\* The proxy that has the port, where cells started it.
ProxyInv ==
    /\ listener.cell # 0 => listener.cell <= Cell /\ <<listener.cell, "proxy">> \in running
    /\ listener.cell = Cell /\ ~CellAt("done") =>
           listener.mode = bench.mode /\ listener.logged <= bench.made
    /\ listener.mode \in {"none", "off", "replay", "record"}
    /\ bench.at \notin {"done", "proxy", "collect"} => listener.mode # "none"
    /\ listener.wedged =>
           listener.cell = Cell /\ bench.at \in {"harbor", "stop"} /\ bench.made >= PipeRoom

CellInv ==
    /\ NoProcessLeft
    /\ bench.at \in {"proxy", "collect"} => \A r \in running : r[1] # Cell

\* What the directory of a label holds.
OutputInv ==
    /\ AnsweredInItsMode /\ StatsCountTheLabel /\ CountersAreOwn
    /\ \A m \in HarnessModes :
           /\ \A t \in outputs[m].trials : t.cell \in 1 .. Cell
           /\ outputs[m].stats.cell <= Cell
           /\ ~CellAt("done") => outputs[m].stats.cell < Cell
    /\ perfAble /\ bench.at \in {"harbor", "stop", "collect"} => outputs[bench.mode].csv = Cell

HarnessInv == HarnessShapeInv /\ ProxyInv /\ CellInv /\ OutputInv
-------------------------------------------------------------------------------
(* The operators of the model. *)

LEMMA HarnessTypes ==
    ASSUME HarnessInv
    PROVE  /\ bench \in Bench /\ Cell \in Nat /\ bench.made \in Nat /\ bench.ends \in Seq(Ends)
           /\ bench.todo \in Seq(HarnessModes) /\ bench.at \in HarnessSteps
           /\ listener \in Listener /\ listener.cell \in Nat /\ listener.logged \in Nat
           /\ listener.wedged \in BOOLEAN
           /\ outputs \in [HarnessModes -> Directories]
           /\ \A r \in running : r[1] \in 1 .. Cell /\ r[2] \in ToStop
           /\ ~CellAt("done") => bench.mode \in HarnessModes /\ Cell >= 1
<1>1. bench \in Bench /\ listener \in Listener /\ outputs \in [HarnessModes -> Directories]
  BY DEF HarnessInv, HarnessShapeInv
<1>2. /\ Cell \in Nat /\ bench.made \in Nat /\ bench.ends \in Seq(Ends)
      /\ bench.todo \in Seq(HarnessModes) /\ bench.at \in HarnessSteps
  BY <1>1, HarnessAssumption DEF Bench, Cell
<1>3. listener.cell \in Nat /\ listener.logged \in Nat /\ listener.wedged \in BOOLEAN
  BY <1>1, HarnessAssumption DEF Listener
<1>4. \A r \in running : r[1] \in 1 .. Cell /\ r[2] \in ToStop
  BY DEF HarnessInv, HarnessShapeInv
<1>5. ~CellAt("done") => bench.mode \in HarnessModes /\ Cell >= 1
  <2>1. Len(bench.ends) \in Nat
    BY <1>2
  <2>2. ~CellAt("done") => Len(bench.ends) = Cell - 1
    BY DEF HarnessInv, HarnessShapeInv
  <2>3. ~CellAt("done") => Cell >= 1
    BY <1>2, <2>1, <2>2
  <2>4. QED
    BY <2>3 DEF HarnessInv, HarnessShapeInv
<1>6. QED
  BY <1>1, <1>2, <1>3, <1>4, <1>5

LEMMA BenchThen ==
    ASSUME bench \in Bench, NEW s \in HarnessSteps, Then(s)
    PROVE  /\ bench' \in Bench /\ bench'.at = s /\ bench'.n = bench.n /\ bench'.mode = bench.mode
           /\ bench'.made = bench.made /\ bench'.ends = bench.ends
BY DEF Bench, Then

LEMMA BenchEnds ==
    ASSUME bench \in Bench, NEW how \in Ends, CellEnds(how)
    PROVE  /\ bench' \in Bench /\ bench'.at = "done" /\ bench'.n = bench.n
           /\ bench'.mode = bench.mode /\ bench'.made = bench.made
           /\ bench'.ends = Append(bench.ends, how) /\ bench'.ends \in Seq(Ends)
           /\ Len(bench'.ends) = Len(bench.ends) + 1
           /\ bench'.ends[Len(bench.ends) + 1] = how
           /\ \A k \in DOMAIN bench.ends : k \in DOMAIN bench'.ends /\ bench'.ends[k] = bench.ends[k]
<1>1. bench.ends \in Seq(Ends)
  BY DEF Bench
<1>2. Append(bench.ends, how) \in Seq(Ends)
  BY <1>1
<1>3. /\ bench' \in Bench /\ bench'.at = "done" /\ bench'.n = bench.n /\ bench'.mode = bench.mode
      /\ bench'.made = bench.made /\ bench'.ends = Append(bench.ends, how)
  BY <1>2 DEF Bench, CellEnds, HarnessSteps
<1>4. /\ Len(Append(bench.ends, how)) = Len(bench.ends) + 1
      /\ Append(bench.ends, how)[Len(bench.ends) + 1] = how
      /\ \A k \in DOMAIN bench.ends : /\ k \in DOMAIN Append(bench.ends, how)
                                      /\ Append(bench.ends, how)[k] = bench.ends[k]
  BY <1>1
<1>5. QED
  BY <1>2, <1>3, <1>4

LEMMA BenchMakes ==
    ASSUME bench \in Bench, bench.made < TrialsPerCell,
           bench' = [bench EXCEPT !.made = @ + 1]
    PROVE  /\ bench' \in Bench /\ bench'.at = bench.at /\ bench'.n = bench.n
           /\ bench'.mode = bench.mode /\ bench'.made = bench.made + 1
           /\ bench'.ends = bench.ends
<1>1. bench.made + 1 \in 0 .. TrialsPerCell
  BY HarnessAssumption DEF Bench
<1>2. QED
  BY <1>1 DEF Bench

LEMMA BenchBegins ==
    ASSUME bench \in Bench, BeginCell
    PROVE  /\ bench' \in Bench /\ bench'.at = "proxy" /\ bench'.n = bench.n + 1
           /\ bench'.mode \in HarnessModes /\ bench'.made = 0 /\ bench'.ends = bench.ends
<1>1. bench.todo \in Seq(HarnessModes) /\ bench.todo # <<>> /\ bench.n + 1 \in Nat
  BY DEF Bench, BeginCell
<1>2. Head(bench.todo) \in HarnessModes /\ Tail(bench.todo) \in Seq(HarnessModes)
  BY <1>1
<1>3. 0 \in 0 .. TrialsPerCell
  BY HarnessAssumption
<1>4. bench' = [bench EXCEPT !.todo = Tail(bench.todo), !.n = bench.n + 1, !.at = "proxy",
                             !.mode = Head(bench.todo), !.made = 0]
  BY DEF BeginCell
<1>5. bench' \in Bench
  BY <1>1, <1>2, <1>3, <1>4 DEF Bench, HarnessSteps, Modes
<1>6. QED
  BY <1>2, <1>4, <1>5 DEF Bench

\* A cell that was abandoned stays abandoned, whichever cells follow it.
LEMMA AbandonedStays ==
    ASSUME NEW c, Abandoned(c),
           \A k \in DOMAIN bench.ends : k \in DOMAIN bench'.ends /\ bench'.ends[k] = bench.ends[k]
    PROVE  Abandoned(c)'
BY DEF Abandoned

\* What is asked of the directory d of the label m.
Fits(m, d) ==
    /\ \A t \in d.trials :
           /\ t.by = m \/ t.from = 0 \/ (t.from # t.cell /\ Abandoned(t.from))
           /\ t.cell \in 1 .. Cell
           /\ t.cell = d.stats.cell => t \in d.stats.completed
    /\ \A t \in d.stats.completed : t \in d.trials /\ t.cell <= d.stats.cell
    /\ d.stats.counters # 0 => d.stats.counters = d.stats.cell \/ ~perfAble
    /\ d.stats.cell <= Cell /\ (~CellAt("done") => d.stats.cell < Cell)

CsvIsOwn == perfAble /\ bench.at \in {"harbor", "stop", "collect"} => outputs[bench.mode].csv = Cell

LEMMA OutputsFit == OutputInv <=> (\A m \in HarnessModes : Fits(m, outputs[m])) /\ CsvIsOwn
BY DEF OutputInv, Fits, CsvIsOwn, AnsweredInItsMode, StatsCountTheLabel, CountersAreOwn

LEMMA OutputsFitNext ==
    ASSUME \A m \in HarnessModes : Fits(m, outputs[m])', CsvIsOwn'
    PROVE  OutputInv'
BY DEF OutputInv, Fits, CsvIsOwn, AnsweredInItsMode, StatsCountTheLabel, CountersAreOwn

LEMMA FitsNext ==
    ASSUME NEW m, NEW d, bench'.mode = m, outputs'[m] = d,
           \A t \in d.trials :
               /\ t.by = m \/ t.from = 0 \/ (t.from # t.cell /\ Abandoned(t.from)')
               /\ t.cell \in 1 .. bench'.n
               /\ t.cell = d.stats.cell => t \in d.stats.completed,
           \A t \in d.stats.completed : t \in d.trials /\ t.cell <= d.stats.cell,
           d.stats.counters # 0 => d.stats.counters = d.stats.cell \/ ~perfAble',
           d.stats.cell <= bench'.n, bench'.at # "done" => d.stats.cell < bench'.n
    PROVE  Fits(bench.mode, outputs[bench.mode])'
BY DEF Fits, CellAt, Cell

LEMMA FitsOn ==
    ASSUME HarnessInv, NEW m \in HarnessModes, UNCHANGED <<outputs, perfAble>>,
           \A c : Abandoned(c) => Abandoned(c)',
           \/ bench'.n = Cell /\ (bench'.at # "done" => ~CellAt("done"))
           \/ bench'.n = Cell + 1
    PROVE  Fits(m, outputs[m])'
<1>1. Fits(m, outputs[m])
  BY OutputsFit DEF HarnessInv
<1>2. outputs[m].stats.cell \in Nat /\ Cell \in Nat
  <2>1. outputs[m] \in Directories
    BY HarnessTypes
  <2>2. outputs[m].stats \in Stats
    BY <2>1 DEF Directories
  <2>3. QED
    BY <2>2, HarnessTypes DEF Stats
<1>3. \A t \in outputs[m].trials : t.cell \in 1 .. Cell => t.cell \in 1 .. bench'.n
  BY <1>2
<1>4. /\ outputs[m].stats.cell <= bench'.n
      /\ bench'.at # "done" => outputs[m].stats.cell < bench'.n
  BY <1>1, <1>2 DEF Fits, CellAt, Cell
<1>5. QED
  BY <1>1, <1>3, <1>4 DEF Fits, CellAt, Cell

\* A step within a cell that leaves the directories alone.
LEMMA OutputsKept ==
    ASSUME HarnessInv, UNCHANGED <<outputs, perfAble>>,
           \A c : Abandoned(c) => Abandoned(c)', bench'.n = Cell, bench'.mode = bench.mode,
           ~CellAt("done"),
           bench'.at \in {"harbor", "stop", "collect"} => bench.at \in {"harbor", "stop", "collect"}
    PROVE  OutputInv'
<1>1. \A m \in HarnessModes : Fits(m, outputs[m])'
  BY FitsOn
<1>2. CsvIsOwn'
  BY OutputsFit DEF HarnessInv, CsvIsOwn, Cell
<1>3. QED
  BY <1>1, <1>2, OutputsFitNext

-------------------------------------------------------------------------------
(* The steps of a cell. *)

LEMMA BeginStep ==
    ASSUME HarnessInv, BeginCell
    PROVE  HarnessInv'
<1>1. /\ bench' \in Bench /\ bench'.at = "proxy" /\ bench'.n = Cell + 1
      /\ bench'.mode \in HarnessModes /\ bench'.made = 0 /\ bench'.ends = bench.ends
  BY HarnessTypes, BenchBegins DEF Cell
<1>2. CellAt("done") /\ UNCHANGED <<running, listener, outputs, perfAble>> /\ Cell \in Nat
  BY HarnessTypes DEF BeginCell
<1>3. Len(bench.ends) = Cell
  BY <1>2 DEF HarnessInv, HarnessShapeInv
<1>4. HarnessShapeInv'
  <2>1. (1 .. Cell) \X ToStop \subseteq (1 .. Cell + 1) \X ToStop
    BY <1>2
  <2>2. running' \subseteq (1 .. bench'.n) \X ToStop
    BY <1>1, <1>2, <2>1 DEF HarnessInv, HarnessShapeInv
  <2>3. QED
    BY <1>1, <1>2, <1>3, <2>2 DEF HarnessInv, HarnessShapeInv, CellAt, Cell
<1>5. ProxyInv'
  <2>1. listener.cell <= Cell /\ listener.cell \in Nat /\ ~listener.wedged
    BY <1>2, HarnessTypes DEF HarnessInv, ProxyInv, CellAt
  <2>2. listener.cell # Cell + 1
    BY <1>2, <2>1
  <2>3. listener.cell <= Cell + 1
    BY <1>2, <2>1
  <2>4. QED
    BY <1>1, <1>2, <2>1, <2>2, <2>3 DEF HarnessInv, ProxyInv, CellAt, Cell
<1>6. CellInv'
  <2>1. \A r \in running : r[1] \in 1 .. Cell /\ r[1] # Cell + 1
    BY <1>2, HarnessTypes
  <2>2. \A r \in running : Abandoned(r[1])
    BY <1>2 DEF HarnessInv, CellInv, NoProcessLeft
  <2>3. QED
    BY <1>1, <1>2, <2>1, <2>2 DEF CellInv, NoProcessLeft, Abandoned, CellAt, Cell
<1>7. OutputInv'
  <2>1. \A m \in HarnessModes : Fits(m, outputs[m])'
    BY <1>1, <1>2, FitsOn DEF Abandoned
  <2>2. CsvIsOwn'
    BY <1>1 DEF CsvIsOwn
  <2>3. QED
    BY <2>1, <2>2, OutputsFitNext
<1>8. QED
  BY <1>4, <1>5, <1>6, <1>7 DEF HarnessInv

\* What keeps the shape, in a cell that goes on or ends.
LEMMA ShapeGoesOn ==
    ASSUME HarnessInv, bench' \in Bench, ~CellAt("done"), bench'.at # "done", bench'.n = Cell,
           bench'.mode = bench.mode, bench'.ends = bench.ends,
           running' \subseteq running \cup ({Cell} \X ToStop), listener' \in Listener,
           outputs' \in [HarnessModes -> Directories]
    PROVE  HarnessShapeInv'
<1>1. Cell \in 1 .. Cell /\ bench.mode \in HarnessModes
  BY HarnessTypes
<1>2. running' \subseteq (1 .. Cell) \X ToStop
  BY <1>1 DEF HarnessInv, HarnessShapeInv
<1>3. QED
  BY <1>1, <1>2 DEF HarnessInv, HarnessShapeInv, CellAt, Cell

LEMMA ShapeAtEnd ==
    ASSUME HarnessInv, ~CellAt("done"), NEW how \in Ends, CellEnds(how),
           running' \subseteq running, listener' \in Listener,
           outputs' \in [HarnessModes -> Directories]
    PROVE  HarnessShapeInv'
<1>1. /\ bench' \in Bench /\ bench'.at = "done" /\ bench'.n = Cell
      /\ Len(bench'.ends) = Len(bench.ends) + 1
  BY HarnessTypes, BenchEnds DEF Cell
<1>2. Len(bench.ends) = Cell - 1 /\ Cell \in Nat
  BY HarnessTypes DEF HarnessInv, HarnessShapeInv
<1>3. Len(bench'.ends) = Cell
  BY <1>1, <1>2
<1>4. running' \subseteq (1 .. Cell) \X ToStop
  BY DEF HarnessInv, HarnessShapeInv
<1>5. QED
  BY <1>1, <1>3, <1>4 DEF HarnessShapeInv, CellAt, Cell

\* A cell that ends with its processes has been abandoned, or has none.
LEMMA CellIsOver ==
    ASSUME HarnessInv, ~CellAt("done"), NEW how \in Ends, CellEnds(how), UNCHANGED running,
           \/ how \in {"raised", "killed"}
           \/ \A r \in running : r[1] # Cell
    PROVE  CellInv' /\ \A c : Abandoned(c) => Abandoned(c)'
<1>1. /\ bench'.at = "done" /\ bench'.n = Cell /\ bench'.ends \in Seq(Ends)
      /\ Len(bench'.ends) = Len(bench.ends) + 1
      /\ bench'.ends[Len(bench.ends) + 1] = how
      /\ \A k \in DOMAIN bench.ends : k \in DOMAIN bench'.ends /\ bench'.ends[k] = bench.ends[k]
  BY HarnessTypes, BenchEnds DEF Cell
<1>2. \A c : Abandoned(c) => Abandoned(c)'
  BY <1>1, AbandonedStays
<1>3. Len(bench.ends) = Cell - 1 /\ Cell \in Nat /\ Cell >= 1
  BY HarnessTypes DEF HarnessInv, HarnessShapeInv
<1>4. Cell \in DOMAIN bench'.ends /\ bench'.ends[Cell] = how
  BY <1>1, <1>3
<1>5. \A r \in running : r[1] = Cell \/ Abandoned(r[1])
  BY DEF HarnessInv, CellInv, NoProcessLeft
<1>6. \A r \in running : Abandoned(r[1])'
  <2>1. how \in {"raised", "killed"} => Abandoned(Cell)'
    BY <1>1, <1>4 DEF Abandoned, Cell
  <2>2. QED
    BY <1>1, <1>2, <1>5, <2>1 DEF Cell
<1>7. QED
  BY <1>1, <1>2, <1>6 DEF CellInv, NoProcessLeft, CellAt

LEMMA ProxyStep ==
    ASSUME HarnessInv, StartProxy
    PROVE  HarnessInv'
<1>1. /\ CellAt("proxy") /\ ~CellAt("done") /\ bench.at = "proxy"
      /\ bench \in Bench /\ Cell \in Nat /\ Cell >= 1 /\ bench.mode \in HarnessModes
      /\ bench.made \in Nat /\ listener \in Listener /\ listener.cell \in Nat
      /\ UNCHANGED <<outputs, perfAble>> /\ outputs' \in [HarnessModes -> Directories]
  BY HarnessTypes DEF StartProxy, CellAt
<1>2. \A r \in running : r[1] # Cell
  BY <1>1 DEF HarnessInv, CellInv
<1>3. listener.cell # Cell /\ ~listener.wedged
  <2>1. <<Cell, "proxy">>[1] = Cell
    OBVIOUS
  <2>2. listener.cell = Cell => <<Cell, "proxy">> \in running
    BY <1>1 DEF HarnessInv, ProxyInv
  <2>3. QED
    BY <1>1, <1>2, <2>1, <2>2 DEF HarnessInv, ProxyInv
<1>4. CASE Then("mpstat")
  <2>1. /\ bench' \in Bench /\ bench'.at = "mpstat" /\ bench'.n = Cell /\ bench'.mode = bench.mode
        /\ bench'.made = bench.made /\ bench'.ends = bench.ends
    BY <1>1, <1>4, BenchThen DEF HarnessSteps, Cell
  <2>2. \A c : Abandoned(c) <=> Abandoned(c)'
    BY <2>1 DEF Abandoned
  <2>3. OutputInv'
    BY <1>1, <2>1, <2>2, OutputsKept
  <2>4. \A r \in running : Abandoned(r[1])
    BY <1>2 DEF HarnessInv, CellInv, NoProcessLeft
  <2>5. CASE listener.mode = "none"
    <3>0. ~CellEnds("ProxyFail")
      BY <1>1, <2>1, BenchEnds DEF Ends
    <3>1. /\ CanServe(bench.mode) /\ running' = running \cup {<<Cell, "proxy">>}
          /\ listener' = [NoProxy EXCEPT !.cell = Cell, !.mode = bench.mode]
      BY <2>5, <3>0 DEF StartProxy
    <3>2. /\ listener' \in Listener /\ listener'.cell = Cell /\ listener'.mode = bench.mode
          /\ listener'.logged = 0 /\ listener'.wedged = FALSE
      <4>1. listener' = [cell |-> Cell, mode |-> bench.mode, logged |-> 0, wedged |-> FALSE]
        BY <3>1 DEF NoProxy
      <4>2. 0 \in 0 .. PipeRoom
        BY HarnessAssumption
      <4>3. QED
        BY <1>1, <4>1, <4>2 DEF Listener, Modes
    <3>3. running' \subseteq running \cup ({Cell} \X ToStop)
      BY <3>1 DEF ToStop
    <3>4. HarnessShapeInv'
      BY <1>1, <2>1, <3>2, <3>3, ShapeGoesOn
    <3>5. ProxyInv'
      BY <1>1, <2>1, <3>1, <3>2 DEF ProxyInv, CellAt, Cell, CanServe
    <3>6. CellInv'
      BY <2>1, <2>2, <2>4, <3>1 DEF CellInv, NoProcessLeft, CellAt, Cell
    <3>7. QED
      BY <2>3, <3>4, <3>5, <3>6 DEF HarnessInv
  <2>6. CASE listener.mode # "none"
    <3>1. UNCHANGED <<listener, running>>
      BY <2>6 DEF StartProxy
    <3>2. HarnessShapeInv'
      BY <1>1, <2>1, <3>1, ShapeGoesOn
    <3>3. ProxyInv'
      BY <1>1, <1>3, <2>1, <2>6, <3>1 DEF HarnessInv, ProxyInv, CellAt, Cell
    <3>4. CellInv'
      BY <2>1, <2>2, <2>4, <3>1 DEF CellInv, NoProcessLeft, CellAt, Cell
    <3>5. QED
      BY <2>3, <3>2, <3>3, <3>4 DEF HarnessInv
  <2>7. QED
    BY <2>5, <2>6
<1>5. CASE CellEnds("ProxyFail") /\ UNCHANGED <<listener, running>>
  <2>1. "ProxyFail" \in Ends
    BY DEF Ends
  <2>2. bench'.at = "done" /\ bench'.n = Cell /\ bench'.mode = bench.mode
    BY <1>1, <1>5, <2>1, BenchEnds DEF Cell
  <2>3. HarnessShapeInv'
    BY <1>1, <1>5, <2>1, ShapeAtEnd
  <2>4. CellInv' /\ \A c : Abandoned(c) => Abandoned(c)'
    BY <1>1, <1>2, <1>5, <2>1, CellIsOver
  <2>5. OutputInv'
    BY <1>1, <2>2, <2>4, OutputsKept
  <2>6. ProxyInv'
    BY <1>3, <1>5, <2>2 DEF HarnessInv, ProxyInv, CellAt, Cell
  <2>7. QED
    BY <2>3, <2>4, <2>5, <2>6 DEF HarnessInv
<1>6. QED
  BY <1>4, <1>5 DEF StartProxy

\* A cell that is left by an exception, or killed, leaves its processes.
LEMMA CellAbandoned ==
    ASSUME HarnessInv, ~CellAt("done"), NEW how \in {"raised", "killed"}, CellEnds(how),
           listener' \in Listener, listener'.cell = listener.cell, listener'.mode = listener.mode,
           ~listener'.wedged, UNCHANGED <<running, outputs, perfAble>>
    PROVE  HarnessInv'
<1>1. how \in Ends
  BY DEF Ends
<1>2. bench'.at = "done" /\ bench'.n = Cell /\ bench'.mode = bench.mode
  BY <1>1, HarnessTypes, BenchEnds DEF Cell
<1>3. outputs' \in [HarnessModes -> Directories]
  BY HarnessTypes
<1>4. HarnessShapeInv'
  BY <1>1, <1>3, ShapeAtEnd
<1>5. CellInv' /\ \A c : Abandoned(c) => Abandoned(c)'
  BY <1>1, CellIsOver
<1>6. OutputInv'
  BY <1>2, <1>5, OutputsKept
<1>7. ProxyInv'
  BY <1>2 DEF HarnessInv, ProxyInv, CellAt, Cell
<1>8. QED
  BY <1>4, <1>5, <1>6, <1>7 DEF HarnessInv

LEMMA KillStep ==
    ASSUME HarnessInv, KillRunner
    PROVE  HarnessInv'
<1>1. /\ listener' \in Listener /\ listener'.cell = listener.cell
      /\ listener'.mode = listener.mode /\ ~listener'.wedged
  <2>1. CASE listener.cell = Cell
    <3>1. listener' = [listener EXCEPT !.wedged = FALSE]
      BY <2>1 DEF KillRunner
    <3>2. QED
      BY <3>1, HarnessTypes DEF Listener
  <2>2. CASE listener.cell # Cell
    BY <2>2, HarnessTypes DEF KillRunner, HarnessInv, ProxyInv
  <2>3. QED
    BY <2>1, <2>2
<1>2. QED
  BY <1>1, CellAbandoned DEF KillRunner

LEMMA MonitorStep ==
    ASSUME HarnessInv, NEW m \in {"mpstat", "vmstat", "docker"}, StartMonitor(m)
    PROVE  HarnessInv'
<1>1. CellAt(m) /\ ~CellAt("done") /\ UNCHANGED <<listener, outputs, perfAble>>
  BY DEF StartMonitor, CellAt
<1>2. listener \in Listener /\ outputs \in [HarnessModes -> Directories] /\ bench \in Bench
  BY HarnessTypes
<1>3. ~listener.wedged
  BY <1>1 DEF HarnessInv, ProxyInv, CellAt
<1>4. CASE m \in toolsMissing
  BY <1>1, <1>2, <1>3, <1>4, CellAbandoned DEF StartMonitor
<1>5. CASE m \notin toolsMissing
  <2>1. Then(AfterMonitor(m)) /\ running' = running \cup {<<Cell, m>>}
    BY <1>5 DEF StartMonitor
  <2>2. AfterMonitor(m) \in {"vmstat", "docker", "perf"}
    BY DEF AfterMonitor
  <2>3. /\ bench' \in Bench /\ bench'.at \in {"vmstat", "docker", "perf"} /\ bench'.n = Cell
        /\ bench'.mode = bench.mode /\ bench'.made = bench.made /\ bench'.ends = bench.ends
    <3>1. AfterMonitor(m) \in HarnessSteps
      BY <2>2 DEF HarnessSteps
    <3>2. QED
      BY <1>2, <2>1, <2>2, <3>1, BenchThen DEF Cell
  <2>4. \A c : Abandoned(c) <=> Abandoned(c)'
    BY <2>3 DEF Abandoned
  <2>5. HarnessShapeInv'
    <3>1. running' \subseteq running \cup ({Cell} \X ToStop)
      BY <2>1 DEF ToStop
    <3>2. QED
      BY <1>1, <1>2, <2>3, <3>1, ShapeGoesOn
  <2>6. OutputInv'
    BY <1>1, <2>3, <2>4, OutputsKept
  <2>7. ProxyInv'
    BY <1>1, <1>3, <2>1, <2>3 DEF HarnessInv, ProxyInv, CellAt, Cell
  <2>8. CellInv'
    BY <1>1, <2>1, <2>3, <2>4 DEF HarnessInv, CellInv, NoProcessLeft, CellAt, Cell
  <2>9. QED
    BY <2>5, <2>6, <2>7, <2>8 DEF HarnessInv
<1>6. QED
  BY <1>4, <1>5

\* One label's directory becomes d.
LEMMA DirectoryAt ==
    ASSUME outputs \in [HarnessModes -> Directories], NEW m \in HarnessModes,
           NEW d \in Directories, outputs' = [outputs EXCEPT ![m] = d]
    PROVE  /\ outputs' \in [HarnessModes -> Directories] /\ outputs'[m] = d
           /\ \A l \in HarnessModes \ {m} : outputs'[l] = outputs[l]
OBVIOUS

LEMMA CsvBecomes ==
    ASSUME NEW d \in Directories, NEW v \in Nat
    PROVE  /\ [d EXCEPT !.csv = v] \in Directories
           /\ [d EXCEPT !.csv = v].csv = v /\ [d EXCEPT !.csv = v].trials = d.trials
           /\ [d EXCEPT !.csv = v].stats = d.stats
BY DEF Directories

LEMMA TrialsBecome ==
    ASSUME NEW d \in Directories, NEW T \in SUBSET TrialOf
    PROVE  /\ [d EXCEPT !.trials = T] \in Directories
           /\ [d EXCEPT !.trials = T].csv = d.csv /\ [d EXCEPT !.trials = T].trials = T
           /\ [d EXCEPT !.trials = T].stats = d.stats
BY DEF Directories

LEMMA StatsBecome ==
    ASSUME NEW d \in Directories, NEW s \in Stats
    PROVE  /\ [d EXCEPT !.stats = s] \in Directories
           /\ [d EXCEPT !.stats = s].csv = d.csv /\ [d EXCEPT !.stats = s].trials = d.trials
           /\ [d EXCEPT !.stats = s].stats = s
BY DEF Directories

LEMMA PerfStep ==
    ASSUME HarnessInv, start_continuous
    PROVE  HarnessInv'
<1>1. /\ CellAt("perf") /\ ~CellAt("done") /\ bench.at = "perf"
      /\ UNCHANGED <<listener, perfAble>> /\ Then("harbor")
      /\ bench \in Bench /\ Cell \in Nat /\ bench.mode \in HarnessModes
      /\ listener \in Listener /\ outputs \in [HarnessModes -> Directories]
  BY HarnessTypes DEF start_continuous, CellAt
<1>2. /\ bench' \in Bench /\ bench'.at = "harbor" /\ bench'.n = Cell /\ bench'.mode = bench.mode
      /\ bench'.made = bench.made /\ bench'.ends = bench.ends
  BY <1>1, BenchThen DEF HarnessSteps, Cell
<1>3. \A c : Abandoned(c) <=> Abandoned(c)'
  BY <1>2 DEF Abandoned
<1>4. running' \subseteq running \cup ({Cell} \X ToStop) /\ running \subseteq running'
  BY DEF start_continuous, ToStop
<1>5. /\ outputs' \in [HarnessModes -> Directories]
      /\ \A m \in HarnessModes :
             outputs'[m].trials = outputs[m].trials /\ outputs'[m].stats = outputs[m].stats
      /\ perfAble => outputs'[bench.mode].csv = Cell
  <2>1. CASE perfAble
    <3> DEFINE d == [outputs[bench.mode] EXCEPT !.csv = Cell]
    <3>1. outputs' = [outputs EXCEPT ![bench.mode] = d]
      BY <2>1 DEF start_continuous, Truncated
    <3>2. outputs[bench.mode] \in Directories
      BY <1>1
    <3>3. /\ d \in Directories /\ d.csv = Cell /\ d.trials = outputs[bench.mode].trials
          /\ d.stats = outputs[bench.mode].stats
      BY <1>1, <3>2, CsvBecomes
    <3> HIDE DEF d
    <3>4. /\ outputs' \in [HarnessModes -> Directories] /\ outputs'[bench.mode] = d
          /\ \A l \in HarnessModes \ {bench.mode} : outputs'[l] = outputs[l]
      BY <1>1, <3>1, <3>3, DirectoryAt
    <3>5. QED
      BY <3>3, <3>4
  <2>2. CASE ~perfAble
    BY <1>1, <2>2 DEF start_continuous
  <2>3. QED
    BY <2>1, <2>2
<1>6. HarnessShapeInv'
  BY <1>1, <1>2, <1>4, <1>5, ShapeGoesOn
<1>7. ProxyInv'
  BY <1>1, <1>2, <1>4 DEF HarnessInv, ProxyInv, CellAt, Cell
<1>8. CellInv'
  <2>1. \A r \in running' : r[1] = Cell \/ Abandoned(r[1])
    BY <1>4 DEF HarnessInv, CellInv, NoProcessLeft
  <2>2. QED
    BY <1>2, <1>3, <2>1 DEF CellInv, NoProcessLeft, CellAt, Cell
<1>9. OutputInv'
  <2>1. \A m \in HarnessModes : Fits(m, outputs[m])
    BY OutputsFit DEF HarnessInv
  <2>2. \A m \in HarnessModes : Fits(m, outputs[m])'
    BY <1>1, <1>2, <1>3, <1>5, <2>1 DEF Fits, CellAt, Cell
  <2>3. CsvIsOwn'
    BY <1>1, <1>2, <1>5 DEF CsvIsOwn, Cell
  <2>4. QED
    BY <2>2, <2>3, OutputsFitNext
<1>10. QED
  BY <1>6, <1>7, <1>8, <1>9 DEF HarnessInv

\* A request is answered by the proxy that has the port, in its mode, or is the
\* one that fills the pipe.
LEMMA TrialStep ==
    ASSUME HarnessInv, Trial
    PROVE  HarnessInv'
<1>1. /\ CellAt("harbor") /\ ~CellAt("done") /\ bench.at = "harbor" /\ ~listener.wedged
      /\ UNCHANGED <<running, perfAble>> /\ bench.made < TrialsPerCell
      /\ bench \in Bench /\ Cell \in Nat /\ Cell >= 1 /\ bench.mode \in HarnessModes
      /\ bench.made \in Nat /\ listener \in Listener /\ listener.cell \in Nat
      /\ listener.logged \in Nat /\ outputs \in [HarnessModes -> Directories]
  BY HarnessTypes DEF Trial, CellAt
<1>2. CASE LogBlocks
  <2>1. listener' = [listener EXCEPT !.wedged = TRUE] /\ UNCHANGED <<bench, outputs>>
    BY <1>2 DEF Trial
  <2>2. /\ listener' \in Listener /\ listener'.cell = listener.cell
        /\ listener'.mode = listener.mode /\ listener'.logged = listener.logged
    BY <1>1, <2>1 DEF Listener
  <2>3. listener.cell = Cell /\ PipeRoom \in Nat /\ bench.made >= PipeRoom
    BY <1>1, <1>2, HarnessAssumption DEF LogBlocks, HarnessInv, ProxyInv
  <2>4. HarnessShapeInv'
    BY <1>1, <2>1, <2>2 DEF HarnessInv, HarnessShapeInv, CellAt, Cell
  <2>5. ProxyInv'
    BY <1>1, <2>1, <2>2, <2>3 DEF HarnessInv, ProxyInv, CellAt, Cell
  <2>6. CellInv' /\ OutputInv'
    BY <1>1, <2>1 DEF HarnessInv, CellInv, OutputInv, NoProcessLeft, Abandoned, CellAt, Cell,
                      AnsweredInItsMode, StatsCountTheLabel, CountersAreOwn
  <2>7. QED
    BY <2>4, <2>5, <2>6 DEF HarnessInv
<1>3. CASE ~LogBlocks
  <2>1. /\ bench' \in Bench /\ bench'.at = "harbor" /\ bench'.n = Cell
        /\ bench'.mode = bench.mode /\ bench'.made = bench.made + 1 /\ bench'.ends = bench.ends
    BY <1>1, <1>3, BenchMakes DEF Trial, Cell
  <2>2. \A c : Abandoned(c) <=> Abandoned(c)'
    BY <2>1 DEF Abandoned
  <2>3. /\ listener' \in Listener /\ listener'.cell = listener.cell /\ ~listener'.wedged
        /\ listener'.mode = listener.mode
        /\ listener.cell = Cell => listener'.logged = listener.logged + 1
    <3>1. listener' = [listener EXCEPT !.logged = IF listener.cell = Cell THEN listener.logged + 1
                                                  ELSE listener.logged]
      BY <1>3 DEF Trial
    <3>2. (IF listener.cell = Cell THEN listener.logged + 1 ELSE listener.logged) \in 0 .. PipeRoom
      BY <1>1, <1>3, HarnessAssumption DEF LogBlocks, Listener
    <3>3. QED
      BY <1>1, <3>1, <3>2 DEF Listener
  <2>4. ProxyInv' /\ CellInv'
    <3>1. CellInv'
      BY <1>1, <2>1, <2>2 DEF HarnessInv, CellInv, NoProcessLeft, CellAt, Cell
    <3>2. ProxyInv'
      BY <1>1, <2>1, <2>3 DEF HarnessInv, ProxyInv, CellAt, Cell
    <3>3. QED
      BY <3>1, <3>2
  <2>5. PICK answer \in Answers(listener.mode) :
            outputs' = [outputs EXCEPT ![bench.mode].trials =
                @ \cup {[cell |-> Cell, number |-> bench.made, by |-> listener.mode,
                         from |-> listener.cell, answer |-> answer]}]
    BY <1>3 DEF Trial
  <2> DEFINE x == [cell |-> Cell, number |-> bench.made, by |-> listener.mode,
                   from |-> listener.cell, answer |-> answer]
             d == [outputs[bench.mode] EXCEPT !.trials = outputs[bench.mode].trials \cup {x}]
  <2>6. /\ x \in TrialOf /\ x.cell = Cell /\ x.by = listener.mode /\ x.from = listener.cell
    <3>1. listener.mode \in {"off", "replay", "record"} /\ listener.mode \in Modes
      BY <1>1 DEF HarnessInv, ProxyInv, Listener
    <3>2. Answers(listener.mode) \subseteq {"empty", "hit", "miss", "error"}
      <4>1. CASE listener.mode = "off"
        BY <4>1 DEF Answers
      <4>2. CASE listener.mode = "replay"
        BY <4>2 DEF Answers
      <4>3. CASE listener.mode = "record"
        BY <4>3 DEF Answers
      <4>4. QED
        BY <3>1, <4>1, <4>2, <4>3
    <3>3. answer \in {"empty", "hit", "miss", "error"}
      <4>1. answer \in Answers(listener.mode)
        BY <2>5
      <4>2. QED
        BY <3>2, <4>1
    <3>4. QED
      BY <1>1, <3>1, <3>3 DEF TrialOf
  <2>7. outputs[bench.mode] \in Directories
    BY <1>1
  <2>8. outputs' = [outputs EXCEPT ![bench.mode] = d]
    BY <2>5
  <2> HIDE DEF x
  <2>9. outputs[bench.mode].trials \cup {x} \in SUBSET TrialOf
    BY <2>6, <2>7 DEF Directories
  <2>10. /\ d \in Directories /\ d.csv = outputs[bench.mode].csv
         /\ d.trials = outputs[bench.mode].trials \cup {x}
         /\ d.stats = outputs[bench.mode].stats
    BY <2>7, <2>9, TrialsBecome
  <2> HIDE DEF d
  <2>11. /\ outputs' \in [HarnessModes -> Directories] /\ outputs'[bench.mode] = d
         /\ \A l \in HarnessModes \ {bench.mode} : outputs'[l] = outputs[l]
    BY <1>1, <2>8, <2>10, DirectoryAt
  <2>12. x.by = bench.mode \/ x.from = 0 \/ (x.from # x.cell /\ Abandoned(x.from))
    <3>1. CASE listener.cell # 0 /\ listener.cell # Cell
      <4>1. <<listener.cell, "proxy">> \in running
        BY <3>1 DEF HarnessInv, ProxyInv
      <4>2. <<listener.cell, "proxy">>[1] = listener.cell
        OBVIOUS
      <4>3. Abandoned(listener.cell)
        BY <3>1, <4>1, <4>2 DEF HarnessInv, CellInv, NoProcessLeft
      <4>4. QED
        BY <2>6, <3>1, <4>3
    <3>2. CASE listener.cell = Cell
      BY <1>1, <2>6, <3>2 DEF HarnessInv, ProxyInv
    <3>3. QED
      BY <2>6, <3>1, <3>2
  <2>13. \A m \in HarnessModes : Fits(m, outputs[m])
    BY OutputsFit DEF HarnessInv
  <2>14. d.stats.cell \in Nat /\ d.stats.cell < Cell
    <3>1. d.stats \in Stats
      BY <2>10 DEF Directories
    <3>2. QED
      BY <1>1, <2>10, <2>13, <3>1 DEF Stats, Fits
  <2>15. \A t \in d.trials :
             /\ t.by = bench.mode \/ t.from = 0 \/ (t.from # t.cell /\ Abandoned(t.from)')
             /\ t.cell \in 1 .. Cell
             /\ t.cell = d.stats.cell => t \in d.stats.completed
    <3>1. TAKE t \in d.trials
    <3>2. CASE t = x
      BY <1>1, <2>2, <2>6, <2>12, <2>14, <3>2
    <3>3. CASE t \in outputs[bench.mode].trials
      BY <1>1, <2>2, <2>10, <2>13, <3>3 DEF Fits
    <3>4. QED
      BY <2>10, <3>2, <3>3
  <2>16. /\ \A t \in d.stats.completed : t \in d.trials /\ t.cell <= d.stats.cell
         /\ d.stats.counters # 0 => d.stats.counters = d.stats.cell \/ ~perfAble
         /\ d.stats.cell <= Cell
    BY <1>1, <2>10, <2>13 DEF Fits
  <2>17. OutputInv'
    <3>1. Fits(bench.mode, outputs[bench.mode])'
      BY <1>1, <2>1, <2>11, <2>14, <2>15, <2>16, FitsNext DEF Cell
    <3>2. \A m \in HarnessModes \ {bench.mode} : Fits(m, outputs[m])'
      BY <1>1, <2>1, <2>2, <2>11, <2>13 DEF Fits, CellAt, Cell
    <3>3. \A m \in HarnessModes : Fits(m, outputs[m])'
      BY <2>1, <3>1, <3>2
    <3>4. CsvIsOwn'
      <4>1. perfAble => outputs[bench.mode].csv = Cell
        BY <1>1, OutputsFit DEF HarnessInv, CsvIsOwn
      <4>2. QED
        BY <1>1, <2>1, <2>10, <2>11, <4>1 DEF CsvIsOwn, Cell
    <3>5. QED
      BY <3>3, <3>4, OutputsFitNext
  <2>18. HarnessShapeInv'
    BY <1>1, <2>1, <2>3, <2>11, ShapeGoesOn
  <2>19. QED
    BY <2>4, <2>17, <2>18 DEF HarnessInv
<1>4. QED
  BY <1>2, <1>3

\* Harbor returns or is killed.
LEMMA HarborStep ==
    ASSUME HarnessInv, HarborReturns \/ HarborTimesOut
    PROVE  HarnessInv'
<1>1. /\ CellAt("harbor") /\ ~CellAt("done") /\ bench.at = "harbor" /\ Then("stop")
      /\ UNCHANGED <<running, listener, outputs, perfAble>>
      /\ bench \in Bench /\ listener \in Listener /\ outputs \in [HarnessModes -> Directories]
  BY HarnessTypes DEF HarborReturns, HarborTimesOut, CellAt
<1>2. /\ bench' \in Bench /\ bench'.at = "stop" /\ bench'.n = Cell /\ bench'.mode = bench.mode
      /\ bench'.made = bench.made /\ bench'.ends = bench.ends
  BY <1>1, BenchThen DEF HarnessSteps, Cell
<1>3. \A c : Abandoned(c) <=> Abandoned(c)'
  BY <1>2 DEF Abandoned
<1>4. HarnessShapeInv'
  BY <1>1, <1>2, ShapeGoesOn
<1>5. ProxyInv'
  BY <1>1, <1>2 DEF HarnessInv, ProxyInv, CellAt, Cell
<1>6. CellInv'
  BY <1>1, <1>2, <1>3 DEF HarnessInv, CellInv, NoProcessLeft, CellAt, Cell
<1>7. OutputInv'
  BY <1>1, <1>2, <1>3, OutputsKept
<1>8. QED
  BY <1>4, <1>5, <1>6, <1>7 DEF HarnessInv

\* Everything the cell started is stopped: the proxy, if it is the cell's, is gone.
LEMMA StopStep ==
    ASSUME HarnessInv, StopAll
    PROVE  HarnessInv'
<1>1. /\ CellAt("stop") /\ ~CellAt("done") /\ bench.at = "stop" /\ Then("collect")
      /\ UNCHANGED <<outputs, perfAble>> /\ Cell \in Nat /\ Cell >= 1
      /\ bench \in Bench /\ listener \in Listener /\ outputs \in [HarnessModes -> Directories]
      /\ listener.cell \in Nat
  BY HarnessTypes DEF StopAll, CellAt
<1>2. /\ bench' \in Bench /\ bench'.at = "collect" /\ bench'.n = Cell /\ bench'.mode = bench.mode
      /\ bench'.made = bench.made /\ bench'.ends = bench.ends
  BY <1>1, BenchThen DEF HarnessSteps, Cell
<1>3. \A c : Abandoned(c) <=> Abandoned(c)'
  BY <1>2 DEF Abandoned
<1>4. /\ running' \subseteq running /\ \A r \in running' : r[1] # Cell
      /\ \A r \in running : r[1] # Cell => r \in running'
  BY HarnessTypes DEF StopAll
<1>5. listener' = IF listener.cell = Cell THEN NoProxy ELSE listener
  <2>1. <<Cell, "proxy">> \notin running'
    <3>1. <<Cell, "proxy">>[1] = Cell
      OBVIOUS
    <3>2. QED
      BY <1>4, <3>1
  <2>2. QED
    BY <2>1 DEF StopAll
<1>6. listener' \in Listener /\ ~listener'.wedged
  <2>1. NoProxy \in Listener /\ NoProxy.wedged = FALSE
    BY HarnessAssumption DEF NoProxy, Listener, Modes
  <2>2. CASE listener.cell = Cell
    BY <1>5, <2>1, <2>2
  <2>3. CASE listener.cell # Cell
    BY <1>1, <1>5, <2>3 DEF HarnessInv, ProxyInv
  <2>4. QED
    BY <2>2, <2>3
<1>7. HarnessShapeInv'
  BY <1>1, <1>2, <1>4, <1>6, ShapeGoesOn
<1>8. ProxyInv'
  <2>1. CASE listener.cell = Cell
    <3>1. listener'.cell = 0 /\ listener'.mode = "none"
      BY <1>5, <2>1 DEF NoProxy
    <3>2. QED
      BY <1>1, <1>2, <1>6, <3>1 DEF ProxyInv, CellAt, Cell
  <2>2. CASE listener.cell # Cell
    <3>1. listener' = listener
      BY <1>5, <2>2
    <3>2. listener.cell # 0 => listener.cell <= Cell /\ <<listener.cell, "proxy">> \in running'
      <4>1. <<listener.cell, "proxy">>[1] = listener.cell
        OBVIOUS
      <4>2. QED
        BY <1>4, <2>2, <4>1 DEF HarnessInv, ProxyInv
    <3>3. QED
      BY <1>1, <1>2, <1>6, <2>2, <3>1, <3>2 DEF HarnessInv, ProxyInv, CellAt, Cell
  <2>3. QED
    BY <2>1, <2>2
<1>9. CellInv'
  BY <1>1, <1>2, <1>3, <1>4 DEF HarnessInv, CellInv, NoProcessLeft, CellAt, Cell
<1>10. OutputInv'
  BY <1>1, <1>2, <1>3, OutputsKept
<1>11. QED
  BY <1>7, <1>8, <1>9, <1>10 DEF HarnessInv

\* The statistics count what the label's directory holds.
LEMMA CollectStep ==
    ASSUME HarnessInv, CollectResults
    PROVE  HarnessInv'
<1>1. /\ CellAt("collect") /\ ~CellAt("done") /\ bench.at = "collect" /\ CellEnds("Success")
      /\ UNCHANGED <<running, listener, perfAble>> /\ Cell \in Nat
      /\ bench \in Bench /\ bench.mode \in HarnessModes
      /\ listener \in Listener /\ outputs \in [HarnessModes -> Directories]
  BY HarnessTypes DEF CollectResults, CellAt
<1>2. "Success" \in Ends
  BY DEF Ends
<1>3. bench'.at = "done" /\ bench'.n = Cell /\ bench'.mode = bench.mode
  BY <1>1, <1>2, BenchEnds DEF Cell
<1>4. \A r \in running : r[1] # Cell
  BY <1>1 DEF HarnessInv, CellInv
<1>5. CellInv' /\ \A c : Abandoned(c) => Abandoned(c)'
  BY <1>1, <1>2, <1>4, CellIsOver
<1> DEFINE old == outputs[bench.mode]
           s == [cell |-> Cell, completed |-> old.trials,
                 counters |-> IF old.trials # {} THEN old.csv ELSE 0]
           d == [old EXCEPT !.stats = s]
<1>6. outputs' = [outputs EXCEPT ![bench.mode] = d]
  BY DEF CollectResults, Collected, Directory
<1>7. old \in Directories
  BY <1>1
<1> HIDE DEF old
<1>8. /\ s \in Stats /\ s.cell = Cell /\ s.completed = old.trials
      /\ s.counters \in {old.csv, 0}
  BY <1>1, <1>7 DEF Directories, Stats
<1> HIDE DEF s
<1>9. d \in Directories /\ d.csv = old.csv /\ d.trials = old.trials /\ d.stats = s
  BY <1>7, <1>8, StatsBecome
<1> HIDE DEF d
<1>10. /\ outputs' \in [HarnessModes -> Directories] /\ outputs'[bench.mode] = d
       /\ \A l \in HarnessModes \ {bench.mode} : outputs'[l] = outputs[l]
  BY <1>1, <1>6, <1>9, DirectoryAt
<1>11. \A m \in HarnessModes : Fits(m, outputs[m])
  BY OutputsFit DEF HarnessInv
<1>12. OutputInv'
  <2>1. \A t \in d.trials :
            /\ t.by = bench.mode \/ t.from = 0 \/ (t.from # t.cell /\ Abandoned(t.from)')
            /\ t.cell \in 1 .. Cell
            /\ t.cell = d.stats.cell => t \in d.stats.completed
    BY <1>1, <1>5, <1>8, <1>9, <1>11 DEF Fits, old
  <2>2. \A t \in d.stats.completed : t \in d.trials /\ t.cell <= d.stats.cell
    BY <1>1, <1>8, <1>9, <1>11 DEF Fits, old
  <2>3. d.stats.counters # 0 => d.stats.counters = d.stats.cell \/ ~perfAble
    <3>1. perfAble => old.csv = Cell
      BY <1>1, OutputsFit DEF HarnessInv, CsvIsOwn, old
    <3>2. QED
      BY <1>8, <1>9, <3>1
  <2>4. d.stats.cell <= Cell
    BY <1>1, <1>8, <1>9
  <2>5. Fits(bench.mode, outputs[bench.mode])'
    BY <1>1, <1>3, <1>10, <2>1, <2>2, <2>3, <2>4, FitsNext
  <2>6. \A m \in HarnessModes \ {bench.mode} : Fits(m, outputs[m])'
    BY <1>1, <1>3, <1>5, <1>10, <1>11 DEF Fits, CellAt, Cell
  <2>7. \A m \in HarnessModes : Fits(m, outputs[m])'
    BY <1>3, <2>5, <2>6
  <2>8. CsvIsOwn'
    BY <1>3 DEF CsvIsOwn
  <2>9. QED
    BY <2>7, <2>8, OutputsFitNext
<1>13. HarnessShapeInv'
  BY <1>1, <1>2, <1>10, ShapeAtEnd
<1>14. ProxyInv'
  BY <1>1, <1>3 DEF HarnessInv, ProxyInv, CellAt, Cell
<1>15. QED
  BY <1>5, <1>12, <1>13, <1>14 DEF HarnessInv

LEMMA HarnessInvHolds == HarnessSpec => []HarnessInv
<1>1. HarnessInit => HarnessInv
  <2>1. SUFFICES ASSUME NEW plan \in HarnessPlans, NEW missing \in ToolsMissing,
                        NEW able \in BOOLEAN, NEW other \in {"none", "off"},
                        HarnessFrom(plan, missing, able, other)
                 PROVE  HarnessInv
    BY DEF HarnessInit
  <2>2. /\ bench = [todo |-> plan, n |-> 0, at |-> "done", mode |-> "none", made |-> 0,
                    ends |-> <<>>]
        /\ running = {} /\ listener = [NoProxy EXCEPT !.mode = other]
        /\ outputs = [m \in HarnessModes |-> [trials |-> {}, csv |-> 0, stats |-> NoStats]]
    BY <2>1 DEF HarnessFrom
  <2>3. bench \in Bench /\ bench.at = "done" /\ bench.n = 0 /\ Len(bench.ends) = 0
    <3>1. plan \in Seq(HarnessModes) /\ 0 \in 0 .. TrialsPerCell
      BY HarnessAssumption
    <3>2. <<>> \in Seq(Ends) /\ Len(<<>>) = 0
      OBVIOUS
    <3>3. bench \in Bench
      BY <2>2, <3>1, <3>2 DEF Bench, HarnessSteps, Modes
    <3>4. QED
      BY <2>2, <3>2, <3>3
  <2>4. /\ listener \in Listener /\ listener.cell = 0 /\ ~listener.wedged
        /\ listener.mode \in {"none", "off"}
    <3>1. listener = [cell |-> 0, mode |-> other, logged |-> 0, wedged |-> FALSE]
      BY <2>2 DEF NoProxy
    <3>2. other \in Modes /\ 0 \in 0 .. PipeRoom
      BY HarnessAssumption DEF Modes, HarnessModes
    <3>3. QED
      BY <3>1, <3>2 DEF Listener
  <2>5. /\ outputs \in [HarnessModes -> Directories]
        /\ \A m \in HarnessModes : /\ outputs[m].trials = {} /\ outputs[m].stats.cell = 0
                                   /\ outputs[m].stats.completed = {}
                                   /\ outputs[m].stats.counters = 0
    BY <2>2 DEF Directories, Stats, NoStats
  <2>6. HarnessShapeInv /\ ProxyInv /\ CellInv
    BY <2>2, <2>3, <2>4, <2>5 DEF HarnessShapeInv, ProxyInv, CellInv, NoProcessLeft, CellAt, Cell
  <2>7. OutputInv
    BY <2>3, <2>5 DEF OutputInv, AnsweredInItsMode, StatsCountTheLabel, CountersAreOwn,
                      CellAt, Cell
  <2>8. QED
    BY <2>6, <2>7 DEF HarnessInv
<1>2. HarnessInv /\ [HarnessNext]_harnessVars => HarnessInv'
  <2>1. SUFFICES ASSUME HarnessInv, [HarnessNext]_harnessVars
                 PROVE  HarnessInv'
    OBVIOUS
  <2>2. CASE UNCHANGED harnessVars
    BY <2>1, <2>2 DEF harnessVars, HarnessInv, HarnessShapeInv, ProxyInv, CellInv, OutputInv,
        NoProcessLeft, Abandoned, AnsweredInItsMode, StatsCountTheLabel, CountersAreOwn,
        CellAt, Cell
  <2>3. CASE \E m \in {Monitors[i] : i \in DOMAIN Monitors} : StartMonitor(m)
    <3>1. {Monitors[i] : i \in DOMAIN Monitors} \subseteq {"mpstat", "vmstat", "docker"}
      BY DEF Monitors
    <3>2. QED
      BY <2>1, <2>3, <3>1, MonitorStep
  <2>4. QED
    BY <2>1, <2>2, <2>3, BeginStep, ProxyStep, PerfStep, TrialStep, HarborStep, StopStep,
       CollectStep, KillStep DEF HarnessNext
<1>3. QED
  BY <1>1, <1>2, PTL DEF HarnessSpec

LEMMA HarnessInvImplies ==
    ASSUME HarnessInv
    PROVE  /\ HarnessTypeOK /\ NoProcessLeft /\ AnsweredInItsMode /\ StatsCountTheLabel
           /\ CountersAreOwn /\ HangsOnlyInOwnPipe
<1>1. HarnessTypeOK
  <2>1. /\ bench \in Bench /\ Len(bench.ends) = (IF CellAt("done") THEN Cell ELSE Cell - 1)
        /\ \A r \in running : r[1] \in 1 .. Cell
        /\ listener \in Listener
    BY HarnessTypes DEF HarnessInv, HarnessShapeInv
  <2>2. listener.logged \in 0 .. PipeRoom
    BY <2>1 DEF Listener
  <2>3. QED
    BY <2>1, <2>2 DEF HarnessTypeOK, Bench, HarnessSteps, Modes, Ends
<1>2. HangsOnlyInOwnPipe
  BY DEF HarnessInv, ProxyInv, HangsOnlyInOwnPipe, CellAt
<1>3. QED
  BY <1>1, <1>2 DEF HarnessInv, CellInv, OutputInv

-------------------------------------------------------------------------------
(* The container sampler.                                                     *)
Containers == [is : {"coming", "up", "gone"}, usage : 0 .. MaxUsage]
TickSteps == {"owned", "list", "read", "sleep", "written"}
Tick == [at : TickSteps, keep : SUBSET Scope, left : SUBSET Scope, number : Nat]
Steady == [asked : SUBSET Scope, listed : SUBSET Scope]
Value == 0 .. MaxUsage \cup {Unread}

\* Whom the filter lets through.
MayCount(c) ==
    /\ filter = "image" => Image(c) = "cell"
    /\ filter = "baseline" => c \notin baseline

TelemetryShapeInv ==
    /\ beside \in [Scope -> Containers]
    /\ tick \in Tick /\ tick.left \subseteq tick.keep
    /\ steady \in Steady
    /\ DOMAIN readings \subseteq Scope
    /\ \A c \in DOMAIN readings : readings[c] \in Seq(Value) /\ readings[c] # <<>>
    /\ filter \in {"image", "baseline", "none"} /\ baseline \subseteq Scope

\* Only the cell's are kept, and those that were up when docker answered are.
KeptInv ==
    /\ \A c \in tick.keep : MayCount(c)
    /\ TickAt("list") => steady.asked \subseteq tick.keep
    /\ steady.listed \subseteq
           IF TickAt("read") THEN DOMAIN readings \cup tick.left ELSE DOMAIN readings
    /\ \A c \in tick.left : beside[c].is \in {"up", "gone"}

\* The values of a counter grow up to what was used, and end when its file goes.
Grows(values, used, gone) ==
    /\ \A k \in DOMAIN values :
           IF values[k] = Unread THEN gone ELSE values[k] <= used
    /\ \A j, k \in DOMAIN values : j <= k =>
           IF values[k] = Unread THEN TRUE ELSE values[j] # Unread /\ values[j] <= values[k]

ReadInv ==
    \A c \in DOMAIN readings :
        MayCount(c) /\ Grows(readings[c], beside[c].usage, beside[c].is = "gone")

\* What a container had read and written at its first and at its last reading,
\* of which the last is 0 once its file is gone.
WrittenUpTo(d, used, gone) ==
    /\ d.first \in 0 .. MaxUsage /\ d.last \in 0 .. MaxUsage /\ d.first <= used
    /\ \/ d.first <= d.last /\ d.last <= used
       \/ d.last = 0 /\ gone

DiskInv ==
    /\ diskDue \cup DOMAIN disk = DOMAIN readings
    /\ \A c, d \in diskDue : c = d
    /\ \A c \in diskDue : beside[c].is \in {"up", "gone"}
    /\ \A c \in DOMAIN disk :
           WrittenUpTo(disk[c], beside[c].usage, beside[c].is = "gone")

TelemetryInv == TelemetryShapeInv /\ KeptInv /\ ReadInv /\ DiskInv
-------------------------------------------------------------------------------

LEMMA ContainerIs ==
    ASSUME beside \in [Scope -> Containers], NEW c \in Scope,
           NEW s \in {"coming", "up", "gone"}, beside' = [beside EXCEPT ![c].is = s]
    PROVE  /\ beside' \in [Scope -> Containers]
           /\ beside'[c].is = s /\ beside'[c].usage = beside[c].usage
           /\ \A d \in Scope \ {c} : beside'[d] = beside[d]
<1>1. /\ [beside[c] EXCEPT !.is = s] \in Containers
      /\ [beside[c] EXCEPT !.is = s].is = s
      /\ [beside[c] EXCEPT !.is = s].usage = beside[c].usage
  <2>1. beside[c] \in Containers
    OBVIOUS
  <2>2. QED
    BY <2>1 DEF Containers
<1>2. beside' = [beside EXCEPT ![c] = [beside[c] EXCEPT !.is = s]]
  OBVIOUS
<1>3. QED
  BY <1>1, <1>2

LEMMA ContainerUsed ==
    ASSUME beside \in [Scope -> Containers], NEW c \in Scope, beside[c].usage < MaxUsage,
           beside' = [beside EXCEPT ![c].usage = @ + 1]
    PROVE  /\ beside' \in [Scope -> Containers]
           /\ beside'[c].is = beside[c].is /\ beside'[c].usage = beside[c].usage + 1
           /\ \A d \in Scope \ {c} : beside'[d] = beside[d]
<1> DEFINE x == [beside[c] EXCEPT !.usage = beside[c].usage + 1]
<1>1. beside[c] \in Containers /\ beside[c].usage + 1 \in 0 .. MaxUsage
  <2>1. beside[c] \in Containers
    OBVIOUS
  <2>2. QED
    BY <2>1, TelemetryAssumption DEF Containers
<1>2. x \in Containers /\ x.is = beside[c].is /\ x.usage = beside[c].usage + 1
  BY <1>1 DEF Containers
<1>3. beside' = [beside EXCEPT ![c] = x]
  OBVIOUS
<1>4. QED
  BY <1>2, <1>3

LEMMA UsageIsInt ==
    ASSUME beside \in [Scope -> Containers], NEW c \in Scope
    PROVE  beside[c].usage \in Int /\ beside[c].usage \in 0 .. MaxUsage /\ MaxUsage \in Nat
           /\ beside[c].is \in {"coming", "up", "gone"}
<1>1. beside[c] \in Containers
  OBVIOUS
<1>2. QED
  BY <1>1, TelemetryAssumption DEF Containers

\* Values of a counter that are not Unread are numbers.
LEMMA ValueIsInt ==
    ASSUME NEW s \in Seq(Value), NEW k \in DOMAIN s
    PROVE  s[k] \in Value /\ (s[k] # Unread => s[k] \in Int /\ s[k] \in 0 .. MaxUsage)
BY TelemetryAssumption DEF Value

LEMMA GrowsOn ==
    ASSUME NEW s \in Seq(Value), NEW u \in Int, NEW v \in Int, u <= v,
           NEW g \in BOOLEAN, NEW h \in BOOLEAN, g => h, Grows(s, u, g)
    PROVE  Grows(s, v, h)
<1>1. \A k \in DOMAIN s : IF s[k] = Unread THEN h ELSE s[k] <= v
  <2>1. TAKE k \in DOMAIN s
  <2>2. IF s[k] = Unread THEN g ELSE s[k] <= u
    BY DEF Grows
  <2>3. QED
    BY <2>2, ValueIsInt
<1>2. QED
  BY <1>1 DEF Grows

\* Containers come, work and go; none comes back, and no time is taken back.
LEMMA ContainersMove ==
    ASSUME TelemetryInv, beside' \in [Scope -> Containers],
           UNCHANGED <<tick, readings, diskDue, disk, filter, baseline, steady>>,
           \A c \in Scope :
               /\ beside[c].usage <= beside'[c].usage
               /\ beside[c].is \in {"up", "gone"} => beside'[c].is \in {"up", "gone"}
               /\ beside[c].is = "gone" => beside'[c].is = "gone"
    PROVE  TelemetryInv'
<1>1. TelemetryShapeInv'
  BY DEF TelemetryInv, TelemetryShapeInv
<1>2. KeptInv'
  <2>1. tick.left \subseteq Scope
    BY DEF TelemetryInv, TelemetryShapeInv, Tick
  <2>2. QED
    BY <2>1 DEF TelemetryInv, KeptInv, MayCount, TickAt
<1>3. ReadInv'
  <2>1. SUFFICES ASSUME NEW c \in DOMAIN readings
                 PROVE  MayCount(c)' /\ Grows(readings[c], beside'[c].usage, beside'[c].is = "gone")
    BY DEF ReadInv
  <2>2. c \in Scope /\ readings[c] \in Seq(Value)
    BY <2>1 DEF TelemetryInv, TelemetryShapeInv
  <2>3. MayCount(c) /\ Grows(readings[c], beside[c].usage, beside[c].is = "gone")
    BY <2>1 DEF TelemetryInv, ReadInv
  <2>4. beside[c].usage \in Int /\ beside'[c].usage \in Int
    <3>1. beside[c] \in Containers /\ beside'[c] \in Containers
      BY <2>2 DEF TelemetryInv, TelemetryShapeInv
    <3>2. QED
      BY <3>1, TelemetryAssumption DEF Containers
  <2>5. Grows(readings[c], beside'[c].usage, beside'[c].is = "gone")
    BY <2>2, <2>3, <2>4, GrowsOn
  <2>6. QED
    BY <2>3, <2>5 DEF MayCount
<1>4. DiskInv'
  <2>1. diskDue \cup DOMAIN disk \subseteq Scope
    BY DEF TelemetryInv, TelemetryShapeInv, DiskInv
  <2>2. ASSUME NEW c \in DOMAIN disk
        PROVE  WrittenUpTo(disk[c], beside'[c].usage, beside'[c].is = "gone")
    <3>1. /\ WrittenUpTo(disk[c], beside[c].usage, beside[c].is = "gone")
          /\ beside[c] \in Containers /\ beside'[c] \in Containers
      BY <2>1 DEF TelemetryInv, TelemetryShapeInv, DiskInv
    <3>2. /\ beside[c].usage \in Int /\ beside'[c].usage \in Int
          /\ beside[c].usage <= beside'[c].usage
          /\ beside[c].is = "gone" => beside'[c].is = "gone"
      BY <2>1, <3>1, TelemetryAssumption DEF Containers
    <3>3. disk[c].first \in Int /\ disk[c].last \in Int
      BY <3>1, TelemetryAssumption DEF WrittenUpTo
    <3>4. QED
      BY <3>1, <3>2, <3>3 DEF WrittenUpTo
  <2>3. QED
    BY <2>1, <2>2 DEF TelemetryInv, DiskInv
<1>5. QED
  BY <1>1, <1>2, <1>3, <1>4 DEF TelemetryInv

LEMMA ContainerSteps ==
    ASSUME TelemetryInv, NEW c \in Scope,
           ContainerStarts(c) \/ ContainerWorks(c) \/ ContainerGoes(c)
    PROVE  TelemetryInv'
<1>1. beside \in [Scope -> Containers]
  BY DEF TelemetryInv, TelemetryShapeInv
<1>2. \A d \in Scope : beside[d].usage \in Int
  BY <1>1, UsageIsInt
<1>3. CASE ContainerStarts(c)
  <2>1. /\ beside' \in [Scope -> Containers]
        /\ beside'[c].is = "up" /\ beside'[c].usage = beside[c].usage
        /\ \A d \in Scope \ {c} : beside'[d] = beside[d]
    BY <1>1, <1>3, ContainerIs DEF ContainerStarts
  <2>2. QED
    BY <1>2, <1>3, <2>1, ContainersMove DEF ContainerStarts
<1>4. CASE ContainerWorks(c)
  <2>1. /\ beside' \in [Scope -> Containers]
        /\ beside'[c].is = beside[c].is /\ beside'[c].usage = beside[c].usage + 1
        /\ \A d \in Scope \ {c} : beside'[d] = beside[d]
    BY <1>1, <1>4, ContainerUsed DEF ContainerWorks
  <2>2. QED
    BY <1>2, <1>4, <2>1, ContainersMove DEF ContainerWorks
<1>5. CASE ContainerGoes(c)
  <2>1. /\ beside' \in [Scope -> Containers]
        /\ beside'[c].is = "gone" /\ beside'[c].usage = beside[c].usage
        /\ \A d \in Scope \ {c} : beside'[d] = beside[d]
    BY <1>1, <1>5, ContainerIs DEF ContainerGoes
  <2>2. QED
    BY <1>2, <1>5, <2>1, ContainersMove DEF ContainerGoes
<1>6. QED
  BY <1>3, <1>4, <1>5

\* A step of the sampler that reads nothing.
LEMMA NothingRead ==
    ASSUME TelemetryInv, UNCHANGED <<beside, readings, diskDue, disk, filter, baseline>>
    PROVE  ReadInv' /\ DiskInv'
BY DEF TelemetryInv, ReadInv, DiskInv, MayCount

LEMMA TickAsks ==
    ASSUME NEW t \in Tick, NEW K \in SUBSET Scope,
           tick' = [t EXCEPT !.at = "list", !.keep = K, !.left = {}]
    PROVE  tick' \in Tick /\ tick'.at = "list" /\ tick'.keep = K /\ tick'.left = {}
BY DEF Tick, TickSteps

LEMMA TickLists ==
    ASSUME NEW t \in Tick, NEW L \in SUBSET Scope,
           tick' = [t EXCEPT !.at = "read", !.left = L]
    PROVE  tick' \in Tick /\ tick'.at = "read" /\ tick'.keep = t.keep /\ tick'.left = L
BY DEF Tick, TickSteps

LEMMA TickReads ==
    ASSUME NEW t \in Tick, NEW c, tick' = [t EXCEPT !.left = @ \ {c}]
    PROVE  tick' \in Tick /\ tick'.at = t.at /\ tick'.keep = t.keep /\ tick'.left = t.left \ {c}
BY DEF Tick

LEMMA TickEnds ==
    ASSUME NEW t \in Tick, tick' = [t EXCEPT !.at = "sleep", !.number = @ + 1]
    PROVE  tick' \in Tick /\ tick'.at = "sleep" /\ tick'.keep = t.keep /\ tick'.left = t.left
<1>1. t.number + 1 \in Nat
  BY DEF Tick
<1>2. QED
  BY <1>1 DEF Tick, TickSteps

LEMMA TickGoesOn ==
    ASSUME NEW t \in Tick, NEW s \in TickSteps, tick' = [t EXCEPT !.at = s]
    PROVE  tick' \in Tick /\ tick'.at = s /\ tick'.keep = t.keep /\ tick'.left = t.left
BY DEF Tick

LEMMA SteadyAsks ==
    ASSUME NEW s \in Steady, NEW A \in SUBSET Scope, steady' = [s EXCEPT !.asked = A]
    PROVE  steady' \in Steady /\ steady'.asked = A /\ steady'.listed = s.listed
BY DEF Steady

LEMMA SteadyLists ==
    ASSUME NEW s \in Steady, NEW A \in SUBSET Scope, steady' = [s EXCEPT !.listed = @ \cup A]
    PROVE  steady' \in Steady /\ steady'.asked = s.asked /\ steady'.listed = s.listed \cup A
BY DEF Steady

\* Whatever docker answers, the sampler keeps only containers of the cell, and
\* with an answer all of those that are up.
LEMMA OwnedStep ==
    ASSUME TelemetryInv, owned
    PROVE  TelemetryInv'
<1>1. tick \in Tick /\ steady \in Steady /\ baseline \subseteq Scope /\ TickAt("owned")
      /\ filter \in {"image", "baseline", "none"}
  BY DEF TelemetryInv, TelemetryShapeInv, owned
<1>2. Cgroups \subseteq Scope
  BY DEF Cgroups
<1>3. PICK K \in SUBSET Scope, A \in SUBSET Scope :
          /\ tick' = [tick EXCEPT !.at = "list", !.keep = K, !.left = {}]
          /\ steady' = [steady EXCEPT !.asked = A]
          /\ A \subseteq K /\ \A c \in K : MayCount(c)
  <2>1. CASE /\ tick' = [tick EXCEPT !.at = "list", !.keep = OwnedNow, !.left = {}]
             /\ steady' = [steady EXCEPT !.asked = {c \in Cgroups \ baseline : Image(c) = "cell"}]
    <3>1. /\ OwnedNow \subseteq Scope
          /\ {c \in Cgroups \ baseline : Image(c) = "cell"} \subseteq OwnedNow
          /\ \A c \in OwnedNow : MayCount(c)
      BY <1>1, <1>2 DEF OwnedNow, MayCount
    <3>2. QED
      BY <2>1, <3>1, <1>2
  <2>2. CASE /\ tick' = [tick EXCEPT !.at = "list", !.keep = OwnedIfUnknown, !.left = {}]
             /\ steady' = [steady EXCEPT !.asked = {}]
    <3>1. /\ tick' = [tick EXCEPT !.at = "list", !.keep = {}, !.left = {}]
          /\ steady' = [steady EXCEPT !.asked = {}]
          /\ {} \in SUBSET Scope /\ {} \subseteq {} /\ \A c \in {} : MayCount(c)
      BY <2>2 DEF OwnedIfUnknown
    <3>2. QED
      BY <3>1
  <2>3. QED
    BY <2>1, <2>2 DEF owned, AskAgain
<1>4. /\ tick' \in Tick /\ tick'.at = "list" /\ tick'.keep = K /\ tick'.left = {}
      /\ steady' \in Steady /\ steady'.asked = A /\ steady'.listed = steady.listed
  <2>1. tick' \in Tick /\ tick'.at = "list" /\ tick'.keep = K /\ tick'.left = {}
    BY <1>1, <1>3, TickAsks
  <2>2. steady' \in Steady /\ steady'.asked = A /\ steady'.listed = steady.listed
    BY <1>1, <1>3, SteadyAsks
  <2>3. QED
    BY <2>1, <2>2
<1>5. UNCHANGED <<beside, readings, diskDue, disk, filter, baseline>>
  BY DEF owned
<1>6. TelemetryShapeInv'
  BY <1>4, <1>5 DEF TelemetryInv, TelemetryShapeInv
<1>7. KeptInv'
  <2>1. steady.listed \subseteq DOMAIN readings
    BY <1>1 DEF TelemetryInv, KeptInv, TickAt
  <2>2. QED
    BY <1>3, <1>4, <1>5, <2>1 DEF KeptInv, TickAt, MayCount
<1>8. QED
  BY <1>5, <1>6, <1>7, NothingRead DEF TelemetryInv

LEMMA SnapshotStep ==
    ASSUME TelemetryInv, snapshot
    PROVE  TelemetryInv'
<1>1. tick \in Tick /\ steady \in Steady /\ tick.keep \subseteq Scope /\ TickAt("list")
  BY DEF TelemetryInv, TelemetryShapeInv, snapshot, Tick
<1>2. Cgroups \subseteq Scope /\ Listed \subseteq Scope
  BY <1>1 DEF Cgroups, Listed
<1>3. /\ tick' \in Tick /\ tick'.at = "read" /\ tick'.keep = tick.keep /\ tick'.left = Listed
      /\ steady' \in Steady /\ steady'.asked = steady.asked
      /\ steady'.listed = steady.listed \cup (Cgroups \cap steady.asked)
  <2>1. tick' \in Tick /\ tick'.at = "read" /\ tick'.keep = tick.keep /\ tick'.left = Listed
    BY <1>1, <1>2, TickLists DEF snapshot
  <2>2. Cgroups \cap steady.asked \in SUBSET Scope
    BY <1>2
  <2>3. /\ steady' \in Steady /\ steady'.asked = steady.asked
        /\ steady'.listed = steady.listed \cup (Cgroups \cap steady.asked)
    BY <1>1, <2>2, SteadyLists DEF snapshot
  <2>4. QED
    BY <2>1, <2>3
<1>4. UNCHANGED <<beside, readings, diskDue, disk, filter, baseline>>
  BY DEF snapshot
<1>5. TelemetryShapeInv'
  BY <1>3, <1>4 DEF TelemetryInv, TelemetryShapeInv, Listed
<1>6. KeptInv'
  <2>1. /\ steady.listed \subseteq DOMAIN readings /\ steady.asked \subseteq tick.keep
        /\ \A c \in tick.keep : MayCount(c)
    BY <1>1 DEF TelemetryInv, KeptInv, TickAt
  <2>2. \A c \in Listed : beside[c].is \in {"up", "gone"}
    BY DEF Listed, Cgroups, IsUp
  <2>3. QED
    BY <1>3, <1>4, <2>1, <2>2 DEF KeptInv, TickAt, MayCount, Listed
<1>7. QED
  BY <1>4, <1>5, <1>6, NothingRead DEF TelemetryInv

LEMMA SamplerSteps ==
    ASSUME TelemetryInv, EndTick \/ Sleep
    PROVE  TelemetryInv'
<1>1. tick \in Tick
  BY DEF TelemetryInv, TelemetryShapeInv
<1>2. /\ tick' \in Tick /\ tick'.at \in {"sleep", "owned", "written"}
      /\ tick'.keep = tick.keep /\ tick'.left = tick.left
  <2>1. CASE EndTick
    BY <1>1, <2>1, TickEnds DEF EndTick
  <2>2. CASE Sleep
    <3>1. PICK at \in {"owned", "written"} : tick' = [tick EXCEPT !.at = at]
      BY <2>2 DEF Sleep
    <3>2. at \in TickSteps
      BY DEF TickSteps
    <3>3. QED
      BY <1>1, <3>1, <3>2, TickGoesOn
  <2>3. QED
    BY <2>1, <2>2
<1>3. UNCHANGED <<beside, readings, diskDue, disk, filter, baseline, steady>>
  BY DEF EndTick, Sleep
<1>4. TelemetryShapeInv'
  BY <1>2, <1>3 DEF TelemetryInv, TelemetryShapeInv
<1>5. KeptInv'
  <2>1. steady.listed \subseteq DOMAIN readings
    BY DEF TelemetryInv, KeptInv, TickAt, EndTick, Sleep
  <2>2. QED
    BY <1>2, <1>3, <2>1 DEF TelemetryInv, KeptInv, TickAt, MayCount
<1>6. QED
  BY <1>3, <1>4, <1>5, NothingRead DEF TelemetryInv

LEMMA CounterIs ==
    ASSUME beside \in [Scope -> Containers], NEW c \in Scope, beside[c].is \in {"up", "gone"}
    PROVE  /\ Counter(c) \in Value
           /\ IF Counter(c) = Unread THEN beside[c].is = "gone"
              ELSE beside[c].is = "up" /\ Counter(c) = beside[c].usage
<1>1. beside[c].usage \in 0 .. MaxUsage /\ MaxUsage \in Nat
  BY UsageIsInt
<1>2. beside[c].usage # Unread
  BY <1>1, TelemetryAssumption
<1>3. QED
  BY <1>1, <1>2 DEF Counter, IsUp, Value

\* A new value continues those that were read before.
LEMMA OneMoreReading ==
    ASSUME NEW s \in Seq(Value), NEW u \in 0 .. MaxUsage, NEW v \in Value,
           NEW g \in BOOLEAN, Grows(s, u, g), IF v = Unread THEN g ELSE ~g /\ v = u
    PROVE  Append(s, v) \in Seq(Value) /\ Append(s, v) # <<>> /\ Grows(Append(s, v), u, g)
<1> DEFINE t == Append(s, v)
<1>1. /\ t \in Seq(Value) /\ Len(t) = Len(s) + 1 /\ DOMAIN t = 1 .. Len(s) + 1
      /\ t[Len(s) + 1] = v /\ Len(s) \in Nat
      /\ \A k \in 1 .. Len(s) : t[k] = s[k] /\ k \in DOMAIN s
  OBVIOUS
<1>2. t # <<>>
  OBVIOUS
<1> HIDE DEF t
<1>3. u \in Int
  BY TelemetryAssumption
<1>4. \A k \in DOMAIN t : IF t[k] = Unread THEN g ELSE t[k] <= u
  <2>1. TAKE k \in DOMAIN t
  <2>2. CASE k = Len(s) + 1
    BY <1>1, <1>3, <2>2
  <2>3. CASE k \in 1 .. Len(s)
    BY <1>1, <2>3 DEF Grows
  <2>4. QED
    BY <1>1, <2>2, <2>3
<1>5. ASSUME NEW j \in DOMAIN t, NEW k \in DOMAIN t, j <= k, t[k] # Unread
      PROVE  t[j] # Unread /\ t[j] <= t[k]
  <2>1. j \in Int /\ k \in Int
    BY <1>1
  <2>2. CASE k \in 1 .. Len(s)
    <3>1. j \in 1 .. Len(s)
      BY <1>1, <1>5, <2>1, <2>2
    <3>2. QED
      BY <1>1, <1>5, <2>2, <3>1 DEF Grows
  <2>3. CASE k = Len(s) + 1
    <3>1. v = u /\ ~g /\ t[k] = u
      BY <1>1, <1>5, <2>3
    <3>2. t[j] # Unread /\ t[j] <= u
      BY <1>4, <3>1
    <3>3. QED
      BY <3>1, <3>2
  <2>4. QED
    BY <1>1, <2>2, <2>3
<1>6. Grows(t, u, g)
  BY <1>4, <1>5 DEF Grows
<1>7. QED
  BY <1>1, <1>2, <1>6 DEF t

LEMMA ReadStep ==
    ASSUME TelemetryInv, NEW c \in Scope, ReadContainer(c)
    PROVE  TelemetryInv'
<1>1. /\ tick \in Tick /\ c \in tick.left /\ TickAt("read") /\ beside \in [Scope -> Containers]
      /\ DOMAIN readings \subseteq Scope /\ tick.left \subseteq tick.keep
  BY DEF TelemetryInv, TelemetryShapeInv, ReadContainer
<1>2. UNCHANGED <<beside, filter, baseline, steady>>
  BY DEF ReadContainer
<1>3. /\ tick' \in Tick /\ tick'.at = "read" /\ tick'.keep = tick.keep
      /\ tick'.left = tick.left \ {c}
  BY <1>1, TickReads DEF ReadContainer, TickAt
<1>4. beside[c].is \in {"up", "gone"} /\ MayCount(c)
  BY <1>1 DEF TelemetryInv, KeptInv
<1>5. /\ beside[c].usage \in 0 .. MaxUsage /\ Counter(c) \in Value
      /\ IF Counter(c) = Unread THEN beside[c].is = "gone"
         ELSE beside[c].is # "gone" /\ Counter(c) = beside[c].usage
  BY <1>1, <1>4, UsageIsInt, CounterIs
<1> DEFINE s == IF Noted(c) THEN readings[c] ELSE <<>>
<1>6. s \in Seq(Value) /\ Grows(s, beside[c].usage, beside[c].is = "gone")
  <2>1. CASE Noted(c)
    BY <2>1 DEF TelemetryInv, TelemetryShapeInv, ReadInv, Noted
  <2>2. CASE ~Noted(c)
    BY <2>2 DEF Grows
  <2>3. QED
    BY <2>1, <2>2
<1>7. readings' = [d \in DOMAIN readings \cup {c} |->
                      IF d # c THEN readings[d] ELSE Append(s, Counter(c))]
  <2>1. CASE Noted(c)
    BY <2>1 DEF ReadContainer
  <2>2. CASE ~Noted(c)
    <3>1. Append(<<>>, Counter(c)) = <<Counter(c)>>
      OBVIOUS
    <3>2. QED
      BY <2>2, <3>1 DEF ReadContainer
  <2>3. QED
    BY <2>1, <2>2
<1>8. /\ Append(s, Counter(c)) \in Seq(Value) /\ Append(s, Counter(c)) # <<>>
      /\ Grows(Append(s, Counter(c)), beside[c].usage, beside[c].is = "gone")
  BY <1>5, <1>6, OneMoreReading
<1> HIDE DEF s
<1>9. /\ DOMAIN readings' = DOMAIN readings \cup {c} /\ readings'[c] = Append(s, Counter(c))
      /\ \A d \in DOMAIN readings \ {c} : readings'[d] = readings[d]
  BY <1>7
<1>10. TelemetryShapeInv'
  BY <1>1, <1>2, <1>3, <1>8, <1>9 DEF TelemetryInv, TelemetryShapeInv
<1>11. KeptInv'
  BY <1>1, <1>2, <1>3, <1>9 DEF TelemetryInv, KeptInv, TickAt, MayCount
<1>12. ReadInv'
  <2>1. SUFFICES ASSUME NEW d \in DOMAIN readings'
                 PROVE  MayCount(d) /\ Grows(readings'[d], beside[d].usage, beside[d].is = "gone")
    BY <1>2 DEF ReadInv, MayCount
  <2>2. CASE d = c
    BY <1>4, <1>8, <1>9, <2>2
  <2>3. CASE d # c
    <3>1. d \in DOMAIN readings /\ readings'[d] = readings[d]
      BY <1>9, <2>1, <2>3
    <3>2. QED
      BY <3>1 DEF TelemetryInv, ReadInv
  <2>4. QED
    BY <2>2, <2>3
<1>13. DiskInv'
  <2>1. diskDue = {} /\ diskDue' = {c} /\ disk' = disk
    BY DEF ReadContainer
  <2>2. DOMAIN disk = DOMAIN readings
    BY <2>1 DEF TelemetryInv, DiskInv
  <2>3. diskDue' \cup DOMAIN disk' = DOMAIN readings'
    BY <1>9, <2>1, <2>2
  <2>4. QED
    BY <1>2, <1>4, <2>1, <2>3 DEF TelemetryInv, DiskInv
<1>14. QED
  BY <1>10, <1>11, <1>12, <1>13 DEF TelemetryInv

LEMMA DiskStep ==
    ASSUME TelemetryInv, NEW c \in Scope, ReadDisk(c)
    PROVE  TelemetryInv'
<1>1. /\ c \in diskDue /\ diskDue' = {} /\ beside[c].is \in {"up", "gone"}
      /\ UNCHANGED <<beside, tick, readings, filter, baseline, steady>>
      /\ beside \in [Scope -> Containers]
  BY DEF TelemetryInv, TelemetryShapeInv, DiskInv, ReadDisk
<1>2. TelemetryShapeInv' /\ KeptInv' /\ ReadInv'
  BY <1>1 DEF TelemetryInv, TelemetryShapeInv, KeptInv, ReadInv, MayCount, TickAt
<1> DEFINE was == IF c \in DOMAIN disk THEN disk[c].first ELSE DiskCounter(c)
           now == [first |-> was, last |-> DiskCounter(c)]
<1>3. /\ DOMAIN disk' = DOMAIN disk \cup {c} /\ disk'[c] = now
      /\ \A d \in DOMAIN disk \ {c} : disk'[d] = disk[d]
  BY DEF ReadDisk
<1>4. WrittenUpTo(now, beside[c].usage, beside[c].is = "gone")
  <2>1. beside[c].usage \in 0 .. MaxUsage /\ MaxUsage \in Nat
    BY <1>1, UsageIsInt
  <2>2. DiskCounter(c) = IF beside[c].is = "gone" THEN 0 ELSE beside[c].usage
    BY <1>1 DEF DiskCounter, IsUp
  <2>3. was \in 0 .. MaxUsage /\ was <= beside[c].usage
    <3>1. CASE c \in DOMAIN disk
      BY <3>1 DEF TelemetryInv, DiskInv, WrittenUpTo
    <3>2. CASE c \notin DOMAIN disk
      BY <2>1, <2>2, <3>2
    <3>3. QED
      BY <3>1, <3>2
  <2>4. now.first = was /\ now.last = DiskCounter(c)
    OBVIOUS
  <2> HIDE DEF was, now
  <2>5. QED
    BY <2>1, <2>2, <2>3, <2>4 DEF WrittenUpTo
<1> HIDE DEF now
<1>5. diskDue = {c} /\ DOMAIN disk' = DOMAIN readings
  BY <1>1, <1>3 DEF TelemetryInv, DiskInv
<1>6. DiskInv'
  <2>1. ASSUME NEW d \in DOMAIN disk'
        PROVE  WrittenUpTo(disk'[d], beside[d].usage, beside[d].is = "gone")
    <3>1. CASE d = c
      BY <1>3, <1>4, <3>1
    <3>2. CASE d # c
      BY <1>3, <2>1, <3>2 DEF TelemetryInv, DiskInv
    <3>3. QED
      BY <3>1, <3>2
  <2>2. QED
    BY <1>1, <1>5, <2>1 DEF DiskInv
<1>7. QED
  BY <1>2, <1>6 DEF TelemetryInv

LEMMA TelemetryInvHolds == TelemetrySpec => []TelemetryInv
<1>1. TelemetryInit => TelemetryInv
  <2>1. SUFFICES ASSUME NEW how \in {"image", "baseline", "none"}, NEW old \in SUBSET Scope,
                        TelemetryFrom(how, old)
                 PROVE  TelemetryInv
    BY DEF TelemetryInit
  <2>2. TelemetryShapeInv
    <3>1. \A c \in Scope : [is |-> IF c \in old THEN "up" ELSE "coming", usage |-> 0] \in Containers
      BY TelemetryAssumption DEF Containers
    <3>2. beside \in [Scope -> Containers]
      BY <2>1, <3>1 DEF TelemetryFrom
    <3>3. tick \in Tick /\ steady \in Steady /\ tick.left = {}
      BY <2>1 DEF TelemetryFrom, Tick, TickSteps, Steady
    <3>4. QED
      BY <2>1, <3>2, <3>3 DEF TelemetryFrom, TelemetryShapeInv
  <2>3. KeptInv /\ ReadInv /\ DiskInv
    BY <2>1 DEF TelemetryFrom, KeptInv, ReadInv, DiskInv, TickAt
  <2>4. QED
    BY <2>2, <2>3 DEF TelemetryInv
<1>2. TelemetryInv /\ [TelemetryNext]_telemetryVars => TelemetryInv'
  <2>1. SUFFICES ASSUME TelemetryInv, [TelemetryNext]_telemetryVars
                 PROVE  TelemetryInv'
    OBVIOUS
  <2>2. CASE UNCHANGED telemetryVars
    BY <2>1, <2>2 DEF telemetryVars, TelemetryInv, TelemetryShapeInv, KeptInv, ReadInv,
                      DiskInv, MayCount, TickAt
  <2>3. CASE TelemetryNext
    BY <2>1, <2>3, ContainerSteps, ReadStep, DiskStep, OwnedStep, SnapshotStep, SamplerSteps
       DEF TelemetryNext
  <2>4. QED
    BY <2>1, <2>2, <2>3
<1>3. QED
  BY <1>1, <1>2, PTL DEF TelemetrySpec

-------------------------------------------------------------------------------

LEMMA TelemetryInvImplies ==
    ASSUME TelemetryInv
    PROVE  /\ TelemetryTypeOK /\ OthersAreNotCounted /\ SteadyAreSeen
           /\ ReportedWasUsed /\ LostOnlyIfCut /\ ReportedWasWritten
<1>1. TelemetryTypeOK
  <2>1. diskDue \cup DOMAIN disk = DOMAIN readings
        /\ \A c \in DOMAIN disk : {disk[c].first, disk[c].last} \subseteq 0 .. MaxUsage
    BY DEF TelemetryInv, DiskInv, WrittenUpTo
  <2>2. QED
    BY <2>1 DEF TelemetryInv, TelemetryShapeInv, TelemetryTypeOK, Containers, Tick, TickSteps,
                Value
<1>2. OthersAreNotCounted
  BY DEF TelemetryInv, ReadInv, MayCount, OthersAreNotCounted
<1>3. SteadyAreSeen
  BY DEF TelemetryInv, KeptInv, SteadyAreSeen, IsWritten, TickAt
<1>4. ASSUME NEW c \in DOMAIN readings
      PROVE  LET s == readings[c]
                 last == Len(readings[c])
             IN  /\ s \in Seq(Value) /\ 1 \in DOMAIN s /\ last \in DOMAIN s
                 /\ beside[c].usage \in Int /\ beside[c].usage >= 0
                 /\ \A k \in DOMAIN s : 1 <= k /\ k <= last
                 /\ \A k \in DOMAIN s :
                        /\ s[k] = Unread => beside[c].is = "gone"
                        /\ s[k] # Unread => s[k] \in Int /\ s[k] >= 0 /\ s[k] <= beside[c].usage
                 /\ \A j, k \in DOMAIN s : j <= k /\ s[k] # Unread =>
                        s[j] # Unread /\ s[j] <= s[k]
  <2>1. /\ c \in Scope /\ readings[c] \in Seq(Value) /\ readings[c] # <<>>
        /\ Grows(readings[c], beside[c].usage, beside[c].is = "gone")
        /\ beside \in [Scope -> Containers]
    BY <1>4 DEF TelemetryInv, TelemetryShapeInv, ReadInv
  <2>2. beside[c].usage \in Int /\ beside[c].usage >= 0
    BY <2>1, UsageIsInt
  <2>3. 1 \in DOMAIN readings[c] /\ Len(readings[c]) \in DOMAIN readings[c]
        /\ \A k \in DOMAIN readings[c] : 1 <= k /\ k <= Len(readings[c])
    BY <2>1
  <2>4. \A k \in DOMAIN readings[c] :
            readings[c][k] # Unread => readings[c][k] \in Int /\ readings[c][k] >= 0
    BY <2>1, ValueIsInt
  <2>5. QED
    BY <2>1, <2>2, <2>3, <2>4 DEF Grows
<1>5. ReportedWasUsed
  <2>1. SUFFICES ASSUME NEW c \in DOMAIN readings
                 PROVE  /\ CpuSeconds(c) >= 0 /\ CpuSeconds(c) <= beside[c].usage
                        /\ readings[c][1] # Unread =>
                               CpuSeconds(c) <= beside[c].usage - readings[c][1]
    BY DEF ReportedWasUsed
  <2> DEFINE first == readings[c][1]
             last == readings[c][Len(readings[c])]
  <2>2. CpuSeconds(c) = IF Unread \in {first, last} THEN 0 ELSE last - first
    BY DEF CpuSeconds
  <2>3. /\ beside[c].usage \in Int /\ beside[c].usage >= 0
        /\ first # Unread => first \in Int /\ first >= 0 /\ first <= beside[c].usage
        /\ last # Unread => /\ last \in Int /\ last >= 0 /\ last <= beside[c].usage
                            /\ first # Unread /\ first <= last
    BY <1>4
  <2> HIDE DEF first, last
  <2>4. /\ CpuSeconds(c) >= 0 /\ CpuSeconds(c) <= beside[c].usage
        /\ first # Unread => CpuSeconds(c) <= beside[c].usage - first
    BY <2>2, <2>3
  <2>5. QED
    BY <2>4 DEF first
<1>6. LostOnlyIfCut
  <2>1. SUFFICES ASSUME NEW c \in DOMAIN readings
                 PROVE  LET whole == {readings[c][k] : k \in DOMAIN readings[c]} \ {Unread}
                            spread == {x \in 0 .. MaxUsage : \E a, b \in whole : x = b - a}
                        IN  \/ \A x \in spread : x <= CpuSeconds(c)
                            \/ /\ CpuSeconds(c) = 0 /\ beside[c].is = "gone"
                               /\ \E k \in DOMAIN readings[c] : readings[c][k] = Unread
    BY DEF LostOnlyIfCut
  <2> DEFINE first == readings[c][1]
             last == readings[c][Len(readings[c])]
  <2>2. CpuSeconds(c) = IF Unread \in {first, last} THEN 0 ELSE last - first
    BY DEF CpuSeconds
  <2>3. CASE last = Unread
    BY <1>4, <2>2, <2>3
  <2>4. CASE last # Unread
    <3>1. first # Unread /\ first \in Int /\ last \in Int /\ CpuSeconds(c) = last - first
      BY <1>4, <2>2, <2>4
    <3>2. \A k \in DOMAIN readings[c] :
              readings[c][k] \in Int /\ first <= readings[c][k] /\ readings[c][k] <= last
      BY <1>4, <2>4
    <3> HIDE DEF first, last
    <3>3. \A k, l \in DOMAIN readings[c] : readings[c][l] - readings[c][k] <= CpuSeconds(c)
      BY <3>1, <3>2
    <3>4. QED
      BY <3>3
  <2>5. QED
    BY <2>3, <2>4
<1>7. ReportedWasWritten
  <2>1. SUFFICES ASSUME NEW c \in DOMAIN disk
                 PROVE  /\ DiskMb(c) <= beside[c].usage - disk[c].first
                        /\ DiskMb(c) < 0 =>
                               beside[c].is = "gone" /\ DiskMb(c) = 0 - disk[c].first
    BY DEF ReportedWasWritten
  <2>2. /\ c \in Scope /\ beside \in [Scope -> Containers]
        /\ WrittenUpTo(disk[c], beside[c].usage, beside[c].is = "gone")
    BY <2>1 DEF TelemetryInv, TelemetryShapeInv, DiskInv
  <2>3. /\ beside[c].usage \in Int /\ disk[c].first \in Int /\ disk[c].last \in Int
        /\ 0 <= disk[c].first /\ disk[c].first <= beside[c].usage
        /\ \/ disk[c].first <= disk[c].last /\ disk[c].last <= beside[c].usage
           \/ disk[c].last = 0 /\ beside[c].is = "gone"
    BY <2>2, UsageIsInt, TelemetryAssumption DEF WrittenUpTo
  <2>4. QED
    BY <2>3 DEF DiskMb
<1>8. QED
  BY <1>1, <1>2, <1>3, <1>5, <1>6, <1>7

-------------------------------------------------------------------------------

(* A cell of the harness is answered, measured and counted as itself,       *)
(* however many cells, trials, containers, ticks and failures there are.    *)
THEOREM CellsAreOwn == HarnessSpec /\ TelemetrySpec => []CellsAreTheirOwn
<1>1. HarnessInv /\ TelemetryInv => CellsAreTheirOwn
  BY HarnessInvImplies, TelemetryInvImplies DEF CellsAreTheirOwn
<1>2. QED
  BY <1>1, HarnessInvHolds, TelemetryInvHolds, PTL

-------------------------------------------------------------------------------
(* Hosts, preflights and profiles: single calls, whose answers follow from *)
(* their arguments.                                                        *)

LEMMA LeastNumber ==
    ASSUME NEW T \in SUBSET Nat, T # {}
    PROVE  \E n \in T : \A m \in T : n <= m
<1> DEFINE R == OpToRel(<, Nat)
<1>1. IsWellFoundedOn(R, Nat)
  BY NatLessThanWellFounded
<1> HIDE DEF R
<1>2. PICK n \in T : \A m \in T : <<m, n>> \notin R
  BY <1>1, WFMin
<1>3. \A m \in T : m < n => <<m, n>> \in R
  BY DEF R, OpToRel
<1>4. \A m \in T : ~ (m < n)
  BY <1>2, <1>3
<1>5. \A m \in T : n <= m
  BY <1>4
<1> QED
  BY <1>5

LEMMA MinOf ==
    ASSUME NEW T \in SUBSET Nat, T # {}
    PROVE  Min(T) \in T /\ \A m \in T : Min(T) <= m
BY LeastNumber DEF Min

-------------------------------------------------------------------------------
(* What the host is.                                                       *)

Line == {"logical", "per_socket", "sockets", "nodes"}
Count == Nat \ {0}

LEMMA LscpuLinesAre == /\ DOMAIN LscpuLines = 1 .. 4 /\ Len(LscpuLines) = 4
                       /\ \A k \in 1 .. 4 : LscpuLines[k] \in Line
                       /\ \A f \in Line : \E k \in 1 .. 4 : LscpuLines[k] = f
                       /\ Range(LscpuLines) = Line
<1>1. DOMAIN LscpuLines = 1 .. 4 /\ Len(LscpuLines) = 4
  BY DEF LscpuLines
<1>2. /\ LscpuLines[1] = "logical" /\ LscpuLines[2] = "per_socket"
      /\ LscpuLines[3] = "sockets" /\ LscpuLines[4] = "nodes"
  BY DEF LscpuLines
<1>3. \A k \in 1 .. 4 : k = 1 \/ k = 2 \/ k = 3 \/ k = 4
  OBVIOUS
<1>4. \A k \in 1 .. 4 : LscpuLines[k] \in Line
  BY <1>2, <1>3 DEF Line
<1>5. \A f \in Line : \E k \in 1 .. 4 : LscpuLines[k] = f
  BY <1>2 DEF Line
<1>6. Range(LscpuLines) = Line
  BY <1>1, <1>4, <1>5 DEF Range
<1> QED
  BY <1>1, <1>4, <1>5, <1>6

LEMMA ParsedIs ==
    ASSUME NEW lscpu \in LscpuOutputs
    PROVE  /\ \A f \in Parsed(lscpu) : f \in Line /\ lscpu.lines[f] \in Count
           /\ (\A f \in Line : lscpu.lines[f] > 0) => Parsed(lscpu) = Line
<1> DEFINE bad == {k \in DOMAIN LscpuLines : lscpu.lines[LscpuLines[k]] = Garbage}
           good == IF bad = {} THEN Len(LscpuLines) ELSE Min(bad) - 1
           missing == {f \in Range(LscpuLines) : lscpu.lines[f] = Absent}
<1>1. Parsed(lscpu) = {LscpuLines[k] : k \in 1 .. good} \ missing
  BY DEF Parsed
<1>2. lscpu.lines \in [Line -> Count \cup {Garbage, Absent}]
  BY LscpuAssumption DEF Line, Count
<1>3. good \in 0 .. 4 /\ \A k \in 1 .. good : k \in 1 .. 4 /\ k \notin bad
  <2>1. CASE bad = {}
    BY <2>1, LscpuLinesAre
  <2>2. CASE bad # {}
    <3>1. bad \in SUBSET (1 .. 4) /\ bad \in SUBSET Nat
      BY LscpuLinesAre
    <3> HIDE DEF bad
    <3>2. Min(bad) \in bad /\ \A m \in bad : Min(bad) <= m
      BY <2>2, <3>1, MinOf
    <3>3. good = Min(bad) - 1
      BY <2>2
    <3> HIDE DEF good
    <3>4. Min(bad) \in 1 .. 4
      BY <3>1, <3>2
    <3>5. good \in 0 .. 3
      BY <3>3, <3>4
    <3>6. ASSUME NEW k \in 1 .. good
          PROVE  k \in 1 .. 4 /\ k \notin bad
      <4>1. k \in 1 .. 4 /\ k < Min(bad)
        BY <3>3, <3>4, <3>5
      <4>2. QED
        BY <3>2, <3>4, <4>1
    <3>7. QED
      BY <3>5, <3>6
  <2>3. QED
    BY <2>1, <2>2
<1> HIDE DEF good
<1>4. ASSUME NEW f \in Parsed(lscpu)
      PROVE  f \in Line /\ lscpu.lines[f] \in Count
  <2>1. PICK k \in 1 .. good : f = LscpuLines[k]
    BY <1>1
  <2>2. f \in Line /\ lscpu.lines[f] # Garbage
    BY <1>3, <2>1, LscpuLinesAre
  <2>3. lscpu.lines[f] # Absent
    BY <1>1, <2>2, LscpuLinesAre
  <2>4. QED
    BY <1>2, <2>2, <2>3
<1>5. ASSUME \A f \in Line : lscpu.lines[f] > 0
      PROVE  Parsed(lscpu) = Line
  <2>1. \A f \in Line : lscpu.lines[f] # Garbage /\ lscpu.lines[f] # Absent
    BY <1>5 DEF Garbage, Absent
  <2>2. bad = {} /\ missing = {}
    BY <2>1, LscpuLinesAre
  <2>3. good = 4
    BY <2>2, LscpuLinesAre DEF good
  <2>4. QED
    BY <1>1, <2>2, <2>3, LscpuLinesAre
<1> QED
  BY <1>4, <1>5

LEMMA LineOrIs ==
    ASSUME NEW lscpu \in LscpuOutputs, NEW f \in Line, NEW default \in Count
    PROVE  /\ LineOr(lscpu, f, default) \in Count
           /\ lscpu.status = "ok" /\ f \in Parsed(lscpu) =>
                  LineOr(lscpu, f, default) = lscpu.lines[f]
BY ParsedIs DEF LineOr

LEMMA Divided ==
    ASSUME NEW total \in Nat, NEW n \in Count
    PROVE  /\ total \div n \in Nat
           /\ (total \div n) * n \in total - n + 1 .. total
<1> DEFINE q == total \div n
<1>1. q \in Int /\ n * q <= total /\ total < n * q + n /\ q >= 0
  BY DEF Count
<1>2. n \in Nat /\ n > 0
  BY DEF Count
<1> HIDE DEF q
<1>3. n * q = q * n /\ q * n \in Int
  BY <1>1, <1>2
<1>4. QED
  BY <1>1, <1>2, <1>3 DEF q

LEMMA TopologyIs ==
    ASSUME NEW lscpu \in LscpuOutputs, NEW cpuinfo \in CpuInfos
    PROVE  LET t == _detect_topology(lscpu, cpuinfo)
               lines == lscpu.lines
           IN  /\ t.sockets \in Count /\ t.nodes \in Count
               /\ lscpu.status = "ok" /\ "sockets" \in Parsed(lscpu) =>
                      t.sockets = lines["sockets"]
               /\ lscpu.status = "ok" /\ (\A f \in Line : lines[f] > 0) =>
                      /\ t.nodes = lines["nodes"]
                      /\ t.per_node = (lines["per_socket"] * lines["sockets"]) \div lines["nodes"]
<1> DEFINE t == _detect_topology(lscpu, cpuinfo)
           lines == lscpu.lines
           sockets == LineOr(lscpu, "sockets", 1)
           nodes == LineOr(lscpu, "nodes", 1)
<1>1. t.sockets = sockets /\ t.nodes = nodes
  BY DEF _detect_topology
<1>2. /\ sockets \in Count /\ nodes \in Count
      /\ lscpu.status = "ok" /\ "sockets" \in Parsed(lscpu) => sockets = lines["sockets"]
      /\ lscpu.status = "ok" /\ "nodes" \in Parsed(lscpu) => nodes = lines["nodes"]
  BY LineOrIs DEF Line, Count
<1>3. ASSUME lscpu.status = "ok", \A f \in Line : lines[f] > 0
      PROVE  /\ nodes = lines["nodes"]
             /\ t.per_node = (lines["per_socket"] * lines["sockets"]) \div lines["nodes"]
  <2>1. Parsed(lscpu) = Line
    BY <1>3, ParsedIs
  <2>2. "sockets" \in Line /\ "nodes" \in Line /\ "per_socket" \in Line
    BY DEF Line
  <2>3. sockets = lines["sockets"] /\ nodes = lines["nodes"]
    BY <1>2, <1>3, <2>1, <2>2
  <2>4. \A f \in Range(LscpuLines) : lines[f] # Garbage
    BY <1>3, LscpuLinesAre DEF Garbage
  <2>5. Max({nodes, 1}) = nodes
    <3>1. nodes \in {nodes, 1} /\ \A y \in {nodes, 1} : nodes >= y
      BY <1>2 DEF Count
    <3>2. \A x \in {nodes, 1} : (\A y \in {nodes, 1} : x >= y) => x = nodes
      BY <1>2 DEF Count
    <3> HIDE DEF nodes
    <3>3. QED
      BY <3>1, <3>2 DEF Max
  <2> HIDE DEF sockets, nodes
  <2>6. t.per_node = Physical(lines["per_socket"], sockets) \div Max({nodes, 1})
    BY <1>3, <2>1, <2>2, <2>4 DEF _detect_topology, sockets, nodes
  <2>7. QED
    BY <2>3, <2>5, <2>6 DEF Physical
<1> HIDE DEF sockets, nodes, t
<1>4. QED
  BY <1>1, <1>2, <1>3 DEF t

LEMMA MlcRow ==
    ASSUME NEW files \in Seq(Seq(Int)), _try_mlc_bandwidth(files) # Absent
    PROVE  LET gb == _try_mlc_bandwidth(files)
           IN  gb \in UNION {Range(files[k]) : k \in DOMAIN files} /\ PlausibleRow(gb)
<1> DEFINE usable == {k \in DOMAIN files : {j \in DOMAIN files[k] : PlausibleRow(files[k][j])} # {}}
           K == Min(usable)
           row == files[K]
           inRow == {j \in DOMAIN row : PlausibleRow(row[j])}
           J == Min(inRow)
<1>1. usable # {} /\ _try_mlc_bandwidth(files) = row[J]
  BY DEF _try_mlc_bandwidth
<1>2. usable \in SUBSET Nat
  OBVIOUS
<1>3. K \in usable
  BY <1>1, <1>2, MinOf
<1> HIDE DEF K
<1>4. K \in DOMAIN files /\ inRow # {} /\ row \in Seq(Int)
  BY <1>3
<1>5. row \in {files[i] : i \in DOMAIN files}
  BY <1>4
<1> HIDE DEF row
<1>6. inRow \in SUBSET Nat
  BY <1>4
<1>7. J \in inRow
  BY <1>4, <1>6, MinOf
<1> HIDE DEF J
<1>8. J \in DOMAIN row /\ PlausibleRow(row[J])
  BY <1>7
<1>9. row[J] \in Range(row)
  BY <1>8 DEF Range
<1>10. Range(row) \in {Range(files[i]) : i \in DOMAIN files}
  BY <1>4 DEF row
<1> QED
  BY <1>1, <1>8, <1>9, <1>10

LEMMA PeakOfPart ==
    ASSUME NEW cpuinfo, NEW sockets \in Count
    PROVE  LET cpu == _detect_cpu(cpuinfo)
               estimate == _estimate_bandwidth(cpu, sockets)
           IN  estimate # Absent => uarch_is_known(cpu) /\ estimate \in Count
<1> DEFINE cpu == _detect_cpu(cpuinfo)
           estimate == _estimate_bandwidth(cpu, sockets)
<1>1. \/ cpu.source \in {"cpuid", "sku_string"}
      \/ cpu.uarch = "unknown"
  BY DEF _detect_cpu, _identify_microarch
<1> HIDE DEF cpu
<1>2. DOMAIN PeakPerSocket =
          {"GNR", "EMR", "SPR", "ICX", "CWF", "SRF", "Zen5", "Zen4", "Zen4c", "Zen3"}
  BY DEF PeakPerSocket
<1>3. \A u \in DOMAIN PeakPerSocket : PeakPerSocket[u] \in Count
  BY DEF PeakPerSocket, Count
<1> SUFFICES ASSUME estimate # Absent
             PROVE  uarch_is_known(cpu) /\ estimate \in Count
  BY DEF cpu
<1>4. cpu.uarch \in DOMAIN PeakPerSocket /\ estimate = PeakPerSocket[cpu.uarch] * sockets
  BY DEF _estimate_bandwidth
<1>5. uarch_is_known(cpu)
  BY <1>1, <1>2, <1>4 DEF uarch_is_known
<1>6. \A a, b \in Count : a * b \in Count
  BY DEF Count
<1>7. estimate \in Count
  BY <1>3, <1>4, <1>6
<1> QED
  BY <1>5, <1>7

LEMMA MemoryIs ==
    ASSUME NEW mlc \in Seq(Seq(Int)), NEW cpuinfo, NEW topology,
           topology.sockets \in Count, topology.nodes \in Count
    PROVE  LET m == _detect_memory_bandwidth(mlc, _detect_cpu(cpuinfo), topology)
           IN  /\ m.source = "estimated" => uarch_is_known(_detect_cpu(cpuinfo))
               /\ m.source = "mlc" => /\ m.total \in UNION {Range(mlc[k]) : k \in DOMAIN mlc}
                                      /\ PlausibleRow(m.total)
               /\ m.source = "unknown" <=> m.total = 0
               /\ m.total \in Nat
               /\ m.per_node = m.total \div topology.nodes
<1> DEFINE cpu == _detect_cpu(cpuinfo)
           m == _detect_memory_bandwidth(mlc, cpu, topology)
           measured == _try_mlc_bandwidth(mlc)
           estimate == _estimate_bandwidth(cpu, topology.sockets)
           Peak(bw, source) == [total |-> bw, source |-> source,
                                per_node |-> bw \div topology.nodes]
<1>1. Max({topology.nodes, 1}) = topology.nodes
  <2>1. \A n \in Count : Max({n, 1}) = n
    <3> SUFFICES ASSUME NEW n \in Count
                 PROVE  Max({n, 1}) = n
      OBVIOUS
    <3>1. n \in {n, 1} /\ \A y \in {n, 1} : n >= y
      BY DEF Count
    <3>2. \A x \in {n, 1} : (\A y \in {n, 1} : x >= y) => x = n
      BY DEF Count
    <3>3. QED
      BY <3>1, <3>2 DEF Max
  <2>2. QED
    BY <2>1
<1>2. m = IF measured # Absent THEN Peak(measured, "mlc")
          ELSE IF estimate # Absent THEN Peak(estimate, "estimated")
          ELSE Peak(0, "unknown")
  BY <1>1 DEF _detect_memory_bandwidth
<1>3. estimate # Absent => uarch_is_known(cpu) /\ estimate \in Count
  BY PeakOfPart
<1>4. measured # Absent => /\ measured \in UNION {Range(mlc[k]) : k \in DOMAIN mlc}
                           /\ PlausibleRow(measured)
  BY MlcRow
<1>5. PlausibleRow(measured) => measured \in Nat /\ measured >= 10
  <2>1. MostGbs \in Int
    BY SMT DEF MostGbs
  <2>2. \A n \in PlausibleGbs : n \in Nat /\ n >= 10
    BY <2>1, SMT DEF PlausibleGbs
  <2>3. QED
    BY <2>2 DEF PlausibleRow
<1> HIDE DEF m, cpu, measured, estimate
<1>6. CASE measured # Absent
  <2>1. m.source = "mlc" /\ m.total = measured /\ m.per_node = measured \div topology.nodes
    BY <1>2, <1>6
  <2>2. measured \in Nat /\ measured # 0
    BY <1>4, <1>5, <1>6
  <2>3. QED
    BY <1>4, <1>6, <2>1, <2>2 DEF m, cpu
<1>7. CASE measured = Absent /\ estimate # Absent
  <2>1. m.source = "estimated" /\ m.total = estimate /\ m.per_node = estimate \div topology.nodes
    BY <1>2, <1>7
  <2>2. estimate \in Nat /\ estimate # 0
    BY <1>3, <1>7 DEF Count
  <2>3. QED
    BY <1>3, <1>7, <2>1, <2>2 DEF m, cpu
<1>8. CASE measured = Absent /\ estimate = Absent
  <2>1. m.source = "unknown" /\ m.total = 0 /\ m.per_node = 0 \div topology.nodes
    BY <1>2, <1>8
  <2>2. QED
    BY <2>1 DEF m, cpu
<1> QED
  BY <1>6, <1>7, <1>8

LEMMA CacheIs ==
    ASSUME NEW lscpu \in LscpuOutputs, NEW files \in CacheFiles, NEW topology,
           topology.sockets \in Count, topology.nodes \in Count
    PROVE  LET c == _detect_cache(files, lscpu, topology)
           IN  /\ c.total \in Nat
               /\ files.present => c.per_node = c.total \div topology.nodes
               /\ files.present /\ files.l3 > 0 => c.total = files.l3 * topology.sockets
<1> DEFINE c == _detect_cache(files, lscpu, topology)
           found == IF files.l3 > 0 THEN SysfsL3(files, topology.sockets) ELSE 0
           total == IF found > 0 THEN found ELSE LscpuL3(lscpu)
<1>1. files.present \in BOOLEAN /\ files.l3 \in Nat \cup {Absent} /\ lscpu.l3 \in Nat \cup {Absent}
  BY FilesAssumption, LscpuAssumption
<1>2. LscpuL3(lscpu) \in Nat
  BY <1>1 DEF LscpuL3, Absent
<1>3. \A a, b \in Count : a * b \in Count
  BY DEF Count
<1>4. found \in Nat /\ (files.l3 > 0 => found = files.l3 * topology.sockets /\ found > 0)
  <2>1. CASE files.l3 > 0
    <3>1. files.l3 \in Count
      BY <1>1, <2>1 DEF Absent, Count
    <3>2. found = files.l3 * topology.sockets
      BY <2>1 DEF SysfsL3
    <3>3. found \in Count
      BY <1>3, <3>1, <3>2
    <3>4. QED
      BY <3>2, <3>3 DEF Count
  <2>2. CASE ~(files.l3 > 0)
    BY <2>2
  <2>3. QED
    BY <2>1, <2>2
<1> HIDE DEF found
<1>5. total \in Nat /\ (files.l3 > 0 => total = files.l3 * topology.sockets)
  BY <1>2, <1>4
<1>6. topology.nodes > 0
  BY DEF Count
<1>7. CASE files.present
  <2>1. c.total = total /\ c.per_node = total \div topology.nodes
    BY <1>6, <1>7 DEF _detect_cache, found
  <2> HIDE DEF c, total
  <2>2. QED
    BY <1>5, <2>1 DEF c
<1>8. CASE ~files.present
  <2>1. c.total = LscpuL3(lscpu)
    BY <1>8 DEF _detect_cache
  <2> HIDE DEF c
  <2>2. QED
    BY <1>2, <1>8, <2>1 DEF c
<1> QED
  BY <1>7, <1>8

LEMMA DetectKeeps ==
    ASSUME DetectPlatform
    PROVE  HostVerdicts'
<1>1. PICK cpuinfo \in CpuInfos, lscpu \in LscpuOutputs, files \in CacheFiles,
           mlc \in MlcResults :
           LET host == [cpuinfo |-> cpuinfo, lscpu |-> lscpu, files |-> files, mlc |-> mlc]
           IN  Answer("detect_platform", host, detect_platform(host))
  BY DEF DetectPlatform
<1> DEFINE cpu == _detect_cpu(cpuinfo)
           topology == _detect_topology(lscpu, cpuinfo)
           cache == _detect_cache(files, lscpu, topology)
           memory == _detect_memory_bandwidth(mlc, cpu, topology)
           lines == lscpu.lines
<1>2. /\ call'.fn = "detect_platform" /\ call'.args.lscpu = lscpu
      /\ call'.args.files = files /\ call'.args.mlc = mlc
      /\ ~call'.result.raised =>
             /\ call'.result.value.cpu = cpu /\ call'.result.value.topology = topology
             /\ call'.result.value.cache = cache /\ call'.result.value.memory = memory
  BY <1>1 DEF Answer, detect_platform, Returns, Raises
<1>3. /\ topology.sockets \in Count /\ topology.nodes \in Count
      /\ lscpu.status = "ok" /\ "sockets" \in Parsed(lscpu) => topology.sockets = lines["sockets"]
      /\ lscpu.status = "ok" /\ (\A f \in Line : lines[f] > 0) =>
             /\ topology.nodes = lines["nodes"]
             /\ topology.per_node = (lines["per_socket"] * lines["sockets"]) \div lines["nodes"]
  BY TopologyIs
<1>4. DOMAIN lines = Line /\ \A f \in Line : lines[f] \in Count \cup {Garbage, Absent}
  BY LscpuAssumption DEF Line, Count
<1> HIDE DEF topology
<1>5. /\ memory.source = "estimated" => uarch_is_known(cpu)
      /\ memory.source = "mlc" => /\ memory.total \in UNION {Range(mlc[k]) : k \in DOMAIN mlc}
                                  /\ PlausibleRow(memory.total)
      /\ memory.source = "unknown" <=> memory.total = 0
      /\ memory.total \in Nat
      /\ memory.per_node = memory.total \div topology.nodes
  <2>1. mlc \in Seq(Seq(Int))
    BY FilesAssumption
  <2>2. QED
    BY <1>3, <2>1, MemoryIs
<1>6. /\ cache.total \in Nat
      /\ files.present => cache.per_node = cache.total \div topology.nodes
      /\ files.present /\ files.l3 > 0 => cache.total = files.l3 * topology.sockets
  BY <1>3, CacheIs
<1> HIDE DEF cache, memory, cpu, lines
<1>7. PeakHasSource'
  <2> DEFINE rows == UNION {Range(mlc[k]) : k \in DOMAIN mlc}
  <2>1. PeakHasSource' <=>
            (~call'.result.raised =>
               /\ memory.source = "estimated" => uarch_is_known(cpu)
               /\ memory.source = "mlc" => memory.total \in rows \cap PlausibleGbs
               /\ memory.source = "unknown" <=> memory.total = 0)
    BY <1>2 DEF PeakHasSource, Detected
  <2> HIDE DEF rows
  <2>2. PlausibleRow(memory.total) => memory.total \in PlausibleGbs
    BY DEF PlausibleRow
  <2>3. QED
    BY <1>5, <2>1, <2>2 DEF rows
<1>8. NodesShareTheHost'
  <2> SUFFICES ASSUME lscpu.status = "ok", \A f \in DOMAIN lines : lines[f] > 0
               PROVE  LET Share(part, total) ==
                              part * lines["nodes"] \in total - lines["nodes"] + 1 .. total
                      IN  /\ Share(topology.per_node, lines["per_socket"] * lines["sockets"])
                          /\ Share(memory.per_node, memory.total)
                          /\ files.present => Share(cache.per_node, cache.total)
    BY <1>2 DEF NodesShareTheHost, Detected, lines
  <2>1. \A f \in Line : lines[f] > 0 /\ lines[f] \in Count
    BY <1>4 DEF Garbage, Absent
  <2>2. lines["nodes"] \in Count /\ lines["per_socket"] \in Count /\ lines["sockets"] \in Count
    BY <2>1 DEF Line
  <2>3. lines["per_socket"] * lines["sockets"] \in Nat
    BY <2>2 DEF Count
  <2> DEFINE all == lines["per_socket"] * lines["sockets"]
             n == lines["nodes"]
  <2>4. topology.nodes = n /\ topology.per_node = all \div n
    BY <1>3, <2>1
  <2> HIDE DEF all, n
  <2>5. n \in Count /\ all \in Nat
    BY <2>2, <2>3 DEF n, all
  <2>6. topology.per_node * n \in all - n + 1 .. all
    BY <2>4, <2>5, Divided
  <2>7. memory.per_node * n \in memory.total - n + 1 .. memory.total
    BY <1>5, <2>4, <2>5, Divided
  <2>8. files.present => cache.per_node * n \in cache.total - n + 1 .. cache.total
    BY <1>6, <2>4, <2>5, Divided
  <2>9. QED
    BY <2>6, <2>7, <2>8 DEF all, n
<1>9. L3SourcesAgree'
  <2>1. L3SourcesAgree' <=>
            (~call'.result.raised =>
               ((/\ lscpu.status = "ok" /\ "sockets" \in Parsed(lscpu)
                 /\ files.present /\ files.l3 > 0
                 /\ lscpu.l3 = files.l3 * lines["sockets"]) => cache.total = lscpu.l3))
    BY <1>2 DEF L3SourcesAgree, Detected, lines
  <2>2. QED
    BY <1>3, <1>6, <2>1
<1> QED
  BY <1>2, <1>7, <1>8, <1>9 DEF HostVerdicts, ExitMatchesHost, FixesOnlyFailures,
     ReadyMeansCounters, FixConverges, EngagedMeansMeasured, FailureHasCause,
     AxesAreTheProfiles, UnverifiableIsPredicted, Called, Succeeded

-------------------------------------------------------------------------------
(* What preflight finds, and what it changes.                              *)

Setting == [vendor : {"intel", "amd", "arm", "unknown"}, uarch_known : BOOLEAN,
            paranoid : {Absent, -1} \cup Nat, nmi : {Absent} \cup Nat, msr : BOOLEAN,
            governor : {"none", "performance", "powersave"}, perf : BOOLEAN, numactl : BOOLEAN,
            perfspect : BOOLEAN, at_home : BOOLEAN, tools : BOOLEAN, headers : BOOLEAN]

Fields == {"vendor", "uarch_known", "paranoid", "nmi", "msr", "governor", "perf", "numactl",
           "perfspect", "at_home", "tools", "headers"}

\* The checks that may fail, each named after its setting; of these, the ones that do.
MayFail == {"paranoid", "governor", "perf", "numactl", "perfspect"}

Fails(h, required) ==
    {n \in MayFail : \/ n = "paranoid" /\ h.paranoid \notin {-1, 0, 1}
                     \/ n = "governor" /\ h.governor = "powersave"
                     \/ n = "perf" /\ ~h.perf
                     \/ n = "numactl" /\ ~h.numactl
                     \/ n = "perfspect" /\ ~h.perfspect /\ required}

\* A check that fails is one of the five, stands in the way of a run, and has a fix.
LEMMA FailedIs ==
    ASSUME NEW h \in Setting, NEW required \in BOOLEAN
    PROVE  LET checks == run_checks(h, required)
           IN  /\ {c.name : c \in Fixable(checks)} = Fails(h, required)
               /\ ready(checks) <=> Fails(h, required) = {}
<1> DEFINE checks == run_checks(h, required)
           Sound(c) == /\ ~passed(c) <=> c.name \in Fails(h, required)
                       /\ ~passed(c) => c.fix
                       /\ passed(c) <=> (c.category # "optional"
                                            => c.status \notin {"MISSING", "MISCONFIGURED"})
<1>1. /\ h.paranoid \in {Absent, -1} \cup Nat /\ h.nmi \in {Absent} \cup Nat
      /\ h.governor \in {"none", "performance", "powersave"}
  BY DEF Setting
<1>2. Sound(_check_cpu_vendor(h)) /\ Sound(_check_microarch(h))
  BY DEF _check_cpu_vendor, _check_microarch, Check, passed, Fails, MayFail
<1>3. Sound(_check_perf_paranoid(h)) /\ _check_perf_paranoid(h).name = "paranoid"
  <2> DEFINE c == _check_perf_paranoid(h)
  <2>1. /\ c.name = "paranoid" /\ c.category = "kernel" /\ c.fix = TRUE
        /\ h.paranoid \in {-1, 0} => c.status = "OK"
        /\ h.paranoid = 1 => c.status = "WARNING"
        /\ h.paranoid \notin {-1, 0, 1} => c.status \in {"MISSING", "MISCONFIGURED"}
    <3>1. CASE h.paranoid = Absent
      BY <3>1 DEF _check_perf_paranoid, Check, Absent
    <3>2. CASE h.paranoid \in {-1, 0}
      BY <3>2 DEF _check_perf_paranoid, Check, Absent
    <3>3. CASE h.paranoid = 1
      BY <3>3 DEF _check_perf_paranoid, Check, Absent
    <3>4. CASE h.paranoid > 1
      BY <1>1, <3>4 DEF _check_perf_paranoid, Check, Absent
    <3>5. h.paranoid = Absent \/ h.paranoid \in {-1, 0} \/ h.paranoid = 1 \/ h.paranoid > 1
      BY <1>1
    <3> HIDE DEF c
    <3>6. QED
      BY <3>1, <3>2, <3>3, <3>4, <3>5
  <2> HIDE DEF c
  <2>2. QED
    BY <2>1 DEF passed, Fails, MayFail, c
<1>4. Sound(_check_nmi_watchdog(h))
  <2>1. h.nmi = Absent \/ h.nmi = 0 \/ h.nmi > 0
    BY <1>1
  <2>2. _check_nmi_watchdog(h).status \in {"SKIPPED", "OK", "WARNING"}
    BY <2>1 DEF _check_nmi_watchdog, Check, Absent
  <2>3. _check_nmi_watchdog(h).name = "nmi"
    BY DEF _check_nmi_watchdog, Check
  <2>4. QED
    BY <2>2, <2>3 DEF passed, Fails, MayFail
<1>5. Sound(_check_msr_module(h))
  BY DEF _check_msr_module, Check, passed, Fails, MayFail
<1>6. Sound(_check_governor(h)) /\ _check_governor(h).name = "governor"
  BY <1>1 DEF _check_governor, Check, passed, Fails, MayFail
<1>7. /\ h.perf \in BOOLEAN /\ h.numactl \in BOOLEAN /\ h.perfspect \in BOOLEAN
       /\ h.tools \in BOOLEAN /\ h.headers \in BOOLEAN
  BY DEF Setting
<1>8. Sound(_check_perf_tool(h)) /\ _check_perf_tool(h).name = "perf"
  <2> DEFINE c == _check_perf_tool(h)
  <2>1. c = ToolCheck("perf", h.perf, TRUE)
    BY DEF _check_perf_tool
  <2>2. "perf" \in Fails(h, required) <=> ~h.perf
    BY DEF Fails, MayFail
  <2> HIDE DEF c
  <2>3. /\ c.name = "perf" /\ (~passed(c) <=> ~h.perf)
        /\ ~passed(c) => c.fix
        /\ passed(c) <=> (c.category # "optional"
                             => c.status \notin {"MISSING", "MISCONFIGURED"})
    <3>1. CASE h.perf
      BY <2>1, <3>1 DEF ToolCheck, Check, passed
    <3>2. CASE ~h.perf
      BY <2>1, <3>2 DEF ToolCheck, Check, passed
    <3>3. QED
      BY <3>1, <3>2
  <2>4. QED
    BY <2>2, <2>3 DEF c
<1>9. Sound(_check_numa_tools(h)) /\ _check_numa_tools(h).name = "numactl"
  <2> DEFINE c == _check_numa_tools(h)
  <2>1. c = ToolCheck("numactl", h.numactl, TRUE)
    BY DEF _check_numa_tools
  <2>2. "numactl" \in Fails(h, required) <=> ~h.numactl
    BY DEF Fails, MayFail
  <2> HIDE DEF c
  <2>3. /\ c.name = "numactl" /\ (~passed(c) <=> ~h.numactl)
        /\ ~passed(c) => c.fix
        /\ passed(c) <=> (c.category # "optional"
                             => c.status \notin {"MISSING", "MISCONFIGURED"})
    <3>1. CASE h.numactl
      BY <2>1, <3>1 DEF ToolCheck, Check, passed
    <3>2. CASE ~h.numactl
      BY <2>1, <3>2 DEF ToolCheck, Check, passed
    <3>3. QED
      BY <3>1, <3>2
  <2>4. QED
    BY <2>2, <2>3 DEF c
<1>10. Sound(_check_perfspect(h, required)) /\ _check_perfspect(h, required).name = "perfspect"
  <2> DEFINE c == _check_perfspect(h, required)
  <2>1. c = ToolCheck("perfspect", h.perfspect, required)
    BY DEF _check_perfspect
  <2>2. "perfspect" \in Fails(h, required) <=> ~h.perfspect /\ required
    BY DEF Fails, MayFail
  <2> HIDE DEF c
  <2>3. /\ c.name = "perfspect" /\ (~passed(c) <=> ~h.perfspect /\ required)
        /\ ~passed(c) => c.fix
        /\ passed(c) <=> (c.category # "optional"
                             => c.status \notin {"MISSING", "MISCONFIGURED"})
    <3>1. CASE h.perfspect
      BY <2>1, <3>1 DEF ToolCheck, Check, passed
    <3>2. CASE ~h.perfspect /\ required
      BY <2>1, <3>2 DEF ToolCheck, Check, passed
    <3>3. CASE ~h.perfspect /\ ~required
      BY <2>1, <3>3 DEF ToolCheck, Check, passed
    <3>4. QED
      BY <3>1, <3>2, <3>3
  <2>4. QED
    BY <2>2, <2>3 DEF c
<1>11. ASSUME NEW c \in {_check_observability_tools(h), _check_kernel_headers(h)}
       PROVE  Sound(c)
  <2>1. PICK name \in {"observability", "headers"}, there \in BOOLEAN :
            c = ToolCheck(name, there, FALSE)
    BY <1>7 DEF _check_observability_tools, _check_kernel_headers
  <2>2. name \notin Fails(h, required)
    BY DEF Fails, MayFail
  <2>3. /\ c.name = name /\ passed(c)
        /\ passed(c) <=> (c.category # "optional"
                             => c.status \notin {"MISSING", "MISCONFIGURED"})
    <3>1. CASE there
      BY <2>1, <3>1 DEF ToolCheck, Check, passed
    <3>2. CASE ~there
      BY <2>1, <3>2 DEF ToolCheck, Check, passed
    <3>3. QED
      BY <3>1, <3>2
  <2>4. QED
    BY <2>2, <2>3
<1> HIDE DEF Sound
<1>12. \A c \in checks : Sound(c)
  BY <1>2, <1>3, <1>4, <1>5, <1>6, <1>8, <1>9, <1>10, <1>11 DEF run_checks
<1>13. \A n \in MayFail : \E c \in checks : c.name = n
  BY <1>3, <1>6, <1>8, <1>9, <1>10 DEF run_checks, MayFail
<1> HIDE DEF checks
<1>14. Fails(h, required) \in SUBSET MayFail
  BY DEF Fails
<1>15. {c.name : c \in Fixable(checks)} = Fails(h, required)
  <2>1. \A c \in Fixable(checks) : c.name \in Fails(h, required)
    BY <1>12 DEF Fixable, Sound
  <2>2. ASSUME NEW n \in Fails(h, required)
        PROVE  \E c \in Fixable(checks) : c.name = n
    <3>1. PICK c \in checks : c.name = n
      BY <1>13, <1>14
    <3>2. ~passed(c) /\ c.fix
      BY <1>12, <3>1 DEF Sound
    <3>3. QED
      BY <3>1, <3>2 DEF Fixable
  <2>3. QED
    BY <2>1, <2>2
<1>16. ready(checks) <=> \A c \in checks : passed(c)
  BY <1>12 DEF ready, Sound
<1>17. (\A c \in checks : passed(c)) <=> Fails(h, required) = {}
  BY <1>12, <1>13, <1>14 DEF Sound
<1> QED
  BY <1>15, <1>16, <1>17 DEF checks

\* What a fix of a check that failed makes of its setting.
Mended(h) == [n \in MayFail |-> CASE n = "paranoid" -> 0
                                  [] n = "governor" -> "performance"
                                  [] n \in {"perf", "numactl"} -> TRUE
                                  [] n = "perfspect" -> h.at_home]

LEMMA ApplyFixesIs ==
    ASSUME NEW h \in Setting, NEW names \in SUBSET MayFail
    PROVE  ApplyFixes(h, names) = [f \in Fields |-> IF f \in names THEN Mended(h)[f] ELSE h[f]]
<1>1. DOMAIN h = Fields
  BY DEF Setting, Fields
<1>2. \A f \in Fields, n \in MayFail :
          Fixed(h, n)[f] = IF f = n THEN Mended(h)[n] ELSE h[f]
  <2> SUFFICES ASSUME NEW f \in Fields, NEW n \in MayFail
               PROVE  Fixed(h, n)[f] = IF f = n THEN Mended(h)[n] ELSE h[f]
    OBVIOUS
  <2> USE <1>1 DEF Mended, Fixed, Fields
  <2>1. CASE n = "paranoid"
    BY <2>1
  <2>2. CASE n = "governor"
    BY <2>2
  <2>3. CASE n = "perf"
    BY <2>3
  <2>4. CASE n = "numactl"
    BY <2>4
  <2>5. CASE n = "perfspect"
    BY <2>5
  <2>6. QED
    BY <2>1, <2>2, <2>3, <2>4, <2>5 DEF MayFail
<1>3. ASSUME NEW f \in Fields
      PROVE  LET changing == {n \in names : Fixed(h, n)[f] # h[f]}
             IN  (IF changing = {} THEN h[f] ELSE Fixed(h, CHOOSE n \in changing : TRUE)[f])
                     = IF f \in names THEN Mended(h)[f] ELSE h[f]
  <2> DEFINE changing == {n \in names : Fixed(h, n)[f] # h[f]}
             n == CHOOSE x \in changing : TRUE
  <2>1. \A x \in changing : x \in names /\ x = f
    BY <1>2
  <2>2. CASE changing = {}
    <3>1. f \in names => Mended(h)[f] = h[f]
      BY <1>2, <2>2
    <3>2. QED
      BY <2>2, <3>1
  <2>3. CASE changing # {}
    <3>1. n \in changing
      BY <2>3
    <3> HIDE DEF n
    <3>2. n \in names /\ n = f
      BY <2>1, <3>1
    <3> HIDE DEF changing
    <3>3. Fixed(h, n)[f] = Mended(h)[f]
      BY <1>2, <3>2
    <3>4. QED
      BY <2>3, <3>2, <3>3 DEF n, changing
  <2>4. QED
    BY <2>2, <2>3
<1> QED
  BY <1>1, <1>3, Zenon DEF ApplyFixes

LEMMA FixesMend ==
    ASSUME NEW h \in Setting, NEW required \in BOOLEAN, NEW names \in SUBSET Fails(h, required)
    PROVE  LET after == ApplyFixes(h, names)
           IN  /\ after \in Setting
               /\ after.nmi = h.nmi /\ after.msr = h.msr
               /\ after.headers = h.headers /\ after.tools = h.tools
               /\ after.paranoid # h.paranoid => h.paranoid \notin {-1, 0, 1}
               /\ after.perfspect # h.perfspect => required
               /\ names = Fails(h, required) /\ h.at_home => Fails(after, required) = {}
<1> DEFINE after == ApplyFixes(h, names)
<1>1. names \in SUBSET MayFail
  BY DEF Fails
<1>2. after = [f \in Fields |-> IF f \in names THEN Mended(h)[f] ELSE h[f]]
  BY <1>1, ApplyFixesIs
<1> HIDE DEF after
<1>3. /\ after.vendor = h.vendor /\ after.uarch_known = h.uarch_known
      /\ after.nmi = h.nmi /\ after.msr = h.msr /\ after.at_home = h.at_home
      /\ after.headers = h.headers /\ after.tools = h.tools
  BY <1>1, <1>2 DEF Fields, MayFail
<1>4. /\ after.paranoid = IF "paranoid" \in names THEN 0 ELSE h.paranoid
      /\ after.governor = IF "governor" \in names THEN "performance" ELSE h.governor
      /\ after.perf = IF "perf" \in names THEN TRUE ELSE h.perf
      /\ after.numactl = IF "numactl" \in names THEN TRUE ELSE h.numactl
      /\ after.perfspect = IF "perfspect" \in names THEN h.at_home ELSE h.perfspect
  BY <1>2 DEF Fields, Mended, MayFail
<1>5. after = [vendor |-> after.vendor, uarch_known |-> after.uarch_known,
               paranoid |-> after.paranoid, nmi |-> after.nmi, msr |-> after.msr,
               governor |-> after.governor, perf |-> after.perf, numactl |-> after.numactl,
               perfspect |-> after.perfspect, at_home |-> after.at_home,
               tools |-> after.tools, headers |-> after.headers]
  <2>1. after = [f \in Fields |-> after[f]]
    BY <1>2
  <2>2. QED
    BY <2>1 DEF Fields
<1>6. after \in Setting
  <2>1. /\ after.vendor \in {"intel", "amd", "arm", "unknown"} /\ after.uarch_known \in BOOLEAN
        /\ after.nmi \in {Absent} \cup Nat /\ after.msr \in BOOLEAN /\ after.at_home \in BOOLEAN
        /\ after.tools \in BOOLEAN /\ after.headers \in BOOLEAN
    BY <1>3 DEF Setting
  <2>2. after.paranoid \in {Absent, -1} \cup Nat
    BY <1>4 DEF Setting
  <2>3. after.governor \in {"none", "performance", "powersave"}
    BY <1>4 DEF Setting
  <2>4. after.perf \in BOOLEAN /\ after.numactl \in BOOLEAN /\ after.perfspect \in BOOLEAN
    BY <1>4 DEF Setting
  <2>5. QED
    BY <1>5, <2>1, <2>2, <2>3, <2>4 DEF Setting
<1>7. after.paranoid # h.paranoid => h.paranoid \notin {-1, 0, 1}
  BY <1>4 DEF Fails
<1>8. after.perfspect # h.perfspect => required
  BY <1>4 DEF Fails
<1>9. names = Fails(h, required) /\ h.at_home => Fails(after, required) = {}
  <2> SUFFICES ASSUME names = Fails(h, required), h.at_home
               PROVE  Fails(after, required) = {}
    OBVIOUS
  <2>1. after.paranoid \in {-1, 0, 1}
    BY <1>4 DEF Fails, MayFail
  <2>2. after.governor # "powersave"
    BY <1>4 DEF Fails, MayFail
  <2>3. after.perf /\ after.numactl
    BY <1>4 DEF Fails, MayFail, Setting
  <2>4. required => after.perfspect
    BY <1>4 DEF Fails, MayFail, Setting
  <2>5. QED
    BY <2>1, <2>2, <2>3, <2>4 DEF Fails, MayFail
<1> QED
  BY <1>3, <1>6, <1>7, <1>8, <1>9 DEF after

LEMMA PreflightKeeps ==
    ASSUME Preflight
    PROVE  HostVerdicts'
<1>1. PICK h \in HostSettings, fix \in BOOLEAN, consent \in BOOLEAN, required \in BOOLEAN,
           failing \in SUBSET {"paranoid", "governor", "perf", "perfspect"} :
           LET o == [fix |-> fix, consent |-> consent, require_perfspect |-> required,
                     failing |-> failing]
           IN  Answer("preflight", [h |-> h, o |-> o], preflight(h, o))
  BY DEF Preflight
<1> DEFINE o == [fix |-> fix, consent |-> consent, require_perfspect |-> required,
                 failing |-> failing]
           fixes == Fails(h, required)
           after == ApplyFixes(h, fixes \ failing)
           Ready(host) == Fails(host, required) = {}
           result == preflight(h, o)
<1>2. /\ call'.fn = "preflight" /\ call'.args.h = h /\ call'.args.o = o
      /\ call'.result = result
  BY <1>1 DEF Answer
<1>3. h \in Setting
  BY SettingsAssumption DEF Setting
<1>4. /\ after \in Setting
      /\ after.nmi = h.nmi /\ after.msr = h.msr
      /\ after.headers = h.headers /\ after.tools = h.tools
      /\ after.paranoid # h.paranoid => h.paranoid \notin {-1, 0, 1}
      /\ after.perfspect # h.perfspect => required
      /\ failing = {} /\ h.at_home => Ready(after)
  <2>1. fixes \ failing \in SUBSET fixes /\ (failing = {} => fixes \ failing = fixes)
    OBVIOUS
  <2> HIDE DEF fixes
  <2>2. QED
    BY <1>3, <2>1, FixesMend DEF fixes
<1>5. \A host \in Setting :
          /\ {c.name : c \in Fixable(run_checks(host, required))} = Fails(host, required)
          /\ ready(run_checks(host, required)) <=> Ready(host)
  BY FailedIs
<1> HIDE DEF after, fixes
<1>6. /\ result.fixes = fixes
      /\ ~fix \/ fixes = {} => result.host = h /\ result.exit = IF Ready(h) THEN 0 ELSE 1
      /\ fix /\ fixes # {} /\ ~consent => result.host = h /\ result.exit = 1
      /\ fix /\ fixes # {} /\ consent =>
             result.host = after /\ result.exit = IF Ready(after) THEN 0 ELSE 1
  <2>1. {c.name : c \in Fixable(run_checks(h, required))} = fixes
    BY <1>3, <1>5 DEF fixes
  <2>2. /\ o.fix = fix /\ o.consent = consent /\ o.require_perfspect = required
        /\ o.failing = failing
    OBVIOUS
  <2> HIDE DEF o, Ready
  <2>3. /\ ready(run_checks(h, required)) <=> Ready(h)
        /\ ready(run_checks(after, required)) <=> Ready(after)
    BY <1>3, <1>4, <1>5
  <2>4. CASE ~fix \/ fixes = {}
    BY <2>1, <2>2, <2>3, <2>4 DEF preflight
  <2>5. CASE fix /\ fixes # {} /\ ~consent
    BY <2>1, <2>2, <2>3, <2>5 DEF preflight
  <2>6. CASE fix /\ fixes # {} /\ consent
    <3>1. result = [exit |-> FixExit(run_checks(h, required), run_checks(after, required),
                                     fixes \cap failing),
                    host |-> after, fixes |-> fixes]
      BY <2>1, <2>2, <2>6 DEF preflight, after
    <3>2. QED
      BY <2>3, <2>6, <3>1 DEF FixExit
  <2>7. QED
    BY <2>4, <2>5, <2>6
<1>7. fixes = {} <=> Ready(h)
  BY DEF fixes
<1>8. result.host \in {h, after} /\ result.host \in Setting
  BY <1>3, <1>4, <1>6
<1> HIDE DEF result, Ready
<1>9. /\ o.fix = fix /\ o.consent = consent /\ o.require_perfspect = required
      /\ o.failing = failing
  OBVIOUS
<1>10. (fix /\ consent) \/ result.host = h
  BY <1>6
<1> HIDE DEF o
<1>11. ExitMatchesHost'
  <2>1. ready(run_checks(result.host, required)) <=> Ready(result.host)
    BY <1>5, <1>8
  <2>2. IF fix /\ ~consent /\ fixes # {} THEN result.exit = 1
        ELSE (result.exit = 0) <=> Ready(result.host)
    BY <1>6
  <2>3. QED
    BY <1>2, <1>6, <1>9, <2>1, <2>2 DEF ExitMatchesHost, Called
<1>12. FixesOnlyFailures'
  <2>1. h.paranoid \notin {-1, 0, 1} => h.paranoid > 1 \/ h.paranoid = Absent
    BY <1>3 DEF Setting
  <2>2. /\ ~(fix /\ consent) => result.host = h
        /\ result.host.nmi = h.nmi /\ result.host.msr = h.msr
        /\ result.host.paranoid # h.paranoid => h.paranoid > 1 \/ h.paranoid = Absent
        /\ result.host.perfspect # h.perfspect => required
        /\ result.host.headers = h.headers /\ result.host.tools = h.tools
    BY <1>4, <1>8, <1>10, <2>1
  <2>3. QED
    BY <1>2, <1>9, <2>2 DEF FixesOnlyFailures, Called
<1>13. result.exit = 0 => Ready(result.host)
  BY <1>6
<1>14. ReadyMeansCounters'
  <2>1. Ready(result.host) => result.host.perf /\ result.host.paranoid \in {-1, 0, 1}
    BY DEF Ready, Fails, MayFail
  <2>2. {-1, 0, 1} \in SUBSET (-1 .. 1)
    OBVIOUS
  <2>3. result.exit = 0 => result.host.perf /\ result.host.paranoid \in -1 .. 1
    BY <1>13, <2>1, <2>2
  <2>4. QED
    BY <1>2, <2>3 DEF ReadyMeansCounters, Called
<1>15. FixConverges'
  <2> SUFFICES ASSUME fix, consent, failing = {}, h.at_home
               PROVE  preflight(result.host, o).fixes = {} /\ result.exit = 0
    BY <1>2, <1>9 DEF FixConverges, Called
  <2>1. Ready(result.host) /\ result.exit = 0
    BY <1>4, <1>6, <1>7
  <2>2. {c.name : c \in Fixable(run_checks(result.host, required))} = {}
    BY <1>5, <1>8, <2>1 DEF Ready
  <2>3. preflight(result.host, o).fixes = {}
    BY <1>9, <2>2 DEF preflight
  <2>4. QED
    BY <2>1, <2>3
<1> QED
  BY <1>2, <1>11, <1>12, <1>14, <1>15 DEF HostVerdicts, PeakHasSource, NodesShareTheHost,
     L3SourcesAgree, Detected, EngagedMeansMeasured, FailureHasCause,
     AxesAreTheProfiles, UnverifiableIsPredicted, Called, Succeeded

-------------------------------------------------------------------------------
(* Profiles, and the counters that engage them.                            *)

\* What a plugin read has counted and is advertised, and is the truth unless another
\* collector holds the counters; then cycles are not among it.
LEMMA ReadIs ==
    ASSUME NEW w \in Windows, NEW plugin \in Plugins, NEW events
    PROVE  LET read == ReadBy(plugin, w, events)
           IN  /\ DOMAIN read \subseteq events \cap AvailableBy(plugin)
               /\ plugin = "perf_stat" => DOMAIN read \subseteq w.counted
               /\ plugin = "vendor" => DOMAIN read \subseteq w.counted
               /\ \A c \in DOMAIN read : read[c] = w.shown[c]
               /\ \A c \in DOMAIN read : ~w.contended \/ plugin = "vendor" => read[c] = w.truth[c]
               /\ w.contended => "cycles" \notin DOMAIN read
<1> DEFINE read == ReadBy(plugin, w, events)
           kept == events \cap GenericEvents
           values == [e \in kept \cap w.counted |-> w.shown[e]]
<1>1. /\ w.counted \subseteq DOMAIN w.shown
      /\ \A c \in DOMAIN w.shown : ~w.contended \/ c \notin GenericEvents => w.shown[c] = w.truth[c]
      /\ w.contended /\ "cycles" \in w.counted => w.shown["cycles"] > MaxPlausible
      /\ \A c \in DOMAIN w.shown : w.shown[c] \in Int
  BY WindowsAssumption
<1>2. DOMAIN <<>> = {}
  OBVIOUS
<1>3. CASE plugin = "perf_stat"
  <2>1. read = <<>> \/ (read = values /\ _counts_are_physical(values))
    <3>1. parse_perf_csv_summary(w, kept) = values
      BY DEF parse_perf_csv_summary
    <3>2. read = <<>> \/ read = KeptIfPhysical(parse_perf_csv_summary(w, kept))
      BY <1>3 DEF ReadBy, read_counters
    <3> HIDE DEF read, values
    <3>3. CASE _counts_are_physical(values)
      <4>1. KeptIfPhysical(values) = values
        BY <3>3 DEF KeptIfPhysical
      <4>2. QED
        BY <3>1, <3>2, <3>3, <4>1
    <3>4. CASE ~ _counts_are_physical(values)
      <4>1. KeptIfPhysical(values) = <<>>
        BY <3>4 DEF KeptIfPhysical
      <4>2. QED
        BY <3>1, <3>2, <4>1
    <3>5. QED
      BY <3>3, <3>4
  <2>2. CASE read = <<>>
    <3>1. DOMAIN read = {}
      BY <1>2, <2>2
    <3> HIDE DEF read
    <3>2. QED
      BY <3>1 DEF read
  <2>3. CASE read = values /\ _counts_are_physical(values)
    <3>1. DOMAIN values = kept \cap w.counted /\ \A c \in DOMAIN values : values[c] = w.shown[c]
      OBVIOUS
    <3>2. ASSUME w.contended, "cycles" \in DOMAIN values
          PROVE  FALSE
      <4>1. values["cycles"] > MaxPlausible /\ values["cycles"] \in Int
        BY <1>1, <3>1, <3>2
      <4> HIDE DEF values
      <4>2. values["cycles"] <= MaxPlausible
        BY <2>3, <3>2 DEF _counts_are_physical
      <4>3. QED
        BY <4>1, <4>2 DEF MaxPlausible
    <3> HIDE DEF read, values
    <3>3. DOMAIN read = kept \cap w.counted /\ \A c \in DOMAIN read : read[c] = w.shown[c]
      BY <2>3, <3>1
    <3>4. w.contended => "cycles" \notin DOMAIN read
      BY <2>3, <3>2
    <3>5. \A c \in DOMAIN read : ~w.contended => read[c] = w.truth[c]
      BY <1>1, <3>3
    <3>6. AvailableBy(plugin) = GenericEvents
      BY <1>3 DEF AvailableBy
    <3>7. QED
      BY <1>3, <3>3, <3>4, <3>5, <3>6 DEF read
  <2>4. QED
    BY <2>1, <2>2, <2>3
<1>4. CASE plugin = "vendor"
  <2>1. read = Restrict(w.shown, events \cap TelemetryNames \cap w.counted)
    BY <1>4 DEF ReadBy
  <2>2. /\ DOMAIN read = events \cap TelemetryNames \cap w.counted
        /\ \A c \in DOMAIN read : read[c] = w.shown[c]
    BY <2>1 DEF Restrict
  <2> HIDE DEF read
  <2>3. \A c \in DOMAIN read : c \notin GenericEvents
    BY <2>2, PluginAssumption
  <2>4. \A c \in DOMAIN read : read[c] = w.truth[c]
    BY <1>1, <2>2, <2>3
  <2>5. "cycles" \notin DOMAIN read
    BY <2>3 DEF GenericEvents
  <2>6. AvailableBy(plugin) = TelemetryNames
    BY <1>4 DEF AvailableBy
  <2>7. QED
    BY <1>4, <2>2, <2>4, <2>5, <2>6 DEF read
<1> QED
  BY <1>3, <1>4 DEF Plugins

\* A claim counts only if it was advertised, read and cleared.
LEMMA EngagedIs ==
    ASSUME NEW profile, NEW plugin, NEW w
    PROVE  LET claims == profile.counters
               read == ReadBy(plugin, w, DOMAIN claims)
               verdict == verify_engaged(profile, plugin, w)
               Counts(c) == /\ c \in AvailableBy(plugin) /\ c \in DOMAIN read
                            /\ Clears(c, read[c], claims[c])
           IN  /\ verdict.failures = {c \in DOMAIN claims : ~Counts(c)}
               /\ verdict.engaged <=> \A c \in DOMAIN claims : Counts(c)
<1> DEFINE claims == profile.counters
           read == ReadBy(plugin, w, DOMAIN claims)
           measured == IF DOMAIN claims = {} THEN <<>> ELSE read
           verdict == verify_engaged(profile, plugin, w)
           Counts(c) == /\ c \in AvailableBy(plugin) /\ c \in DOMAIN read
                        /\ Clears(c, read[c], claims[c])
           axis == [c \in DOMAIN claims |-> per_axis(claims, measured, AvailableBy(plugin), c)]
           failures == {c \in DOMAIN claims : ~axis[c]}
<1>1. verdict.failures = failures /\ (verdict.engaged <=> failures = {})
  BY DEF verify_engaged, evaluate_thresholds
<1>2. ASSUME NEW c \in DOMAIN claims
      PROVE  axis[c] <=> Counts(c)
  <2>1. measured = read
    BY <1>2
  <2> HIDE DEF claims, read, measured
  <2>2. axis[c] = per_axis(claims, read, AvailableBy(plugin), c)
    BY <1>2, <2>1
  <2>3. QED
    BY <2>2 DEF per_axis
<1> HIDE DEF axis, Counts, verdict, claims
<1>3. failures = {c \in DOMAIN claims : ~Counts(c)}
  BY <1>2
<1>4. QED
  BY <1>1, <1>3 DEF Counts, verdict, claims

LEMMA VerifyKeeps ==
    ASSUME VerifyProfile
    PROVE  HostVerdicts'
<1>1. PICK profile \in Range(PROFILES) \cup {Spec_(Base, {}, c) : c \in CounterClaims},
           plugin \in Plugins, w \in Windows :
           Answer("verify_engaged", [profile |-> profile, plugin |-> plugin, w |-> w],
                  verify_engaged(profile, plugin, w))
  BY DEF VerifyProfile
<1> DEFINE claims == profile.counters
           read == ReadBy(plugin, w, DOMAIN claims)
           verdict == verify_engaged(profile, plugin, w)
<1>2. /\ call'.fn = "verify_engaged" /\ call'.args.profile = profile
      /\ call'.args.plugin = plugin /\ call'.args.w = w /\ call'.result = verdict
  BY <1>1 DEF Answer
<1>3. /\ DOMAIN read \subseteq AvailableBy(plugin) /\ DOMAIN read \subseteq w.counted
      /\ \A c \in DOMAIN read : read[c] = w.shown[c]
      /\ \A c \in DOMAIN read : ~w.contended \/ plugin = "vendor" => read[c] = w.truth[c]
      /\ w.contended => "cycles" \notin DOMAIN read
  BY ReadIs DEF Plugins
<1> DEFINE Counts(c) == /\ c \in AvailableBy(plugin) /\ c \in DOMAIN read
                        /\ Clears(c, read[c], claims[c])
<1>4. /\ verdict.failures = {c \in DOMAIN claims : ~Counts(c)}
      /\ verdict.engaged <=> \A c \in DOMAIN claims : Counts(c)
  BY EngagedIs
<1> HIDE DEF verdict, read, claims
<1>5. EngagedMeansMeasured'
  <2> SUFFICES ASSUME verdict.engaged,
                      ~w.contended \/ "cycles" \in DOMAIN claims \/ plugin = "vendor",
                      NEW c \in DOMAIN claims
               PROVE  /\ c \in w.counted
                      /\ IF c = "remote_access_max" THEN w.truth[c] <= claims[c]
                         ELSE w.truth[c] >= claims[c]
    BY <1>2 DEF EngagedMeansMeasured, Called, claims
  <2>1. \A k \in DOMAIN claims : Counts(k)
    BY <1>4
  <2>2. c \in DOMAIN read /\ c \in w.counted
    BY <1>3, <2>1
  <2>3. read[c] = w.truth[c]
    BY <1>3, <2>1, <2>2
  <2>4. Clears(c, w.truth[c], claims[c])
    BY <2>1, <2>3
  <2>5. QED
    BY <2>2, <2>4 DEF Clears, IsMaximum
<1>6. FailureHasCause'
  <2>1. ASSUME NEW c \in verdict.failures
        PROVE  \/ c \notin DOMAIN read
               \/ ~w.contended /\ ~Clears(c, w.truth[c], claims[c])
               \/ w.contended /\ "cycles" \notin DOMAIN read
    <3>1. CASE w.contended
      BY <1>3, <3>1
    <3>2. CASE ~w.contended /\ c \in DOMAIN read
      <4>1. c \in AvailableBy(plugin) /\ read[c] = w.truth[c]
        BY <1>3, <3>2
      <4>2. ~Counts(c)
        BY <1>4
      <4>3. QED
        BY <3>2, <4>1, <4>2
    <3>3. QED
      BY <3>1, <3>2
  <2>2. DOMAIN read \subseteq w.counted
    BY <1>3
  <2>3. FailureHasCause' <=>
            /\ DOMAIN claims # {} => DOMAIN read \subseteq w.counted
            /\ \A c \in verdict.failures :
                   \/ c \notin DOMAIN read
                   \/ ~w.contended /\ ~Clears(c, w.truth[c], claims[c])
                   \/ w.contended /\ "cycles" \notin DOMAIN read
    BY <1>2 DEF FailureHasCause, Called, claims, read
  <2>4. QED
    BY <2>1, <2>2, <2>3
<1> QED
  BY <1>2, <1>5, <1>6 DEF HostVerdicts, PeakHasSource, NodesShareTheHost, L3SourcesAgree,
     Detected, ExitMatchesHost, FixesOnlyFailures, ReadyMeansCounters, FixConverges,
     AxesAreTheProfiles, UnverifiableIsPredicted, Called, Succeeded

LEMMA ListTelemetryKeeps ==
    ASSUME ListTelemetry
    PROVE  HostVerdicts'
<1> DEFINE wanted == UNION {DOMAIN PROFILES[n].counters : n \in DOMAIN PROFILES}
<1>1. PICK plugins \in SUBSET Plugins, w \in Windows :
           Answer("telemetry_list", [plugins |-> plugins, w |-> w], unverifiable(plugins, wanted))
  BY DEF ListTelemetry
<1> HIDE DEF wanted
<1>2. /\ call'.fn = "telemetry_list" /\ call'.args.plugins = plugins /\ call'.args.w = w
      /\ call'.result = unverifiable(plugins, wanted)
  BY <1>1 DEF Answer
<1>3. ASSUME NEW n \in DOMAIN PROFILES, NEW p \in plugins,
             unverifiable(plugins, wanted) \cap DOMAIN PROFILES[n].counters # {}
      PROVE  ~verify_engaged(PROFILES[n], p, w).engaged
  <2>1. PICK c \in DOMAIN PROFILES[n].counters : c \in unverifiable(plugins, wanted)
    BY <1>3
  <2>2. c \notin AvailableBy(p)
    BY <2>1 DEF unverifiable
  <2>3. verify_engaged(PROFILES[n], p, w).engaged =>
            \A k \in DOMAIN PROFILES[n].counters : k \in AvailableBy(p)
    BY EngagedIs
  <2>4. QED
    BY <2>1, <2>2, <2>3
<1>4. UnverifiableIsPredicted'
  BY <1>2, <1>3 DEF UnverifiableIsPredicted, Called
<1> QED
  BY <1>2, <1>4 DEF HostVerdicts, PeakHasSource, NodesShareTheHost, L3SourcesAgree,
     Detected, ExitMatchesHost, FixesOnlyFailures, ReadyMeansCounters, FixConverges,
     EngagedMeansMeasured, FailureHasCause, AxesAreTheProfiles, Called, Succeeded

LEMMA ApplyKeeps ==
    ASSUME ApplyProfile
    PROVE  HostVerdicts'
<1>1. PICK name \in DOMAIN PROFILES, sut \in SutConfigs, has \in SUBSET {"amx", "avx512"} :
           Answer("apply",
                  [profile |-> PROFILES[name], name |-> name, sut |-> sut, has |-> has],
                  apply(PROFILES[name], sut, has))
  BY DEF ApplyProfile
<1> DEFINE axes == PROFILES[name].axes
           result == apply(PROFILES[name], sut, has)
           all == Over(axes, Base)
<1>2. DOMAIN axes = BackendAxes \cup SchedulerAxes
  <2>1. DOMAIN Base = BackendAxes \cup SchedulerAxes
    BY DEF Base, BackendAxes, SchedulerAxes
  <2>2. /\ DOMAIN AmxOnly = DOMAIN Base /\ DOMAIN AmxOnednn = DOMAIN Base
        /\ DOMAIN AmxNumaHugepages = DOMAIN Base /\ DOMAIN FullXeon = DOMAIN Base
        /\ DOMAIN OpenvinoXeon = DOMAIN Base
    BY DEF AmxOnly, AmxOnednn, AmxNumaHugepages, FullXeon, OpenvinoXeon
  <2>3. axes \in {Base, AmxOnly, AmxOnednn, AmxNumaHugepages, FullXeon, OpenvinoXeon}
    BY DEF PROFILES, Spec_
  <2>4. QED
    BY <2>1, <2>2, <2>3
<1>3. /\ call'.fn = "apply" /\ call'.args.sut = sut /\ call'.args.profile = PROFILES[name]
      /\ call'.result = result
  BY <1>1 DEF Answer
<1> HIDE DEF axes
<1>4. \A k \in DOMAIN axes : all[k] = axes[k]
  BY DEF Over
<1> HIDE DEF all
<1>5. ~result.raised =>
          /\ result.value.backend = Over(Restrict(all, BackendAxes), sut.backend)
          /\ result.value.scheduler = Over(Restrict(all, SchedulerAxes), sut.scheduler)
  BY DEF apply, Returns, Raises, project_axes, Layered, all, axes
<1>6. ASSUME NEW S, NEW f
      PROVE  /\ \A k \in S : Over(Restrict(all, S), f)[k] = all[k]
             /\ \A k \in DOMAIN f \ S : Over(Restrict(all, S), f)[k] = f[k]
  BY DEF Over, Restrict
<1> HIDE DEF result
<1>7. ASSUME ~result.raised
      PROVE  /\ \A k \in DOMAIN axes :
                    IF k \in BackendAxes THEN result.value.backend[k] = axes[k]
                    ELSE result.value.scheduler[k] = axes[k]
             /\ \A k \in DOMAIN sut.backend \ BackendAxes :
                    result.value.backend[k] = sut.backend[k]
             /\ \A k \in DOMAIN sut.scheduler \ SchedulerAxes :
                    result.value.scheduler[k] = sut.scheduler[k]
  BY <1>2, <1>4, <1>5, <1>6, <1>7
<1>8. AxesAreTheProfiles'
  BY <1>3, <1>7 DEF AxesAreTheProfiles, Succeeded, axes
<1> QED
  BY <1>3, <1>8 DEF HostVerdicts, PeakHasSource, NodesShareTheHost, L3SourcesAgree,
     Detected, ExitMatchesHost, FixesOnlyFailures, ReadyMeansCounters, FixConverges,
     EngagedMeansMeasured, FailureHasCause, UnverifiableIsPredicted, Called

\* What is said of the host, of its readiness and of an engaged profile follows
\* from what the host shows (detect_platform, preflight, apply, verify_engaged),
\* for any host, any files of MLC, any window of the counters and any claims.
THEOREM HostIsAsSaid == HostSpec => []HostVerdicts
<1>1. Idle => HostVerdicts
  BY DEF Idle, NoCall, HostVerdicts, PeakHasSource, NodesShareTheHost, L3SourcesAgree,
     Detected, ExitMatchesHost, FixesOnlyFailures, ReadyMeansCounters, FixConverges,
     EngagedMeansMeasured, FailureHasCause, AxesAreTheProfiles, UnverifiableIsPredicted,
     Called, Succeeded
<1>2. HostVerdicts /\ [HostNext \/ ProfileNext]_call => HostVerdicts'
  <2> SUFFICES ASSUME HostVerdicts, [HostNext \/ ProfileNext]_call
               PROVE  HostVerdicts'
    OBVIOUS
  <2>1. CASE DetectPlatform
    BY <2>1, DetectKeeps
  <2>2. CASE Preflight
    BY <2>2, PreflightKeeps
  <2>3. CASE ApplyProfile
    BY <2>3, ApplyKeeps
  <2>4. CASE VerifyProfile
    BY <2>4, VerifyKeeps
  <2>5. CASE ListTelemetry
    BY <2>5, ListTelemetryKeeps
  <2>6. CASE UNCHANGED call
    BY <2>6 DEF HostVerdicts, PeakHasSource, NodesShareTheHost, L3SourcesAgree,
       Detected, ExitMatchesHost, FixesOnlyFailures, ReadyMeansCounters, FixConverges,
       EngagedMeansMeasured, FailureHasCause, AxesAreTheProfiles, UnverifiableIsPredicted,
       Called, Succeeded
  <2>7. QED
    BY <2>1, <2>2, <2>3, <2>4, <2>5, <2>6 DEF HostNext, ProfileNext
<1> QED
  BY <1>1, <1>2, PTL DEF HostSpec
===============================================================================
