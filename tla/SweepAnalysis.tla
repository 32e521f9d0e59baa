----------------------------- MODULE SweepAnalysis -----------------------------
(***************************************************************************)
(* What a density sweep shows: where throughput stops growing and why      *)
(* (analyzers/scaling.py), and the resource signature of each concurrency  *)
(* (analyzers/task_signature.py); and how the cells of the shell runner    *)
(* become the rows of such a sweep (sweep/import_points.py).               *)
(*                                                                         *)
(* A row is one cell.  A mean of up to three replicates is an integer in   *)
(* sixths, Six times the mean of the measured values.                      *)
(***************************************************************************)
EXTENDS Analyzers

CONSTANTS
    Curves,         \* sequences of throughputs at densities 1, 2, ...
    Sweeps,         \* sequences of rows of a density sweep
    LogicalCpus,    \* the CPUs of the host
    Ladders,        \* sequences of rows of a concurrency ladder
    ImportedCells   \* sequences of cells, in the order of their directories

Six == 6
MeasuredOf(values) == SelectSeq(values, Measured)
SixMean(values, default) ==
    LET present == MeasuredOf(values)
    IN  IF present = <<>> THEN default
        ELSE (Six * Total(present, DOMAIN present)) \div Len(present)

Column(rows, key) == [k \in DOMAIN rows |-> rows[k][key]]

-------------------------------------------------------------------------------
(* scaling.py. *)

Unlimited == 1000000   \* free memory that nobody measured

Bug_ZeroFilled(rows) ==
    LET kept == SelectSeq(rows, LAMBDA r : Measured(r.density))
        densities == SetToSortSeq(Range(Column(kept, "density")), <)
        at(d) == SelectSeq(kept, LAMBDA r : r.density = d)
    IN  [k \in DOMAIN densities |->
            LET mean(key) == SixMean(Column(at(densities[k]), key), 0)
            IN  [density |-> densities[k], throughput |-> mean("throughput"),
                 p95 |-> mean("p95"), cpu_avg |-> mean("cpu_avg"),
                 cpu_peak |-> mean("cpu_peak"), iowait |-> mean("iowait"),
                 runqueue |-> mean("runqueue"), mem_avail |-> mean("mem_avail")]]

\* One point for each density; a row without one is dropped.
aggregate_replicates(rows) ==
    LET kept == SelectSeq(rows, LAMBDA r : Measured(r.density))
        densities == SetToSortSeq(Range(Column(kept, "density")), <)
        at(d) == SelectSeq(kept, LAMBDA r : r.density = d)
    IN  [k \in DOMAIN densities |->
            LET mean(key, default) == SixMean(Column(at(densities[k]), key), default)
            IN  [density |-> densities[k], throughput |-> mean("throughput", 0),
                 p95 |-> mean("p95", 0), cpu_avg |-> mean("cpu_avg", 0),
                 cpu_peak |-> mean("cpu_peak", 0), iowait |-> mean("iowait", 0),
                 runqueue |-> mean("runqueue", Unmeasured),
                 mem_avail |-> mean("mem_avail", Unlimited)]]

\* How far the point is above the line from the first to the last.
Gap(xs, ys, i) ==
    LET n == Len(xs)
    IN  (ys[i] - ys[1]) * (xs[n] - xs[1]) - (ys[n] - ys[1]) * (xs[i] - xs[1])

Bug_AnyGap(xs, ys) ==
    LET inner == 2 .. Len(xs) - 1
        size(i) == Max({Gap(xs, ys, i), - Gap(xs, ys, i)})
        far == {i \in inner : size(i) > 0 /\ \A j \in inner : size(i) >= size(j)}
    IN  IF Len(xs) < 3 \/ far = {} THEN 0 ELSE Min(far)

\* The first point farthest above that line, or 0.
kneedle(xs, ys) ==
    LET inner == 2 .. Len(xs) - 1
        far == {i \in inner : /\ Gap(xs, ys, i) > 0
                              /\ \A j \in inner : Gap(xs, ys, i) >= Gap(xs, ys, j)}
    IN  IF Len(xs) < 3 \/ far = {} THEN 0 ELSE Min(far)

classify_bottleneck(pt, cpus) ==
    IF cpus > 0 /\ Measured(pt.runqueue) /\ 2 * pt.runqueue > 3 * cpus * Six
    THEN "scheduler_oversubscription"
    ELSE IF pt.cpu_peak >= 95 * Six /\ pt.cpu_avg >= 80 * Six THEN "cpu_bound"
    ELSE IF pt.mem_avail < 2048 * Six THEN "memory_bound"
    ELSE IF pt.iowait > 15 * Six THEN "io_bound"
    ELSE "headroom_remaining"

\* analyze_sweep: from the knee on, the first bottleneck that shows; without a
\* knee, the one of the last density.
analyze_sweep(rows, cpus) ==
    LET pts == aggregate_replicates(rows)
        knee == kneedle(Column(pts, "density"), Column(pts, "throughput"))
        region == IF knee = 0 THEN {Len(pts)} ELSE knee .. Len(pts)
        showing == {k \in region : classify_bottleneck(pts[k], cpus) # "headroom_remaining"}
        p95_climbs == knee # 0 /\ 10 * pts[Len(pts)].p95 > 11 * pts[knee].p95
    IN  IF Len(pts) < 2 THEN [verdict |-> "insufficient_data"]
        ELSE [verdict |-> "classified", knee |-> knee, points |-> pts,
              bottleneck |-> IF showing = {} THEN "headroom_remaining"
                             ELSE classify_bottleneck(pts[Min(showing)], cpus),
              confidence |-> IF knee = 0 THEN 40 ELSE IF p95_climbs THEN 80 ELSE 60,
              caveat |-> \A k \in DOMAIN pts : ~Measured(pts[k].runqueue)]

-------------------------------------------------------------------------------
(* task_signature.py.  Rows have n copies, total throughput (in twelfths per *)
(* minute), quota_fill and bw as measured (percent), and the inputs of       *)
(* serialization: CPU seconds per trial and wall seconds.                    *)

Components == {"quota_fill", "serialization", "mem_bw"}

\* The share of a trial's wall time that no CPU work explains.
serialization(row) ==
    IF ~Measured(row.cpu_s) \/ ~Measured(row.wall_s) \/ row.wall_s = 0 THEN Unmeasured
    ELSE Max({0, Min({100, 100 - (100 * row.cpu_s) \div row.wall_s})})

signature_for_row(row) ==
    [n |-> row.n,
     quota_fill |-> row.quota_fill, serialization |-> serialization(row),
     mem_bw |-> row.mem_bw, throttled |-> row.throttled,
     per_agent |-> IF Measured(row.throughput) /\ row.n # 0
                   THEN row.throughput \div row.n ELSE Unmeasured,
     partly_sampled |-> Measured(row.sampled) /\ row.n # 0 /\ row.sampled < row.n]

Bug_MeanOfNothing(values) ==
    LET present == MeasuredOf(values)
    IN  IF present = <<>> THEN 0
        ELSE (Six * Total(present, DOMAIN present)) \div Len(present)

\* _mean
mean_present(values) == SixMean(values, Unmeasured)

\* signature_for_sweep: one point per concurrency; retention is relative to the
\* best point, and absent when that is 0.
signature_for_sweep(rows) ==
    LET sigs == [k \in DOMAIN rows |-> signature_for_row(rows[k])]
        ns == SetToSortSeq(Range(Column(sigs, "n")), <)
        of(k) == SelectSeq(sigs, LAMBDA s : s.n = ns[k])
        mean(k, key) == mean_present(Column(of(k), key))
        peak == Max({mean(k, "per_agent") : k \in DOMAIN ns} \cup {Unmeasured})
    IN  [k \in DOMAIN ns |->
            [n |-> ns[k], quota_fill |-> mean(k, "quota_fill"),
             serialization |-> mean(k, "serialization"), mem_bw |-> mean(k, "mem_bw"),
             throttled |-> mean(k, "throttled"), per_agent |-> mean(k, "per_agent"),
             peak |-> peak,
             retained |-> peak > 0 /\ Measured(mean(k, "per_agent")),
             missing |-> {c \in Components : ~Measured(mean(k, c))},
             partly_sampled |-> \E j \in DOMAIN of(k) : of(k)[j].partly_sampled,
             few |-> Len(of(k)) < 3]]

\* `(p.retention or 1) < 0.8`: nothing retained reads as everything retained.
Lost(p) == p.per_agent # 0 /\ 10 * p.per_agent < 8 * p.peak

Bug_AnySide(points) ==
    LET usable == SelectSeq(points, LAMBDA p : p.retained)
        best == CHOOSE k \in DOMAIN usable :
                    /\ usable[k].per_agent = usable[k].peak
                    /\ \A j \in 1 .. k - 1 : usable[j].per_agent # usable[j].peak
        degraded == SelectSeq(usable, Lost)
    IN  IF usable = <<>> THEN [says |-> "nothing"]
        ELSE IF degraded = <<>> THEN [says |-> "no_saturation", peak |-> usable[best].n]
        ELSE [says |-> "saturates", peak |-> usable[best].n, n |-> degraded[1].n,
              why |-> "undetermined"]

\* explain: the first point past the best that lost more than a fifth, why, and
\* the points before the best that are as slow.
explain(points) ==
    LET usable == SelectSeq(points, LAMBDA p : p.retained)
        best == CHOOSE k \in DOMAIN usable :
                    /\ usable[k].per_agent = usable[k].peak
                    /\ \A j \in 1 .. k - 1 : usable[j].per_agent # usable[j].peak
        peak == usable[best].n
        past == SelectSeq(usable, LAMBDA p : p.n > peak)
        degraded == SelectSeq(past, Lost)
        ramp == {p.n : p \in {q \in Range(usable) : q.n < peak /\ Lost(q)}}
        first == degraded[1]
        why == IF ~Measured(first.quota_fill) THEN "not_said"
               ELSE IF first.quota_fill >= 70 * Six THEN "cpu"
               ELSE IF first.serialization >= 40 * Six THEN "not_cpu"
               ELSE "undetermined"
        idle == IF first.throttled >= 20 * Six THEN "bursty"
                ELSE IF /\ Measured(first.throttled) /\ first.throttled < 5 * Six
                        /\ first.quota_fill \notin {Unmeasured, 0}
                        /\ first.quota_fill < 40 * Six
                     THEN "idle" ELSE "not_said"
    IN  IF usable = <<>> THEN [says |-> "nothing"]
        ELSE IF degraded = <<>>
        THEN [says |-> IF past = <<>> THEN "cannot_tell" ELSE "no_saturation",
              peak |-> peak, ramp |-> ramp]
        ELSE [says |-> "saturates", peak |-> peak, ramp |-> ramp, n |-> first.n,
              why |-> why, idle |-> idle]

-------------------------------------------------------------------------------
(* The calls. *)

FindKnee ==
    /\ Idle
    /\ \E ys \in Curves :
           Answer("kneedle", ys, kneedle([k \in DOMAIN ys |-> k], ys))

AnalyzeSweep ==
    /\ Idle
    /\ \E rows \in Sweeps : \E cpus \in LogicalCpus :
           Answer("sweep", [rows |-> rows, cpus |-> cpus], analyze_sweep(rows, cpus))

ExplainLadder ==
    /\ Idle
    /\ \E rows \in Ladders :
           LET points == signature_for_sweep(rows)
           IN  Answer("ladder", rows, [points |-> points, text |-> explain(points)])

SweepNext == FindKnee \/ AnalyzeSweep \/ ExplainLadder

-------------------------------------------------------------------------------
(* Properties. *)

\* A knee is a point where the next step gains less than the one before it, it
\* lies above the line between the ends, and every curve whose gains shrink from
\* step to step has one, while one whose gains grow has none.
KneeWhereGainsShrink ==
    Called("kneedle") =>
        LET ys == call.args
            n == Len(ys)
            gain(i) == ys[i + 1] - ys[i]
            k == call.result
        IN  /\ k # 0 =>
                   /\ k \in 2 .. n - 1
                   /\ gain(k - 1) > gain(k)
                   /\ (n - 1) * (ys[k] - ys[1]) > (k - 1) * (ys[n] - ys[1])
            /\ n >= 3 /\ (\A i \in 1 .. n - 2 : gain(i) > gain(i + 1)) => k # 0
            /\ (\A i \in 1 .. n - 2 : gain(i) <= gain(i + 1)) => k = 0

\* A bottleneck that is named was measured in a cell at or past the knee, and
\* there is no talk of headroom when every cell there shows the same limit.
BottleneckMeasured ==
    Called("sweep") /\ call.result.verdict = "classified" =>
        LET r == call.result
            from == IF r.knee = 0 THEN Len(r.points) ELSE r.knee
            cells == {c \in Range(call.args.rows) :
                         Measured(c.density) /\ c.density >= r.points[from].density}
            sign == [scheduler_oversubscription |->
                         {c \in cells : 2 * c.runqueue > 3 * call.args.cpus},
                     cpu_bound |-> {c \in cells : c.cpu_peak >= 95},
                     memory_bound |-> {c \in cells : Below(c.mem_avail, 2048)},
                     io_bound |-> {c \in cells : c.iowait > 15}]
        IN  /\ r.bottleneck \in DOMAIN sign => sign[r.bottleneck] # {}
            /\ r.bottleneck = "headroom_remaining" =>
                   /\ sign.memory_bound # cells
                   /\ sign.io_bound # cells

\* A component is listed as missing exactly when no replicate measured it: what
\* is missing is not filled with zero, and a measured zero is not missing.
MissingIsNotZero ==
    Called("ladder") =>
        \A k \in DOMAIN call.result.points :
            LET p == call.result.points[k]
                rows == {r \in Range(call.args) : r.n = p.n}
                seen == [quota_fill |-> \E r \in rows : Measured(r.quota_fill),
                         mem_bw |-> \E r \in rows : Measured(r.mem_bw),
                         serialization |-> \E r \in rows :
                             Measured(r.cpu_s) /\ Measured(r.wall_s) /\ r.wall_s > 0]
            IN  /\ \A c \in Components : (c \in p.missing) = ~seen[c]
                /\ (\E r \in rows : r.mem_bw > 0) <=> p.mem_bw > 0

\* Saturation is only ever named past the fastest point, at the first cell that
\* lost more than a fifth, never in the ramp before it; when none is found, no
\* cell past the fastest point lost as much, unless all of its trials failed.
SaturationPastPeak ==
    Called("ladder") =>
        LET t == call.result.text
            P == Range(call.result.points)
            slow(p) == p.retained /\ 10 * p.per_agent < 8 * p.peak
        IN  /\ t.says = "saturates" =>
                   /\ t.n > t.peak
                   /\ \E p \in P : p.n = t.n /\ slow(p)
                   /\ \A p \in P : p.n > t.peak /\ p.n < t.n /\ slow(p) => p.per_agent = 0
                   /\ t.why \in {"cpu", "not_cpu"} =>
                          \E p \in P : p.n = t.n /\ Measured(p.quota_fill)
            /\ t.says \in {"no_saturation", "cannot_tell"} =>
                   \A p \in P : p.n > t.peak /\ slow(p) => p.per_agent = 0

-------------------------------------------------------------------------------
(* import_points.py: bringing a sweep of the shell runner into the store,  *)
(* import_sweep and the verdict it computes.  A cell is what its point.json *)
(* says; 0 stands for a value that is missing or invalid.                  *)

\* What the importer did with the k-th cell.
Bug_StatusAfter(cell, include_failed) == cell.status # "unreadable"

\* A cell that cannot be read is skipped, and one that failed unless forced.
Usable(cell, include_failed) ==
    cell.status # "unreadable" /\ (cell.status = "ok" \/ include_failed)

Complete(cell) == cell.n # 0 /\ cell.replicate # 0

FirstOf(values) == IF SelectSeq(values, LAMBDA v : v # 0) = <<>> THEN 0
                   ELSE SelectSeq(values, LAMBDA v : v # 0)[1]

Bug_BasisOfCpuset(loaded) == FirstOf([k \in DOMAIN loaded |-> loaded[k].cores])

\* _analyze_imported_sweep: the CPUs the run queue is compared with are those it
\* was sampled over; 0 when they are not known, and then there is no verdict.
RunqueueBasis(loaded) ==
    IF \E k \in DOMAIN loaded : loaded[k].wide
    THEN FirstOf([k \in DOMAIN loaded |-> loaded[k].host_cpus])
    ELSE FirstOf([k \in DOMAIN loaded |-> loaded[k].cores])

Bug_BasisOfFirst(loaded) == TRUE
SameBasis(loaded) == \A k \in DOMAIN loaded : loaded[k].cores = loaded[1].cores

\* _ensure_run, store_sweep_point and _register_cell_artifacts: one row per cell,
\* under its concurrency and replicate; telemetry that is missing stays so.
StoredPoint(cell) ==
    [n |-> cell.n, replicate |-> cell.replicate, status |-> cell.status, cores |-> cell.cores,
     cpu_avg |-> cell.cpu_avg]

import_sweep(cells, include_failed) ==
    LET loaded == SelectSeq(cells, LAMBDA c : Usable(c, include_failed))
        stored == SelectSeq(loaded, LAMBDA c : Complete(c))
    IN  IF cells = <<>> THEN Raises("no cells")
        ELSE IF loaded = <<>> THEN Raises("no usable cells")
        ELSE IF loaded[1].cores = 0 THEN Raises("no density basis")
        ELSE IF ~SameBasis(loaded) THEN Raises("bases differ")
        ELSE Returns([points |-> {StoredPoint(c) : c \in Range(stored)},
                      imported |-> Len(stored), skipped |-> Len(cells) - Len(stored),
                      vcpu_basis |-> loaded[1].cores,
                      runqueue_basis |-> IF stored = <<>> THEN 0 ELSE RunqueueBasis(loaded)])

ImportSweep ==
    /\ Idle
    /\ \E cells \in ImportedCells, include_failed \in BOOLEAN :
           Answer("import_sweep", [cells |-> cells, forced |-> include_failed],
                  import_sweep(cells, include_failed))

(* Properties of the import. *)

\* Every cell is one row of its own or is reported as skipped, and a row made
\* without force is of a cell that finished with all its trials.
ImportAccountsForCells ==
    Succeeded("import_sweep") =>
        LET r == call.result.value
        IN  /\ r.imported + r.skipped = Len(call.args.cells)
            /\ Cardinality(r.points) = r.imported
            /\ \A p \in r.points :
                   /\ p.n # 0 /\ p.replicate # 0
                   /\ p.status = "ok" \/ (call.args.forced /\ p.status = "failed")

\* All rows of a sweep were taken on cpusets of the same size, which is its basis,
\* so that their densities can share an axis.
DensitiesComparable ==
    Succeeded("import_sweep") =>
        \A p \in call.result.value.points : p.cores = call.result.value.vcpu_basis

\* A run queue that was read over the whole host is never held against the size of
\* a cpuset: either the verdict uses the host's CPUs or there is none.
RunqueueScopeMatches ==
    Succeeded("import_sweep") =>
        LET r == call.result.value
            read == {c \in Range(call.args.cells) : Usable(c, call.args.forced)}
        IN  /\ (\E c \in read : c.wide) =>
                   r.runqueue_basis \in {0} \cup {c.host_cpus : c \in read}
            /\ (\A c \in read : ~c.wide) => r.runqueue_basis \in {0, r.vcpu_basis}
===============================================================================
