---------------------------- MODULE CpusetSamples ------------------------------
(***************************************************************************)
(* harness/scripts/cpuset_telemetry.py: the load of the CPUs under test,   *)
(* out of successive readings of /proc/stat.  A reading has the jiffies of *)
(* every CPU, of which it shows those that are online and the sum of all.  *)
(* Percentages are whole numbers, the percentile is in tenths.             *)
(***************************************************************************)
EXTENDS Calls

CONSTANTS
    CpuLists,       \* what --cpus may name: sequences of ranges <<first, last>>
    StatReadings    \* sequences of readings: [all: cpu -> [busy, idle], online]

Offline == [busy |-> -1, idle |-> -1]

expand_cpus(spec) == UNION {r[1] .. r[2] : r \in ToSet(spec)}

Jiffies(reading, cpus) ==
    [busy |-> Total([c \in cpus |-> reading.all[c].busy], cpus),
     idle |-> Total([c \in cpus |-> reading.all[c].idle], cpus)]
HostStat(reading) == Jiffies(reading, DOMAIN reading.all)

Bug_HostWide(cpus, reading) == IF cpus \subseteq reading.online THEN HostStat(reading) ELSE Offline
Bug_OnlinePart(cpus, reading) == Jiffies(reading, cpus \cap reading.online)
\* A CPU that vanished is no reason to average over fewer.
CpusetStat(cpus, reading) ==
    IF cpus \subseteq reading.online THEN Jiffies(reading, cpus) ELSE Offline

util(prev, cur) ==
    LET busy == cur.busy - prev.busy
        total == busy + cur.idle - prev.idle
    IN  IF total > 0 THEN (100 * busy) \div total ELSE 0

\* The intervals that give a sample: prev is the last reading, also one that is missing.
Intervals(stats) ==
    {k \in 1 .. Len(stats) - 1 : Offline \notin {stats[k], stats[k + 1]}}

cpuset_samples(spec, readings) ==
    LET cpus == expand_cpus(spec)
        stats == [k \in DOMAIN readings |-> CpusetStat(cpus, readings[k])]
    IN  [k \in Intervals(stats) |->
            [cpuset |-> util(stats[k], stats[k + 1]),
             host |-> util(HostStat(readings[k]), HostStat(readings[k + 1]))]]

Bug_Unsorted(loads) == loads
SortedUp(loads) == SortSeq(loads, <)

\* The linear percentile.
_pct(loads, p) ==
    LET v == SortedUp(loads)
        at == (Len(v) - 1) * p
        lo == at \div 100
        hi == IF lo + 1 < Len(v) THEN lo + 1 ELSE lo
    IN  10 * v[lo + 1] + ((v[hi + 1] - v[lo + 1]) * (at - 100 * lo)) \div 10

rollup(spec, readings) ==
    LET samples == cpuset_samples(spec, readings)
        order == SortSeq(SetToSeq(DOMAIN samples), <)
        loads == [k \in DOMAIN order |-> samples[order[k]].cpuset]
    IN  IF expand_cpus(spec) = {} THEN Raises("empty cpuset")
        ELSE IF DOMAIN samples = {} THEN Raises("no samples")
        ELSE Returns([samples |-> samples,
                      cpu_avg |-> Total(loads, DOMAIN loads) \div Len(loads),
                      cpu_p95 |-> _pct(loads, 95), cpu_peak |-> Max(ToSet(loads)),
                      cpu_avg_host |-> Total([k \in DOMAIN samples |-> samples[k].host],
                                             DOMAIN samples) \div Cardinality(DOMAIN samples)])

SampleCpuset ==
    /\ Idle
    /\ \E spec \in CpuLists, readings \in StatReadings :
           Answer("cpuset_rollup", [spec |-> spec, readings |-> readings], rollup(spec, readings))

-------------------------------------------------------------------------------

\* The share of the interval after reading k that cpu c was busy.
LoadOf(readings, k, c) == util(readings[k].all[c], readings[k + 1].all[c])

\* CPUs that are pegged read as pegged, whatever the rest of the host does: the
\* thresholds of the scaling analysis can be reached on a part of the host.
PeggedReadsPegged ==
    Succeeded("cpuset_rollup") =>
        LET cpus == expand_cpus(call.args.spec)
            readings == call.args.readings
            value == call.result.value
        IN  (\A k \in DOMAIN value.samples, c \in cpus : LoadOf(readings, k, c) = 100) =>
                value.cpu_avg = 100

\* Every sample is the load of the whole list between two readings that follow each
\* other: it lies within those of its CPUs, all online, so that a CPU that went away
\* for a while neither thins the load nor adds its backlog to one interval.
SamplesAreOfTheList ==
    Succeeded("cpuset_rollup") =>
        LET cpus == expand_cpus(call.args.spec)
            readings == call.args.readings
            samples == call.result.value.samples
        IN  \A k \in DOMAIN samples :
                /\ cpus \subseteq readings[k].online \cap readings[k + 1].online
                /\ \E c \in cpus : LoadOf(readings, k, c) <= samples[k].cpuset
                /\ \E c \in cpus : LoadOf(readings, k, c) >= samples[k].cpuset

\* The figures of one rollup agree: at least half of the samples are no higher than
\* its 95th percentile, and that is no higher than its peak.
PercentileIsBetween ==
    Succeeded("cpuset_rollup") =>
        LET value == call.result.value
            below == {k \in DOMAIN value.samples : 10 * value.samples[k].cpuset <= value.cpu_p95}
        IN  /\ 2 * Cardinality(below) >= Cardinality(DOMAIN value.samples)
            /\ value.cpu_p95 <= 10 * value.cpu_peak /\ value.cpu_avg <= value.cpu_peak
===============================================================================
