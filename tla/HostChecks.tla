------------------------------- MODULE HostChecks -------------------------------
(***************************************************************************)
(* What the program knows of the host it runs on: detect_platform (src/    *)
(* platform/detect.py) and the preflight command with its fixes (src/      *)
(* preflight/system_check.py, cli.py).  The host is a record of what its   *)
(* files and tools answer; sizes are in MB, bandwidths in GB/s.            *)
(***************************************************************************)
EXTENDS Calls

CONSTANTS
    CpuInfos,    \* what /proc/cpuinfo says: vendor, cpuid, SKU, flags, cores
    LscpuOutputs,   \* what lscpu says, line by line; or that it fails
    CacheFiles,     \* what /sys says of the caches of cpu0
    MlcResults,     \* sequences of the bandwidth files left by MLC
    HostSettings    \* what preflight looks at

Garbage == -1    \* a line whose number does not parse
Absent == -2     \* a line, a file or a tool that is not there

ASSUME LscpuAssumption ==
    LscpuOutputs \subseteq
        [status : {"ok", "failed", "absent"}, l3 : Nat \cup {Absent},
         lines : [{"logical", "per_socket", "sockets", "nodes"} ->
                     (Nat \ {0}) \cup {Garbage, Absent}]]
ASSUME FilesAssumption ==
    /\ CacheFiles \subseteq [present : BOOLEAN, l3 : Nat \cup {Absent}]
    /\ MlcResults \subseteq Seq(Seq(Int))
ASSUME SettingsAssumption ==
    HostSettings \subseteq
        [vendor : {"intel", "amd", "arm", "unknown"}, uarch_known : BOOLEAN,
         paranoid : {Absent, -1} \cup Nat, nmi : {Absent} \cup Nat, msr : BOOLEAN,
         governor : {"none", "performance", "powersave"}, perf : BOOLEAN, numactl : BOOLEAN,
         perfspect : BOOLEAN, at_home : BOOLEAN, tools : BOOLEAN, headers : BOOLEAN]

-------------------------------------------------------------------------------
(* Identity of the CPU. *)

\* CPUID (family, model) of the Intel parts in the table, by the part.
IntelCpuids == {"SKX", "ICX", "SPR", "EMR", "GNR", "SRF", "CWF"}

\* Marketing names that tell the part.
KnownSkus(vendor) ==
    CASE vendor = "intel" -> {"GNR", "EMR", "SPR", "ICX", "CLX", "SKX"}
      [] vendor = "amd" -> {"Zen5", "Zen4c", "Zen4", "Zen3"}
      [] vendor = "arm" -> {"V2", "V1", "N2"}
      [] vendor \notin {"intel", "amd", "arm"} -> {}

_identify_microarch(vendor, sku, cpuid) ==
    IF vendor = "intel" /\ cpuid \in IntelCpuids THEN [uarch |-> cpuid, source |-> "cpuid"]
    ELSE IF sku \in KnownSkus(vendor) THEN [uarch |-> sku, source |-> "sku_string"]
    ELSE [uarch |-> "unknown", source |-> "none"]

\* An unreadable /proc/cpuinfo leaves the defaults.
_detect_cpu(cpuinfo) ==
    IF ~cpuinfo.readable THEN _identify_microarch("unknown", "unknown", "none")
    ELSE _identify_microarch(cpuinfo.vendor, cpuinfo.sku, cpuinfo.cpuid)

uarch_is_known(info) == info.source \in {"cpuid", "sku_string"}

_detect_capabilities(cpuinfo) ==
    IF cpuinfo.readable THEN {"amx", "avx512", "avx2"} \cap cpuinfo.flags ELSE {"avx2"}

-------------------------------------------------------------------------------
(* Topology: the lines of lscpu are read in their order, and the first that  *)
(* does not parse loses itself and those after it.                           *)

LscpuLines == <<"logical", "per_socket", "sockets", "nodes">>

Parsed(lscpu) ==
    LET bad == {k \in DOMAIN LscpuLines : lscpu.lines[LscpuLines[k]] = Garbage}
        good == IF bad = {} THEN Len(LscpuLines) ELSE Min(bad) - 1
    IN  {LscpuLines[k] : k \in 1 .. good} \ {f \in Range(LscpuLines) : lscpu.lines[f] = Absent}

LineOr(lscpu, field, default) ==
    IF lscpu.status = "ok" /\ field \in Parsed(lscpu) THEN lscpu.lines[field] ELSE default

Bug_CoresOfOneSocket(per_socket, sockets) == per_socket
Physical(per_socket, sockets) == per_socket * sockets

\* The caches come later and use what is found here, also after a failure.
_detect_topology(lscpu, cpuinfo) ==
    LET sockets == LineOr(lscpu, "sockets", 1)
        nodes == LineOr(lscpu, "nodes", 1)
        whole == /\ lscpu.status = "ok"
                 /\ \A f \in Range(LscpuLines) : lscpu.lines[f] # Garbage
                 /\ "per_socket" \in Parsed(lscpu)
        cores == IF whole THEN Physical(lscpu.lines["per_socket"], sockets)
                 ELSE IF cpuinfo.readable THEN Max({cpuinfo.core_ids, 1})
                 ELSE Max({cpuinfo.cpus, 1})
    IN  [sockets |-> sockets, nodes |-> nodes, physical |-> cores,
         per_node |-> IF whole THEN cores \div Max({nodes, 1}) ELSE 0,
         has_numa |-> whole /\ nodes > 1]

-------------------------------------------------------------------------------
(* Caches: /sys has the instance of cpu0, lscpu the sum of the instances.    *)

LscpuL3(lscpu) == IF lscpu.status = "ok" /\ lscpu.l3 > 0 THEN lscpu.l3 ELSE 0

Bug_OneInstance(files, sockets) == files.l3
SysfsL3(files, sockets) == files.l3 * sockets

\* Without the directory the total is taken and its share is not.
_detect_cache(files, lscpu, topology) ==
    LET found == IF files.l3 > 0 THEN SysfsL3(files, topology.sockets) ELSE 0
        total == IF found > 0 THEN found ELSE LscpuL3(lscpu)
        share == IF topology.nodes > 0 THEN total \div topology.nodes ELSE total
    IN  IF ~files.present THEN [total |-> LscpuL3(lscpu), per_node |-> 0, usable |-> 0]
        ELSE [total |-> total, per_node |-> share, usable |-> (share * 3) \div 4]

-------------------------------------------------------------------------------
(* Peak bandwidth: the first plausible row of MLC, or a table by the part.   *)

MostGbs == 100000
PlausibleGbs == 10 .. MostGbs
PlausibleRow(gb) == gb \in PlausibleGbs

\* Of the rows that the pattern matches, in GB/s, the first plausible one of the first
\* file that has one.
_try_mlc_bandwidth(files) ==
    LET plausible(k) == {j \in DOMAIN files[k] : PlausibleRow(files[k][j])}
        usable == {k \in DOMAIN files : plausible(k) # {}}
        k == Min(usable)
    IN  IF usable = {} THEN Absent ELSE files[k][Min(plausible(k))]

PeakPerSocket == [GNR |-> 358, EMR |-> 307, SPR |-> 307, ICX |-> 204, CWF |-> 614, SRF |-> 550,
                  Zen5 |-> 461, Zen4 |-> 461, Zen4c |-> 461, Zen3 |-> 204]

Bug_AnyPart(cpu, sockets) ==
    (IF cpu.uarch \in DOMAIN PeakPerSocket THEN PeakPerSocket[cpu.uarch] ELSE 204) * sockets

_estimate_bandwidth(cpu, sockets) ==
    IF cpu.uarch \in DOMAIN PeakPerSocket THEN PeakPerSocket[cpu.uarch] * sockets ELSE Absent

_detect_memory_bandwidth(mlc, cpu, topology) ==
    LET measured == _try_mlc_bandwidth(mlc)
        estimate == _estimate_bandwidth(cpu, topology.sockets)
        Peak(bw, source) == [total |-> bw, source |-> source,
                             per_node |-> bw \div Max({topology.nodes, 1})]
    IN  IF measured # Absent THEN Peak(measured, "mlc")
        ELSE IF estimate # Absent THEN Peak(estimate, "estimated")
        ELSE Peak(0, "unknown")

\* A host without lscpu is refused: only a failure of a program that was started
\* is caught, and the topology is always asked of it.
detect_platform(host) ==
    LET cpu == _detect_cpu(host.cpuinfo)
        topology == _detect_topology(host.lscpu, host.cpuinfo)
    IN  IF host.lscpu.status = "absent" THEN Raises("FileNotFoundError")
        ELSE Returns([cpu |-> cpu, topology |-> topology,
                      cache |-> _detect_cache(host.files, host.lscpu, topology),
                      memory |-> _detect_memory_bandwidth(host.mlc, cpu, topology),
                      has |-> _detect_capabilities(host.cpuinfo)])

DetectPlatform ==
    /\ Idle
    /\ \E cpuinfo \in CpuInfos, lscpu \in LscpuOutputs, files \in CacheFiles, mlc \in MlcResults :
           LET host == [cpuinfo |-> cpuinfo, lscpu |-> lscpu, files |-> files, mlc |-> mlc]
           IN  Answer("detect_platform", host, detect_platform(host))

-------------------------------------------------------------------------------
(* Preflight.  A check has a status, and a fix unless there is none.         *)

Check(name, category, status, fix) ==
    [name |-> name, category |-> category, status |-> status, fix |-> fix]

passed(c) == c.status \in {"OK", "WARNING", "SKIPPED"}
ready(checks) == \A c \in checks : c.category # "optional" => c.status \notin {"MISSING", "MISCONFIGURED"}

_check_cpu_vendor(h) ==
    Check("vendor", "cpu", IF h.vendor = "intel" THEN "OK" ELSE "WARNING", FALSE)
_check_microarch(h) ==
    Check("uarch", "cpu", IF h.uarch_known THEN "OK" ELSE "WARNING", FALSE)

Bug_ParanoidTwoWarns(h) ==
    Check("paranoid", "kernel",
          CASE h.paranoid = Absent -> "MISSING" [] h.paranoid \in {-1, 0} -> "OK"
            [] h.paranoid > 0 -> "WARNING", TRUE)

\* From 1 on there are no CPU-wide counters; from 2 on none of the kernel's.
_check_perf_paranoid(h) ==
    Check("paranoid", "kernel",
          CASE h.paranoid = Absent -> "MISSING"
            [] h.paranoid \in {-1, 0} -> "OK"
            [] h.paranoid = 1 -> "WARNING"
            [] h.paranoid > 1 -> "MISCONFIGURED", TRUE)

_check_nmi_watchdog(h) ==
    Check("nmi", "kernel", CASE h.nmi = Absent -> "SKIPPED" [] h.nmi = 0 -> "OK"
                             [] h.nmi > 0 -> "WARNING", h.nmi # Absent)

_check_msr_module(h) ==
    Check("msr", "kernel", IF h.msr THEN "OK" ELSE "WARNING", ~h.msr)

_check_governor(h) ==
    Check("governor", "system",
          CASE h.governor = "none" -> "SKIPPED" [] h.governor = "performance" -> "OK"
            [] h.governor = "powersave" -> "MISCONFIGURED", h.governor # "none")

ToolCheck(name, there, required) ==
    Check(name, IF required THEN "tools" ELSE "optional",
          CASE there -> "OK" [] ~there /\ required -> "MISSING"
            [] ~there /\ ~required -> "WARNING", ~there)

_check_perf_tool(h) == ToolCheck("perf", h.perf, TRUE)
_check_numa_tools(h) == ToolCheck("numactl", h.numactl, TRUE)

\* On the PATH or unpacked in the home directory.
_check_perfspect(h, required) == ToolCheck("perfspect", h.perfspect, required)
_check_observability_tools(h) == ToolCheck("observability", h.tools, FALSE)
_check_kernel_headers(h) == ToolCheck("headers", h.headers, FALSE)

run_checks(h, required) ==
    {_check_cpu_vendor(h), _check_microarch(h), _check_perf_paranoid(h), _check_nmi_watchdog(h),
     _check_msr_module(h), _check_governor(h), _check_perf_tool(h), _check_numa_tools(h),
     _check_perfspect(h, required), _check_observability_tools(h), _check_kernel_headers(h)}

Bug_FixTooWeak(h, name) == IF name = "paranoid" THEN [h EXCEPT !.paranoid = 2] ELSE h

\* What a fix that works does.  PerfSpect is unpacked where the command is run.
Fixed(h, name) ==
    CASE name = "paranoid" -> [h EXCEPT !.paranoid = 0]
      [] name = "nmi" -> [h EXCEPT !.nmi = 0]
      [] name = "msr" -> [h EXCEPT !.msr = TRUE]
      [] name = "observability" -> [h EXCEPT !.tools = TRUE]
      [] name = "headers" -> [h EXCEPT !.headers = TRUE]
      [] name = "governor" -> [h EXCEPT !.governor = "performance"]
      [] name = "perf" -> [h EXCEPT !.perf = TRUE]
      [] name = "numactl" -> [h EXCEPT !.numactl = TRUE]
      [] name = "perfspect" -> [h EXCEPT !.perfspect = h.at_home]

Bug_AllWithFix(checks) == {c \in checks : c.status # "OK" /\ c.fix}
Fixable(checks) == {c \in checks : ~passed(c) /\ c.fix}

ApplyFixes(h, names) ==
    [f \in DOMAIN h |->
        LET changing == {n \in names : Fixed(h, n)[f] # h[f]}
        IN  IF changing = {} THEN h[f] ELSE Fixed(h, CHOOSE n \in changing : TRUE)[f]]

Bug_TrustsFixes(before, after, failed) == IF failed = {} THEN 0 ELSE 1
FixExit(before, after, failed) == IF ready(after) THEN 0 ELSE 1

\* preflight [--fix]: consent is the flag -y or the answer to the question.
preflight(h, o) ==
    LET checks == run_checks(h, o.require_perfspect)
        fixes == {c.name : c \in Fixable(checks)}
        after == ApplyFixes(h, fixes \ o.failing)
        Ends(exit, host) == [exit |-> exit, host |-> host, fixes |-> fixes]
    IN  CASE ~o.fix \/ fixes = {} -> Ends(IF ready(checks) THEN 0 ELSE 1, h)
          [] o.fix /\ fixes # {} /\ ~o.consent -> Ends(1, h)
          [] o.fix /\ fixes # {} /\ o.consent ->
                 Ends(FixExit(checks, run_checks(after, o.require_perfspect), fixes \cap o.failing), after)

Preflight ==
    /\ Idle
    /\ \E h \in HostSettings, fix, consent, required \in BOOLEAN,
          failing \in SUBSET {"paranoid", "governor", "perf", "perfspect"} :
           LET o == [fix |-> fix, consent |-> consent, require_perfspect |-> required,
                     failing |-> failing]
           IN  Answer("preflight", [h |-> h, o |-> o], preflight(h, o))

HostNext == DetectPlatform \/ Preflight

-------------------------------------------------------------------------------
(* Properties of the detection. *)

Detected == call.fn = "detect_platform" /\ ~call.result.raised

\* A peak bandwidth is one that MLC measured, or one of a part that was
\* identified: a part that nobody knows never has a denominator.
PeakHasSource ==
    Detected =>
        LET r == call.result.value
            rows == UNION {Range(call.args.mlc[k]) : k \in DOMAIN call.args.mlc}
        IN  /\ r.memory.source = "estimated" => uarch_is_known(r.cpu)
            /\ r.memory.source = "mlc" => r.memory.total \in rows \cap PlausibleGbs
            /\ r.memory.source = "unknown" <=> r.memory.total = 0

\* Where the topology was read, the shares of the nodes are the host's: no more
\* than all of it, and less by less than one unit a node.
NodesShareTheHost ==
    Detected =>
        LET r == call.result.value
            lines == call.args.lscpu.lines
            Share(part, total) == part * lines["nodes"] \in total - lines["nodes"] + 1 .. total
        IN  (call.args.lscpu.status = "ok" /\ \A f \in DOMAIN lines : lines[f] > 0) =>
                /\ Share(r.topology.per_node, lines["per_socket"] * lines["sockets"])
                /\ Share(r.memory.per_node, r.memory.total)
                /\ call.args.files.present => Share(r.cache.per_node, r.cache.total)

\* Of a host with one L3 a socket, /sys and lscpu give the same L3: the size of
\* an instance is multiplied by the sockets that the topology found before.
L3SourcesAgree ==
    Detected =>
        LET a == call.args
        IN  (/\ a.lscpu.status = "ok" /\ "sockets" \in Parsed(a.lscpu)
             /\ a.files.present /\ a.files.l3 > 0
             /\ a.lscpu.l3 = a.files.l3 * a.lscpu.lines["sockets"]) =>
                call.result.value.cache.total = a.lscpu.l3

(* Properties of the preflight. *)

\* Whatever the fixes did, the exit status is 0 exactly when a preflight of the
\* host that is left would find it ready, but for the user who declines.
ExitMatchesHost ==
    Called("preflight") =>
        LET o == call.args.o
            declined == o.fix /\ ~o.consent /\ call.result.fixes # {}
        IN  IF declined THEN call.result.exit = 1
            ELSE (call.result.exit = 0)
                 <=> ready(run_checks(call.result.host, o.require_perfspect))

\* Settings are changed only on request and with consent, and only those whose
\* check failed: what was a warning stays as it was.
FixesOnlyFailures ==
    Called("preflight") =>
        LET h == call.args.h
            after == call.result.host
            o == call.args.o
        IN  /\ ~(o.fix /\ o.consent) => after = h
            /\ after.nmi = h.nmi /\ after.msr = h.msr
            /\ after.paranoid # h.paranoid => h.paranoid > 1 \/ h.paranoid = Absent
            /\ after.perfspect # h.perfspect => o.require_perfspect
            /\ after.headers = h.headers /\ after.tools = h.tools

\* A host that preflight calls ready lets perf count its own processes.
ReadyMeansCounters ==
    (Called("preflight") /\ call.result.exit = 0) =>
        call.result.host.perf /\ call.result.host.paranoid \in -1 .. 1

\* When every fix works, one preflight --fix leaves nothing to fix; PerfSpect
\* must have been unpacked in the home directory.
FixConverges ==
    LET o == call.args.o
    IN  (Called("preflight") /\ o.fix /\ o.consent /\ o.failing = {} /\ call.args.h.at_home) =>
            preflight(call.result.host, o).fixes = {} /\ call.result.exit = 0
===============================================================================
