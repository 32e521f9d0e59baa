------------------------------ MODULE ProfileChecks ------------------------------
(***************************************************************************)
(* Optimization profiles (src/optimization_profiles) and the counters that *)
(* prove them engaged (src/measurements/l3_perf/telemetry.py).  A profile  *)
(* names axes, the capabilities it requires and the counters it claims; it *)
(* is refused on a host without the capability, and engaged only if every  *)
(* counter was advertised, read, and past its threshold.                   *)
(***************************************************************************)
EXTENDS HostChecks

CONSTANTS
    Windows,        \* what perf sees in a window: the truth and how it is read
    TelemetryNames, \* counters that a plugin beside PerfStatTelemetry advertises
    SutConfigs,     \* what the caller has set before a profile is applied
    CounterClaims   \* claims of a profile that is not one of the six

GenericEvents == {"cycles", "cache_references", "cache_misses"}
MaxPlausible == 10

\* A window shows the true values, but for the generic events while another collector
\* holds the counters: then cycles read back as more than a CPU can do.
ASSUME WindowsAssumption ==
    \A w \in Windows :
        /\ w.counted \subseteq DOMAIN w.shown
        /\ \A c \in DOMAIN w.shown :
               /\ w.shown[c] \in Int
               /\ ~w.contended \/ c \notin GenericEvents => w.shown[c] = w.truth[c]
        /\ w.contended /\ "cycles" \in w.counted => w.shown["cycles"] > MaxPlausible
ASSUME PluginAssumption == TelemetryNames \cap GenericEvents = {}

\* f, and g where f has nothing.
Over(f, g) == [k \in DOMAIN f \cup DOMAIN g |-> IF k \in DOMAIN f THEN f[k] ELSE g[k]]

-------------------------------------------------------------------------------
(* profiles.py.  Thresholds in percent; a counter is a maximum or a minimum. *)

Amx == [amx_active |-> 5]
Onednn == [onednn_dispatch |-> 50]
Hugepages == [hugepage_fault |-> 50]
NumaLocal == [remote_access_max |-> 15]

Base == [isa |-> "avx512", math_library |-> "reference", runtime |-> "vanilla",
         quantization |-> "fp32", numa |-> "unpinned", memory_pages |-> "4k",
         core_isolation |-> "shared", accelerator |-> "none"]
AmxOnly == [Base EXCEPT !.isa = "amx", !.quantization = "int8"]
AmxOnednn == [AmxOnly EXCEPT !.math_library = "onednn", !.runtime = "ipex"]
AmxNumaHugepages == [AmxOnednn EXCEPT !.numa = "local", !.memory_pages = "2m",
                                      !.core_isolation = "isolcpus"]
FullXeon == [AmxNumaHugepages EXCEPT !.quantization = "int4", !.memory_pages = "1g",
                                     !.accelerator = "qat"]
OpenvinoXeon == [AmxNumaHugepages EXCEPT !.math_library = "onemkl", !.runtime = "openvino"]

Spec_(axes, requires, counters) ==
    [axes |-> axes, requires |-> requires, counters |-> counters]

PROFILES ==
    [base |-> Spec_(Base, {}, <<>>),
     amx_only |-> Spec_(AmxOnly, {"amx"}, Amx),
     amx_onednn |-> Spec_(AmxOnednn, {"amx"}, Over(Amx, Onednn)),
     amx_numa_hugepages |-> Spec_(AmxNumaHugepages, {"amx"},
                                  Over(Amx, Over(Hugepages, NumaLocal))),
     full_xeon |-> Spec_(FullXeon, {"amx"},
                         Over(Over(Amx, Onednn),
                              Over(Hugepages, Over(NumaLocal, [accel_queue |-> 1])))),
     openvino_xeon |-> Spec_(OpenvinoXeon, {"amx"},
                             Over(Amx, Over([openvino_infer |-> 90], Hugepages)))]

-------------------------------------------------------------------------------
(* _base.py. *)

BackendAxes == {"isa", "math_library", "runtime", "quantization", "accelerator"}
SchedulerAxes == {"numa", "memory_pages", "core_isolation"}

\* Axes that a profile leaves out have the defaults.
project_axes(axes) ==
    LET a == Over(axes, Base)
    IN  [backend |-> Restrict(a, BackendAxes), scheduler |-> Restrict(a, SchedulerAxes)]

unsupported_on(profile, has) == profile.requires \ has

Bug_CallerWins(sut, projected) == Over(sut, projected)

\* The axes of the profile replace what the caller had; his other keys stay.
Layered(sut, projected) == Over(projected, sut)

apply(profile, sut, has) ==
    IF unsupported_on(profile, has) # {} THEN Raises("unsupported")
    ELSE LET projection == project_axes(profile.axes)
         IN  Returns([backend |-> Layered(sut.backend, projection.backend),
                      scheduler |-> Layered(sut.scheduler, projection.scheduler)])

IsMaximum(counter) == counter \in {"remote_access_max"}

Clears(counter, value, threshold) ==
    IF IsMaximum(counter) THEN value <= threshold ELSE value >= threshold

\* A counter that is not advertised, or that was not read, is not engaged.
per_axis(claims, measured, available, c) ==
    /\ c \in available
    /\ c \in DOMAIN measured
    /\ Clears(c, measured[c], claims[c])

evaluate_thresholds(claims, measured, available) ==
    LET axis == [c \in DOMAIN claims |-> per_axis(claims, measured, available, c)]
        failures == {c \in DOMAIN claims : ~axis[c]}
    IN  [engaged |-> failures = {}, axis |-> axis, failures |-> failures]

-------------------------------------------------------------------------------
(* telemetry.py: a window of perf, in giga-events a second per CPU.  Counters *)
(* that another collector holds read back as impossible numbers.             *)

_counts_are_physical(sums) ==
    LET Sum(e) == IF e \in DOMAIN sums THEN sums[e] ELSE 0
    IN  /\ Sum("cycles") <= MaxPlausible
        /\ Sum("cache_references") > 0 => Sum("cache_misses") <= Sum("cache_references")

Bug_ZeroWhenUncounted(w, kept) ==
    [e \in kept |-> IF e \in w.counted THEN w.shown[e] ELSE 0]
parse_perf_csv_summary(w, kept) == [e \in kept \cap w.counted |-> w.shown[e]]

Bug_TrustsImpossible(values) == values
KeptIfPhysical(values) == IF _counts_are_physical(values) THEN values ELSE <<>>

\* Nothing is made up for an event that is not advertised or did not count.
read_counters(w, events) ==
    LET kept == events \cap GenericEvents
    IN  IF ~w.available \/ kept = {} \/ w.failed THEN <<>>
        ELSE KeptIfPhysical(parse_perf_csv_summary(w, kept))

\* A plugin that advertises names and reads some of them.
ReadBy(plugin, w, events) ==
    IF plugin = "perf_stat" THEN read_counters(w, events)
    ELSE Restrict(w.shown, events \cap TelemetryNames \cap w.counted)
AvailableBy(plugin) == IF plugin = "perf_stat" THEN GenericEvents ELSE TelemetryNames

verify_engaged(profile, plugin, w) ==
    evaluate_thresholds(profile.counters,
        IF DOMAIN profile.counters = {} THEN <<>> ELSE ReadBy(plugin, w, DOMAIN profile.counters),
        AvailableBy(plugin))

\* telemetry list: what no installed plugin advertises.
Bug_NotByEach(plugins, wanted) == {c \in wanted : \E p \in plugins : c \notin AvailableBy(p)}
unverifiable(plugins, wanted) == wanted \ UNION {AvailableBy(p) : p \in plugins}

Plugins == {"perf_stat", "vendor"}

ApplyProfile ==
    /\ Idle
    /\ \E name \in DOMAIN PROFILES, sut \in SutConfigs, has \in SUBSET {"amx", "avx512"} :
           Answer("apply", [profile |-> PROFILES[name], name |-> name, sut |-> sut, has |-> has],
                  apply(PROFILES[name], sut, has))

VerifyProfile ==
    /\ Idle
    /\ \E profile \in Range(PROFILES) \cup {Spec_(Base, {}, c) : c \in CounterClaims},
          plugin \in Plugins, w \in Windows :
           Answer("verify_engaged", [profile |-> profile, plugin |-> plugin, w |-> w],
                  verify_engaged(profile, plugin, w))

ListTelemetry ==
    /\ Idle
    /\ \E plugins \in SUBSET Plugins, w \in Windows :
           Answer("telemetry_list", [plugins |-> plugins, w |-> w],
                  unverifiable(plugins, UNION {DOMAIN PROFILES[n].counters : n \in DOMAIN PROFILES}))

ProfileNext == ApplyProfile \/ VerifyProfile \/ ListTelemetry

-------------------------------------------------------------------------------

\* An engaged profile has every counter it claims on its side: it was counted,
\* and its true value clears the threshold, also when another collector holds
\* the counters; that is only noticed where cycles are among those read.
EngagedMeansMeasured ==
    (Called("verify_engaged") /\ call.result.engaged) =>
        LET claims == call.args.profile.counters
            w == call.args.w
            noticed == ~w.contended \/ "cycles" \in DOMAIN claims \/ call.args.plugin = "vendor"
        IN  noticed => \A c \in DOMAIN claims :
                /\ c \in w.counted
                /\ IF c = "remote_access_max" THEN w.truth[c] <= claims[c]
                   ELSE w.truth[c] >= claims[c]

\* Every failure has a cause the user can act on: a true value short of the
\* threshold, or a counter that this host did not give.  A counter that did not
\* count is never reported as a value.
FailureHasCause ==
    Called("verify_engaged") =>
        LET a == call.args
            read == ReadBy(a.plugin, a.w, DOMAIN a.profile.counters)
        IN  /\ DOMAIN a.profile.counters # {} => DOMAIN read \subseteq a.w.counted
            /\ \A c \in call.result.failures :
                   \/ c \notin DOMAIN read
                   \/ ~a.w.contended /\ ~Clears(c, a.w.truth[c], a.profile.counters[c])
                   \/ a.w.contended /\ "cycles" \notin DOMAIN read

\* After apply every axis is the profile's, whatever the caller had set it to,
\* and the caller's other keys are his.
AxesAreTheProfiles ==
    Succeeded("apply") =>
        LET r == call.result.value
            sut == call.args.sut
            axes == call.args.profile.axes
        IN  /\ \A k \in DOMAIN axes :
                   IF k \in BackendAxes THEN r.backend[k] = axes[k] ELSE r.scheduler[k] = axes[k]
            /\ \A k \in DOMAIN sut.backend \ BackendAxes : r.backend[k] = sut.backend[k]
            /\ \A k \in DOMAIN sut.scheduler \ SchedulerAxes : r.scheduler[k] = sut.scheduler[k]

\* What telemetry list names cannot be verified: a profile that claims such a
\* counter is not engaged under any plugin that is installed.
UnverifiableIsPredicted ==
    Called("telemetry_list") =>
        \A n \in DOMAIN PROFILES, p \in call.args.plugins :
            call.result \cap DOMAIN PROFILES[n].counters # {} =>
                ~verify_engaged(PROFILES[n], p, call.args.w).engaged

-------------------------------------------------------------------------------
(* Hosts and profiles together.                                            *)

\* What is said of the host and of a profile follows from what they show, whichever
\* source answers.
HostVerdicts ==
    /\ PeakHasSource /\ NodesShareTheHost /\ L3SourcesAgree /\ ExitMatchesHost
    /\ FixesOnlyFailures /\ ReadyMeansCounters /\ FixConverges
    /\ EngagedMeansMeasured /\ FailureHasCause /\ AxesAreTheProfiles /\ UnverifiableIsPredicted

\* One call of any of them.
HostSpec == Idle /\ [][HostNext \/ ProfileNext]_call
===============================================================================
