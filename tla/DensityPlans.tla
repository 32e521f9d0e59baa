------------------------------ MODULE DensityPlans ------------------------------
(***************************************************************************)
(* Planning and judging a density experiment (experiments/scaling): the    *)
(* cores a host has for agents (config.py), who gets which (pinning.py),   *)
(* the records bridged from tau-bench (launch_vllm_taubench.py), and the   *)
(* scaling curves with their findings (analysis.py).                       *)
(***************************************************************************)
EXTENDS Calls

CONSTANTS
    CoreLayouts,    \* NUMA node -> its cores, ascending
    Experiments,    \* density, cores per agent, placement, oversubscribe
    WorkloadMixes,  \* sequence of the workloads that MIXED goes through
    DensityCurves,  \* sequences of cells: density and the results of the agents
    CallDumps       \* sequences of agents: the latencies of their calls

-------------------------------------------------------------------------------
(* config.py. *)

Ascending(S) ==
    [k \in 1 .. Cardinality(S) |-> CHOOSE x \in S : Cardinality({y \in S : y < x}) = k - 1]

\* AGENTSYSPERF_TOPOLOGY=auto: the highest cores are kept for the orchestrator.
discover_topology(layout, orch) ==
    LET all == Ascending(UNION {Range(layout[n]) : n \in DOMAIN layout})
    IN  IF DOMAIN layout # {0, 1, 2} THEN Raises("nodes")
        ELSE IF orch >= Len(all) THEN Raises("no cores for agents")
        ELSE Returns([nodes |-> layout,
                      reserved |-> Range(SubSeq(all, Len(all) - orch + 1, Len(all)))])

-------------------------------------------------------------------------------
(* pinning.py. *)

node_cores(host, n) == SelectSeq(host.nodes[n], LAMBDA c : c \notin host.reserved)

Pool(host, placement) ==
    CASE placement = "intra_node" -> node_cores(host, 0)
      [] placement = "cross_node" -> node_cores(host, 0) \o node_cores(host, 1)
      [] placement = "spread" ->
             node_cores(host, 0) \o node_cores(host, 1) \o node_cores(host, 2)

\* cores of a node from start on, as a set; the caller has checked that they exist.
Cut(cores, start, count) == {cores[start + k] : k \in 1 .. count}
Room(cores, start, count) == start + count <= Len(cores)

Bug_SlotIsStart(i, n, cpa) == Cardinality({j \in 0 .. i - 1 : j % 3 = n})

\* The place of agent i on node n, if the agents went round the nodes.
TurnStart(i, n, cpa) == Cardinality({j \in 0 .. i - 1 : j % 3 = n}) * cpa

spread_assign(host, i, cpa) ==
    LET fits(n) == Room(node_cores(host, n), TurnStart(i, n, cpa), cpa)
        on(n) == Returns(Cut(node_cores(host, n), TurnStart(i, n, cpa), cpa))
    IN  IF fits(i % 3) THEN on(i % 3)
        ELSE IF \E n \in 0 .. 2 : fits(n) THEN on(Min({n \in 0 .. 2 : fits(n)}))
        ELSE Raises("cannot place")

Bug_WrapsWhole(pool, i, cpa) ==
    LET start == (i * cpa) % (Len(pool) - cpa + 1)
    IN  Cut(pool, start, cpa)

\* Beyond the pool agents share cores, round and round.
WrapAssign(pool, i, cpa) ==
    {pool[((i * cpa + k) % Len(pool)) + 1] : k \in 0 .. cpa - 1}

Bug_FromFirst(mixed, i) == IF mixed THEN WorkloadMixes[1] ELSE "one"
AgentMix(mixed, i) ==
    IF mixed THEN WorkloadMixes[(i % Len(WorkloadMixes)) + 1] ELSE "one"

TooMany(e, pool) == e.density * e.cpa > Len(pool)

assign_cpusets(host, e) ==
    LET pool == Pool(host, e.placement)
        Cores(i) == CASE e.oversubscribe -> Returns(WrapAssign(pool, i, e.cpa))
                      [] ~e.oversubscribe /\ e.placement = "spread" ->
                             spread_assign(host, i, e.cpa)
                      [] ~e.oversubscribe /\ e.placement # "spread" ->
                             Returns(Cut(pool, i * e.cpa, e.cpa))
        all == 0 .. e.density - 1
    IN  IF TooMany(e, pool) /\ ~e.oversubscribe THEN Raises("not enough cores")
        ELSE IF e.density > 0 /\ e.cpa > Len(pool) THEN Raises("not enough cores")
        ELSE IF \E i \in all : Cores(i).raised THEN Raises("cannot place")
        ELSE Returns([i \in all |-> [cpuset |-> Cores(i).value, mix |-> AgentMix(e.mixed, i)]])

\* active_cores: what pyEDP is told to look at.
active_cores(host, agents) ==
    host.reserved \cup UNION {agents[i].cpuset : i \in DOMAIN agents}

Bug_RangeToNext(cores, c) == c + 1
RangeEnd(cores, c) ==
    CHOOSE d \in cores : /\ d >= c /\ c .. d \subseteq cores /\ d + 1 \notin cores

\* A range starts where the core before it is missing.
format_core_ranges(cores) ==
    LET starts == {c \in cores : c - 1 \notin cores}
    IN  [k \in 1 .. Cardinality(starts) |->
            LET c == Ascending(starts)[k] IN <<c, RangeEnd(cores, c)>>]

AssignDensity ==
    /\ Idle
    /\ \E layout \in CoreLayouts, orch \in 0 .. 4, e \in Experiments :
           LET host == discover_topology(layout, orch)
               plan == IF host.raised THEN host ELSE assign_cpusets(host.value, e)
           IN  Answer("assign_cpusets",
                      [host |-> host, e |-> e,
                       ranges |-> IF plan.raised THEN <<>>
                                  ELSE format_core_ranges(active_cores(host.value, plan.value))],
                      plan)

-------------------------------------------------------------------------------
(* launch_vllm_taubench.py: phase records from the calls of the agents, or   *)
(* from their number and mean where the calls were not kept.                 *)

Bug_MeanOnce(n, mean) == [k \in 1 .. Min({n, 1}) |-> mean]
Synthesized(n, mean) == [k \in 1 .. n |-> mean]

Latencies(dump) == IF dump.calls # <<>> THEN dump.calls
                   ELSE Synthesized(dump.number, dump.mean)

PhaseRecords(agent, i, phase) ==
    LET dump == IF phase = "reason" THEN agent.llm ELSE agent.tool
    IN  [k \in DOMAIN Latencies(dump) |->
            [agent |-> i, phase |-> phase, wall |-> Latencies(dump)[k]]]

Failed(agent) == agent.failed

bridge_latencies(agents) ==
    LET of(i) == IF Failed(agents[i]) THEN <<>>
                 ELSE PhaseRecords(agents[i], i, "reason") \o PhaseRecords(agents[i], i, "act")
    IN  FlattenSeq([i \in DOMAIN agents |-> of(i)])

BridgeLatencies ==
    /\ Idle
    /\ \E agents \in CallDumps : Answer("bridge", agents, bridge_latencies(agents))

-------------------------------------------------------------------------------
(* analysis.py.  A result has a rate of turns, and counters or zeros.        *)

MeanOf(values) == IF values = <<>> THEN 0 ELSE FoldSeq(+, 0, values) \div Len(values)

\* Agents with an error count for nothing.
OkAgents(agents) == SelectSeq(agents, LAMBDA a : ~a.error)

summarize_config(cell) ==
    LET ok == OkAgents(cell.agents)
        mean(Field(_)) == MeanOf([k \in DOMAIN ok |-> Field(ok[k])])
    IN  [density |-> cell.density, ok |-> Len(ok),
         rate |-> mean(LAMBDA a : a.rate),
         ipc |-> mean(LAMBDA a : a.ipc), mpki |-> mean(LAMBDA a : a.mpki)]

\* The rate at density 1, or else the cell's own, and the cell's share of it in %.
BaseRate(cells, s) ==
    LET solo == SelectSeq(cells, LAMBDA x : x.density = 1)
    IN  IF solo = <<>> THEN s.rate ELSE Last(solo).rate
Normalized(cells, s) ==
    IF BaseRate(cells, s) = 0 THEN 0 ELSE (100 * s.rate) \div BaseRate(cells, s)

Bug_AsGiven(cells) == [k \in DOMAIN cells |-> cells[k] @@ [share |-> Normalized(cells, cells[k])]]
scaling_curve(cells) ==
    SortSeq([k \in DOMAIN cells |-> cells[k] @@ [share |-> Normalized(cells, cells[k])]],
            LAMBDA a, b : a.density < b.density)

Bug_LooseReasons(base, pt) ==
    {r \in {"throughput", "ipc"} :
        CASE r = "throughput" -> pt.share < 30
          [] r = "ipc" -> base.ipc > 0 /\ 100 * pt.ipc < 60 * base.ipc}

\* Why a point is an inflection, compared with the first of the curve.
Reasons(base, pt) ==
    {r \in {"mpki", "throughput", "ipc"} :
        CASE r = "mpki" -> base.mpki > 0 /\ pt.mpki > 2 * base.mpki
          [] r = "throughput" -> pt.share < 70
          [] r = "ipc" -> base.ipc > 0 /\ 100 * pt.ipc < 60 * base.ipc}

\* The first point with a reason; 0 when there is none.
inflection(curve) ==
    LET hits == {k \in 2 .. Len(curve) : Reasons(curve[1], curve[k]) # {}}
    IN  IF hits = {} THEN 0 ELSE Min(hits)

\* generate_report: the highest density at which an agent keeps half its rate.
optimal(curve) ==
    LET viable == {k \in DOMAIN curve : curve[k].share >= 50}
    IN  IF viable = {} THEN 0 ELSE Max({curve[k].density : k \in viable})

AnalyzeDensities ==
    /\ Idle
    /\ \E cells \in DensityCurves :
           LET curve == scaling_curve([k \in DOMAIN cells |-> summarize_config(cells[k])])
           IN  Answer("analyze_densities", cells,
                      [curve |-> curve, inflection |-> inflection(curve),
                       optimal |-> optimal(curve)])

DensityPlanNext == AssignDensity \/ BridgeLatencies \/ AnalyzeDensities

-------------------------------------------------------------------------------
(* Properties. *)

Planned == Succeeded("assign_cpusets")
Cpusets == {<<i, call.result.value[i].cpuset>> : i \in DOMAIN call.result.value}
Load(c) == Cardinality({x \in Cpusets : c \in x[2]})

\* Every agent has as many cores as it asked for, all of its placement and none of
\* the orchestrator's, and no workload has two agents more than another.
AgentsArePlaced ==
    Planned =>
        LET e == call.args.e
            pool == Range(Pool(call.args.host.value, e.placement))
            count(m) == Cardinality({i \in DOMAIN call.result.value :
                                        call.result.value[i].mix = m})
        IN  /\ Cardinality(Cpusets) = e.density
            /\ \A x \in Cpusets : x[2] \subseteq pool /\ Cardinality(x[2]) = e.cpa
            /\ e.mixed => \A m1, m2 \in Range(WorkloadMixes) : count(m1) <= count(m2) + 1

\* Agents that go beyond the pool share it evenly: no core has two agents more
\* than another.
WrapIsFair ==
    Planned /\ call.args.e.oversubscribe =>
        LET pool == Range(Pool(call.args.host.value, call.args.e.placement))
        IN  \A c, d \in pool : Load(c) <= Load(d) + 1

\* Agents have cores of their own, unless oversubscribed or one did not fit on the
\* node whose turn it was.
DedicatedUnlessOverflow ==
    Planned /\ ~call.args.e.oversubscribe =>
        LET e == call.args.e
            own(i) == Range(node_cores(call.args.host.value, i % 3))
        IN  \/ \A x, y \in Cpusets : x # y => x[2] \cap y[2] = {}
            \/ e.placement = "spread" /\ \E x \in Cpusets : ~(x[2] \subseteq own(x[1]))

\* The filter names each core of an agent or the orchestrator, and no other.
FilterIsExact ==
    Planned =>
        UNION {r[1] .. r[2] : r \in Range(call.args.ranges)} =
            active_cores(call.args.host.value, call.result.value)

\* Whether its calls were kept or only their number and mean, an agent that ended
\* is told to have spent the same time in each phase.
BridgeKeepsTime ==
    Called("bridge") =>
        \A i \in DOMAIN call.args, phase \in {"reason", "act"} :
            LET dump == IF phase = "reason" THEN call.args[i].llm ELSE call.args[i].tool
                of == {k \in DOMAIN call.result :
                          call.result[k].agent = i /\ call.result[k].phase = phase}
            IN  Total([k \in of |-> call.result[k].wall], of) =
                    IF call.args[i].failed THEN 0 ELSE dump.number * dump.mean

\* The two findings agree: where no inflection is reported, the densest cell is
\* the optimal one.
FindingsAgree ==
    Called("analyze_densities") /\ Len(call.result.curve) > 1 /\ call.result.inflection = 0 =>
        call.result.optimal = Last(call.result.curve).density

\* A loss of a third against a single agent is never passed over: an inflection is
\* reported at that density or a lower one.
LossIsReported ==
    Called("analyze_densities") =>
        \A k \in DOMAIN call.args :
            LET s == summarize_config(call.args[k])
                solo == {j \in DOMAIN call.args : call.args[j].density = 1}
            IN  s.density > 1 /\ (\E j \in solo :
                    LET one == summarize_config(call.args[j])
                    IN  one.rate > 0 /\ 3 * s.rate < 2 * one.rate) =>
                /\ call.result.inflection # 0
                /\ call.result.curve[call.result.inflection].density <= s.density
===============================================================================
