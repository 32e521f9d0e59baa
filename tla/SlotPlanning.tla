------------------------------ MODULE SlotPlanning ------------------------------
(***************************************************************************)
(* The worker slots of a stream point (streams/resources.py) and whether   *)
(* the host can hold them (the first part of streams/orchestrator.py).     *)
(*                                                                         *)
(* A histogram says how many tasks ask for each number of CPUs.  Ratios of *)
(* queued tasks per slot are compared by multiplying out.                  *)
(***************************************************************************)
EXTENDS Calls

CONSTANTS
    SlotTotals,      \* how many cores, or slots, are asked for
    TaskHistograms,  \* functions from CPU sizes to numbers of tasks
    NodeLayouts,     \* CPUs by NUMA node: sequences of increasing sequences
    MemoryBudgets,   \* what a task may declare, in units of memory
    MaxPort,         \* the greatest port
    ProbeOutcomes    \* what creating and removing a probe network may give

\* Task classes that have tasks.
Classes(histogram) == {size \in DOMAIN histogram : histogram[size] > 0}

\* a has more queued tasks per slot than b.
MoreWork(histogram, slots, a, b) ==
    histogram[a] * slots[b] > histogram[b] * slots[a]
SameWork(histogram, slots, a, b) ==
    histogram[a] * slots[b] = histogram[b] * slots[a]

\* max() over (work per slot, size).
Neediest(histogram, slots, candidates) ==
    CHOOSE a \in candidates : \A b \in candidates \ {a} :
        \/ MoreWork(histogram, slots, a, b)
        \/ SameWork(histogram, slots, a, b) /\ a > b

\* max() over (work per slot, tasks, -size).
NeediestClass(histogram, slots) ==
    CHOOSE a \in DOMAIN slots : \A b \in DOMAIN slots \ {a} :
        \/ MoreWork(histogram, slots, a, b)
        \/ /\ SameWork(histogram, slots, a, b)
           /\ \/ histogram[a] > histogram[b]
              \/ histogram[a] = histogram[b] /\ a < b

One(S) == [size \in S |-> 1]
CoresOf(slots) ==
    Total([size \in DOMAIN slots |-> size * slots[size]], DOMAIN slots)

Bug_IgnoreRemaining(total, histogram) ==
    LET C == Classes(histogram)
        Give(state, k) ==
            IF state.left <= 0 THEN state
            ELSE LET size == Neediest(histogram, state.slots, C)
                 IN  [slots |-> [state.slots EXCEPT ![size] = @ + 1],
                      left |-> state.left - size]
    IN  IF total <= 0 \/ C = {} \/ SumSet(C) > total THEN Raises("ValueError")
        ELSE Returns(FoldLeft(Give, [slots |-> One(C), left |-> total - SumSet(C)],
                              [k \in 1 .. total |-> k]).slots)

\* One slot for each class, then the neediest class that still fits.
plan_slot_counts(total, histogram) ==
    LET C == Classes(histogram)
        Give(state, k) ==
            LET fits == {size \in C : size <= state.left}
                size == Neediest(histogram, state.slots, fits)
            IN  IF fits = {} THEN state
                ELSE [slots |-> [state.slots EXCEPT ![size] = @ + 1],
                      left |-> state.left - size]
    IN  IF total <= 0 \/ C = {} \/ SumSet(C) > total THEN Raises("ValueError")
        ELSE Returns(FoldLeft(Give, [slots |-> One(C), left |-> total - SumSet(C)],
                              [k \in 1 .. total |-> k]).slots)

Bug_LargestFirst(count, histogram, max) ==
    LET C == Classes(histogram)
        Give(slots, k) == [slots EXCEPT ![Max(C)] = @ + 1]
    IN  IF \/ count <= 0 \/ count > max \/ C = {} \/ count < Cardinality(C)
        THEN Raises("ValueError")
        ELSE Returns(FoldLeft(Give, One(C), [k \in 1 .. count - Cardinality(C) |-> k]))

plan_unpinned_slot_counts(count, histogram, max) ==
    LET C == Classes(histogram)
        Give(slots, k) == [slots EXCEPT ![NeediestClass(histogram, slots)] = @ + 1]
    IN  IF \/ count <= 0 \/ count > max \/ C = {} \/ count < Cardinality(C)
        THEN Raises("ValueError")
        ELSE Returns(FoldLeft(Give, One(C), [k \in 1 .. count - Cardinality(C) |-> k]))

-------------------------------------------------------------------------------
(* Placement. *)

Consecutive(cpus) == \A k \in 1 .. Len(cpus) - 1 : cpus[k + 1] = cpus[k] + 1

\* Where runs of `size` consecutive CPUs start in a node.
Runs(node, size) ==
    {k \in 1 .. Len(node) - size + 1 : Consecutive(SubSeq(node, k, k + size - 1))}

take_contiguous(node, size) ==
    LET k == Min(Runs(node, size)) IN SubSeq(node, k, k + size - 1)

\* The sizes of the slots to place, the largest first.
Requested(slots) ==
    FlattenSeq([k \in 1 .. Cardinality(DOMAIN slots) |->
        LET size == SetToSortSeq(DOMAIN slots, >)[k]
        IN  [j \in 1 .. slots[size] |-> size]])

Bug_KeepsPlaced(slots, nodes) ==
    LET Place(state, size) ==
            LET n == Len(state.free)
                fitting == {o \in 0 .. n - 1 :
                    Runs(state.free[((state.next + o) % n) + 1], size) # {}}
                i == ((state.next + Min(fitting)) % n) + 1
                cpus == take_contiguous(state.free[i], size)
            IN  IF state.failed \/ fitting = {} THEN [state EXCEPT !.failed = TRUE]
                ELSE [state EXCEPT !.placed = Append(@, cpus), !.next = i % n]
        end == FoldLeft(Place, [free |-> nodes, placed |-> <<>>, next |-> 0,
                                failed |-> FALSE], Requested(slots))
    IN  IF end.failed THEN Raises("ValueError") ELSE Returns(end.placed)

\* The nodes take turns; a slot that fits no node refuses the whole plan.
pack_task_slots(slots, nodes) ==
    LET Place(state, size) ==
            LET n == Len(state.free)
                fitting == {o \in 0 .. n - 1 :
                    Runs(state.free[((state.next + o) % n) + 1], size) # {}}
                i == ((state.next + Min(fitting)) % n) + 1
                cpus == take_contiguous(state.free[i], size)
                left == SelectSeq(state.free[i], LAMBDA c : c \notin Range(cpus))
            IN  IF state.failed \/ fitting = {} THEN [state EXCEPT !.failed = TRUE]
                ELSE [state EXCEPT !.free[i] = left, !.placed = Append(@, cpus),
                                   !.next = i % n]
        end == FoldLeft(Place, [free |-> nodes, placed |-> <<>>, next |-> 0,
                                failed |-> FALSE], Requested(slots))
    IN  IF end.failed THEN Raises("ValueError") ELSE Returns(end.placed)

CpusOf(nodes) == UNION {Range(nodes[k]) : k \in DOMAIN nodes}

\* The first `total` CPUs, node by node, without the nodes left empty.
SelectedNodes(total, nodes) ==
    LET before(k) == Total([j \in 1 .. k - 1 |-> Len(nodes[j])], 1 .. k - 1)
        take(k) == Min({Len(nodes[k]), total - before(k)})
    IN  SelectSeq([k \in DOMAIN nodes |-> SubSeq(nodes[k], 1, take(k))],
                  LAMBDA node : node # <<>>)

plan_task_slots(total, histogram, nodes) ==
    IF total > Cardinality(CpusOf(nodes)) THEN Raises("ValueError")
    ELSE LET counts == plan_slot_counts(total, histogram)
         IN  IF counts.raised THEN counts
             ELSE pack_task_slots(counts.value, SelectedNodes(total, nodes))

-------------------------------------------------------------------------------
(* The kernel's and Docker's notation for a set of CPUs: intervals. *)

Bug_DropLast(cpus) ==
    LET first == {c \in cpus : c - 1 \notin cpus}
        last(c) == Max({d \in cpus : c .. d \subseteq cpus})
    IN  [k \in 1 .. Cardinality(first) |->
            LET c == SetToSortSeq(first, <)[k]
            IN  <<c, IF last(c) = c + 1 THEN c ELSE last(c)>>]

cpuset_str(cpus) ==
    LET first == {c \in cpus : c - 1 \notin cpus}
        last(c) == Max({d \in cpus : c .. d \subseteq cpus})
    IN  [k \in 1 .. Cardinality(first) |->
            LET c == SetToSortSeq(first, <)[k] IN <<c, last(c)>>]

parse_cpulist(intervals) == UNION {i[1] .. i[2] : i \in Range(intervals)}

-------------------------------------------------------------------------------
(* Admission.  Tasks are records of a size and a memory budget, slots their *)
(* sizes.                                                                   *)

Bug_Smallest(tasks, slots) ==
    LET budgets(size) == {t.memory : t \in {t \in tasks : t.size = size}}
    IN  IF \/ \E t \in tasks : t.memory <= 0
           \/ \E k \in DOMAIN slots : budgets(slots[k]) = {}
        THEN Raises("ValueError")
        ELSE Returns(Total([k \in DOMAIN slots |-> Min(budgets(slots[k]))],
                           DOMAIN slots))

\* Each slot is charged with the largest task it may be given.
declared_memory_demand_mb(tasks, slots) ==
    LET budgets(size) == {t.memory : t \in {t \in tasks : t.size = size}}
    IN  IF \/ \E t \in tasks : t.memory <= 0
           \/ \E k \in DOMAIN slots : budgets(slots[k]) = {}
        THEN Raises("ValueError")
        ELSE Returns(Total([k \in DOMAIN slots |-> Max(budgets(slots[k]))],
                           DOMAIN slots))

\* _check_proxy_ports.  Worker k, from 0, has the port base + k.
check_proxy_ports(base, count, taken) ==
    IF base < 1 \/ base + count - 1 > MaxPort THEN Raises("ValueError")
    ELSE IF base .. base + count - 1 \cap taken # {} THEN Raises("RuntimeError")
    ELSE Returns(base .. base + count - 1)

Bug_CountsOnlySlots(host, slots, pinned, max, memory) ==
    IF \/ slots = <<>> \/ Len(slots) > max \/ Len(slots) > host.affinity
       \/ Len(slots) > host.docker_cpus \/ memory * 10 > host.memory * 8
    THEN Raises("ValueError")
    ELSE check_proxy_ports(host.base_port, Len(slots), host.taken)

\* _admit_stream_capacity; memory is the demand declared above.
admit_stream_capacity(host, slots, pinned, max, memory) ==
    IF \/ slots = <<>> \/ Len(slots) > max
       \/ ~pinned /\ Len(slots) > host.affinity
       \/ pinned /\ Total(slots, DOMAIN slots) > host.affinity
       \/ Len(slots) > host.docker_cpus
       \/ memory * 10 > host.memory * 8
    THEN Raises("ValueError")
    ELSE check_proxy_ports(host.base_port, Len(slots), host.taken)

Bug_IgnoresMultiple(multiple, slots, tasks) == Max({1, slots \div tasks})

\* How often run_task_sized_streams queues the list of tasks.
Repeats(multiple, slots, tasks) ==
    Max({1, (multiple * slots + tasks - 1) \div tasks})

\* _preflight_docker_network_capacity: create probes until one is refused,
\* then remove those that were created.  An outcome tells what the Docker
\* client answers and whether the network then exists.
Bug_OnlyOnSuccess(outcomes) ==
    LET bad == {k \in DOMAIN outcomes : outcomes[k].create # "ok"}
        tried == IF bad = {} THEN DOMAIN outcomes ELSE 1 .. Min(bad)
        created == {k \in tried : outcomes[k].create = "ok"}
        kept == {k \in created : outcomes[k].remove # "ok"}
    IN  [error |-> IF bad # {} THEN "capacity" ELSE IF kept # {} THEN "cleanup" ELSE "none",
         left |-> (IF bad = {} THEN kept ELSE created)
                  \cup {k \in tried : outcomes[k].create = "late"}]

network_probe(outcomes) ==
    LET bad == {k \in DOMAIN outcomes : outcomes[k].create # "ok"}
        tried == IF bad = {} THEN DOMAIN outcomes ELSE 1 .. Min(bad)
        created == {k \in tried : outcomes[k].create = "ok"}
        kept == {k \in created : outcomes[k].remove # "ok"}
    IN  [error |-> IF bad # {} THEN "capacity" ELSE IF kept # {} THEN "cleanup" ELSE "none",
         left |-> kept \cup {k \in tried : outcomes[k].create = "late"}]

\* Names are sequences of the parts that "_" separates.  The id of the task
\* of a stream, the first time and when it is repeated.
Bug_NoStream(base, stream, task, again) ==
    base \o task \o (IF again THEN <<"r1">> ELSE <<>>)

RunOfTask(base, stream, task, again) ==
    base \o <<stream>> \o task \o (IF again THEN <<"r1">> ELSE <<>>)

\* A listing keeps the names that start with the prefix and a separator.
list_scoped(prefix, name) == IsStrictPrefix(prefix, name)

-------------------------------------------------------------------------------
(* The calls. *)

PlanPinned ==
    /\ Idle
    /\ \E total \in SlotTotals : \E histogram \in TaskHistograms :
           Answer("plan_slot_counts", [total |-> total, histogram |-> histogram],
                  plan_slot_counts(total, histogram))

PlanUnpinned ==
    /\ Idle
    /\ \E count, max \in SlotTotals : \E histogram \in TaskHistograms :
           Answer("plan_unpinned_slot_counts",
                  [count |-> count, max |-> max, histogram |-> histogram],
                  plan_unpinned_slot_counts(count, histogram, max))

PlanPlaces ==
    /\ Idle
    /\ \E total \in SlotTotals : \E histogram \in TaskHistograms :
           \E nodes \in NodeLayouts :
               Answer("plan_task_slots",
                      [total |-> total, histogram |-> histogram, nodes |-> nodes],
                      plan_task_slots(total, histogram, nodes))

RenderCpus ==
    /\ Idle
    /\ \E cpus \in SUBSET (0 .. Max(SlotTotals)) :
           Answer("cpuset_str", cpus, cpuset_str(cpus))

TaskMixes == SUBSET [size : {1, 2}, memory : MemoryBudgets]
Declare ==
    /\ Idle
    /\ \E tasks \in TaskMixes : \E slots \in SeqOf({1, 2}, 3) :
           Answer("declared_memory_demand_mb", [tasks |-> tasks, slots |-> slots],
                  declared_memory_demand_mb(tasks, slots))

Hosts == [affinity : {2, 4}, docker_cpus : {2, 3}, memory : {5, 10},
          base_port : {0, 1, MaxPort - 1}, taken : {{}, {2}}]
Admit ==
    /\ Idle
    /\ \E host \in Hosts : \E slots \in SeqOf({1, 2}, 3) : \E pinned \in BOOLEAN :
         \E max \in {1, 3} : \E memory \in {4, 5} :
           Answer("admit_stream_capacity",
                  [host |-> host, slots |-> slots, pinned |-> pinned],
                  admit_stream_capacity(host, slots, pinned, max, memory))

\* The default multiple is 2.
QueueItems ==
    /\ Idle
    /\ \E count \in SlotTotals : \E histogram \in TaskHistograms :
           LET plan == plan_unpinned_slot_counts(count, histogram, 4096)
               tasks == Total(histogram, DOMAIN histogram)
           IN  /\ ~plan.raised
               /\ Answer("repeats", [histogram |-> histogram, slots |-> plan.value],
                         Repeats(2, count, tasks))

ProbeNetworks ==
    /\ Idle
    /\ \E n \in 0 .. 3 : \E outcomes \in [1 .. n -> ProbeOutcomes] :
           Answer("network_probe", outcomes, network_probe(outcomes))

\* Base ids, and task names of one or of two parts, and which container of
\* the second run the first run's listing names.
Bases == {<<"e">>, <<"e", "s1">>, <<"f">>}
Names == {<<"a">>, <<"a", "b">>}
ListContainers ==
    /\ Idle
    /\ \E b1, b2 \in Bases : \E s1, s2 \in {"s1", "s2"} :
         \E t1, t2 \in Names : \E again1, again2 \in BOOLEAN :
           Answer("list_scoped", [base |-> <<b1, b2>>, stream |-> <<s1, s2>>],
                  list_scoped(RunOfTask(b1, s1, t1, again1),
                              Append(RunOfTask(b2, s2, t2, again2), "c")))

SlotNext == \/ PlanPinned \/ PlanUnpinned \/ PlanPlaces \/ RenderCpus
            \/ Declare \/ Admit \/ QueueItems \/ ProbeNetworks \/ ListContainers

-------------------------------------------------------------------------------
(* Properties. *)

\* No class that waits longer per slot was passed over for one it fits in.
FairTo(histogram, slots, a, b) ==
    slots[a] > 1 => histogram[a] * slots[b] >= histogram[b] * (slots[a] - 1)

\* The cores are spent, on every class, as far as a slot fits in what is left,
\* and a class with less work per slot never gets the cores another could use.
SlotCountsRight ==
    Succeeded("plan_slot_counts") =>
        LET slots == call.result.value
            histogram == call.args.histogram
            left == call.args.total - CoresOf(slots)
        IN  /\ DOMAIN slots = Classes(histogram)
            /\ left >= 0
            /\ \A a \in DOMAIN slots : slots[a] >= 1 /\ a > left
            /\ \A a, b \in DOMAIN slots : b <= a => FairTo(histogram, slots, a, b)

\* Without pinning exactly the slots asked for are planned, and shared fairly
\* between all classes.
UnpinnedCountsRight ==
    Succeeded("plan_unpinned_slot_counts") =>
        LET slots == call.result.value
            histogram == call.args.histogram
        IN  /\ DOMAIN slots = Classes(histogram)
            /\ Total(slots, DOMAIN slots) = call.args.count
            /\ \A a, b \in DOMAIN slots : FairTo(histogram, slots, a, b)

\* Slots are disjoint sets of consecutive CPUs of one node, within the budget,
\* and each has the size that its tasks ask for.
SlotsDisjoint ==
    Succeeded("plan_task_slots") =>
        LET placed == call.result.value
            nodes == SelectedNodes(call.args.total, call.args.nodes)
        IN  /\ \A j, k \in DOMAIN placed :
                   j # k => Range(placed[j]) \cap Range(placed[k]) = {}
            /\ \A k \in DOMAIN placed :
                   /\ Consecutive(placed[k])
                   /\ \E n \in DOMAIN nodes : Range(placed[k]) \subseteq Range(nodes[n])
                   /\ Len(placed[k]) \in Classes(call.args.histogram)
            /\ Cardinality(CpusOf(nodes)) = call.args.total

\* What is rendered for Docker is read back as the same CPUs.
CpusetRoundTrip ==
    Called("cpuset_str") => parse_cpulist(call.result) = call.args

\* The declared demand covers every way to fill the slots with tasks at once.
DemandCoversAnyMix ==
    Succeeded("declared_memory_demand_mb") =>
        LET slots == call.args.slots
            fit(k) == {t \in call.args.tasks : t.size = slots[k]}
        IN  \A mix \in [DOMAIN slots -> call.args.tasks] :
                (\A k \in DOMAIN slots : mix[k] \in fit(k)) =>
                    Total([k \in DOMAIN slots |-> mix[k].memory], DOMAIN slots)
                        <= call.result.value

\* The CPU sets of admitted pinned slots fit in the affinity mask at once, and the
\* admitted workers' ports are as many as they are, free and valid.
AdmittedFits ==
    Succeeded("admit_stream_capacity") =>
        LET a == call.args
            ports == call.result.value
        IN  /\ a.pinned => Total(a.slots, DOMAIN a.slots) <= a.host.affinity
            /\ Cardinality(ports) = Len(a.slots)
            /\ ports \subseteq 1 .. MaxPort /\ ports \cap a.host.taken = {}

\* Without pinning, no worker starts for which the queue of its size holds no
\* item.  (Pinned slots can outnumber the items of the smallest size.)
EverySlotHasWork ==
    Called("repeats") =>
        \A size \in DOMAIN call.args.slots :
            call.result * call.args.histogram[size] >= call.args.slots[size]

\* A probe network is left behind only when the error says so, or when Docker
\* made one after its client had given up.
NoProbeLeft ==
    Called("network_probe") =>
        \A k \in call.result.left :
            \/ call.result.error = "cleanup"
            \/ call.args[k].create = "late"
            \/ call.args[k].remove # "ok" /\ call.result.error = "capacity"

\* A worker's cleanup lists no container of another stream of its invocation.
\* (Of another invocation it does when that one's base id extends its own.)
CleanupScoped ==
    Called("list_scoped") =>
        \/ ~call.result
        \/ call.args.stream[1] = call.args.stream[2]
        \/ call.args.base[1] # call.args.base[2]
===============================================================================
