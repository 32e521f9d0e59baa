----------------------------- MODULE AdapterProofs -----------------------------
(***************************************************************************)
(* Proofs about the adapters of AdapterRuns, each with an inductive        *)
(* invariant of its own as they share no variable, and about the functions *)
(* that say what tasks the adapters have and what of a task counts.        *)
(***************************************************************************)
EXTENDS AdapterRuns, CommandPhases, FiniteSetTheorems, SequenceTheorems, WellFoundedInduction,
        TLAPS

-------------------------------------------------------------------------------
(* Six phases.                                                             *)

PhaseName == {"reason", "retrieve", "act", "admit", "context", "commit"}
PoolSteps == {"wantPool", "buildPool", "get", "decode"}
IndexSteps == {"wantIndex", "buildIndex", "publish", "search"}
PhaseStep == {"idle", "begin"} \cup PoolSteps \cup IndexSteps
Loop == [loop : 0 .. LoopCount, phase : 1 .. 7, at : PhaseStep, failed : SUBSET PhaseName,
         ran : Seq(PhaseName)]
LoopResult == [loop : 0 .. LoopCount, passed : BOOLEAN, ran : {PHASES}]

\* A loop has measured the phases before the one it is at, which fits its step.
LoopOK(l) ==
    /\ l.at \in PoolSteps => l.phase = 1
    /\ l.at \in IndexSteps => l.phase = 2
    /\ Len(l.ran) = l.phase - 1
    /\ \A k \in 1 .. l.phase - 1 : l.ran[k] = PHASES[k]

LoopsInv == /\ loops \in [PhaseWorkers -> Loop]
            /\ \A w \in PhaseWorkers : LoopOK(loops[w])

\* Whoever builds holds the lock.
LocksInv ==
    /\ {poolLock, retrieveLock} \subseteq PhaseWorkers \cup {"free"}
    /\ \A w \in PhaseWorkers :
           /\ loops[w].at = "buildPool" <=> poolLock = w
           /\ loops[w].at \in {"buildIndex", "publish"} <=> retrieveLock = w

\* Nobody has a replica before the pool is built, and it is built when there is none.
PoolInv ==
    /\ pool \in [is : {"none", "absent", "built"}, free : 0 .. PoolSize]
    /\ built \in [pool : Nat, index : Nat] /\ built.pool = Built(pool.is)
    /\ IsFiniteSet(Holders)
    /\ IF pool.is = "built" THEN pool.free + Cardinality(Holders) = PoolSize
       ELSE \A w \in PhaseWorkers : loops[w].at \notin {"get", "decode"}
    /\ \A w \in PhaseWorkers : loops[w].at = "buildPool" => pool.is = "none"

\* Between the index and its metadata somebody is about to publish them.
IndexInv ==
    /\ index \in BOOLEAN /\ meta \in BOOLEAN /\ (meta => index)
    /\ built.index = IF index THEN 1 ELSE 0
    /\ \A w \in PhaseWorkers : /\ loops[w].at = "buildIndex" => ~index
                               /\ loops[w].at = "publish" => index
    /\ index /\ ~meta => \E w \in PhaseWorkers : loops[w].at = "publish"

\* Nothing runs before the warm-up is over.
WarmupInv ==
    /\ warmup \in {"todo", "whole", "cut"}
    /\ warmup = "todo" => /\ \A w \in PhaseWorkers : loops[w].at = "idle"
                          /\ pool.is = "none" /\ ~index /\ ~meta /\ noMeta = {}
    /\ warmup = "whole" => meta /\ noMeta = {}

LoopResultsInv == loopsLeft \in 0 .. LoopCount /\ loopResults \in Seq(LoopResult)

PhaseInv == /\ LoopsInv /\ LocksInv /\ PoolInv /\ IndexInv /\ WarmupInv /\ LoopResultsInv

-------------------------------------------------------------------------------
(* The vLLM server.                                                        *)

Server == [is : {"up", "ended", "removed"}, speculative : BOOLEAN]
TaskKind == {"plain", "speculative"}
ServerResult == [task : TaskKind, passed : BOOLEAN, good : Nat, by : Nat, started : BOOLEAN]

ServersInv ==
    /\ srv \in [mode : ServerModes, todo : Seq(TaskKind), handle : Int, started : BOOLEAN,
                pc : {"task", "wait", "requests", "stop", "rm", "ended"}]
    /\ servers \in Seq(Server)
    /\ srv.handle \in {NoHandle, EmptyId} \cup DOMAIN servers
    /\ unowned \subseteq DOMAIN servers
    /\ \A s, t \in Up : s = t
    /\ teardown \in [raised : BOOLEAN, refused : SUBSET {"stop", "rm"}]

\* The adapter is at a task, waits with a handle, and removes what it has.
ServerStepInv ==
    /\ srv.pc \in {"task", "wait", "requests"} => srv.todo # <<>>
    /\ srv.pc = "wait" => srv.mode = "remote" \/ srv.handle # NoHandle
    /\ srv.pc = "rm" => srv.handle \in DOMAIN servers

\* Until the teardown ends, the adapter has the handle of every server it was told of.
OwnsInv ==
    /\ srv.pc # "ended" => Exist \ unowned \subseteq {srv.handle}
    /\ srv.pc = "rm" => Up \ unowned = {} \/ "stop" \in teardown.refused
    /\ NoServerLeft

\* The server of the task that started it has the task's flags.
StarterInv ==
    srv.started =>
        /\ srv.pc \in {"wait", "requests"}
        /\ srv.handle \in DOMAIN servers =>
               servers[srv.handle].speculative = (Asked = "speculative")

MeasuredInv ==
    /\ serverResults \in Seq(ServerResult)
    /\ \A k \in DOMAIN serverResults : serverResults[k].by \in {Nobody} \cup DOMAIN servers
    /\ StarterIsMeasured

ServerInv == ServersInv /\ ServerStepInv /\ OwnsInv /\ StarterInv /\ MeasuredInv

-------------------------------------------------------------------------------
(* SWE-bench.                                                              *)

SweStep == {"start", "env", "agent", "finally", "write", "cleanup", "result", "done"}
SweEnd == SweEndings \cup {Unfinished}
Patches == UNION {[S -> {"long", "short"}] : S \in SUBSET Instances}
SweThread == [pc : SweStep, todo : Seq(Instances), calls : 0 .. MaxSweCalls, env : BOOLEAN,
              end : SweEnd, read : Patches]
Told(f) == {f[k] : k \in DOMAIN f}

ThreadsInv ==
    /\ swe \in [SweThreads -> SweThread]
    /\ \A t \in SweThreads : swe[t].todo = <<>> <=> swe[t].pc = "done"
    /\ \A t, u \in SweThreads : t # u => Told(swe[t].todo) \cap Told(swe[u].todo) = {}

PredsInv ==
    /\ preds \in [torn : BOOLEAN, of : Patches]
    /\ preds.torn => preds.of = <<>>
    /\ predsLock \in SweThreads \cup {"free"}
    /\ \A t \in SweThreads : /\ SweAt(t, "write") <=> predsLock = t
                             /\ SweAt(t, "write") => swe[t].read = preds.of

\* The recorder has the calls of the attempt.
LatenciesInv ==
    /\ DOMAIN sweData \subseteq Instances
    /\ \A t \in SweThreads :
           /\ swe[t].pc \in {"start", "env"} => swe[t].calls = 0
           /\ swe[t].pc \notin {"start", "done"} =>
                  /\ Instance(t) \in DOMAIN sweData
                  /\ sweData[Instance(t)] = swe[t].calls
    /\ LatenciesOfAttempt

\* No other patch than a long one is there for an instance that passed, or will.
NotShort(i) == i \in DOMAIN preds.of => preds.of[i] = "long"
PredictedInv ==
    /\ \A t \in SweThreads :
           swe[t].pc \in {"cleanup", "result"} /\ SwePassed(swe[t].end) => NotShort(Instance(t))
    /\ \A i \in DOMAIN sweResults :
           sweResults[i].passed /\ (\A t \in SweThreads : ~TurnOf(t, i)) => NotShort(i)

ContainersInv ==
    \A c \in sweContainers \ spilled :
        \E t \in SweThreads :
            /\ swe[t].pc \in {"agent", "finally", "write", "cleanup"}
            /\ c = Container(t) /\ swe[t].env

SweInv == ThreadsInv /\ PredsInv /\ LatenciesInv /\ PredictedInv /\ ContainersInv

-------------------------------------------------------------------------------
(* Six phases: the proof.                                                  *)

LEMMA Phases == /\ PHASES \in Seq(PhaseName) /\ PhaseCount = 6
                /\ \A k \in 1 .. 6 : PHASES[k] \in PhaseName
<1>1. PHASES \in Seq(PhaseName) /\ Len(PHASES) = 6
  BY DEF PHASES, PhaseName
<1>2. ASSUME NEW k \in 1 .. 6
      PROVE  PHASES[k] \in PhaseName
  <2>1. k = 1 \/ k = 2 \/ k = 3 \/ k = 4 \/ k = 5 \/ k = 6
    OBVIOUS
  <2>2. QED
    BY <2>1 DEF PHASES, PhaseName
<1>3. QED
  BY <1>1, <1>2 DEF PhaseCount

\* A loop whose step and phase fit.
LEMMA LoopFits ==
    ASSUME NEW l \in Loop, NEW m, NEW step \in PhaseStep, LoopOK(l),
           m = [l EXCEPT !.at = step],
           step \in PoolSteps => l.phase = 1, step \in IndexSteps => l.phase = 2
    PROVE  m \in Loop /\ LoopOK(m) /\ m.at = step
<1>1. /\ m.loop = l.loop /\ m.phase = l.phase /\ m.at = step
      /\ m.failed = l.failed /\ m.ran = l.ran
  BY DEF Loop
<1>2. m \in Loop
  BY DEF Loop
<1>3. LoopOK(m)
  BY <1>1 DEF LoopOK
<1>4. QED
  BY <1>1, <1>2, <1>3

\* The worker goes to a step of its phase.
LEMMA Goes ==
    ASSUME LoopsInv, NEW w \in PhaseWorkers, NEW step \in PhaseStep, PhaseGoes(w, step),
           step \in PoolSteps => loops[w].phase = 1, step \in IndexSteps => loops[w].phase = 2
    PROVE  /\ LoopsInv' /\ loops'[w].at = step
           /\ \A v \in PhaseWorkers : v # w => loops'[v] = loops[v]
<1>1. /\ loops' = [loops EXCEPT ![w].at = step]
      /\ loops'[w] = [loops[w] EXCEPT !.at = step]
      /\ \A v \in PhaseWorkers : v # w => loops'[v] = loops[v]
      /\ DOMAIN loops' = PhaseWorkers
      /\ loops' = [v \in PhaseWorkers |-> loops'[v]]
  BY DEF PhaseGoes, LoopsInv
<1>2. loops'[w] \in Loop /\ LoopOK(loops'[w]) /\ loops'[w].at = step
  BY <1>1, LoopFits DEF LoopsInv
<1>3. \A v \in PhaseWorkers : loops'[v] \in Loop /\ LoopOK(loops'[v])
  BY <1>1, <1>2 DEF LoopsInv
<1>4. loops' \in [PhaseWorkers -> Loop]
  BY <1>1, <1>3
<1>5. QED
  BY <1>1, <1>2, <1>3, <1>4 DEF LoopsInv

\* A loop that has ended a phase.
LEMMA LoopGoesOn ==
    ASSUME NEW l \in Loop, NEW m, NEW failed \in SUBSET PhaseName, LoopOK(l), l.phase \in 1 .. 6,
           m = [l EXCEPT !.phase = @ + 1, !.at = "begin", !.failed = @ \cup failed,
                         !.ran = Append(@, PHASES[l.phase])]
    PROVE  m \in Loop /\ LoopOK(m) /\ m.at = "begin"
<1>1. /\ m.loop = l.loop /\ m.phase = l.phase + 1 /\ m.at = "begin"
      /\ m.failed = l.failed \cup failed /\ m.ran = Append(l.ran, PHASES[l.phase])
      /\ m = [loop |-> m.loop, phase |-> m.phase, at |-> m.at, failed |-> m.failed,
              ran |-> m.ran]
  BY DEF Loop
<1>2. /\ l.loop \in 0 .. LoopCount /\ l.failed \in SUBSET PhaseName /\ l.ran \in Seq(PhaseName)
      /\ Len(l.ran) = l.phase - 1 /\ PHASES[l.phase] \in PhaseName
      /\ \A k \in 1 .. l.phase - 1 : l.ran[k] = PHASES[k]
  BY Phases DEF Loop, LoopOK
<1>3. /\ m.ran \in Seq(PhaseName) /\ Len(m.ran) = m.phase - 1
      /\ \A k \in 1 .. m.phase - 1 : m.ran[k] = PHASES[k]
  BY <1>1, <1>2, AppendProperties
<1>4. m \in Loop
  <2>1. /\ m.loop \in 0 .. LoopCount /\ m.phase \in 1 .. 7 /\ m.at \in PhaseStep
        /\ m.failed \in SUBSET PhaseName
    BY <1>1, <1>2 DEF PhaseStep
  <2>2. QED
    BY <1>1, <1>3, <2>1 DEF Loop
<1>5. QED
  BY <1>1, <1>3, <1>4 DEF LoopOK, PoolSteps, IndexSteps

\* The worker ends its phase.
LEMMA Ends ==
    ASSUME LoopsInv, NEW w \in PhaseWorkers, NEW failed \in SUBSET PhaseName,
           EndPhase(w, failed), loops[w].phase \in 1 .. 6
    PROVE  /\ LoopsInv' /\ loops'[w].at = "begin"
           /\ \A v \in PhaseWorkers : v # w => loops'[v] = loops[v]
<1>1. /\ loops'[w] = [loops[w] EXCEPT !.phase = @ + 1, !.at = "begin", !.failed = @ \cup failed,
                                      !.ran = Append(@, PHASES[loops[w].phase])]
      /\ \A v \in PhaseWorkers : v # w => loops'[v] = loops[v]
      /\ DOMAIN loops' = PhaseWorkers
      /\ loops' = [v \in PhaseWorkers |-> loops'[v]]
  <2> DEFINE m == [loops[w] EXCEPT
                       !.phase = @ + 1, !.at = "begin", !.failed = @ \cup failed,
                       !.ran = Append(@, PHASES[loops[w].phase])]
  <2>1. loops' = [loops EXCEPT ![w] = m]
    BY DEF EndPhase, Phase
  <2> HIDE DEF m
  <2>2. QED
    <3>1. loops'[w] = m
      BY <2>1 DEF LoopsInv
    <3>2. QED
      BY <2>1, <3>1 DEF LoopsInv, m
<1>2. loops'[w] \in Loop /\ LoopOK(loops'[w]) /\ loops'[w].at = "begin"
  BY <1>1, LoopGoesOn DEF LoopsInv
<1>3. \A v \in PhaseWorkers : loops'[v] \in Loop /\ LoopOK(loops'[v])
  BY <1>1, <1>2 DEF LoopsInv
<1>4. loops' \in [PhaseWorkers -> Loop]
  BY <1>1, <1>3
<1>5. QED
  BY <1>1, <1>2, <1>3, <1>4 DEF LoopsInv

\* What a step of a worker does to the loops.
WorkerIs(w) ==
    /\ LoopsInv'
    /\ \A v \in PhaseWorkers : v # w => loops'[v] = loops[v]

LEMMA LookIs ==
    ASSUME PhaseInv, NEW w \in PhaseWorkers, LookForPool(w) \/ LookAgain(w)
    PROVE  /\ WorkerIs(w) /\ loops'[w].at \in {"begin", "wantPool", "buildPool", "get"}
           /\ loops'[w].at = "get" => pool.is = "built"
           /\ loops'[w].at = "buildPool" <=> LookAgain(w) /\ pool.is = "none"
<1> USE DEF PhaseInv
<1>1. PhaseAt(w, "begin") \/ PhaseAt(w, "wantPool")
  BY DEF LookForPool, LookAgain
<1>2. loops[w].phase = 1
  BY DEF LookForPool, LookAgain, PhaseAt, LoopsInv, LoopOK, PoolSteps
<1>3. CASE WithPool(w) /\ pool.is # "none" 
  <2>1. CASE pool.is = "absent"
    BY <1>2, <1>3, <2>1, Ends DEF WithPool, WorkerIs
  <2>2. CASE pool.is # "absent"
    <3>1. pool.is = "built" /\ PhaseGoes(w, "get")
      BY <1>3, <2>2 DEF WithPool, PoolInv
    <3>2. QED
      BY <1>2, <1>3, <3>1, Goes DEF WorkerIs, PhaseStep, PoolSteps, IndexSteps
  <2>3. QED
    BY <2>1, <2>2
<1>4. CASE LookForPool(w) /\ pool.is = "none"
  <2>1. PhaseGoes(w, "wantPool")
    BY <1>4 DEF LookForPool
  <2>2. ~LookAgain(w)
    BY <1>4 DEF LookForPool, LookAgain, PhaseAt
  <2>3. QED
    BY <1>2, <1>4, <2>1, <2>2, Goes DEF WorkerIs, PhaseStep, PoolSteps, IndexSteps
<1>5. CASE LookAgain(w) /\ pool.is = "none"
  <2>1. PhaseGoes(w, "buildPool")
    BY <1>5 DEF LookAgain
  <2>2. QED
    BY <1>2, <1>5, <2>1, Goes DEF WorkerIs, PhaseStep, PoolSteps, IndexSteps
<1>6. QED
  BY <1>3, <1>4, <1>5 DEF LookForPool, LookAgain

\* What a step leaves alone.
LEMMA LocksStay ==
    ASSUME LocksInv, NEW w \in PhaseWorkers, WorkerIs(w),
           poolLock' = poolLock, retrieveLock' = retrieveLock,
           loops[w].at \notin {"buildPool", "buildIndex", "publish"},
           loops'[w].at \notin {"buildPool", "buildIndex", "publish"}
    PROVE  LocksInv'
<1>1. {poolLock, retrieveLock}' \subseteq PhaseWorkers \cup {"free"}
  BY DEF LocksInv
<1>2. ASSUME NEW v \in PhaseWorkers
      PROVE  /\ loops'[v].at = "buildPool" <=> poolLock' = v
             /\ loops'[v].at \in {"buildIndex", "publish"} <=> retrieveLock' = v
  <2>1. CASE v = w
    BY <2>1 DEF LocksInv
  <2>2. CASE v # w
    BY <2>2 DEF LocksInv, WorkerIs
  <2>3. QED
    BY <2>1, <2>2
<1>3. QED
  BY <1>1, <1>2 DEF LocksInv

LEMMA PoolStays ==
    ASSUME PoolInv, NEW w \in PhaseWorkers, WorkerIs(w), pool' = pool,
           built' \in [pool : Nat, index : Nat], built'.pool = built.pool,
           loops[w].at # "decode", loops'[w].at # "decode",
           loops'[w].at = "get" => pool.is = "built",
           loops'[w].at = "buildPool" => pool.is = "none"
    PROVE  PoolInv'
<1>1. Holders' = Holders
  BY DEF Holders, PhaseAt, WorkerIs
<1>2. \A v \in PhaseWorkers : /\ loops'[v].at = "buildPool" => pool'.is = "none"
                              /\ loops'[v].at = "get" => pool'.is = "built"
                              /\ loops'[v].at = "decode" => loops[v].at = "decode"
  BY DEF PoolInv, WorkerIs
<1>3. QED
  BY <1>1, <1>2 DEF PoolInv, Built

LEMMA IndexStays ==
    ASSUME IndexInv, NEW w \in PhaseWorkers, WorkerIs(w), index' = index, meta' = meta,
           built'.index = built.index, loops[w].at # "publish", loops'[w].at # "publish",
           loops'[w].at = "buildIndex" => ~index
    PROVE  IndexInv'
<1>1. \A v \in PhaseWorkers : /\ loops'[v].at = "publish" <=> loops[v].at = "publish"
                              /\ loops'[v].at = "buildIndex" => ~index
  BY DEF IndexInv, WorkerIs
<1>2. QED
  BY <1>1 DEF IndexInv

LEMMA WarmupStays ==
    ASSUME WarmupInv, NEW w \in PhaseWorkers, loops[w].at # "idle" \/ warmup # "todo",
           warmup' = warmup, warmup = "whole" => meta' /\ noMeta' = {}
    PROVE  WarmupInv'
BY DEF WarmupInv

LEMMA TakeLoopKeeps ==
    ASSUME PhaseInv, NEW w \in PhaseWorkers, TakeLoop(w)
    PROVE  PhaseInv'
<1> DEFINE l == [loop |-> LoopCount - loopsLeft + 1, phase |-> 1, at |-> "begin", failed |-> {},
                 ran |-> <<>>]
<1>1. /\ loops[w].at = "idle" /\ loops' = [loops EXCEPT ![w] = l] /\ warmup # "todo"
      /\ loopsLeft \in 1 .. LoopCount /\ loopsLeft' = loopsLeft - 1
      /\ UNCHANGED <<loopResults, pool, poolLock, retrieveLock, index, meta, warmup, noMeta,
                     built>>
  BY PhaseAssumption DEF TakeLoop, PhaseAt, PhaseInv, LoopResultsInv
<1>2. l \in Loop /\ LoopOK(l) /\ l.at = "begin"
  <2>1. LoopCount - loopsLeft + 1 \in 0 .. LoopCount
    BY <1>1, PhaseAssumption
  <2>2. QED
    BY <2>1 DEF Loop, LoopOK, PhaseStep, PoolSteps, IndexSteps
<1> HIDE DEF l
<1>3. WorkerIs(w) /\ loops'[w].at = "begin"
  <2>1. loops' \in [PhaseWorkers -> Loop] /\ loops'[w] = l
    BY <1>1, <1>2 DEF PhaseInv, LoopsInv
  <2>2. \A v \in PhaseWorkers : v # w => loops'[v] = loops[v]
    BY <1>1 DEF PhaseInv, LoopsInv
  <2>3. QED
    BY <1>2, <2>1, <2>2 DEF PhaseInv, LoopsInv, WorkerIs
<1>4. LocksInv'
  BY <1>1, <1>3, LocksStay DEF PhaseInv
<1>5. PoolInv'
  BY <1>1, <1>3, PoolStays DEF PhaseInv, PoolInv
<1>6. IndexInv'
  BY <1>1, <1>3, IndexStays DEF PhaseInv
<1>7. WarmupInv'
  BY <1>1, WarmupStays DEF PhaseInv, WarmupInv
<1>8. LoopResultsInv'
  BY <1>1, PhaseAssumption DEF PhaseInv, LoopResultsInv
<1>9. QED
  BY <1>3, <1>4, <1>5, <1>6, <1>7, <1>8 DEF PhaseInv, WorkerIs

LEMMA EndLoopKeeps ==
    ASSUME PhaseInv, NEW w \in PhaseWorkers, EndLoop(w)
    PROVE  PhaseInv'
<1>1. /\ loops[w].at = "begin" /\ loops[w].phase = 7 /\ PhaseGoes(w, "idle")
      /\ UNCHANGED <<loopsLeft, pool, poolLock, retrieveLock, index, meta, warmup, noMeta,
                     built>>
  BY Phases DEF EndLoop, PhaseAt
<1>2. WorkerIs(w) /\ loops'[w].at = "idle"
  BY <1>1, Goes DEF PhaseInv, WorkerIs, PhaseStep, PoolSteps, IndexSteps
<1>3. loops[w].ran = PHASES
  <2>1. /\ loops[w].ran \in Seq(PhaseName) /\ Len(loops[w].ran) = 6
        /\ \A k \in 1 .. 6 : loops[w].ran[k] = PHASES[k]
    <3>1. loops[w] \in Loop /\ LoopOK(loops[w])
      BY DEF PhaseInv, LoopsInv
    <3>2. loops[w].ran \in Seq(PhaseName)
      BY <3>1 DEF Loop
    <3>3. QED
      BY <1>1, <3>1, <3>2 DEF LoopOK
  <2>2. QED
    BY <2>1, Phases DEF PhaseCount
<1>4. LoopResultsInv'
  <2> DEFINE r == [loop |-> loops[w].loop, passed |-> loops[w].failed = {},
                   ran |-> loops[w].ran]
  <2>1. r \in LoopResult
    BY <1>3 DEF LoopResult, PhaseInv, LoopsInv, Loop
  <2>2. loopResults' = Append(loopResults, r)
    BY DEF EndLoop
  <2>3. QED
    BY <1>1, <2>1, <2>2 DEF PhaseInv, LoopResultsInv
<1>5. LocksInv'
  BY <1>1, <1>2, LocksStay DEF PhaseInv
<1>6. PoolInv'
  BY <1>1, <1>2, PoolStays DEF PhaseInv, PoolInv
<1>7. IndexInv'
  BY <1>1, <1>2, IndexStays DEF PhaseInv
<1>8. WarmupInv'
  BY <1>1, WarmupStays DEF PhaseInv, WarmupInv
<1>9. QED
  BY <1>2, <1>4, <1>5, <1>6, <1>7, <1>8 DEF PhaseInv, WorkerIs

LEMMA OwnPhaseKeeps ==
    ASSUME PhaseInv, NEW w \in PhaseWorkers, NEW fails \in BOOLEAN, OwnPhase(w, fails)
    PROVE  PhaseInv'
<1>1. /\ loops[w].at = "begin" /\ loops[w].phase \in 3 .. 6
      /\ UNCHANGED <<loopsLeft, loopResults, pool, poolLock, retrieveLock, index, meta, warmup,
                     noMeta, built>>
  BY Phases DEF OwnPhase, PhaseAt
<1>2. WorkerIs(w) /\ loops'[w].at = "begin"
  <2>1. Phase(w) \in PhaseName
    BY <1>1, Phases DEF Phase
  <2>2. \E failed \in SUBSET PhaseName : EndPhase(w, failed)
    BY <2>1 DEF OwnPhase
  <2>3. QED
    BY <1>1, <2>2, Ends DEF PhaseInv, WorkerIs
<1>3. LocksInv'
  BY <1>1, <1>2, LocksStay DEF PhaseInv
<1>4. PoolInv'
  BY <1>1, <1>2, PoolStays DEF PhaseInv, PoolInv
<1>5. IndexInv'
  BY <1>1, <1>2, IndexStays DEF PhaseInv
<1>6. WarmupInv'
  BY <1>1, WarmupStays DEF PhaseInv, WarmupInv
<1>7. QED
  BY <1>1, <1>2, <1>3, <1>4, <1>5, <1>6 DEF PhaseInv, WorkerIs, LoopResultsInv

LEMMA LookKeeps ==
    ASSUME PhaseInv, NEW w \in PhaseWorkers, LookForPool(w) \/ LookAgain(w)
    PROVE  PhaseInv'
<1>1. /\ loops[w].at \in {"begin", "wantPool"}
      /\ UNCHANGED <<loopsLeft, loopResults, pool, retrieveLock, index, meta, warmup,
                     noMeta, built>>
  BY DEF LookForPool, LookAgain, PhaseAt
<1>2. WorkerIs(w) /\ loops'[w].at \in {"begin", "wantPool", "buildPool", "get"}
  BY LookIs
<1>3. LocksInv'
  <2>1. CASE loops'[w].at = "buildPool"
    <3>1. LookAgain(w) /\ pool.is = "none" /\ poolLock = "free" /\ poolLock' = w
      BY <2>1, LookIs DEF LookAgain
    <3>2. \A v \in PhaseWorkers : loops[v].at # "buildPool"
      BY <3>1, PhaseAssumption DEF PhaseInv, LocksInv
    <3>3. ASSUME NEW v \in PhaseWorkers
          PROVE  /\ loops'[v].at = "buildPool" <=> poolLock' = v
                 /\ loops'[v].at \in {"buildIndex", "publish"} <=> retrieveLock' = v
      <4>1. CASE v = w
        BY <1>1, <2>1, <3>1, <4>1 DEF PhaseInv, LocksInv
      <4>2. CASE v # w
        BY <1>1, <1>2, <3>1, <3>2, <4>2 DEF PhaseInv, LocksInv, WorkerIs
      <4>3. QED
        BY <4>1, <4>2
    <3>4. QED
      BY <1>1, <3>1, <3>3 DEF PhaseInv, LocksInv
  <2>2. CASE loops'[w].at # "buildPool"
    <3>1. poolLock' = poolLock
      BY <2>2, LookIs DEF LookForPool, LookAgain
    <3>2. QED
      BY <1>1, <1>2, <2>2, <3>1, LocksStay DEF PhaseInv
  <2>3. QED
    BY <2>1, <2>2
<1>4. PoolInv'
  BY <1>1, <1>2, LookIs, PoolStays DEF PhaseInv, PoolInv
<1>5. IndexInv'
  BY <1>1, <1>2, IndexStays DEF PhaseInv
<1>6. WarmupInv'
  BY <1>1, WarmupStays DEF PhaseInv, WarmupInv
<1>7. QED
  BY <1>1, <1>2, <1>3, <1>4, <1>5, <1>6 DEF PhaseInv, WorkerIs, LoopResultsInv

LEMMA BuildPoolKeeps ==
    ASSUME PhaseInv, NEW w \in PhaseWorkers, NEW is \in {"absent", "built"}, BuildPool(w, is)
    PROVE  PhaseInv'
<1>1. /\ loops[w].at = "buildPool" /\ loops[w].phase = 1 /\ pool.is = "none"
      /\ pool' = NewPool(is) /\ poolLock' = "free" /\ poolLock = w
      /\ built' = [built EXCEPT !.pool = @ + Built(is)]
      /\ UNCHANGED <<loopsLeft, loopResults, retrieveLock, index, meta, warmup, noMeta>>
  BY DEF BuildPool, PhaseAt, PhaseInv, LoopsInv, LoopOK, PoolSteps, PoolInv, LocksInv
<1>2. WorkerIs(w) /\ loops'[w].at \in {"begin", "get"} /\ (loops'[w].at = "get" => is = "built")
  <2>1. CASE is = "absent"
    BY <1>1, <2>1, Ends DEF BuildPool, PhaseInv, WorkerIs
  <2>2. CASE is = "built"
    <3>1. PhaseGoes(w, "get")
      BY <2>2 DEF BuildPool
    <3>2. QED
      BY <1>1, <2>2, <3>1, Goes DEF PhaseInv, WorkerIs, PhaseStep, PoolSteps, IndexSteps
  <2>3. QED
    BY <2>1, <2>2
<1>3. LocksInv'
  <2>1. \A v \in PhaseWorkers : loops'[v].at # "buildPool"
    BY <1>1, <1>2 DEF PhaseInv, LocksInv, WorkerIs
  <2>2. \A v \in PhaseWorkers : loops'[v].at \in {"buildIndex", "publish"} <=>
                                loops[v].at \in {"buildIndex", "publish"}
    BY <1>1, <1>2 DEF WorkerIs
  <2>3. QED
    BY <1>1, <2>1, <2>2, PhaseAssumption DEF PhaseInv, LocksInv
<1>4. PoolInv'
  <2>1. \A v \in PhaseWorkers : loops'[v].at \notin {"decode", "buildPool"} 
    BY <1>1, <1>2 DEF PhaseInv, LocksInv, PoolInv, WorkerIs
  <2>2. Holders' = {}
    BY <2>1 DEF Holders, PhaseAt
  <2>3. \A v \in PhaseWorkers : loops'[v].at = "get" => is = "built"
    BY <1>1, <1>2 DEF PhaseInv, PoolInv, WorkerIs
  <2>4. /\ IsFiniteSet(Holders') /\ Cardinality(Holders') = 0
    BY <2>2, FS_EmptySet
  <2>5. /\ pool'.is = is /\ pool'.free = IF is = "built" THEN PoolSize ELSE 0
        /\ pool' \in [is : {"none", "absent", "built"}, free : 0 .. PoolSize]
    BY <1>1, PhaseAssumption DEF NewPool
  <2>6. built' \in [pool : Nat, index : Nat] /\ built'.pool = Built(is)
    BY <1>1 DEF PhaseInv, PoolInv, Built
  <2>7. QED
    BY <2>1, <2>3, <2>4, <2>5, <2>6, PhaseAssumption DEF PoolInv
<1>5. IndexInv'
  <2>1. built'.index = built.index
    BY <1>1 DEF PhaseInv, PoolInv
  <2>2. QED
    BY <1>1, <1>2, <2>1, IndexStays DEF PhaseInv
<1>6. WarmupInv'
  BY <1>1, WarmupStays DEF PhaseInv, WarmupInv
<1>7. QED
  BY <1>1, <1>2, <1>3, <1>4, <1>5, <1>6 DEF PhaseInv, WorkerIs, LoopResultsInv

LEMMA GetReplicaKeeps ==
    ASSUME PhaseInv, NEW w \in PhaseWorkers, GetReplica(w)
    PROVE  PhaseInv'
<1>1. /\ loops[w].at = "get" /\ loops[w].phase = 1 /\ PhaseGoes(w, "decode")
      /\ pool.is = "built" /\ pool.free > 0 /\ pool' = [pool EXCEPT !.free = @ - 1]
      /\ UNCHANGED <<loopsLeft, loopResults, poolLock, retrieveLock, index, meta, warmup, noMeta,
                     built>>
  BY DEF GetReplica, PhaseAt, PhaseInv, LoopsInv, LoopOK, PoolSteps, PoolInv
<1>2. WorkerIs(w) /\ loops'[w].at = "decode"
  BY <1>1, Goes DEF PhaseInv, WorkerIs, PhaseStep, PoolSteps, IndexSteps
<1>3. PoolInv'
  <2>1. Holders' = Holders \cup {w} /\ w \notin Holders
    BY <1>1, <1>2 DEF Holders, PhaseAt, WorkerIs
  <2>2. /\ IsFiniteSet(Holders') /\ Cardinality(Holders') = Cardinality(Holders) + 1
        /\ Cardinality(Holders) \in Nat
    BY <2>1, FS_AddElement, FS_CardinalityType DEF PhaseInv, PoolInv
  <2>3. /\ pool'.is = "built" /\ pool'.free = pool.free - 1
        /\ pool' \in [is : {"none", "absent", "built"}, free : 0 .. PoolSize]
    BY <1>1, PhaseAssumption DEF PhaseInv, PoolInv
  <2>4. pool'.free + Cardinality(Holders') = PoolSize
    BY <1>1, <2>2, <2>3, PhaseAssumption DEF PhaseInv, PoolInv
  <2>5. \A v \in PhaseWorkers : loops'[v].at # "buildPool"
    BY <1>1, <1>2 DEF PhaseInv, PoolInv, WorkerIs
  <2>6. QED
    BY <1>1, <2>2, <2>3, <2>4, <2>5 DEF PhaseInv, PoolInv, Built
<1>4. LocksInv'
  BY <1>1, <1>2, LocksStay DEF PhaseInv
<1>5. IndexInv'
  BY <1>1, <1>2, IndexStays DEF PhaseInv
<1>6. WarmupInv'
  BY <1>1, WarmupStays DEF PhaseInv, WarmupInv
<1>7. QED
  BY <1>1, <1>2, <1>3, <1>4, <1>5, <1>6 DEF PhaseInv, WorkerIs, LoopResultsInv

LEMMA DecodeKeeps ==
    ASSUME PhaseInv, NEW w \in PhaseWorkers, NEW fails \in BOOLEAN, Decode(w, fails)
    PROVE  PhaseInv'
<1>1. /\ loops[w].at = "decode" /\ loops[w].phase = 1
      /\ pool.is = "built" /\ pool' = [pool EXCEPT !.free = @ + 1]
      /\ UNCHANGED <<loopsLeft, loopResults, poolLock, retrieveLock, index, meta, warmup, noMeta,
                     built>>
  BY DEF Decode, PhaseAt, PhaseInv, LoopsInv, LoopOK, PoolSteps, PoolInv
<1>2. WorkerIs(w) /\ loops'[w].at = "begin"
  <2>1. \E failed \in SUBSET PhaseName : EndPhase(w, failed)
    BY DEF Decode, PhaseName
  <2>2. QED
    BY <1>1, <2>1, Ends DEF PhaseInv, WorkerIs
<1>3. PoolInv'
  <2>1. Holders' = Holders \ {w} /\ w \in Holders
    BY <1>1, <1>2 DEF Holders, PhaseAt, WorkerIs
  <2>2. /\ IsFiniteSet(Holders') /\ Cardinality(Holders') = Cardinality(Holders) - 1
        /\ Cardinality(Holders') \in Nat /\ Cardinality(Holders) \in Nat
    BY <2>1, FS_RemoveElement, FS_CardinalityType DEF PhaseInv, PoolInv
  <2>3. pool'.is = "built" /\ pool'.free = pool.free + 1 /\ pool.free \in Nat
    BY <1>1, PhaseAssumption DEF PhaseInv, PoolInv
  <2>4. pool'.free + Cardinality(Holders') = PoolSize
    BY <1>1, <2>2, <2>3, PhaseAssumption DEF PhaseInv, PoolInv
  <2>5. pool' \in [is : {"none", "absent", "built"}, free : 0 .. PoolSize]
    <3>1. pool'.free \in 0 .. PoolSize
      BY <2>2, <2>3, <2>4, PhaseAssumption
    <3>2. QED
      BY <1>1, <2>3, <3>1 DEF PhaseInv, PoolInv
  <2>6. \A v \in PhaseWorkers : loops'[v].at # "buildPool"
    BY <1>1, <1>2 DEF PhaseInv, PoolInv, WorkerIs
  <2>7. QED
    BY <1>1, <2>2, <2>3, <2>4, <2>5, <2>6 DEF PhaseInv, PoolInv, Built
<1>4. LocksInv'
  BY <1>1, <1>2, LocksStay DEF PhaseInv
<1>5. IndexInv'
  BY <1>1, <1>2, IndexStays DEF PhaseInv
<1>6. WarmupInv'
  BY <1>1, WarmupStays DEF PhaseInv, WarmupInv
<1>7. QED
  BY <1>1, <1>2, <1>3, <1>4, <1>5, <1>6 DEF PhaseInv, WorkerIs, LoopResultsInv

LEMMA LookForIndexKeeps ==
    ASSUME PhaseInv, NEW w \in PhaseWorkers, LookForIndex(w) \/ LookInLock(w)
    PROVE  PhaseInv'
<1>1. /\ loops[w].at \in {"begin", "wantIndex"} /\ loops[w].phase = 2
      /\ UNCHANGED <<loopsLeft, loopResults, pool, poolLock, index, meta, warmup, noMeta, built>>
  BY DEF LookForIndex, LookInLock, PhaseAt, PhaseInv, LoopsInv, LoopOK, IndexSteps
<1>2. PICK step \in {"search", "wantIndex", "buildIndex"} :
          /\ PhaseGoes(w, step)
          /\ step = "buildIndex" => ~index /\ retrieveLock = "free" /\ retrieveLock' = w
          /\ step # "buildIndex" => retrieveLock' = retrieveLock
  BY DEF LookForIndex, LookInLock
<1>3. WorkerIs(w) /\ loops'[w].at = step
  BY <1>1, <1>2, Goes DEF PhaseInv, WorkerIs, PhaseStep, PoolSteps, IndexSteps
<1>4. LocksInv'
  <2>1. CASE step = "buildIndex"
    <3>1. \A v \in PhaseWorkers : loops[v].at \notin {"buildIndex", "publish"}
      BY <1>2, <2>1, PhaseAssumption DEF PhaseInv, LocksInv
    <3>2. ASSUME NEW v \in PhaseWorkers
          PROVE  /\ loops'[v].at = "buildPool" <=> poolLock' = v
                 /\ loops'[v].at \in {"buildIndex", "publish"} <=> retrieveLock' = v
      <4>1. CASE v = w
        BY <1>1, <1>2, <1>3, <2>1, <4>1 DEF PhaseInv, LocksInv
      <4>2. CASE v # w
        BY <1>1, <1>2, <1>3, <2>1, <3>1, <4>2 DEF PhaseInv, LocksInv, WorkerIs
      <4>3. QED
        BY <4>1, <4>2
    <3>3. QED
      BY <1>1, <1>2, <2>1, <3>2 DEF PhaseInv, LocksInv
  <2>2. CASE step # "buildIndex"
    BY <1>1, <1>2, <1>3, <2>2, LocksStay DEF PhaseInv
  <2>3. QED
    BY <2>1, <2>2
<1>5. PoolInv'
  BY <1>1, <1>3, PoolStays DEF PhaseInv, PoolInv
<1>6. IndexInv'
  BY <1>1, <1>2, <1>3, IndexStays DEF PhaseInv
<1>7. WarmupInv'
  BY <1>1, WarmupStays DEF PhaseInv, WarmupInv
<1>8. QED
  BY <1>1, <1>3, <1>4, <1>5, <1>6, <1>7 DEF PhaseInv, WorkerIs, LoopResultsInv

\* The lock goes back.
LEMMA RetrieveUnlocks ==
    ASSUME LocksInv, NEW w \in PhaseWorkers, WorkerIs(w),
           poolLock' = poolLock, retrieveLock = w, retrieveLock' = "free",
           loops[w].at # "buildPool",
           loops'[w].at \notin {"buildPool", "buildIndex", "publish"}
    PROVE  LocksInv'
<1>1. ASSUME NEW v \in PhaseWorkers
      PROVE  /\ loops'[v].at = "buildPool" <=> poolLock' = v
             /\ loops'[v].at \notin {"buildIndex", "publish"} /\ retrieveLock' # v
  <2>1. CASE v = w
    BY <2>1, PhaseAssumption DEF LocksInv
  <2>2. CASE v # w
    BY <2>2, PhaseAssumption DEF LocksInv, WorkerIs
  <2>3. QED
    BY <2>1, <2>2
<1>2. QED
  BY <1>1 DEF LocksInv

LEMMA BuildIndexKeeps ==
    ASSUME PhaseInv, NEW w \in PhaseWorkers, BuildIndex(w)
    PROVE  PhaseInv'
<1>1. /\ loops[w].at = "buildIndex" /\ loops[w].phase = 2 /\ PhaseGoes(w, "publish")
      /\ retrieveLock = w /\ ~index /\ index' = TRUE
      /\ built' = [built EXCEPT !.index = @ + 1]
      /\ UNCHANGED <<loopsLeft, loopResults, pool, poolLock, retrieveLock, meta, warmup, noMeta>>
  BY DEF BuildIndex, PhaseAt, PhaseInv, LoopsInv, LoopOK, IndexSteps, LocksInv, IndexInv
<1>2. WorkerIs(w) /\ loops'[w].at = "publish"
  BY <1>1, Goes DEF PhaseInv, WorkerIs, PhaseStep, PoolSteps, IndexSteps
<1>3. /\ built' \in [pool : Nat, index : Nat]
      /\ built'.pool = built.pool /\ built'.index = built.index + 1
  BY <1>1 DEF PhaseInv, PoolInv
<1>4. LocksInv'
  <2>1. ASSUME NEW v \in PhaseWorkers
        PROVE  /\ loops'[v].at = "buildPool" <=> loops[v].at = "buildPool"
               /\ loops'[v].at \in {"buildIndex", "publish"} <=>
                  loops[v].at \in {"buildIndex", "publish"}
    <3>1. CASE v = w
      BY <1>1, <1>2, <3>1
    <3>2. CASE v # w
      BY <1>2, <3>2 DEF WorkerIs
    <3>3. QED
      BY <3>1, <3>2
  <2>2. QED
    BY <1>1, <2>1 DEF PhaseInv, LocksInv
<1>5. PoolInv'
  BY <1>1, <1>2, <1>3, PoolStays DEF PhaseInv
<1>6. IndexInv'
  <2>1. \A v \in PhaseWorkers : loops'[v].at # "buildIndex"
    BY <1>1, <1>2 DEF PhaseInv, LocksInv, WorkerIs
  <2>2. QED
    BY <1>1, <1>2, <1>3, <2>1 DEF PhaseInv, IndexInv
<1>7. WarmupInv'
  BY <1>1, WarmupStays DEF PhaseInv, WarmupInv
<1>8. QED
  BY <1>1, <1>2, <1>4, <1>5, <1>6, <1>7 DEF PhaseInv, WorkerIs, LoopResultsInv

LEMMA BuildIndexFailsKeeps ==
    ASSUME PhaseInv, NEW w \in PhaseWorkers, BuildIndexFails(w)
    PROVE  PhaseInv'
<1>1. /\ loops[w].at = "buildIndex" /\ loops[w].phase = 2 /\ EndPhase(w, {"retrieve"})
      /\ retrieveLock = w /\ retrieveLock' = "free"
      /\ UNCHANGED <<loopsLeft, loopResults, pool, poolLock, index, meta, warmup, noMeta, built>>
  BY DEF BuildIndexFails, PhaseAt, PhaseInv, LoopsInv, LoopOK, IndexSteps, LocksInv
<1>2. WorkerIs(w) /\ loops'[w].at = "begin"
  BY <1>1, Ends DEF PhaseInv, WorkerIs, PhaseName
<1>3. LocksInv'
  BY <1>1, <1>2, RetrieveUnlocks DEF PhaseInv
<1>4. PoolInv'
  BY <1>1, <1>2, PoolStays DEF PhaseInv, PoolInv
<1>5. IndexInv'
  BY <1>1, <1>2, IndexStays DEF PhaseInv
<1>6. WarmupInv'
  BY <1>1, WarmupStays DEF PhaseInv, WarmupInv
<1>7. QED
  BY <1>1, <1>2, <1>3, <1>4, <1>5, <1>6 DEF PhaseInv, WorkerIs, LoopResultsInv

LEMMA PublishMetaKeeps ==
    ASSUME PhaseInv, NEW w \in PhaseWorkers, PublishMeta(w)
    PROVE  PhaseInv'
<1>1. /\ loops[w].at = "publish" /\ loops[w].phase = 2 /\ PhaseGoes(w, "search")
      /\ retrieveLock = w /\ retrieveLock' = "free" /\ index /\ meta' = TRUE
      /\ UNCHANGED <<loopsLeft, loopResults, pool, poolLock, index, warmup, noMeta, built>>
  BY DEF PublishMeta, PhaseAt, PhaseInv, LoopsInv, LoopOK, IndexSteps, LocksInv, IndexInv
<1>2. WorkerIs(w) /\ loops'[w].at = "search"
  BY <1>1, Goes DEF PhaseInv, WorkerIs, PhaseStep, PoolSteps, IndexSteps
<1>3. LocksInv'
  BY <1>1, <1>2, RetrieveUnlocks DEF PhaseInv
<1>4. PoolInv'
  BY <1>1, <1>2, PoolStays DEF PhaseInv, PoolInv
<1>5. IndexInv'
  BY <1>1, <1>2 DEF PhaseInv, IndexInv, WorkerIs
<1>6. WarmupInv'
  BY <1>1, WarmupStays DEF PhaseInv, WarmupInv
<1>7. QED
  BY <1>1, <1>2, <1>3, <1>4, <1>5, <1>6 DEF PhaseInv, WorkerIs, LoopResultsInv

LEMMA SearchKeeps ==
    ASSUME PhaseInv, NEW w \in PhaseWorkers, Search(w)
    PROVE  PhaseInv'
<1>1. /\ loops[w].at = "search" /\ loops[w].phase = 2
      /\ meta => noMeta' = noMeta
      /\ UNCHANGED <<loopsLeft, loopResults, pool, poolLock, retrieveLock, index, meta, warmup,
                     built>>
  BY DEF Search, PhaseAt, PhaseInv, LoopsInv, LoopOK, IndexSteps
<1>2. WorkerIs(w) /\ loops'[w].at = "begin"
  <2>1. \E failed \in SUBSET PhaseName : EndPhase(w, failed)
    BY DEF Search, PhaseName
  <2>2. QED
    BY <1>1, <2>1, Ends DEF PhaseInv, WorkerIs
<1>3. LocksInv'
  BY <1>1, <1>2, LocksStay DEF PhaseInv
<1>4. PoolInv'
  BY <1>1, <1>2, PoolStays DEF PhaseInv, PoolInv
<1>5. IndexInv'
  BY <1>1, <1>2, IndexStays DEF PhaseInv
<1>6. WarmupInv'
  BY <1>1, WarmupStays DEF PhaseInv, WarmupInv
<1>7. QED
  BY <1>1, <1>2, <1>3, <1>4, <1>5, <1>6 DEF PhaseInv, WorkerIs, LoopResultsInv

LEMMA WarmupKeeps ==
    ASSUME PhaseInv, Warmup \/ NoWarmup
    PROVE  PhaseInv'
<1>1. /\ warmup = "todo" /\ \A w \in PhaseWorkers : loops[w].at = "idle"
      /\ UNCHANGED <<loops, loopsLeft, loopResults, poolLock, retrieveLock, noMeta>>
      /\ pool.is = "none" /\ ~index /\ ~meta /\ noMeta = {}
  BY DEF Warmup, NoWarmup, PhaseInv, WarmupInv
<1>2. LoopsInv' /\ LocksInv' /\ LoopResultsInv'
  BY <1>1 DEF PhaseInv, LoopsInv, LocksInv, LoopResultsInv
<1>3. Holders' = {} /\ IsFiniteSet(Holders') /\ Cardinality(Holders') = 0
  BY <1>1, FS_EmptySet DEF Holders, PhaseAt
<1>4. CASE Warmup
  <2>1. PICK is \in {"absent", "built"}, reaches \in BOOLEAN, whole \in BOOLEAN :
            /\ whole => reaches
            /\ pool' = NewPool(is) /\ index' = reaches /\ meta' = reaches
            /\ built' = [pool |-> Built(is), index |-> IF reaches THEN 1 ELSE 0]
            /\ warmup' = IF whole THEN "whole" ELSE "cut"
    BY <1>4 DEF Warmup
  <2>2. PoolInv'
    <3>1. /\ pool'.is = is /\ pool'.free = IF is = "built" THEN PoolSize ELSE 0
          /\ pool' \in [is : {"none", "absent", "built"}, free : 0 .. PoolSize]
      BY <2>1, PhaseAssumption DEF NewPool
    <3>2. built' \in [pool : Nat, index : Nat] /\ built'.pool = Built(is)
      BY <2>1 DEF Built
    <3>3. QED
      BY <1>1, <1>3, <3>1, <3>2, PhaseAssumption DEF PoolInv
  <2>3. IndexInv'
    BY <1>1, <2>1 DEF IndexInv
  <2>4. WarmupInv'
    BY <1>1, <2>1 DEF WarmupInv
  <2>5. QED
    BY <1>2, <2>2, <2>3, <2>4 DEF PhaseInv
<1>5. CASE NoWarmup
  <2>1. warmup' = "cut" /\ UNCHANGED <<pool, built, index, meta>>
    BY <1>5 DEF NoWarmup
  <2>2. PoolInv'
    BY <1>1, <1>3, <2>1 DEF PhaseInv, PoolInv, Built
  <2>3. IndexInv' /\ WarmupInv'
    BY <1>1, <2>1 DEF PhaseInv, IndexInv, WarmupInv
  <2>4. QED
    BY <1>2, <2>2, <2>3 DEF PhaseInv
<1>6. QED
  BY <1>4, <1>5

LEMMA PhaseInvHolds == PhaseSpec => []PhaseInv
<1>1. PhaseInit => PhaseInv
  <2> SUFFICES ASSUME PhaseInit
               PROVE  PhaseInv
    OBVIOUS
  <2>1. LoopsInv
    <3> DEFINE l == [loop |-> 0, phase |-> 1, at |-> "idle", failed |-> {}, ran |-> <<>>]
    <3>1. l \in Loop /\ LoopOK(l)
      BY PhaseAssumption DEF Loop, LoopOK, PhaseStep, PoolSteps, IndexSteps
    <3>2. QED
      BY <3>1 DEF PhaseInit, LoopsInv
  <2>2. \A w \in PhaseWorkers : loops[w].at = "idle"
    BY DEF PhaseInit
  <2>3. LocksInv
    BY <2>2, PhaseAssumption DEF PhaseInit, LocksInv
  <2>4. PoolInv
    <3>1. IsFiniteSet(Holders)
      BY <2>2, FS_EmptySet DEF Holders, PhaseAt
    <3>2. QED
      BY <2>2, <3>1, PhaseAssumption DEF PhaseInit, PoolInv, Built
  <2>5. IndexInv /\ WarmupInv
    BY <2>2 DEF PhaseInit, IndexInv, WarmupInv
  <2>6. LoopResultsInv
    BY PhaseAssumption DEF PhaseInit, LoopResultsInv
  <2>7. QED
    BY <2>1, <2>3, <2>4, <2>5, <2>6 DEF PhaseInv
<1>2. PhaseInv /\ [PhaseNext]_phaseVars => PhaseInv'
  <2> SUFFICES ASSUME PhaseInv, [PhaseNext]_phaseVars
               PROVE  PhaseInv'
    OBVIOUS
  <2>1. CASE Warmup \/ NoWarmup
    BY <2>1, WarmupKeeps
  <2>2. ASSUME NEW w \in PhaseWorkers, PhaseWorkerStep(w)
        PROVE  PhaseInv'
    BY <2>2, TakeLoopKeeps, EndLoopKeeps, OwnPhaseKeeps, DecodeKeeps, LookKeeps, BuildPoolKeeps,
       GetReplicaKeeps, LookForIndexKeeps, BuildIndexKeeps, BuildIndexFailsKeeps,
       PublishMetaKeeps, SearchKeeps DEF PhaseWorkerStep
  <2>3. CASE UNCHANGED phaseVars
    <3>1. Holders' = Holders
      BY <2>3 DEF phaseVars, Holders, PhaseAt
    <3>2. PoolInv'
      BY <2>3, <3>1 DEF phaseVars, PhaseInv, PoolInv, Built
    <3>3. LoopsInv' /\ LocksInv' /\ IndexInv' /\ WarmupInv' /\ LoopResultsInv'
      BY <2>3 DEF phaseVars, PhaseInv, LoopsInv, LocksInv, IndexInv, WarmupInv, LoopResultsInv
    <3>4. QED
      BY <3>2, <3>3 DEF PhaseInv
  <2>4. QED
    BY <2>1, <2>2, <2>3 DEF PhaseNext
<1>3. QED
  BY <1>1, <1>2, PTL DEF PhaseSpec

PhasesKeep == /\ PhaseTypeOK /\ ReplicasConserved /\ BuiltOnce /\ IndexAloneIsLocked
              /\ WarmLoopsRetrieve /\ PhasesAllRun

LEMMA PhaseInvImplies == PhaseInv => PhasesKeep
<1> SUFFICES ASSUME PhaseInv
             PROVE  PhasesKeep
  OBVIOUS
<1>1. PhaseTypeOK
  <2>1. ASSUME NEW w \in PhaseWorkers
        PROVE  /\ loops[w].loop \in 0 .. LoopCount /\ loops[w].phase \in 1 .. PhaseCount + 1
               /\ loops[w].at \in {"idle", "begin", "wantPool", "buildPool", "get", "decode",
                                   "wantIndex", "buildIndex", "publish", "search"}
    <3>1. loops[w] \in Loop
      BY DEF PhaseInv, LoopsInv
    <3>2. QED
      BY <3>1, Phases DEF Loop, PhaseStep, PoolSteps, IndexSteps
  <2>2. pool.is \in {"none", "absent", "built"} /\ pool.free \in 0 .. PoolSize
    BY DEF PhaseInv, PoolInv
  <2>3. QED
    BY <2>1, <2>2 DEF PhaseInv, LocksInv, LoopResultsInv, PhaseTypeOK, PhaseAt
<1>2. ReplicasConserved /\ BuiltOnce
  BY DEF PhaseInv, PoolInv, IndexInv, Built, ReplicasConserved, BuiltOnce
<1>3. IndexAloneIsLocked
  BY PhaseAssumption DEF PhaseInv, IndexInv, LocksInv, IndexAloneIsLocked
<1>4. WarmLoopsRetrieve
  BY DEF PhaseInv, WarmupInv, WarmLoopsRetrieve
<1>5. PhasesAllRun
  <2>1. \A k \in DOMAIN loopResults : loopResults[k] \in LoopResult
    BY DEF PhaseInv, LoopResultsInv
  <2>2. QED
    BY <2>1 DEF LoopResult, PhasesAllRun
<1>6. QED
  BY <1>1, <1>2, <1>3, <1>4, <1>5 DEF PhasesKeep

-------------------------------------------------------------------------------
(* The vLLM server: the proof.                                             *)

\* A server that is made, and one that is found in another state.
LEMMA MadeIs ==
    ASSUME ServersInv, NEW is \in {"up", "ended", "removed"}, Made(is)
    PROVE  /\ servers' \in Seq(Server) /\ DOMAIN servers' = DOMAIN servers \cup {NewServer}
           /\ NewServer \in Nat \ {0} /\ NewServer \notin DOMAIN servers
           /\ \A s \in DOMAIN servers : servers'[s] = servers[s]
           /\ servers'[NewServer].is = is
           /\ servers'[NewServer].speculative = Speculative
<1> DEFINE s == [is |-> is, speculative |-> Speculative]
<1>1. s \in Server /\ s.is = is /\ s.speculative = Speculative
  BY DEF Server, Speculative
<1>2. servers \in Seq(Server) /\ servers' = Append(servers, s)
  BY DEF ServersInv, Made
<1> HIDE DEF s
<1>3. /\ servers' \in Seq(Server) /\ Len(servers') = Len(servers) + 1
      /\ \A k \in 1 .. Len(servers) : servers'[k] = servers[k]
      /\ servers'[Len(servers) + 1] = s
  BY <1>1, <1>2, AppendProperties
<1>4. /\ Len(servers) \in Nat /\ DOMAIN servers = 1 .. Len(servers)
      /\ DOMAIN servers' = 1 .. Len(servers) + 1
  BY <1>2, <1>3, LenProperties
<1>5. QED
  BY <1>1, <1>3, <1>4 DEF NewServer

LEMMA ServerIsIs ==
    ASSUME ServersInv, NEW s \in DOMAIN servers, NEW is \in {"up", "ended", "removed"},
           ServerIs(s, is)
    PROVE  /\ servers' \in Seq(Server) /\ DOMAIN servers' = DOMAIN servers
           /\ \A t \in DOMAIN servers : /\ t # s => servers'[t] = servers[t]
                                        /\ servers'[t].speculative = servers[t].speculative
           /\ servers'[s].is = is
<1>1. servers \in Seq(Server) /\ servers' = [servers EXCEPT ![s].is = is]
  BY DEF ServersInv, ServerIs
<1>2. /\ servers'[s] = [servers[s] EXCEPT !.is = is] /\ DOMAIN servers' = DOMAIN servers
      /\ \A t \in DOMAIN servers : t # s => servers'[t] = servers[t]
  BY <1>1
<1>3. \A t \in DOMAIN servers : servers[t] \in Server
  BY <1>1
<1>4. /\ servers'[s] \in Server /\ servers'[s].is = is
      /\ servers'[s].speculative = servers[s].speculative
  BY <1>2, <1>3 DEF Server
<1>5. servers' \in Seq(Server)
  <2>1. DOMAIN servers = 1 .. Len(servers) /\ Len(servers) \in Nat
    BY <1>1, LenProperties
  <2>2. servers' \in [1 .. Len(servers) -> Server]
    BY <1>1, <1>2, <1>3, <1>4, <2>1
  <2>3. QED
    BY <2>1, <2>2, SeqDef
<1>6. QED
  BY <1>2, <1>4, <1>5

\* What is left after a result.
LEMMA ResultIs ==
    ASSUME ServersInv, MeasuredInv, srv.todo # <<>>, NEW passed \in BOOLEAN, NEW good \in Nat,
           NEW by \in {Nobody} \cup DOMAIN servers, Result(passed, good, by)
    PROVE  /\ serverResults' \in Seq(ServerResult)
           /\ \A k \in DOMAIN serverResults' :
                 \/ k \in DOMAIN serverResults /\ serverResults'[k] = serverResults[k]
                 \/ /\ serverResults'[k].task = Asked /\ serverResults'[k].by = by
                    /\ serverResults'[k].started = srv.started
           /\ srv'.mode = srv.mode /\ srv'.mode \in ServerModes /\ srv'.handle = srv.handle
           /\ srv' \in [mode : ServerModes, todo : Seq(TaskKind), handle : Int,
                        started : {FALSE}, pc : {"task", "stop"}]
           /\ srv'.pc = "task" => srv'.todo # <<>>
<1> DEFINE r == [task |-> Asked, passed |-> passed, good |-> good, by |-> by,
                 started |-> srv.started]
<1>1. /\ srv \in [mode : ServerModes, todo : Seq(TaskKind), handle : Int, started : BOOLEAN,
                  pc : {"task", "wait", "requests", "stop", "rm", "ended"}]
      /\ srv.todo \in Seq(TaskKind) /\ srv.started \in BOOLEAN /\ servers \in Seq(Server)
  BY DEF ServersInv
<1>2. Asked \in TaskKind /\ Tail(srv.todo) \in Seq(TaskKind)
  BY <1>1, HeadTailProperties DEF Asked
<1>3. r \in ServerResult
  <2>1. by \in Nat
    BY <1>1, LenProperties DEF Nobody
  <2>2. QED
    BY <1>1, <1>2, <2>1 DEF ServerResult
<1>4. serverResults' = Append(serverResults, r) /\ serverResults \in Seq(ServerResult)
  BY DEF Result, MeasuredInv
<1>5. /\ serverResults' \in Seq(ServerResult)
      /\ \A k \in DOMAIN serverResults' :
            \/ k \in DOMAIN serverResults /\ serverResults'[k] = serverResults[k]
            \/ serverResults'[k] = r
  <2> HIDE DEF r
  <2>1. /\ serverResults' \in Seq(ServerResult)
        /\ Len(serverResults') = Len(serverResults) + 1
        /\ \A k \in 1 .. Len(serverResults) : serverResults'[k] = serverResults[k]
        /\ serverResults'[Len(serverResults) + 1] = r
    BY <1>3, <1>4, AppendProperties
  <2>2. /\ Len(serverResults) \in Nat /\ DOMAIN serverResults = 1 .. Len(serverResults)
        /\ DOMAIN serverResults' = 1 .. Len(serverResults) + 1
    BY <1>4, <2>1, LenProperties
  <2>3. QED
    BY <2>1, <2>2
<1>6. srv' = [srv EXCEPT !.todo = Tail(srv.todo), !.started = FALSE,
                         !.pc = IF Tail(srv.todo) # <<>> THEN "task" ELSE "stop"]
  BY DEF Result
<1>7. /\ srv'.mode = srv.mode /\ srv'.mode \in ServerModes /\ srv'.handle = srv.handle
      /\ srv' \in [mode : ServerModes, todo : Seq(TaskKind), handle : Int,
                   started : {FALSE}, pc : {"task", "stop"}]
      /\ srv'.pc = "task" => srv'.todo # <<>>
  BY <1>1, <1>2, <1>6
<1>8. r.task = Asked /\ r.by = by /\ r.started = srv.started
  OBVIOUS
<1>9. QED
  <2> HIDE DEF r
  <2>1. QED
    BY <1>5, <1>7, <1>8

\* The results so far stay right when servers are made, and when they change.
LEMMA MeasuredStays ==
    ASSUME ServersInv, MeasuredInv, serverResults' = serverResults,
           DOMAIN servers \subseteq DOMAIN servers', unowned \subseteq unowned',
           \A s \in DOMAIN servers : servers'[s].speculative = servers[s].speculative
    PROVE  MeasuredInv'
<1>1. \A k \in DOMAIN serverResults : serverResults[k].by \in {Nobody} \cup DOMAIN servers
  BY DEF MeasuredInv
<1>2. StarterIsMeasured'
  BY <1>1 DEF MeasuredInv, StarterIsMeasured
<1>3. QED
  BY <1>1, <1>2 DEF MeasuredInv

\* The adapter goes on with a handle, and is not at a later task.
LEMMA WaitsIs ==
    ASSUME ServersInv, NEW handle \in Int, NEW started \in BOOLEAN, Waits(handle, started)
    PROVE  /\ srv' \in [mode : ServerModes, todo : Seq(TaskKind), handle : {handle},
                        started : {started}, pc : {"wait"}]
           /\ srv'.mode = srv.mode /\ srv'.todo = srv.todo
BY DEF ServersInv, Waits

LEMMA GoesIs ==
    ASSUME ServersInv, NEW handle \in Int,
           NEW pc \in {"task", "wait", "requests", "stop", "rm", "ended"},
           srv' = [srv EXCEPT !.pc = pc, !.handle = handle]
    PROVE  /\ srv' \in [mode : ServerModes, todo : Seq(TaskKind), handle : {handle},
                        started : {srv.started}, pc : {pc}]
           /\ srv'.mode = srv.mode /\ srv'.todo = srv.todo
BY DEF ServersInv

LEMMA GoesOnIs ==
    ASSUME ServersInv, NEW pc \in {"task", "wait", "requests", "stop", "rm", "ended"},
           srv' = [srv EXCEPT !.pc = pc]
    PROVE  /\ srv' \in [mode : ServerModes, todo : Seq(TaskKind), handle : {srv.handle},
                        started : {srv.started}, pc : {pc}]
           /\ srv'.mode = srv.mode /\ srv'.todo = srv.todo
BY DEF ServersInv

LEMMA AdapterIs ==
    ASSUME NEW handle \in Int, NEW started \in BOOLEAN,
           NEW pc \in {"task", "wait", "requests", "stop", "rm", "ended"},
           NEW r \in [mode : ServerModes, todo : Seq(TaskKind), handle : {handle},
                      started : {started}, pc : {pc}]
    PROVE  r \in [mode : ServerModes, todo : Seq(TaskKind), handle : Int, started : BOOLEAN,
                  pc : {"task", "wait", "requests", "stop", "rm", "ended"}]
OBVIOUS

LEMMA Handles ==
    ASSUME ServersInv
    PROVE  /\ NoHandle \notin DOMAIN servers /\ EmptyId \notin DOMAIN servers
           /\ Nobody \notin DOMAIN servers /\ NoHandle # EmptyId /\ srv.handle \in Int
BY LenProperties DEF ServersInv, NoHandle, EmptyId, Nobody

\* A server is started for a task and taken on.
LEMMA StartKeeps ==
    ASSUME ServerInv, ServerAt("task"), Starts, NEW is \in {"up", "ended"},
           is = "up" => ~PortTaken, Made(is), Waits(NewServer, TRUE),
           unowned' = unowned, teardown' = teardown, serverResults' = serverResults
    PROVE  ServerInv'
<1> USE DEF ServerInv
<1>1. srv.pc = "task" /\ srv.handle = NoHandle /\ srv.todo # <<>>
  BY DEF ServerAt, Starts, ServersInv, ServerStepInv
<1>2. /\ servers' \in Seq(Server) /\ DOMAIN servers' = DOMAIN servers \cup {NewServer}
      /\ NewServer \in Nat \ {0} /\ NewServer \notin DOMAIN servers
      /\ \A s \in DOMAIN servers : servers'[s] = servers[s]
      /\ servers'[NewServer].is = is /\ servers'[NewServer].speculative = Speculative
  BY MadeIs
<1>3. /\ srv' \in [mode : ServerModes, todo : Seq(TaskKind), handle : {NewServer},
                   started : {TRUE}, pc : {"wait"}]
      /\ srv'.mode = srv.mode /\ srv'.todo = srv.todo
  <2>1. NewServer \in Int
    BY <1>2
  <2>2. QED
    BY <2>1, WaitsIs, Zenon
<1>4. Exist \subseteq unowned
  BY <1>1, Handles DEF OwnsInv, Exist
<1>5. \A s, t \in Up' : s = t
  <2>1. CASE is = "up"
    <3>1. Up = {}
      BY <2>1 DEF PortTaken
    <3>2. Up' = {NewServer}
      BY <1>2, <2>1, <3>1 DEF Up
    <3>3. QED
      BY <3>2
  <2>2. CASE is = "ended"
    <3>1. Up' = Up
      BY <1>2, <2>2 DEF Up
    <3>2. QED
      BY <3>1 DEF ServersInv
  <2>3. QED
    BY <2>1, <2>2
<1>6. ServersInv'
  <2>1. srv' \in [mode : ServerModes, todo : Seq(TaskKind), handle : Int, started : BOOLEAN,
                  pc : {"task", "wait", "requests", "stop", "rm", "ended"}]
    <3>1. NewServer \in Int
      BY <1>2
    <3>2. QED
      BY <1>3, <3>1, AdapterIs, Zenon
  <2>2. srv'.handle \in DOMAIN servers' /\ unowned' \subseteq DOMAIN servers'
    BY <1>2, <1>3 DEF ServersInv
  <2>3. QED
    BY <1>1, <1>2, <1>5, <2>1, <2>2 DEF ServersInv
<1>7. ServerStepInv'
  BY <1>1, <1>2, <1>3 DEF ServerStepInv, NoHandle
<1>8. OwnsInv'
  <2>1. Exist' \subseteq Exist \cup {NewServer}
    BY <1>2 DEF Exist
  <2>2. QED
    BY <1>3, <1>4, <2>1 DEF OwnsInv, NoServerLeft, ServerAt
<1>9. StarterInv'
  BY <1>2, <1>3 DEF StarterInv, Speculative, Asked
<1>10. MeasuredInv'
  BY <1>2, MeasuredStays
<1>11. QED
  BY <1>6, <1>7, <1>8, <1>9, <1>10

\* The servers stay as they are, and the adapter goes on.
LEMMA UsesKeeps ==
    ASSUME ServerInv, Uses
    PROVE  ServerInv'
<1> USE DEF ServerInv
<1>1. /\ srv.pc = "task" /\ srv.todo # <<>>
      /\ srv.mode = "remote" \/ srv.handle # NoHandle
      /\ UNCHANGED <<servers, serverResults, unowned, teardown>>
  BY DEF Uses, ServerAt, Starts, ServersInv, ServerStepInv
<1>2. /\ srv' \in [mode : ServerModes, todo : Seq(TaskKind), handle : {srv.handle},
                   started : {FALSE}, pc : {"wait"}]
      /\ srv'.mode = srv.mode /\ srv'.todo = srv.todo
  BY WaitsIs, Handles DEF Uses
<1>3. Up' = Up /\ Exist' = Exist
  BY <1>1 DEF Up, Exist
<1>4. ServersInv'
  BY <1>1, <1>2, <1>3, Handles DEF ServersInv
<1>5. ServerStepInv' /\ OwnsInv' /\ StarterInv'
  BY <1>1, <1>2, <1>3 DEF ServerStepInv, OwnsInv, StarterInv, NoServerLeft,
     ServerAt
<1>6. MeasuredInv'
  BY <1>1, MeasuredStays
<1>7. QED
  BY <1>4, <1>5, <1>6

\* docker run ended with an error and no container.
LEMMA NoIdKeeps ==
    ASSUME ServerInv, ServerAt("task"), Starts, Waits(EmptyId, TRUE),
           UNCHANGED <<servers, serverResults, unowned, teardown>>
    PROVE  ServerInv'
<1> USE DEF ServerInv
<1>1. srv.pc = "task" /\ srv.handle = NoHandle /\ srv.todo # <<>>
  BY DEF ServerAt, Starts, ServersInv, ServerStepInv
<1>2. /\ srv' \in [mode : ServerModes, todo : Seq(TaskKind), handle : {EmptyId},
                   started : {TRUE}, pc : {"wait"}]
      /\ srv'.mode = srv.mode /\ srv'.todo = srv.todo
  <2>1. EmptyId \in Int
    BY DEF EmptyId
  <2>2. QED
    BY <2>1, WaitsIs, Zenon
<1>3. Up' = Up /\ Exist' = Exist
  BY DEF Up, Exist
<1>4. Exist \subseteq unowned
  BY <1>1, Handles DEF OwnsInv, Exist
<1>5. ServersInv'
  <2>1. srv' \in [mode : ServerModes, todo : Seq(TaskKind), handle : Int, started : BOOLEAN,
                  pc : {"task", "wait", "requests", "stop", "rm", "ended"}]
    <3>1. EmptyId \in Int
      BY DEF EmptyId
    <3>2. QED
      BY <1>2, <3>1, AdapterIs, Zenon
  <2>2. QED
    BY <1>1, <1>2, <1>3, <2>1 DEF ServersInv
<1>6. ServerStepInv' /\ OwnsInv' /\ StarterInv'
  BY <1>1, <1>2, <1>3, <1>4, Handles DEF ServerStepInv, OwnsInv, StarterInv, NoServerLeft,
     ServerAt
<1>7. MeasuredInv'
  BY MeasuredStays
<1>8. QED
  BY <1>5, <1>6, <1>7

\* A task ends, measured on a server that is up or on none.
LEMMA ResultKeeps ==
    ASSUME ServerInv, srv.pc \in {"task", "wait", "requests"}, NEW passed \in BOOLEAN,
           NEW good \in Nat, NEW by \in {Nobody} \cup Up, Result(passed, good, by),
           UNCHANGED <<servers, unowned, teardown>>
    PROVE  ServerInv'
<1> USE DEF ServerInv
<1>1. /\ srv.todo # <<>> /\ Up \subseteq DOMAIN servers
  BY DEF ServersInv, ServerStepInv, Up
<1>2. /\ serverResults' \in Seq(ServerResult)
      /\ \A k \in DOMAIN serverResults' :
            \/ k \in DOMAIN serverResults /\ serverResults'[k] = serverResults[k]
            \/ /\ serverResults'[k].task = Asked /\ serverResults'[k].by = by
               /\ serverResults'[k].started = srv.started
      /\ srv'.mode = srv.mode /\ srv'.handle = srv.handle
      /\ srv' \in [mode : ServerModes, todo : Seq(TaskKind), handle : Int,
                   started : {FALSE}, pc : {"task", "stop"}]
      /\ srv'.pc = "task" => srv'.todo # <<>>
  BY <1>1, ResultIs
<1>3. Up' = Up /\ Exist' = Exist
  BY DEF Up, Exist
<1>4. ServersInv'
  BY <1>1, <1>2, <1>3 DEF ServersInv
<1>5. ServerStepInv' /\ OwnsInv' /\ StarterInv'
  BY <1>1, <1>2, <1>3 DEF ServerStepInv, OwnsInv, StarterInv, NoServerLeft,
     ServerAt
<1>6. srv.started /\ by # Nobody /\ by \notin unowned =>
          servers[by].speculative = (Asked = "speculative")
  <2> SUFFICES ASSUME srv.started, by # Nobody, by \notin unowned
               PROVE  servers[by].speculative = (Asked = "speculative")
    OBVIOUS
  <2>1. by \in Exist /\ by \in DOMAIN servers
    BY DEF Up, Exist
  <2>2. by = srv.handle
    BY <2>1 DEF OwnsInv
  <2>3. QED
    BY <2>1, <2>2 DEF StarterInv
<1>7. MeasuredInv'
  <2>1. ASSUME NEW k \in DOMAIN serverResults'
        PROVE  /\ serverResults'[k].by \in {Nobody} \cup DOMAIN servers
               /\ LET r == serverResults'[k]
                  IN  r.started /\ r.by # Nobody /\ r.by \notin unowned
                          => servers[r.by].speculative = (r.task = "speculative")
    <3>1. CASE k \in DOMAIN serverResults /\ serverResults'[k] = serverResults[k]
      BY <3>1 DEF MeasuredInv, StarterIsMeasured
    <3>2. CASE /\ serverResults'[k].task = Asked /\ serverResults'[k].by = by
               /\ serverResults'[k].started = srv.started
      BY <1>1, <1>6, <3>2
    <3>3. QED
      BY <1>2, <3>1, <3>2
  <2>2. QED
    BY <1>2, <2>1 DEF MeasuredInv, StarterIsMeasured
<1>8. QED
  BY <1>4, <1>5, <1>7

\* docker started the server after the client had given up.
LEMMA LateStartKeeps ==
    ASSUME ServerInv, ServerAt("task"), Starts, ~PortTaken, Made("up"),
           unowned' = unowned \cup {NewServer}, Result(FALSE, 0, Nobody),
           teardown' = teardown
    PROVE  ServerInv'
<1> USE DEF ServerInv
<1>1. srv.pc = "task" /\ srv.handle = NoHandle /\ srv.todo # <<>>
  BY DEF ServerAt, Starts, ServersInv, ServerStepInv
<1>2. /\ servers' \in Seq(Server) /\ DOMAIN servers' = DOMAIN servers \cup {NewServer}
      /\ NewServer \in Nat \ {0} /\ NewServer \notin DOMAIN servers
      /\ \A s \in DOMAIN servers : servers'[s] = servers[s]
      /\ servers'[NewServer].is = "up"
  BY MadeIs
<1>3. /\ serverResults' \in Seq(ServerResult)
      /\ \A k \in DOMAIN serverResults' :
            \/ k \in DOMAIN serverResults /\ serverResults'[k] = serverResults[k]
            \/ serverResults'[k].by = Nobody
      /\ srv'.mode = srv.mode /\ srv'.handle = srv.handle
      /\ srv' \in [mode : ServerModes, todo : Seq(TaskKind), handle : Int,
                   started : {FALSE}, pc : {"task", "stop"}]
      /\ srv'.pc = "task" => srv'.todo # <<>>
  BY <1>1, ResultIs
<1>4. Up' = {NewServer} /\ Exist' = Exist \cup {NewServer} /\ Exist \subseteq unowned
  <2>1. Up = {}
    BY DEF PortTaken
  <2>2. QED
    BY <1>1, <1>2, <2>1, Handles DEF Up, Exist, OwnsInv
<1>5. ServersInv'
  BY <1>1, <1>2, <1>3, <1>4 DEF ServersInv
<1>6. ServerStepInv' /\ OwnsInv' /\ StarterInv'
  BY <1>1, <1>2, <1>3, <1>4 DEF ServerStepInv, OwnsInv, StarterInv, NoServerLeft,
     ServerAt
<1>7. MeasuredInv'
  <2>1. ASSUME NEW k \in DOMAIN serverResults'
        PROVE  /\ serverResults'[k].by \in {Nobody} \cup DOMAIN servers'
               /\ LET r == serverResults'[k]
                  IN  r.started /\ r.by # Nobody /\ r.by \notin unowned'
                          => servers'[r.by].speculative = (r.task = "speculative")
    <3>1. CASE k \in DOMAIN serverResults /\ serverResults'[k] = serverResults[k]
      BY <1>2, <3>1 DEF MeasuredInv, StarterIsMeasured
    <3>2. CASE serverResults'[k].by = Nobody
      BY <3>2
    <3>3. QED
      BY <1>3, <3>1, <3>2
  <2>2. QED
    BY <1>3, <2>1 DEF MeasuredInv, StarterIsMeasured
<1>8. QED
  BY <1>5, <1>6, <1>7

LEMMA ServerEndsKeeps ==
    ASSUME ServerInv, ServerEnds
    PROVE  ServerInv'
<1> USE DEF ServerInv
<1>1. PICK s \in Up : ServerIs(s, "ended")
  BY DEF ServerEnds
<1>2. UNCHANGED <<srv, serverResults, unowned, teardown>> /\ s \in DOMAIN servers
  BY <1>1 DEF ServerEnds, Up
<1>3. /\ servers' \in Seq(Server) /\ DOMAIN servers' = DOMAIN servers
      /\ \A t \in DOMAIN servers : /\ t # s => servers'[t] = servers[t]
                                   /\ servers'[t].speculative = servers[t].speculative
      /\ servers'[s].is = "ended"
  BY <1>1, <1>2, ServerIsIs
<1>4. Up' \subseteq Up /\ Exist' \subseteq Exist
  BY <1>1, <1>2, <1>3 DEF Up, Exist
<1>5. ServersInv'
  BY <1>2, <1>3, <1>4 DEF ServersInv
<1>6. ServerStepInv' /\ OwnsInv' /\ StarterInv'
  BY <1>2, <1>3, <1>4 DEF ServerStepInv, OwnsInv, StarterInv, Asked, NoServerLeft,
     ServerAt
<1>7. MeasuredInv'
  BY <1>2, <1>3, MeasuredStays
<1>8. QED
  BY <1>5, <1>6, <1>7

\* The adapter goes on with what it has.
LEMMA GoesOnKeeps ==
    ASSUME ServerInv, Ready \/ NothingToStop
    PROVE  ServerInv'
<1> USE DEF ServerInv
<1>1. UNCHANGED <<servers, serverResults, unowned, teardown>>
  BY DEF Ready, NothingToStop
<1>2. Up' = Up /\ Exist' = Exist
  BY <1>1 DEF Up, Exist
<1>3. PICK pc \in {"requests", "ended"} : /\ srv' = [srv EXCEPT !.pc = pc]
                                          /\ pc = "requests" => Ready
                                          /\ Ready => pc = "requests"
  BY DEF Ready, NothingToStop, ServerAt
<1>4. /\ srv' \in [mode : ServerModes, todo : Seq(TaskKind), handle : {srv.handle},
                   started : {srv.started}, pc : {pc}]
      /\ srv'.mode = srv.mode /\ srv'.todo = srv.todo
  BY <1>3, GoesOnIs
<1>5. MeasuredInv'
  BY <1>1, MeasuredStays
<1>6. CASE Ready
  <2>1. srv.pc = "wait" /\ srv'.pc = "requests"
    BY <1>3, <1>4, <1>6 DEF Ready, ServerAt, ServersInv
  <2>2. ServersInv'
    BY <1>1, <1>2, <1>4, <2>1 DEF ServersInv
  <2>3. ServerStepInv' /\ OwnsInv' /\ StarterInv'
    BY <1>1, <1>2, <1>4, <2>1 DEF ServerStepInv, OwnsInv, StarterInv, Asked, NoServerLeft,
       ServerAt
  <2>4. QED
    BY <1>5, <2>2, <2>3
<1>7. CASE ~Ready
  <2>1. srv'.pc = "ended" /\ srv.pc = "stop" /\ srv.handle \in {NoHandle, EmptyId}
    BY <1>3, <1>4, <1>7 DEF NothingToStop, ServerAt, ServersInv
  <2>2. ~srv.started
    BY <2>1 DEF StarterInv
  <2>3. ServersInv'
    BY <1>1, <1>2, <1>4, <2>1 DEF ServersInv
  <2>4. ServerStepInv' /\ StarterInv'
    BY <1>1, <1>2, <1>4, <2>1, <2>2 DEF ServerStepInv, StarterInv
  <2>5. Exist \ unowned = {} /\ Up \ unowned = {}
    BY <2>1, Handles DEF OwnsInv, Exist, Up
  <2>6. OwnsInv'
    BY <1>1, <1>2, <1>4, <2>1, <2>5 DEF OwnsInv, NoServerLeft
  <2>7. QED
    BY <1>5, <2>3, <2>4, <2>6
<1>8. QED
  BY <1>6, <1>7

\* A docker call of the teardown, or the end of the process: the server is ended,
\* removed, or as it was; the adapter goes on to the rm, ends and forgets the server, or
\* ends with the exception.
LEMMA StopKeeps ==
    ASSUME ServerInv, StopContainer \/ RemoveContainer \/ StopRaises \/ StopProcess
    PROVE  ServerInv'
<1> USE DEF ServerInv
<1>1. /\ UNCHANGED <<serverResults, unowned>>
      /\ srv.pc \in {"stop", "rm"} /\ srv.handle \in DOMAIN servers
      /\ teardown \in [raised : BOOLEAN, refused : SUBSET {"stop", "rm"}]
  BY DEF StopContainer, RemoveContainer, StopRaises, StopProcess, ServerAt, ServerStepInv,
         ServersInv
<1>2. srv.started = FALSE /\ Exist \ unowned \subseteq {srv.handle} /\ Up \subseteq Exist
  BY <1>1 DEF ServersInv, StarterInv, OwnsInv, Up, Exist
<1>3. /\ UNCHANGED servers \/ ServerIs(srv.handle, "ended") \/ ServerIs(srv.handle, "removed")
      /\ teardown' \in [raised : BOOLEAN, refused : SUBSET {"stop", "rm"}]
      /\ teardown.refused \subseteq teardown'.refused
  <2>1. CASE UNCHANGED teardown
    BY <1>1, <2>1 DEF StopContainer, RemoveContainer, StopRaises, StopProcess, Refuses
  <2>2. CASE Refuses("stop") \/ Refuses("rm")
    <3>1. PICK x \in {"stop", "rm"} :
              teardown' = [teardown EXCEPT !.refused = teardown.refused \cup {x}]
      BY <2>2 DEF Refuses
    <3>2. UNCHANGED servers
      BY <2>2 DEF Refuses
    <3>3. /\ teardown' \in [raised : BOOLEAN, refused : SUBSET {"stop", "rm"}]
          /\ teardown'.refused = teardown.refused \cup {x}
      BY <1>1, <3>1
    <3>4. QED
      BY <3>2, <3>3
  <2>3. CASE StopRaises
    <3>1. teardown' = [teardown EXCEPT !.raised = TRUE]
          /\ (UNCHANGED servers \/ ServerIs(srv.handle, "ended") \/ ServerIs(srv.handle, "removed"))
      BY <2>3 DEF StopRaises
    <3>2. /\ teardown' \in [raised : BOOLEAN, refused : SUBSET {"stop", "rm"}]
          /\ teardown'.refused = teardown.refused
      BY <1>1, <3>1
    <3>3. QED
      BY <3>1, <3>2
  <2>4. QED
    BY <2>1, <2>2, <2>3 DEF StopContainer, RemoveContainer, StopProcess
<1>4. /\ servers' \in Seq(Server) /\ DOMAIN servers' = DOMAIN servers
      /\ \A t \in DOMAIN servers : /\ t # srv.handle => servers'[t] = servers[t]
                                   /\ servers'[t].speculative = servers[t].speculative
      /\ UNCHANGED servers \/ servers'[srv.handle].is \in {"ended", "removed"}
      /\ ServerIs(srv.handle, "ended") => servers'[srv.handle].is = "ended"
      /\ ServerIs(srv.handle, "removed") => servers'[srv.handle].is = "removed"
  <2>1. CASE UNCHANGED servers /\ ~ServerIs(srv.handle, "ended") /\ ~ServerIs(srv.handle, "removed")
    BY <2>1 DEF ServersInv
  <2>2. CASE ServerIs(srv.handle, "ended")
    <3>1. /\ servers' \in Seq(Server) /\ DOMAIN servers' = DOMAIN servers
          /\ \A t \in DOMAIN servers : /\ t # srv.handle => servers'[t] = servers[t]
                                       /\ servers'[t].speculative = servers[t].speculative
          /\ servers'[srv.handle].is = "ended"
      BY <1>1, <2>2, ServerIsIs
    <3>2. ~ServerIs(srv.handle, "removed")
      <4>1. ASSUME ServerIs(srv.handle, "removed")
            PROVE  servers'[srv.handle].is = "removed"
        BY <1>1, <4>1, ServerIsIs
      <4>2. QED
        BY <3>1, <4>1
    <3>3. QED
      BY <3>1, <3>2
  <2>3. CASE ServerIs(srv.handle, "removed") /\ ~ServerIs(srv.handle, "ended")
    <3>1. /\ servers' \in Seq(Server) /\ DOMAIN servers' = DOMAIN servers
          /\ \A t \in DOMAIN servers : /\ t # srv.handle => servers'[t] = servers[t]
                                       /\ servers'[t].speculative = servers[t].speculative
          /\ servers'[srv.handle].is = "removed"
      BY <1>1, <2>3, ServerIsIs
    <3>2. QED
      BY <2>3, <3>1
  <2>4. QED
    BY <1>3, <2>1, <2>2, <2>3
<1>5. MeasuredInv'
  BY <1>1, <1>4, MeasuredStays
<1>6. Up' \subseteq Up /\ Exist' \ unowned \subseteq {srv.handle}
  <2>1. CASE UNCHANGED servers
    BY <1>2, <2>1 DEF Up, Exist
  <2>2. CASE servers'[srv.handle].is \in {"ended", "removed"}
    <3>1. \A t \in DOMAIN servers : t \in Up' => t # srv.handle /\ t \in Up
      BY <1>4, <2>2 DEF Up
    <3>2. \A t \in DOMAIN servers : t \in Exist' /\ t # srv.handle => t \in Exist
      BY <1>4 DEF Exist
    <3>3. Up' \subseteq DOMAIN servers /\ Exist' \subseteq DOMAIN servers
      BY <1>4 DEF Up, Exist
    <3>4. QED
      BY <1>2, <3>1, <3>2, <3>3
  <2>3. QED
    BY <1>4, <2>1, <2>2
<1>7. CASE StopContainer
  <2>1. /\ srv' \in [mode : ServerModes, todo : Seq(TaskKind), handle : {srv.handle},
                     started : {FALSE}, pc : {"rm"}]
    <3>1. srv' = [srv EXCEPT !.pc = "rm"]
      BY <1>7 DEF StopContainer
    <3>2. /\ srv' \in [mode : ServerModes, todo : Seq(TaskKind), handle : {srv.handle},
                       started : {srv.started}, pc : {"rm"}]
      BY <3>1, GoesOnIs
    <3>3. QED
      BY <1>2, <3>2
  <2>2. ServersInv'
    BY <1>1, <1>3, <1>4, <1>6, <2>1, Handles DEF ServersInv
  <2>3. Up' \ unowned = {} \/ "stop" \in teardown'.refused
    <3>1. CASE ServerIs(srv.handle, "ended")
      <4>1. servers'[srv.handle].is = "ended"
        BY <1>4, <3>1
      <4>2. srv.handle \notin Up'
        BY <4>1 DEF Up
      <4>3. QED
        BY <1>2, <1>6, <4>2
    <3>2. CASE Refuses("stop")
      BY <1>1, <3>2 DEF Refuses
    <3>3. QED
      BY <1>7, <3>1, <3>2 DEF StopContainer
  <2>4. OwnsInv'
    BY <1>1, <1>2, <1>6, <2>1, <2>3 DEF OwnsInv, NoServerLeft, ServerAt
  <2>5. ServerStepInv' /\ StarterInv'
    BY <1>1, <1>4, <2>1 DEF ServerStepInv, StarterInv
  <2>6. QED
    BY <1>5, <2>2, <2>4, <2>5
<1>8. CASE RemoveContainer \/ StopRaises \/ StopProcess
  <2>1. /\ srv' \in [mode : ServerModes, todo : Seq(TaskKind), handle : {srv.handle, NoHandle},
                     started : {FALSE}, pc : {"ended"}]
    <3>1. CASE srv' = [srv EXCEPT !.pc = "ended", !.handle = NoHandle]
      <4>1. NoHandle \in Int
        BY DEF NoHandle
      <4>2. /\ srv' \in [mode : ServerModes, todo : Seq(TaskKind), handle : {NoHandle},
                         started : {srv.started}, pc : {"ended"}]
        BY <3>1, <4>1, GoesIs
      <4>3. QED
        BY <1>2, <4>2
    <3>2. CASE srv' = [srv EXCEPT !.pc = "ended"]
      <4>1. /\ srv' \in [mode : ServerModes, todo : Seq(TaskKind), handle : {srv.handle},
                         started : {srv.started}, pc : {"ended"}]
        BY <3>2, GoesOnIs
      <4>2. QED
        BY <1>2, <4>1
    <3>3. QED
      BY <1>8, <3>1, <3>2 DEF RemoveContainer, StopRaises, StopProcess
  <2>2. ServersInv'
    <3>1. srv' \in [mode : ServerModes, todo : Seq(TaskKind), handle : Int, started : BOOLEAN,
                    pc : {"task", "wait", "requests", "stop", "rm", "ended"}]
      <4>1. NoHandle \in Int /\ srv.handle \in Int
        BY Handles DEF NoHandle
      <4>2. QED
        BY <2>1, <4>1
    <3>2. srv'.handle \in {NoHandle, EmptyId} \cup DOMAIN servers'
      BY <1>1, <1>4, <2>1
    <3>3. QED
      BY <1>1, <1>3, <1>4, <1>6, <3>1, <3>2 DEF ServersInv
  <2>3. \A s, t \in Exist' \ unowned' : s = t
    BY <1>1, <1>2, <1>6
  <2>4. /\ Exist' \ unowned' # {} => teardown'.raised \/ "rm" \in teardown'.refused
        /\ Up' \ unowned' # {} =>
               teardown'.raised \/ {"stop", "rm"} \subseteq teardown'.refused
    <3>1. CASE StopRaises
      <4>1. teardown'.raised
        BY <1>1, <3>1 DEF StopRaises
      <4>2. QED
        BY <4>1
    <3>2. CASE ServerIs(srv.handle, "removed")
      <4>1. servers'[srv.handle].is = "removed"
        BY <1>4, <3>2
      <4>2. srv.handle \notin Exist' /\ Up' \subseteq Exist'
        BY <4>1 DEF Exist, Up
      <4>3. QED
        BY <1>1, <1>2, <1>6, <4>2
    <3>3. CASE ServerAt("rm") /\ Refuses("rm")
      <4>1. "rm" \in teardown'.refused /\ servers' = servers
        BY <1>1, <3>3 DEF Refuses
      <4>2. Up \ unowned = {} \/ "stop" \in teardown.refused
        BY <3>3 DEF OwnsInv, ServerAt
      <4>3. QED
        BY <1>1, <1>3, <1>6, <4>1, <4>2
    <3>4. QED
      BY <1>8, <3>1, <3>2, <3>3 DEF RemoveContainer, StopProcess
  <2>5. OwnsInv'
    BY <2>1, <2>3, <2>4 DEF OwnsInv, NoServerLeft
  <2>6. ServerStepInv' /\ StarterInv'
    BY <2>1 DEF ServerStepInv, StarterInv
  <2>7. QED
    BY <1>5, <2>2, <2>5, <2>6
<1>9. QED
  BY <1>7, <1>8

LEMMA ServerInvHolds == ServerSpec => []ServerInv
<1>1. ServerInit => ServerInv
  <2> SUFFICES ASSUME NEW mode \in ServerModes, NEW todo \in TaskLists, NEW other \in BOOLEAN,
                      ServerFrom(mode, todo, other)
               PROVE  ServerInv
    BY DEF ServerInit
  <2>1. todo \in Seq(TaskKind) /\ todo # <<>>
    BY ServerAssumption DEF TaskKind
  <2>2. /\ srv = [mode |-> mode, pc |-> "task", todo |-> todo, handle |-> NoHandle,
                  started |-> FALSE]
        /\ servers = <<>> /\ serverResults = <<>> /\ unowned = {}
        /\ teardown = [raised |-> FALSE, refused |-> {}]
    BY DEF ServerFrom
  <2>3. Up = {} /\ Exist = {} /\ servers \in Seq(Server) /\ serverResults \in Seq(ServerResult)
    BY <2>2 DEF Up, Exist
  <2>4. ServersInv
    <3>1. srv \in [mode : ServerModes, todo : Seq(TaskKind), handle : Int, started : BOOLEAN,
                   pc : {"task", "wait", "requests", "stop", "rm", "ended"}]
      BY <2>1, <2>2 DEF NoHandle
    <3>2. QED
      BY <2>2, <2>3, <3>1 DEF ServersInv
  <2>5. ServerStepInv /\ OwnsInv /\ StarterInv
    BY <2>1, <2>2, <2>3 DEF ServerStepInv, OwnsInv, StarterInv, NoServerLeft, ServerAt
  <2>6. MeasuredInv
    BY <2>2, <2>3 DEF MeasuredInv, StarterIsMeasured
  <2>7. QED
    BY <2>4, <2>5, <2>6 DEF ServerInv
<1>2. ServerInv /\ [ServerNext]_serverVars => ServerInv'
  <2> SUFFICES ASSUME ServerInv, [ServerNext]_serverVars
               PROVE  ServerInv'
    OBVIOUS
  <2>1. CASE Uses
    BY <2>1, UsesKeeps
  <2>2. CASE DockerStarts
    BY <2>2, StartKeeps DEF DockerStarts
  <2>3. CASE DockerExits
    <3>1. CASE PortTaken /\ Made("ended") /\ Waits(NewServer, TRUE)
      BY <2>3, <3>1, StartKeeps DEF DockerExits
    <3>2. CASE Waits(EmptyId, TRUE) /\ UNCHANGED servers
      BY <2>3, <3>2, NoIdKeeps DEF DockerExits
    <3>3. QED
      BY <2>3, <3>1, <3>2 DEF DockerExits
  <2>4. CASE DockerTimesOut
    <3>1. CASE ~PortTaken /\ Made("up") /\ unowned' = unowned \cup {NewServer}
      BY <2>4, <3>1, LateStartKeeps DEF DockerTimesOut
    <3>2. CASE UNCHANGED <<servers, unowned>>
      BY <2>4, <3>2, ResultKeeps DEF DockerTimesOut, ServerAt
    <3>3. QED
      BY <2>4, <3>1, <3>2 DEF DockerTimesOut
  <2>5. CASE ProcessStarts
    <3>1. CASE PortTaken
      BY <2>5, <3>1, StartKeeps DEF ProcessStarts
    <3>2. CASE ~PortTaken
      BY <2>5, <3>2, StartKeeps DEF ProcessStarts
    <3>3. QED
      BY <3>1, <3>2
  <2>6. CASE ProcessRaises \/ NotReady
    BY <2>6, ResultKeeps DEF ProcessRaises, NotReady, ServerAt
  <2>7. CASE Requests
    <3>1. PICK good \in 0 .. MaxRequests, by \in Up \cup {Nobody} : Result(TRUE, good, by)
      BY <2>7 DEF Requests
    <3>2. good \in Nat /\ by \in {Nobody} \cup Up /\ srv.pc = "requests"
      BY <2>7, <3>1, ServerAssumption DEF Requests, ServerAt
    <3>3. QED
      BY <2>7, <3>1, <3>2, ResultKeeps DEF Requests
  <2>8. CASE ServerEnds
    BY <2>8, ServerEndsKeeps
  <2>9. CASE Ready \/ NothingToStop
    BY <2>9, GoesOnKeeps
  <2>10. CASE StopContainer \/ RemoveContainer \/ StopRaises \/ StopProcess
    BY <2>10, StopKeeps
  <2>11. CASE UNCHANGED serverVars
    <3>1. UNCHANGED <<srv, servers, serverResults, unowned, teardown>>
      BY <2>11 DEF serverVars
    <3>2. Up' = Up /\ Exist' = Exist
      BY <3>1 DEF Up, Exist
    <3>3. QED
      BY <3>1, <3>2 DEF ServerInv, ServersInv, ServerStepInv, OwnsInv, StarterInv, MeasuredInv,
         StarterIsMeasured, Asked, NoServerLeft, ServerAt
  <2>12. QED
    BY <2>1, <2>2, <2>3, <2>4, <2>5, <2>6, <2>7, <2>8, <2>9, <2>10, <2>11 DEF ServerNext
<1>3. QED
  BY <1>1, <1>2, PTL DEF ServerSpec

ServersKeep == ServerTypeOK /\ NoServerLeft /\ StarterIsMeasured

LEMMA ServerInvImplies == ServerInv => ServersKeep
<1> SUFFICES ASSUME ServerInv
             PROVE  ServersKeep
  OBVIOUS
<1>1. Cardinality(Up) <= 1
  <2>1. CASE Up = {}
    BY <2>1, FS_EmptySet
  <2>2. ASSUME NEW s \in Up
        PROVE  Cardinality(Up) <= 1
    <3>1. Up = {s}
      BY DEF ServerInv, ServersInv
    <3>2. Cardinality({s}) = 1
      BY FS_Singleton, Zenon
    <3>3. QED
      BY <3>1, <3>2
  <2>3. QED
    BY <2>1, <2>2
<1>2. \A s \in DOMAIN servers : servers[s].is \in {"up", "ended", "removed"}
  <2>1. \A s \in DOMAIN servers : servers[s] \in Server
    BY DEF ServerInv, ServersInv
  <2>2. QED
    BY <2>1 DEF Server
<1>3. ServerTypeOK
  BY <1>1, <1>2 DEF ServerInv, ServersInv, ServerStepInv, ServerTypeOK, ServerAt
<1>4. NoServerLeft
  BY DEF ServerInv, OwnsInv
<1>5. QED
  BY <1>3, <1>4 DEF ServerInv, MeasuredInv, ServersKeep

-------------------------------------------------------------------------------
(* SWE-bench: the proof.                                                   *)

LEMMA PatchesAre == <<>> \in Patches /\ \A f \in Patches : DOMAIN f \subseteq Instances
<1>1. <<>> \in Patches
  <2>1. <<>> \in Seq({"long", "short"}) /\ Len(<<>>) = 0
    OBVIOUS
  <2>2. <<>> \in [1 .. 0 -> {"long", "short"}]
    BY <2>1, LenProperties
  <2>3. 1 .. 0 = {}
    OBVIOUS
  <2>4. QED
    BY <2>2, <2>3 DEF Patches
<1>2. \A f \in Patches : DOMAIN f \subseteq Instances
  BY DEF Patches
<1>3. QED
  BY <1>1, <1>2

\* The predictions with one more.
LEMMA PatchesWith ==
    ASSUME NEW f \in Patches, NEW i \in Instances, NEW v \in {"long", "short"},
           NEW g, g = SweWith(f, i, v)
    PROVE  g \in Patches /\ DOMAIN g = DOMAIN f \cup {i} /\ g[i] = v
<1>1. \A k \in DOMAIN f : f[k] \in {"long", "short"}
  BY DEF Patches
<1>2. g \in [DOMAIN f \cup {i} -> {"long", "short"}] /\ DOMAIN f \cup {i} \in SUBSET Instances
  BY <1>1, PatchesAre DEF SweWith
<1>3. g \in Patches
  BY <1>2 DEF Patches
<1>4. QED
  BY <1>3 DEF SweWith

LEMMA ThreadIs ==
    ASSUME NEW todo \in Seq(Instances)
    PROVE  /\ NewThread(todo) \in SweThread
           /\ NewThread(todo).todo = todo /\ NewThread(todo).calls = 0
           /\ NewThread(todo).pc \in {"start", "done"}
           /\ NewThread(todo).pc = "done" <=> todo = <<>>
<1>1. <<>> \in Patches
  BY PatchesAre
<1>2. QED
  BY <1>1, SweAssumption DEF NewThread, SweThread, SweStep, SweEnd, Unfinished

LEMMA RestIs ==
    ASSUME NEW todo \in Seq(Instances), todo # <<>>
    PROVE  /\ Tail(todo) \in Seq(Instances) /\ Told(Tail(todo)) \subseteq Told(todo)
           /\ Head(todo) \in Told(todo) /\ Head(todo) \in Instances
<1>1. /\ Tail(todo) \in Seq(Instances) /\ Len(Tail(todo)) = Len(todo) - 1
      /\ \A k \in 1 .. Len(Tail(todo)) : Tail(todo)[k] = todo[k + 1]
      /\ Head(todo) = todo[1] /\ Head(todo) \in Instances
  BY HeadTailProperties
<1>2. /\ DOMAIN todo = 1 .. Len(todo) /\ Len(todo) \in Nat \ {0}
      /\ DOMAIN Tail(todo) = 1 .. Len(todo) - 1
  BY <1>1, LenProperties, EmptySeq
<1>3. QED
  BY <1>1, <1>2 DEF Told

\* The threads as they start.
LEMMA ThreadsStart ==
    ASSUME NEW lists \in SwePlans, NEW f, f = [t \in SweThreads |-> NewThread(lists[t])]
    PROVE  /\ f \in [SweThreads -> SweThread]
           /\ \A t \in SweThreads : /\ f[t].todo = <<>> <=> f[t].pc = "done"
                                    /\ f[t].pc \in {"start", "done"} /\ f[t].calls = 0
           /\ \A t, u \in SweThreads : t # u => Told(f[t].todo) \cap Told(f[u].todo) = {}
<1>1. \A t \in SweThreads : lists[t] \in Seq(Instances)
  BY SweAssumption
<1>2. \A t, u \in SweThreads : t # u => Told(lists[t]) \cap Told(lists[u]) = {}
  BY SweAssumption DEF Told
<1>3. \A t \in SweThreads : f[t] = NewThread(lists[t])
  OBVIOUS
<1>4. QED
  BY <1>1, <1>2, <1>3, ThreadIs

\* The instances of two threads differ.
LEMMA InstancesDiffer ==
    ASSUME ThreadsInv, NEW t \in SweThreads, swe[t].pc # "done"
    PROVE  /\ Instance(t) \in Instances
           /\ \A u \in SweThreads : u # t /\ swe[u].pc # "done" => Instance(u) # Instance(t)
<1>1. \A u \in SweThreads :
          swe[u].pc # "done" => Instance(u) \in Told(swe[u].todo) /\ Instance(u) \in Instances
  BY RestIs DEF ThreadsInv, SweThread, Instance
<1>2. QED
  BY <1>1 DEF ThreadsInv

\* A thread goes on with its instance.
Moves(t) ==
    /\ swe' \in [SweThreads -> SweThread]
    /\ \A u \in SweThreads : u # t => swe'[u] = swe[u]
    /\ swe[t].pc # "done" /\ swe'[t].pc # "done" /\ swe'[t].todo = swe[t].todo

LEMMA ThreadsStay ==
    ASSUME ThreadsInv, NEW t \in SweThreads, Moves(t)
    PROVE  ThreadsInv' /\ \A u \in SweThreads : Instance(u)' = Instance(u)
<1>1. \A u \in SweThreads : swe'[u].todo = swe[u].todo
  BY DEF Moves
<1>2. QED
  BY <1>1 DEF ThreadsInv, Moves, Instance

LEMMA PredsStay ==
    ASSUME PredsInv, NEW t \in SweThreads, Moves(t), preds' = preds, predsLock' = predsLock,
           swe[t].pc # "write", swe'[t].pc # "write"
    PROVE  PredsInv'
<1>1. \A u \in SweThreads : /\ swe'[u].pc = "write" <=> swe[u].pc = "write"
                            /\ swe'[u].pc = "write" => swe'[u].read = swe[u].read
  BY DEF Moves
<1>2. QED
  BY <1>1 DEF PredsInv, SweAt

LEMMA LatenciesStay ==
    ASSUME ThreadsInv, LatenciesInv, NEW t \in SweThreads, Moves(t), sweData' = sweData,
           sweResults' = sweResults, swe'[t].calls = swe[t].calls, swe[t].pc # "start",
           swe'[t].pc \notin {"start", "env"}
    PROVE  LatenciesInv'
<1>1. \A u \in SweThreads : Instance(u)' = Instance(u)
  BY ThreadsStay
<1>2. \A u \in SweThreads :
          /\ swe'[u].calls = swe[u].calls
          /\ swe'[u].pc \in {"start", "env"} => swe[u].pc \in {"start", "env"}
          /\ swe'[u].pc \notin {"start", "done"} => swe[u].pc \notin {"start", "done"}
  BY DEF Moves
<1>3. LatenciesOfAttempt'
  BY DEF LatenciesInv, LatenciesOfAttempt
<1>4. QED
  BY <1>1, <1>2, <1>3 DEF LatenciesInv

LEMMA PredictedStays ==
    ASSUME ThreadsInv, PredictedInv, NEW t \in SweThreads, Moves(t), preds'.of = preds.of,
           sweResults' = sweResults,
           swe'[t].pc \in {"cleanup", "result"} /\ SwePassed(swe'[t].end) =>
               swe[t].pc \in {"cleanup", "result"} /\ swe'[t].end = swe[t].end
    PROVE  PredictedInv'
<1>1. \A u \in SweThreads : Instance(u)' = Instance(u)
  BY ThreadsStay
<1>2. \A u \in SweThreads :
          swe'[u].pc \in {"cleanup", "result"} /\ SwePassed(swe'[u].end) =>
              swe[u].pc \in {"cleanup", "result"} /\ SwePassed(swe[u].end)
  BY DEF Moves
<1>3. \A i : /\ NotShort(i)' <=> NotShort(i)
             /\ \A u \in SweThreads : TurnOf(u, i)' <=> TurnOf(u, i)
  BY <1>1 DEF NotShort, TurnOf, Moves
<1>4. QED
  BY <1>1, <1>2, <1>3 DEF PredictedInv

Running == {"agent", "finally", "write", "cleanup"}
LEMMA ContainersStay ==
    ASSUME ThreadsInv, ContainersInv, NEW t \in SweThreads, Moves(t),
           sweContainers' = sweContainers, spilled' = spilled, sweProcess' = sweProcess,
           swe'[t].env = swe[t].env, swe[t].pc \in Running => swe'[t].pc \in Running
    PROVE  ContainersInv'
<1>1. \A u \in SweThreads : Container(u)' = Container(u)
  BY ThreadsStay DEF Container
<1>2. \A u \in SweThreads :
          /\ swe'[u].env = swe[u].env
          /\ swe[u].pc \in Running => swe'[u].pc \in Running
  BY DEF Moves
<1>3. QED
  BY <1>1, <1>2 DEF ContainersInv, Running

LEMMA StartInstanceKeeps ==
    ASSUME SweInv, NEW t \in SweThreads, StartInstance(t)
    PROVE  SweInv'
<1> USE DEF SweInv
<1>1. /\ swe[t].pc = "start" /\ swe' = [swe EXCEPT ![t].pc = "env"]
      /\ sweData' = SweWith(sweData, Instance(t), 0)
      /\ UNCHANGED <<preds, predsLock, sweContainers, sweResults, sweProcess, spilled>>
  BY DEF StartInstance, SweAt, SweGoes
<1>2. /\ Moves(t) /\ swe'[t].pc = "env" /\ swe'[t].calls = swe[t].calls
      /\ swe'[t].env = swe[t].env
  BY <1>1 DEF ThreadsInv, SweThread, SweStep, Moves
<1>3. PredsInv' /\ PredictedInv' /\ ContainersInv'
  BY <1>1, <1>2, PredsStay, PredictedStays, ContainersStay DEF Running
<1>4. LatenciesInv'
  <2>1. /\ Instance(t) \in Instances
        /\ \A u \in SweThreads : u # t /\ swe[u].pc # "done" => Instance(u) # Instance(t)
    BY <1>1, InstancesDiffer
  <2>2. \A u \in SweThreads : Instance(u)' = Instance(u)
    BY <1>2, ThreadsStay
  <2>3. /\ DOMAIN sweData' = DOMAIN sweData \cup {Instance(t)}
        /\ sweData'[Instance(t)] = 0
        /\ \A i \in DOMAIN sweData : i # Instance(t) => sweData'[i] = sweData[i]
    BY <1>1 DEF SweWith
  <2>4. ASSUME NEW u \in SweThreads
        PROVE  /\ swe'[u].pc \in {"start", "env"} => swe'[u].calls = 0
               /\ swe'[u].pc \notin {"start", "done"} =>
                      Instance(u) \in DOMAIN sweData' /\ sweData'[Instance(u)] = swe'[u].calls
    <3>1. CASE u = t
      BY <1>1, <1>2, <2>3, <3>1 DEF LatenciesInv
    <3>2. CASE u # t
      BY <1>2, <2>1, <2>3, <3>2 DEF LatenciesInv, Moves
    <3>3. QED
      BY <3>1, <3>2
  <2>5. LatenciesOfAttempt'
    BY <1>1 DEF LatenciesInv, LatenciesOfAttempt
  <2>6. QED
    BY <2>1, <2>2, <2>3, <2>4, <2>5 DEF LatenciesInv
<1>5. QED
  BY <1>2, <1>3, <1>4, ThreadsStay

\* An attempt ends before or in the agent.
LEMMA AttemptEndsKeeps ==
    ASSUME SweInv, NEW t \in SweThreads, swe[t].pc \in {"env", "agent"}, NEW end \in SweEndings,
           swe' = [swe EXCEPT ![t].pc = "finally", ![t].end = end],
           UNCHANGED <<sweData, preds, predsLock, sweContainers, sweResults, sweProcess, spilled>>
    PROVE  SweInv'
<1> USE DEF SweInv
<1>1. /\ Moves(t) /\ swe'[t].pc = "finally" /\ swe'[t].calls = swe[t].calls
      /\ swe'[t].env = swe[t].env
  BY DEF ThreadsInv, SweThread, SweStep, SweEnd, Moves
<1>2. PredsInv' /\ LatenciesInv'
  BY <1>1, PredsStay, LatenciesStay
<1>3. PredictedInv' /\ ContainersInv'
  BY <1>1, PredictedStays, ContainersStay DEF Running
<1>4. QED
  BY <1>1, <1>2, <1>3, ThreadsStay

LEMMA EnvironmentKeeps ==
    ASSUME SweInv, NEW t \in SweThreads, Environment(t)
    PROVE  SweInv'
<1> USE DEF SweInv
<1>1. /\ swe[t].pc = "env" /\ swe' = [swe EXCEPT ![t].pc = "agent", ![t].env = TRUE]
      /\ sweContainers' = sweContainers \cup {Container(t)}
      /\ UNCHANGED <<sweData, preds, predsLock, sweResults, sweProcess, spilled>>
  BY DEF Environment, SweAt
<1>2. /\ Moves(t) /\ swe'[t].pc = "agent" /\ swe'[t].calls = swe[t].calls
      /\ swe'[t].env = TRUE
  BY <1>1 DEF ThreadsInv, SweThread, SweStep, Moves
<1>3. PredsInv' /\ LatenciesInv'
  BY <1>1, <1>2, PredsStay, LatenciesStay
<1>4. PredictedInv'
  BY <1>1, <1>2, PredictedStays
<1>5. ContainersInv'
  <2>1. \A u \in SweThreads : Container(u)' = Container(u)
    BY <1>1, <1>2, ThreadsStay DEF Container
  <2>2. \A u \in SweThreads : u # t => swe'[u] = swe[u]
    BY <1>2 DEF Moves
  <2>3. ASSUME NEW c \in sweContainers' \ spilled'
        PROVE  \E u \in SweThreads : /\ swe'[u].pc \in {"agent", "finally", "write", "cleanup"}
                                     /\ c = Container(u) /\ swe'[u].env
    <3>1. CASE c = Container(t)
      BY <1>2, <3>1
    <3>2. CASE c # Container(t)
      <4>1. c \in sweContainers \ spilled
        BY <1>1, <3>2
      <4>2. QED
        BY <2>2, <3>2, <4>1 DEF ContainersInv
    <3>3. QED
      BY <3>1, <3>2
  <2>4. QED
    BY <2>1, <2>3 DEF ContainersInv
<1>6. QED
  BY <1>2, <1>3, <1>4, <1>5, ThreadsStay

LEMMA RecordCallKeeps ==
    ASSUME SweInv, NEW t \in SweThreads, RecordCall(t)
    PROVE  SweInv'
<1> USE DEF SweInv
<1>1. /\ swe[t].pc = "agent" /\ swe[t].calls < MaxSweCalls
      /\ swe' = [swe EXCEPT ![t].calls = @ + 1]
      /\ sweData' = [sweData EXCEPT ![Instance(t)] = @ + 1]
      /\ UNCHANGED <<preds, predsLock, sweContainers, sweResults, sweProcess, spilled>>
  BY DEF RecordCall, SweAt
<1>2. /\ Moves(t) /\ swe'[t].pc = "agent" /\ swe'[t].calls = swe[t].calls + 1
      /\ swe'[t].env = swe[t].env
  <2>1. swe[t] \in SweThread
    BY DEF ThreadsInv
  <2>2. swe[t].calls + 1 \in 0 .. MaxSweCalls
    BY <1>1, <2>1, SweAssumption DEF SweThread
  <2> DEFINE n == swe[t].calls + 1
  <2>3. swe' = [swe EXCEPT ![t].calls = n]
    BY <1>1
  <2> HIDE DEF n
  <2>4. /\ swe'[t] = [swe[t] EXCEPT !.calls = n]
        /\ \A u \in SweThreads : u # t => swe'[u] = swe[u]
    BY <2>3 DEF ThreadsInv
  <2>5. swe' \in [SweThreads -> SweThread]
    BY <2>2, <2>3 DEF ThreadsInv, SweThread, n
  <2>6. /\ swe'[t].pc = "agent" /\ swe'[t].calls = n /\ swe'[t].env = swe[t].env
        /\ swe'[t].todo = swe[t].todo
    BY <1>1, <2>1, <2>4 DEF SweThread
  <2>7. QED
    BY <1>1, <2>4, <2>5, <2>6 DEF Moves, n
<1>3. PredsInv' /\ PredictedInv' /\ ContainersInv'
  BY <1>1, <1>2, PredsStay, PredictedStays, ContainersStay
<1>4. LatenciesInv'
  <2>1. \A u \in SweThreads : u # t /\ swe[u].pc # "done" => Instance(u) # Instance(t)
    BY <1>1, InstancesDiffer
  <2>2. \A u \in SweThreads : Instance(u)' = Instance(u)
    BY <1>2, ThreadsStay
  <2>3. Instance(t) \in DOMAIN sweData /\ sweData[Instance(t)] = swe[t].calls
    BY <1>1 DEF LatenciesInv
  <2>4. /\ DOMAIN sweData' = DOMAIN sweData
        /\ sweData'[Instance(t)] = sweData[Instance(t)] + 1
        /\ \A i \in DOMAIN sweData : i # Instance(t) => sweData'[i] = sweData[i]
    BY <1>1, <2>3
  <2>5. ASSUME NEW u \in SweThreads
        PROVE  /\ swe'[u].pc \in {"start", "env"} => swe'[u].calls = 0
               /\ swe'[u].pc \notin {"start", "done"} =>
                      Instance(u) \in DOMAIN sweData' /\ sweData'[Instance(u)] = swe'[u].calls
    <3>1. CASE u = t
      BY <1>1, <1>2, <2>3, <2>4, <3>1
    <3>2. CASE u # t
      BY <1>2, <2>1, <2>4, <3>2 DEF LatenciesInv, Moves
    <3>3. QED
      BY <3>1, <3>2
  <2>6. LatenciesOfAttempt'
    BY <1>1 DEF LatenciesInv, LatenciesOfAttempt
  <2>7. QED
    BY <2>2, <2>4, <2>5, <2>6 DEF LatenciesInv
<1>5. QED
  BY <1>2, <1>3, <1>4, ThreadsStay

LEMMA ReadPredsKeeps ==
    ASSUME SweInv, NEW t \in SweThreads, ReadPreds(t)
    PROVE  SweInv'
<1> USE DEF SweInv
<1>1. /\ swe[t].pc = "finally" /\ predsLock = "free" /\ predsLock' = t
      /\ swe' = [swe EXCEPT ![t].pc = "write", ![t].read = Kept]
      /\ UNCHANGED <<sweData, preds, sweContainers, sweResults, sweProcess, spilled>>
  BY DEF ReadPreds, SweAt
<1>2. Kept = preds.of /\ Kept \in Patches
  BY DEF PredsInv, Kept
<1>3. /\ Moves(t) /\ swe'[t].pc = "write" /\ swe'[t].calls = swe[t].calls
      /\ swe'[t].env = swe[t].env /\ swe'[t].read = preds.of
  BY <1>1, <1>2 DEF ThreadsInv, SweThread, SweStep, Moves
<1>4. LatenciesInv' /\ PredictedInv' /\ ContainersInv'
  BY <1>1, <1>3, LatenciesStay, PredictedStays, ContainersStay DEF Running
<1>5. PredsInv'
  <2>1. \A u \in SweThreads : swe[u].pc # "write"
    BY <1>1, SweAssumption DEF PredsInv, SweAt
  <2>2. ASSUME NEW u \in SweThreads
        PROVE  /\ swe'[u].pc = "write" <=> predsLock' = u
               /\ swe'[u].pc = "write" => swe'[u].read = preds'.of
    <3>1. CASE u = t
      BY <1>1, <1>3, <3>1
    <3>2. CASE u # t
      BY <1>1, <1>3, <2>1, <3>2 DEF Moves
    <3>3. QED
      BY <3>1, <3>2
  <2>3. QED
    BY <1>1, <2>2 DEF PredsInv, SweAt
<1>6. QED
  BY <1>3, <1>4, <1>5, ThreadsStay

\* The lock goes back when the file is as it should be.
LEMMA PredsUnlock ==
    ASSUME PredsInv, NEW t \in SweThreads, Moves(t), swe[t].pc = "write", swe'[t].pc # "write",
           predsLock' = "free", preds' \in [torn : BOOLEAN, of : Patches],
           preds'.torn => preds'.of = <<>>
    PROVE  PredsInv'
<1>1. \A u \in SweThreads : u # t => swe[u].pc # "write"
  BY DEF PredsInv, SweAt
<1>2. \A u \in SweThreads : swe'[u].pc # "write" /\ u # "free"
  BY <1>1, SweAssumption DEF Moves
<1>3. QED
  BY <1>2 DEF PredsInv, SweAt

LEMMA WritePredsKeeps ==
    ASSUME SweInv, NEW t \in SweThreads, WritePreds(t)
    PROVE  SweInv'
<1> USE DEF SweInv
<1> DEFINE of == SweWith(swe[t].read, Instance(t), swe[t].end.patch)
<1>1. /\ swe[t].pc = "write" /\ predsLock' = "free"
      /\ preds' = [torn |-> FALSE, of |-> of]
      /\ swe' = [swe EXCEPT ![t].pc = "cleanup", ![t].read = <<>>]
      /\ UNCHANGED <<sweData, sweContainers, sweResults, sweProcess, spilled>>
  BY DEF WritePreds, SweAt
<1>2. /\ Moves(t) /\ swe'[t].pc = "cleanup" /\ swe'[t].calls = swe[t].calls
      /\ swe'[t].env = swe[t].env /\ swe'[t].end = swe[t].end
  <2>1. <<>> \in Patches
    BY PatchesAre
  <2>2. QED
    BY <1>1, <2>1 DEF ThreadsInv, SweThread, SweStep, Moves
<1>3. /\ of \in Patches /\ DOMAIN of = DOMAIN preds.of \cup {Instance(t)}
      /\ of[Instance(t)] = swe[t].end.patch
      /\ \A k \in DOMAIN preds.of : k # Instance(t) => of[k] = preds.of[k]
  <2>1. swe[t].read = preds.of /\ preds.of \in Patches
    BY <1>1 DEF PredsInv, SweAt
  <2>2. swe[t].end.patch \in {"long", "short"}
    BY DEF ThreadsInv, SweThread, SweEnd, SweEndings, Unfinished
  <2>3. Instance(t) \in Instances
    BY <1>1, InstancesDiffer
  <2> DEFINE f == preds.of
             i == Instance(t)
             v == swe[t].end.patch
  <2>4. f \in Patches /\ i \in Instances /\ v \in {"long", "short"} /\ of = SweWith(f, i, v)
    BY <2>1, <2>2, <2>3
  <2> HIDE DEF f, i, v, of
  <2>5. of \in Patches /\ DOMAIN of = DOMAIN f \cup {i} /\ of[i] = v
    BY <2>4, PatchesWith
  <2>6. \A k \in DOMAIN f : k # i => of[k] = f[k]
    BY <2>4 DEF SweWith
  <2>7. QED
    BY <2>5, <2>6 DEF f, i, v
<1> HIDE DEF of
<1>4. PredsInv'
  BY <1>1, <1>2, <1>3, PredsUnlock
<1>5. LatenciesInv' /\ ContainersInv'
  BY <1>1, <1>2, LatenciesStay, ContainersStay DEF Running
<1>6. PredictedInv'
  <2>1. \A u \in SweThreads : Instance(u)' = Instance(u)
    BY <1>2, ThreadsStay
  <2>2. \A u \in SweThreads : u # t /\ swe[u].pc # "done" => Instance(u) # Instance(t)
    BY <1>1, InstancesDiffer
  <2>3. \A i : i # Instance(t) => (NotShort(i)' <=> NotShort(i))
    BY <1>1, <1>3 DEF NotShort
  <2>4. ASSUME NEW u \in SweThreads, swe'[u].pc \in {"cleanup", "result"}, SwePassed(swe'[u].end)
        PROVE  NotShort(Instance(u))'
    <3>1. CASE u = t
      <4>1. swe[t].end.patch = "long"
        BY <1>2, <2>4, <3>1 DEF SwePassed, HasPatch
      <4>2. QED
        BY <1>1, <1>3, <2>1, <3>1, <4>1 DEF NotShort
    <3>2. CASE u # t
      <4>1. swe'[u] = swe[u] /\ NotShort(Instance(u))
        BY <1>2, <2>4, <3>2 DEF Moves, PredictedInv
      <4>2. Instance(u) # Instance(t)
        BY <2>2, <2>4, <3>2, <4>1
      <4>3. QED
        BY <2>1, <2>3, <4>1, <4>2 DEF NotShort
    <3>3. QED
      BY <3>1, <3>2
  <2>5. ASSUME NEW i \in DOMAIN sweResults, sweResults[i].passed,
               \A u \in SweThreads : ~TurnOf(u, i)'
        PROVE  NotShort(i)'
    <3>1. \A u \in SweThreads : ~TurnOf(u, i)
      BY <1>2, <2>1, <2>5 DEF TurnOf, Moves
    <3>2. i # Instance(t)
      BY <1>1, <3>1 DEF TurnOf, ThreadsInv
    <3>3. QED
      BY <2>3, <2>5, <3>1, <3>2 DEF PredictedInv
  <2>6. QED
    BY <1>1, <2>4, <2>5 DEF PredictedInv
<1>7. QED
  BY <1>2, <1>4, <1>5, <1>6, ThreadsStay

LEMMA WriteFailsKeeps ==
    ASSUME SweInv, NEW t \in SweThreads, NEW torn \in BOOLEAN, WriteFails(t, torn)
    PROVE  SweInv'
<1> USE DEF SweInv
<1> DEFINE end == [status |-> "error", patch |-> "short"]
<1>1. /\ swe[t].pc = "write" /\ predsLock' = "free"
      /\ preds' = IF torn THEN [torn |-> TRUE, of |-> <<>>] ELSE preds
      /\ spilled' = spilled \cup {c \in {Container(t)} : swe[t].env}
      /\ swe' = [swe EXCEPT ![t].pc = "result", ![t].read = <<>>, ![t].end = end]
      /\ UNCHANGED <<sweData, sweContainers, sweResults, sweProcess>>
  BY DEF WriteFails, SweAt
<1>2. /\ Moves(t) /\ swe'[t].pc = "result" /\ swe'[t].calls = swe[t].calls
      /\ swe'[t].env = swe[t].env /\ swe'[t].end = end
  <2>1. <<>> \in Patches
    BY PatchesAre
  <2>2. end \in SweEnd
    BY DEF SweEnd, SweEndings
  <2> HIDE DEF end
  <2>3. QED
    BY <1>1, <2>1, <2>2 DEF ThreadsInv, SweThread, SweStep, Moves
<1>3. ~SwePassed(swe'[t].end)
  BY <1>2 DEF SwePassed
<1>4. PredsInv'
  <2>1. preds' \in [torn : BOOLEAN, of : Patches] /\ (preds'.torn => preds'.of = <<>>)
    BY <1>1, PatchesAre DEF PredsInv
  <2>2. QED
    BY <1>1, <1>2, <2>1, PredsUnlock
<1>5. LatenciesInv'
  BY <1>1, <1>2, LatenciesStay
<1>6. PredictedInv'
  <2>1. CASE torn
    <3>1. \A i : NotShort(i)'
      BY <1>1, <2>1 DEF NotShort
    <3>2. QED
      BY <3>1 DEF PredictedInv
  <2>2. CASE ~torn
    BY <1>1, <1>2, <1>3, <2>2, PredictedStays
  <2>3. QED
    BY <2>1, <2>2
<1>7. ContainersInv'
  <2>1. \A u \in SweThreads : Container(u)' = Container(u)
    BY <1>1, <1>2, ThreadsStay DEF Container
  <2>2. \A u \in SweThreads : u # t => swe'[u] = swe[u]
    BY <1>2 DEF Moves
  <2>3. ASSUME NEW c \in sweContainers' \ spilled'
        PROVE  \E u \in SweThreads : /\ swe'[u].pc \in {"agent", "finally", "write", "cleanup"}
                                     /\ c = Container(u) /\ swe'[u].env
    <3>1. PICK u \in SweThreads : /\ swe[u].pc \in {"agent", "finally", "write", "cleanup"}
                                  /\ c = Container(u) /\ swe[u].env
      BY <1>1 DEF ContainersInv
    <3>2. u # t
      BY <1>1, <3>1
    <3>3. QED
      BY <2>2, <3>1, <3>2
  <2>4. QED
    BY <2>1, <2>3 DEF ContainersInv
<1>8. QED
  BY <1>2, <1>4, <1>5, <1>6, <1>7, ThreadsStay

LEMMA CleanupKeeps ==
    ASSUME SweInv, NEW t \in SweThreads, Cleanup(t)
    PROVE  SweInv'
<1> USE DEF SweInv
<1>1. /\ swe[t].pc = "cleanup" /\ swe' = [swe EXCEPT ![t].pc = "result"]
      /\ sweContainers' = sweContainers \ {Container(t)}
      /\ UNCHANGED <<sweData, preds, predsLock, sweResults, sweProcess, spilled>>
  BY DEF Cleanup, SweAt, SweGoes
<1>2. /\ Moves(t) /\ swe'[t].pc = "result" /\ swe'[t].calls = swe[t].calls
      /\ swe'[t].end = swe[t].end
  BY <1>1 DEF ThreadsInv, SweThread, SweStep, Moves
<1>3. PredsInv' /\ LatenciesInv' /\ PredictedInv'
  BY <1>1, <1>2, PredsStay, LatenciesStay, PredictedStays
<1>4. ContainersInv'
  <2>1. \A u \in SweThreads : Container(u)' = Container(u)
    BY <1>1, <1>2, ThreadsStay DEF Container
  <2>2. \A u \in SweThreads : u # t => swe'[u] = swe[u]
    BY <1>2 DEF Moves
  <2>3. ASSUME NEW c \in sweContainers' \ spilled'
        PROVE  \E u \in SweThreads : /\ swe'[u].pc \in {"agent", "finally", "write", "cleanup"}
                                     /\ c = Container(u) /\ swe'[u].env
    <3>1. PICK u \in SweThreads : /\ swe[u].pc \in {"agent", "finally", "write", "cleanup"}
                                  /\ c = Container(u) /\ swe[u].env
      BY <1>1 DEF ContainersInv
    <3>2. u # t
      BY <1>1, <3>1
    <3>3. QED
      BY <2>2, <3>1, <3>2
  <2>4. QED
    BY <2>1, <2>3 DEF ContainersInv
<1>5. QED
  BY <1>2, <1>3, <1>4, ThreadsStay

LEMMA SweResultKeeps ==
    ASSUME SweInv, NEW t \in SweThreads, SweResult(t)
    PROVE  SweInv'
<1> USE DEF SweInv
<1> DEFINE i == Instance(t)
           r == [passed |-> SwePassed(swe[t].end), made |-> swe[t].calls, calls |-> sweData[i]]
           next == NewThread(Tail(swe[t].todo))
<1>1. /\ swe[t].pc = "result" /\ swe[t].todo # <<>> /\ swe[t].todo \in Seq(Instances)
      /\ swe' = [swe EXCEPT ![t] = next]
      /\ sweResults' = SweWith(sweResults, i, r)
      /\ UNCHANGED <<sweData, preds, predsLock, sweContainers, sweProcess, spilled>>
  BY DEF SweResult, SweAt, ThreadsInv, SweThread
<1>2. /\ Tail(swe[t].todo) \in Seq(Instances)
      /\ Told(Tail(swe[t].todo)) \subseteq Told(swe[t].todo)
  BY <1>1, RestIs
<1>3. /\ next \in SweThread /\ next.todo = Tail(swe[t].todo) /\ next.calls = 0
      /\ next.pc \in {"start", "done"} /\ (next.pc = "done" <=> next.todo = <<>>)
  BY <1>2, ThreadIs
<1>4. /\ DOMAIN sweResults' = DOMAIN sweResults \cup {i} /\ sweResults'[i] = r
      /\ \A k \in DOMAIN sweResults : k # i => sweResults'[k] = sweResults[k]
  BY <1>1 DEF SweWith
<1>5. r.passed = SwePassed(swe[t].end) /\ r.made = swe[t].calls /\ r.calls = sweData[i]
  OBVIOUS
<1> HIDE DEF next, r
<1>6. /\ swe'[t] = next /\ swe' \in [SweThreads -> SweThread]
      /\ \A u \in SweThreads : u # t => swe'[u] = swe[u]
  BY <1>1, <1>3 DEF ThreadsInv
<1>7. ThreadsInv'
  <2>1. \A u \in SweThreads : Told(swe'[u].todo) \subseteq Told(swe[u].todo)
    BY <1>2, <1>3, <1>6
  <2>2. \A u, v \in SweThreads : u # v => Told(swe'[u].todo) \cap Told(swe'[v].todo) = {}
    BY <2>1 DEF ThreadsInv
  <2>3. \A u \in SweThreads : swe'[u].todo = <<>> <=> swe'[u].pc = "done"
    BY <1>3, <1>6 DEF ThreadsInv
  <2>4. QED
    BY <1>6, <2>2, <2>3 DEF ThreadsInv
<1>8. \A u \in SweThreads : u # t => Instance(u)' = Instance(u)
  BY <1>6 DEF Instance
<1>9. PredsInv'
  <2>1. \A u \in SweThreads : /\ swe'[u].pc = "write" <=> swe[u].pc = "write"
                              /\ swe'[u].pc = "write" => swe'[u].read = swe[u].read
    BY <1>1, <1>3, <1>6
  <2>2. QED
    BY <1>1, <2>1 DEF PredsInv, SweAt
<1>10. LatenciesInv'
  <2>1. \A u \in SweThreads :
            /\ swe'[u].pc \in {"start", "env"} => swe'[u].calls = 0
            /\ swe'[u].pc \notin {"start", "done"} =>
                   Instance(u)' \in DOMAIN sweData' /\ sweData'[Instance(u)'] = swe'[u].calls
    BY <1>1, <1>3, <1>6, <1>8 DEF LatenciesInv
  <2>2. sweData[i] = swe[t].calls
    BY <1>1 DEF LatenciesInv
  <2>3. LatenciesOfAttempt'
    BY <1>4, <1>5, <2>2 DEF LatenciesInv, LatenciesOfAttempt
  <2>4. QED
    BY <1>1, <2>1, <2>3 DEF LatenciesInv
<1>11. PredictedInv'
  <2>1. \A k : NotShort(k)' <=> NotShort(k)
    BY <1>1 DEF NotShort
  <2>2. ASSUME NEW u \in SweThreads, swe'[u].pc \in {"cleanup", "result"}, SwePassed(swe'[u].end)
        PROVE  NotShort(Instance(u))'
    <3>1. u # t
      BY <1>3, <1>6, <2>2
    <3>2. NotShort(Instance(u))
      BY <1>6, <2>2, <3>1 DEF PredictedInv
    <3>3. QED
      BY <1>1, <1>8, <3>1, <3>2 DEF NotShort
  <2>3. ASSUME NEW k \in DOMAIN sweResults', sweResults'[k].passed,
               \A u \in SweThreads : ~TurnOf(u, k)'
        PROVE  NotShort(k)'
    <3>1. CASE k = i
      BY <1>1, <1>4, <1>5, <2>1, <2>3, <3>1 DEF PredictedInv
    <3>2. CASE k # i
      <4>1. \A u \in SweThreads : ~TurnOf(u, k)
        BY <1>6, <1>8, <2>3, <3>2 DEF TurnOf
      <4>2. QED
        BY <1>4, <2>1, <2>3, <3>2, <4>1 DEF PredictedInv
    <3>3. QED
      BY <3>1, <3>2
  <2>4. QED
    BY <2>2, <2>3 DEF PredictedInv
<1>12. ContainersInv'
  <2>1. ASSUME NEW c \in sweContainers' \ spilled'
        PROVE  \E u \in SweThreads : /\ swe'[u].pc \in {"agent", "finally", "write", "cleanup"}
                                     /\ c = Container(u)' /\ swe'[u].env
    <3>1. PICK u \in SweThreads : /\ swe[u].pc \in {"agent", "finally", "write", "cleanup"}
                                  /\ c = Container(u) /\ swe[u].env
      BY <1>1 DEF ContainersInv
    <3>2. u # t
      BY <1>1, <3>1
    <3>3. Container(u)' = Container(u)
      BY <1>1, <1>8, <3>2 DEF Container
    <3>4. QED
      BY <1>6, <3>1, <3>2, <3>3
  <2>2. QED
    BY <2>1 DEF ContainersInv
<1>13. QED
  BY <1>7, <1>9, <1>10, <1>11, <1>12

LEMMA SweRestartKeeps ==
    ASSUME SweInv, SweRestart
    PROVE  SweInv'
<1> USE DEF SweInv
<1>1. PICK lists \in SwePlans : swe' = [t \in SweThreads |-> NewThread(lists[t])]
  BY DEF SweRestart
<1>2. /\ swe' \in [SweThreads -> SweThread]
      /\ \A t \in SweThreads : /\ swe'[t].todo = <<>> <=> swe'[t].pc = "done"
                               /\ swe'[t].pc \in {"start", "done"} /\ swe'[t].calls = 0
      /\ \A t, u \in SweThreads : t # u => Told(swe'[t].todo) \cap Told(swe'[u].todo) = {}
  BY <1>1, ThreadsStart
<1>3. /\ preds' = IF predsLock = "free" THEN preds ELSE [torn |-> TRUE, of |-> <<>>]
      /\ predsLock' = "free" /\ spilled' = spilled \cup sweContainers
      /\ sweData' = <<>> /\ sweResults' = <<>> /\ sweContainers' = sweContainers
  BY DEF SweRestart
<1>4. ThreadsInv'
  BY <1>2 DEF ThreadsInv
<1>5. PredsInv'
  <2>1. preds' \in [torn : BOOLEAN, of : Patches] /\ (preds'.torn => preds'.of = <<>>)
    BY <1>3, PatchesAre DEF PredsInv
  <2>2. \A t \in SweThreads : swe'[t].pc # "write" /\ t # "free"
    BY <1>2, SweAssumption
  <2>3. QED
    BY <1>3, <2>1, <2>2 DEF PredsInv, SweAt
<1>6. LatenciesInv'
  <2>1. DOMAIN sweData' = {} /\ DOMAIN sweResults' = {}
    BY <1>3
  <2>2. QED
    BY <1>2, <2>1 DEF LatenciesInv, LatenciesOfAttempt
<1>7. PredictedInv'
  BY <1>2, <1>3 DEF PredictedInv
<1>8. ContainersInv'
  BY <1>3 DEF ContainersInv
<1>9. QED
  BY <1>4, <1>5, <1>6, <1>7, <1>8

LEMMA SweInvHolds == SweSpec => []SweInv
<1>1. SweInit => SweInv
  <2> SUFFICES ASSUME NEW lists \in SwePlans, SweFrom(lists)
               PROVE  SweInv
    BY DEF SweInit
  <2>1. /\ swe = [t \in SweThreads |-> NewThread(lists[t])]
        /\ sweData = <<>> /\ preds = [torn |-> FALSE, of |-> <<>>] /\ predsLock = "free"
        /\ sweContainers = {} /\ sweResults = <<>>
    BY DEF SweFrom
  <2>2. /\ swe \in [SweThreads -> SweThread]
        /\ \A t \in SweThreads : /\ swe[t].todo = <<>> <=> swe[t].pc = "done"
                                 /\ swe[t].pc \in {"start", "done"} /\ swe[t].calls = 0
        /\ \A t, u \in SweThreads : t # u => Told(swe[t].todo) \cap Told(swe[u].todo) = {}
    BY <2>1, ThreadsStart
  <2>3. ThreadsInv
    BY <2>2 DEF ThreadsInv
  <2>4. PredsInv
    <3>1. preds \in [torn : BOOLEAN, of : Patches] /\ ~preds.torn
      BY <2>1, PatchesAre
    <3>2. \A t \in SweThreads : swe[t].pc # "write" /\ t # "free"
      BY <2>2, SweAssumption
    <3>3. QED
      BY <2>1, <3>1, <3>2 DEF PredsInv, SweAt
  <2>5. LatenciesInv
    <3>1. DOMAIN sweData = {} /\ DOMAIN sweResults = {}
      BY <2>1
    <3>2. QED
      BY <2>2, <3>1 DEF LatenciesInv, LatenciesOfAttempt
  <2>6. PredictedInv /\ ContainersInv
    BY <2>1, <2>2 DEF PredictedInv, ContainersInv
  <2>7. QED
    BY <2>3, <2>4, <2>5, <2>6 DEF SweInv
<1>2. SweInv /\ [SweNext]_sweVars => SweInv'
  <2> SUFFICES ASSUME SweInv, [SweNext]_sweVars
               PROVE  SweInv'
    OBVIOUS
  <2>1. CASE SweRestart
    BY <2>1, SweRestartKeeps
  <2>2. ASSUME NEW t \in SweThreads, SweThreadStep(t)
        PROVE  SweInv'
    <3>1. CASE NoEnvironment(t) \/ AgentRaises(t)
      <4>1. [status |-> "error", patch |-> "short"] \in SweEndings
        BY DEF SweEndings
      <4>2. QED
        BY <3>1, <4>1, AttemptEndsKeeps DEF NoEnvironment, AgentRaises, Raise, SweAt
    <3>2. CASE \E end \in SweEndings : AgentEnds(t, end)
      BY <3>2, AttemptEndsKeeps DEF AgentEnds, SweAt
    <3>3. CASE \E torn \in BOOLEAN : WriteFails(t, torn)
      BY <3>3, WriteFailsKeeps
    <3>4. QED
      BY <2>2, <3>1, <3>2, <3>3, StartInstanceKeeps, EnvironmentKeeps, RecordCallKeeps,
         ReadPredsKeeps, WritePredsKeeps, CleanupKeeps, SweResultKeeps DEF SweThreadStep
  <2>3. CASE UNCHANGED sweVars
    <3>1. UNCHANGED <<swe, sweData, preds, predsLock, sweContainers, sweResults, sweProcess,
                      spilled>>
      BY <2>3 DEF sweVars
    <3>2. \A t \in SweThreads : Instance(t)' = Instance(t) /\ Container(t)' = Container(t)
      BY <3>1 DEF Instance, Container
    <3>3. \A i : /\ NotShort(i)' <=> NotShort(i)
                 /\ \A u \in SweThreads : TurnOf(u, i)' <=> TurnOf(u, i)
      BY <3>1, <3>2 DEF NotShort, TurnOf
    <3>4. ThreadsInv' /\ PredsInv'
      BY <3>1 DEF SweInv, ThreadsInv, PredsInv, SweAt
    <3>5. LatenciesInv'
      BY <3>1, <3>2 DEF SweInv, LatenciesInv, LatenciesOfAttempt
    <3>6. PredictedInv'
      BY <3>1, <3>2, <3>3 DEF SweInv, PredictedInv
    <3>7. ContainersInv'
      BY <3>1, <3>2 DEF SweInv, ContainersInv
    <3>8. QED
      BY <3>4, <3>5, <3>6, <3>7 DEF SweInv
  <2>4. QED
    BY <2>1, <2>2, <2>3 DEF SweNext
<1>3. QED
  BY <1>1, <1>2, PTL DEF SweSpec

SweKeeps == SweTypeOK /\ PassedIsPredicted /\ LatenciesOfAttempt /\ ContainersRemoved

LEMMA SweInvImplies == SweInv => SweKeeps
<1> SUFFICES ASSUME SweInv
             PROVE  SweKeeps
  OBVIOUS
<1> USE DEF SweInv
<1>1. SweTypeOK
  <2>1. \A t \in SweThreads : swe[t] \in SweThread
    BY DEF ThreadsInv
  <2>2. DOMAIN preds.of \subseteq Instances
    BY PatchesAre DEF PredsInv
  <2>3. QED
    BY <2>1, <2>2 DEF SweThread, SweStep, SweEnd, PredsInv, LatenciesInv, SweTypeOK
<1>2. PassedIsPredicted
  BY DEF PredictedInv, NotShort, PassedIsPredicted
<1>3. ContainersRemoved
  <2> SUFFICES ASSUME NEW c \in sweContainers \ spilled
               PROVE  /\ c[1] = sweProcess /\ TurnOf(c[2], c[3])
                      /\ swe[c[2]].pc \notin {"start", "result"}
    BY DEF ContainersRemoved
  <2>1. PICK t \in SweThreads : /\ swe[t].pc \in {"agent", "finally", "write", "cleanup"}
                                /\ c = Container(t)
    BY DEF ContainersInv
  <2>2. c[1] = sweProcess /\ c[2] = t /\ c[3] = Instance(t)
    BY <2>1 DEF Container
  <2>3. swe[t].todo # <<>>
    BY <2>1 DEF ThreadsInv
  <2>4. QED
    BY <2>1, <2>2, <2>3 DEF TurnOf
<1>4. QED
  BY <1>1, <1>2, <1>3 DEF LatenciesInv, SweKeeps

-------------------------------------------------------------------------------
(* Whatever the threads and tasks of the adapters do, in every order and    *)
(* with every failure: results, latencies and containers of SWE-bench are   *)
(* those of their own attempt (_run_mswa_instance, _update_preds), the pool *)
(* and the index of the six phases are built once and no replica is lost    *)
(* (_get_llama_pool, _get_retrieval), and the vLLM server that is measured  *)
(* was started for its task and does not outlive the teardown (_stop_server).*)
THEOREM AdaptersAreKept == SweSpec /\ PhaseSpec /\ ServerSpec => []AdaptersKeep
<1>1. SweInv /\ PhaseInv /\ ServerInv => AdaptersKeep
  BY SweInvImplies, PhaseInvImplies, ServerInvImplies
     DEF SweKeeps, PhasesKeep, ServersKeep, AdaptersKeep
<1>2. QED
  BY <1>1, SweInvHolds, PhaseInvHolds, ServerInvHolds, PTL

\* No writer drops the prediction of another instance: what _update_preds read of
\* preds.json is what the file still has when it writes, in whatever order the
\* threads end, until a write is cut.
THEOREM OthersPredictionsStay == SweSpec => [][PredictionsStay]_sweVars
<1>1. SweInv /\ [SweNext]_sweVars => PredictionsStay
  <2> SUFFICES ASSUME SweInv, [SweNext]_sweVars, preds' # preds
               PROVE  DOMAIN preds.of \subseteq DOMAIN preds'.of \/ preds'.torn
    BY DEF PredictionsStay
  <2>1. CASE SweRestart
    BY <2>1 DEF SweRestart
  <2>2. ASSUME NEW t \in SweThreads, WritePreds(t)
        PROVE  DOMAIN preds.of \subseteq DOMAIN preds'.of
    <3>1. swe[t].read = preds.of
      BY <2>2 DEF WritePreds, SweInv, PredsInv
    <3>2. preds'.of = SweWith(preds.of, Instance(t), swe[t].end.patch)
      BY <2>2, <3>1 DEF WritePreds
    <3>3. QED
      BY <3>2 DEF SweWith
  <2>3. ASSUME NEW t \in SweThreads, NEW torn \in BOOLEAN, WriteFails(t, torn)
        PROVE  preds'.torn
    BY <2>3 DEF WriteFails
  <2>4. ASSUME NEW t \in SweThreads, SweThreadStep(t), ~WritePreds(t),
               \A torn \in BOOLEAN : ~WriteFails(t, torn)
        PROVE  FALSE
    BY <2>4 DEF SweThreadStep, StartInstance, NoEnvironment, Environment, RecordCall,
       AgentRaises, AgentEnds, ReadPreds, Cleanup, SweResult
  <2>5. CASE UNCHANGED sweVars
    BY <2>5 DEF sweVars
  <2>6. QED
    BY <2>1, <2>2, <2>3, <2>4, <2>5 DEF SweNext
<1>2. QED
  BY <1>1, SweInvHolds, PTL DEF SweSpec

-------------------------------------------------------------------------------
(* What is picked of a list.                                               *)

LEMMA LeastNumber ==
    ASSUME NEW T \in SUBSET Nat, T # {}
    PROVE  \E n \in T : \A m \in T : n <= m
<1> DEFINE R == OpToRel(<, Nat)
<1>1. IsWellFoundedOn(R, Nat)
  BY NatLessThanWellFounded
<1> HIDE DEF R
<1>2. PICK n \in T : \A m \in T : <<m, n>> \notin R
  BY <1>1, WFMin
<1>3. \A m \in T : m < n => <<m, n>> \in R
  BY DEF R, OpToRel
<1>4. \A m \in T : ~ (m < n)
  BY <1>2, <1>3
<1>5. \A m \in T : n <= m
  BY <1>4
<1> QED
  BY <1>5

\* f is Picking, as far as the n-th entry.
PickedUpTo(seq, S, f, n) ==
    f = [k \in 0 .. n |-> IF k = 0 THEN <<>>
                          ELSE IF seq[k] \in S THEN Append(f[k - 1], seq[k]) ELSE f[k - 1]]

LEMMA PickedUpToExists ==
    ASSUME NEW seq, NEW S, NEW n \in Nat
    PROVE  \E f : PickedUpTo(seq, S, f, n)
<1> DEFINE T == {m \in Nat : ~ \E f : PickedUpTo(seq, S, f, m)}
           Next1(s, k) == IF seq[k] \in S THEN Append(s, seq[k]) ELSE s
<1>1. SUFFICES ASSUME T # {} PROVE FALSE
  OBVIOUS
<1>2. PICK m \in T : \A k \in T : m <= k
  BY <1>1, LeastNumber
<1>3. PickedUpTo(seq, S, [k \in 0 .. 0 |-> <<>>], 0)
  BY DEF PickedUpTo
<1>4. m # 0
  BY <1>2, <1>3
<1>5. m - 1 \in Nat /\ m - 1 \notin T
  BY <1>2, <1>4
<1>6. PICK f : PickedUpTo(seq, S, f, m - 1)
  BY <1>5
<1> DEFINE g == [k \in 0 .. m |-> IF k = m THEN Next1(f[m - 1], m) ELSE f[k]]
<1>7. \A k \in 0 .. m - 1 : f[k] = IF k = 0 THEN <<>> ELSE Next1(f[k - 1], k)
  BY <1>5, <1>6 DEF PickedUpTo
<1>8. ASSUME NEW k \in 0 .. m
      PROVE  g[k] = IF k = 0 THEN <<>> ELSE Next1(g[k - 1], k)
  <2> HIDE DEF Next1
  <2>1. CASE k = m
    <3>1. g[k] = Next1(f[m - 1], m) /\ g[k - 1] = f[m - 1]
      BY <2>1, <1>4, <1>5
    <3>2. QED
      BY <3>1, <2>1, <1>4
  <2>2. CASE k # m
    <3>1. k \in 0 .. m - 1 /\ g[k] = f[k]
      BY <2>2, <1>5
    <3>2. k # 0 => g[k - 1] = f[k - 1]
      BY <2>2, <3>1, <1>5
    <3>3. QED
      BY <3>1, <3>2, <1>7
  <2>3. QED
    BY <2>1, <2>2
<1> HIDE DEF g
<1>9. PickedUpTo(seq, S, g, m)
  <2>1. g = [k \in 0 .. m |-> g[k]]
    BY DEF g
  <2>2. QED
    BY <2>1, <1>8 DEF PickedUpTo
<1> QED
  BY <1>2, <1>9

LEMMA PickingIs ==
    ASSUME NEW seq, NEW S, Len(seq) \in Nat
    PROVE  /\ Picking(seq, S)[0] = <<>>
           /\ \A k \in 1 .. Len(seq) :
                 Picking(seq, S)[k] = IF seq[k] \in S THEN Append(Picking(seq, S)[k - 1], seq[k])
                                                      ELSE Picking(seq, S)[k - 1]
<1> DEFINE f == Picking(seq, S)
<1>1. f = CHOOSE g : PickedUpTo(seq, S, g, Len(seq))
  BY DEF Picking, PickedUpTo
<1>2. \E g : PickedUpTo(seq, S, g, Len(seq))
  BY PickedUpToExists
<1>3. PickedUpTo(seq, S, f, Len(seq))
  BY <1>1, <1>2
<1> HIDE DEF f
<1>4. f = [k \in 0 .. Len(seq) |->
              IF k = 0 THEN <<>>
              ELSE IF seq[k] \in S THEN Append(f[k - 1], seq[k]) ELSE f[k - 1]]
  BY <1>3 DEF PickedUpTo
<1> DEFINE One(s, k) == IF seq[k] \in S THEN Append(s, seq[k]) ELSE s
<1>5. f[0] = <<>> /\ \A k \in 1 .. Len(seq) : f[k] = One(f[k - 1], k)
  <2>1. f = [k \in 0 .. Len(seq) |-> IF k = 0 THEN <<>> ELSE One(f[k - 1], k)]
    BY <1>4
  <2> HIDE DEF One
  <2>2. QED
    BY <2>1
<1>6. QED
  BY <1>5 DEF f

\* What is picked of the first n entries: those of them that are in S.
LEMMA PickedSoFar ==
    ASSUME NEW seq, IsSequence(seq), NEW S, NEW n \in 0 .. Len(seq)
    PROVE  /\ Picking(seq, S)[n] \in Seq(ToSet(seq) \cap S)
           /\ \A k \in 1 .. n : seq[k] \in S => seq[k] \in ToSet(Picking(seq, S)[n])
<1> DEFINE f == Picking(seq, S)
           P(m) == /\ f[m] \in Seq(ToSet(seq) \cap S)
                   /\ \A k \in 1 .. m : seq[k] \in S => seq[k] \in ToSet(f[m])
           T == {m \in Nat : m <= Len(seq) /\ ~P(m)}
<1>0. Len(seq) \in Nat /\ DOMAIN seq = 1 .. Len(seq)
  BY DEF IsSequence
<1>1. SUFFICES ASSUME T # {} PROVE FALSE
  BY <1>0
<1>2. PICK m \in T : \A k \in T : m <= k
  BY <1>1, LeastNumber
<1>3. f[0] = <<>>
  BY <1>0, PickingIs
<1>4. m # 0
  <2>1. P(0)
    BY <1>3
  <2>2. QED
    BY <1>2, <2>1
<1>5. m \in 1 .. Len(seq) /\ m - 1 \in Nat /\ P(m - 1)
  <2> HIDE DEF P
  <2>1. m \in 1 .. Len(seq) /\ m - 1 \in Nat /\ m - 1 <= Len(seq) /\ ~ (m <= m - 1)
    BY <1>2, <1>4, <1>0
  <2>2. m - 1 \notin T
    BY <1>2, <2>1
  <2>3. QED
    BY <2>1, <2>2
<1>6. f[m] = IF seq[m] \in S THEN Append(f[m - 1], seq[m]) ELSE f[m - 1]
  BY <1>5, <1>0, PickingIs
<1>7. seq[m] \in ToSet(seq)
  BY <1>5, <1>0 DEF ToSet
<1> HIDE DEF f
<1>8. CASE seq[m] \in S
  <2> DEFINE s == f[m - 1]
  <2>1. f[m] = Append(s, seq[m]) /\ s \in Seq(ToSet(seq) \cap S)
    BY <1>8, <1>6, <1>5
  <2> HIDE DEF s
  <2>2. f[m] \in Seq(ToSet(seq) \cap S)
    BY <2>1, <1>7, <1>8
  <2>3. ToSet(f[m]) = ToSet(s) \cup {seq[m]}
    <3>1. /\ DOMAIN f[m] = 1 .. Len(s) + 1 /\ Len(s) \in Nat /\ DOMAIN s = 1 .. Len(s)
          /\ f[m][Len(s) + 1] = seq[m]
          /\ \A i \in 1 .. Len(s) : f[m][i] = s[i]
      BY <2>1
    <3>2. QED
      BY <3>1 DEF ToSet
  <2>4. \A k \in 1 .. m : k = m \/ k \in 1 .. m - 1
    BY <1>5
  <2>5. P(m)
    BY <2>2, <2>3, <2>4, <1>5 DEF s
  <2>6. QED
    BY <2>5, <1>2
<1>9. CASE seq[m] \notin S
  <2>1. f[m] = f[m - 1]
    BY <1>9, <1>6
  <2>2. \A k \in 1 .. m : seq[k] \in S => k \in 1 .. m - 1
    BY <1>5, <1>9
  <2>3. P(m)
    BY <2>1, <2>2, <1>5
  <2>4. QED
    BY <2>3, <1>2
<1> QED
  BY <1>8, <1>9

LEMMA PickedIs ==
    ASSUME NEW seq, IsSequence(seq), NEW S
    PROVE  /\ Picked(seq, S) \in Seq(ToSet(seq) \cap S)
           /\ ToSet(Picked(seq, S)) = ToSet(seq) \cap S
<1> DEFINE p == Picked(seq, S)
<1>0. Len(seq) \in Nat /\ DOMAIN seq = 1 .. Len(seq)
  BY DEF IsSequence
<1>1. /\ p \in Seq(ToSet(seq) \cap S)
      /\ \A k \in 1 .. Len(seq) : seq[k] \in S => seq[k] \in ToSet(p)
  BY <1>0, PickedSoFar DEF Picked
<1> HIDE DEF p
<1>2. ToSet(p) \subseteq ToSet(seq) \cap S
  BY <1>1 DEF ToSet
<1>3. ToSet(seq) \cap S \subseteq ToSet(p)
  BY <1>0, <1>1 DEF ToSet
<1> QED
  BY <1>1, <1>2, <1>3 DEF p

-------------------------------------------------------------------------------
(* Lists of tasks and their limits.                                        *)

LEMMA MinOf ==
    ASSUME NEW T \in SUBSET Nat, T # {}
    PROVE  Min(T) \in T /\ \A m \in T : Min(T) <= m
BY LeastNumber DEF Min

LEMMA MaxOf ==
    ASSUME NEW n \in Nat, NEW T \in SUBSET (1 .. n), T # {}
    PROVE  Max(T) \in T
<1> DEFINE D == {n - m : m \in T}
<1>1. D \in SUBSET Nat /\ D # {}
  <2>1. \A m \in T : n - m \in Nat
    OBVIOUS
  <2>2. QED
    BY <2>1
<1>2. PICK d \in D : \A e \in D : d <= e
  BY <1>1, LeastNumber
<1>3. PICK x \in T : d = n - x
  BY <1>2
<1>4. \A y \in T : n - y \in D
  OBVIOUS
<1>5. \A y \in T : x >= y
  BY <1>2, <1>3, <1>4
<1> QED
  BY <1>3, <1>5 DEF Max

LEMMA FirstIs ==
    ASSUME NEW X, NEW seq \in Seq(X), NEW n \in Nat
    PROVE  /\ First(n, seq) \in Seq(X) /\ IsPrefix(First(n, seq), seq)
           /\ Len(First(n, seq)) = Min({n, Len(seq)})
<1>1. Min({n, Len(seq)}) = IF n < Len(seq) THEN n ELSE Len(seq)
  <2>0. {n, Len(seq)} \in SUBSET Nat /\ {n, Len(seq)} # {}
    OBVIOUS
  <2>1. Min({n, Len(seq)}) \in {n, Len(seq)} /\ \A m \in {n, Len(seq)} : Min({n, Len(seq)}) <= m
    BY <2>0, MinOf
  <2>2. QED
    BY <2>1
<1>2. CASE n < Len(seq)
  <2>1. /\ First(n, seq) = SubSeq(seq, 1, n) /\ First(n, seq) \in Seq(X)
        /\ Len(First(n, seq)) = n
    BY <1>2 DEF First
  <2>2. SubSeq(First(n, seq), 1, n) = SubSeq(seq, 1, n)
    BY <1>2, <2>1
  <2>3. QED
    BY <1>1, <1>2, <2>1, <2>2 DEF IsPrefix
<1>3. CASE ~ (n < Len(seq))
  BY <1>1, <1>3 DEF First, IsPrefix
<1> QED
  BY <1>2, <1>3

LEMMA UptoIs ==
    ASSUME NEW X, NEW seq \in Seq(X), NEW adapter, NEW limit \in {NoLimit} \cup Nat
    PROVE  /\ Upto(adapter, limit, seq) \in Seq(X) /\ IsPrefix(Upto(adapter, limit, seq), seq)
           /\ limit # NoLimit /\ limit > 0 =>
                  Len(Upto(adapter, limit, seq)) = Min({limit, Len(seq)})
<1>1. IsPrefix(seq, seq)
  BY DEF IsPrefix
<1>2. CASE limit = NoLimit \/ limit = 0
  BY <1>1, <1>2, FirstIs DEF Upto, NoLimit
<1>3. CASE limit # NoLimit /\ limit > 0
  BY <1>3, FirstIs DEF Upto, NoLimit
<1> QED
  BY <1>2, <1>3 DEF NoLimit

\* A call of fn is one of nothing else.
LEMMA ListTasksKeeps ==
    ASSUME ListTasks
    PROVE  TasksAsAsked'
<1>1. PICK adapter \in Adapters, tasks \in Catalogues, limit \in {NoLimit, 0, 1, 2},
           include \in Selectors, exclude \in Selectors :
           Answer("list_tasks",
                  [adapter |-> adapter, tasks |-> tasks, include |-> include,
                   exclude |-> exclude, limit |-> limit],
                  list_tasks(adapter, tasks, include, exclude, limit))
  BY DEF ListTasks
<1> DEFINE all == WantedOf(adapter, tasks, include, exclude)
<1>2. IsSequence(tasks)
  BY CataloguesAssumption
<1>3. PICK X : all \in Seq(X)
  BY <1>2, PickedIs DEF WantedOf
<1>4. /\ call'.fn = "list_tasks" /\ call'.args.limit = limit
      /\ call'.result = Upto(adapter, limit, all)
      /\ list_tasks(call'.args.adapter, call'.args.tasks, call'.args.include,
                    call'.args.exclude, NoLimit) = all
  BY <1>1 DEF Answer, list_tasks, Upto
<1> HIDE DEF all
<1>5. /\ IsPrefix(Upto(adapter, limit, all), all)
      /\ limit # NoLimit /\ limit > 0 =>
             Len(Upto(adapter, limit, all)) = Min({limit, Len(all)})
  <2>1. limit \in {NoLimit} \cup Nat
    OBVIOUS
  <2>2. QED
    BY <1>3, <2>1, UptoIs
<1>6. LimitKeepsTheBeginning'
  BY <1>4, <1>5 DEF LimitKeepsTheBeginning
<1>7. QED
  BY <1>4, <1>6 DEF TasksAsAsked, NamedAreRun, CacheIsFaithful, PassedOnSubstance,
     FileSearchIsAct, WrapperChangesNothing, Called

-------------------------------------------------------------------------------
(* The tasks of a run.                                                     *)

\* What is loaded of a dataset when tasks are named.
LEMMA LoadedIs ==
    ASSUME NEW dataset \in Datasets, NEW request \in RunRequests, request.tasks # <<>>
    PROVE  LET loaded == load_tasks_from_harbor_registry(dataset, NamesOf(request),
                                                         LoadLimit(request))
           IN  /\ IsSequence(loaded)
               /\ ToSet(loaded) = ToSet(dataset) \cap ToSet(NamesOf(request))
<1>1. IsSequence(dataset) /\ IsSequence(request.tasks)
  BY DatasetsAssumption, RequestsAssumption
<1>2. NamesOf(request) # <<>>
  BY <1>1 DEF NamesOf, IsSequence
<1>3. load_tasks_from_harbor_registry(dataset, NamesOf(request), LoadLimit(request))
         = Picked(dataset, ToSet(NamesOf(request)))
  BY <1>2 DEF load_tasks_from_harbor_registry, LoadLimit
<1>4. QED
  <2> DEFINE p == Picked(dataset, ToSet(NamesOf(request)))
  <2>1. /\ p \in Seq(ToSet(dataset) \cap ToSet(NamesOf(request)))
        /\ ToSet(p) = ToSet(dataset) \cap ToSet(NamesOf(request))
    BY <1>1, PickedIs
  <2> HIDE DEF p
  <2>2. IsSequence(p)
    BY <2>1 DEF IsSequence
  <2>3. QED
    BY <1>3, <2>1, <2>2 DEF p

LEMMA LoadCached ==
    ASSUME NEW dataset, NEW request, NEW other
    PROVE  LET cache == _load_harbor_tasks_cached(dataset, <<>>, other).cache
           IN  _load_harbor_tasks_cached(dataset, cache, request).tasks
                   = _load_harbor_tasks_cached(dataset, <<>>, request).tasks
<1> DEFINE Load(r) == load_tasks_from_harbor_registry(dataset, NamesOf(r), LoadLimit(r))
           cache == [k \in {CacheKey(other)} |-> Load(other)]
<1>1. _load_harbor_tasks_cached(dataset, <<>>, other).cache = cache
  BY DEF _load_harbor_tasks_cached
<1>2. _load_harbor_tasks_cached(dataset, <<>>, request).tasks = Load(request)
  BY DEF _load_harbor_tasks_cached
<1>3. CacheKey(request) = CacheKey(other) => Load(request) = Load(other)
  BY DEF CacheKey
<1>4. _load_harbor_tasks_cached(dataset, cache, request).tasks
         = IF CacheKey(request) \in DOMAIN cache THEN cache[CacheKey(request)] ELSE Load(request)
  BY DEF _load_harbor_tasks_cached
<1>5. DOMAIN cache = {CacheKey(other)} /\ cache[CacheKey(other)] = Load(other)
  OBVIOUS
<1> HIDE DEF cache, Load
<1>6. _load_harbor_tasks_cached(dataset, cache, request).tasks = Load(request)
  BY <1>3, <1>4, <1>5
<1> QED
  BY <1>1, <1>2, <1>6

\* What is made of the tasks that are there, when tasks are named.
LEMMA SpecsAre ==
    ASSUME NEW tasks, IsSequence(tasks), NEW request \in RunRequests, request.tasks # <<>>
    PROVE  LET specs == SpecsOf(tasks, request)
               known == {task[2] : task \in ToSet(tasks)}
           IN  IF ToSet(request.tasks) \subseteq known
               THEN ~specs.raised
                       /\ [k \in DOMAIN specs.value |-> specs.value[k][2]] = request.tasks
               ELSE specs.raised /\ specs.reason = ToSet(request.tasks) \ known
<1> DEFINE found(name) == {k \in DOMAIN tasks : tasks[k][2] = name}
           missing == {name \in ToSet(request.tasks) : found(name) = {}}
           known == {task[2] : task \in ToSet(tasks)}
           specs == SpecsOf(tasks, request)
<1>0. /\ Len(tasks) \in Nat /\ DOMAIN tasks = 1 .. Len(tasks)
      /\ Len(request.tasks) \in Nat /\ DOMAIN request.tasks = 1 .. Len(request.tasks)
      /\ request.tasks = [k \in DOMAIN request.tasks |-> request.tasks[k]]
  BY RequestsAssumption DEF IsSequence
<1>1. \A name : found(name) = {} <=> name \notin known
  BY DEF ToSet
<1>2. missing = ToSet(request.tasks) \ known
  BY <1>1
<1>3. specs = IF missing # {} THEN Raises(missing)
              ELSE Returns([k \in DOMAIN request.tasks |-> tasks[Max(found(request.tasks[k]))]])
  BY DEF SpecsOf
<1>4. CASE missing = {}
  <2> DEFINE value == [k \in DOMAIN request.tasks |-> tasks[Max(found(request.tasks[k]))]]
  <2>1. ASSUME NEW k \in DOMAIN request.tasks
        PROVE  value[k][2] = request.tasks[k]
    <3>1. found(request.tasks[k]) # {}
      BY <1>4, <1>0 DEF ToSet
    <3>2. found(request.tasks[k]) \in SUBSET (1 .. Len(tasks))
      BY <1>0
    <3>3. Max(found(request.tasks[k])) \in found(request.tasks[k])
      BY <1>0, <3>1, <3>2, MaxOf
    <3>4. QED
      BY <3>3
  <2>2. DOMAIN value = DOMAIN request.tasks
    OBVIOUS
  <2>3. ~specs.raised /\ specs.value = value
    BY <1>3, <1>4 DEF Returns
  <2> HIDE DEF value, specs
  <2>4. [k \in DOMAIN specs.value |-> specs.value[k][2]] = request.tasks
    BY <2>1, <2>2, <2>3, <1>0
  <2>5. ToSet(request.tasks) \subseteq known
    BY <1>2, <1>4
  <2>6. QED
    BY <2>3, <2>4, <2>5 DEF specs
<1>5. CASE missing # {}
  <2>1. specs.raised /\ specs.reason = missing
    BY <1>3, <1>5 DEF Raises
  <2>2. ~ (ToSet(request.tasks) \subseteq known)
    BY <1>2, <1>5
  <2> HIDE DEF specs, missing, known
  <2>3. QED
    BY <1>2, <2>1, <2>2 DEF specs, known
<1> QED
  BY <1>4, <1>5

LEMMA BuildTasksKeeps ==
    ASSUME BuildTasks
    PROVE  TasksAsAsked'
<1>1. PICK dataset \in Datasets, first \in RunRequests, second \in RunRequests :
          Answer("build_tasks", [dataset |-> dataset, first |-> first, second |-> second],
                 [after |-> _build_adapter_and_tasks(
                               dataset, _build_adapter_and_tasks(dataset, <<>>, first).cache,
                               second).specs,
                  alone |-> _build_adapter_and_tasks(dataset, <<>>, second).specs])
  BY DEF BuildTasks
<1> DEFINE before == _build_adapter_and_tasks(dataset, <<>>, first).cache
           after == _build_adapter_and_tasks(dataset, before, second).specs
           alone == _build_adapter_and_tasks(dataset, <<>>, second).specs
           Load(cache, r) == _load_harbor_tasks_cached(dataset, cache, r)
           given == second.preresolved
           from == IF given # <<>> THEN ToSet(given)
                   ELSE {task \in ToSet(dataset) : task[1] = "terminal-bench"}
           known == {task[2] : task \in from}
<1>2. /\ call'.fn = "build_tasks" /\ call'.args.dataset = dataset
      /\ call'.args.second = second /\ call'.result.after = after
      /\ call'.result.alone = alone
  BY <1>1 DEF Answer
<1>3. \A cache : _build_adapter_and_tasks(dataset, cache, second).specs =
          IF given # <<>> THEN SpecsOf(given, second)
          ELSE SpecsOf(Load(cache, second).tasks, second)
  BY DEF _build_adapter_and_tasks
<1>4. before = IF first.preresolved # <<>> THEN <<>> ELSE Load(<<>>, first).cache
  BY DEF _build_adapter_and_tasks
<1>5. after = alone
  <2>1. Load(before, second).tasks = Load(<<>>, second).tasks
    BY <1>4, LoadCached
  <2>2. QED
    BY <1>3, <2>1
<1>6. second.tasks # <<>> =>
          IF ToSet(second.tasks) \subseteq known
          THEN ~alone.raised
                  /\ [k \in DOMAIN alone.value |-> alone.value[k][2]] = second.tasks
          ELSE alone.raised /\ alone.reason = ToSet(second.tasks) \ known
  <2> SUFFICES ASSUME second.tasks # <<>>
               PROVE  IF ToSet(second.tasks) \subseteq known
                      THEN ~alone.raised
                              /\ [k \in DOMAIN alone.value |-> alone.value[k][2]] = second.tasks
                      ELSE alone.raised /\ alone.reason = ToSet(second.tasks) \ known
    OBVIOUS
  <2>1. CASE given # <<>>
    <3>1. IsSequence(given) /\ alone = SpecsOf(given, second) /\ from = ToSet(given)
      BY <1>3, <2>1, RequestsAssumption
    <3> HIDE DEF from, alone, given
    <3>2. QED
      BY <3>1, SpecsAre
  <2>2. CASE given = <<>>
    <3> DEFINE loaded == load_tasks_from_harbor_registry(dataset, NamesOf(second),
                                                         LoadLimit(second))
               there == {task[2] : task \in ToSet(loaded)}
    <3>1. alone = SpecsOf(loaded, second)
      BY <1>3, <2>2 DEF _load_harbor_tasks_cached
    <3>2. IsSequence(loaded) /\ ToSet(loaded) = ToSet(dataset) \cap ToSet(NamesOf(second))
      BY LoadedIs
    <3>3. ToSet(NamesOf(second)) = {<<"terminal-bench", name>> : name \in ToSet(second.tasks)}
      BY DEF NamesOf, ToSet
    <3>4. \A task \in ToSet(dataset) : task = <<task[1], task[2]>>
      BY DatasetsAssumption
    <3>5. \A name \in ToSet(second.tasks) : name \in known <=> name \in there
      <4> SUFFICES ASSUME NEW name \in ToSet(second.tasks)
                   PROVE  name \in known <=> name \in there
        OBVIOUS
      <4>1. name \in there <=> \E task \in ToSet(dataset) :
                task[2] = name /\ task \in ToSet(NamesOf(second))
        BY <3>2
      <4>2. name \in known <=> \E task \in ToSet(dataset) :
                task[2] = name /\ task[1] = "terminal-bench"
        BY <2>2
      <4>3. \A task \in ToSet(dataset) : task[2] = name =>
                (task \in ToSet(NamesOf(second)) <=> task[1] = "terminal-bench")
        BY <3>3, <3>4
      <4>4. QED
        BY <4>1, <4>2, <4>3
    <3>6. /\ ToSet(second.tasks) \subseteq known <=> ToSet(second.tasks) \subseteq there
          /\ ToSet(second.tasks) \ known = ToSet(second.tasks) \ there
      BY <3>5
    <3> HIDE DEF known, alone, loaded
    <3>7. QED
      BY <3>1, <3>2, <3>6, SpecsAre
  <2>3. QED
    BY <2>1, <2>2
<1> HIDE DEF after, alone
<1>7. NamedAreRun'
  BY <1>2, <1>6 DEF NamedAreRun
<1>8. CacheIsFaithful'
  BY <1>2, <1>5 DEF CacheIsFaithful
<1>9. QED
  BY <1>2, <1>7, <1>8 DEF TasksAsAsked, LimitKeepsTheBeginning, PassedOnSubstance,
     FileSearchIsAct, WrapperChangesNothing, Called

-------------------------------------------------------------------------------
(* Scores.                                                                 *)

\* A part of a whole, in hundredths.
LEMMA ShareIs ==
    ASSUME NEW part \in Nat, NEW whole \in Nat, whole > 0, part <= whole
    PROVE  /\ Share(part, whole) \in 0 .. 100
           /\ 2 * part <= whole => Share(part, whole) <= 50
           /\ 2 * part < whole => Share(part, whole) <= 49
<1> DEFINE q == (100 * part) \div whole
<1>1. q \in Int /\ whole * q <= 100 * part
  OBVIOUS
<1>2. q >= 0
  OBVIOUS
<1> HIDE DEF q
<1>3. ASSUME NEW n \in Nat, q >= n
      PROVE  whole * n <= 100 * part
  <2>1. whole * n <= whole * q
    BY <1>1, <1>3
  <2>2. QED
    BY <1>1, <2>1
<1>4. q <= 100
  <2>1. SUFFICES ASSUME q >= 101 PROVE FALSE
    BY <1>1
  <2>2. whole * 101 <= 100 * part
    BY <1>3, <2>1
  <2>3. QED
    BY <2>2
<1>5. 2 * part <= whole => q <= 50
  <2>1. SUFFICES ASSUME q >= 51, 2 * part <= whole PROVE FALSE
    BY <1>1
  <2>2. whole * 51 <= 100 * part
    BY <1>3, <2>1
  <2>3. QED
    BY <2>1, <2>2
<1>6. 2 * part < whole => q <= 49
  <2>1. SUFFICES ASSUME q >= 50, 2 * part < whole PROVE FALSE
    BY <1>1
  <2>2. whole * 50 <= 100 * part
    BY <1>3, <2>1
  <2>3. QED
    BY <2>1, <2>2
<1> QED
  BY <1>1, <1>2, <1>4, <1>5, <1>6 DEF Share, q

\* What is met of the criteria, in 40ths.
LEMMA CriteriaShare ==
    ASSUME NEW part \in Nat, NEW whole \in Nat, whole > 0, part <= whole
    PROVE  /\ (40 * part) \div whole \in 0 .. 40
           /\ 2 * part <= whole => (40 * part) \div whole <= 20
<1> DEFINE q == (40 * part) \div whole
<1>1. q \in Int /\ whole * q <= 40 * part
  OBVIOUS
<1>2. q >= 0
  OBVIOUS
<1> HIDE DEF q
<1>3. ASSUME NEW n \in Nat, q >= n
      PROVE  whole * n <= 40 * part
  <2>1. whole * n <= whole * q
    BY <1>1, <1>3
  <2>2. QED
    BY <1>1, <2>1
<1>4. q <= 40
  <2>1. SUFFICES ASSUME q >= 41 PROVE FALSE
    BY <1>1
  <2>2. whole * 41 <= 40 * part
    BY <1>3, <2>1
  <2>3. QED
    BY <2>2
<1>5. 2 * part <= whole => q <= 20
  <2>1. SUFFICES ASSUME q >= 21, 2 * part <= whole PROVE FALSE
    BY <1>1
  <2>2. whole * 21 <= 40 * part
    BY <1>3, <2>1
  <2>3. QED
    BY <2>1, <2>2
<1> QED
  BY <1>1, <1>2, <1>4, <1>5 DEF q

\* No form is worth 70 marks: without overlap, or without half of what is asked,
\* the others cannot make up for it.
LEMMA JudgedOnSubstance ==
    ASSUME NEW task \in [gold : BOOLEAN, criteria : Nat, citations : Nat],
           NEW answer \in LegalAnswers(task), _evaluate_legal_reasoning(task, answer).passed
    PROVE  IF task.gold THEN answer.overlap > 0
           ELSE /\ 2 * answer.criteria > task.criteria
                /\ 2 * answer.citations >= task.citations
<1> DEFINE correct == _check_correctness(task, answer)
           quality == _check_reasoning_quality(task, answer)
           cited == _check_citations(task, answer)
           complete == _check_completeness(task, answer)
           met == IF task.criteria > 0 THEN (40 * answer.criteria) \div task.criteria ELSE 0
           found == IF answer.indicators > 3 THEN 3 ELSE answer.indicators
<1>1. /\ task.gold \in BOOLEAN /\ task.criteria \in Nat /\ task.citations \in Nat
      /\ answer.overlap \in {0, 25, 50, 75, 100} /\ answer.indicators \in Nat
      /\ answer.criteria \in Nat /\ answer.criteria <= task.criteria
      /\ answer.citations \in Nat /\ answer.citations <= task.citations
  BY LegalTasksAssumption DEF LegalAnswers
<1>2. 40 * correct + 30 * quality + 20 * cited + 10 * complete >= 7000
  <2> DEFINE score == 40 * correct + 30 * quality + 20 * cited + 10 * complete
  <2>1. _evaluate_legal_reasoning(task, answer) = [score |-> score, passed |-> score >= 7000]
    BY DEF _evaluate_legal_reasoning
  <2> DEFINE enough == score >= 7000
  <2>2. _evaluate_legal_reasoning(task, answer) = [score |-> score, passed |-> enough]
    BY <2>1
  <2> HIDE DEF score, enough
  <2>3. CASE ~enough
    <3>1. _evaluate_legal_reasoning(task, answer) = [score |-> score, passed |-> FALSE]
      BY <2>2, <2>3
    <3>2. QED
      BY <3>1
  <2>4. QED
    BY <2>3 DEF score, enough
<1>3. correct \in Int /\ correct = IF task.gold THEN answer.overlap ELSE 50
  BY <1>1 DEF _check_correctness
<1>4. met \in 0 .. 40 /\ (2 * answer.criteria <= task.criteria => met <= 20)
  <2>1. CASE task.criteria > 0
    BY <1>1, <2>1, CriteriaShare
  <2>2. CASE task.criteria = 0
    BY <2>2
  <2>3. QED
    BY <1>1, <2>1, <2>2
<1>5. found \in 0 .. 3
  BY <1>1
<1>6. quality = IF 20 * found + met > 100 THEN 100 ELSE 20 * found + met
  BY DEF _check_reasoning_quality
<1>7. cited \in 0 .. 100 /\ (2 * answer.citations < task.citations => cited <= 49)
  BY <1>1, ShareIs DEF _check_citations
<1>8. complete \in 0 .. 100 /\ (2 * answer.criteria <= task.criteria => complete <= 50)
  BY <1>1, ShareIs DEF _check_completeness
<1> HIDE DEF correct, quality, cited, complete, met, found
<1>9. /\ quality \in 0 .. 100
      /\ 2 * answer.criteria <= task.criteria => quality <= 80
  BY <1>4, <1>5, <1>6, <1>1
<1>10. QED
  BY <1>1, <1>2, <1>3, <1>7, <1>8, <1>9

LEMMA JudgeAnswerKeeps ==
    ASSUME JudgeAnswer
    PROVE  TasksAsAsked'
<1>1. PICK task \in LegalTasks : \E answer \in LegalAnswers(task) :
           Answer("evaluate", [task |-> task, answer |-> answer],
                  _evaluate_legal_reasoning(task, answer))
  BY DEF JudgeAnswer
<1>2. PICK answer \in LegalAnswers(task) :
           Answer("evaluate", [task |-> task, answer |-> answer],
                  _evaluate_legal_reasoning(task, answer))
  BY <1>1
<1> DEFINE result == _evaluate_legal_reasoning(task, answer)
<1>3. /\ call'.fn = "evaluate" /\ call'.args.task = task /\ call'.args.answer = answer
      /\ call'.result = result
  BY <1>2 DEF Answer
<1>4. result.passed =>
          IF task.gold THEN answer.overlap > 0
          ELSE /\ 2 * answer.criteria > task.criteria
               /\ 2 * answer.citations >= task.citations
  BY LegalTasksAssumption, JudgedOnSubstance
<1> HIDE DEF result
<1>5. PassedOnSubstance'
  BY <1>3, <1>4 DEF PassedOnSubstance
<1>6. QED
  BY <1>3, <1>5 DEF TasksAsAsked, LimitKeepsTheBeginning, NamedAreRun, CacheIsFaithful,
     FileSearchIsAct, WrapperChangesNothing, Called

-------------------------------------------------------------------------------
(* Commands.                                                               *)

LEMMA FirstOutsideIs ==
    ASSUME NEW words, IsSequence(words), NEW S
    PROVE  \/ FirstOutside(words, S) = "" /\ \A k \in 1 .. Len(words) : words[k] \in S
           \/ \E k \in 1 .. Len(words) :
                  /\ FirstOutside(words, S) = words[k] /\ words[k] \notin S
                  /\ \A j \in 1 .. k - 1 : words[j] \in S
<1> DEFINE outside == {k \in DOMAIN words : words[k] \notin S}
<1>0. Len(words) \in Nat /\ DOMAIN words = 1 .. Len(words)
  BY DEF IsSequence
<1>1. FirstOutside(words, S) = IF outside = {} THEN "" ELSE words[Min(outside)]
  BY DEF FirstOutside
<1>2. CASE outside = {}
  BY <1>0, <1>1, <1>2
<1>3. CASE outside # {}
  <2> DEFINE k == Min(outside)
  <2>1. outside \in SUBSET Nat
    BY <1>0
  <2>2. k \in outside /\ \A m \in outside : k <= m
    BY <1>3, <2>1, MinOf
  <2> HIDE DEF k
  <2>3. k \in 1 .. Len(words) /\ words[k] \notin S
    BY <1>0, <2>2
  <2>4. \A j \in 1 .. k - 1 : words[j] \in S
    BY <1>0, <2>2, <2>3
  <2>5. FirstOutside(words, S) = words[k]
    BY <1>1, <1>3 DEF k
  <2>6. QED
    BY <2>3, <2>4, <2>5
<1> QED
  BY <1>2, <1>3

LEMMA FirstOutsideAt ==
    ASSUME NEW words, IsSequence(words), NEW S, NEW k \in 1 .. Len(words), words[k] \notin S,
           \A j \in 1 .. k - 1 : words[j] \in S
    PROVE  FirstOutside(words, S) = words[k]
<1>0. Len(words) \in Nat
  BY DEF IsSequence
<1>1. PICK n \in 1 .. Len(words) :
          /\ FirstOutside(words, S) = words[n] /\ words[n] \notin S
          /\ \A j \in 1 .. n - 1 : words[j] \in S
  BY FirstOutsideIs
<1>2. ~ (n < k) /\ ~ (k < n)
  BY <1>0, <1>1
<1>3. n = k
  BY <1>0, <1>2
<1> QED
  BY <1>1, <1>3

\* The command behind one more word.
LEMMA Behind ==
    ASSUME NEW w, NEW words, IsSequence(words)
    PROVE  /\ IsSequence(<<w>> \o words)
           /\ Len(words) \in Nat /\ Len(<<w>> \o words) = Len(words) + 1
           /\ (<<w>> \o words)[1] = w
           /\ \A k \in 1 .. Len(words) : (<<w>> \o words)[k + 1] = words[k]
           /\ ToSet(<<w>> \o words) = {w} \cup ToSet(words)
<1> DEFINE all == <<w>> \o words
           X == {w} \cup ToSet(words)
<1>1. words \in Seq(X) /\ <<w>> \in Seq(X)
  BY DEF IsSequence
<1>2. all \in Seq(X) /\ Len(words) \in Nat /\ Len(all) = Len(words) + 1
  BY <1>1
<1>3. all[1] = w /\ \A k \in 1 .. Len(words) : all[k + 1] = words[k]
  BY <1>1
<1>4. DOMAIN words = 1 .. Len(words) /\ DOMAIN all = 1 .. Len(all)
  BY <1>1, <1>2
<1> HIDE DEF all
<1>5. ToSet(all) = X
  <2>1. \A i \in 1 .. Len(all) : i = 1 \/ (i - 1 \in 1 .. Len(words) /\ all[i] = words[i - 1])
    BY <1>2, <1>3
  <2>2. ToSet(all) \subseteq X
    BY <1>3, <1>4, <2>1 DEF ToSet
  <2>3. 1 \in DOMAIN all /\ \A k \in DOMAIN words : k + 1 \in DOMAIN all
    BY <1>2, <1>4
  <2>4. X \subseteq ToSet(all)
    BY <1>3, <1>4, <2>3 DEF ToSet
  <2>5. QED
    BY <2>2, <2>4
<1>6. IsSequence(all)
  BY <1>2, <1>5 DEF IsSequence
<1> QED
  BY <1>2, <1>3, <1>5, <1>6 DEF all

LEMMA BehindFirst ==
    ASSUME NEW w, NEW words, IsSequence(words), NEW S, w \in S
    PROVE  FirstOutside(<<w>> \o words, S) = FirstOutside(words, S)
<1> DEFINE all == <<w>> \o words
<1>0. /\ IsSequence(all) /\ Len(words) \in Nat /\ Len(all) = Len(words) + 1 /\ all[1] = w
      /\ \A k \in 1 .. Len(words) : all[k + 1] = words[k]
  BY Behind
<1> HIDE DEF all
<1>1. CASE FirstOutside(words, S) = "" /\ \A k \in 1 .. Len(words) : words[k] \in S
  <2>1. ASSUME NEW k \in 1 .. Len(all)
        PROVE  all[k] \in S
    <3>1. CASE k = 1
      BY <1>0, <3>1
    <3>2. CASE k # 1
      <4>1. k - 1 \in 1 .. Len(words) /\ k = (k - 1) + 1
        BY <1>0, <3>2
      <4>2. QED
        BY <1>0, <1>1, <4>1
    <3>3. QED
      BY <3>1, <3>2
  <2>2. FirstOutside(all, S) = ""
    BY <1>0, <2>1, FirstOutsideIs
  <2>3. QED
    BY <1>1, <2>2 DEF all
<1>2. CASE \E k \in 1 .. Len(words) :
              /\ FirstOutside(words, S) = words[k] /\ words[k] \notin S
              /\ \A j \in 1 .. k - 1 : words[j] \in S
  <2>1. PICK k \in 1 .. Len(words) :
              /\ FirstOutside(words, S) = words[k] /\ words[k] \notin S
              /\ \A j \in 1 .. k - 1 : words[j] \in S
    BY <1>2
  <2>2. k + 1 \in 1 .. Len(all) /\ all[k + 1] = words[k]
    BY <1>0
  <2>3. ASSUME NEW j \in 1 .. (k + 1) - 1
        PROVE  all[j] \in S
    <3>1. CASE j = 1
      BY <1>0, <3>1
    <3>2. CASE j # 1
      <4>1. j - 1 \in 1 .. k - 1 /\ j - 1 \in 1 .. Len(words) /\ j = (j - 1) + 1
        BY <1>0, <3>2
      <4>2. QED
        BY <1>0, <2>1, <4>1
    <3>3. QED
      BY <3>1, <3>2
  <2>4. FirstOutside(all, S) = all[k + 1]
    BY <1>0, <2>1, <2>2, <2>3, FirstOutsideAt
  <2>5. QED
    BY <2>1, <2>2, <2>4 DEF all
<1> QED
  BY <1>1, <1>2, FirstOutsideIs

\* What executes a search of files is the word that is looked at.
LEMMA SearchLeads ==
    ASSUME NEW cmd, IsSequence(cmd), "'sudo" \notin ToSet(cmd), Executes(cmd) \in Filesystem
    PROVE  _leading_binary(cmd) = Executes(cmd)
<1> DEFINE words == Unquoted(cmd)
           Skip == PhaseWrappers \cup Flags \cup Numbers
<1>0. Len(cmd) \in Nat /\ DOMAIN cmd = 1 .. Len(cmd)
  BY DEF IsSequence
<1>1. /\ DOMAIN words = 1 .. Len(cmd)
      /\ \A k \in 1 .. Len(cmd) :
             words[k] = IF cmd[k] \in DOMAIN Inside THEN Inside[cmd[k]] ELSE cmd[k]
      /\ words = [k \in 1 .. Len(cmd) |-> words[k]]
  BY <1>0 DEF Unquoted
<1> HIDE DEF words
<1>2. IsSequence(words) /\ Len(words) = Len(cmd)
  <2>1. words \in [1 .. Len(cmd) -> ToSet(words)]
    BY <1>1 DEF ToSet
  <2>2. QED
    BY <1>0, <2>1 DEF IsSequence
<1>3. Skipped = Skip
  BY DEF Skipped
<1>4. \A w \in ToSet(cmd) \cap DOMAIN Inside :
          w \in {"'grep", "'faiss"} /\ w \notin Skip /\ Inside[w] \notin Skip
  <2>1. \A w \in ToSet(cmd) \cap DOMAIN Inside : w \in {"'grep", "'faiss"}
    BY DEF Inside
  <2>2. \A w \in {"'grep", "'faiss"} : w \notin Skip /\ Inside[w] \in {"grep", "faiss"}
    BY DEF Inside, PhaseWrappers, Flags, Numbers
  <2>3. \A w \in {"grep", "faiss"} : w \notin Skip
    BY DEF PhaseWrappers, Flags, Numbers
  <2>4. QED
    BY <2>1, <2>2, <2>3
<1>5. \A k \in 1 .. Len(cmd) : cmd[k] \in ToSet(cmd)
  BY <1>0 DEF ToSet
<1> HIDE DEF Skip
<1>6. "" \notin Filesystem /\ Executes(cmd) = FirstOutside(words, Skip)
  BY DEF Filesystem, Executes, words, Skip
<1>7. PICK k \in 1 .. Len(cmd) : /\ Executes(cmd) = words[k] /\ words[k] \notin Skip
                                 /\ \A j \in 1 .. k - 1 : words[j] \in Skip
  BY <1>2, <1>6, FirstOutsideIs
<1>8. ASSUME NEW j \in 1 .. k - 1
      PROVE  cmd[j] \in Skip
  BY <1>0, <1>1, <1>4, <1>5, <1>7
<1>9. cmd[k] \notin Skip
  BY <1>1, <1>4, <1>5, <1>7
<1>10. FirstOutside(cmd, Skip) = cmd[k]
  BY <1>8, <1>9, FirstOutsideAt
<1>11. CASE cmd[k] \notin DOMAIN Inside
  BY <1>1, <1>3, <1>7, <1>10, <1>11 DEF _leading_binary
<1>12. CASE cmd[k] \in DOMAIN Inside
  <2> DEFINE one == <<Inside[cmd[k]]>>
  <2>1. words[k] = Inside[cmd[k]]
    BY <1>1, <1>12
  <2>2. IsSequence(one) /\ Len(one) = 1 /\ one[1] = words[k]
    <3>1. one \in Seq({words[k]}) /\ DOMAIN one = {1} /\ one[1] = words[k] /\ Len(one) = 1
      BY <2>1
    <3>2. ToSet(one) = {words[k]}
      BY <3>1 DEF ToSet
    <3>3. QED
      BY <3>1, <3>2 DEF IsSequence
  <2>3. _leading_binary(cmd) = FirstOutside(one, Skip)
    BY <1>3, <1>10, <1>12 DEF _leading_binary
  <2> HIDE DEF one
  <2>4. FirstOutside(one, Skip) = one[1]
    BY <1>7, <2>2, FirstOutsideAt
  <2>5. QED
    BY <1>7, <2>2, <2>3, <2>4
<1> QED
  BY <1>11, <1>12

LEMMA SearchIsNoRetrieval ==
    ASSUME NEW cmd, IsSequence(cmd), "'sudo" \notin ToSet(cmd), Executes(cmd) \in Filesystem
    PROVE  classify_phase(cmd) = "act"
BY SearchLeads DEF classify_phase, retrieval_signals

LEMMA WrapperKeepsPhase ==
    ASSUME NEW cmd, IsSequence(cmd), cmd # <<>>, NEW w \in {"timeout", "nohup"}
    PROVE  classify_phase(<<w>> \o cmd) = classify_phase(cmd)
<1> DEFINE all == <<w>> \o cmd
           Signalled(word) == \/ word \in Signals
                              \/ word \in DOMAIN Inside /\ Inside[word] \in Signals
<1>1. /\ ToSet(all) = {w} \cup ToSet(cmd) /\ all # <<>>
  BY Behind
<1>2. w \in Skipped
  BY DEF Skipped, PhaseWrappers
<1>3. _leading_binary(all) = _leading_binary(cmd)
  BY <1>2, BehindFirst DEF _leading_binary
<1>4. ~Signalled(w)
  BY DEF Signals, Inside
<1> HIDE DEF all, Signalled
<1>5. \A c : c # <<>> =>
          retrieval_signals(c) = IF _leading_binary(c) \in Filesystem THEN {}
                                 ELSE {word \in ToSet(c) : Signalled(word)}
  BY DEF retrieval_signals, Signalled
<1>6. {word \in ToSet(all) : Signalled(word)} = {word \in ToSet(cmd) : Signalled(word)}
  BY <1>1, <1>4
<1>7. retrieval_signals(all) = retrieval_signals(cmd)
  BY <1>1, <1>3, <1>5, <1>6
<1> QED
  BY <1>7 DEF classify_phase, all

\* A pipe whose first command is not light has a stage that is not.
LEMMA FirstStageDecides ==
    ASSUME NEW cmd, IsSequence(cmd), cmd # <<>>, cmd[1] # "|",
           FirstOutside(cmd, TierWrappers) \notin Light
    PROVE  \E stage \in Stages(cmd) : FirstOutside(stage, PipeWrappers) \notin Light
<1> DEFINE pipes == {k \in DOMAIN cmd : cmd[k] = "|"}
           cut == {0, Len(cmd) + 1} \cup pipes
           beyond == {b \in cut : b > 0}
           n == Min(beyond) - 1
           stage == SubSeq(cmd, 1, n)
<1>0. Len(cmd) \in Nat /\ DOMAIN cmd = 1 .. Len(cmd) /\ Len(cmd) >= 1 /\ cmd \in Seq(ToSet(cmd))
  BY DEF IsSequence
<1>1. beyond \in SUBSET Nat /\ Len(cmd) + 1 \in beyond
  BY <1>0
<1>2. Min(beyond) \in beyond /\ \A m \in beyond : Min(beyond) <= m
  BY <1>1, MinOf
<1>3. n \in 1 .. Len(cmd) /\ \A k \in 1 .. n : cmd[k] # "|"
  <2> HIDE DEF beyond
  <2>1. Min(beyond) \in 1 .. Len(cmd) + 1 /\ Min(beyond) # 1
    BY <1>0, <1>1, <1>2 DEF beyond
  <2>2. \A k \in 1 .. Len(cmd) : cmd[k] = "|" => k \in beyond
    BY <1>0 DEF beyond
  <2>3. QED
    BY <1>0, <1>2, <2>1, <2>2
<1>4. stage \in Stages(cmd)
  <2>1. 0 \in cut \ {Len(cmd) + 1}
    BY <1>0
  <2>2. stage = SubSeq(cmd, 0 + 1, Min({b \in cut : b > 0}) - 1)
    OBVIOUS
  <2>3. stage # <<>>
    <3> HIDE DEF n
    <3>1. Len(stage) = n
      BY <1>0, <1>3
    <3>2. QED
      BY <1>3, <3>1
  <2>4. QED
    BY <2>1, <2>2, <2>3 DEF Stages
<1> HIDE DEF n
<1>5. /\ IsSequence(stage) /\ Len(stage) = n
      /\ \A k \in 1 .. n : stage[k] = cmd[k]
  <2>1. /\ stage \in Seq(ToSet(cmd)) /\ Len(stage) = n
        /\ \A k \in 1 .. n : stage[k] = cmd[k]
    BY <1>0, <1>3
  <2> HIDE DEF stage
  <2>2. stage \in [1 .. Len(stage) -> ToSet(stage)]
    BY <2>1 DEF ToSet
  <2>3. QED
    BY <1>3, <2>1, <2>2 DEF IsSequence
<1> HIDE DEF stage
<1>6. FirstOutside(stage, PipeWrappers) \notin Light
  <2>0. /\ "" \notin Light /\ "nohup" \notin Light
        /\ \A word : word \in TierWrappers => word \in PipeWrappers \/ word = "nohup"
        /\ \A word : word \in PipeWrappers => word \in TierWrappers
    BY DEF Light, TierWrappers, PipeWrappers
  <2>1. CASE FirstOutside(stage, PipeWrappers) = ""
    BY <2>0, <2>1
  <2>2. CASE \E k \in 1 .. Len(stage) :
                /\ FirstOutside(stage, PipeWrappers) = stage[k] /\ stage[k] \notin PipeWrappers
                /\ \A j \in 1 .. k - 1 : stage[j] \in PipeWrappers
    <3>1. PICK k \in 1 .. Len(stage) :
                /\ FirstOutside(stage, PipeWrappers) = stage[k] /\ stage[k] \notin PipeWrappers
                /\ \A j \in 1 .. k - 1 : stage[j] \in PipeWrappers
      BY <2>2
    <3>2. k \in 1 .. Len(cmd) /\ stage[k] = cmd[k] /\ \A j \in 1 .. k - 1 : stage[j] = cmd[j]
      BY <1>0, <1>3, <1>5
    <3>3. CASE cmd[k] \in TierWrappers
      BY <2>0, <3>1, <3>2, <3>3
    <3>4. CASE cmd[k] \notin TierWrappers
      <4>1. \A j \in 1 .. k - 1 : cmd[j] \in TierWrappers
        BY <2>0, <3>1, <3>2
      <4>2. FirstOutside(cmd, TierWrappers) = cmd[k]
        BY <3>2, <3>4, <4>1, FirstOutsideAt
      <4>3. QED
        BY <3>1, <3>2, <4>2
    <3>5. QED
      BY <3>3, <3>4
  <2>3. QED
    BY <1>5, <2>1, <2>2, FirstOutsideIs
<1> QED
  BY <1>4, <1>6

\* So the pipe is of no account.
LEMMA TierIs ==
    ASSUME NEW cmd, IsSequence(cmd), cmd # <<>>, cmd[1] # "|"
    PROVE  classify_command(cmd) =
               LET base == FirstOutside(cmd, TierWrappers)
               IN  IF base = "" THEN "cpu_heavy"
                   ELSE IF base \in Light THEN "cpu_light"
                   ELSE IF ToSet(cmd) \cap Gpu # {} THEN "gpu_inference"
                   ELSE IF base \in SearchWords THEN "cpu_light" ELSE "cpu_heavy"
<1>1. CASE FirstOutside(cmd, TierWrappers) \in Light
  BY <1>1 DEF classify_command
<1>2. CASE FirstOutside(cmd, TierWrappers) \notin Light
  <2>1. ~ \A stage \in Stages(cmd) : FirstOutside(stage, PipeWrappers) \in Light
    BY <1>2, FirstStageDecides
  <2>2. QED
    BY <1>2, <2>1 DEF classify_command
<1> QED
  BY <1>1, <1>2

LEMMA WrapperKeepsTier ==
    ASSUME NEW cmd, IsSequence(cmd), cmd # <<>>, cmd[1] # "|", NEW w \in {"timeout", "nohup"}
    PROVE  classify_command(<<w>> \o cmd) = classify_command(cmd)
<1> DEFINE all == <<w>> \o cmd
<1>1. IsSequence(all) /\ all # <<>> /\ all[1] = w /\ ToSet(all) = {w} \cup ToSet(cmd)
  BY Behind
<1>2. w \in TierWrappers /\ w \notin Gpu /\ w # "|"
  BY DEF TierWrappers, Gpu
<1>3. FirstOutside(all, TierWrappers) = FirstOutside(cmd, TierWrappers)
  BY <1>2, BehindFirst
<1>4. ToSet(all) \cap Gpu = ToSet(cmd) \cap Gpu
  BY <1>1, <1>2
<1> HIDE DEF all
<1>5. classify_command(all) = classify_command(cmd)
  BY <1>1, <1>2, <1>3, <1>4, TierIs
<1> QED
  BY <1>5 DEF all

LEMMA ClassifyKeeps ==
    ASSUME Classify
    PROVE  TasksAsAsked'
<1>1. PICK cmd \in Commands :
          Answer("classify", cmd, [tier |-> classify_command(cmd), phase |-> classify_phase(cmd)])
  BY DEF Classify
<1>2. IsSequence(cmd) /\ (cmd # <<>> => cmd[1] # "|")
  BY CommandsAssumption DEF IsSequence
<1>3. /\ call'.fn = "classify" /\ call'.args = cmd
      /\ call'.result.tier = classify_command(cmd) /\ call'.result.phase = classify_phase(cmd)
  BY <1>1 DEF Answer
<1>4. FileSearchIsAct'
  BY <1>2, <1>3, SearchIsNoRetrieval DEF FileSearchIsAct
<1>5. WrapperChangesNothing'
  BY <1>2, <1>3, WrapperKeepsTier, WrapperKeepsPhase DEF WrapperChangesNothing
<1>6. QED
  BY <1>3, <1>4, <1>5 DEF TasksAsAsked, LimitKeepsTheBeginning, NamedAreRun, CacheIsFaithful,
     PassedOnSubstance, Called

\* A run has the tasks that were asked for, an answer passes by its substance and a
\* command is classified by what it executes, whatever the tasks, requests and commands.
THEOREM TasksAreAsked == AskedSpec => []TasksAsAsked
<1>1. Idle => TasksAsAsked
  BY DEF Idle, NoCall, TasksAsAsked, LimitKeepsTheBeginning, NamedAreRun, CacheIsFaithful,
     PassedOnSubstance, FileSearchIsAct, WrapperChangesNothing, Called
<1>2. TasksAsAsked /\ [ChoiceNext \/ Classify]_call => TasksAsAsked'
  <2> SUFFICES ASSUME TasksAsAsked, [ChoiceNext \/ Classify]_call
               PROVE  TasksAsAsked'
    OBVIOUS
  <2>1. CASE ListTasks
    BY <2>1, ListTasksKeeps
  <2>2. CASE BuildTasks
    BY <2>2, BuildTasksKeeps
  <2>3. CASE JudgeAnswer
    BY <2>3, JudgeAnswerKeeps
  <2>4. CASE Classify
    BY <2>4, ClassifyKeeps
  <2>5. CASE UNCHANGED call
    BY <2>5 DEF TasksAsAsked, LimitKeepsTheBeginning, NamedAreRun, CacheIsFaithful,
       PassedOnSubstance, FileSearchIsAct, WrapperChangesNothing, Called
  <2>6. QED
    BY <2>1, <2>2, <2>3, <2>4, <2>5 DEF ChoiceNext
<1> QED
  BY <1>1, <1>2, PTL DEF AskedSpec
===============================================================================
