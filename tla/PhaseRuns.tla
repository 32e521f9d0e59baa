------------------------------ MODULE PhaseRuns ------------------------------
(***************************************************************************)
(* Agent loops of six phases (benchmarks/six_phase_agent), several at a    *)
(* time, on what the module shares between them: the pool of llama.cpp     *)
(* replicas and the retrieval index, each built once, behind a lock, when  *)
(* first wanted.  The index is published before its metadata.              *)
(*                                                                         *)
(* A phase that raises is recorded and the loop goes on with the next one. *)
(* llama.cpp, faiss, the router and the tokenizer are external.            *)
(***************************************************************************)
EXTENDS Integers, Sequences, FiniteSets

CONSTANTS
    PhaseWorkers,   \* threads of the cell's pool
    LoopCount,      \* loops of the cell
    PoolSize,       \* replicas in the pool
    MaxPhaseFaults  \* phases that raise

ASSUME PhaseAssumption ==
    /\ LoopCount \in Nat /\ PoolSize \in Nat \ {0} /\ MaxPhaseFaults \in Nat
    /\ "free" \notin PhaseWorkers

PHASES == <<"reason", "retrieve", "act", "admit", "context", "commit">>
PhaseCount == Len(PHASES)

VARIABLES
    loops,         \* worker -> its loop, the number and the step of its phase, ...
    loopsLeft,     \* loops that no worker has taken
    loopResults,   \* loop -> [passed, ran]
    pool,          \* _LLAMA_POOL: [is, free]
    poolLock, retrieveLock,
    index, meta,   \* are _FAISS_INDEX and _CORPUS_META set?
    warmup,        \* "todo", "whole" or "cut"
    noMeta,        \* history: loops whose retrieve found no metadata
    built,         \* history: how often the pool and the index were built
    phaseFaults

phaseVars == <<loops, loopsLeft, loopResults, pool, poolLock, retrieveLock, index, meta,
               warmup, noMeta, built, phaseFaults>>

PhaseFault == phaseFaults < MaxPhaseFaults /\ phaseFaults' = phaseFaults + 1
PhaseAt(w, step) == loops[w].at = step
Phase(w) == PHASES[loops[w].phase]
PhaseGoes(w, step) == loops' = [loops EXCEPT ![w].at = step]
Holders == {w \in PhaseWorkers : PhaseAt(w, "decode")}

PhaseTypeOK ==
    /\ \A w \in PhaseWorkers :
           /\ loops[w].loop \in 0 .. LoopCount
           /\ loops[w].phase \in 1 .. PhaseCount + 1
           /\ loops[w].at \in {"idle", "begin", "wantPool", "buildPool", "get", "decode",
                               "wantIndex", "buildIndex", "publish", "search"}
    /\ loopsLeft \in 0 .. LoopCount
    /\ pool.is \in {"none", "absent", "built"} /\ pool.free \in 0 .. PoolSize
    /\ {poolLock, retrieveLock} \subseteq PhaseWorkers \cup {"free"}
    /\ \A w \in PhaseWorkers :
           /\ PhaseAt(w, "buildPool") <=> poolLock = w
           /\ loops[w].at \in {"buildIndex", "publish"} <=> retrieveLock = w

PhaseInit ==
    /\ loops = [w \in PhaseWorkers |-> [loop |-> 0, phase |-> 1, at |-> "idle", failed |-> {},
                                        ran |-> <<>>]]
    /\ loopsLeft = LoopCount /\ loopResults = <<>>
    /\ pool = [is |-> "none", free |-> 0]
    /\ poolLock = "free" /\ retrieveLock = "free"
    /\ index = FALSE /\ meta = FALSE
    /\ warmup = "todo" /\ noMeta = {}
    /\ built = [pool |-> 0, index |-> 0] /\ phaseFaults = 0

NewPool(is) == [is |-> is, free |-> IF is = "built" THEN PoolSize ELSE 0]
Built(is) == IF is = "built" THEN 1 ELSE 0

-------------------------------------------------------------------------------
Bug_WarmsWithoutIndex ==
    /\ warmup = "todo"
    /\ \E is \in {"absent", "built"} :
           /\ pool' = NewPool(is)
           /\ built' = [built EXCEPT !.pool = Built(is)]
    /\ warmup' = "whole" /\ index' = FALSE /\ meta' = FALSE
    /\ UNCHANGED <<loops, loopsLeft, loopResults, poolLock, retrieveLock, noMeta, phaseFaults>>

(* The constructor: reason, admit, retrieve and context in turn.  The first *)
(* one that raises cuts the rest, and is only logged.                       *)
Warmup ==
    /\ warmup = "todo"
    /\ \E is \in {"absent", "built"}, reaches \in BOOLEAN, whole \in BOOLEAN :
           /\ whole => reaches
           /\ pool' = NewPool(is)
           /\ index' = reaches /\ meta' = reaches
           /\ built' = [pool |-> Built(is), index |-> IF reaches THEN 1 ELSE 0]
           /\ warmup' = IF whole THEN "whole" ELSE "cut"
           /\ IF whole THEN UNCHANGED phaseFaults ELSE PhaseFault
    /\ UNCHANGED <<loops, loopsLeft, loopResults, poolLock, retrieveLock, noMeta>>

\* An installation without warmup.
NoWarmup ==
    /\ warmup = "todo"
    /\ warmup' = "cut"
    /\ UNCHANGED <<loops, loopsLeft, loopResults, pool, poolLock, retrieveLock, index, meta,
                   noMeta, built, phaseFaults>>

(* one_loop: a worker of the cell's pool takes the next loop.               *)
TakeLoop(w) ==
    /\ warmup # "todo" /\ PhaseAt(w, "idle") /\ loopsLeft > 0
    /\ loopsLeft' = loopsLeft - 1
    /\ loops' = [loops EXCEPT ![w] = [loop |-> LoopCount - loopsLeft + 1, phase |-> 1,
                                      at |-> "begin", failed |-> {}, ran |-> <<>>]]
    /\ UNCHANGED <<loopResults, pool, poolLock, retrieveLock, index, meta, warmup, noMeta,
                   built, phaseFaults>>

Bug_StopsAtFailure(w, failed) ==
    LET l == loops[w]
    IN  loops' = [loops EXCEPT
            ![w] = [l EXCEPT !.phase = IF failed = {} THEN @ + 1 ELSE PhaseCount + 1,
                             !.at = "begin", !.failed = @ \cup failed,
                             !.ran = Append(@, Phase(w))]]

\* The end of a phase's span: what the phase returned, or its error, is kept.
EndPhase(w, failed) ==
    LET l == loops[w]
    IN  loops' = [loops EXCEPT
            ![w] = [l EXCEPT !.phase = @ + 1, !.at = "begin",
                             !.failed = @ \cup failed, !.ran = Append(@, Phase(w))]]

(* act, admit, context and commit share nothing but a lazily made router    *)
(* and tokenizer.                                                           *)
OwnPhase(w, fails) ==
    /\ PhaseAt(w, "begin") /\ loops[w].phase \in 3 .. PhaseCount
    /\ IF fails THEN PhaseFault /\ EndPhase(w, {Phase(w)})
       ELSE EndPhase(w, {}) /\ UNCHANGED phaseFaults
    /\ UNCHANGED <<loopsLeft, loopResults, pool, poolLock, retrieveLock, index, meta, warmup,
                   noMeta, built>>

(* The result of the loop.                                                  *)
EndLoop(w) ==
    /\ PhaseAt(w, "begin") /\ loops[w].phase = PhaseCount + 1
    /\ loopResults' = Append(loopResults,
           [loop |-> loops[w].loop, passed |-> loops[w].failed = {}, ran |-> loops[w].ran])
    /\ PhaseGoes(w, "idle")
    /\ UNCHANGED <<loopsLeft, pool, poolLock, retrieveLock, index, meta, warmup, noMeta, built,
                   phaseFaults>>

-------------------------------------------------------------------------------
(* reason: _get_llama_pool without the lock, then with it.                  *)
WithPool(w) ==
    IF pool.is = "absent" THEN EndPhase(w, {})   \* _reason_matmul_fallback
    ELSE PhaseGoes(w, "get")

LookForPool(w) ==
    /\ PhaseAt(w, "begin") /\ loops[w].phase = 1
    /\ IF pool.is = "none" THEN PhaseGoes(w, "wantPool") ELSE WithPool(w)
    /\ UNCHANGED <<loopsLeft, loopResults, pool, poolLock, retrieveLock, index, meta, warmup,
                   noMeta, built, phaseFaults>>

Bug_LooksOnce(w) ==
    /\ PhaseAt(w, "wantPool") /\ poolLock = "free"
    /\ PhaseGoes(w, "buildPool") /\ poolLock' = w
    /\ UNCHANGED <<loopsLeft, loopResults, pool, retrieveLock, index, meta, warmup, noMeta,
                   built, phaseFaults>>

LookAgain(w) ==
    /\ PhaseAt(w, "wantPool") /\ poolLock = "free"
    /\ IF pool.is = "none" THEN PhaseGoes(w, "buildPool") /\ poolLock' = w
       ELSE WithPool(w) /\ UNCHANGED poolLock
    /\ UNCHANGED <<loopsLeft, loopResults, pool, retrieveLock, index, meta, warmup, noMeta,
                   built, phaseFaults>>

\* No model, no llama_cpp, or a replica that cannot be made: there is no pool.
BuildPool(w, is) ==
    /\ PhaseAt(w, "buildPool")
    /\ pool' = NewPool(is) /\ poolLock' = "free"
    /\ built' = [built EXCEPT !.pool = @ + Built(is)]
    /\ IF is = "absent" THEN EndPhase(w, {}) ELSE PhaseGoes(w, "get")
    /\ UNCHANGED <<loopsLeft, loopResults, retrieveLock, index, meta, warmup, noMeta,
                   phaseFaults>>

GetReplica(w) ==
    /\ PhaseAt(w, "get") /\ pool.free > 0
    /\ pool' = [pool EXCEPT !.free = @ - 1]
    /\ PhaseGoes(w, "decode")
    /\ UNCHANGED <<loopsLeft, loopResults, poolLock, retrieveLock, index, meta, warmup, noMeta,
                   built, phaseFaults>>

Bug_PutUnlessRaised(w, fails) ==
    /\ PhaseAt(w, "decode")
    /\ pool' = IF fails THEN pool ELSE [pool EXCEPT !.free = @ + 1]
    /\ IF fails THEN PhaseFault /\ EndPhase(w, {"reason"})
       ELSE EndPhase(w, {}) /\ UNCHANGED phaseFaults
    /\ UNCHANGED <<loopsLeft, loopResults, poolLock, retrieveLock, index, meta, warmup, noMeta,
                   built>>

(* The replica goes back whether or not the decode raised.                  *)
Decode(w, fails) ==
    /\ PhaseAt(w, "decode")
    /\ pool' = [pool EXCEPT !.free = @ + 1]
    /\ IF fails THEN PhaseFault /\ EndPhase(w, {"reason"})
       ELSE EndPhase(w, {}) /\ UNCHANGED phaseFaults
    /\ UNCHANGED <<loopsLeft, loopResults, poolLock, retrieveLock, index, meta, warmup, noMeta,
                   built>>

-------------------------------------------------------------------------------
(* retrieve: _get_retrieval in the same manner.                             *)
LookForIndex(w) ==
    /\ PhaseAt(w, "begin") /\ loops[w].phase = 2
    /\ PhaseGoes(w, IF index THEN "search" ELSE "wantIndex")
    /\ UNCHANGED <<loopsLeft, loopResults, pool, poolLock, retrieveLock, index, meta, warmup,
                   noMeta, built, phaseFaults>>

LookInLock(w) ==
    /\ PhaseAt(w, "wantIndex") /\ retrieveLock = "free"
    /\ IF index THEN PhaseGoes(w, "search") /\ UNCHANGED retrieveLock
       ELSE PhaseGoes(w, "buildIndex") /\ retrieveLock' = w
    /\ UNCHANGED <<loopsLeft, loopResults, pool, poolLock, index, meta, warmup, noMeta, built,
                   phaseFaults>>

Bug_PublishesOnly(w) ==
    /\ PhaseAt(w, "buildIndex")
    /\ index' = TRUE /\ retrieveLock' = "free"
    /\ built' = [built EXCEPT !.index = @ + 1]
    /\ PhaseGoes(w, "search")
    /\ UNCHANGED <<loopsLeft, loopResults, pool, poolLock, meta, warmup, noMeta, phaseFaults>>

(* The index is complete when it is published.                              *)
BuildIndex(w) ==
    /\ PhaseAt(w, "buildIndex")
    /\ index' = TRUE
    /\ built' = [built EXCEPT !.index = @ + 1]
    /\ PhaseGoes(w, "publish")
    /\ UNCHANGED <<loopsLeft, loopResults, pool, poolLock, retrieveLock, meta, warmup, noMeta,
                   phaseFaults>>

\* faiss is missing or raises: the next retrieve tries again.
BuildIndexFails(w) ==
    /\ PhaseAt(w, "buildIndex") /\ PhaseFault
    /\ retrieveLock' = "free" /\ EndPhase(w, {"retrieve"})
    /\ UNCHANGED <<loopsLeft, loopResults, pool, poolLock, index, meta, warmup, noMeta, built>>

PublishMeta(w) ==
    /\ PhaseAt(w, "publish")
    /\ meta' = TRUE /\ retrieveLock' = "free"
    /\ PhaseGoes(w, "search")
    /\ UNCHANGED <<loopsLeft, loopResults, pool, poolLock, index, warmup, noMeta, built,
                   phaseFaults>>

(* The globals are read; without metadata the count of what is kept raises. *)
Search(w) ==
    /\ PhaseAt(w, "search")
    /\ noMeta' = noMeta \cup (IF meta THEN {} ELSE {loops[w].loop})
    /\ EndPhase(w, IF meta THEN {} ELSE {"retrieve"})
    /\ UNCHANGED <<loopsLeft, loopResults, pool, poolLock, retrieveLock, index, meta, warmup,
                   built, phaseFaults>>

PhaseWorkerStep(w) ==
    \/ TakeLoop(w) \/ EndLoop(w) \/ \E fails \in BOOLEAN : OwnPhase(w, fails) \/ Decode(w, fails)
    \/ LookForPool(w) \/ LookAgain(w) \/ \E is \in {"absent", "built"} : BuildPool(w, is)
    \/ GetReplica(w) \/ LookForIndex(w) \/ LookInLock(w) \/ BuildIndex(w)
    \/ BuildIndexFails(w) \/ PublishMeta(w) \/ Search(w)

PhaseNext == Warmup \/ NoWarmup \/ \E w \in PhaseWorkers : PhaseWorkerStep(w)

PhaseSpec == PhaseInit /\ [][PhaseNext]_phaseVars

-------------------------------------------------------------------------------
(* No replica is lost or used twice, also by decodes that raise: the queue  *)
(* and its holders always have all of them (reason).                        *)
ReplicasConserved == pool.is = "built" => pool.free + Cardinality(Holders) = PoolSize

(* However many loops want them at first, the pool and the index are built  *)
(* once: the second look, under the lock.                                   *)
BuiltOnce == built.pool <= 1 /\ built.index <= 1

(* Only the thread that builds the index can leave it without metadata, and *)
(* not for longer than it holds the lock: _get_retrieval.                   *)
IndexAloneIsLocked == index /\ ~meta => retrieveLock # "free"

(* A loop can find the index without its metadata, and fail, only when the  *)
(* warm-up was left out or cut by an error: _warmup.                        *)
WarmLoopsRetrieve == warmup = "whole" => noMeta = {}

(* A loop has measured all six phases in order when it ends, whichever of   *)
(* them failed: run_task.                                                   *)
PhasesAllRun == \A k \in DOMAIN loopResults : loopResults[k].ran = PHASES
===============================================================================
