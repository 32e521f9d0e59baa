----------------------- MODULE StreamOrchestratorProofs -----------------------
(* Proofs about StreamOrchestrator, for every number of slots, every set of  *)
(* items and every set of faults.                                            *)
EXTENDS StreamOrchestrator, FiniteSetTheorems, SequenceTheorems, TLAPS

-------------------------------------------------------------------------------
(* Type correctness.  TypeOK bounds idle_after_exit by 4; the step that       *)
(* increments it needs that it is below 4 while the parent still polls, and   *)
(* the step that posts a result that its worker has an item.                  *)

IdleInv == parent \in {"starting"} \cup Supervising => idle_after_exit <= 3

ItemInv ==
    \A w \in Slot : phase[w] \in {"run", "cleanup", "locked", "report", "metadata"}
        => item[w] \in Item

TypeInv == TypeOK /\ IdleInv /\ ItemInv

\* A queue gets one sentinel per slot of its size, a finite number of them.
LEMMA SentinelsType ==
    ASSUME NEW s \in Sizes
    PROVE  /\ Cardinality(SlotsOf(s)) \in Nat
           /\ Sentinels(s) \in Seq({None})
<1>1. IsFiniteSet(Slot)
  BY FS_Interval, SlotsAssumption DEF Slot
<1>2. SlotsOf(s) \subseteq Slot
  BY DEF SlotsOf
<1>3. Cardinality(SlotsOf(s)) \in Nat
  BY <1>1, <1>2, FS_Subset, FS_CardinalityType
<1>4. QED
  BY <1>3 DEF Sentinels

LEMMA InitialQueueType ==
    ASSUME NEW s \in Sizes
    PROVE  InitialQueue(s) \in Seq(Item \cup {None})
<1>1. Backlog[s] \in Seq(Item \cup {None})
  BY BacklogAssumption
<1>2. Sentinels(s) \in Seq(Item \cup {None})
  BY SentinelsType
<1>3. QED
  BY <1>1, <1>2 DEF InitialQueue

LEMMA InitType == Init => TypeInv
<1> SUFFICES ASSUME Init PROVE TypeInv
  OBVIOUS
<1>1. task_queue \in [Sizes -> Seq(Item \cup {None})]
  BY InitialQueueType DEF Init
<1>2. IdleInv
  BY DEF Init, IdleInv
<1>3. 0 \in 0 .. NumSlots
  BY SlotsAssumption
<1>4. /\ parent = "starting" /\ started \in 0 .. NumSlots
      /\ idle_after_exit \in 0 .. 4 /\ raised \in Raised
      /\ cleanup_lock \in Slot \cup {None}
  BY <1>3 DEF Init, Raised, WorkerRaised
<1>5. expired \in BOOLEAN /\ write_lost \in BOOLEAN
  BY DEF Init
<1>6. /\ results \in Seq(Result) /\ result_queue \in Seq(Result)
      /\ outbox \in [Slot -> Seq(Result)]
  BY DEF Init
<1>7. /\ read_lost \in [Sizes -> BOOLEAN]
      /\ primary_error \in [Slot -> BOOLEAN]
      /\ cleanup_error \in [Slot -> BOOLEAN]
  BY DEF Init
<1>8. /\ phase \in [Slot -> Phase]
      /\ item \in [Slot -> Item \cup {None}]
      /\ exitcode \in [Slot -> ExitCode]
  BY DEF Init, Phase, ExitCode
<1>9. attempts \subseteq Run /\ docker \subseteq Run /\ recorded \subseteq Run
  BY DEF Init
<1>10. ItemInv
  BY DEF Init, ItemInv
<1>11. QED
  BY <1>1, <1>2, <1>4, <1>5, <1>6, <1>7, <1>8, <1>9, <1>10 DEF TypeInv, TypeOK

-------------------------------------------------------------------------------
LEMMA ResultOfType ==
    ASSUME NEW w \in Slot, item[w] \in Item
    PROVE  ResultOf(w) \in Result /\ ResultOf(w).run = <<w, item[w]>>
<1>1. <<w, item[w]>> \in Run
  BY DEF Run
<1>2. /\ (IF primary_error[w] THEN "WorkerError"
         ELSE IF cleanup_error[w] THEN "CleanupError" ELSE "none") \in ErrorType
      /\ (primary_error[w] /\ cleanup_error[w]) \in BOOLEAN
  BY DEF ErrorType
<1>3. QED
  BY <1>1, <1>2 DEF ResultOf, RunOf, Result

LEMMA KillTypeStep ==
    ASSUME TypeInv, NEW w \in Slot, Kill(w)
    PROVE  TypeInv'
<1> USE DEF TypeInv, TypeOK, Kill
<1>1. read_lost' \in [Sizes -> BOOLEAN]
  OBVIOUS
<1>2. write_lost' \in BOOLEAN
  OBVIOUS
<1>3. outbox' \in [Slot -> Seq(Result)]
  OBVIOUS
<1>4. phase' \in [Slot -> Phase] /\ exitcode' \in [Slot -> ExitCode]
  BY DEF Phase, ExitCode
<1>5. IdleInv' /\ ItemInv'
  BY DEF IdleInv, ItemInv, parentVars, Supervising
<1>6. QED
  BY <1>1, <1>2, <1>3, <1>4, <1>5 DEF parentVars, worldVars, Supervising

LEMMA WorkerTypeStep ==
    ASSUME TypeInv, NEW w \in Slot, Worker(w) \/ Crash(w)
    PROVE  TypeInv'
<1> USE DEF TypeInv, TypeOK, IdleInv, ItemInv, RunOf, QueueOf, Phase,
            ExitCode, parentVars, sharedVars, workerVars, worldVars
<1>0. SlotSize[w] \in Sizes
  BY SizesAssumption DEF Sizes
<1>1. CASE Fetch(w)
  <2>1. /\ Head(task_queue[SlotSize[w]]) \in Item \cup {None}
        /\ Tail(task_queue[SlotSize[w]]) \in Seq(Item \cup {None})
    BY <1>0, <1>1 DEF Fetch
  <2>2. task_queue' \in [Sizes -> Seq(Item \cup {None})]
    BY <1>0, <1>1, <2>1 DEF Fetch
  <2>3. CASE Head(task_queue[SlotSize[w]]) = None
    BY <1>1, <2>2, <2>3 DEF Fetch
  <2>4. CASE Head(task_queue[SlotSize[w]]) # None
    <3>1. item' \in [Slot -> Item \cup {None}] /\ ItemInv'
      BY <1>1, <2>1, <2>4 DEF Fetch
    <3>2. attempts' \subseteq Run
      BY <1>1, <2>1, <2>4 DEF Fetch, Run
    <3>3. /\ phase' \in [Slot -> Phase]
          /\ primary_error' \in [Slot -> BOOLEAN]
          /\ cleanup_error' \in [Slot -> BOOLEAN]
      BY <1>1, <2>4 DEF Fetch
    <3>4. QED
      BY <1>1, <2>2, <2>4, <3>1, <3>2, <3>3 DEF Fetch
  <2>5. QED
    BY <2>3, <2>4
<1>2. CASE BenchmarkReturns(w)
  BY <1>2 DEF BenchmarkReturns, EndRun
<1>3. CASE BenchmarkTimesOut(w)
  BY <1>3 DEF BenchmarkTimesOut, EndRun
<1>4. CASE BenchmarkRaises(w)
  BY <1>4 DEF BenchmarkRaises, EndRun
<1>5. CASE AcquireCleanup(w)
  BY <1>5 DEF AcquireCleanup
<1>6. CASE CleanupRemoves(w)
  BY <1>6 DEF CleanupRemoves
<1>7. CASE CleanupVerified(w)
  BY <1>7 DEF CleanupVerified, EndCleanup
<1>8. CASE CleanupFails(w)
  BY <1>8 DEF CleanupFails, EndCleanup
<1>9. CASE Report(w)
  <2>1. item[w] \in Item
    BY <1>9 DEF Report
  <2>2. ResultOf(w) \in Result
    BY <2>1, ResultOfType DEF Result, Run
  <2>3. outbox' \in [Slot -> Seq(Result)]
    BY <1>9, <2>2 DEF Report
  <2>4. phase' \in [Slot -> Phase]
    BY <1>9 DEF Report
  <2>5. QED
    BY <1>9, <2>3, <2>4 DEF Report
<1>10. CASE RecordMetadata(w)
  <2>1. RunOf(w) \in Run
    BY <1>10 DEF RecordMetadata, Run
  <2>2. recorded' \subseteq Run
    BY <1>10, <2>1 DEF RecordMetadata
  <2>3. phase' \in [Slot -> Phase] /\ ItemInv'
    BY <1>10 DEF RecordMetadata
  <2>4. QED
    BY <1>10, <2>2, <2>3 DEF RecordMetadata
<1>11. CASE Flush(w)
  <2>1. Head(outbox[w]) \in Result /\ Tail(outbox[w]) \in Seq(Result)
    BY <1>11 DEF Flush
  <2>2. /\ result_queue' \in Seq(Result)
        /\ outbox' \in [Slot -> Seq(Result)]
    BY <1>11, <2>1 DEF Flush
  <2>3. QED
    BY <1>11, <2>2 DEF Flush
<1>12. CASE Exit(w)
  BY <1>12 DEF Exit
<1>13. CASE Crash(w)
  BY <1>13, KillTypeStep DEF Crash
<1>14. QED
  BY <1>1, <1>2, <1>3, <1>4, <1>5, <1>6, <1>7, <1>8, <1>9, <1>10, <1>11, <1>12,
     <1>13 DEF Worker

LEMMA ParentTypeStep ==
    ASSUME TypeInv, Parent \/ Expire
    PROVE  TypeInv'
<1> USE DEF TypeInv, TypeOK, IdleInv, ItemInv, parentVars, sharedVars,
            workerVars, worldVars, Supervising, Raised, WorkerRaised, Phase,
            ExitCode
<1>1. CASE StartWorker
  <2>1. started' \in 0 .. NumSlots
    BY <1>1, SlotsAssumption DEF StartWorker
  <2>2. phase' \in [Slot -> Phase]
    BY <1>1 DEF StartWorker
  <2>3. ItemInv'
    BY <1>1 DEF StartWorker
  <2>4. parent' \in {"starting", "shutdown"} /\ raised' \in Raised
    BY <1>1 DEF StartWorker, Raise
  <2>5. QED
    BY <1>1, <2>1, <2>2, <2>3, <2>4 DEF StartWorker
<1>2. CASE AllStarted
  BY <1>2 DEF AllStarted
<1>3. CASE Expire
  BY <1>3 DEF Expire
<1>4. CASE Check
  BY <1>4 DEF Check, Raise
<1>5. CASE Get
  <2>1. Head(result_queue) \in Result /\ Tail(result_queue) \in Seq(Result)
    BY <1>5 DEF Get
  <2>2. \A r : WorkerErrorFromResult(r) \in Raised
    BY DEF WorkerErrorFromResult
  <2>3. results' \in Seq(Result)
    BY <1>5, <2>1 DEF Get
  <2>4. raised' \in Raised /\ parent' \in {"check", "shutdown"}
    BY <1>5, <2>2 DEF Get, Raise
  <2>5. QED
    BY <1>5, <2>1, <2>3, <2>4 DEF Get
<1>6. CASE PollEmpty
  BY <1>6 DEF PollEmpty
<1>7. CASE CheckAlive
  <2>1. idle_after_exit <= 3
    BY <1>7 DEF CheckAlive
  <2>2. /\ idle_after_exit' \in 0 .. 4
        /\ parent' \in {"check", "shutdown"}
        /\ parent' = "check" => idle_after_exit' <= 3
        /\ raised' \in Raised
    BY <1>7, <2>1 DEF CheckAlive, Raise, IdleLimit
  <2>3. QED
    BY <1>7, <2>2 DEF CheckAlive
<1>8. CASE Join
  BY <1>8 DEF Join, Raise
<1>9. ASSUME NEW w \in Slot, ShutdownWorker(w)
      PROVE  TypeInv'
  BY <1>9, KillTypeStep DEF ShutdownWorker
<1>10. CASE ShutdownDone
  BY <1>10 DEF ShutdownDone
<1>11. ASSUME NEW r \in Run, FinalRemoves(r)
       PROVE  TypeInv'
  BY <1>11 DEF FinalRemoves
<1>12. CASE FinalVerified
  BY <1>12 DEF FinalVerified
<1>13. CASE FinalFails
  BY <1>13 DEF FinalFails
<1>14. QED
  BY <1>1, <1>2, <1>3, <1>4, <1>5, <1>6, <1>7, <1>8, <1>9, <1>10, <1>11, <1>12,
     <1>13 DEF Parent

LEMMA TypeStep == TypeInv /\ [Next]_vars => TypeInv'
<1> SUFFICES ASSUME TypeInv, [Next]_vars PROVE TypeInv'
  OBVIOUS
<1>1. CASE Parent \/ Expire
  BY <1>1, ParentTypeStep
<1>2. CASE \E w \in Slot : Worker(w) \/ Crash(w)
  BY <1>2, WorkerTypeStep
<1>3. ASSUME NEW r \in Run, TaskCreates(r) \/ TaskEnds(r)
      PROVE  TypeInv'
  BY <1>3 DEF TypeInv, TypeOK, IdleInv, ItemInv, TaskCreates, TaskEnds, parentVars,
              sharedVars, workerVars
<1>4. CASE UNCHANGED vars
  BY <1>4 DEF vars, parentVars, sharedVars, workerVars, worldVars, TypeInv,
              TypeOK, IdleInv, ItemInv, Supervising
<1>5. QED
  BY <1>1, <1>2, <1>3, <1>4 DEF Next

\* Every variable keeps its type; in particular the parent counts at most four
\* idle polls.
THEOREM TypeCorrect == Spec => []TypeOK
<1>1. TypeInv => TypeOK
  BY DEF TypeInv
<1>2. QED
  BY <1>1, InitType, TypeStep, PTL DEF Spec

-------------------------------------------------------------------------------
(* Mutual exclusion in the Docker cleanup, with a lock that may die with its  *)
(* holder.                                                                    *)

LEMMA ExclusiveStep ==
    TypeInv /\ CleanupExclusive /\ [Next]_vars => CleanupExclusive'
<1> SUFFICES ASSUME TypeInv, CleanupExclusive, [Next]_vars,
                    NEW v \in Slot, phase'[v] = "locked"
             PROVE  cleanup_lock' = v
  BY DEF CleanupExclusive
<1> USE DEF TypeInv, TypeOK, CleanupExclusive, parentVars, sharedVars, workerVars,
            worldVars
<1>1. ASSUME NEW w \in Slot, AcquireCleanup(w)
      PROVE  cleanup_lock' = v
  BY <1>1, NoneAssumption DEF AcquireCleanup
<1>2. ASSUME NEW w \in Slot, CleanupVerified(w) \/ CleanupFails(w)
      PROVE  cleanup_lock' = v
  BY <1>2 DEF CleanupVerified, CleanupFails, EndCleanup
<1>3. ASSUME NEW w \in Slot, Kill(w)
      PROVE  cleanup_lock' = v
  BY <1>3 DEF Kill
<1>4. ASSUME NEW w \in Slot,
             \/ Fetch(w) \/ BenchmarkReturns(w) \/ BenchmarkTimesOut(w)
             \/ BenchmarkRaises(w) \/ CleanupRemoves(w) \/ Report(w)
             \/ RecordMetadata(w) \/ Flush(w) \/ Exit(w)
      PROVE  cleanup_lock' = v
  BY <1>4 DEF Fetch, BenchmarkReturns, BenchmarkTimesOut, BenchmarkRaises, EndRun,
              CleanupRemoves, Report, RecordMetadata, Flush, Exit
<1>5. CASE StartWorker
  BY <1>5 DEF StartWorker
<1>6. CASE AllStarted \/ Expire \/ Check \/ Get \/ PollEmpty \/ CheckAlive \/ Join
           \/ ShutdownDone \/ FinalVerified \/ FinalFails
  BY <1>6 DEF AllStarted, Expire, Check, Get, PollEmpty, CheckAlive, Join,
              ShutdownDone, FinalVerified, FinalFails
<1>7. ASSUME NEW r \in Run, TaskCreates(r) \/ TaskEnds(r) \/ FinalRemoves(r)
      PROVE  cleanup_lock' = v
  BY <1>7 DEF TaskCreates, TaskEnds, FinalRemoves
<1>8. CASE UNCHANGED vars
  BY <1>8 DEF vars
<1>9. QED
  BY <1>1, <1>2, <1>3, <1>4, <1>5, <1>6, <1>7, <1>8
     DEF Next, Parent, Worker, Crash, ShutdownWorker

\* At most one worker is inside the Docker cleanup at any time, whoever died.
THEOREM CleanupIsExclusive == Spec => []CleanupExclusive
<1>1. Init => CleanupExclusive
  BY DEF Init, CleanupExclusive
<1>2. QED
  BY <1>1, InitType, TypeStep, ExclusiveStep, PTL DEF Spec

-------------------------------------------------------------------------------
(* Nothing is raised while the parent still starts, polls or joins, so the     *)
(* results do not grow after the raise.                                        *)

RaisedInv == raised # "none" => parent \in {"shutdown", "final", "raised"}

LEMMA RaisedStep == TypeInv /\ RaisedInv /\ [Next]_vars => RaisedInv'
<1> SUFFICES ASSUME TypeInv, RaisedInv, [Next]_vars
             PROVE  RaisedInv'
  OBVIOUS
<1> USE DEF RaisedInv, parentVars
<1>1. CASE UNCHANGED parentVars
  BY <1>1
<1>2. CASE StartWorker \/ Check \/ Get \/ CheckAlive \/ Join
  BY <1>2 DEF StartWorker, Check, Get, CheckAlive, Join, Raise
<1>3. CASE FinalVerified \/ FinalFails
  BY <1>3 DEF FinalVerified, FinalFails
<1>4. CASE AllStarted \/ Expire \/ PollEmpty \/ ShutdownDone
  BY <1>4 DEF AllStarted, Expire, PollEmpty, ShutdownDone, Supervising
<1>5. ASSUME NEW w \in Slot, Worker(w) \/ Kill(w)
      PROVE  UNCHANGED parentVars
  BY <1>5 DEF Worker, Fetch, BenchmarkReturns, BenchmarkTimesOut, BenchmarkRaises,
               EndRun, AcquireCleanup, CleanupRemoves, CleanupVerified,
               CleanupFails, EndCleanup, Report, RecordMetadata, Flush, Exit, Kill
<1>6. ASSUME NEW r \in Run, TaskCreates(r) \/ TaskEnds(r) \/ FinalRemoves(r)
      PROVE  UNCHANGED parentVars
  BY <1>6 DEF TaskCreates, TaskEnds, FinalRemoves
<1>7. QED
  BY <1>1, <1>2, <1>3, <1>4, <1>5, <1>6
     DEF Next, Parent, Crash, ShutdownWorker, vars

LEMMA PrimaryStep ==
    RaisedInv /\ [Next]_vars
        => [raised # "none" => raised' = raised /\ parent' # "returned"]_vars
<1> SUFFICES ASSUME RaisedInv, Next, raised # "none"
             PROVE  raised' = raised /\ parent' # "returned"
  BY DEF vars
<1>1. parent \in {"shutdown", "final", "raised"}
  BY DEF RaisedInv
<1>2. CASE Parent \/ Expire
  BY <1>1, <1>2 DEF Parent, StartWorker, AllStarted, Expire, Check, Get, PollEmpty,
       CheckAlive, Join, ShutdownWorker, Kill, ShutdownDone, FinalRemoves,
       FinalVerified, FinalFails, Supervising, parentVars
<1>3. ASSUME NEW w \in Slot, Worker(w) \/ Crash(w)
      PROVE  UNCHANGED parentVars
  BY <1>3 DEF Worker, Fetch, BenchmarkReturns, BenchmarkTimesOut, BenchmarkRaises,
       EndRun, AcquireCleanup, CleanupRemoves, CleanupVerified, CleanupFails,
       EndCleanup, Report, RecordMetadata, Flush, Exit, Crash, Kill
<1>4. ASSUME NEW r \in Run, TaskCreates(r) \/ TaskEnds(r)
      PROVE  UNCHANGED parentVars
  BY <1>4 DEF TaskCreates, TaskEnds
<1>5. QED
  BY <1>1, <1>2, <1>3, <1>4 DEF Next, parentVars

\* Neither the shutdown nor the final cleanup replaces the primary exception.
THEOREM PrimaryErrorIsPreserved == Spec => PrimaryPreserved
<1>1. Init => RaisedInv
  BY DEF Init, RaisedInv
<1>2. QED
  BY <1>1, InitType, TypeStep, RaisedStep, PrimaryStep, PTL
     DEF Spec, PrimaryPreserved

-------------------------------------------------------------------------------
(* The sentinels.  A queue is a run of items and then a run of sentinels, and *)
(* it ends in a sentinel for every worker of its size that has not taken one: *)
(* a worker that takes an item leaves them all, one that takes a sentinel no  *)
(* longer needs one, one that dies needs none.                                *)

Pending(s) == {w \in SlotsOf(s) : phase[w] \notin {"exiting", "exited"}}

\* After a sentinel there is no item.
SortedInv ==
    \A s \in Sizes : \A j, k \in 1 .. Len(task_queue[s]) :
        j <= k /\ task_queue[s][j] = None => task_queue[s][k] = None

\* The last Cardinality(Pending(s)) entries are sentinels.
CountInv ==
    \A s \in Sizes :
        LET n == Cardinality(Pending(s))
            q == task_queue[s]
        IN  /\ n <= Len(q)
            /\ \A k \in 1 .. Len(q) : k > Len(q) - n => q[k] = None

\* A worker on its way out without an error took a sentinel.
DrainedInv ==
    \A w \in Slot :
        \/ phase[w] = "exiting" /\ ~primary_error[w] /\ ~cleanup_error[w]
        \/ exitcode[w] = "ok"
        => \A k \in 1 .. Len(task_queue[QueueOf(w)]) :
              task_queue[QueueOf(w)][k] = None

SentinelInv == SortedInv /\ CountInv /\ DrainedInv

LEMMA SlotsOfFinite ==
    ASSUME NEW s
    PROVE  IsFiniteSet(SlotsOf(s))
<1>1. IsFiniteSet(Slot) /\ SlotsOf(s) \subseteq Slot
  BY FS_Interval, SlotsAssumption DEF Slot, SlotsOf
<1>2. QED
  BY <1>1, FS_Subset

LEMMA PendingFinite == \A s : IsFiniteSet(Pending(s)) /\ Cardinality(Pending(s)) \in Nat
<1> SUFFICES ASSUME NEW s
             PROVE  IsFiniteSet(Pending(s)) /\ Cardinality(Pending(s)) \in Nat
  OBVIOUS
<1>1. Pending(s) \subseteq SlotsOf(s)
  BY DEF Pending
<1>2. QED
  BY <1>1, SlotsOfFinite, FS_Subset, FS_CardinalityType

LEMMA InitSentinels == Init => SentinelInv
<1> SUFFICES ASSUME Init PROVE SentinelInv
  OBVIOUS
<1>1. ASSUME NEW s \in Sizes
      PROVE  /\ Pending(s) = SlotsOf(s)
             /\ Cardinality(SlotsOf(s)) \in Nat
             /\ Len(task_queue[s]) = Len(Backlog[s]) + Cardinality(SlotsOf(s))
             /\ Len(Backlog[s]) \in Nat
             /\ \A k \in 1 .. Len(Backlog[s]) : task_queue[s][k] # None
             /\ \A k \in 1 .. Len(task_queue[s]) :
                   k > Len(Backlog[s]) => task_queue[s][k] = None
  <2> DEFINE b == Backlog[s]
             n == Cardinality(SlotsOf(s))
             e == Sentinels(s)
  <2>1. Pending(s) = SlotsOf(s)
    BY DEF Init, Pending, SlotsOf
  <2>2. /\ b \in Seq(Item) /\ n \in Nat /\ e \in Seq({None})
        /\ Len(e) = n /\ \A k \in 1 .. n : e[k] = None
    <3>1. b \in Seq(Item) /\ n \in Nat
      BY BacklogAssumption, SentinelsType
    <3>2. e = [k \in 1 .. n |-> None] /\ e \in Seq({None})
      BY SentinelsType DEF Sentinels
    <3> HIDE DEF n, e
    <3>3. DOMAIN e = 1 .. n /\ DOMAIN e = 1 .. Len(e) /\ Len(e) \in Nat
      BY <3>2, LenProperties
    <3>4. Len(e) = n
      BY <3>1, <3>3
    <3>5. \A k \in 1 .. n : e[k] = None
      BY <3>2
    <3>6. QED
      BY <3>1, <3>2, <3>4, <3>5
  <2>3. task_queue[s] = b \o e
    BY DEF Init, InitialQueue
  <2> HIDE DEF b, n, e
  <2>4. /\ Len(b) \in Nat /\ Len(b \o e) = Len(b) + n
        /\ \A k \in 1 .. Len(b) + n :
              (b \o e)[k] = IF k <= Len(b) THEN b[k] ELSE e[k - Len(b)]
    <3>1. b \in Seq(Item \cup {None}) /\ e \in Seq(Item \cup {None})
      BY <2>2, SeqMonotonic, Zenon
    <3>2. Len(b) \in Nat
      BY <2>2, LenProperties
    <3>3. /\ Len(b \o e) = Len(b) + Len(e)
          /\ \A k \in 1 .. Len(b) + Len(e) :
                (b \o e)[k] = IF k <= Len(b) THEN b[k] ELSE e[k - Len(b)]
      BY <3>1, ConcatProperties
    <3>4. QED
      BY <2>2, <3>2, <3>3
  <2>5. \A k \in 1 .. Len(b) : (b \o e)[k] # None
    BY <2>2, <2>4, ElementOfSeq, NoneAssumption
  <2>6. ASSUME NEW k \in 1 .. Len(b) + n, k > Len(b)
        PROVE  (b \o e)[k] = None
    <3>1. k - Len(b) \in 1 .. n /\ ~(k <= Len(b))
      BY <2>2, <2>4, <2>6
    <3>2. QED
      BY <2>2, <2>4, <3>1
  <2>7. QED
    BY <2>1, <2>2, <2>3, <2>4, <2>5, <2>6 DEF b, n
<1>2. SortedInv
  BY <1>1 DEF SortedInv
<1>3. CountInv
  BY <1>1 DEF CountInv
<1>4. DrainedInv
  BY DEF Init, DrainedInv
<1>5. QED
  BY <1>2, <1>3, <1>4 DEF SentinelInv

\* Steps that leave the queues alone, and bring no worker back.
LEMMA SentinelFrame ==
    ASSUME SentinelInv, TypeInv, UNCHANGED task_queue,
           \A w \in Slot : phase[w] \in {"exiting", "exited"}
                              => phase'[w] \in {"exiting", "exited"},
           \A w \in Slot :
              phase'[w] = "exiting" /\ ~primary_error'[w] /\ ~cleanup_error'[w]
                 => phase[w] = "exiting" /\ ~primary_error[w] /\ ~cleanup_error[w],
           \A w \in Slot : exitcode'[w] = "ok" =>
              \/ phase[w] = "exiting" /\ ~primary_error[w] /\ ~cleanup_error[w]
              \/ exitcode[w] = "ok"
    PROVE  SentinelInv'
<1>1. SortedInv' /\ DrainedInv'
  BY DEF SentinelInv, SortedInv, DrainedInv, QueueOf
<1>2. ASSUME NEW s \in Sizes
      PROVE  LET n == Cardinality(Pending(s))'
                 q == task_queue'[s]
             IN  /\ n <= Len(q)
                 /\ \A k \in 1 .. Len(q) : k > Len(q) - n => q[k] = None
  <2>1. Pending(s)' \subseteq Pending(s)
    BY DEF Pending, SlotsOf
  <2>2. IsFiniteSet(Pending(s)) /\ Cardinality(Pending(s)) \in Nat
    BY PendingFinite
  <2>3. /\ Cardinality(Pending(s)') \in Nat
        /\ Cardinality(Pending(s)') <= Cardinality(Pending(s))
    BY <2>1, <2>2, FS_Subset, FS_CardinalityType
  <2>4. Len(task_queue[s]) \in Nat
    BY DEF TypeInv, TypeOK
  <2>5. QED
    BY <2>2, <2>3, <2>4 DEF SentinelInv, CountInv
<1>3. QED
  BY <1>1, <1>2 DEF SentinelInv, CountInv

LEMMA FetchSentinels ==
    ASSUME TypeInv, SentinelInv, NEW w \in Slot, Fetch(w)
    PROVE  SentinelInv'
<1> DEFINE s0 == SlotSize[w]
           q == task_queue[s0]
           n == Cardinality(Pending(s0))
           m == Cardinality(Pending(s0)')
<1>1. s0 \in Sizes /\ q \in Seq(Item \cup {None}) /\ q # <<>> /\ w \in SlotsOf(s0)
  BY SizesAssumption DEF Sizes, SlotsOf, Fetch, QueueOf, TypeInv, TypeOK
<1>2. /\ Len(q) \in Nat \ {0} /\ Head(q) = q[1]
      /\ Len(Tail(q)) = Len(q) - 1
      /\ \A k \in 1 .. Len(Tail(q)) : Tail(q)[k] = q[k + 1]
  BY <1>1, HeadTailProperties
<1>3. /\ Len(task_queue'[s0]) = Len(q) - 1
      /\ \A k \in 1 .. Len(task_queue'[s0]) :
            k + 1 \in 1 .. Len(q) /\ task_queue'[s0][k] = q[k + 1]
      /\ \A s \in Sizes \ {s0} : task_queue'[s] = task_queue[s]
  BY <1>1, <1>2 DEF Fetch, QueueOf, TypeInv, TypeOK
<1>4. n \in Nat /\ IsFiniteSet(Pending(s0)) /\ w \in Pending(s0)
  BY <1>1, PendingFinite DEF Pending, Fetch
<1>5. \A s \in Sizes \ {s0} : Pending(s)' = Pending(s)
  BY DEF Pending, SlotsOf, Fetch, TypeInv, TypeOK
<1>6. IF q[1] = None THEN Pending(s0)' = Pending(s0) \ {w}
                     ELSE Pending(s0)' = Pending(s0)
  BY <1>1, <1>2 DEF Pending, SlotsOf, Fetch, QueueOf, TypeInv, TypeOK
<1>7. n <= Len(q) /\ \A k \in 1 .. Len(q) : k > Len(q) - n => q[k] = None
  BY <1>1 DEF SentinelInv, CountInv
<1>8. IF q[1] = None THEN m = n - 1 ELSE m = n
  BY <1>4, <1>6, FS_RemoveElement
<1>9. \A j, k \in 1 .. Len(q) : j <= k /\ q[j] = None => q[k] = None
  BY <1>1 DEF SentinelInv, SortedInv
<1>10. q[1] = None => \A k \in 1 .. Len(q) : q[k] = None
  BY <1>2, <1>9
<1> HIDE DEF n, m, q, s0
<1>11. SortedInv'
  <2> SUFFICES ASSUME NEW s \in Sizes, NEW j \in 1 .. Len(task_queue'[s]),
                      NEW k \in 1 .. Len(task_queue'[s]),
                      j <= k, task_queue'[s][j] = None
               PROVE  task_queue'[s][k] = None
    BY DEF SortedInv
  <2>1. CASE s = s0
    <3>1. /\ j + 1 \in 1 .. Len(q) /\ k + 1 \in 1 .. Len(q) /\ j + 1 <= k + 1
          /\ task_queue'[s][j] = q[j + 1] /\ task_queue'[s][k] = q[k + 1]
      BY <1>3, <2>1
    <3>2. QED
      BY <1>9, <3>1
  <2>2. CASE s # s0
    BY <1>3, <2>2 DEF SentinelInv, SortedInv
  <2>3. QED
    BY <2>1, <2>2
<1>12. CountInv'
  <2> SUFFICES ASSUME NEW s \in Sizes
               PROVE  /\ Cardinality(Pending(s)') <= Len(task_queue'[s])
                      /\ \A k \in 1 .. Len(task_queue'[s]) :
                            k > Len(task_queue'[s]) - Cardinality(Pending(s)')
                               => task_queue'[s][k] = None
    BY DEF CountInv
  <2>1. CASE s = s0
    <3>1. m \in Nat /\ m <= Len(q) - 1
      <4>1. CASE q[1] = None
        BY <1>2, <1>4, <1>7, <1>8, <4>1, FS_EmptySet DEF n
      <4>2. CASE q[1] # None
        <5>1. ~(1 > Len(q) - n)
          BY <1>2, <1>7, <4>2
        <5>2. QED
          BY <1>2, <1>4, <1>8, <4>2, <5>1
      <4>3. QED
        BY <4>1, <4>2
    <3>2. ASSUME NEW k \in 1 .. Len(task_queue'[s0]), k > (Len(q) - 1) - m
          PROVE  task_queue'[s0][k] = None
      <4>1. k + 1 \in 1 .. Len(q) /\ task_queue'[s0][k] = q[k + 1]
        BY <1>3
      <4>2. CASE q[1] = None
        BY <1>10, <4>1, <4>2
      <4>3. CASE q[1] # None
        <5>1. k + 1 > Len(q) - n
          BY <1>2, <1>4, <1>8, <3>2, <4>3
        <5>2. QED
          BY <1>7, <4>1, <5>1
      <4>4. QED
        BY <4>2, <4>3
    <3>3. QED
      BY <1>3, <2>1, <3>1, <3>2 DEF m
  <2>2. CASE s # s0
    BY <1>3, <1>5, <2>2 DEF SentinelInv, CountInv
  <2>3. QED
    BY <2>1, <2>2
<1>13. DrainedInv'
  <2> SUFFICES ASSUME NEW v \in Slot,
                      \/ /\ phase'[v] = "exiting"
                         /\ ~primary_error'[v] /\ ~cleanup_error'[v]
                      \/ exitcode'[v] = "ok",
                      NEW k \in 1 .. Len(task_queue'[QueueOf(v)])
               PROVE  task_queue'[QueueOf(v)][k] = None
    BY DEF DrainedInv, QueueOf
  <2>1. QueueOf(v) \in Sizes
    BY SizesAssumption DEF Sizes, QueueOf
  <2>2. CASE QueueOf(v) = s0
    <3>1. /\ k + 1 \in 1 .. Len(q)
          /\ task_queue'[QueueOf(v)][k] = q[k + 1]
      BY <1>3, <2>2
    <3>2. \A j \in 1 .. Len(q) : q[j] = None
      <4>1. CASE v = w /\ exitcode'[v] # "ok"
        BY <1>2, <1>10, <4>1 DEF Fetch, QueueOf, TypeInv, TypeOK, q, s0
      <4>2. CASE v # w \/ exitcode'[v] = "ok"
        <5>1. \/ phase[v] = "exiting" /\ ~primary_error[v] /\ ~cleanup_error[v]
              \/ exitcode[v] = "ok"
          BY <4>2 DEF Fetch, TypeInv, TypeOK
        <5>2. QED
          BY <2>2, <5>1 DEF SentinelInv, DrainedInv, q
      <4>3. QED
        BY <4>1, <4>2
    <3>3. QED
      BY <2>2, <3>1, <3>2
  <2>3. CASE QueueOf(v) # s0
    <3>1. v # w /\ task_queue'[QueueOf(v)] = task_queue[QueueOf(v)]
      BY <1>3, <2>1, <2>3 DEF QueueOf, s0
    <3>2. \/ phase[v] = "exiting" /\ ~primary_error[v] /\ ~cleanup_error[v]
          \/ exitcode[v] = "ok"
      BY <3>1 DEF Fetch, TypeInv, TypeOK
    <3>3. QED
      BY <3>1, <3>2 DEF SentinelInv, DrainedInv
  <2>4. QED
    BY <2>2, <2>3
<1>14. QED
  BY <1>11, <1>12, <1>13 DEF SentinelInv

\* A worker that was not started yet does nothing.
StartedInv == \A w \in Slot : w >= started => phase[w] = "new"

LEMMA StartedStep == TypeInv /\ StartedInv /\ [Next]_vars => StartedInv'
<1> SUFFICES ASSUME TypeInv, StartedInv, [Next]_vars,
                    NEW v \in Slot, v >= started'
             PROVE  phase'[v] = "new"
  BY DEF StartedInv
<1> USE DEF TypeInv, TypeOK, StartedInv, parentVars, sharedVars, workerVars
<1>1. CASE StartWorker
  <2>1. v \in Int /\ started \in Int
    BY DEF Slot
  <2>2. v >= started /\ (started' = started + 1 => v # started)
    BY <1>1, <2>1 DEF StartWorker
  <2>3. QED
    BY <1>1, <2>2 DEF StartWorker
<1>2. ASSUME NEW w \in Slot, Worker(w) \/ Kill(w)
      PROVE  phase'[v] = "new"
  <2>1. started' = started /\ phase[v] = "new"
    BY <1>2 DEF Worker, Fetch, BenchmarkReturns, BenchmarkTimesOut, BenchmarkRaises,
         EndRun, AcquireCleanup, CleanupRemoves, CleanupVerified, CleanupFails,
         EndCleanup, Report, RecordMetadata, Flush, Exit, Kill
  <2>2. phase'[v] = phase[v]
    BY <1>2, <2>1 DEF Worker, Fetch, BenchmarkReturns, BenchmarkTimesOut,
         BenchmarkRaises, EndRun, AcquireCleanup, CleanupRemoves, CleanupVerified,
         CleanupFails, EndCleanup, Report, RecordMetadata, Flush, Exit, Kill, Alive
  <2>3. QED
    BY <2>1, <2>2
<1>3. CASE AllStarted \/ Expire \/ Check \/ Get \/ PollEmpty \/ CheckAlive \/ Join
           \/ ShutdownDone \/ FinalVerified \/ FinalFails
  BY <1>3 DEF AllStarted, Expire, Check, Get, PollEmpty, CheckAlive, Join,
       ShutdownDone, FinalVerified, FinalFails
<1>4. ASSUME NEW r \in Run, TaskCreates(r) \/ TaskEnds(r) \/ FinalRemoves(r)
      PROVE  phase'[v] = "new"
  BY <1>4 DEF TaskCreates, TaskEnds, FinalRemoves
<1>5. CASE UNCHANGED vars
  BY <1>5 DEF vars
<1>6. QED
  BY <1>1, <1>2, <1>3, <1>4, <1>5 DEF Next, Parent, Crash, ShutdownWorker

LEMMA SentinelStep ==
    TypeInv /\ StartedInv /\ SentinelInv /\ [Next]_vars => SentinelInv'
<1> SUFFICES ASSUME TypeInv, StartedInv, SentinelInv, [Next]_vars
             PROVE  SentinelInv'
  OBVIOUS
<1> USE DEF TypeInv, TypeOK, sharedVars, workerVars
<1>1. ASSUME NEW w \in Slot, Fetch(w)
      PROVE  SentinelInv'
  BY <1>1, FetchSentinels
<1>2. ASSUME NEW w \in Slot, Kill(w)
      PROVE  SentinelInv'
  BY <1>2, SentinelFrame DEF Kill, Alive
<1>3. ASSUME NEW w \in Slot,
             \/ BenchmarkReturns(w) \/ BenchmarkTimesOut(w) \/ BenchmarkRaises(w)
      PROVE  SentinelInv'
  BY <1>3, SentinelFrame DEF BenchmarkReturns, BenchmarkTimesOut, BenchmarkRaises,
       EndRun
<1>4. ASSUME NEW w \in Slot,
             \/ AcquireCleanup(w) \/ CleanupRemoves(w) \/ CleanupVerified(w)
             \/ CleanupFails(w)
      PROVE  SentinelInv'
  BY <1>4, SentinelFrame DEF AcquireCleanup, CleanupRemoves, CleanupVerified,
       CleanupFails, EndCleanup
<1>5. ASSUME NEW w \in Slot, Report(w) \/ RecordMetadata(w)
      PROVE  SentinelInv'
  BY <1>5, SentinelFrame DEF Report, RecordMetadata
<1>6. ASSUME NEW w \in Slot, Flush(w) \/ Exit(w)
      PROVE  SentinelInv'
  BY <1>6, SentinelFrame DEF Flush, Exit
<1>7. CASE StartWorker
  <2>1. CASE UNCHANGED phase
    BY <1>7, <2>1, SentinelFrame DEF StartWorker
  <2>2. CASE phase' = [phase EXCEPT ![started] = "fetch"]
    <3>1. started \in Slot => phase[started] = "new"
      BY DEF StartedInv, Slot
    <3>2. QED
      BY <1>7, <2>2, <3>1, SentinelFrame DEF StartWorker
  <2>3. QED
    BY <1>7, <2>1, <2>2 DEF StartWorker
<1>8. CASE AllStarted \/ Expire \/ Check \/ Get \/ PollEmpty \/ CheckAlive \/ Join
           \/ ShutdownDone \/ FinalVerified \/ FinalFails
  BY <1>8, SentinelFrame DEF AllStarted, Expire, Check, Get, PollEmpty, CheckAlive,
       Join, ShutdownDone, FinalVerified, FinalFails
<1>9. ASSUME NEW r \in Run, TaskCreates(r) \/ TaskEnds(r) \/ FinalRemoves(r)
      PROVE  SentinelInv'
  BY <1>9, SentinelFrame DEF TaskCreates, TaskEnds, FinalRemoves
<1>10. CASE UNCHANGED vars
  BY <1>10, SentinelFrame DEF vars
<1>11. QED
  BY <1>1, <1>2, <1>3, <1>4, <1>5, <1>6, <1>7, <1>8, <1>9, <1>10
     DEF Next, Parent, Worker, Crash, ShutdownWorker

\* A worker that asks for an item finds one or a sentinel, whoever died before.
THEOREM NeverBlocked == Spec => []NeverBlockedOnEmpty
<1>1. TypeInv /\ SentinelInv => NeverBlockedOnEmpty
  <2> SUFFICES ASSUME TypeInv, SentinelInv, NEW w \in Slot, phase[w] = "fetch"
               PROVE  task_queue[QueueOf(w)] # <<>>
    BY DEF NeverBlockedOnEmpty
  <2> DEFINE s == QueueOf(w)
  <2>1. s \in Sizes /\ w \in Pending(s)
    BY SizesAssumption DEF Sizes, QueueOf, Pending, SlotsOf
  <2>2. Cardinality(Pending(s)) \in Nat /\ Cardinality(Pending(s)) # 0
    BY <2>1, PendingFinite, FS_EmptySet
  <2>3. Cardinality(Pending(s)) <= Len(task_queue[s])
    BY <2>1 DEF SentinelInv, CountInv
  <2>4. QED
    BY <2>2, <2>3
<1>2. Init => StartedInv
  BY DEF Init, StartedInv
<1>3. QED
  BY <1>1, <1>2, InitType, TypeStep, StartedStep, InitSentinels, SentinelStep, PTL
     DEF Spec

\* A worker that ends without an error leaves no item of its size behind.
THEOREM SentinelsAreLast == Spec => []SentinelsLast
<1>1. TypeInv /\ SentinelInv => SentinelsLast
  <2> SUFFICES ASSUME TypeInv, SentinelInv, NEW w \in Slot, exitcode[w] = "ok",
                      NEW k \in DOMAIN task_queue[QueueOf(w)]
               PROVE  task_queue[QueueOf(w)][k] = None
    BY DEF SentinelsLast
  <2>1. QueueOf(w) \in Sizes
    BY SizesAssumption DEF Sizes, QueueOf
  <2>2. DOMAIN task_queue[QueueOf(w)] = 1 .. Len(task_queue[QueueOf(w)])
    BY <2>1 DEF TypeInv, TypeOK
  <2>3. QED
    BY <2>2 DEF SentinelInv, DrainedInv
<1>2. Init => StartedInv
  BY DEF Init, StartedInv
<1>3. QED
  BY <1>1, <1>2, InitType, TypeStep, StartedStep, InitSentinels, SentinelStep, PTL
     DEF Spec
-------------------------------------------------------------------------------
(* Every item is handed out once and reported once.  An item is in at most    *)
(* one of four places: its queue, the hands of a worker, that worker's        *)
(* buffer, or what reached the pipe (results \o result_queue).  Four steps    *)
(* move it (Fetch, Report, Flush, Kill); Get moves it within the last place.  *)

Delivered == results \o result_queue

NotQueued(i) ==
    \A s \in Sizes : \A k \in 1 .. Len(task_queue[s]) : task_queue[s][k] # i
NotIn(i, seq) == \A k \in 1 .. Len(seq) : seq[k].run[2] # i
Distinct(seq) ==
    \A j, k \in 1 .. Len(seq) : seq[j].run[2] = seq[k].run[2] => j = k

\* A queue holds items of its own size, each one once.
QueueInv ==
    \A s \in Sizes : \A j \in 1 .. Len(task_queue[s]) :
        task_queue[s][j] # None =>
            /\ ItemSize[task_queue[s][j]] = s
            /\ \A k \in 1 .. Len(task_queue[s]) :
                  task_queue[s][j] = task_queue[s][k] => j = k

\* An item in a worker's hands is nowhere else.
HeldInv ==
    \A w \in Slot : Holding(w) =>
        /\ NotQueued(item[w])
        /\ NotIn(item[w], Delivered)
        /\ \A v \in Slot : NotIn(item[w], outbox[v])
        /\ \A v \in Slot \ {w} : Holding(v) => item[w] # item[v]

\* An item in a worker's buffer is nowhere else.
BufferInv ==
    \A w \in Slot :
        /\ Distinct(outbox[w])
        /\ \A k \in 1 .. Len(outbox[w]) :
              /\ NotQueued(outbox[w][k].run[2])
              /\ NotIn(outbox[w][k].run[2], Delivered)
              /\ \A v \in Slot \ {w} : NotIn(outbox[w][k].run[2], outbox[v])

\* An item whose result was delivered is nowhere else.
DeliveredInv ==
    /\ Distinct(Delivered)
    /\ \A k \in 1 .. Len(Delivered) : NotQueued(Delivered[k].run[2])

ConservationInv == QueueInv /\ HeldInv /\ BufferInv /\ DeliveredInv

-------------------------------------------------------------------------------
\* The parent reads a result: what was delivered stays the same sequence.
LEMMA ReadKeepsDelivered ==
    ASSUME NEW S, NEW a \in Seq(S), NEW b \in Seq(S), b # <<>>
    PROVE  Append(a, Head(b)) \o Tail(b) = a \o b
<1>1. /\ Head(b) \in S
      /\ Tail(b) \in Seq(S)
      /\ <<Head(b)>> \in Seq(S)
  BY HeadTailProperties
<1>2. <<Head(b)>> \o Tail(b) = b
  <2>1. Len(b) \in Nat \ {0} /\ Head(b) = b[1]
    OBVIOUS
  <2>2. SubSeq(b, 1, Len(b)) = <<b[1]>> \o SubSeq(b, 2, Len(b))
    BY <2>1, SubSeqRecursiveFirst
  <2>3. SubSeq(b, 1, Len(b)) = b
    BY SubSeqFull
  <2>4. Tail(b) = SubSeq(b, 2, Len(b))
    BY TailIsSubSeq
  <2>5. QED
    BY <2>1, <2>2, <2>3, <2>4
<1>3. Append(a, Head(b)) = a \o <<Head(b)>>
  BY <1>1, AppendIsConcat
<1>4. (a \o <<Head(b)>>) \o Tail(b) = a \o (<<Head(b)>> \o Tail(b))
  BY <1>1, ConcatAssociative
<1>5. QED
  BY <1>2, <1>3, <1>4

\* The feeder writes a result to the pipe: it becomes the last one delivered.
LEMMA WriteAppendsDelivered ==
    ASSUME NEW S, NEW a \in Seq(S), NEW b \in Seq(S), NEW x \in S
    PROVE  a \o Append(b, x) = Append(a \o b, x)
<1>1. Append(b, x) = b \o <<x>> /\ <<x>> \in Seq(S) /\ a \o b \in Seq(S)
  BY AppendIsConcat, ConcatProperties
<1>2. (a \o b) \o <<x>> = a \o (b \o <<x>>)
  BY <1>1, ConcatAssociative
<1>3. QED
  BY <1>1, <1>2, AppendIsConcat

LEMMA DeliveredType == TypeInv => Delivered \in Seq(Result)
  BY ConcatProperties DEF TypeInv, TypeOK, Delivered

-------------------------------------------------------------------------------
\* The parent's put loop gives every queue its items once, then sentinels.
LEMMA InitConservation == Init => ConservationInv
<1> SUFFICES ASSUME Init PROVE ConservationInv
  OBVIOUS
<1>1. QueueInv
  <2> SUFFICES ASSUME NEW s \in Sizes, NEW j \in 1 .. Len(task_queue[s]),
                      task_queue[s][j] # None
               PROVE  /\ ItemSize[task_queue[s][j]] = s
                      /\ \A k \in 1 .. Len(task_queue[s]) :
                            task_queue[s][j] = task_queue[s][k] => j = k
    BY DEF QueueInv
  <2>1. task_queue[s] = Backlog[s] \o Sentinels(s)
    BY DEF Init, InitialQueue
  <2>2. /\ Backlog[s] \in Seq(Item \cup {None})
        /\ Sentinels(s) \in Seq(Item \cup {None})
        /\ \A k \in 1 .. Len(Sentinels(s)) : Sentinels(s)[k] = None
    BY BacklogAssumption, SentinelsType
  <2> DEFINE b == Backlog[s]
             e == Sentinels(s)
  <2>3. /\ Len(b \o e) = Len(b) + Len(e)
        /\ \A k \in 1 .. Len(b) + Len(e) :
              (b \o e)[k] = IF k <= Len(b) THEN b[k] ELSE e[k - Len(b)]
    BY <2>2, ConcatProperties
  <2>4. \A k \in 1 .. Len(b) + Len(e) : k > Len(b) => (b \o e)[k] = None
    <3> SUFFICES ASSUME NEW k \in 1 .. Len(b) + Len(e), k > Len(b)
                 PROVE  (b \o e)[k] = None
      OBVIOUS
    <3>1. Len(b) \in Nat /\ Len(e) \in Nat
      BY <2>2
    <3>2. k - Len(b) \in 1 .. Len(e) /\ ~(k <= Len(b))
      BY <3>1
    <3>3. (b \o e)[k] = e[k - Len(b)]
      BY <2>3, <3>2
    <3>4. QED
      BY <2>2, <3>2, <3>3
  <2>5. \A k \in 1 .. Len(b) : /\ b[k] \in Item
                               /\ ItemSize[b[k]] = s
                               /\ \A l \in 1 .. Len(b) : b[k] = b[l] => k = l
    BY BacklogAssumption
  <2>6. Len(b) \in Nat /\ Len(e) \in Nat /\ j \in 1 .. Len(b) + Len(e)
    BY <2>1, <2>2, <2>3
  <2>7. j <= Len(b) /\ task_queue[s][j] = b[j]
    BY <2>1, <2>3, <2>4, <2>6
  <2>8. ASSUME NEW k \in 1 .. Len(task_queue[s]), task_queue[s][j] = task_queue[s][k]
        PROVE  j = k
    <3>1. k \in 1 .. Len(b) + Len(e) /\ task_queue[s][k] = (b \o e)[k]
      BY <2>1, <2>3
    <3>2. k <= Len(b) /\ task_queue[s][k] = b[k]
      BY <2>3, <2>4, <2>6, <2>8, <3>1
    <3>3. j \in 1 .. Len(b) /\ k \in 1 .. Len(b) /\ b[j] = b[k]
      BY <2>6, <2>7, <2>8, <3>1, <3>2
    <3>4. QED
      BY <2>5, <3>3
  <2>9. QED
    BY <2>5, <2>6, <2>7, <2>8
<1>2. Delivered = <<>>
  BY DEF Init, Delivered
<1>3. HeldInv
  BY DEF Init, HeldInv, Holding
<1>4. BufferInv
  BY DEF Init, BufferInv, Distinct
<1>5. DeliveredInv
  BY <1>2 DEF DeliveredInv, Distinct
<1>6. QED
  BY <1>1, <1>3, <1>4, <1>5 DEF ConservationInv

\* Steps that move no item, and at most take one out of a worker's hands.
LEMMA FrameStep ==
    ASSUME ConservationInv,
           UNCHANGED task_queue, UNCHANGED outbox, Delivered' = Delivered,
           \A v \in Slot : Holding(v)' => Holding(v) /\ item'[v] = item[v]
    PROVE  ConservationInv'
<1>1. QueueInv'
  BY DEF ConservationInv, QueueInv
<1>2. HeldInv'
  BY DEF ConservationInv, HeldInv, NotQueued, NotIn
<1>3. BufferInv'
  BY DEF ConservationInv, BufferInv, NotQueued, NotIn, Distinct
<1>4. DeliveredInv'
  BY DEF ConservationInv, DeliveredInv, NotQueued, Distinct
<1>5. QED
  BY <1>1, <1>2, <1>3, <1>4 DEF ConservationInv

\* A worker takes the head of its queue: an item passes from the queue to it.
LEMMA FetchStep ==
    ASSUME TypeInv, ConservationInv, NEW w \in Slot, Fetch(w)
    PROVE  ConservationInv'
<1> DEFINE s0 == SlotSize[w]
           q == task_queue[s0]
           h == Head(q)
<1>1. s0 \in Sizes /\ q \in Seq(Item \cup {None}) /\ q # <<>>
  BY SizesAssumption DEF Sizes, Fetch, QueueOf, TypeInv, TypeOK
<1>2. /\ Len(q) \in Nat \ {0} /\ h = q[1]
      /\ Len(Tail(q)) = Len(q) - 1
      /\ \A k \in 1 .. Len(Tail(q)) : Tail(q)[k] = q[k + 1]
  BY <1>1, HeadTailProperties
<1>3. /\ task_queue' = [task_queue EXCEPT ![s0] = Tail(q)]
      /\ UNCHANGED outbox /\ Delivered' = Delivered
  BY DEF Fetch, QueueOf, parentVars, Delivered
<1>4. /\ \A k \in 1 .. Len(task_queue'[s0]) :
            /\ k + 1 \in 2 .. Len(task_queue[s0])
            /\ task_queue'[s0][k] = task_queue[s0][k + 1]
      /\ \A s \in Sizes \ {s0} : task_queue'[s] = task_queue[s]
  BY <1>1, <1>2, <1>3 DEF TypeInv, TypeOK
<1>5. QueueInv'
  <2> SUFFICES ASSUME NEW s \in Sizes, NEW j \in 1 .. Len(task_queue'[s]),
                      task_queue'[s][j] # None,
                      NEW k \in 1 .. Len(task_queue'[s])
               PROVE  /\ ItemSize[task_queue'[s][j]] = s
                      /\ task_queue'[s][j] = task_queue'[s][k] => j = k
    BY DEF QueueInv
  <2>1. CASE s = s0
    <3>1. /\ j + 1 \in 1 .. Len(task_queue[s0])
          /\ k + 1 \in 1 .. Len(task_queue[s0])
          /\ task_queue'[s0][j] = task_queue[s0][j + 1]
          /\ task_queue'[s0][k] = task_queue[s0][k + 1]
      BY <1>4, <2>1
    <3>2. QED
      BY <1>1, <2>1, <3>1 DEF ConservationInv, QueueInv
  <2>2. CASE s # s0
    BY <1>4, <2>2 DEF ConservationInv, QueueInv
  <2>3. QED
    BY <2>1, <2>2
<1>6. ASSUME NEW i, NotQueued(i)
      PROVE  \A s \in Sizes : \A k \in 1 .. Len(task_queue'[s]) :
                task_queue'[s][k] # i
  <2> SUFFICES ASSUME NEW s \in Sizes, NEW k \in 1 .. Len(task_queue'[s])
               PROVE  task_queue'[s][k] # i
    OBVIOUS
  <2>1. CASE s = s0
    <3>1. /\ k + 1 \in 1 .. Len(task_queue[s0])
          /\ task_queue'[s0][k] = task_queue[s0][k + 1]
      BY <1>4, <2>1
    <3>2. QED
      BY <1>1, <1>6, <2>1, <3>1 DEF NotQueued
  <2>2. CASE s # s0
    BY <1>4, <1>6, <2>2 DEF NotQueued
  <2>3. QED
    BY <2>1, <2>2
<1> HIDE DEF q, s0, h
<1>7. BufferInv'
  <2> SUFFICES ASSUME NEW v \in Slot
               PROVE  /\ Distinct(outbox[v])'
                      /\ \A k \in 1 .. Len(outbox'[v]) :
                            /\ NotQueued(outbox[v][k].run[2])'
                            /\ NotIn(outbox[v][k].run[2], Delivered)'
                            /\ \A u \in Slot \ {v} :
                                  NotIn(outbox[v][k].run[2], outbox[u])'
    BY DEF BufferInv
  <2>1. Distinct(outbox[v])'
    BY <1>3 DEF ConservationInv, BufferInv, Distinct
  <2>2. ASSUME NEW k \in 1 .. Len(outbox'[v])
        PROVE  /\ NotQueued(outbox[v][k].run[2])'
               /\ NotIn(outbox[v][k].run[2], Delivered)'
               /\ \A u \in Slot \ {v} : NotIn(outbox[v][k].run[2], outbox[u])'
    <3>1. NotQueued(outbox[v][k].run[2])
      BY <1>3 DEF ConservationInv, BufferInv
    <3>2. \A s \in Sizes : \A j \in 1 .. Len(task_queue'[s]) :
             task_queue'[s][j] # outbox[v][k].run[2]
      BY <1>6, <3>1
    <3>3. NotQueued(outbox[v][k].run[2])'
      BY <1>3, <3>2 DEF NotQueued
    <3>4. QED
      BY <1>3, <3>3 DEF ConservationInv, BufferInv, NotIn
  <2>3. QED
    BY <2>1, <2>2
<1>8. DeliveredInv'
  <2> SUFFICES ASSUME NEW k \in 1 .. Len(Delivered')
               PROVE  NotQueued(Delivered[k].run[2])'
    BY <1>3 DEF ConservationInv, DeliveredInv, Distinct
  <2>1. NotQueued(Delivered[k].run[2])
    BY <1>3 DEF ConservationInv, DeliveredInv
  <2>2. \A s \in Sizes : \A j \in 1 .. Len(task_queue'[s]) :
           task_queue'[s][j] # Delivered[k].run[2]
    BY <1>6, <2>1
  <2>3. QED
    BY <1>3, <2>2 DEF NotQueued
<1>9. HeldInv'
  <2>1. CASE h = None
    <3>1. \A v \in Slot : Holding(v)' => Holding(v) /\ item'[v] = item[v]
      BY <2>1 DEF Fetch, Holding, QueueOf, TypeInv, TypeOK, h, q, s0
    <3>2. ASSUME NEW v \in Slot, Holding(v)'
          PROVE  NotQueued(item[v])'
      <4>1. NotQueued(item[v]) /\ item'[v] = item[v]
        BY <3>1, <3>2 DEF ConservationInv, HeldInv
      <4>2. QED
        BY <1>6, <4>1 DEF NotQueued
    <3>3. QED
      BY <1>3, <3>1, <3>2 DEF ConservationInv, HeldInv, NotIn
  <2>2. CASE h # None
    <3>1. /\ item'[w] = h
          /\ \A v \in Slot \ {w} : item'[v] = item[v] /\ (Holding(v)' => Holding(v))
      BY <2>2 DEF Fetch, Holding, QueueOf, TypeInv, TypeOK, h, q, s0
    <3>2. \A s \in Sizes : \A k \in 1 .. Len(task_queue'[s]) : task_queue'[s][k] # h
      <4> SUFFICES ASSUME NEW s \in Sizes, NEW k \in 1 .. Len(task_queue'[s])
                   PROVE  task_queue'[s][k] # h
        OBVIOUS
      <4>1. 1 \in 1 .. Len(task_queue[s0]) /\ h = task_queue[s0][1]
        BY <1>2 DEF q
      <4>2. CASE s = s0
        <5>1. /\ k + 1 \in 1 .. Len(task_queue[s0]) /\ k + 1 # 1
              /\ task_queue'[s0][k] = task_queue[s0][k + 1]
          BY <1>4, <4>2
        <5>2. QED
          BY <1>1, <2>2, <4>1, <4>2, <5>1 DEF ConservationInv, QueueInv
      <4>3. CASE s # s0
        BY <1>1, <1>4, <2>2, <4>1, <4>3 DEF ConservationInv, QueueInv
      <4>4. QED
        BY <4>2, <4>3
    <3>3. \E k \in 1 .. Len(task_queue[s0]) : task_queue[s0][k] = h
      BY <1>2 DEF q
    <3>4. NotIn(h, Delivered) /\ \A v \in Slot : NotIn(h, outbox[v])
      BY <1>1, <3>3 DEF ConservationInv, BufferInv, DeliveredInv, NotIn, NotQueued
    <3>5. \A v \in Slot \ {w} : Holding(v) => item[v] # h
      BY <1>1, <3>3 DEF ConservationInv, HeldInv, NotQueued
    <3>6. ASSUME NEW v \in Slot, Holding(v)'
          PROVE  /\ NotQueued(item[v])'
                 /\ NotIn(item[v], Delivered)'
                 /\ \A u \in Slot : NotIn(item[v], outbox[u])'
                 /\ \A u \in Slot \ {v} : Holding(u)' => item'[v] # item'[u]
      <4>1. CASE v = w
        BY <1>3, <3>1, <3>2, <3>4, <3>5, <4>1 DEF NotQueued, NotIn
      <4>2. CASE v # w
        <5>1. Holding(v) /\ item'[v] = item[v]
          BY <3>1, <3>6, <4>2
        <5>2. NotQueued(item[v])
          BY <5>1 DEF ConservationInv, HeldInv
        <5>3. NotQueued(item[v])'
          BY <1>6, <5>1, <5>2 DEF NotQueued
        <5>4. NotIn(item[v], Delivered)' /\ \A u \in Slot : NotIn(item[v], outbox[u])'
          BY <1>3, <5>1 DEF ConservationInv, HeldInv, NotIn
        <5>5. \A u \in Slot \ {v} : Holding(u)' => item'[v] # item'[u]
          BY <3>1, <3>5, <5>1 DEF ConservationInv, HeldInv
        <5>6. QED
          BY <5>3, <5>4, <5>5
      <4>3. QED
        BY <4>1, <4>2
    <3>7. QED
      BY <3>6 DEF HeldInv
  <2>3. QED
    BY <2>1, <2>2
<1>10. QED
  BY <1>5, <1>7, <1>8, <1>9 DEF ConservationInv

\* A worker posts its result: the item passes from its hands to its buffer.
LEMMA ReportStep ==
    ASSUME TypeInv, ConservationInv, NEW w \in Slot, Report(w)
    PROVE  ConservationInv'
<1> DEFINE o == outbox[w]
           r == ResultOf(w)
<1>1. /\ Holding(w) /\ item[w] \in Item
      /\ r.run[2] = item[w]
      /\ o \in Seq(Result) /\ r \in Result
  <2>1. Holding(w) /\ item[w] \in Item /\ o \in Seq(Result)
    BY DEF Report, Holding, TypeInv, TypeOK, ItemInv
  <2>2. QED
    BY <2>1, ResultOfType
<1>2. /\ UNCHANGED task_queue /\ Delivered' = Delivered /\ UNCHANGED item
      /\ outbox' = [outbox EXCEPT ![w] = Append(o, r)]
  BY DEF Report, sharedVars, parentVars, Delivered
<1>3. \A v \in Slot : Holding(v)' => Holding(v) /\ v # w
  BY DEF Report, Holding, TypeInv, TypeOK
<1> HIDE DEF r
<1>4. /\ Len(o) \in Nat
      /\ Len(outbox'[w]) = Len(o) + 1
      /\ \A k \in 1 .. Len(o) : outbox'[w][k] = o[k]
      /\ outbox'[w][Len(o) + 1] = r
      /\ \A v \in Slot \ {w} : outbox'[v] = outbox[v]
  BY <1>1, <1>2, AppendProperties DEF TypeInv, TypeOK
<1>5. \A k \in 1 .. Len(outbox'[w]) : k \in 1 .. Len(o) \/ k = Len(o) + 1
  BY <1>4
<1>6. /\ NotQueued(item[w]) /\ NotIn(item[w], Delivered)
      /\ \A v \in Slot : NotIn(item[w], outbox[v])
  BY <1>1 DEF ConservationInv, HeldInv
<1>7. QueueInv' /\ DeliveredInv'
  BY <1>2 DEF ConservationInv, QueueInv, DeliveredInv, Distinct, NotQueued
<1>8. ASSUME NEW i, i # item[w], NotIn(i, o)
      PROVE  \A k \in 1 .. Len(outbox'[w]) : outbox'[w][k].run[2] # i
  BY <1>1, <1>4, <1>5, <1>8 DEF NotIn
<1>9. HeldInv'
  <2> SUFFICES ASSUME NEW v \in Slot, Holding(v)'
               PROVE  /\ NotQueued(item[v])'
                      /\ NotIn(item[v], Delivered)'
                      /\ \A u \in Slot : NotIn(item[v], outbox[u])'
                      /\ \A u \in Slot \ {v} : Holding(u)' => item'[v] # item'[u]
    BY DEF HeldInv
  <2>1. Holding(v) /\ v # w /\ item[v] # item[w]
    BY <1>1, <1>3 DEF ConservationInv, HeldInv
  <2>2. NotQueued(item[v])' /\ NotIn(item[v], Delivered)'
    BY <1>2, <2>1 DEF ConservationInv, HeldInv, NotQueued, NotIn
  <2>3. \A u \in Slot \ {v} : Holding(u)' => item'[v] # item'[u]
    BY <1>2, <1>3, <2>1 DEF ConservationInv, HeldInv
  <2>4. ASSUME NEW u \in Slot
        PROVE  NotIn(item[v], outbox[u])'
    <3>1. NotIn(item[v], outbox[u])
      BY <2>1 DEF ConservationInv, HeldInv
    <3>2. CASE u = w
      <4>1. \A k \in 1 .. Len(outbox'[w]) : outbox'[w][k].run[2] # item[v]
        BY <1>8, <2>1, <3>1, <3>2
      <4>2. QED
        BY <1>2, <3>2, <4>1 DEF NotIn
    <3>3. CASE u # w
      BY <1>2, <1>4, <3>1, <3>3 DEF NotIn
    <3>4. QED
      BY <3>2, <3>3
  <2>5. QED
    BY <2>2, <2>3, <2>4
<1>10. ASSUME NEW v \in Slot, NEW k \in 1 .. Len(outbox'[v]), v # w
       PROVE  /\ NotQueued(outbox[v][k].run[2])'
              /\ NotIn(outbox[v][k].run[2], Delivered)'
              /\ \A u \in Slot \ {v} : NotIn(outbox[v][k].run[2], outbox[u])'
  <2>1. outbox'[v] = outbox[v]
    BY <1>4, <1>10
  <2>2. NotQueued(outbox[v][k].run[2])' /\ NotIn(outbox[v][k].run[2], Delivered)'
    <3>1. NotQueued(outbox[v][k].run[2]) /\ NotIn(outbox[v][k].run[2], Delivered)
      BY <2>1 DEF ConservationInv, BufferInv
    <3>2. QED
      BY <1>2, <2>1, <3>1 DEF NotQueued, NotIn
  <2>3. ASSUME NEW u \in Slot \ {v}
        PROVE  NotIn(outbox[v][k].run[2], outbox[u])'
    <3>1. NotIn(outbox[v][k].run[2], outbox[u])
      BY <2>1 DEF ConservationInv, BufferInv
    <3>2. CASE u = w
      <4>1. outbox[v][k].run[2] # item[w]
        BY <1>6, <2>1 DEF NotIn
      <4>2. \A j \in 1 .. Len(outbox'[w]) : outbox'[w][j].run[2] # outbox[v][k].run[2]
        BY <1>8, <3>1, <3>2, <4>1
      <4>3. QED
        BY <2>1, <3>2, <4>2 DEF NotIn
    <3>3. CASE u # w
      BY <1>4, <2>1, <3>1, <3>3 DEF NotIn
    <3>4. QED
      BY <3>2, <3>3
  <2>4. QED
    BY <2>2, <2>3
<1>11. ASSUME NEW k \in 1 .. Len(outbox'[w])
       PROVE  /\ NotQueued(outbox[w][k].run[2])'
              /\ NotIn(outbox[w][k].run[2], Delivered)'
              /\ \A u \in Slot \ {w} : NotIn(outbox[w][k].run[2], outbox[u])'
  <2>1. CASE k \in 1 .. Len(o)
    BY <1>2, <1>4, <2>1 DEF ConservationInv, BufferInv, NotQueued, NotIn
  <2>2. CASE k = Len(o) + 1
    <3>1. outbox'[w][k].run[2] = item[w]
      BY <1>1, <1>4, <2>2
    <3>2. QED
      BY <1>2, <1>4, <1>6, <3>1 DEF NotQueued, NotIn
  <2>3. QED
    BY <1>5, <2>1, <2>2
<1>12. \A v \in Slot : Distinct(outbox[v])'
  <2>1. ASSUME NEW v \in Slot, v # w
        PROVE  Distinct(outbox[v])'
    BY <1>4, <2>1 DEF ConservationInv, BufferInv, Distinct
  <2>2. Distinct(outbox[w])'
    <3> SUFFICES ASSUME NEW j \in 1 .. Len(outbox'[w]), NEW k \in 1 .. Len(outbox'[w]),
                        outbox'[w][j].run[2] = outbox'[w][k].run[2]
                 PROVE  j = k
      BY DEF Distinct
    <3>1. NotIn(item[w], o)
      BY <1>6
    <3>2. CASE j \in 1 .. Len(o) /\ k \in 1 .. Len(o)
      BY <1>4, <3>2 DEF ConservationInv, BufferInv, Distinct
    <3>3. CASE j \in 1 .. Len(o) /\ k = Len(o) + 1
      BY <1>1, <1>4, <3>1, <3>3 DEF NotIn
    <3>4. CASE j = Len(o) + 1 /\ k \in 1 .. Len(o)
      BY <1>1, <1>4, <3>1, <3>4 DEF NotIn
    <3>5. QED
      BY <1>5, <3>2, <3>3, <3>4
  <2>3. QED
    BY <2>1, <2>2
<1>13. BufferInv'
  BY <1>10, <1>11, <1>12 DEF BufferInv
<1>14. QED
  BY <1>7, <1>9, <1>13 DEF ConservationInv

\* The feeder writes the oldest buffered result: its item becomes delivered.
LEMMA FlushStep ==
    ASSUME TypeInv, ConservationInv, NEW w \in Slot, Flush(w)
    PROVE  ConservationInv'
<1> DEFINE o == outbox[w]
           r == Head(o)
<1>1. /\ o \in Seq(Result) /\ o # <<>>
      /\ Delivered \in Seq(Result)
  BY DeliveredType DEF Flush, TypeInv, TypeOK
<1>2. /\ UNCHANGED <<task_queue, item, phase>>
      /\ outbox' = [outbox EXCEPT ![w] = Tail(o)]
      /\ result_queue' = Append(result_queue, r)
      /\ UNCHANGED results
  BY DEF Flush, parentVars
<1>3. /\ Len(o) \in Nat \ {0} /\ r \in Result /\ r = o[1]
      /\ Len(Tail(o)) = Len(o) - 1
      /\ \A k \in 1 .. Len(Tail(o)) : Tail(o)[k] = o[k + 1]
  BY <1>1, HeadTailProperties
<1>4. Delivered' = Append(Delivered, r)
  BY <1>2, <1>3, WriteAppendsDelivered DEF Delivered, TypeInv, TypeOK
<1> HIDE DEF r
<1>5. /\ Len(Delivered) \in Nat /\ Len(Delivered') = Len(Delivered) + 1
      /\ \A k \in 1 .. Len(Delivered) : Delivered'[k] = Delivered[k]
      /\ Delivered'[Len(Delivered) + 1] = r
  BY <1>1, <1>3, <1>4, AppendProperties
<1>6. \A k \in 1 .. Len(Delivered') :
         k \in 1 .. Len(Delivered) \/ k = Len(Delivered) + 1
  BY <1>5
<1>7. /\ \A k \in 1 .. Len(outbox'[w]) :
            /\ k + 1 \in 2 .. Len(o)
            /\ outbox'[w][k] = o[k + 1]
      /\ \A v \in Slot \ {w} : outbox'[v] = outbox[v]
  BY <1>1, <1>2, <1>3 DEF TypeInv, TypeOK
\* Every buffered result was buffered before, and none of them is r.
<1>8. ASSUME NEW v \in Slot, NEW k \in 1 .. Len(outbox'[v])
      PROVE  /\ \E j \in 1 .. Len(outbox[v]) : outbox'[v][k] = outbox[v][j]
             /\ outbox'[v][k].run[2] # r.run[2]
  <2>1. CASE v = w
    <3>1. /\ 1 \in 1 .. Len(o) /\ k + 1 \in 1 .. Len(o) /\ k + 1 # 1
          /\ outbox'[w][k] = o[k + 1]
      BY <1>3, <1>7, <2>1
    <3>2. QED
      BY <1>3, <2>1, <3>1 DEF ConservationInv, BufferInv, Distinct
  <2>2. CASE v # w
    <3>1. NotIn(o[1].run[2], outbox[v]) /\ outbox'[v] = outbox[v]
      BY <1>3, <1>7, <2>2 DEF ConservationInv, BufferInv
    <3>2. QED
      BY <1>3, <3>1 DEF NotIn
  <2>3. QED
    BY <2>1, <2>2
<1>9. NotQueued(r.run[2]) /\ NotIn(r.run[2], Delivered)
  BY <1>3 DEF ConservationInv, BufferInv
<1>10. ASSUME NEW i, i # r.run[2], NotIn(i, Delivered)
       PROVE  \A k \in 1 .. Len(Delivered') : Delivered'[k].run[2] # i
  BY <1>5, <1>6, <1>10 DEF NotIn
<1>11. ASSUME NEW i, NEW v \in Slot, NotIn(i, outbox[v])
       PROVE  \A k \in 1 .. Len(outbox'[v]) : outbox'[v][k].run[2] # i
  BY <1>8, <1>11 DEF NotIn
<1>12. QueueInv'
  BY <1>2 DEF ConservationInv, QueueInv
<1>13. HeldInv'
  <2> SUFFICES ASSUME NEW v \in Slot, Holding(v)'
               PROVE  /\ NotQueued(item[v])'
                      /\ NotIn(item[v], Delivered)'
                      /\ \A u \in Slot : NotIn(item[v], outbox[u])'
                      /\ \A u \in Slot \ {v} : Holding(u)' => item'[v] # item'[u]
    BY DEF HeldInv
  <2>1. Holding(v) /\ \A u \in Slot : Holding(u)' => Holding(u)
    BY <1>2 DEF Holding
  <2>2. item[v] # r.run[2]
    BY <1>3, <2>1 DEF ConservationInv, HeldInv, NotIn
  <2>3. NotIn(item[v], Delivered) /\ \A u \in Slot : NotIn(item[v], outbox[u])
    BY <2>1 DEF ConservationInv, HeldInv
  <2>4. NotIn(item[v], Delivered)'
    <3>1. \A k \in 1 .. Len(Delivered') : Delivered'[k].run[2] # item[v]
      BY <1>10, <2>2, <2>3
    <3>2. QED
      BY <1>2, <3>1 DEF NotIn
  <2>5. \A u \in Slot : NotIn(item[v], outbox[u])'
    <3>1. \A u \in Slot : \A k \in 1 .. Len(outbox'[u]) :
             outbox'[u][k].run[2] # item[v]
      BY <1>11, <2>3
    <3>2. QED
      BY <1>2, <3>1 DEF NotIn
  <2>6. NotQueued(item[v])'
    BY <1>2, <2>1 DEF ConservationInv, HeldInv, NotQueued
  <2>7. \A u \in Slot \ {v} : Holding(u)' => item'[v] # item'[u]
    BY <1>2, <2>1 DEF ConservationInv, HeldInv
  <2>8. QED
    BY <2>4, <2>5, <2>6, <2>7
<1>14. BufferInv'
  <2>1. \A v \in Slot : Distinct(outbox[v])'
    <3>1. ASSUME NEW v \in Slot, v # w
          PROVE  Distinct(outbox[v])'
      BY <1>7, <3>1 DEF ConservationInv, BufferInv, Distinct
    <3>2. Distinct(outbox[w])'
      <4> SUFFICES ASSUME NEW j \in 1 .. Len(outbox'[w]),
                          NEW k \in 1 .. Len(outbox'[w]),
                          outbox'[w][j].run[2] = outbox'[w][k].run[2]
                   PROVE  j = k
        BY DEF Distinct
      <4>1. j + 1 \in 2 .. Len(o) /\ outbox'[w][j] = o[j + 1]
        BY <1>7
      <4>2. k + 1 \in 2 .. Len(o) /\ outbox'[w][k] = o[k + 1]
        BY <1>7
      <4>3. o[j + 1].run[2] = o[k + 1].run[2]
        BY <4>1, <4>2
      <4>4. j + 1 \in 1 .. Len(o) /\ k + 1 \in 1 .. Len(o)
        BY <1>3, <4>1, <4>2
      <4>5. Distinct(o)
        BY DEF ConservationInv, BufferInv
      <4>6. j + 1 = k + 1
        BY <4>3, <4>4, <4>5 DEF Distinct
      <4>7. QED
        BY <4>6
    <3>3. QED
      BY <3>1, <3>2
  <2>2. ASSUME NEW v \in Slot, NEW k \in 1 .. Len(outbox'[v])
        PROVE  /\ NotQueued(outbox[v][k].run[2])'
               /\ NotIn(outbox[v][k].run[2], Delivered)'
               /\ \A u \in Slot \ {v} : NotIn(outbox[v][k].run[2], outbox[u])'
    <3>1. PICK j \in 1 .. Len(outbox[v]) : outbox'[v][k] = outbox[v][j]
      BY <1>8
    <3> DEFINE i == outbox[v][j].run[2]
    <3>2. /\ NotQueued(i) /\ NotIn(i, Delivered)
          /\ \A u \in Slot \ {v} : NotIn(i, outbox[u])
      BY DEF ConservationInv, BufferInv
    <3>3. i # r.run[2]
      BY <1>8, <3>1
    <3> HIDE DEF i
    <3>4. \A l \in 1 .. Len(Delivered') : Delivered'[l].run[2] # i
      BY <1>10, <3>2, <3>3
    <3>5. \A u \in Slot \ {v} : \A l \in 1 .. Len(outbox'[u]) :
             outbox'[u][l].run[2] # i
      BY <1>11, <3>2
    <3>6. outbox'[v][k].run[2] = i
      BY <3>1 DEF i
    <3>7. QED
      BY <1>2, <3>2, <3>4, <3>5, <3>6 DEF NotQueued, NotIn
  <2>3. QED
    BY <2>1, <2>2 DEF BufferInv
<1>15. DeliveredInv'
  <2>1. Distinct(Delivered)'
    <3> SUFFICES ASSUME NEW j \in 1 .. Len(Delivered'), NEW k \in 1 .. Len(Delivered'),
                        Delivered'[j].run[2] = Delivered'[k].run[2]
                 PROVE  j = k
      BY DEF Distinct
    <3>1. CASE j \in 1 .. Len(Delivered) /\ k \in 1 .. Len(Delivered)
      BY <1>5, <3>1 DEF ConservationInv, DeliveredInv, Distinct
    <3>2. CASE j \in 1 .. Len(Delivered) /\ k = Len(Delivered) + 1
      BY <1>5, <1>9, <3>2 DEF NotIn
    <3>3. CASE j = Len(Delivered) + 1 /\ k \in 1 .. Len(Delivered)
      BY <1>5, <1>9, <3>3 DEF NotIn
    <3>4. QED
      BY <1>6, <3>1, <3>2, <3>3
  <2>2. ASSUME NEW k \in 1 .. Len(Delivered')
        PROVE  NotQueued(Delivered[k].run[2])'
    <3>1. NotQueued(Delivered'[k].run[2])
      BY <1>5, <1>6, <1>9 DEF ConservationInv, DeliveredInv
    <3>2. QED
      BY <1>2, <3>1 DEF NotQueued
  <2>3. QED
    BY <2>1, <2>2 DEF DeliveredInv
<1>16. QED
  BY <1>12, <1>13, <1>14, <1>15 DEF ConservationInv

\* A worker is killed: the item in its hands, or its buffered results, are lost.
LEMMA KillStep ==
    ASSUME TypeInv, ConservationInv, NEW w \in Slot, Kill(w)
    PROVE  ConservationInv'
<1>1. /\ UNCHANGED <<task_queue, item>> /\ Delivered' = Delivered
      /\ outbox'[w] = <<>>
      /\ \A v \in Slot \ {w} : outbox'[v] = outbox[v]
      /\ \A v \in Slot : Holding(v)' => Holding(v)
  BY DEF Kill, parentVars, Delivered, TypeInv, TypeOK, Holding
<1>2. \A i : \A v \in Slot : NotIn(i, outbox[v]) => NotIn(i, outbox[v])'
  <2> SUFFICES ASSUME NEW i, NEW v \in Slot, NotIn(i, outbox[v]),
                      NEW k \in 1 .. Len(outbox'[v])
               PROVE  outbox'[v][k].run[2] # i
    BY DEF NotIn
  <2>1. v # w
    BY <1>1
  <2>2. QED
    BY <1>1, <2>1 DEF NotIn
<1>3. QueueInv' /\ DeliveredInv'
  BY <1>1 DEF ConservationInv, QueueInv, DeliveredInv, Distinct, NotQueued
<1>4. HeldInv'
  <2> SUFFICES ASSUME NEW v \in Slot, Holding(v)'
               PROVE  /\ NotQueued(item[v])'
                      /\ NotIn(item[v], Delivered)'
                      /\ \A u \in Slot : NotIn(item[v], outbox[u])'
                      /\ \A u \in Slot \ {v} : Holding(u)' => item'[v] # item'[u]
    BY DEF HeldInv
  <2>1. \A u \in Slot : NotIn(item[v], outbox[u])
    BY <1>1 DEF ConservationInv, HeldInv
  <2>2. ASSUME NEW u \in Slot
        PROVE  NotIn(item[v], outbox[u])'
    <3>1. CASE u = w
      BY <1>1, <3>1 DEF NotIn
    <3>2. CASE u # w
      BY <1>1, <2>1, <3>2 DEF NotIn
    <3>3. QED
      BY <3>1, <3>2
  <2>3. QED
    BY <1>1, <2>2 DEF ConservationInv, HeldInv, NotQueued, NotIn
<1>5. ASSUME NEW v \in Slot
      PROVE  /\ Distinct(outbox[v])'
             /\ \A k \in 1 .. Len(outbox'[v]) :
                   /\ NotQueued(outbox[v][k].run[2])'
                   /\ NotIn(outbox[v][k].run[2], Delivered)'
                   /\ \A u \in Slot \ {v} : NotIn(outbox[v][k].run[2], outbox[u])'
  <2>1. CASE v = w
    BY <1>1, <2>1 DEF Distinct
  <2>2. CASE v # w
    <3>1. ASSUME NEW k \in 1 .. Len(outbox'[v]), NEW u \in Slot \ {v}
          PROVE  NotIn(outbox[v][k].run[2], outbox[u])'
      <4>1. NotIn(outbox[v][k].run[2], outbox[u])
        BY <1>1, <2>2 DEF ConservationInv, BufferInv
      <4>2. CASE u = w
        BY <1>1, <4>2 DEF NotIn
      <4>3. CASE u # w
        BY <1>1, <2>2, <4>1, <4>3 DEF NotIn
      <4>4. QED
        BY <4>2, <4>3
    <3>2. QED
      BY <1>1, <2>2, <3>1
         DEF ConservationInv, BufferInv, Distinct, NotQueued, NotIn
  <2>3. QED
    BY <2>1, <2>2
<1>6. QED
  BY <1>3, <1>4, <1>5 DEF ConservationInv, BufferInv

\* The parent's steps and the steps outside the processes move no item.
LEMMA ParentConservation ==
    ASSUME TypeInv, ConservationInv, Parent \/ Expire
    PROVE  ConservationInv'
<1> USE DEF TypeInv, TypeOK, Holding, Delivered, sharedVars, workerVars
<1>1. CASE StartWorker
  BY <1>1, FrameStep DEF StartWorker
<1>2. CASE Get
  <2>1. Delivered' = Delivered
    BY <1>2, ReadKeepsDelivered DEF Get
  <2>2. QED
    BY <1>2, <2>1, FrameStep DEF Get
<1>3. CASE AllStarted \/ Expire \/ Check \/ PollEmpty \/ CheckAlive \/ Join
           \/ ShutdownDone \/ FinalVerified \/ FinalFails
  BY <1>3, FrameStep DEF AllStarted, Expire, Check, PollEmpty, CheckAlive, Join,
       ShutdownDone, FinalVerified, FinalFails
<1>4. ASSUME NEW w \in Slot, ShutdownWorker(w)
      PROVE  ConservationInv'
  BY <1>4, KillStep DEF ShutdownWorker
<1>5. ASSUME NEW r \in Run, FinalRemoves(r)
      PROVE  ConservationInv'
  BY <1>5, FrameStep DEF FinalRemoves, parentVars
<1>6. QED
  BY <1>1, <1>2, <1>3, <1>4, <1>5 DEF Parent

LEMMA WorkerConservation ==
    ASSUME TypeInv, ConservationInv, NEW w \in Slot, Worker(w) \/ Crash(w)
    PROVE  ConservationInv'
<1>1. CASE Fetch(w)
  BY <1>1, FetchStep
<1>2. CASE Report(w)
  BY <1>2, ReportStep
<1>3. CASE Flush(w)
  BY <1>3, FlushStep
<1>4. CASE Crash(w)
  BY <1>4, KillStep DEF Crash
<1>5. CASE BenchmarkReturns(w) \/ BenchmarkTimesOut(w) \/ BenchmarkRaises(w)
  BY <1>5, FrameStep DEF BenchmarkReturns, BenchmarkTimesOut, BenchmarkRaises,
       EndRun, TypeInv, TypeOK, Holding, Delivered, sharedVars, parentVars
<1>6. CASE AcquireCleanup(w) \/ CleanupRemoves(w) \/ CleanupVerified(w)
           \/ CleanupFails(w)
  BY <1>6, FrameStep DEF AcquireCleanup, CleanupRemoves, CleanupVerified,
       CleanupFails, EndCleanup, TypeInv, TypeOK, Holding, Delivered, sharedVars,
       parentVars, workerVars
<1>7. CASE RecordMetadata(w) \/ Exit(w)
  BY <1>7, FrameStep DEF RecordMetadata, Exit, TypeInv, TypeOK, Holding, Delivered,
       sharedVars, parentVars
<1>8. QED
  BY <1>1, <1>2, <1>3, <1>4, <1>5, <1>6, <1>7 DEF Worker

LEMMA ConservationStep ==
    TypeInv /\ ConservationInv /\ [Next]_vars => ConservationInv'
<1> SUFFICES ASSUME TypeInv, ConservationInv, [Next]_vars
             PROVE  ConservationInv'
  OBVIOUS
<1>1. ASSUME NEW r \in Run, TaskCreates(r) \/ TaskEnds(r)
      PROVE  ConservationInv'
  BY <1>1, FrameStep DEF TaskCreates, TaskEnds, sharedVars, workerVars, parentVars,
       Delivered, Holding
<1>2. CASE UNCHANGED vars
  BY <1>2, FrameStep DEF vars, sharedVars, workerVars, parentVars, Delivered, Holding
<1>3. QED
  BY <1>1, <1>2, ParentConservation, WorkerConservation DEF Next

\* Every item is handed out once and reported once, whoever crashes and
\* whenever: no item occurs twice across the workers, their buffers, the pipe
\* and the parent's results.
THEOREM ItemsOnce == Spec => []NoItemTwice
<1>1. TypeInv /\ ConservationInv => NoItemTwice
  <2> SUFFICES ASSUME TypeInv, ConservationInv
               PROVE  NoItemTwice
    OBVIOUS
  <2> DEFINE delivered == results \o result_queue
  <2>1. /\ delivered = Delivered /\ Delivered \in Seq(Result)
        /\ DOMAIN Delivered = 1 .. Len(Delivered)
    BY DeliveredType DEF Delivered
  <2>2. \A w \in Slot : DOMAIN outbox[w] = 1 .. Len(outbox[w])
    BY DEF TypeInv, TypeOK
  <2>3. \A w \in Slot : \A i : NotIn(i, outbox[w]) => i \notin ItemsIn(outbox[w])
    BY <2>2 DEF NotIn, ItemsIn
  <2>4. \A i : NotIn(i, Delivered) => i \notin ItemsIn(delivered)
    BY <2>1 DEF NotIn, ItemsIn
  <2> HIDE DEF delivered
  <2>5. ASSUME NEW w \in Slot
        PROVE  /\ ItemsIn(outbox[w]) \cap ItemsIn(delivered) = {}
               /\ \A v \in Slot \ {w} : ItemsIn(outbox[w]) \cap ItemsIn(outbox[v]) = {}
    <3>1. \A i \in ItemsIn(outbox[w]) :
             NotIn(i, Delivered) /\ \A v \in Slot \ {w} : NotIn(i, outbox[v])
      BY <2>2 DEF ItemsIn, ConservationInv, BufferInv
    <3>2. QED
      BY <2>3, <2>4, <3>1
  <2>6. ASSUME NEW w \in Slot, Holding(w)
        PROVE  /\ item[w] \notin ItemsIn(delivered)
               /\ \A v \in Slot : item[w] \notin ItemsIn(outbox[v])
               /\ \A v \in Slot \ {w} : Holding(v) => item[w] # item[v]
    BY <2>3, <2>4, <2>6 DEF ConservationInv, HeldInv
  <2>7. \A j, k \in DOMAIN delivered :
           delivered[j].run[2] = delivered[k].run[2] => j = k
    BY <2>1 DEF ConservationInv, DeliveredInv, Distinct
  <2>8. ASSUME NEW w \in Slot
        PROVE  \A j, k \in DOMAIN outbox[w] :
                  outbox[w][j].run[2] = outbox[w][k].run[2] => j = k
    BY <2>2 DEF ConservationInv, BufferInv, Distinct
  <2>9. QED
    BY <2>5, <2>6, <2>7, <2>8 DEF NoItemTwice, delivered
<1>2. QED
  BY <1>1, InitType, TypeStep, InitConservation, ConservationStep, PTL DEF Spec

-------------------------------------------------------------------------------
(* What the caller sees: a normal return is complete, and every step of the   *)
(* orchestrator is a step of the abstract point or leaves it unchanged.       *)

\* While nothing is raised no fatal result was read, and the polling loop is
\* left only with as many results as there are items.
LoopInv ==
    raised = "none" =>
        /\ parent # "raised"
        /\ \A k \in 1 .. Len(results) : ~Fatal(results[k])
        /\ parent \in {"join", "shutdown", "final", "returned"}
              => Len(results) = Cardinality(Item)

OutcomeInv == LoopInv /\ (parent = "returned" => raised = "none")

LEMMA LoopStep == TypeInv /\ OutcomeInv /\ [Next]_vars => OutcomeInv'
<1> SUFFICES ASSUME TypeInv, OutcomeInv, [Next]_vars
             PROVE  OutcomeInv'
  OBVIOUS
<1> USE DEF OutcomeInv, LoopInv, parentVars
<1>1. CASE UNCHANGED parentVars
  BY <1>1
<1>2. CASE StartWorker
  BY <1>2 DEF StartWorker, Raise
<1>3. CASE Check
  BY <1>3 DEF Check, Raise
<1>4. CASE Get
  <2>1. CASE raised' = "none"
    <3>1. /\ ~Fatal(Head(result_queue)) /\ parent' = "check" /\ UNCHANGED raised
          /\ results' = Append(results, Head(result_queue))
      BY <1>4, <2>1 DEF Get, Raise, WorkerErrorFromResult, Fatal
    <3>2. /\ results \in Seq(Result) /\ Head(result_queue) \in Result
      BY <1>4 DEF Get, TypeInv, TypeOK
    <3>3. /\ Len(results') = Len(results) + 1
          /\ \A k \in 1 .. Len(results) : results'[k] = results[k]
          /\ results'[Len(results) + 1] = Head(result_queue)
          /\ Len(results) \in Nat
      BY <3>1, <3>2, AppendProperties
    <3>4. \A k \in 1 .. Len(results') : k \in 1 .. Len(results) \/ k = Len(results) + 1
      BY <3>3
    <3>5. \A k \in 1 .. Len(results') : ~Fatal(results'[k])
      BY <2>1, <3>1, <3>3, <3>4 DEF Fatal
    <3>6. QED
      BY <3>1, <3>5 DEF Fatal
  <2>2. CASE raised' # "none"
    <3>1. parent' \in {"shutdown", "check"}
      BY <1>4 DEF Get, Raise
    <3>2. QED
      BY <2>2, <3>1
  <2>3. QED
    BY <2>1, <2>2
<1>5. CASE CheckAlive
  BY <1>5 DEF CheckAlive, Raise
<1>6. CASE Join
  BY <1>6 DEF Join, Raise
<1>7. CASE FinalVerified \/ FinalFails
  BY <1>7 DEF FinalVerified, FinalFails
<1>8. CASE AllStarted \/ Expire \/ PollEmpty \/ ShutdownDone
  BY <1>8 DEF AllStarted, Expire, PollEmpty, ShutdownDone, Supervising
<1>9. ASSUME NEW w \in Slot, Worker(w) \/ Kill(w)
      PROVE  UNCHANGED parentVars
  BY <1>9 DEF Worker, Fetch, BenchmarkReturns, BenchmarkTimesOut, BenchmarkRaises,
       EndRun, AcquireCleanup, CleanupRemoves, CleanupVerified, CleanupFails,
       EndCleanup, Report, RecordMetadata, Flush, Exit, Kill
<1>10. ASSUME NEW r \in Run, TaskCreates(r) \/ TaskEnds(r) \/ FinalRemoves(r)
       PROVE  UNCHANGED parentVars
  BY <1>10 DEF TaskCreates, TaskEnds, FinalRemoves
<1>11. QED
  BY <1>1, <1>2, <1>3, <1>4, <1>5, <1>6, <1>7, <1>8, <1>9, <1>10
     DEF Next, Parent, Crash, ShutdownWorker, vars

LEMMA InitOutcome == Init => OutcomeInv
  BY DEF Init, OutcomeInv, LoopInv

\* As many results as items, no item twice: the results are those of all items.
LEMMA EnoughResults ==
    ASSUME TypeInv, ConservationInv, Len(results) = Cardinality(Item)
    PROVE  ItemsIn(results) = Item
<1> DEFINE n == Len(results)
           f == [k \in 1 .. n |-> results[k].run[2]]
<1>1. n \in Nat /\ results \in Seq(Result)
  BY DEF TypeInv, TypeOK
<1>2. \A k \in 1 .. n : results[k].run[2] \in Item
  <2>1. \A k \in 1 .. n : results[k] \in Result
    BY <1>1
  <2>2. \A r \in Result : r.run[2] \in Item
    BY DEF Result, Run
  <2>3. QED
    BY <2>1, <2>2
<1>3. /\ Len(Delivered) \in Nat /\ n <= Len(Delivered)
      /\ \A k \in 1 .. n : Delivered[k] = results[k]
  BY <1>1, ConcatProperties DEF Delivered, TypeInv, TypeOK
<1>4. \A j, k \in 1 .. n : results[j].run[2] = results[k].run[2] => j = k
  <2>1. \A k \in 1 .. n : k \in 1 .. Len(Delivered)
    BY <1>1, <1>3
  <2>2. QED
    BY <1>3, <2>1 DEF ConservationInv, DeliveredInv, Distinct
<1>5. f \in Injection(1 .. n, Item)
  BY <1>2, <1>4 DEF Injection, IsInjective
<1>6. IsFiniteSet(Item) /\ Cardinality(1 .. n) = Cardinality(Item)
  BY <1>1, FS_Interval, ItemsAssumption
<1>7. f \in Surjection(1 .. n, Item)
  BY <1>5, <1>6, FS_Injection
<1>8. \A i \in Item : \E k \in 1 .. n : results[k].run[2] = i
  BY <1>7 DEF Surjection
<1>9. DOMAIN results = 1 .. n
  BY <1>1
<1>10. QED
  BY <1>2, <1>8, <1>9 DEF ItemsIn

\* A normal return means that every item ran and reported no error, for any
\* number of workers and items and whatever the workers died of.
THEOREM ReturnIsComplete == Spec => []ReturnedComplete
<1>1. TypeInv /\ ConservationInv /\ OutcomeInv => ReturnedComplete
  <2> SUFFICES ASSUME TypeInv, ConservationInv, OutcomeInv, parent = "returned"
               PROVE  /\ ItemsIn(results) = Item
                      /\ \A k \in DOMAIN results : ~Fatal(results[k])
    BY DEF ReturnedComplete
  <2>1. /\ Len(results) = Cardinality(Item)
        /\ \A k \in 1 .. Len(results) : ~Fatal(results[k])
    BY DEF OutcomeInv, LoopInv
  <2>2. DOMAIN results = 1 .. Len(results)
    BY DEF TypeInv, TypeOK
  <2>3. QED
    BY <2>1, <2>2, EnoughResults
<1>2. QED
  BY <1>1, InitType, TypeStep, InitConservation, ConservationStep, InitOutcome,
     LoopStep, PTL DEF Spec

-------------------------------------------------------------------------------
(* Refinement of StreamPoint under done <- ItemsIn(results), outcome <-       *)
(* Outcome.                                                                   *)

\* A read result reports one more item.
LEMMA GetReports ==
    ASSUME TypeInv, ConservationInv, OutcomeInv, RaisedInv, Get
    PROVE  \E i \in Item : Point!Report(i)
<1> DEFINE r == Head(result_queue)
           i == r.run[2]
<1>1. /\ results \in Seq(Result) /\ result_queue \in Seq(Result)
      /\ result_queue # <<>> /\ r \in Result
      /\ results' = Append(results, r)
  BY DEF Get, TypeInv, TypeOK
<1>2. i \in Item
  BY <1>1 DEF Result, Run
<1>3. /\ Len(results) \in Nat
      /\ Len(results') = Len(results) + 1
      /\ \A k \in 1 .. Len(results) : results'[k] = results[k]
      /\ results'[Len(results) + 1] = r
      /\ DOMAIN results = 1 .. Len(results)
      /\ DOMAIN results' = 1 .. Len(results) + 1
  BY <1>1, AppendProperties
<1>4. ItemsIn(results') = ItemsIn(results) \cup {i}
  <2>1. \A k \in DOMAIN results' : k \in DOMAIN results \/ k = Len(results) + 1
    BY <1>3
  <2>2. Len(results) + 1 \in DOMAIN results' /\ DOMAIN results \subseteq DOMAIN results'
    BY <1>3
  <2>3. QED
    BY <1>3, <2>1, <2>2 DEF ItemsIn
<1>5. i \notin ItemsIn(results)
  <2> DEFINE m == Len(results) + 1
  <2>1. /\ Len(Delivered) = Len(results) + Len(result_queue)
        /\ Len(result_queue) \in Nat \ {0}
        /\ \A k \in 1 .. Len(results) : Delivered[k] = results[k]
        /\ Delivered[m] = result_queue[1] /\ r = result_queue[1]
    BY <1>1, <1>3, ConcatProperties DEF Delivered
  <2>2. m \in 1 .. Len(Delivered) /\ \A k \in 1 .. Len(results) :
                                        k \in 1 .. Len(Delivered) /\ k # m
    BY <1>3, <2>1
  <2>3. \A k \in 1 .. Len(results) : results[k].run[2] # i
    BY <2>1, <2>2 DEF ConservationInv, DeliveredInv, Distinct
  <2>4. QED
    BY <1>3, <2>3 DEF ItemsIn
<1>6. parent = "get" /\ raised = "none"
  BY DEF Get, RaisedInv
<1>7. Outcome = "running" /\ Outcome' \in {"running", "failed"}
  BY <1>6 DEF Get, Outcome, Raise, Fatal, WorkerErrorFromResult
<1> HIDE DEF i, r
<1>8. Point!Report(i)
  BY <1>4, <1>5, <1>7 DEF Point!Report
<1>9. QED
  BY <1>2, <1>8

\* Every other step leaves the results alone, and changes the outcome at most
\* from "running" to what Return or Fail allow.
LEMMA PointStep ==
    TypeInv /\ ConservationInv /\ OutcomeInv /\ RaisedInv /\ [Next]_vars
        => [Point!Next]_<<ItemsIn(results), Outcome>>
<1> SUFFICES ASSUME TypeInv, ConservationInv, OutcomeInv, RaisedInv, [Next]_vars
             PROVE  Point!Next \/ UNCHANGED <<ItemsIn(results), Outcome>>
  OBVIOUS
<1>1. CASE Get
  BY <1>1, GetReports DEF Point!Next
<1>2. CASE UNCHANGED parentVars
  BY <1>2 DEF parentVars, ItemsIn, Outcome
<1>3. CASE /\ UNCHANGED results
           /\ raised = "none" /\ raised' # "none" /\ parent # "returned"
  <2>1. Point!Fail
    BY <1>3 DEF Point!Fail, Outcome, ItemsIn
  <2>2. QED
    BY <2>1 DEF Point!Next
<1>4. CASE UNCHANGED <<results, raised>> /\ parent # "returned" /\ parent' # "returned"
  BY <1>4 DEF ItemsIn, Outcome
<1>5. CASE FinalVerified
  <2>1. CASE raised = "none"
    <3>1. ItemsIn(results) = Item
      BY <1>5, <2>1, EnoughResults DEF FinalVerified, OutcomeInv, LoopInv
    <3>2. Outcome = "running" /\ Outcome' = "returned" /\ UNCHANGED results
      BY <1>5, <2>1 DEF FinalVerified, Outcome
    <3>3. Point!Return
      BY <3>1, <3>2 DEF Point!Return, ItemsIn
    <3>4. QED
      BY <3>3 DEF Point!Next
  <2>2. CASE raised # "none"
    BY <1>5, <2>2 DEF FinalVerified, Outcome, ItemsIn
  <2>3. QED
    BY <2>1, <2>2
<1>6. CASE FinalFails
  <2>1. CASE raised = "none"
    BY <1>3, <1>6, <2>1 DEF FinalFails
  <2>2. CASE raised # "none"
    BY <1>6, <2>2 DEF FinalFails, Outcome, ItemsIn
  <2>3. QED
    BY <2>1, <2>2
<1>7. CASE StartWorker \/ Check \/ CheckAlive \/ Join
  <2>1. /\ UNCHANGED results /\ parent \in {"starting", "check", "empty", "join"}
        /\ parent' # "returned"
    BY <1>7 DEF StartWorker, Check, CheckAlive, Join, Raise
  <2>2. raised = "none"
    BY <2>1 DEF RaisedInv
  <2>3. QED
    BY <1>3, <1>4, <2>1, <2>2
<1>8. CASE AllStarted \/ Expire \/ PollEmpty \/ ShutdownDone
  BY <1>4, <1>8 DEF AllStarted, Expire, PollEmpty, ShutdownDone, Supervising
<1>9. ASSUME NEW w \in Slot, Worker(w) \/ Kill(w)
      PROVE  UNCHANGED parentVars
  BY <1>9 DEF Worker, Fetch, BenchmarkReturns, BenchmarkTimesOut, BenchmarkRaises,
       EndRun, AcquireCleanup, CleanupRemoves, CleanupVerified, CleanupFails,
       EndCleanup, Report, RecordMetadata, Flush, Exit, Kill
<1>10. ASSUME NEW r \in Run, TaskCreates(r) \/ TaskEnds(r) \/ FinalRemoves(r)
       PROVE  UNCHANGED parentVars
  BY <1>10 DEF TaskCreates, TaskEnds, FinalRemoves
<1>11. QED
  BY <1>1, <1>2, <1>5, <1>6, <1>7, <1>8, <1>9, <1>10
     DEF Next, Parent, Crash, ShutdownWorker, vars

LEMMA PointInit == Init => Point!Init
  BY DEF Init, Point!Init, ItemsIn, Outcome

\* The orchestrator implements the abstract point: items are reported one at a
\* time and once, and it returns only with all of them.
THEOREM ImplementsStreamPoint == Spec => ImplementsPoint
<1>1. Init => RaisedInv
  BY DEF Init, RaisedInv
<1>2. QED
  BY <1>1, InitType, TypeStep, InitConservation, ConservationStep, InitOutcome,
     LoopStep, RaisedStep, PointInit, PointStep, PTL
     DEF Spec, ImplementsPoint, Point!Spec

-------------------------------------------------------------------------------
(* What the end of the parent means.                                          *)
(*                                                                            *)
(* The two verdicts about dead workers are never a false alarm.  If nobody    *)
(* was killed then every item is somewhere and every error has been posted,   *)
(* so that a parent that finds its workers gone has all their results.        *)
(*                                                                            *)
(* What is reported, and what is returned, is clean and on record, where no   *)
(* task is given up ("timeout" \notin Faults) and the store does not fail     *)
(* ("store" \notin Faults): a task that may still create something is that of *)
(* a worker that runs it, or that was killed while it did.                    *)

-------------------------------------------------------------------------------
(* What is posted: the results in the workers' buffers and those delivered.   *)

InSeq(r, seq) == \E k \in 1 .. Len(seq) : seq[k] = r
Posted(r) == InSeq(r, Delivered) \/ \E v \in Slot : InSeq(r, outbox[v])

LEMMA InAppend ==
    ASSUME NEW S, NEW seq \in Seq(S), NEW x \in S
    PROVE  \A r : InSeq(r, Append(seq, x)) <=> InSeq(r, seq) \/ r = x
<1>1. /\ Len(seq) \in Nat /\ Len(Append(seq, x)) = Len(seq) + 1
      /\ \A k \in 1 .. Len(seq) : Append(seq, x)[k] = seq[k]
      /\ Append(seq, x)[Len(seq) + 1] = x
  BY AppendProperties, LenProperties
<1>2. \A k \in 1 .. Len(seq) + 1 : k \in 1 .. Len(seq) \/ k = Len(seq) + 1
  BY <1>1
<1>3. \A k \in 1 .. Len(seq) : k \in 1 .. Len(seq) + 1
  BY <1>1
<1>4. Len(seq) + 1 \in 1 .. Len(seq) + 1
  BY <1>1
<1>5. QED
  BY <1>1, <1>2, <1>3, <1>4 DEF InSeq

LEMMA InTail ==
    ASSUME NEW S, NEW seq \in Seq(S), seq # <<>>
    PROVE  \A r : InSeq(r, seq) <=> r = Head(seq) \/ InSeq(r, Tail(seq))
<1>1. /\ Len(seq) \in Nat \ {0} /\ Head(seq) = seq[1]
      /\ Len(Tail(seq)) = Len(seq) - 1
      /\ \A k \in 1 .. Len(Tail(seq)) : Tail(seq)[k] = seq[k + 1]
  BY HeadTailProperties, LenProperties
<1>2. ASSUME NEW r, InSeq(r, seq)
      PROVE  r = Head(seq) \/ InSeq(r, Tail(seq))
  <2>1. PICK k \in 1 .. Len(seq) : seq[k] = r
    BY <1>2 DEF InSeq
  <2>2. k = 1 \/ (k - 1 \in 1 .. Len(Tail(seq)) /\ (k - 1) + 1 = k)
    BY <1>1
  <2>3. QED
    BY <1>1, <2>1, <2>2 DEF InSeq
<1>3. ASSUME NEW r, r = Head(seq) \/ InSeq(r, Tail(seq))
      PROVE  InSeq(r, seq)
  <2>1. CASE r = Head(seq)
    BY <1>1, <2>1 DEF InSeq
  <2>2. CASE InSeq(r, Tail(seq))
    <3>1. PICK k \in 1 .. Len(Tail(seq)) : Tail(seq)[k] = r
      BY <2>2 DEF InSeq
    <3>2. k + 1 \in 1 .. Len(seq) /\ seq[k + 1] = r
      BY <1>1, <3>1
    <3>3. QED
      BY <3>2 DEF InSeq
  <2>3. QED
    BY <1>3, <2>1, <2>2
<1>4. QED
  BY <1>2, <1>3

\* A report posts one result and takes none back.
LEMMA PostedReport ==
    ASSUME TypeInv, NEW w \in Slot, Report(w)
    PROVE  \A r : Posted(r)' <=>
                     Posted(r) \/ r = ResultOf(w)
<1> DEFINE new == ResultOf(w)
<1>1. new \in Result
  BY ResultOfType DEF Report, TypeInv, ItemInv, Run, RunOf, Result
<1> HIDE DEF new
<1>2. /\ outbox[w] \in Seq(Result)
      /\ outbox'[w] = Append(outbox[w], new)
      /\ \A v \in Slot \ {w} : outbox'[v] = outbox[v]
      /\ Delivered' = Delivered
  BY DEF Report, TypeInv, TypeOK, Delivered, sharedVars, parentVars, new
<1>3. \A r : InSeq(r, outbox'[w]) <=> InSeq(r, outbox[w]) \/ r = new
  BY <1>1, <1>2, InAppend
<1>4. \A r : (\E v \in Slot : InSeq(r, outbox'[v])) <=>
                (\E v \in Slot : InSeq(r, outbox[v])) \/ r = new
  BY <1>2, <1>3
<1>5. \A r : Posted(r)' <=> InSeq(r, Delivered') \/ \E v \in Slot : InSeq(r, outbox'[v])
  BY DEF Posted, InSeq
<1>6. QED
  BY <1>2, <1>4, <1>5 DEF Posted, new

\* The feeder moves a result, and so does the parent's get.
LEMMA PostedFlush ==
    ASSUME TypeInv, NEW w \in Slot, Flush(w)
    PROVE  \A r : Posted(r)' <=> Posted(r)
<1>1. /\ outbox[w] \in Seq(Result) /\ outbox[w] # <<>>
      /\ Delivered \in Seq(Result)
  BY DeliveredType DEF Flush, TypeInv, TypeOK
<1>2. /\ outbox'[w] = Tail(outbox[w])
      /\ \A v \in Slot \ {w} : outbox'[v] = outbox[v]
      /\ result_queue' = Append(result_queue, Head(outbox[w]))
      /\ UNCHANGED results
  BY DEF Flush, parentVars, TypeInv, TypeOK
<1>3. Head(outbox[w]) \in Result
  BY <1>1, HeadTailProperties
<1>4. Delivered' = Append(Delivered, Head(outbox[w]))
  BY <1>2, <1>3, WriteAppendsDelivered DEF Delivered, TypeInv, TypeOK
<1>5. \A r : InSeq(r, Delivered') <=> InSeq(r, Delivered) \/ r = Head(outbox[w])
  BY <1>1, <1>3, <1>4, InAppend
<1>6. \A r : InSeq(r, outbox[w]) <=> r = Head(outbox[w]) \/ InSeq(r, outbox'[w])
  BY <1>1, <1>2, InTail
<1>7. \A r : Posted(r)' <=> InSeq(r, Delivered') \/ \E v \in Slot : InSeq(r, outbox'[v])
  BY DEF Posted, InSeq
<1>8. QED
  BY <1>2, <1>5, <1>6, <1>7 DEF Posted

LEMMA PostedKill ==
    ASSUME TypeInv, NEW w \in Slot, Kill(w)
    PROVE  \A r : Posted(r)' => Posted(r)
<1>1. /\ outbox'[w] = <<>> /\ \A v \in Slot \ {w} : outbox'[v] = outbox[v]
      /\ Delivered' = Delivered
  BY DEF Kill, TypeInv, TypeOK, Delivered, parentVars
<1>2. \A r : ~InSeq(r, <<>>)
  BY DEF InSeq
<1>3. \A r : Posted(r)' <=> InSeq(r, Delivered') \/ \E v \in Slot : InSeq(r, outbox'[v])
  BY DEF Posted, InSeq
<1>4. QED
  BY <1>1, <1>2, <1>3 DEF Posted

\* No other step posts anything or takes anything back.
LEMMA PostedFrame ==
    ASSUME UNCHANGED <<Delivered, outbox>>
    PROVE  \A r : Posted(r)' <=> Posted(r)
  BY DEF Posted, InSeq

LEMMA PostedType == TypeInv => \A r : Posted(r) => r \in Result
<1> SUFFICES ASSUME TypeInv, NEW r, Posted(r)
             PROVE  r \in Result
  OBVIOUS
<1>1. Delivered \in Seq(Result) /\ \A v \in Slot : outbox[v] \in Seq(Result)
  BY DeliveredType DEF TypeInv, TypeOK
<1>2. QED
  BY <1>1, ElementOfSeq DEF Posted, InSeq

-------------------------------------------------------------------------------
(* A worker: when its two errors are set, and what its end leaves.            *)

LocalInv ==
    \A w \in Slot :
        /\ phase[w] \in {"new", "fetch"} => ~primary_error[w] /\ ~cleanup_error[w]
        /\ phase[w] = "metadata" => ~primary_error[w]
        /\ phase[w] = "exited" <=> exitcode[w] # "none"
        /\ phase[w] = "exited" => outbox[w] = <<>>
        /\ exitcode[w] = "error" => primary_error[w] \/ cleanup_error[w]
        /\ w < started => phase[w] # "new"

LEMMA LocalStep == TypeInv /\ StartedInv /\ LocalInv /\ [Next]_vars => LocalInv'
<1> SUFFICES ASSUME TypeInv, StartedInv, LocalInv, [Next]_vars
             PROVE  LocalInv'
  OBVIOUS
<1> USE DEF TypeInv, TypeOK, LocalInv, sharedVars, workerVars, parentVars
<1>1. ASSUME NEW w \in Slot, Fetch(w)
      PROVE  LocalInv'
  BY <1>1 DEF Fetch
<1>2. ASSUME NEW w \in Slot,
             \/ BenchmarkReturns(w) \/ BenchmarkTimesOut(w) \/ BenchmarkRaises(w)
      PROVE  LocalInv'
  BY <1>2 DEF BenchmarkReturns, BenchmarkTimesOut, BenchmarkRaises, EndRun
<1>3. ASSUME NEW w \in Slot,
             \/ AcquireCleanup(w) \/ CleanupRemoves(w) \/ CleanupVerified(w)
             \/ CleanupFails(w)
      PROVE  LocalInv'
  BY <1>3 DEF AcquireCleanup, CleanupRemoves, CleanupVerified, CleanupFails, EndCleanup
<1>4. ASSUME NEW w \in Slot, Report(w) \/ RecordMetadata(w)
      PROVE  LocalInv'
  BY <1>4 DEF Report, RecordMetadata
<1>5. ASSUME NEW w \in Slot, Flush(w)
      PROVE  LocalInv'
  BY <1>5 DEF Flush, Alive
<1>6. ASSUME NEW w \in Slot, Exit(w) \/ Kill(w)
      PROVE  LocalInv'
  BY <1>6 DEF Exit, Kill, Alive
<1>7. CASE StartWorker
  <2>1. CASE UNCHANGED <<phase, started>>
    BY <1>7, <2>1 DEF StartWorker
  <2>2. CASE phase' = [phase EXCEPT ![started] = "fetch"] /\ started' = started + 1
    <3>1. /\ started \in Slot /\ phase[started] = "new"
          /\ \A v \in Slot : v < started' => v < started \/ v = started
      BY <1>7, <2>2, SlotsAssumption DEF StartWorker, Slot, StartedInv
    <3>2. QED
      BY <1>7, <2>2, <3>1 DEF StartWorker
  <2>3. QED
    BY <1>7, <2>1, <2>2 DEF StartWorker
<1>8. CASE AllStarted \/ Expire \/ Check \/ Get \/ PollEmpty \/ CheckAlive \/ Join
           \/ ShutdownDone \/ FinalVerified \/ FinalFails
  BY <1>8 DEF AllStarted, Expire, Check, Get, PollEmpty, CheckAlive, Join,
       ShutdownDone, FinalVerified, FinalFails
<1>9. ASSUME NEW r \in Run, TaskCreates(r) \/ TaskEnds(r) \/ FinalRemoves(r)
      PROVE  LocalInv'
  BY <1>9 DEF TaskCreates, TaskEnds, FinalRemoves
<1>10. CASE UNCHANGED vars
  BY <1>10 DEF vars
<1>11. QED
  BY <1>1, <1>2, <1>3, <1>4, <1>5, <1>6, <1>7, <1>8, <1>9, <1>10
     DEF Next, Parent, Worker, Crash, ShutdownWorker

LEMMA InitLocal == Init => LocalInv
  BY DEF Init, LocalInv, Slot

-------------------------------------------------------------------------------
(* The parent polls only while results are missing.  Once it has counted an   *)
(* empty poll with nobody alive, nobody is alive any more, and a poll that is *)
(* empty from then on stays so.                                               *)

AllExited == \A w \in Slot : phase[w] = "exited"

PollInv ==
    /\ parent = "starting" => idle_after_exit = 0
    /\ parent \in Supervising \cup {"join"} => started = NumSlots
    /\ parent \in {"get", "empty"} => Len(results) < Cardinality(Item)
    /\ parent \in Supervising /\ idle_after_exit > 0 => AllExited
    /\ parent = "empty" /\ idle_after_exit > 0 => result_queue = <<>>

LEMMA NobodyAlive ==
    ASSUME TypeInv, LocalInv, started = NumSlots, \A w \in Slot : ~Alive(w)
    PROVE  AllExited
<1>1. \A w \in Slot : w < started
  BY SlotsAssumption DEF Slot
<1>2. QED
  BY <1>1 DEF AllExited, LocalInv, Alive

LEMMA WorkerPolls ==
    ASSUME PollInv, NEW w \in Slot, Worker(w) \/ Kill(w)
    PROVE  PollInv'
<1> USE DEF sharedVars, parentVars
<1>1. UNCHANGED parentVars
  BY DEF Worker, Fetch, BenchmarkReturns, BenchmarkTimesOut, BenchmarkRaises,
       EndRun, AcquireCleanup, CleanupRemoves, CleanupVerified, CleanupFails,
       EndCleanup, Report, RecordMetadata, Flush, Exit, Kill
<1>2. ~AllExited
  BY DEF Worker, Fetch, BenchmarkReturns, BenchmarkTimesOut, BenchmarkRaises,
       AcquireCleanup, CleanupRemoves, CleanupVerified, CleanupFails,
       EndCleanup, Report, RecordMetadata, Flush, Exit, Kill, Alive, AllExited
<1>3. QED
  BY <1>1, <1>2 DEF PollInv, Supervising

LEMMA PollStep == TypeInv /\ LocalInv /\ PollInv /\ [Next]_vars => PollInv'
<1> SUFFICES ASSUME TypeInv, LocalInv, PollInv, [Next]_vars
             PROVE  PollInv'
  OBVIOUS
<1> USE DEF PollInv, Supervising, AllExited, sharedVars, workerVars, parentVars
<1>1. ASSUME NEW w \in Slot, Worker(w) \/ Kill(w)
      PROVE  PollInv'
  BY <1>1, WorkerPolls
<1>2. CASE StartWorker
  BY <1>2 DEF StartWorker, Raise
<1>3. CASE AllStarted \/ Expire \/ ShutdownDone \/ FinalVerified \/ FinalFails \/ Join
  BY <1>3 DEF AllStarted, Expire, ShutdownDone, FinalVerified, FinalFails, Join, Raise
<1>4. CASE Check
  BY <1>4 DEF Check, Raise
<1>5. CASE Get
  BY <1>5 DEF Get, Raise
<1>6. CASE PollEmpty
  BY <1>6 DEF PollEmpty
<1>7. CASE CheckAlive
  <2>1. (\A w \in Slot : ~Alive(w)) => AllExited
    BY <1>7, NobodyAlive DEF CheckAlive
  <2>2. (\E w \in Slot : Alive(w)) => ~AllExited
    BY DEF Alive
  <2>3. idle_after_exit \in 0 .. 4
    BY DEF TypeInv, TypeOK
  <2>4. QED
    BY <1>7, <2>1, <2>2, <2>3 DEF CheckAlive, Raise
<1>8. ASSUME NEW r \in Run, TaskCreates(r) \/ TaskEnds(r) \/ FinalRemoves(r)
      PROVE  PollInv'
  BY <1>8 DEF TaskCreates, TaskEnds, FinalRemoves
<1>9. CASE UNCHANGED vars
  BY <1>9 DEF vars
<1>10. QED
  BY <1>1, <1>2, <1>3, <1>4, <1>5, <1>6, <1>7, <1>8, <1>9
     DEF Next, Parent, Crash, ShutdownWorker

LEMMA InitPoll == Init => PollInv
  BY DEF Init, PollInv, Supervising

-------------------------------------------------------------------------------
(* Without a kill nothing is lost: an item is queued, in the hands of a       *)
(* worker, or posted; and so is the error of every worker that reported one.  *)

Queued(i) == InSeq(i, task_queue[ItemSize[i]])
Held(i) == \E w \in Slot : Holding(w) /\ item[w] = i
Done(i) == \E r \in Result : Posted(r) /\ r.run[2] = i
ErrorPosted == \E r \in Result : Posted(r) /\ Fatal(r)

CoverInv == ~Killed => \A i \in Item : Queued(i) \/ Held(i) \/ Done(i)
ErrorsInv ==
    ~Killed => \A w \in Slot :
        /\ phase[w] \in {"metadata", "exiting", "exited"}
        /\ primary_error[w] \/ cleanup_error[w]
        => ErrorPosted

LEMMA KilledForGood ==
    ASSUME TypeInv, LocalInv, [Next]_vars, NEW v \in Slot, exitcode[v] = "killed"
    PROVE  exitcode'[v] = "killed"
<1> USE DEF TypeInv, TypeOK, workerVars
<1>1. phase[v] = "exited"
  BY DEF LocalInv
<1>2. ASSUME NEW w \in Slot, Exit(w) \/ Kill(w)
      PROVE  exitcode'[v] = "killed"
  BY <1>1, <1>2 DEF Exit, Kill, Alive
<1>3. ASSUME NEW w \in Slot, Worker(w), ~Exit(w)
      PROVE  exitcode' = exitcode
  BY <1>3 DEF Worker, Fetch, BenchmarkReturns, BenchmarkTimesOut, BenchmarkRaises,
       EndRun, AcquireCleanup, CleanupRemoves, CleanupVerified, CleanupFails,
       EndCleanup, Report, RecordMetadata, Flush
<1>4. CASE StartWorker \/ AllStarted \/ Expire \/ Check \/ Get \/ PollEmpty
           \/ CheckAlive \/ Join \/ ShutdownDone \/ FinalVerified \/ FinalFails
  BY <1>4 DEF StartWorker, AllStarted, Expire, Check, Get, PollEmpty, CheckAlive,
       Join, ShutdownDone, FinalVerified, FinalFails
<1>5. ASSUME NEW r \in Run, TaskCreates(r) \/ TaskEnds(r) \/ FinalRemoves(r)
      PROVE  exitcode' = exitcode
  BY <1>5 DEF TaskCreates, TaskEnds, FinalRemoves
<1>6. CASE UNCHANGED vars
  BY <1>6 DEF vars
<1>7. QED
  BY <1>2, <1>3, <1>4, <1>5, <1>6 DEF Next, Parent, Crash, ShutdownWorker

LEMMA KilledStays == TypeInv /\ LocalInv /\ Killed /\ [Next]_vars => Killed'
  BY KilledForGood DEF Killed

LEMMA KillKills ==
    ASSUME TypeInv, NEW w \in Slot, Kill(w)
    PROVE  Killed'
  BY DEF Kill, Killed, TypeInv, TypeOK

\* The parent's put loop queues every item.
LEMMA InitCover == Init => CoverInv
<1> SUFFICES ASSUME Init, NEW i \in Item
             PROVE  Queued(i)
  BY DEF CoverInv
<1> DEFINE s == ItemSize[i]
           b == Backlog[s]
           e == Sentinels(s)
<1>1. s \in Sizes
  BY SizesAssumption
<1>2. b \in Seq(Item) /\ b \in Seq(Item \cup {None}) /\ e \in Seq(Item \cup {None})
  BY <1>1, BacklogAssumption, SentinelsType
<1>3. PICK k \in 1 .. Len(b) : b[k] = i
  <2>1. DOMAIN b = 1 .. Len(b)
    BY <1>2
  <2>2. QED
    BY <2>1, BacklogAssumption
<1>4. /\ Len(b) \in Nat /\ Len(e) \in Nat /\ Len(b \o e) = Len(b) + Len(e)
      /\ \A j \in 1 .. Len(b) + Len(e) :
            (b \o e)[j] = IF j <= Len(b) THEN b[j] ELSE e[j - Len(b)]
  BY <1>2, ConcatProperties, LenProperties
<1> HIDE DEF b, e
<1>5. k \in 1 .. Len(b \o e) /\ (b \o e)[k] = i
  <2>1. k \in 1 .. Len(b) + Len(e) /\ k <= Len(b)
    BY <1>3, <1>4
  <2>2. QED
    BY <1>3, <1>4, <2>1
<1>6. task_queue[s] = b \o e
  BY <1>1 DEF Init, InitialQueue, b, e
<1>7. QED
  BY <1>5, <1>6 DEF Queued, InSeq

\* Steps that touch no queue, let go of no item and take nothing back.
LEMMA CoverFrame ==
    ASSUME CoverInv, Killed => Killed', UNCHANGED task_queue,
           \A w \in Slot : Holding(w) => Holding(w)' /\ item'[w] = item[w],
           \A r : Posted(r) => Posted(r)'
    PROVE  CoverInv'
<1>1. \A i : Queued(i) => Queued(i)'
  BY DEF Queued, InSeq
<1>2. \A i : Held(i) => Held(i)'
  BY DEF Held
<1>3. \A i : Done(i) => Done(i)'
  BY DEF Done
<1>4. QED
  BY <1>1, <1>2, <1>3 DEF CoverInv

\* The item that is fetched goes into a worker's hands; the others stay queued.
LEMMA FetchCovers ==
    ASSUME TypeInv, ConservationInv, LocalInv, CoverInv, [Next]_vars,
           NEW w \in Slot, Fetch(w)
    PROVE  CoverInv'
<1> DEFINE s == QueueOf(w)
           q == task_queue[s]
<1> USE DEF TypeInv, TypeOK
<1>1. s \in Sizes /\ q \in Seq(Item \cup {None}) /\ q # <<>>
  BY SizesAssumption DEF Sizes, QueueOf, Fetch
<1>2. task_queue'[s] = Tail(q) /\ \A t \in Sizes \ {s} : task_queue'[t] = task_queue[t]
  BY <1>1 DEF Fetch
<1>3. /\ \A v \in Slot \ {w} : phase'[v] = phase[v] /\ item'[v] = item[v]
      /\ ~Holding(w)
      /\ Head(q) # None => phase'[w] = "run" /\ item'[w] = Head(q)
  BY DEF Fetch, Holding
<1>4. \A i : Held(i) => Held(i)'
  BY <1>3 DEF Held, Holding
<1>5. \A i : Done(i) => Done(i)'
  BY PostedFrame DEF Fetch, Delivered, parentVars, Done
<1>6. ASSUME NEW i \in Item, Queued(i)
      PROVE  Queued(i)' \/ Held(i)'
  <2>1. ItemSize[i] \in Sizes /\ i # None
    BY SizesAssumption, NoneAssumption
  <2>2. CASE ItemSize[i] # s
    BY <1>2, <1>6, <2>1, <2>2 DEF Queued, InSeq
  <2>3. CASE ItemSize[i] = s
    <3>1. i = Head(q) \/ InSeq(i, Tail(q))
      BY <1>1, <1>6, <2>3, InTail DEF Queued
    <3>2. CASE i = Head(q)
      BY <1>3, <2>1, <3>2 DEF Held, Holding
    <3>3. CASE InSeq(i, Tail(q))
      BY <1>2, <2>3, <3>3 DEF Queued, InSeq
    <3>4. QED
      BY <3>1, <3>2, <3>3
  <2>4. QED
    BY <2>2, <2>3
<1>7. Killed => Killed'
  BY KilledStays
<1>8. QED
  BY <1>4, <1>5, <1>6, <1>7 DEF CoverInv

LEMMA ReportCovers ==
    ASSUME TypeInv, LocalInv, CoverInv, [Next]_vars, NEW w \in Slot, Report(w)
    PROVE  CoverInv'
<1> DEFINE new == ResultOf(w)
<1>1. new \in Result /\ new.run[2] = item[w]
  BY ResultOfType DEF Report, TypeInv, ItemInv, Run, RunOf, Result
<1> HIDE DEF new
<1>2. \A r : Posted(r)' <=> Posted(r) \/ r = new
  BY PostedReport DEF new
<1>3. /\ UNCHANGED <<task_queue, item>>
      /\ \A v \in Slot \ {w} : phase'[v] = phase[v]
  BY DEF Report, sharedVars, TypeInv, TypeOK
<1>4. \A i : Queued(i) => Queued(i)'
  BY <1>3 DEF Queued, InSeq
<1>5. \A i : Held(i) => Held(i)' \/ i = item[w]
  BY <1>3 DEF Held, Holding
<1>6. \A i : Done(i) \/ i = item[w] => Done(i)'
  BY <1>1, <1>2 DEF Done
<1>7. Killed => Killed'
  BY KilledStays
<1>8. QED
  BY <1>4, <1>5, <1>6, <1>7 DEF CoverInv

LEMMA ReportPostsError ==
    ASSUME TypeInv, LocalInv, ErrorsInv, [Next]_vars, NEW w \in Slot, Report(w)
    PROVE  ErrorsInv'
<1> DEFINE new == ResultOf(w)
<1>1. /\ new \in Result
      /\ primary_error[w] \/ cleanup_error[w] => Fatal(new)
  BY ResultOfType DEF Report, TypeInv, ItemInv, Run, RunOf, Result, Fatal, ResultOf
<1> HIDE DEF new
<1>2. \A r : Posted(r)' <=> Posted(r) \/ r = new
  BY PostedReport DEF new
<1>3. /\ UNCHANGED <<primary_error, cleanup_error>>
      /\ \A v \in Slot \ {w} : phase'[v] = phase[v]
  BY DEF Report, TypeInv, TypeOK
<1>4. ErrorPosted \/ primary_error[w] \/ cleanup_error[w] => ErrorPosted'
  BY <1>1, <1>2 DEF ErrorPosted, Fatal
<1>5. Killed => Killed'
  BY KilledStays
<1>6. QED
  BY <1>3, <1>4, <1>5 DEF ErrorsInv

\* Steps after which no other worker has an error to post.
LEMMA ErrorsFrame ==
    ASSUME ErrorsInv, Killed => Killed', \A r : Posted(r) => Posted(r)',
           \A w \in Slot :
              /\ phase'[w] \in {"metadata", "exiting", "exited"}
              /\ primary_error'[w] \/ cleanup_error'[w]
              => /\ phase[w] \in {"metadata", "exiting", "exited"}
                 /\ primary_error[w] \/ cleanup_error[w]
    PROVE  ErrorsInv'
<1>1. ErrorPosted => ErrorPosted'
  BY DEF ErrorPosted, Fatal
<1>2. QED
  BY <1>1 DEF ErrorsInv

LEMMA CoverStep ==
    TypeInv /\ StartedInv /\ ConservationInv /\ LocalInv /\ CoverInv /\ [Next]_vars
        => CoverInv'
<1> SUFFICES ASSUME TypeInv, StartedInv, ConservationInv, LocalInv, CoverInv,
                    [Next]_vars
             PROVE  CoverInv'
  OBVIOUS
<1> USE DEF TypeInv, TypeOK, Holding, Delivered, sharedVars, workerVars, parentVars
<1>0. Killed => Killed'
  BY KilledStays
<1>1. ASSUME NEW w \in Slot, Fetch(w)
      PROVE  CoverInv'
  BY <1>1, FetchCovers
<1>2. ASSUME NEW w \in Slot, Report(w)
      PROVE  CoverInv'
  BY <1>2, ReportCovers
<1>3. ASSUME NEW w \in Slot, Kill(w)
      PROVE  CoverInv'
  BY <1>3, KillKills DEF CoverInv
<1>4. ASSUME NEW w \in Slot, Flush(w)
      PROVE  CoverInv'
  <2>1. \A r : Posted(r) => Posted(r)'
    BY <1>4, PostedFlush
  <2>2. UNCHANGED <<task_queue, phase, item>>
    BY <1>4 DEF Flush
  <2>3. QED
    BY <1>0, <2>1, <2>2, CoverFrame
<1>5. CASE Get
  <2>1. Delivered' = Delivered /\ UNCHANGED outbox
    BY <1>5, ReadKeepsDelivered DEF Get
  <2>2. \A r : Posted(r) => Posted(r)'
    BY <2>1, PostedFrame
  <2>3. UNCHANGED <<task_queue, phase, item>>
    BY <1>5 DEF Get
  <2>4. QED
    BY <1>0, <2>2, <2>3, CoverFrame
<1>6. ASSUME UNCHANGED <<results, result_queue, outbox>>, UNCHANGED task_queue,
             \A w \in Slot : Holding(w) => Holding(w)' /\ item'[w] = item[w]
      PROVE  CoverInv'
  <2>1. \A r : Posted(r) => Posted(r)'
    BY <1>6, PostedFrame
  <2>2. QED
    BY <1>0, <1>6, <2>1, CoverFrame
<1>7. ASSUME NEW w \in Slot,
             \/ BenchmarkReturns(w) \/ BenchmarkTimesOut(w) \/ BenchmarkRaises(w)
      PROVE  CoverInv'
  BY <1>6, <1>7 DEF BenchmarkReturns, BenchmarkTimesOut, BenchmarkRaises, EndRun
<1>8. ASSUME NEW w \in Slot,
             \/ AcquireCleanup(w) \/ CleanupRemoves(w) \/ CleanupVerified(w)
             \/ CleanupFails(w)
      PROVE  CoverInv'
  BY <1>6, <1>8 DEF AcquireCleanup, CleanupRemoves, CleanupVerified, CleanupFails,
       EndCleanup
<1>9. ASSUME NEW w \in Slot, RecordMetadata(w) \/ Exit(w)
      PROVE  CoverInv'
  BY <1>6, <1>9 DEF RecordMetadata, Exit
<1>10. CASE StartWorker
  <2>1. \A w \in Slot : Holding(w) => Holding(w)' /\ item'[w] = item[w]
    <3>1. CASE UNCHANGED <<phase, item>>
      BY <3>1
    <3>2. CASE phase' = [phase EXCEPT ![started] = "fetch"] /\ UNCHANGED item
      BY <3>2 DEF StartedInv, Slot
    <3>3. QED
      BY <1>10, <3>1, <3>2 DEF StartWorker
  <2>2. QED
    BY <1>6, <1>10, <2>1 DEF StartWorker
<1>11. CASE AllStarted \/ Expire \/ Check \/ PollEmpty \/ CheckAlive \/ Join
           \/ ShutdownDone \/ FinalVerified \/ FinalFails
  BY <1>6, <1>11 DEF AllStarted, Expire, Check, PollEmpty, CheckAlive, Join,
       ShutdownDone, FinalVerified, FinalFails
<1>12. ASSUME NEW r \in Run, TaskCreates(r) \/ TaskEnds(r) \/ FinalRemoves(r)
       PROVE  CoverInv'
  BY <1>6, <1>12 DEF TaskCreates, TaskEnds, FinalRemoves
<1>13. CASE UNCHANGED vars
  BY <1>6, <1>13 DEF vars
<1>14. QED
  BY <1>1, <1>2, <1>3, <1>4, <1>5, <1>7, <1>8, <1>9, <1>10, <1>11, <1>12, <1>13
     DEF Next, Parent, Worker, Crash, ShutdownWorker

LEMMA ErrorsStep ==
    TypeInv /\ LocalInv /\ ErrorsInv /\ [Next]_vars => ErrorsInv'
<1> SUFFICES ASSUME TypeInv, LocalInv, ErrorsInv, [Next]_vars
             PROVE  ErrorsInv'
  OBVIOUS
<1> USE DEF TypeInv, TypeOK, Delivered, sharedVars, workerVars, parentVars
<1>0. Killed => Killed'
  BY KilledStays
<1>1. ASSUME NEW w \in Slot, Report(w)
      PROVE  ErrorsInv'
  BY <1>1, ReportPostsError
<1>2. ASSUME NEW w \in Slot, Kill(w)
      PROVE  ErrorsInv'
  BY <1>2, KillKills DEF ErrorsInv
<1>3. ASSUME NEW w \in Slot, Flush(w)
      PROVE  ErrorsInv'
  <2>1. \A r : Posted(r) => Posted(r)'
    BY <1>3, PostedFlush
  <2>2. UNCHANGED <<phase, primary_error, cleanup_error>>
    BY <1>3 DEF Flush
  <2>3. QED
    BY <1>0, <2>1, <2>2, ErrorsFrame
<1>4. CASE Get
  <2>1. Delivered' = Delivered /\ UNCHANGED outbox
    BY <1>4, ReadKeepsDelivered DEF Get
  <2>2. \A r : Posted(r) => Posted(r)'
    BY <2>1, PostedFrame
  <2>3. UNCHANGED <<phase, primary_error, cleanup_error>>
    BY <1>4 DEF Get
  <2>4. QED
    BY <1>0, <2>2, <2>3, ErrorsFrame
<1>5. ASSUME UNCHANGED <<results, result_queue, outbox>>,
             \A w \in Slot :
                /\ phase'[w] \in {"metadata", "exiting", "exited"}
                /\ primary_error'[w] \/ cleanup_error'[w]
                => /\ phase[w] \in {"metadata", "exiting", "exited"}
                   /\ primary_error[w] \/ cleanup_error[w]
      PROVE  ErrorsInv'
  <2>1. \A r : Posted(r) => Posted(r)'
    BY <1>5, PostedFrame
  <2>2. QED
    BY <1>0, <1>5, <2>1, ErrorsFrame
<1>6. ASSUME NEW w \in Slot, Fetch(w)
      PROVE  ErrorsInv'
  BY <1>5, <1>6 DEF Fetch, LocalInv
<1>7. ASSUME NEW w \in Slot,
             \/ BenchmarkReturns(w) \/ BenchmarkTimesOut(w) \/ BenchmarkRaises(w)
      PROVE  ErrorsInv'
  BY <1>5, <1>7 DEF BenchmarkReturns, BenchmarkTimesOut, BenchmarkRaises, EndRun
<1>8. ASSUME NEW w \in Slot,
             \/ AcquireCleanup(w) \/ CleanupRemoves(w) \/ CleanupVerified(w)
             \/ CleanupFails(w)
      PROVE  ErrorsInv'
  BY <1>5, <1>8 DEF AcquireCleanup, CleanupRemoves, CleanupVerified, CleanupFails,
       EndCleanup
<1>9. ASSUME NEW w \in Slot, RecordMetadata(w) \/ Exit(w)
      PROVE  ErrorsInv'
  BY <1>5, <1>9 DEF RecordMetadata, Exit
<1>10. CASE StartWorker
  BY <1>5, <1>10 DEF StartWorker
<1>11. CASE AllStarted \/ Expire \/ Check \/ PollEmpty \/ CheckAlive \/ Join
           \/ ShutdownDone \/ FinalVerified \/ FinalFails
  BY <1>5, <1>11 DEF AllStarted, Expire, Check, PollEmpty, CheckAlive, Join,
       ShutdownDone, FinalVerified, FinalFails
<1>12. ASSUME NEW r \in Run, TaskCreates(r) \/ TaskEnds(r) \/ FinalRemoves(r)
       PROVE  ErrorsInv'
  BY <1>5, <1>12 DEF TaskCreates, TaskEnds, FinalRemoves
<1>13. CASE UNCHANGED vars
  BY <1>5, <1>13 DEF vars
<1>14. QED
  BY <1>1, <1>2, <1>3, <1>4, <1>6, <1>7, <1>8, <1>9, <1>10, <1>11, <1>12, <1>13
     DEF Next, Parent, Worker, Crash, ShutdownWorker

LEMMA InitErrors == Init => ErrorsInv
  BY DEF Init, ErrorsInv

-------------------------------------------------------------------------------
(* The verdicts.                                                              *)

\* Every item has been delivered to a parent that has as many results as items:
\* nothing is left in the pipe or in a buffer.
LEMMA AllDelivered ==
    ASSUME TypeInv, ConservationInv, Len(results) = Cardinality(Item)
    PROVE  /\ result_queue = <<>>
           /\ \A w \in Slot : outbox[w] = <<>>
<1> USE DEF TypeInv, TypeOK
<1> DEFINE n == Len(results)
<1>1. /\ n \in Nat /\ Len(result_queue) \in Nat
      /\ Len(Delivered) = n + Len(result_queue)
      /\ \A k \in 1 .. n : k \in 1 .. Len(Delivered) /\ Delivered[k] = results[k]
  <2>1. n \in Nat /\ Len(result_queue) \in Nat
    BY LenProperties
  <2>2. /\ Len(Delivered) = n + Len(result_queue)
        /\ \A k \in 1 .. n + Len(result_queue) :
              k <= n => Delivered[k] = results[k]
    BY ConcatProperties DEF Delivered
  <2>3. \A k \in 1 .. n : k \in 1 .. n + Len(result_queue) /\ k <= n
    BY <2>1
  <2>4. QED
    BY <2>1, <2>2, <2>3
<1>2. \A i \in Item : \E k \in 1 .. n : Delivered[k].run[2] = i
  <2>1. ItemsIn(results) = Item /\ DOMAIN results = 1 .. n
    BY EnoughResults
  <2>2. QED
    BY <1>1, <2>1 DEF ItemsIn
<1>3. \A r \in Result : r.run[2] \in Item
  BY DEF Result, Run
<1>4. result_queue = <<>>
  <2> SUFFICES ASSUME Len(result_queue) > 0 PROVE FALSE
    BY <1>1, EmptySeq
  <2>1. n + 1 \in 1 .. Len(Delivered)
    BY <1>1
  <2>2. Delivered[n + 1] \in Result
    BY <2>1, DeliveredType, ElementOfSeq
  <2>3. PICK k \in 1 .. n : Delivered[k].run[2] = Delivered[n + 1].run[2]
    BY <1>2, <1>3, <2>2
  <2>4. k = n + 1
    BY <1>1, <2>1, <2>3 DEF ConservationInv, DeliveredInv, Distinct
  <2>5. QED
    BY <1>1, <2>3, <2>4
<1>5. ASSUME NEW w \in Slot
      PROVE  outbox[w] = <<>>
  <2> SUFFICES ASSUME Len(outbox[w]) > 0 PROVE FALSE
    BY EmptySeq, LenProperties
  <2>1. 1 \in 1 .. Len(outbox[w]) /\ outbox[w] \in Seq(Result)
    BY LenProperties
  <2>2. outbox[w][1] \in Result
    BY <2>1, ElementOfSeq
  <2>3. PICK k \in 1 .. n : Delivered[k].run[2] = outbox[w][1].run[2]
    BY <1>2, <1>3, <2>2
  <2>4. NotIn(outbox[w][1].run[2], Delivered)
    BY <2>1 DEF ConservationInv, BufferInv
  <2>5. QED
    BY <1>1, <2>3, <2>4 DEF NotIn
<1>6. QED
  BY <1>4, <1>5

\* While nothing is raised, no error is posted to a parent that has read all.
LEMMA NoErrorRead ==
    ASSUME TypeInv, OutcomeInv, raised = "none", result_queue = <<>>,
           \A w \in Slot : outbox[w] = <<>>
    PROVE  /\ ~ErrorPosted
           /\ \A r : Posted(r) => InSeq(r, results)
<1> USE DEF TypeInv, TypeOK
<1>1. Delivered = results
  BY ConcatEmptySeq DEF Delivered
<1>2. \A r : Posted(r) => InSeq(r, results)
  BY <1>1 DEF Posted, InSeq
<1>3. \A k \in 1 .. Len(results) : ~Fatal(results[k])
  BY DEF OutcomeInv, LoopInv
<1>4. QED
  BY <1>2, <1>3 DEF ErrorPosted, InSeq

\* All workers gone and results missing: one was killed.
LEMMA GoneMeansKilled ==
    ASSUME TypeInv, LocalInv, SentinelInv, OutcomeInv, CoverInv, ErrorsInv,
           AllExited, raised = "none", result_queue = <<>>,
           Len(results) < Cardinality(Item)
    PROVE  Killed
<1> SUFFICES ASSUME ~Killed PROVE FALSE
  OBVIOUS
<1> USE DEF TypeInv, TypeOK
<1>1. \A w \in Slot : outbox[w] = <<>>
  BY DEF AllExited, LocalInv
<1>2. ~ErrorPosted /\ \A r : Posted(r) => InSeq(r, results)
  BY <1>1, NoErrorRead
<1>3. ASSUME NEW w \in Slot
      PROVE  exitcode[w] = "ok"
  <2>1. exitcode[w] \in {"none", "ok", "error", "killed"}
    BY DEF ExitCode
  <2>2. phase[w] = "exited" /\ exitcode[w] # "none"
    BY DEF AllExited, LocalInv
  <2>3. exitcode[w] # "error"
    BY <1>2, <2>2 DEF LocalInv, ErrorsInv
  <2>4. exitcode[w] # "killed"
    BY DEF Killed
  <2>5. QED
    BY <2>1, <2>2, <2>3, <2>4
<1>4. ASSUME NEW i \in Item
      PROVE  ~Queued(i)
  <2>1. PICK w \in Slot : ItemSize[i] = QueueOf(w)
    BY SizesAssumption DEF Sizes, QueueOf
  <2>2. \A k \in 1 .. Len(task_queue[QueueOf(w)]) : task_queue[QueueOf(w)][k] = None
    BY <1>3 DEF SentinelInv, DrainedInv
  <2>3. QED
    BY <2>1, <2>2, NoneAssumption DEF Queued, InSeq
<1>5. \A i \in Item : ~Held(i)
  BY DEF Held, Holding, AllExited
<1>6. \A i \in Item : \E k \in 1 .. Len(results) : results[k].run[2] = i
  BY <1>2, <1>4, <1>5 DEF CoverInv, Done, InSeq
<1> DEFINE n == Len(results)
           f == [k \in 1 .. n |-> results[k].run[2]]
<1>7. n \in Nat /\ \A k \in 1 .. n : results[k].run[2] \in Item
  <2>1. \A r \in Result : r.run[2] \in Item
    BY DEF Result, Run
  <2>2. n \in Nat /\ \A k \in 1 .. n : results[k] \in Result
    BY LenProperties, ElementOfSeq
  <2>3. QED
    BY <2>1, <2>2
<1>8. f \in Surjection(1 .. n, Item)
  BY <1>6, <1>7 DEF Surjection
<1>9. Cardinality(Item) <= n
  BY <1>7, <1>8, FS_SurjCardinalityBound DEF ExistsSurjection
<1>10. Cardinality(Item) \in Nat
  BY ItemsAssumption, FS_CardinalityType
<1>11. QED
  BY <1>7, <1>9, <1>10

\* All results read, none with an error, and a worker that did not end well:
\* it was killed.
LEMMA BadExitMeansKilled ==
    ASSUME TypeInv, LocalInv, ConservationInv, OutcomeInv, ErrorsInv,
           raised = "none", Len(results) = Cardinality(Item),
           \E w \in Slot : exitcode[w] \notin {"none", "ok"}
    PROVE  Killed
<1> SUFFICES ASSUME ~Killed PROVE FALSE
  OBVIOUS
<1>1. PICK w \in Slot : exitcode[w] \notin {"none", "ok"}
  OBVIOUS
<1>2. exitcode[w] = "error"
  BY <1>1 DEF TypeInv, TypeOK, ExitCode, Killed
<1>3. phase[w] = "exited" /\ (primary_error[w] \/ cleanup_error[w])
  BY <1>2 DEF LocalInv
<1>4. ErrorPosted
  BY <1>3 DEF ErrorsInv
<1>5. ~ErrorPosted
  BY AllDelivered, NoErrorRead
<1>6. QED
  BY <1>4, <1>5

AlarmInv ==
    /\ raised = "exited" => AllExited /\ Killed /\ result_queue = <<>>
    /\ raised = "exitcode" => Killed /\ Len(results) = Cardinality(Item)

LEMMA AlarmStep ==
    TypeInv /\ LocalInv /\ SentinelInv /\ ConservationInv /\ OutcomeInv /\ RaisedInv
        /\ PollInv /\ CoverInv /\ ErrorsInv /\ AlarmInv /\ [Next]_vars => AlarmInv'
<1> SUFFICES ASSUME TypeInv, LocalInv, SentinelInv, ConservationInv, OutcomeInv,
                    RaisedInv, PollInv, CoverInv, ErrorsInv, AlarmInv, [Next]_vars
             PROVE  AlarmInv'
  OBVIOUS
<1> USE DEF TypeInv, TypeOK, AlarmInv, AllExited, sharedVars, workerVars, parentVars
<1>0. Killed => Killed'
  BY KilledStays
<1>1. ASSUME NEW w \in Slot, Worker(w) \/ Kill(w)
      PROVE  AlarmInv'
  <2>1. UNCHANGED <<raised, results>>
    BY <1>1 DEF Worker, Fetch, BenchmarkReturns, BenchmarkTimesOut, BenchmarkRaises,
         EndRun, AcquireCleanup, CleanupRemoves, CleanupVerified, CleanupFails,
         EndCleanup, Report, RecordMetadata, Flush, Exit, Kill
  <2>2. phase[w] # "exited"
    BY <1>1 DEF Worker, Fetch, BenchmarkReturns, BenchmarkTimesOut, BenchmarkRaises,
         AcquireCleanup, CleanupRemoves, CleanupVerified, CleanupFails,
         EndCleanup, Report, RecordMetadata, Flush, Exit, Kill, Alive
  <2>3. QED
    BY <1>0, <2>1, <2>2
<1>2. CASE CheckAlive
  <2>1. CASE UNCHANGED raised
    BY <1>0, <1>2, <2>1 DEF CheckAlive
  <2>2. CASE ~UNCHANGED raised
    <3>1. /\ parent = "empty" /\ raised' = "exited" /\ idle_after_exit + 1 >= 4
          /\ \A w \in Slot : ~Alive(w)
          /\ UNCHANGED <<phase, results, result_queue, exitcode>>
      BY <1>2, <2>2 DEF CheckAlive, Raise, IdleLimit
    <3>2. /\ raised = "none" /\ started = NumSlots /\ result_queue = <<>>
          /\ Len(results) < Cardinality(Item)
      BY <3>1 DEF RaisedInv, PollInv, Supervising
    <3>3. AllExited
      BY <3>1, <3>2, NobodyAlive
    <3>4. Killed
      BY <3>2, <3>3, GoneMeansKilled
    <3>5. QED
      BY <1>0, <3>1, <3>2, <3>3, <3>4
  <2>3. QED
    BY <2>1, <2>2
<1>3. CASE Join
  <2>1. CASE UNCHANGED raised
    BY <1>0, <1>3, <2>1 DEF Join
  <2>2. CASE ~UNCHANGED raised
    <3>1. /\ parent = "join" /\ raised' = "exitcode" /\ UNCHANGED results
          /\ \E w \in Slot : exitcode[w] \notin {"none", "ok"}
      BY <1>3, <2>2 DEF Join, Raise
    <3>2. raised = "none" /\ Len(results) = Cardinality(Item)
      BY <3>1 DEF RaisedInv, OutcomeInv, LoopInv
    <3>3. Killed
      BY <3>1, <3>2, BadExitMeansKilled
    <3>4. QED
      BY <1>0, <3>1, <3>2, <3>3
  <2>3. QED
    BY <2>1, <2>2
<1>4. CASE StartWorker \/ Check \/ Get
  <2>1. raised = "none" /\ raised' \notin {"exited", "exitcode"}
    <3>1. raised = "none"
      BY <1>4 DEF StartWorker, Check, Get, RaisedInv
    <3>2. CASE StartWorker \/ Check
      BY <3>1, <3>2 DEF StartWorker, Check, Raise
    <3>3. CASE Get
      <4>1. \A r : WorkerErrorFromResult(r) \in WorkerRaised
        BY DEF WorkerErrorFromResult, WorkerRaised
      <4>2. QED
        BY <3>1, <3>3, <4>1 DEF Get, Raise, WorkerRaised
    <3>4. QED
      BY <1>4, <3>1, <3>2, <3>3
  <2>2. QED
    BY <2>1
<1>5. CASE AllStarted \/ Expire \/ PollEmpty \/ ShutdownDone \/ FinalVerified
           \/ FinalFails
  <2>1. /\ raised' = raised \/ raised' = "final"
        /\ UNCHANGED <<phase, results, result_queue>>
    BY <1>5 DEF AllStarted, Expire, PollEmpty, ShutdownDone, FinalVerified, FinalFails
  <2>2. QED
    BY <1>0, <2>1
<1>6. ASSUME NEW r \in Run, TaskCreates(r) \/ TaskEnds(r) \/ FinalRemoves(r)
      PROVE  AlarmInv'
  BY <1>0, <1>6 DEF TaskCreates, TaskEnds, FinalRemoves
<1>7. CASE UNCHANGED vars
  BY <1>0, <1>7 DEF vars
<1>8. QED
  BY <1>1, <1>2, <1>3, <1>4, <1>5, <1>6, <1>7
     DEF Next, Parent, Crash, ShutdownWorker

\* A parent that gives up on its workers, because they are gone or because one
\* ended badly, has read all that reached the pipe, and a worker was killed.
THEOREM VerdictsAreTrue == Spec => []NoFalseAlarm
<1>1. TypeInv /\ ConservationInv /\ AlarmInv => NoFalseAlarm
  BY AllDelivered DEF AlarmInv, NoFalseAlarm, Killed
<1>2. Init => StartedInv
  BY DEF Init, StartedInv
<1>3. Init => RaisedInv
  BY DEF Init, RaisedInv
<1>4. Init => AlarmInv
  BY DEF Init, AlarmInv
<1>5. QED
  BY <1>1, <1>2, <1>3, <1>4, InitType, TypeStep, StartedStep, RaisedStep,
     InitSentinels, SentinelStep, InitConservation, ConservationStep, InitOutcome,
     LoopStep, InitLocal, LocalStep, InitPoll, PollStep, InitCover, CoverStep,
     InitErrors, ErrorsStep, AlarmStep, PTL DEF Spec

-------------------------------------------------------------------------------
(* The error that surfaces.  A fatal result is the last one of its worker: from *)
(* its post on, whether it lies in the buffer, in the pipe or in the parent's   *)
(* list, and whether its worker still ends or is dead, it says what that worker *)
(* went through.                                                                *)

Stopped(w) == phase[w] \in {"metadata", "exiting", "exited"}

FatalInv ==
    \A r : Posted(r) /\ Fatal(r) => Stopped(r.run[1]) /\ r = ResultOf(r.run[1])

\* Steps that post nothing and leave every worker that has posted an error alone.
LEMMA FatalFrame ==
    ASSUME TypeInv, FatalInv, \A r : Posted(r)' => Posted(r),
           \A w \in Slot : Stopped(w) /\ (primary_error[w] \/ cleanup_error[w]) =>
              /\ Stopped(w)' /\ item'[w] = item[w]
              /\ primary_error'[w] = primary_error[w]
              /\ cleanup_error'[w] = cleanup_error[w]
    PROVE  FatalInv'
<1> SUFFICES ASSUME NEW r, Posted(r)', Fatal(r)
             PROVE  Stopped(r.run[1])' /\ r = ResultOf(r.run[1])'
  BY DEF FatalInv, Fatal
<1> DEFINE w == r.run[1]
<1>1. w \in Slot /\ Stopped(w) /\ r = ResultOf(w)
  BY PostedType DEF FatalInv, Result, Run
<1>2. primary_error[w] \/ cleanup_error[w]
  BY <1>1 DEF Fatal, ResultOf
<1>3. /\ Stopped(w)' /\ item'[w] = item[w]
      /\ primary_error'[w] = primary_error[w]
      /\ cleanup_error'[w] = cleanup_error[w]
  BY <1>1, <1>2
<1> HIDE DEF w
<1>4. ResultOf(w)' = ResultOf(w)
  BY <1>3 DEF ResultOf, RunOf
<1>5. QED
  BY <1>1, <1>3, <1>4 DEF w

LEMMA FatalStep ==
    TypeInv /\ StartedInv /\ LocalInv /\ FatalInv /\ [Next]_vars => FatalInv'
<1> SUFFICES ASSUME TypeInv, StartedInv, LocalInv, FatalInv, [Next]_vars
             PROVE  FatalInv'
  OBVIOUS
<1> USE DEF TypeInv, TypeOK, Delivered, Stopped, sharedVars, workerVars, parentVars,
            worldVars
<1>1. ASSUME NEW w \in Slot, Report(w)
      PROVE  FatalInv'
  <2>1. \A r : Posted(r)' => Posted(r) \/ r = ResultOf(w)
    BY <1>1, PostedReport
  <2>2. /\ Stopped(w)' /\ UNCHANGED <<item, primary_error, cleanup_error>>
        /\ \A v \in Slot : Stopped(v) => Stopped(v)'
    BY <1>1 DEF Report
  <2>3. \A v : ResultOf(v)' = ResultOf(v)
    BY <2>2 DEF ResultOf, RunOf
  <2>4. ResultOf(w).run[1] = w
    BY DEF ResultOf, RunOf
  <2> HIDE DEF Stopped, TypeInv, TypeOK, Delivered
  <2>5. \A r : Posted(r) => r.run[1] \in Slot
    <3>1. \A r \in Result : r.run[1] \in Slot
      BY DEF Result, Run
    <3>2. QED
      BY <3>1, PostedType
  <2>6. ASSUME NEW r, Posted(r)', Fatal(r)
        PROVE  Stopped(r.run[1])' /\ r = ResultOf(r.run[1])'
    <3>1. CASE r = ResultOf(w)
      BY <2>2, <2>3, <2>4, <3>1
    <3>2. CASE Posted(r)
      BY <2>2, <2>3, <2>5, <2>6, <3>2 DEF FatalInv
    <3>3. QED
      BY <2>1, <2>6, <3>1, <3>2
  <2>7. QED
    BY <2>6 DEF FatalInv, Fatal
<1>2. ASSUME UNCHANGED <<Delivered, outbox>>,
             \A w \in Slot : Stopped(w) /\ (primary_error[w] \/ cleanup_error[w]) =>
                /\ Stopped(w)' /\ item'[w] = item[w]
                /\ primary_error'[w] = primary_error[w]
                /\ cleanup_error'[w] = cleanup_error[w]
      PROVE  FatalInv'
  BY <1>2, PostedFrame, FatalFrame
<1>3. ASSUME NEW w \in Slot, Fetch(w)
      PROVE  FatalInv'
  BY <1>2, <1>3 DEF Fetch
<1>4. ASSUME NEW w \in Slot,
             \/ BenchmarkReturns(w) \/ BenchmarkTimesOut(w) \/ BenchmarkRaises(w)
      PROVE  FatalInv'
  BY <1>2, <1>4 DEF BenchmarkReturns, BenchmarkTimesOut, BenchmarkRaises, EndRun
<1>5. ASSUME NEW w \in Slot,
             \/ AcquireCleanup(w) \/ CleanupRemoves(w) \/ CleanupVerified(w)
             \/ CleanupFails(w)
      PROVE  FatalInv'
  BY <1>2, <1>5 DEF AcquireCleanup, CleanupRemoves, CleanupVerified, CleanupFails,
                    EndCleanup
<1>6. ASSUME NEW w \in Slot, RecordMetadata(w)
      PROVE  FatalInv'
  \* A primary error ended the worker before: what is left is a cleanup error.
  <2>1. ~primary_error[w]
    BY <1>6 DEF RecordMetadata, LocalInv
  <2>2. QED
    BY <1>2, <1>6, <2>1 DEF RecordMetadata
<1>7. ASSUME NEW w \in Slot, Flush(w)
      PROVE  FatalInv'
  BY <1>7, PostedFlush, FatalFrame DEF Flush
<1>8. ASSUME NEW w \in Slot, Exit(w)
      PROVE  FatalInv'
  BY <1>2, <1>8 DEF Exit
<1>9. ASSUME NEW w \in Slot, Kill(w)
      PROVE  FatalInv'
  BY <1>9, PostedKill, FatalFrame DEF Kill
<1>10. CASE Get
  <2>1. Delivered' = Delivered /\ UNCHANGED outbox
    BY <1>10, ReadKeepsDelivered DEF Get
  <2>2. QED
    BY <1>2, <1>10, <2>1 DEF Get
<1>11. CASE StartWorker
  <2>1. phase[started] = "new" /\ UNCHANGED <<item, primary_error, cleanup_error>>
    BY <1>11, SlotsAssumption DEF StartWorker, StartedInv, Slot
  <2>2. \A v \in Slot : Stopped(v) => phase'[v] = phase[v]
    BY <1>11, <2>1 DEF StartWorker
  <2>3. UNCHANGED <<Delivered, outbox>>
    BY <1>11 DEF StartWorker
  <2>4. QED
    BY <1>2, <2>1, <2>2, <2>3
<1>12. CASE AllStarted \/ Expire \/ Check \/ PollEmpty \/ CheckAlive \/ Join
           \/ ShutdownDone \/ FinalVerified \/ FinalFails
  BY <1>2, <1>12 DEF AllStarted, Expire, Check, PollEmpty, CheckAlive, Join,
       ShutdownDone, FinalVerified, FinalFails
<1>13. ASSUME NEW r \in Run, TaskCreates(r) \/ TaskEnds(r) \/ FinalRemoves(r)
       PROVE  FatalInv'
  BY <1>2, <1>13 DEF TaskCreates, TaskEnds, FinalRemoves
<1>14. CASE UNCHANGED vars
  BY <1>2, <1>14 DEF vars
<1>15. QED
  BY <1>1, <1>3, <1>4, <1>5, <1>6, <1>7, <1>8, <1>9, <1>10, <1>11, <1>12, <1>13, <1>14
     DEF Next, Parent, Worker, Crash, ShutdownWorker

\* The exception in flight was built from the last result read.
LastInv ==
    raised \in WorkerRaised =>
        /\ results # <<>>
        /\ Fatal(results[Len(results)])
        /\ raised = WorkerErrorFromResult(results[Len(results)])

LEMMA LastStep == TypeInv /\ RaisedInv /\ LastInv /\ [Next]_vars => LastInv'
<1> SUFFICES ASSUME TypeInv, RaisedInv, LastInv, [Next]_vars
             PROVE  LastInv'
  OBVIOUS
<1> USE DEF RaisedInv, LastInv, WorkerRaised, parentVars
<1>1. CASE Get
  <2> DEFINE r == Head(result_queue)
  <2>1. results' # <<>> /\ results'[Len(results')] = r
    <3>1. /\ result_queue # <<>> /\ results' = Append(results, r)
          /\ result_queue \in Seq(Result) /\ results \in Seq(Result)
      BY <1>1 DEF Get, TypeInv, TypeOK
    <3>2. r \in Result
      BY <3>1, HeadTailProperties
    <3>3. QED
      BY <3>1, <3>2, AppendProperties, LenProperties
  <2> HIDE DEF r
  <2>2. CASE Fatal(r) /\ Raise(WorkerErrorFromResult(r))
    BY <2>1, <2>2 DEF Raise, Fatal, WorkerErrorFromResult
  <2>3. CASE Raise("callback")
    BY <2>3 DEF Raise
  <2>4. CASE parent' = "check" /\ UNCHANGED raised
    BY <1>1, <2>4 DEF Get
  <2>5. QED
    BY <1>1, <2>2, <2>3, <2>4 DEF Get, r
<1>2. ASSUME UNCHANGED results, raised' = raised \/ raised' \notin WorkerRaised
      PROVE  LastInv'
  BY <1>2 DEF Fatal, WorkerErrorFromResult
<1>3. CASE StartWorker \/ Check \/ CheckAlive \/ Join
  BY <1>2, <1>3 DEF StartWorker, Check, CheckAlive, Join, Raise
<1>4. CASE FinalVerified \/ FinalFails
  BY <1>2, <1>4 DEF FinalVerified, FinalFails
<1>5. CASE AllStarted \/ Expire \/ PollEmpty \/ ShutdownDone
  BY <1>2, <1>5 DEF AllStarted, Expire, PollEmpty, ShutdownDone
<1>6. ASSUME NEW w \in Slot, Worker(w) \/ Kill(w)
      PROVE  UNCHANGED parentVars
  BY <1>6 DEF Worker, Fetch, BenchmarkReturns, BenchmarkTimesOut, BenchmarkRaises,
               EndRun, AcquireCleanup, CleanupRemoves, CleanupVerified,
               CleanupFails, EndCleanup, Report, RecordMetadata, Flush, Exit, Kill
<1>7. ASSUME NEW r \in Run, TaskCreates(r) \/ TaskEnds(r) \/ FinalRemoves(r)
       PROVE  UNCHANGED parentVars
  BY <1>7 DEF TaskCreates, TaskEnds, FinalRemoves
<1>8. CASE UNCHANGED parentVars
  BY <1>2, <1>8
<1>9. QED
  BY <1>1, <1>3, <1>4, <1>5, <1>6, <1>7, <1>8
     DEF Next, Parent, Crash, ShutdownWorker, vars

LEMMA LastIsTrue == TypeInv /\ FatalInv /\ LastInv => WorkerErrorSurfaces
<1> SUFFICES ASSUME TypeInv, FatalInv, LastInv, raised \in WorkerRaised
             PROVE  WorkerErrorSurfaces
  BY DEF WorkerErrorSurfaces
<1> DEFINE n == Len(results)
           r == results[n]
           w == r.run[1]
<1>1. /\ results \in Seq(Result) /\ results # <<>> /\ n \in 1 .. n
      /\ r \in Result
  BY EmptySeq, LenProperties, ElementOfSeq DEF TypeInv, TypeOK, LastInv
<1>2. Posted(r)
  <2>1. /\ result_queue \in Seq(Result) /\ n \in Nat /\ Len(result_queue) \in Nat
        /\ Len(Delivered) = n + Len(result_queue)
        /\ \A k \in 1 .. n : Delivered[k] = results[k]
    BY <1>1, ConcatProperties, LenProperties DEF Delivered, TypeInv, TypeOK
  <2>2. n \in 1 .. Len(Delivered) /\ Delivered[n] = r
    BY <1>1, <2>1
  <2>3. QED
    BY <2>2 DEF Posted, InSeq
<1>3. Fatal(r) /\ raised = WorkerErrorFromResult(r)
  BY DEF LastInv
<1> HIDE DEF n, r
<1>4. r = ResultOf(w) /\ w \in Slot
  BY <1>1, <1>2, <1>3 DEF FatalInv, Result, Run
<1> HIDE DEF w
<1>5. /\ r.run = RunOf(w)
      /\ r.error_type = IF primary_error[w] THEN "WorkerError"
                        ELSE IF cleanup_error[w] THEN "CleanupError" ELSE "none"
      /\ r.cleanup_error = (primary_error[w] /\ cleanup_error[w])
  BY <1>4 DEF ResultOf
<1>6. /\ raised # "CleanupError" <=> primary_error[w]
      /\ raised # "WorkerError" <=> cleanup_error[w]
  <2>1. CASE primary_error[w]
    BY <1>3, <1>5, <2>1 DEF WorkerErrorFromResult
  <2>2. CASE ~primary_error[w]
    BY <1>3, <1>5, <2>2 DEF WorkerErrorFromResult, Fatal
  <2>3. QED
    BY <2>1, <2>2
<1>7. QED
  BY <1>1, <1>5, <1>6 DEF WorkerErrorSurfaces, n, r, w

\* The exception the caller gets for a worker tells what happened in it: whether
\* its benchmark raised, whether its cleanup failed, or both.
THEOREM WorkerErrorIsRaised == Spec => []WorkerErrorSurfaces
<1>1. Init => StartedInv
  BY DEF Init, StartedInv
<1>2. Init => RaisedInv /\ LastInv
  BY DEF Init, RaisedInv, LastInv, WorkerRaised
<1>3. Init => FatalInv
  BY DEF Init, FatalInv, Posted, InSeq, Delivered
<1>4. QED
  BY <1>1, <1>2, <1>3, InitType, TypeStep, StartedStep, RaisedStep, InitLocal,
     LocalStep, FatalStep, LastStep, LastIsTrue, PTL DEF Spec

-------------------------------------------------------------------------------
(* An item whose task may still go on is nowhere but in that worker's hands.  *)

Unposted(i) == \A r : Posted(r) => r.run[2] # i

AttemptsInv ==
    \A w \in Slot, i \in Item : <<w, i>> \in attempts =>
        /\ item[w] = i /\ phase[w] \in {"run", "exited"}
        /\ NotQueued(i)
        /\ Unposted(i)
        /\ \A v \in Slot \ {w} : Holding(v) => item[v] # i

LEMMA HeldIsUnposted ==
    ASSUME HeldInv, NEW w \in Slot, Holding(w)
    PROVE  /\ NotQueued(item[w]) /\ Unposted(item[w])
           /\ \A v \in Slot \ {w} : Holding(v) => item[v] # item[w]
  BY DEF HeldInv, Unposted, Posted, InSeq, NotIn

\* A queue only ever gets shorter.
LEMMA FetchQueues ==
    ASSUME TypeInv, NEW w \in Slot, Fetch(w), NEW i, NotQueued(i)
    PROVE  NotQueued(i)' /\ Head(task_queue[QueueOf(w)]) # i
<1> DEFINE s == QueueOf(w)
           q == task_queue[s]
<1>1. s \in Sizes /\ q \in Seq(Item \cup {None}) /\ q # <<>>
  BY SizesAssumption DEF Sizes, QueueOf, Fetch, TypeInv, TypeOK
<1>2. task_queue'[s] = Tail(q) /\ \A t \in Sizes \ {s} : task_queue'[t] = task_queue[t]
  BY <1>1 DEF Fetch, TypeInv, TypeOK
<1>3. ~InSeq(i, q) /\ \A t \in Sizes \ {s} : ~InSeq(i, task_queue'[t])
  BY <1>1, <1>2 DEF NotQueued, InSeq
<1>4. i # Head(q) /\ ~InSeq(i, Tail(q))
  BY <1>1, <1>3, InTail
<1>5. \A t \in Sizes : ~InSeq(i, task_queue'[t])
  BY <1>2, <1>3, <1>4
<1>6. QED
  BY <1>4, <1>5 DEF NotQueued, InSeq

\* Steps that start no task and no run, and post nothing new.
LEMMA AttemptsFrame ==
    ASSUME AttemptsInv, attempts' \subseteq attempts, UNCHANGED <<task_queue, item>>,
           \A w \in Slot : phase[w] = "exited" => phase'[w] = "exited",
           \A w \in Slot, i \in Item :
              phase[w] = "run" /\ <<w, i>> \in attempts' =>
                  phase'[w] \in {"run", "exited"},
           \A v \in Slot : Holding(v)' => Holding(v),
           \A r : Posted(r)' => Posted(r)
    PROVE  AttemptsInv'
<1>1. \A i : NotQueued(i) => NotQueued(i)'
  BY DEF NotQueued
<1>2. \A i : Unposted(i) => Unposted(i)'
  BY DEF Unposted
<1>3. QED
  BY <1>1, <1>2 DEF AttemptsInv

LEMMA FetchAttempts ==
    ASSUME TypeInv, ConservationInv, AttemptsInv, [Next]_vars, NEW w \in Slot, Fetch(w)
    PROVE  AttemptsInv'
<1> DEFINE head == Head(task_queue[QueueOf(w)])
<1> USE DEF TypeInv, TypeOK
<1>1. HeldInv'
  BY ConservationStep DEF ConservationInv
<1>2. /\ phase[w] = "fetch"
      /\ \A v \in Slot \ {w} : phase'[v] = phase[v] /\ item'[v] = item[v]
      /\ \A r : Posted(r)' => Posted(r)
  BY PostedFrame DEF Fetch, Delivered, parentVars
<1>3. /\ attempts' \subseteq attempts \cup {<<w, head>>}
      /\ <<w, head>> \in attempts' \ attempts => phase'[w] = "run" /\ item'[w] = head
      /\ Holding(w)' => item'[w] = head
  BY DEF Fetch, Holding
<1>4. ASSUME NEW v \in Slot, NEW i \in Item, <<v, i>> \in attempts
      PROVE  /\ item'[v] = i /\ phase'[v] \in {"run", "exited"}
             /\ NotQueued(i)' /\ Unposted(i)'
             /\ \A u \in Slot \ {v} : Holding(u)' => item'[u] # i
  <2>1. /\ item[v] = i /\ phase[v] \in {"run", "exited"} /\ NotQueued(i) /\ Unposted(i)
        /\ \A u \in Slot \ {v} : Holding(u) => item[u] # i
    BY <1>4 DEF AttemptsInv
  <2>2. v # w
    BY <1>2, <2>1
  <2>3. NotQueued(i)' /\ head # i
    BY <2>1, FetchQueues
  <2>4. Unposted(i)'
    BY <1>2, <2>1 DEF Unposted
  <2>5. \A u \in Slot \ {v} : Holding(u)' => item'[u] # i
    BY <1>2, <1>3, <2>1, <2>3 DEF Holding
  <2>6. QED
    BY <1>2, <2>1, <2>2, <2>3, <2>4, <2>5
<1>5. ASSUME phase'[w] = "run"
      PROVE  /\ NotQueued(item[w])' /\ Unposted(item[w])'
             /\ \A u \in Slot \ {w} : Holding(u)' => item'[u] # item'[w]
  BY <1>1, <1>5 DEF HeldInv, Holding, Unposted, Posted, InSeq, NotIn
<1>6. ASSUME NEW v \in Slot, NEW i \in Item, <<v, i>> \in attempts', <<v, i>> \notin attempts
      PROVE  /\ item'[v] = i /\ phase'[v] \in {"run", "exited"}
             /\ NotQueued(i)' /\ Unposted(i)'
             /\ \A u \in Slot \ {v} : Holding(u)' => item'[u] # i
  <2>1. v = w /\ i = head /\ phase'[w] = "run" /\ item'[w] = i
    BY <1>3, <1>6
  <2>2. NotQueued(i)' /\ Unposted(i)'
    BY <1>5, <2>1 DEF NotQueued, Unposted
  <2>3. QED
    BY <1>5, <2>1, <2>2
<1>7. QED
  BY <1>4, <1>6 DEF AttemptsInv

LEMMA ReportAttempts ==
    ASSUME TypeInv, AttemptsInv, NEW w \in Slot, Report(w)
    PROVE  AttemptsInv'
<1> DEFINE new == ResultOf(w)
<1>1. new.run[2] = item[w]
  BY DEF ResultOf, RunOf
<1>2. \A r : Posted(r)' => Posted(r) \/ r = new
  BY PostedReport
<1> HIDE DEF new
<1>3. /\ UNCHANGED <<task_queue, item, attempts>> /\ Holding(w)
      /\ phase[w] = "report"
      /\ \A v \in Slot \ {w} : phase'[v] = phase[v]
      /\ ~Holding(w)'
  BY DEF Report, sharedVars, worldVars, TypeInv, TypeOK, Holding
<1>4. ASSUME NEW v \in Slot, NEW i \in Item, <<v, i>> \in attempts
      PROVE  v # w /\ NotQueued(i)' /\ Unposted(i)'
  <2>1. v # w /\ item[w] # i
    BY <1>3, <1>4 DEF AttemptsInv
  <2>2. NotQueued(i)'
    BY <1>3, <1>4 DEF AttemptsInv, NotQueued
  <2>3. Unposted(i)'
    BY <1>1, <1>2, <1>4, <2>1 DEF AttemptsInv, Unposted
  <2>4. QED
    BY <2>1, <2>2, <2>3
<1>5. \A v \in Slot : Holding(v)' => Holding(v)
  BY <1>3 DEF Holding
<1>6. QED
  BY <1>3, <1>4, <1>5 DEF AttemptsInv

LEMMA AttemptsStep ==
    ASSUME "timeout" \notin Faults, TypeInv, StartedInv, ConservationInv, AttemptsInv,
           [Next]_vars
    PROVE  AttemptsInv'
<1> USE DEF TypeInv, TypeOK, Holding, Delivered, sharedVars, workerVars, parentVars,
            worldVars
<1>1. ASSUME NEW w \in Slot, Fetch(w)
      PROVE  AttemptsInv'
  BY <1>1, FetchAttempts
<1>2. ASSUME NEW w \in Slot, Report(w)
      PROVE  AttemptsInv'
  BY <1>2, ReportAttempts
<1>3. ASSUME NEW w \in Slot, Kill(w)
      PROVE  AttemptsInv'
  <2>1. \A r : Posted(r)' => Posted(r)
    BY <1>3, PostedKill
  <2>2. /\ UNCHANGED <<attempts, task_queue, item>>
        /\ \A v \in Slot : phase'[v] = phase[v] \/ phase'[v] = "exited"
    BY <1>3 DEF Kill
  <2>3. QED
    BY <2>1, <2>2, AttemptsFrame
<1>4. ASSUME NEW w \in Slot, Flush(w)
      PROVE  AttemptsInv'
  <2>1. \A r : Posted(r)' => Posted(r)
    BY <1>4, PostedFlush
  <2>2. UNCHANGED <<attempts, task_queue, phase, item>>
    BY <1>4 DEF Flush
  <2>3. QED
    BY <2>1, <2>2, AttemptsFrame
<1>5. CASE Get
  <2>1. Delivered' = Delivered /\ UNCHANGED outbox
    BY <1>5, ReadKeepsDelivered DEF Get
  <2>2. \A r : Posted(r)' => Posted(r)
    BY <2>1, PostedFrame
  <2>3. UNCHANGED <<attempts, task_queue, phase, item>>
    BY <1>5 DEF Get
  <2>4. QED
    BY <2>2, <2>3, AttemptsFrame
<1>6. ASSUME UNCHANGED <<results, result_queue, outbox>>,
             attempts' \subseteq attempts, UNCHANGED <<task_queue, item>>,
             \A w \in Slot : phase[w] = "exited" => phase'[w] = "exited",
             \A w \in Slot, i \in Item :
                phase[w] = "run" /\ <<w, i>> \in attempts' =>
                    phase'[w] \in {"run", "exited"},
             \A v \in Slot : Holding(v)' => Holding(v)
      PROVE  AttemptsInv'
  <2>1. \A r : Posted(r)' => Posted(r)
    BY <1>6, PostedFrame
  <2>2. QED
    BY <1>6, <2>1, AttemptsFrame
\* Without timeouts run_benchmark ends after its task.
<1>7. ASSUME NEW w \in Slot,
             \/ BenchmarkReturns(w) \/ BenchmarkTimesOut(w) \/ BenchmarkRaises(w)
      PROVE  AttemptsInv'
  <2>1. /\ phase[w] = "run" /\ phase' = [phase EXCEPT ![w] = "cleanup"]
        /\ UNCHANGED <<results, result_queue, outbox, task_queue, item>>
        /\ attempts' \subseteq attempts
        /\ RunOf(w) \notin attempts'
    BY <1>7 DEF BenchmarkReturns, BenchmarkTimesOut, BenchmarkRaises, EndRun
  <2>2. \A i \in Item : <<w, i>> \notin attempts'
    BY <2>1 DEF AttemptsInv, RunOf
  <2>3. QED
    BY <1>6, <2>1, <2>2
<1>8. ASSUME NEW w \in Slot,
             \/ AcquireCleanup(w) \/ CleanupRemoves(w) \/ CleanupVerified(w)
             \/ CleanupFails(w)
      PROVE  AttemptsInv'
  BY <1>6, <1>8 DEF AcquireCleanup, CleanupRemoves, CleanupVerified, CleanupFails,
       EndCleanup
<1>9. ASSUME NEW w \in Slot, RecordMetadata(w) \/ Exit(w)
      PROVE  AttemptsInv'
  BY <1>6, <1>9 DEF RecordMetadata, Exit
<1>10. CASE StartWorker
  <2>1. CASE UNCHANGED phase
    BY <1>6, <1>10, <2>1 DEF StartWorker
  <2>2. CASE phase' = [phase EXCEPT ![started] = "fetch"]
    <3>1. started \in Slot => phase[started] = "new"
      BY DEF StartedInv, Slot
    <3>2. QED
      BY <1>6, <1>10, <2>2, <3>1 DEF StartWorker
  <2>3. QED
    BY <1>10, <2>1, <2>2 DEF StartWorker
<1>11. CASE AllStarted \/ Expire \/ Check \/ PollEmpty \/ CheckAlive \/ Join
           \/ ShutdownDone \/ FinalVerified \/ FinalFails
  BY <1>6, <1>11 DEF AllStarted, Expire, Check, PollEmpty, CheckAlive, Join,
       ShutdownDone, FinalVerified, FinalFails
<1>12. ASSUME NEW r \in Run, TaskCreates(r) \/ TaskEnds(r) \/ FinalRemoves(r)
       PROVE  AttemptsInv'
  BY <1>6, <1>12 DEF TaskCreates, TaskEnds, FinalRemoves
<1>13. CASE UNCHANGED vars
  BY <1>6, <1>13 DEF vars
<1>14. QED
  BY <1>1, <1>2, <1>3, <1>4, <1>5, <1>7, <1>8, <1>9, <1>10, <1>11, <1>12, <1>13
     DEF Next, Parent, Worker, Crash, ShutdownWorker

LEMMA InitAttempts == Init => AttemptsInv
  BY DEF Init, AttemptsInv

-------------------------------------------------------------------------------
(* A result without an error is that of a run whose resources are gone.       *)

CleanInv ==
    /\ \A w \in Slot : phase[w] = "report" /\ ~cleanup_error[w] => RunOf(w) \notin docker
    /\ \A r : Posted(r) /\ ~Fatal(r) => r.run \notin docker

\* What a task that goes on creates belongs to no run that was cleaned.
LEMMA CreateIsElsewhere ==
    ASSUME TypeInv, AttemptsInv, NEW run \in attempts
    PROVE  /\ \A w \in Slot : phase[w] = "report" => RunOf(w) # run
           /\ \A r : Posted(r) => r.run # run
<1>1. PICK w \in Slot, i \in Item : run = <<w, i>>
  BY DEF TypeInv, TypeOK, Run
<1>2. phase[w] \in {"run", "exited"} /\ Unposted(i)
  BY <1>1 DEF AttemptsInv
<1>3. QED
  BY <1>1, <1>2 DEF RunOf, Unposted

LEMMA CleanFrame ==
    ASSUME CleanInv, docker' \subseteq docker,
           \A w \in Slot : phase'[w] = "report" =>
              /\ phase[w] = "report" /\ item'[w] = item[w]
              /\ cleanup_error'[w] = cleanup_error[w],
           \A r : Posted(r)' => Posted(r)
    PROVE  CleanInv'
  BY DEF CleanInv, RunOf, Fatal

LEMMA CleanStep == TypeInv /\ StartedInv /\ AttemptsInv /\ CleanInv /\ [Next]_vars => CleanInv'
<1> SUFFICES ASSUME TypeInv, StartedInv, AttemptsInv, CleanInv, [Next]_vars
             PROVE  CleanInv'
  OBVIOUS
<1> USE DEF TypeInv, TypeOK, Delivered, sharedVars, workerVars, parentVars, worldVars
<1>1. ASSUME NEW r \in Run, TaskCreates(r)
      PROVE  CleanInv'
  <2>1. /\ r \in attempts /\ docker' = docker \cup {r}
        /\ UNCHANGED <<phase, item, cleanup_error, outbox, results, result_queue>>
    BY <1>1 DEF TaskCreates
  <2>2. \A p : Posted(p)' <=> Posted(p)
    BY <2>1, PostedFrame
  <2>3. QED
    BY <2>1, <2>2, CreateIsElsewhere DEF CleanInv, RunOf, Fatal
<1>2. ASSUME NEW w \in Slot, Report(w)
      PROVE  CleanInv'
  <2> DEFINE new == ResultOf(w)
  <2>1. \A r : Posted(r)' => Posted(r) \/ r = new
    BY <1>2, PostedReport
  <2>2. ~Fatal(new) => RunOf(w) \notin docker
    BY <1>2 DEF Report, CleanInv, Fatal, ResultOf
  <2>3. new.run = RunOf(w)
    BY DEF ResultOf
  <2> HIDE DEF new
  <2>4. /\ UNCHANGED <<docker, item, cleanup_error>>
        /\ \A v \in Slot : phase'[v] = "report" => phase[v] = "report"
    BY <1>2 DEF Report
  <2>5. QED
    BY <2>1, <2>2, <2>3, <2>4 DEF CleanInv, RunOf, Fatal
<1>3. ASSUME NEW w \in Slot, CleanupVerified(w) \/ CleanupFails(w)
      PROVE  CleanInv'
  <2>1. \A r : Posted(r)' <=> Posted(r)
    BY <1>3, PostedFrame DEF CleanupVerified, CleanupFails, EndCleanup
  <2>2. /\ UNCHANGED <<docker, item>>
        /\ \A v \in Slot \ {w} : phase'[v] = phase[v]
                                 /\ cleanup_error'[v] = cleanup_error[v]
        /\ ~cleanup_error'[w] => RunOf(w) \notin docker
    BY <1>3 DEF CleanupVerified, CleanupFails, EndCleanup
  <2>3. QED
    BY <2>1, <2>2 DEF CleanInv, RunOf, Fatal
<1>4. ASSUME NEW w \in Slot, Kill(w)
      PROVE  CleanInv'
  <2>1. \A r : Posted(r)' => Posted(r)
    BY <1>4, PostedKill
  <2>2. QED
    BY <1>4, <2>1, CleanFrame DEF Kill
<1>5. ASSUME NEW w \in Slot, Flush(w)
      PROVE  CleanInv'
  <2>1. \A r : Posted(r)' => Posted(r)
    BY <1>5, PostedFlush
  <2>2. QED
    BY <1>5, <2>1, CleanFrame DEF Flush
<1>6. CASE Get
  <2>1. Delivered' = Delivered /\ UNCHANGED outbox
    BY <1>6, ReadKeepsDelivered DEF Get
  <2>2. \A r : Posted(r)' => Posted(r)
    BY <2>1, PostedFrame
  <2>3. QED
    BY <1>6, <2>2, CleanFrame DEF Get
<1>7. ASSUME UNCHANGED <<results, result_queue, outbox>>, docker' \subseteq docker,
             \A w \in Slot : phase'[w] = "report" =>
                /\ phase[w] = "report" /\ item'[w] = item[w]
                /\ cleanup_error'[w] = cleanup_error[w]
      PROVE  CleanInv'
  <2>1. \A r : Posted(r)' => Posted(r)
    BY <1>7, PostedFrame
  <2>2. QED
    BY <1>7, <2>1, CleanFrame
<1>8. ASSUME NEW w \in Slot, Fetch(w) \/ AcquireCleanup(w) \/ CleanupRemoves(w)
      PROVE  CleanInv'
  BY <1>7, <1>8 DEF Fetch, AcquireCleanup, CleanupRemoves
<1>9. ASSUME NEW w \in Slot,
             \/ BenchmarkReturns(w) \/ BenchmarkTimesOut(w) \/ BenchmarkRaises(w)
      PROVE  CleanInv'
  BY <1>7, <1>9 DEF BenchmarkReturns, BenchmarkTimesOut, BenchmarkRaises, EndRun
<1>10. ASSUME NEW w \in Slot, RecordMetadata(w) \/ Exit(w)
       PROVE  CleanInv'
  BY <1>7, <1>10 DEF RecordMetadata, Exit
<1>11. CASE StartWorker
  BY <1>7, <1>11 DEF StartWorker
<1>12. CASE AllStarted \/ Expire \/ Check \/ PollEmpty \/ CheckAlive \/ Join
           \/ ShutdownDone \/ FinalVerified \/ FinalFails
  BY <1>7, <1>12 DEF AllStarted, Expire, Check, PollEmpty, CheckAlive, Join,
       ShutdownDone, FinalVerified, FinalFails
<1>13. ASSUME NEW r \in Run, TaskEnds(r) \/ FinalRemoves(r)
       PROVE  CleanInv'
  BY <1>7, <1>13 DEF TaskEnds, FinalRemoves
<1>14. CASE UNCHANGED vars
  BY <1>7, <1>14 DEF vars
<1>15. QED
  BY <1>1, <1>2, <1>3, <1>4, <1>5, <1>6, <1>8, <1>9, <1>10, <1>11, <1>12, <1>13, <1>14
     DEF Next, Parent, Worker, Crash, ShutdownWorker

LEMMA InitClean == Init => CleanInv
<1> SUFFICES ASSUME Init PROVE CleanInv
  OBVIOUS
<1>1. docker = {} /\ \A w \in Slot : phase[w] = "new"
  BY DEF Init
<1>2. QED
  BY <1>1 DEF CleanInv

-------------------------------------------------------------------------------
(* The metadata of a reported run is recorded, or about to be, or its worker  *)
(* was killed before.                                                         *)

RecordInv ==
    \A r : Posted(r) /\ ~Fatal(r) =>
        \/ r.run \in recorded
        \/ phase[r.run[1]] = "metadata" /\ item[r.run[1]] = r.run[2]
        \/ exitcode[r.run[1]] = "killed"

LEMMA RecordFrame ==
    ASSUME TypeInv, LocalInv, RecordInv, [Next]_vars, recorded \subseteq recorded',
           \A w \in Slot : phase[w] = "metadata" =>
              phase'[w] = "metadata" /\ item'[w] = item[w],
           \A r : Posted(r)' => Posted(r)
    PROVE  RecordInv'
<1>1. ASSUME NEW r, Posted(r)
      PROVE  r.run[1] \in Slot
  BY <1>1, PostedType DEF Result, Run
<1>2. \A v \in Slot : exitcode[v] = "killed" => exitcode'[v] = "killed"
  BY KilledForGood
<1>3. QED
  BY <1>1, <1>2 DEF RecordInv, Fatal

LEMMA RecordStep ==
    ASSUME "store" \notin Faults, TypeInv, StartedInv, LocalInv, RecordInv, [Next]_vars
    PROVE  RecordInv'
<1> USE DEF TypeInv, TypeOK, Delivered, sharedVars, workerVars, parentVars, worldVars
<1>0. /\ \A r : Posted(r) => r \in Result /\ r.run[1] \in Slot
      /\ \A v \in Slot : exitcode[v] = "killed" => exitcode'[v] = "killed"
  <2>1. \A r \in Result : r.run[1] \in Slot
    BY DEF Result, Run
  <2>2. QED
    BY <2>1, PostedType, KilledForGood
<1>1. ASSUME NEW w \in Slot, Report(w)
      PROVE  RecordInv'
  <2> DEFINE new == ResultOf(w)
  <2>1. \A r : Posted(r)' => Posted(r) \/ r = new
    BY <1>1, PostedReport
  <2>2. new.run = <<w, item[w]>> /\ (~Fatal(new) => phase'[w] = "metadata")
    BY <1>1 DEF Report, Fatal, ResultOf, RunOf
  <2> HIDE DEF new
  <2>3. /\ UNCHANGED <<item, recorded>> /\ phase[w] = "report"
        /\ \A v \in Slot \ {w} : phase'[v] = phase[v]
    BY <1>1 DEF Report
  <2>4. QED
    BY <1>0, <2>1, <2>2, <2>3 DEF RecordInv, Fatal
<1>2. ASSUME NEW w \in Slot, RecordMetadata(w)
      PROVE  RecordInv'
  <2>1. \A r : Posted(r)' => Posted(r)
    BY <1>2, PostedFrame DEF RecordMetadata
  <2>2. /\ recorded' = recorded \cup {<<w, item[w]>>} /\ UNCHANGED item
        /\ \A v \in Slot \ {w} : phase'[v] = phase[v]
    BY <1>2 DEF RecordMetadata, RunOf
  <2>3. \A r : Posted(r) => r.run = <<r.run[1], r.run[2]>>
    BY <1>0 DEF Result, Run
  <2>4. ASSUME NEW r, Posted(r), ~Fatal(r)
        PROVE  \/ r.run \in recorded'
               \/ phase'[r.run[1]] = "metadata" /\ item'[r.run[1]] = r.run[2]
               \/ exitcode'[r.run[1]] = "killed"
    <3>1. r.run[1] \in Slot
      BY <1>0, <2>4
    <3>2. CASE phase[r.run[1]] = "metadata" /\ item[r.run[1]] = r.run[2]
      BY <2>2, <2>3, <2>4, <3>1, <3>2
    <3>3. CASE r.run \in recorded \/ exitcode[r.run[1]] = "killed"
      BY <1>0, <2>2, <3>1, <3>3
    <3>4. QED
      BY <2>4, <3>2, <3>3 DEF RecordInv
  <2>5. QED
    BY <2>1, <2>4 DEF RecordInv, Fatal
<1>3. ASSUME NEW w \in Slot, Kill(w)
      PROVE  RecordInv'
  <2>1. \A r : Posted(r)' => Posted(r)
    BY <1>3, PostedKill
  <2>2. /\ UNCHANGED <<item, recorded>> /\ exitcode'[w] = "killed"
        /\ \A v \in Slot \ {w} : phase'[v] = phase[v]
    BY <1>3 DEF Kill
  <2>3. QED
    BY <1>0, <2>1, <2>2 DEF RecordInv, Fatal
<1>4. ASSUME NEW w \in Slot, Flush(w)
      PROVE  RecordInv'
  <2>1. \A r : Posted(r)' => Posted(r)
    BY <1>4, PostedFlush
  <2>2. UNCHANGED <<recorded, phase, item>>
    BY <1>4 DEF Flush
  <2>3. QED
    BY <2>1, <2>2, RecordFrame
<1>5. CASE Get
  <2>1. Delivered' = Delivered /\ UNCHANGED outbox
    BY <1>5, ReadKeepsDelivered DEF Get
  <2>2. \A r : Posted(r)' => Posted(r)
    BY <2>1, PostedFrame
  <2>3. UNCHANGED <<recorded, phase, item>>
    BY <1>5 DEF Get
  <2>4. QED
    BY <2>2, <2>3, RecordFrame
<1>6. ASSUME UNCHANGED <<results, result_queue, outbox, recorded>>,
             \A w \in Slot : phase[w] = "metadata" =>
                phase'[w] = "metadata" /\ item'[w] = item[w]
      PROVE  RecordInv'
  <2>1. \A r : Posted(r)' => Posted(r)
    BY <1>6, PostedFrame
  <2>2. QED
    BY <1>6, <2>1, RecordFrame
<1>7. ASSUME NEW w \in Slot,
             \/ Fetch(w) \/ BenchmarkReturns(w) \/ BenchmarkTimesOut(w)
             \/ BenchmarkRaises(w)
      PROVE  RecordInv'
  BY <1>6, <1>7 DEF Fetch, BenchmarkReturns, BenchmarkTimesOut, BenchmarkRaises, EndRun
<1>8. ASSUME NEW w \in Slot,
             \/ AcquireCleanup(w) \/ CleanupRemoves(w) \/ CleanupVerified(w)
             \/ CleanupFails(w) \/ Exit(w)
      PROVE  RecordInv'
  BY <1>6, <1>8 DEF AcquireCleanup, CleanupRemoves, CleanupVerified, CleanupFails,
       EndCleanup, Exit
<1>9. CASE StartWorker
  <2>1. CASE UNCHANGED phase
    BY <1>6, <1>9, <2>1 DEF StartWorker
  <2>2. CASE phase' = [phase EXCEPT ![started] = "fetch"]
    <3>1. started \in Slot => phase[started] = "new"
      BY DEF StartedInv, Slot
    <3>2. QED
      BY <1>6, <1>9, <2>2, <3>1 DEF StartWorker
  <2>3. QED
    BY <1>9, <2>1, <2>2 DEF StartWorker
<1>10. CASE AllStarted \/ Expire \/ Check \/ PollEmpty \/ CheckAlive \/ Join
           \/ ShutdownDone \/ FinalVerified \/ FinalFails
  BY <1>6, <1>10 DEF AllStarted, Expire, Check, PollEmpty, CheckAlive, Join,
       ShutdownDone, FinalVerified, FinalFails
<1>11. ASSUME NEW r \in Run, TaskCreates(r) \/ TaskEnds(r) \/ FinalRemoves(r)
       PROVE  RecordInv'
  BY <1>6, <1>11 DEF TaskCreates, TaskEnds, FinalRemoves
<1>12. CASE UNCHANGED vars
  BY <1>6, <1>12 DEF vars
<1>13. QED
  BY <1>1, <1>2, <1>3, <1>4, <1>5, <1>7, <1>8, <1>9, <1>10, <1>11, <1>12
     DEF Next, Parent, Worker, Crash, ShutdownWorker

LEMMA NothingPosted == Init => \A r : ~Posted(r)
<1> SUFFICES ASSUME Init, NEW r PROVE ~Posted(r)
  OBVIOUS
<1>1. Delivered = <<>> /\ \A v \in Slot : outbox[v] = <<>>
  BY DEF Init, Delivered
<1>2. ~InSeq(r, <<>>)
  BY DEF InSeq
<1>3. QED
  BY <1>1, <1>2 DEF Posted

-------------------------------------------------------------------------------
(* The shutdown leaves no worker alive, and the return finds nothing that a   *)
(* task could still create.                                                    *)

ShutInv ==
    /\ parent \in {"final", "returned", "raised"} => \A w \in Slot : ~Alive(w)
    /\ parent = "returned" => docker = {}

LEMMA NoTaskAtReturn ==
    ASSUME TypeInv, ConservationInv, OutcomeInv, AttemptsInv, parent = "returned"
    PROVE  attempts = {}
<1> SUFFICES ASSUME NEW w \in Slot, NEW i \in Item, <<w, i>> \in attempts
             PROVE  FALSE
  BY DEF TypeInv, TypeOK, Run
<1>1. Len(results) = Cardinality(Item)
  BY DEF OutcomeInv, LoopInv
<1>2. /\ ItemsIn(results) = Item /\ result_queue = <<>>
      /\ DOMAIN results = 1 .. Len(results)
  BY <1>1, EnoughResults, AllDelivered DEF TypeInv, TypeOK
<1>3. PICK k \in 1 .. Len(results) : results[k].run[2] = i
  BY <1>2 DEF ItemsIn
<1>4. Delivered = results
  BY <1>2, ConcatEmptySeq DEF Delivered, TypeInv, TypeOK
<1>5. Posted(results[k])
  BY <1>4 DEF Posted, InSeq
<1>6. QED
  BY <1>3, <1>5 DEF AttemptsInv, Unposted

LEMMA ShutStep ==
    TypeInv /\ ConservationInv /\ OutcomeInv /\ AttemptsInv /\ ShutInv /\ [Next]_vars
        => ShutInv'
<1> SUFFICES ASSUME TypeInv, ConservationInv, OutcomeInv, AttemptsInv, ShutInv,
                    [Next]_vars
             PROVE  ShutInv'
  OBVIOUS
<1> USE DEF TypeInv, TypeOK, ShutInv, Alive, sharedVars, workerVars, parentVars,
            worldVars
<1>1. ASSUME NEW w \in Slot, Worker(w) \/ Kill(w)
      PROVE  ShutInv'
  <2>1. UNCHANGED parent
    BY <1>1 DEF Worker, Fetch, BenchmarkReturns, BenchmarkTimesOut, BenchmarkRaises,
         EndRun, AcquireCleanup, CleanupRemoves, CleanupVerified, CleanupFails,
         EndCleanup, Report, RecordMetadata, Flush, Exit, Kill
  <2>2. Alive(w)
    BY <1>1 DEF Worker, Fetch, BenchmarkReturns, BenchmarkTimesOut, BenchmarkRaises,
         AcquireCleanup, CleanupRemoves, CleanupVerified, CleanupFails,
         EndCleanup, Report, RecordMetadata, Flush, Exit, Kill
  <2>3. QED
    BY <2>1, <2>2
<1>2. CASE StartWorker
  BY <1>2 DEF StartWorker, Raise
<1>3. CASE AllStarted \/ Expire \/ Check \/ Get \/ PollEmpty \/ CheckAlive \/ Join
  BY <1>3 DEF AllStarted, Expire, Check, Get, PollEmpty, CheckAlive, Join, Raise,
       Supervising
<1>4. CASE ShutdownDone \/ FinalVerified \/ FinalFails
  BY <1>4 DEF ShutdownDone, FinalVerified, FinalFails
<1>5. ASSUME NEW r \in Run, TaskCreates(r)
      PROVE  ShutInv'
  BY <1>5, NoTaskAtReturn DEF TaskCreates
<1>6. ASSUME NEW r \in Run, TaskEnds(r) \/ FinalRemoves(r)
      PROVE  ShutInv'
  BY <1>6 DEF TaskEnds, FinalRemoves
<1>7. CASE UNCHANGED vars
  BY <1>7 DEF vars
<1>8. QED
  BY <1>1, <1>2, <1>3, <1>4, <1>5, <1>6, <1>7
     DEF Next, Parent, Crash, ShutdownWorker

\* What is in one of the sequences was posted.
LEMMA PostedIsPosted ==
    ASSUME TypeInv, NEW r \in PostedResults
    PROVE  Posted(r)
<1> USE DEF TypeInv, TypeOK
<1>1. PICK seq \in {results, result_queue} \cup {outbox[w] : w \in Slot} :
          \E k \in DOMAIN seq : r = seq[k]
  BY DEF PostedResults
<1>2. PICK k \in 1 .. Len(seq) : r = seq[k]
  BY <1>1
<1>3. /\ Len(results) \in Nat /\ Len(result_queue) \in Nat
      /\ Len(Delivered) = Len(results) + Len(result_queue)
      /\ \A j \in 1 .. Len(results) + Len(result_queue) :
            Delivered[j] = IF j <= Len(results) THEN results[j]
                           ELSE result_queue[j - Len(results)]
  BY ConcatProperties, LenProperties DEF Delivered
<1>4. CASE seq = results
  <2>1. k \in 1 .. Len(Delivered) /\ Delivered[k] = r
    <3>1. k \in 1 .. Len(results) + Len(result_queue) /\ k <= Len(results)
      BY <1>2, <1>3, <1>4
    <3>2. QED
      BY <1>2, <1>3, <1>4, <3>1
  <2>2. QED
    BY <2>1 DEF Posted, InSeq
<1>5. CASE seq = result_queue
  <2> DEFINE j == Len(results) + k
  <2>1. j \in 1 .. Len(Delivered) /\ Delivered[j] = r
    <3>1. /\ j \in 1 .. Len(results) + Len(result_queue) /\ ~(j <= Len(results))
          /\ j - Len(results) = k
      BY <1>2, <1>3, <1>5
    <3> HIDE DEF j
    <3>2. QED
      BY <1>2, <1>3, <1>5, <3>1
  <2>2. QED
    BY <2>1 DEF Posted, InSeq
<1>6. CASE seq \in {outbox[w] : w \in Slot}
  BY <1>2, <1>6 DEF Posted, InSeq
<1>7. QED
  BY <1>1, <1>4, <1>5, <1>6

\* A run that is reported without an error has no resource left, one that is
\* returned is on record unless its worker was killed, and a return leaves no
\* worker and no resource of the point.
THEOREM NothingIsLeft ==
    ASSUME "timeout" \notin Faults, "store" \notin Faults
    PROVE  Spec => []LeavesNothing
<1>1. TypeInv /\ OutcomeInv /\ CleanInv /\ RecordInv /\ ShutInv => LeavesNothing
  <2> SUFFICES ASSUME TypeInv, OutcomeInv, CleanInv, RecordInv, ShutInv
               PROVE  LeavesNothing
    OBVIOUS
  <2>1. ReportedClean
    BY PostedIsPosted DEF ReportedClean, CleanInv
  <2>2. ReturnedClean
    BY DEF ShutInv, ReturnedClean
  <2>3. MetadataLostOnlyByKill
    <3> SUFFICES ASSUME parent = "returned", NEW k \in DOMAIN results
                 PROVE  \/ results[k].run \in recorded
                        \/ exitcode[results[k].run[1]] = "killed"
      BY DEF MetadataLostOnlyByKill
    <3>1. results[k] \in PostedResults
      BY DEF PostedResults
    <3>2. Posted(results[k])
      BY <3>1, PostedIsPosted
    <3>3. ~Fatal(results[k])
      BY DEF OutcomeInv, LoopInv, TypeInv, TypeOK
    <3>4. results[k].run[1] \in Slot
      BY <3>2, PostedType DEF Result, Run
    <3>5. phase[results[k].run[1]] # "metadata"
      BY <3>4 DEF ShutInv, Alive
    <3>6. QED
      BY <3>2, <3>3, <3>5 DEF RecordInv
  <2>4. QED
    BY <2>1, <2>2, <2>3 DEF LeavesNothing
<1>2. Init => StartedInv
  BY DEF Init, StartedInv
<1>3. Init => RecordInv
  BY NothingPosted DEF RecordInv
<1>4. Init => ShutInv
  BY DEF Init, ShutInv
<1>5. TypeInv /\ StartedInv /\ ConservationInv /\ AttemptsInv /\ [Next]_vars
         => AttemptsInv'
  BY AttemptsStep
<1>6. TypeInv /\ StartedInv /\ LocalInv /\ RecordInv /\ [Next]_vars => RecordInv'
  BY RecordStep
<1>7. QED
  BY <1>1, <1>2, <1>3, <1>4, <1>5, <1>6, InitType, TypeStep, StartedStep,
     InitConservation, ConservationStep, InitOutcome, LoopStep, InitLocal, LocalStep,
     InitAttempts, InitClean, CleanStep, ShutStep, PTL DEF Spec
===============================================================================
