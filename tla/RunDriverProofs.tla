---------------------------- MODULE RunDriverProofs ----------------------------
(* Proofs about RunDriver, for every number of tasks, every result a task may *)
(* return, every set of probes, every set of faults and every number of times *)
(* the run id is run.                                                         *)
EXTENDS RunDriver, FiniteSetTheorems, SequenceTheorems, TLAPS

-------------------------------------------------------------------------------
(* The marks of a future are no results, and differ from each other.          *)

LEMMA MarksAreMarks ==
    /\ \A r \in Results : r \notin {New, Queued, RunningNow, Raised, Timeout}
    /\ New # Queued /\ New # RunningNow /\ New # Raised /\ New # Timeout
    /\ Queued # RunningNow /\ Queued # Raised /\ Queued # Timeout
    /\ RunningNow # Raised /\ RunningNow # Timeout /\ Raised # Timeout
<1>0. AgentError \in ResultType
  BY DEF AgentError, ResultType
<1>1. Results \subseteq ResultType
  BY <1>0, ResultsAssumption DEF Results
<1>2. \A r \in ResultType : DOMAIN r = {"passed", "error", "oracle_run"}
  BY DEF ResultType
<1>3. \A m \in {New, Queued, RunningNow, Raised, Timeout} : DOMAIN m = {"mark"}
  BY DEF New, Queued, RunningNow, Raised, Timeout
<1>4. {"passed", "error", "oracle_run"} # {"mark"}
  OBVIOUS
<1>5. \A r \in Results : r \notin {New, Queued, RunningNow, Raised, Timeout}
  BY <1>1, <1>2, <1>3, <1>4
<1>6. /\ New.mark = "new" /\ Queued.mark = "queued" /\ Raised.mark = "raised"
      /\ RunningNow.mark = "running" /\ Timeout.mark = "timeout"
  BY DEF New, Queued, RunningNow, Raised, Timeout
<1>7. QED
  BY <1>5, <1>6

-------------------------------------------------------------------------------
(* Type correctness.  A task that is finished needs that its answer is there, *)
(* and one whose outcome is written that it is a task.                        *)

TaskInv == pc \in {"wait", "close"} => i \in Task
AnswerInv == step = "teardown" => answer \in Results \cup {Raised}
TypeInv == TypeOK /\ TaskInv /\ AnswerInv

LEMMA SpanCloseType ==
    ASSUME CtxTypeOK, NEW thread \in Thread, NEW span \in Span,
           SpanClose(thread, span)
    PROVE  registry' \in [Thread -> Seq(Span)] /\ records' \subseteq Record
<1>1. PICK emitted \in SUBSET Probe :
          /\ records' = records \cup (emitted \X {span})
          /\ registry' = [registry EXCEPT ![thread] =
                 IF @ = <<>> THEN @ ELSE SubSeq(@, 1, Len(@) - 1)]
  BY DEF SpanClose
<1>2. records' \subseteq Record
  BY <1>1 DEF CtxTypeOK, Record
<1>3. registry[thread] \in Seq(Span)
  BY DEF CtxTypeOK
<1>4. SubSeq(registry[thread], 1, Len(registry[thread]) - 1) \in Seq(Span)
  BY <1>3, LenProperties, ElementOfSeq, SubSeqProperties
<1>5. QED
  BY <1>1, <1>2, <1>3, <1>4 DEF CtxTypeOK

LEMMA SpanOpenType ==
    ASSUME CtxTypeOK, NEW thread \in Thread, NEW span \in Span,
           SpanOpen(thread, span)
    PROVE  registry' \in [Thread -> Seq(Span)]
<1>1. registry[thread] \in Seq(Span)
  BY DEF CtxTypeOK
<1>2. Append(registry[thread], span) \in Seq(Span)
  BY <1>1
<1>3. QED
  BY <1>2 DEF CtxTypeOK, SpanOpen

LEMMA InitType == Init => TypeInv
<1> SUFFICES ASSUME Init PROVE TypeInv
  OBVIOUS
<1>1. CtxTypeOK
  BY EmptySeq DEF Init, CtxInit, CtxTypeOK
<1>2. i \in 1 .. NumTasks + 1 /\ attempt \in 1 .. Attempts
  BY TasksAssumption, AttemptsAssumption DEF Init
<1>3. outcome \in [Task -> Outcome] /\ under \in [Task -> SUBSET Task]
  BY DEF Init, Outcome
<1>4. future \in [Task -> Waiting \cup Results \cup {Raised}]
  BY DEF Init, Waiting
<1>5. QED
  BY <1>1, <1>2, <1>3, <1>4 DEF Init, TypeInv, TypeOK, TaskInv, AnswerInv

\* What the driver does when it is not asked to write an outcome or a span.
LEMMA DriverType ==
    ASSUME TypeInv, Driver
    PROVE  TypeInv'
<1> USE DEF TypeInv
<1>0. SpanId = Span /\ {"driver", "pool"} = Thread
  BY SpansAssumption
<1>1. CASE Enter
  BY <1>1 DEF Enter, TypeOK, TaskInv, AnswerInv, CtxTypeOK, CtxStart, poolVars
<1>2. CASE Submit
  <2>1. i \in Task
    BY <1>2, TasksAssumption DEF Submit, TypeOK, Task
  <2>2. <<i, "task">> \in Span
    BY <2>1, <1>0 DEF SpanId
  <2>3. registry' \in [Thread -> Seq(Span)]
    BY <1>2, <1>0, <2>2, SpanOpenType DEF Submit, TypeOK
  <2>4. CtxTypeOK'
    BY <1>2, <2>3 DEF Submit, TypeOK, CtxTypeOK
  <2>5. future' \in [Task -> Waiting \cup Results \cup {Raised}]
    BY <1>2 DEF Submit, TypeOK, Waiting
  <2>6. QED
    BY <1>2, <2>1, <2>4, <2>5 DEF Submit, TypeOK, TaskInv, AnswerInv
<1>3. CASE Answered
  <2>1. i \in Task /\ future[i] \in Results \cup {Raised}
    BY <1>3 DEF Answered, TypeOK, TaskInv, Done
  <2>2. outcome' \in [Task -> Outcome]
    BY <1>3, <2>1 DEF Answered, TypeOK, Outcome
  <2>3. QED
    BY <1>3, <2>1, <2>2
    DEF Answered, TypeOK, TaskInv, AnswerInv, CtxTypeOK, ctxVars, poolVars
<1>4. CASE TimesOut
  <2>1. outcome' \in [Task -> Outcome]
    BY <1>4 DEF TimesOut, TypeOK, Outcome
  <2>2. QED
    BY <1>4, <2>1
    DEF TimesOut, TypeOK, TaskInv, AnswerInv, CtxTypeOK, ctxVars, poolVars
<1>5. CASE Account
  <2>1. i \in Task
    BY <1>5 DEF Account, TaskInv
  <2>2. <<i, "task">> \in Span
    BY <2>1, <1>0 DEF SpanId
  <2>3. registry' \in [Thread -> Seq(Span)] /\ records' \subseteq Record
    BY <1>5, <1>0, <2>2, SpanCloseType DEF Account, TypeOK
  <2>4. CtxTypeOK'
    BY <1>5, <2>3 DEF Account, TypeOK, CtxTypeOK, Record
  <2>5. /\ i' \in 1 .. NumTasks + 1
        /\ passed' \in Nat /\ execution_failures' \in Nat
        /\ oracle_failures' \in Nat
    BY <1>5, <2>1, TasksAssumption DEF Account, TypeOK, Task
  <2>6. QED
    BY <1>5, <2>4, <2>5
    DEF Account, TypeOK, TaskInv, AnswerInv, poolVars
<1>6. CASE Leave
  BY <1>6 DEF Leave, TypeOK, TaskInv, AnswerInv, CtxTypeOK, CtxStop, poolVars,
              Record
<1>7. CASE PersistMeasurements
  BY <1>7 DEF PersistMeasurements, TypeOK, TaskInv, AnswerInv, CtxTypeOK,
              ctxVars, poolVars
<1>8. CASE Analyze
  <2>1. {record[2] : record \in records} \subseteq SpanId
    BY <1>0 DEF TypeOK, CtxTypeOK, Record
  <2>2. QED
    BY <1>8, <2>1 DEF Analyze, TypeOK, TaskInv, AnswerInv, CtxTypeOK, ctxVars,
                      poolVars
<1>9. CASE PersistResults
  BY <1>9 DEF PersistResults, TypeOK, TaskInv, AnswerInv, CtxTypeOK,
              ctxVars, poolVars
<1>10. CASE Exit
  BY <1>10 DEF Exit, TypeOK, TaskInv, AnswerInv, CtxTypeOK, ctxVars, poolVars
<1>11. QED
  BY <1>1, <1>2, <1>3, <1>4, <1>5, <1>6, <1>7, <1>8, <1>9, <1>10 DEF Driver

LEMMA WorkOfType ==
    ASSUME TypeInv, NEW t \in Task, WorkOf(t)
    PROVE  under' \in [Task -> SUBSET Task]
  BY DEF WorkOf, TypeInv, TypeOK

LEMMA EndPhaseType ==
    ASSUME TypeInv, NEW t \in Task, NEW phase \in Phases,
           NEW next \in {"admitted", "solved", "teardown"},
           NEW result \in Results \cup {Raised, Null},
           next = "teardown" => result # Null \/ result \in Results \cup {Raised},
           EndPhase(t, phase, next, result),
           step_traces' \subseteq Span
    PROVE  TypeInv'
<1>1. <<t, phase>> \in Span /\ "pool" \in Thread
  BY SpansAssumption DEF SpanId
<1>2. registry' \in [Thread -> Seq(Span)] /\ records' \subseteq Record
  BY <1>1, SpanCloseType DEF EndPhase, TypeInv, TypeOK
<1>3. CtxTypeOK'
  BY <1>2 DEF EndPhase, TypeInv, TypeOK, CtxTypeOK, Record
<1>4. under' \in [Task -> SUBSET Task]
  BY WorkOfType DEF EndPhase
<1>5. QED
  BY <1>3, <1>4 DEF EndPhase, TypeInv, TypeOK, TaskInv, AnswerInv, driverVars

LEMMA WorkType ==
    ASSUME TypeInv, NEW t \in Task, Work(t)
    PROVE  TypeInv'
<1>0. /\ step_traces \subseteq Span
      /\ answer \in Results \cup {Raised, Null}
      /\ AgentError \in Results
      /\ \A phase \in Phases : <<t, phase>> \in Span
      /\ "pool" \in Thread
  BY SpansAssumption DEF TypeInv, TypeOK, CtxTypeOK, Results, SpanId
<1>1. CASE Begin(t)
  <2>1. registry' \in [Thread -> Seq(Span)]
    BY <1>0, <1>1, SpanOpenType DEF Begin, TypeInv, TypeOK, Phases
  <2>2. CtxTypeOK'
    BY <1>1, <2>1 DEF Begin, TypeInv, TypeOK, CtxTypeOK
  <2>3. under' \in [Task -> SUBSET Task]
    BY <1>1, WorkOfType DEF Begin
  <2>4. future' \in [Task -> Waiting \cup Results \cup {Raised}]
    BY <1>1 DEF Begin, TypeInv, TypeOK, Waiting
  <2>5. QED
    BY <1>1, <2>2, <2>3, <2>4
    DEF Begin, TypeInv, TypeOK, TaskInv, AnswerInv, driverVars, Phases
<1>2. CASE Admit(t)
  <2>1. CASE EndPhase(t, "admit", "admitted", answer)
    BY <1>0, <1>2, <2>1, EndPhaseType DEF Admit, Phases
  <2>2. CASE EndPhase(t, "admit", "teardown", Raised)
    BY <1>0, <1>2, <2>2, EndPhaseType DEF Admit, Phases
  <2>3. QED
    BY <1>2, <2>1, <2>2 DEF Admit
<1>3. CASE OpenPhase(t)
  <2>1. step' \in Phases
    BY <1>3 DEF OpenPhase, Phases
  <2>2. registry' \in [Thread -> Seq(Span)]
    BY <1>0, <1>3, <2>1, SpanOpenType DEF OpenPhase, TypeInv, TypeOK
  <2>3. CtxTypeOK'
    BY <1>3, <2>2 DEF OpenPhase, TypeInv, TypeOK, CtxTypeOK
  <2>4. under' \in [Task -> SUBSET Task]
    BY <1>3, WorkOfType DEF OpenPhase
  <2>5. QED
    BY <1>3, <2>1, <2>3, <2>4
    DEF OpenPhase, TypeInv, TypeOK, TaskInv, AnswerInv, driverVars, Phases
<1>4. CASE Turns(t)
  <2>1. CASE EndPhase(t, "turns", "solved", answer) /\ AddStepTraces(<<t, "turns">>)
    <3>1. step_traces' \subseteq Span
      BY <1>0, <2>1 DEF AddStepTraces, Phases
    <3>2. QED
      BY <1>0, <2>1, <3>1, EndPhaseType DEF Phases
  <2>2. CASE EndPhase(t, "turns", "teardown", AgentError) /\ UNCHANGED step_traces
    BY <1>0, <2>2, EndPhaseType DEF Phases
  <2>3. QED
    BY <1>4, <2>1, <2>2 DEF Turns
<1>5. CASE Commit(t)
  <2>1. CASE \E result \in TaskResult : EndPhase(t, "commit", "teardown", result)
    <3>1. PICK result \in TaskResult : EndPhase(t, "commit", "teardown", result)
      BY <2>1
    <3>2. result \in Results
      BY DEF Results
    <3>3. QED
      BY <1>0, <1>5, <3>1, <3>2, EndPhaseType DEF Commit, Phases
  <2>2. CASE EndPhase(t, "commit", "teardown", Raised)
    BY <1>0, <1>5, <2>2, EndPhaseType DEF Commit, Phases
  <2>3. QED
    BY <1>5, <2>1, <2>2 DEF Commit
<1>6. CASE Finish(t)
  <2>1. future' \in [Task -> Waiting \cup Results \cup {Raised}]
    BY <1>6 DEF Finish, TypeInv, TypeOK, AnswerInv
  <2>2. under' \in [Task -> SUBSET Task]
    BY <1>6, WorkOfType DEF Finish
  <2>3. CtxTypeOK'
    BY <1>6 DEF Finish, TypeInv, TypeOK, CtxTypeOK, ctxVars, Record
  <2>4. QED
    BY <1>6, <2>1, <2>2, <2>3
    DEF Finish, TypeInv, TypeOK, TaskInv, AnswerInv, driverVars
<1>7. QED
  BY <1>1, <1>2, <1>3, <1>4, <1>5, <1>6 DEF Work

LEMMA TypeStep ==
    ASSUME TypeInv, [Next]_vars
    PROVE  TypeInv'
<1>1. CASE Driver
  BY <1>1, DriverType
<1>2. CASE \E t \in Task : Work(t)
  BY <1>2, WorkType
<1>3. CASE Crash
  BY <1>3 DEF Crash, TypeInv, TypeOK, TaskInv, AnswerInv, CtxTypeOK, ctxVars,
              poolVars, Record
<1>4. CASE RunAgain
  <2>1. CtxTypeOK'
    BY <1>4, EmptySeq DEF RunAgain, CtxTypeOK
  <2>2. i' \in 1 .. NumTasks + 1 /\ attempt' \in 1 .. Attempts
    BY <1>4, TasksAssumption, AttemptsAssumption DEF RunAgain, TypeInv, TypeOK
  <2>3. /\ outcome' \in [Task -> Outcome]
        /\ future' \in [Task -> Waiting \cup Results \cup {Raised}]
        /\ under' \in [Task -> SUBSET Task]
    BY <1>4 DEF RunAgain, Outcome, Waiting
  <2>4. QED
    BY <1>4, <2>1, <2>2, <2>3 DEF RunAgain, TypeInv, TypeOK, TaskInv, AnswerInv
<1>5. CASE UNCHANGED vars
  BY <1>5 DEF vars, driverVars, poolVars, ctxVars, TypeInv, TypeOK, TaskInv,
              AnswerInv, CtxTypeOK, Record
<1>6. QED
  BY <1>1, <1>2, <1>3, <1>4, <1>5 DEF Next

\* Every variable keeps its type; in particular an answered future holds what
\* run_task returned or that it raised, never nothing.
THEOREM TypeCorrect == Spec => []TypeOK
<1>1. Init => TypeInv
  BY InitType
<1>2. TypeInv /\ [Next]_vars => TypeInv'
  BY TypeStep
<1>3. TypeInv => TypeOK
  BY DEF TypeInv
<1>4. QED
  BY <1>1, <1>2, <1>3, PTL DEF Spec

-------------------------------------------------------------------------------
(* Whose work goes on while a span is open.  A task is submitted in its own   *)
(* iteration, and one that an earlier iteration left unanswered was given up  *)
(* on there; so what still runs is the current task or one given up on.       *)

SubmittedInv ==
    \A t \in Task : future[t] # New =>
        t <= i /\ (t = i => pc \in {"wait", "close", "dead"})
LeftBehindInv ==
    \A t \in Task : (t < i \/ (t = i /\ pc = "close")) /\ ~Done(t)
        => outcome[t] = Timeout
UnderInv ==
    \A s, t \in Task : t \in under[s] =>
        t <= s /\ s <= i /\ (t = s \/ outcome[t] = Timeout)
WorkInv == SubmittedInv /\ LeftBehindInv /\ UnderInv

LEMMA TaskIsInt == \A t \in Task : t \in Int
  BY TasksAssumption DEF Task

LEMMA IterationIsInt == TypeInv => i \in Int
  BY TasksAssumption DEF TypeInv, TypeOK

LEMMA InitWork == Init => WorkInv
<1> SUFFICES ASSUME Init PROVE WorkInv
  OBVIOUS
<1>1. \A t \in Task : future[t] = New /\ under[t] = {} /\ ~(t < i)
  BY TasksAssumption DEF Init, Task
<1>2. pc = "enter"
  BY DEF Init
<1>3. QED
  BY <1>1, <1>2 DEF WorkInv, SubmittedInv, LeftBehindInv, UnderInv

\* A step of a running or queued task: the futures of the others stay, its own
\* was not new, and its work is charged to the span of the iteration.
LEMMA WorkStepWork ==
    ASSUME TypeInv, WorkInv, NEW t \in Task, WorkOf(t), UNCHANGED driverVars,
           pc # "dead", ~Done(t), future[t] # New,
           future'[t] # New, \A s \in Task \ {t} : future'[s] = future[s]
    PROVE  WorkInv'
<1>0. i \in Int /\ \A s \in Task : s \in Int
  BY TaskIsInt, IterationIsInt
<1>1. SubmittedInv'
  BY DEF WorkInv, SubmittedInv, driverVars
<1>2. LeftBehindInv'
  <2>1. \A s \in Task : ~Done(s)' => ~Done(s)
    BY DEF Done
  <2>2. QED
    BY <2>1 DEF WorkInv, LeftBehindInv, driverVars
<1>3. UnderInv'
  <2> SUFFICES ASSUME NEW s \in Task, NEW r \in Task, r \in under'[s]
               PROVE  r <= s /\ s <= i /\ (r = s \/ outcome[r] = Timeout)
    BY DEF UnderInv, driverVars
  <2>1. CASE r \in under[s]
    BY <2>1 DEF WorkInv, UnderInv
  <2>2. CASE r \notin under[s]
    <3>1. r = t /\ s \in OpenSpan
      BY <2>2 DEF WorkOf, TypeInv, TypeOK
    <3>2. s = i /\ pc \in {"wait", "close"}
      BY <3>1 DEF OpenSpan
    <3>3. t <= i
      BY DEF WorkInv, SubmittedInv
    <3>4. t = i \/ outcome[t] = Timeout
      BY <3>3, <1>0 DEF WorkInv, LeftBehindInv
    <3>5. QED
      BY <3>1, <3>2, <3>3, <3>4, <1>0
  <2>3. QED
    BY <2>1, <2>2
<1>4. QED
  BY <1>1, <1>2, <1>3 DEF WorkInv

\* The futures of a task that works: it is queued or running before, and not
\* new after.
LEMMA WorkFutures ==
    ASSUME TypeInv, NEW t \in Task, Work(t)
    PROVE  /\ WorkOf(t) /\ UNCHANGED driverVars
           /\ ~Done(t) /\ future[t] # New
           /\ future'[t] # New
           /\ \A s \in Task \ {t} : future'[s] = future[s]
<1>1. /\ Queued # New /\ RunningNow # New /\ Raised # New
      /\ \A r \in Results : r # New
  BY MarksAreMarks
<1>2. CASE Begin(t)
  BY <1>1, <1>2 DEF Begin, Done, Waiting, TypeInv, TypeOK, driverVars
<1>3. CASE Finish(t)
  <2>1. answer \in Results \cup {Raised}
    BY <1>3 DEF Finish, TypeInv, AnswerInv
  <2>2. future[t] = RunningNow
    BY <1>3 DEF Finish, Running
  <2>3. QED
    BY <1>1, <1>3, <2>1, <2>2
    DEF Finish, Done, Waiting, TypeInv, TypeOK, driverVars
<1>4. CASE Admit(t) \/ Turns(t) \/ Commit(t)
  BY <1>1, <1>4 DEF Admit, Turns, Commit, EndPhase, Running, Done, Waiting,
                    driverVars
<1>5. CASE OpenPhase(t)
  BY <1>1, <1>5 DEF OpenPhase, Running, Done, Waiting, driverVars
<1>6. QED
  BY <1>2, <1>3, <1>4, <1>5 DEF Work

\* Steps of the driver that leave its outcomes, its futures and i alone.
LEMMA DriverStays ==
    ASSUME WorkInv, UNCHANGED <<i, outcome, future, under>>,
           pc' \in {"wait", "close"} => pc' = pc,
           pc \in {"wait", "close", "dead"} => pc' \in {pc, "dead"}
    PROVE  WorkInv'
  BY DEF WorkInv, SubmittedInv, LeftBehindInv, UnderInv, Done

LEMMA WorkStep ==
    ASSUME TypeInv, WorkInv, [Next]_vars
    PROVE  WorkInv'
<1>0. i \in Int /\ \A s \in Task : s \in Int
  BY TaskIsInt, IterationIsInt
<1>1. CASE Submit
  <2>1. \A t \in Task : t # i => future'[t] = future[t]
    BY <1>1 DEF Submit, TypeInv, TypeOK
  <2>2. UNCHANGED <<i, outcome, under>> /\ pc' = "wait" /\ pc = "loop"
    BY <1>1 DEF Submit
  <2>3. QED
    BY <1>0, <2>1, <2>2
    DEF WorkInv, SubmittedInv, LeftBehindInv, UnderInv, Done
<1>2. CASE Answered
  <2>1. \A t \in Task : t # i => outcome'[t] = outcome[t]
    BY <1>2 DEF Answered, TypeInv, TypeOK
  <2>2. UNCHANGED <<i, future, under>> /\ pc' = "close" /\ pc = "wait" /\ Done(i)
    BY <1>2 DEF Answered, poolVars
  <2>3. SubmittedInv'
    BY <2>2 DEF WorkInv, SubmittedInv
  <2>4. LeftBehindInv'
    BY <1>0, <2>1, <2>2 DEF WorkInv, LeftBehindInv, Done
  <2>5. UnderInv'
    BY <1>0, <2>1, <2>2 DEF WorkInv, UnderInv
  <2>6. QED
    BY <2>3, <2>4, <2>5 DEF WorkInv
<1>3. CASE TimesOut
  <2>1. \A t \in Task : outcome'[t] = IF t = i THEN Timeout ELSE outcome[t]
    BY <1>3 DEF TimesOut, TypeInv, TypeOK
  <2>2. UNCHANGED <<i, future, under>> /\ pc' = "close" /\ pc = "wait"
    BY <1>3 DEF TimesOut, poolVars
  <2>3. SubmittedInv'
    BY <2>2 DEF WorkInv, SubmittedInv
  <2>4. LeftBehindInv'
    BY <1>0, <2>1, <2>2 DEF WorkInv, LeftBehindInv, Done
  <2>5. UnderInv'
    BY <1>0, <2>1, <2>2 DEF WorkInv, UnderInv
  <2>6. QED
    BY <2>3, <2>4, <2>5 DEF WorkInv
<1>4. CASE Account
  <2>1. /\ UNCHANGED <<outcome, future, under>> /\ pc' = "loop" /\ pc = "close"
        /\ i' = i + 1
    BY <1>4 DEF Account, poolVars
  <2>2. SubmittedInv'
    BY <1>0, <2>1 DEF WorkInv, SubmittedInv
  <2>3. LeftBehindInv'
    BY <1>0, <2>1 DEF WorkInv, LeftBehindInv, Done
  <2>4. UnderInv'
    BY <1>0, <2>1 DEF WorkInv, UnderInv
  <2>5. QED
    BY <2>2, <2>3, <2>4 DEF WorkInv
<1>5. CASE Enter \/ Leave \/ PersistMeasurements \/ Analyze \/ PersistResults \/ Exit
  BY <1>5, DriverStays DEF Enter, Leave, PersistMeasurements, Analyze,
                           PersistResults, Exit, poolVars
<1>6. CASE pc # "dead" /\ \E t \in Task : Work(t)
  BY <1>6, WorkFutures, WorkStepWork
<1>7. CASE Crash
  <2>1. UNCHANGED <<i, outcome, future, under>> /\ pc' = "dead"
    BY <1>7 DEF Crash, poolVars
  <2>2. QED
    BY <2>1, DriverStays
<1>8. CASE RunAgain
  <2>1. i' = 1 /\ pc' = "enter"
    BY <1>8 DEF RunAgain
  <2>2. \A t \in Task : future'[t] = New /\ under'[t] = {} /\ ~(t < 1)
    BY <1>8, TasksAssumption DEF RunAgain, Task
  <2>3. QED
    BY <2>1, <2>2 DEF WorkInv, SubmittedInv, LeftBehindInv, UnderInv
<1>9. CASE UNCHANGED vars
  BY <1>9, DriverStays DEF vars, driverVars, poolVars
<1>10. QED
  BY <1>1, <1>2, <1>3, <1>4, <1>5, <1>6, <1>7, <1>8, <1>9 DEF Next, Driver

\* The work of another task is charged to an open span only if the driver gave
\* up on that task before it opened the span.
THEOREM ForeignWorkWasGivenUp == Spec => []ForeignWorkOnlyAfterTimeout
<1>1. Init => TypeInv /\ WorkInv
  BY InitType, InitWork
<1>2. TypeInv /\ WorkInv /\ [Next]_vars => TypeInv' /\ WorkInv'
  BY TypeStep, WorkStep
<1>3. TypeInv /\ WorkInv => ForeignWorkOnlyAfterTimeout
  BY TaskIsInt DEF WorkInv, UnderInv, ForeignWorkOnlyAfterTimeout, TimedOut
<1>4. QED
  BY <1>1, <1>2, <1>3, PTL DEF Spec

-------------------------------------------------------------------------------
(* The counts of a run.  The outcome of a task is written in its iteration    *)
(* and counted once, at the end of it; nothing changes it after that.         *)

LEMMA CountNext ==
    ASSUME NEW n \in Nat \ {0}, NEW S
    PROVE  Cardinality({t \in 1 .. n : t \in S}) =
               Cardinality({t \in 1 .. n - 1 : t \in S})
                   + (IF n \in S THEN 1 ELSE 0)
<1> DEFINE less == {t \in 1 .. n - 1 : t \in S}
<1>1. IsFiniteSet(1 .. n - 1) /\ less \subseteq 1 .. n - 1
  BY FS_Interval
<1>2. IsFiniteSet(less) /\ Cardinality(less) \in Nat
  BY <1>1, FS_Subset, FS_CardinalityType
<1>3. CASE n \in S
  <2>1. {t \in 1 .. n : t \in S} = less \cup {n} /\ n \notin less
    BY <1>3
  <2>2. Cardinality(less \cup {n}) = Cardinality(less) + 1
    BY <1>2, <2>1, FS_AddElement
  <2>3. QED
    BY <1>3, <2>1, <2>2
<1>4. CASE n \notin S
  <2>1. {t \in 1 .. n : t \in S} = less
    BY <1>4
  <2>2. QED
    BY <1>2, <1>4, <2>1
<1>5. QED
  BY <1>3, <1>4

\* A count over the tasks before i is one over a set that is fixed.
CountInv ==
    /\ passed = Cardinality({t \in 1 .. i - 1 : Ok(t)})
    /\ execution_failures = Cardinality({t \in 1 .. i - 1 : Failed(t)})

LEMMA CountsOfNone ==
    ASSUME i = 1, passed = 0, execution_failures = 0
    PROVE  CountInv
<1>1. 1 .. i - 1 = {}
  OBVIOUS
<1>2. Cardinality({}) = 0
  BY FS_EmptySet
<1>3. QED
  BY <1>1, <1>2 DEF CountInv

\* Only the outcome of the current task is written.
LEMMA CountsStay ==
    ASSUME TypeInv, CountInv, UNCHANGED <<i, passed, execution_failures>>,
           \A t \in Task : t # i => outcome'[t] = outcome[t]
    PROVE  CountInv'
<1>1. \A t \in 1 .. i - 1 : outcome'[t] = outcome[t]
  BY TasksAssumption DEF TypeInv, TypeOK, Task
<1>2. \A t \in 1 .. i - 1 : Ok(t)' = Ok(t) /\ Failed(t)' = Failed(t)
  BY <1>1 DEF Ok, Failed
<1>3. /\ {t \in 1 .. i' - 1 : Ok(t)'} = {t \in 1 .. i - 1 : Ok(t)}
      /\ {t \in 1 .. i' - 1 : Failed(t)'} = {t \in 1 .. i - 1 : Failed(t)}
  BY <1>2
<1>4. QED
  BY <1>3 DEF CountInv

LEMMA CountStep ==
    ASSUME TypeInv, CountInv, [Next]_vars
    PROVE  CountInv'
<1>1. CASE Account
  <2>1. i \in Nat \ {0}
    BY <1>1, TasksAssumption DEF Account, TypeInv, TaskInv, Task
  <2>2. UNCHANGED outcome /\ i' = i + 1
    BY <1>1 DEF Account
  <2>3. \A t : Ok(t)' = Ok(t) /\ Failed(t)' = Failed(t)
    BY <2>2 DEF Ok, Failed
  <2>4. passed' = Cardinality({t \in 1 .. i : Ok(t)})
    <3> DEFINE S == {t \in 1 .. i : Ok(t)}
    <3>1. /\ Cardinality({t \in 1 .. i : t \in S}) =
                 Cardinality({t \in 1 .. i - 1 : t \in S})
                     + (IF i \in S THEN 1 ELSE 0)
      BY <2>1, CountNext
    <3>2. /\ {t \in 1 .. i : t \in S} = {t \in 1 .. i : Ok(t)}
          /\ {t \in 1 .. i - 1 : t \in S} = {t \in 1 .. i - 1 : Ok(t)}
          /\ i \in S <=> Ok(i)
      BY <2>1
    <3>3. passed' = passed + (IF Ok(i) THEN 1 ELSE 0)
      BY <1>1 DEF Account
    <3>4. passed = Cardinality({t \in 1 .. i - 1 : Ok(t)})
      BY DEF CountInv
    <3> HIDE DEF S
    <3>5. QED
      BY <3>1, <3>2, <3>3, <3>4
  <2>5. execution_failures' = Cardinality({t \in 1 .. i : Failed(t)})
    <3> DEFINE S == {t \in 1 .. i : Failed(t)}
    <3>1. /\ Cardinality({t \in 1 .. i : t \in S}) =
                 Cardinality({t \in 1 .. i - 1 : t \in S})
                     + (IF i \in S THEN 1 ELSE 0)
      BY <2>1, CountNext
    <3>2. /\ {t \in 1 .. i : t \in S} = {t \in 1 .. i : Failed(t)}
          /\ {t \in 1 .. i - 1 : t \in S} = {t \in 1 .. i - 1 : Failed(t)}
          /\ i \in S <=> Failed(i)
      BY <2>1
    <3>3. execution_failures' = execution_failures + (IF Failed(i) THEN 1 ELSE 0)
      BY <1>1 DEF Account
    <3>4. execution_failures = Cardinality({t \in 1 .. i - 1 : Failed(t)})
      BY DEF CountInv
    <3> HIDE DEF S
    <3>5. QED
      BY <3>1, <3>2, <3>3, <3>4
  <2>6. i' - 1 = i
    BY <2>1, <2>2
  <2>7. /\ {t \in 1 .. i' - 1 : Ok(t)'} = {t \in 1 .. i : Ok(t)}
        /\ {t \in 1 .. i' - 1 : Failed(t)'} = {t \in 1 .. i : Failed(t)}
    BY <2>3, <2>6
  <2>8. QED
    BY <2>4, <2>5, <2>7 DEF CountInv
<1>2. CASE Answered \/ TimesOut
  <2>1. UNCHANGED <<i, passed, execution_failures>>
    BY <1>2 DEF Answered, TimesOut
  <2>2. \A t \in Task : t # i => outcome'[t] = outcome[t]
    BY <1>2 DEF Answered, TimesOut, TypeInv, TypeOK
  <2>3. QED
    BY <2>1, <2>2, CountsStay
<1>3. CASE Enter \/ Submit \/ Leave \/ PersistMeasurements \/ Analyze
           \/ PersistResults \/ Exit \/ Crash
  BY <1>3, CountsStay DEF Enter, Submit, Leave, PersistMeasurements, Analyze,
                          PersistResults, Exit, Crash
<1>4. CASE \E t \in Task : Work(t)
  BY <1>4, WorkFutures, CountsStay DEF driverVars
<1>5. CASE RunAgain
  <2>1. i' = 1 /\ passed' = 0 /\ execution_failures' = 0
    BY <1>5 DEF RunAgain
  <2>2. 1 .. i' - 1 = {}
    BY <2>1
  <2>3. QED
    BY <2>1, <2>2, FS_EmptySet DEF CountInv
<1>6. CASE UNCHANGED vars
  BY <1>6, CountsStay DEF vars, driverVars
<1>7. QED
  BY <1>1, <1>2, <1>3, <1>4, <1>5, <1>6 DEF Next, Driver

\* The counts are those of the outcomes, and a task the driver gave up on is
\* among the failures.
THEOREM CountsAreOutcomes == Spec => []CountsMatchOutcomes
<1>1. Init => TypeInv /\ CountInv
  BY InitType, CountsOfNone DEF Init
<1>2. TypeInv /\ CountInv /\ [Next]_vars => TypeInv' /\ CountInv'
  BY TypeStep, CountStep
<1>3. CountInv => CountsMatchOutcomes
  <2>1. \A t \in TimedOut : Failed(t)
    BY MarksAreMarks DEF TimedOut, Failed
  <2>2. QED
    BY <2>1 DEF CountInv, CountsMatchOutcomes
<1>4. QED
  BY <1>1, <1>2, <1>3, PTL DEF Spec

-------------------------------------------------------------------------------
(* What is open.  Each thread has at most one span open, the driver that of    *)
(* the current task and the pool that of the phase its task is in.             *)

PoolInv ==
    /\ step = "idle" <=> Running = {}
    /\ \A s, t \in Running : s = t
    /\ \A t \in Running : step \in Phases => registry["pool"] = <<<<t, step>>>>
    /\ step \notin Phases => registry["pool"] = <<>>
DriverInv ==
    /\ pc \in {"wait", "close"} => registry["driver"] = <<<<i, "task">>>>
    /\ pc \notin {"wait", "close", "dead"} => registry["driver"] = <<>>
Stopped == {"persist", "analyze", "complete", "returned"}
StoppedInv ==
    pc \in Stopped => i = NumTasks + 1 /\ (TimedOut = {} => json = records)
OpenInv == PoolInv /\ DriverInv /\ StoppedInv

LEMMA OneSpan ==
    ASSUME NEW e
    PROVE  /\ Append(<<>>, e) = <<e>> /\ <<e>> # <<>>
           /\ SubSeq(<<e>>, 1, Len(<<e>>) - 1) = <<>>
<1>1. Len(<<e>>) = 1
  OBVIOUS
<1>2. SubSeq(<<e>>, 1, 0) = <<>>
  BY SubSeqEmpty
<1>3. Append(<<>>, e) = <<e>> /\ <<e>> # <<>>
  OBVIOUS
<1>4. QED
  BY <1>1, <1>2, <1>3

LEMMA OpenOnEmpty ==
    ASSUME TypeInv, NEW thread \in Thread, NEW span,
           registry[thread] = <<>>, SpanOpen(thread, span)
    PROVE  /\ registry'[thread] = <<span>>
           /\ \A other \in Thread \ {thread} : registry'[other] = registry[other]
<1>1. registry' = [registry EXCEPT ![thread] = <<span>>]
  BY OneSpan DEF SpanOpen
<1>2. QED
  BY <1>1 DEF TypeInv, TypeOK, CtxTypeOK

LEMMA CloseTheOne ==
    ASSUME TypeInv, NEW thread \in Thread, NEW span, NEW open,
           registry[thread] = <<open>>, SpanClose(thread, span)
    PROVE  /\ registry'[thread] = <<>>
           /\ \A other \in Thread \ {thread} : registry'[other] = registry[other]
<1>1. registry' = [registry EXCEPT ![thread] =
                      IF @ = <<>> THEN @ ELSE SubSeq(@, 1, Len(@) - 1)]
  BY DEF SpanClose
<1>2. registry' = [registry EXCEPT ![thread] = <<>>]
  BY <1>1, OneSpan
<1>3. QED
  BY <1>2 DEF TypeInv, TypeOK, CtxTypeOK

\* Once the loop is over, the pool works only for tasks it was given up on.
LEMMA NothingLeft ==
    ASSUME TypeInv, WorkInv, i = NumTasks + 1, TimedOut = {}
    PROVE  \A t \in Task : Done(t)
  BY TasksAssumption DEF Task, TimedOut, WorkInv, LeftBehindInv

LEMMA InitOpen == Init => OpenInv
<1> SUFFICES ASSUME Init PROVE OpenInv
  OBVIOUS
<1>1. step = "idle" /\ pc = "enter" /\ Running = {}
  BY MarksAreMarks DEF Init, Running
<1>2. registry["pool"] = <<>> /\ registry["driver"] = <<>>
  BY SpansAssumption DEF Init, CtxInit
<1>3. QED
  BY <1>1, <1>2 DEF OpenInv, PoolInv, DriverInv, StoppedInv, Stopped, Phases

LEMMA PoolOnDriver ==
    ASSUME PoolInv, UNCHANGED <<step, Running>>, registry'["pool"] = registry["pool"]
    PROVE  PoolInv'
  BY DEF PoolInv

LEMMA OpenDriverStep ==
    ASSUME TypeInv, WorkInv, OpenInv, Driver
    PROVE  OpenInv'
<1>0. "driver" \in Thread /\ "pool" \in Thread \ {"driver"}
  BY SpansAssumption
<1>1. CASE Submit
  <2>1. registry["driver"] = <<>> /\ pc = "loop" /\ pc' = "wait" /\ i' = i
    BY <1>1 DEF Submit, OpenInv, DriverInv
  <2>2. registry'["driver"] = <<<<i, "task">>>> /\ registry'["pool"] = registry["pool"]
    BY <1>0, <1>1, <2>1, OpenOnEmpty DEF Submit
  <2>3. i \in Task
    BY <1>1, TasksAssumption DEF Submit, TypeInv, TypeOK, Task
  <2>4. future[i] = New
    BY <2>1, <2>3, IterationIsInt DEF WorkInv, SubmittedInv
  <2>5. \A t \in Task : future'[t] = IF t = i THEN Queued ELSE future[t]
    BY <1>1 DEF Submit, TypeInv, TypeOK
  <2>6. Running' = Running /\ step' = step
    BY <1>1, <2>4, <2>5, MarksAreMarks DEF Submit, Running
  <2>7. PoolInv'
    BY <2>2, <2>6, PoolOnDriver DEF OpenInv
  <2>8. QED
    BY <2>1, <2>2, <2>7 DEF OpenInv, DriverInv, StoppedInv, Stopped
<1>2. CASE Account
  <2>1. /\ registry["driver"] = <<<<i, "task">>>> /\ pc = "close"
        /\ pc' = "loop"
    BY <1>2 DEF Account, OpenInv, DriverInv
  <2>2. registry'["driver"] = <<>> /\ registry'["pool"] = registry["pool"]
    BY <1>0, <1>2, <2>1, CloseTheOne DEF Account
  <2>3. Running' = Running /\ step' = step
    BY <1>2 DEF Account, poolVars, Running
  <2>4. PoolInv'
    BY <2>2, <2>3, PoolOnDriver DEF OpenInv
  <2>5. QED
    BY <2>1, <2>2, <2>4 DEF OpenInv, DriverInv, StoppedInv, Stopped
<1>3. CASE Leave
  <2>1. /\ pc = "loop" /\ pc' = "persist" /\ i' = i /\ i > NumTasks
        /\ registry' = registry /\ records' = records /\ json' = records
    BY <1>3 DEF Leave, CtxStop
  <2>2. Running' = Running /\ step' = step
    BY <1>3 DEF Leave, poolVars, Running
  <2>3. PoolInv'
    BY <2>1, <2>2, PoolOnDriver DEF OpenInv
  <2>4. i = NumTasks + 1
    BY <2>1, TasksAssumption DEF TypeInv, TypeOK
  <2>5. QED
    BY <2>1, <2>3, <2>4 DEF OpenInv, DriverInv, StoppedInv
<1>4. CASE Enter \/ Answered \/ TimesOut \/ PersistMeasurements \/ Analyze
           \/ PersistResults \/ Exit
  <2>1. /\ UNCHANGED <<registry, records, json, i, future, step>>
        /\ pc' \in {"wait", "close"} <=> pc \in {"wait", "close"}
        /\ pc # "dead" /\ pc' # "dead"
    BY <1>4 DEF Enter, Answered, TimesOut, PersistMeasurements, Analyze,
                PersistResults, Exit, ctxVars, poolVars
  <2>2. /\ pc' \in Stopped => pc \in Stopped
        /\ pc' \in Stopped => outcome' = outcome
    BY <1>4 DEF Enter, Answered, TimesOut, PersistMeasurements, Analyze,
                PersistResults, Exit, Stopped
  <2>3. Running' = Running
    BY <2>1 DEF Running
  <2>4. PoolInv'
    BY <2>1, <2>3, PoolOnDriver DEF OpenInv
  <2>5. DriverInv'
    BY <2>1 DEF OpenInv, DriverInv
  <2>6. StoppedInv'
    BY <2>1, <2>2 DEF OpenInv, StoppedInv, TimedOut
  <2>7. QED
    BY <2>4, <2>5, <2>6 DEF OpenInv
<1>5. QED
  BY <1>1, <1>2, <1>3, <1>4 DEF Driver

LEMMA OpenWorkStep ==
    ASSUME TypeInv, WorkInv, OpenInv, NEW t \in Task, Work(t)
    PROVE  OpenInv'
<1>0. "pool" \in Thread /\ "driver" \in Thread \ {"pool"}
  BY SpansAssumption
<1>1. UNCHANGED <<pc, i, outcome>>
  BY WorkFutures DEF driverVars
<1>2. pc \in Stopped => TimedOut # {}
  <2>1. ~Done(t)
    BY WorkFutures
  <2>2. QED
    BY <2>1, NothingLeft DEF OpenInv, StoppedInv
<1>3. StoppedInv'
  BY <1>1, <1>2 DEF OpenInv, StoppedInv, TimedOut
<1>4. CASE Begin(t)
  <2>1. /\ step = "idle" /\ step' = "admit" /\ Running = {}
        /\ registry["pool"] = <<>>
    BY <1>4 DEF Begin, OpenInv, PoolInv, Phases
  <2>2. /\ registry'["pool"] = <<<<t, "admit">>>>
        /\ registry'["driver"] = registry["driver"]
    BY <1>0, <1>4, <2>1, OpenOnEmpty DEF Begin
  <2>3. Running' = {t}
    BY <1>4, <2>1 DEF Begin, Running, TypeInv, TypeOK
  <2>4. PoolInv'
    BY <2>1, <2>2, <2>3 DEF PoolInv, Phases
  <2>5. QED
    BY <1>1, <1>3, <2>2, <2>4 DEF OpenInv, DriverInv
<1>5. CASE OpenPhase(t)
  <2>1. /\ step \in {"admitted", "solved"} /\ step' \in {"turns", "commit"}
        /\ t \in Running /\ UNCHANGED future
    BY <1>5 DEF OpenPhase
  <2>2. registry["pool"] = <<>>
    BY <2>1 DEF OpenInv, PoolInv, Phases
  <2>3. /\ registry'["pool"] = <<<<t, step'>>>>
        /\ registry'["driver"] = registry["driver"]
    BY <1>0, <1>5, <2>2, OpenOnEmpty DEF OpenPhase
  <2>4. Running' = Running
    BY <2>1 DEF Running
  <2>5. PoolInv'
    BY <2>1, <2>3, <2>4 DEF OpenInv, PoolInv, Phases
  <2>6. QED
    BY <1>1, <1>3, <2>3, <2>5 DEF OpenInv, DriverInv
<1>6. ASSUME NEW phase \in Phases, NEW next \in {"admitted", "solved", "teardown"},
             NEW result, EndPhase(t, phase, next, result)
      PROVE  OpenInv'
  <2>1. /\ step = phase /\ step' = next /\ t \in Running /\ UNCHANGED future
        /\ SpanClose("pool", <<t, phase>>)
    BY <1>6 DEF EndPhase
  <2>2. registry["pool"] = <<<<t, phase>>>>
    BY <2>1 DEF OpenInv, PoolInv
  <2>3. registry'["pool"] = <<>> /\ registry'["driver"] = registry["driver"]
    BY <1>0, <2>1, <2>2, CloseTheOne
  <2>4. Running' = Running
    BY <2>1 DEF Running
  <2>5. PoolInv'
    BY <2>1, <2>3, <2>4 DEF OpenInv, PoolInv, Phases
  <2>6. QED
    BY <1>1, <1>3, <2>3, <2>5 DEF OpenInv, DriverInv
<1>7. CASE Admit(t) \/ Turns(t) \/ Commit(t)
  BY <1>6, <1>7 DEF Admit, Turns, Commit, Phases
<1>8. CASE Finish(t)
  <2>1. /\ step = "teardown" /\ step' = "idle" /\ t \in Running
        /\ registry' = registry
    BY <1>8 DEF Finish, ctxVars
  <2>2. answer # RunningNow
    BY <2>1, MarksAreMarks DEF TypeInv, AnswerInv
  <2>3. \A s \in Task : future'[s] = IF s = t THEN answer ELSE future[s]
    BY <1>8 DEF Finish, TypeInv, TypeOK
  <2>4. \A s \in Running : s = t
    BY <2>1 DEF OpenInv, PoolInv
  <2>5. Running' = {}
    BY <2>2, <2>3, <2>4 DEF Running
  <2>6. registry["pool"] = <<>>
    BY <2>1 DEF OpenInv, PoolInv, Phases
  <2>7. PoolInv'
    BY <2>1, <2>5, <2>6 DEF PoolInv, Phases
  <2>8. QED
    BY <1>1, <1>3, <2>1, <2>7 DEF OpenInv, DriverInv
<1>9. QED
  BY <1>4, <1>5, <1>7, <1>8 DEF Work

LEMMA OpenStep ==
    ASSUME TypeInv, WorkInv, OpenInv, [Next]_vars
    PROVE  OpenInv'
<1>1. CASE Driver
  BY <1>1, OpenDriverStep
<1>2. CASE \E t \in Task : Work(t)
  BY <1>2, OpenWorkStep
<1>3. CASE Crash
  <2>1. /\ UNCHANGED <<registry, step, future>> /\ pc' = "dead"
    BY <1>3 DEF Crash, ctxVars, poolVars
  <2>2. QED
    BY <2>1 DEF OpenInv, PoolInv, DriverInv, StoppedInv, Stopped, Running
<1>4. CASE RunAgain
  <2>1. /\ step' = "idle" /\ pc' = "enter"
        /\ \A t \in Task : future'[t] = New
    BY <1>4 DEF RunAgain
  <2>2. registry'["pool"] = <<>> /\ registry'["driver"] = <<>>
    BY <1>4, SpansAssumption DEF RunAgain
  <2>3. Running' = {}
    BY <2>1, MarksAreMarks DEF Running
  <2>4. QED
    BY <2>1, <2>2, <2>3 DEF OpenInv, PoolInv, DriverInv, StoppedInv, Stopped, Phases
<1>5. CASE UNCHANGED vars
  <2>1. UNCHANGED <<registry, records, json, pc, i, outcome, step, future>>
    BY <1>5 DEF vars, ctxVars, driverVars, poolVars
  <2>2. QED
    BY <2>1 DEF OpenInv, PoolInv, DriverInv, StoppedInv, Running, TimedOut
<1>6. QED
  BY <1>1, <1>2, <1>3, <1>4, <1>5 DEF Next

\* A run that gave up on no task is quiet once its context is stopped: no task
\* runs, no span is open, and the records the analyzers judge and the store
\* receives are those that were serialized.
THEOREM StoppedIsQuiet == Spec => []QuietAfterStop
<1>1. Init => TypeInv /\ WorkInv /\ OpenInv
  BY InitType, InitWork, InitOpen
<1>2. TypeInv /\ WorkInv /\ OpenInv /\ [Next]_vars => TypeInv' /\ WorkInv' /\ OpenInv'
  BY TypeStep, WorkStep, OpenStep
<1>3. TypeInv /\ WorkInv /\ OpenInv => QuietAfterStop
  <2> SUFFICES ASSUME TypeInv, WorkInv, OpenInv, pc \in Stopped, TimedOut = {}
               PROVE  Running = {} /\ AllActive = {} /\ json = records
    BY DEF QuietAfterStop, Stopped
  <2>1. i = NumTasks + 1 /\ json = records
    BY DEF OpenInv, StoppedInv
  <2>2. \A t \in Task : Done(t)
    BY <2>1, NothingLeft
  <2>3. Running = {}
    BY <2>2 DEF Running, Done, Waiting
  <2>4. registry["pool"] = <<>> /\ registry["driver"] = <<>>
    BY <2>3 DEF OpenInv, PoolInv, DriverInv, Stopped, Phases
  <2>5. DOMAIN <<>> = {}
    OBVIOUS
  <2>6. \A thread \in Thread : DOMAIN registry[thread] = {}
    BY <2>4, <2>5, SpansAssumption
  <2>7. AllActive = {}
    BY <2>6 DEF AllActive
  <2>8. QED
    BY <2>1, <2>3, <2>7
<1>4. QED
  BY <1>1, <1>2, <1>3, PTL DEF Spec

-------------------------------------------------------------------------------
(* What is stored.  persist_run writes over rows of an earlier attempt; the    *)
(* lemma says what it makes of the fields that the property reads.             *)

Fields == {"exists", "status", "total_tasks", "passed_tasks", "benchmark_id",
           "metadata", "task_results", "measurements", "spans", "verdicts",
           "artifacts"}
Shaped(r) == r = [field \in Fields |-> r[field]]

LEMMA NoRowsShaped ==
    /\ Shaped(NoRows)
    /\ NoRows.status = Null /\ DOMAIN NoRows.task_results = {}
<1>1. Shaped(NoRows) /\ NoRows.status = Null /\ NoRows.task_results = EmptyTable
  BY DEF NoRows, Shaped, Fields
<1>2. DOMAIN EmptyTable = {}
  BY DEF EmptyTable
<1>3. QED
  BY <1>1, <1>2

LEMMA PersistRunIs ==
    ASSUME NEW r, Shaped(r), NEW meta, NEW results, NEW measured, NEW traces,
           NEW judged, NEW files
    PROVE  LET p == persist_run(r, meta, results, measured, traces, judged, files)
           IN  /\ Shaped(p)
               /\ p.status = Coalesce(meta.status, r.status)
               /\ p.total_tasks = Coalesce(meta.total_tasks, r.total_tasks)
               /\ p.passed_tasks = Coalesce(meta.passed_tasks, r.passed_tasks)
               /\ p.task_results = Upsert(r.task_results, results)
               /\ p.measurements = Upsert(r.measurements, measured)
<1> DEFINE p1 == store_run_metadata(r, meta)
           p2 == store_task_results(p1, results)
           p3 == store_measurements(p2, measured)
           p4 == store_spans(p3, traces)
           p5 == store_analysis_results(p4, judged)
           p6 == store_artifacts(p5, files)
<1>1. /\ Shaped(p1)
      /\ p1.status = Coalesce(meta.status, r.status)
      /\ p1.total_tasks = Coalesce(meta.total_tasks, r.total_tasks)
      /\ p1.passed_tasks = Coalesce(meta.passed_tasks, r.passed_tasks)
      /\ p1.task_results = r.task_results /\ p1.measurements = r.measurements
  BY DEF Shaped, Fields, store_run_metadata
<1> HIDE DEF p1
<1>2. /\ Shaped(p2) /\ p2.task_results = Upsert(p1.task_results, results)
      /\ \A f \in {"status", "total_tasks", "passed_tasks", "measurements"} :
            p2[f] = p1[f]
  BY <1>1 DEF Shaped, Fields, store_task_results
<1> HIDE DEF p2
<1>3. /\ Shaped(p3) /\ p3.measurements = Upsert(p2.measurements, measured)
      /\ \A f \in {"status", "total_tasks", "passed_tasks", "task_results"} :
            p3[f] = p2[f]
  BY <1>2 DEF Shaped, Fields, store_measurements
<1> HIDE DEF p3
<1> DEFINE Kept == {"status", "total_tasks", "passed_tasks", "task_results",
                    "measurements"}
<1>4. Shaped(p4) /\ \A f \in Kept : p4[f] = p3[f]
  BY <1>3 DEF Shaped, Fields, store_spans
<1> HIDE DEF p4
<1>5. Shaped(p5) /\ \A f \in Kept : p5[f] = p4[f]
  BY <1>4 DEF Shaped, Fields, store_analysis_results
<1> HIDE DEF p5
<1>6. Shaped(p6) /\ \A f \in Kept : p6[f] = p5[f]
  BY <1>5 DEF Shaped, Fields, store_artifacts
<1> HIDE DEF p6
<1>7. /\ Shaped(p6)
      /\ p6.status = p1.status /\ p6.total_tasks = p1.total_tasks
      /\ p6.passed_tasks = p1.passed_tasks /\ p6.task_results = p2.task_results
      /\ p6.measurements = p3.measurements /\ p2.measurements = p1.measurements
  BY <1>2, <1>3, <1>4, <1>5, <1>6
<1>8. persist_run(r, meta, results, measured, traces, judged, files) = p6
  BY DEF p1, p2, p3, p4, p5, p6, persist_run
<1>9. QED
  BY <1>1, <1>2, <1>3, <1>7, <1>8

\* Every task before i has the records of its own span, but for the probes
\* that may fail.
RecordsInv ==
    \A t \in Task, p \in Probe \ FlakyProbe :
        t < i => <<p, <<t, "task">>>> \in records

RowsInv ==
    /\ Shaped(rows)
    /\ DOMAIN rows.task_results \subseteq Task
    /\ CompleteIsWhole

\* An attempt that stored its measurements stored those of every task.
MeasuredNow ==
    \A t \in Task, p \in Probe \ FlakyProbe :
        /\ <<p, <<t, "task">>>> \in DOMAIN rows.measurements
        /\ rows.measurements[<<p, <<t, "task">>>>] = attempt
NotNewer == \A t \in DOMAIN rows.task_results : rows.task_results[t].attempt \in 1 .. attempt
MeasuredInv ==
    "store" \notin Faults =>
        /\ pc \in {"analyze", "complete"} => MeasuredNow
        /\ NotNewer
        /\ ResultsHaveMeasurements

StoredInv == RecordsInv /\ RowsInv /\ MeasuredInv

LEMMA RecordsStep ==
    ASSUME TypeInv, RecordsInv, [Next]_vars
    PROVE  RecordsInv'
<1>1. CASE Account
  <2>1. PICK emitted \in SUBSET Probe :
            /\ Probe \ FlakyProbe \subseteq emitted
            /\ records' = records \cup (emitted \X {<<i, "task">>})
    BY <1>1 DEF Account, SpanClose
  <2>2. i' = i + 1 /\ i \in Int
    BY <1>1, IterationIsInt DEF Account
  <2>3. \A t \in Task : t < i' => t < i \/ t = i
    BY <2>2, TaskIsInt
  <2>4. QED
    BY <2>1, <2>3 DEF RecordsInv
<1>2. CASE RunAgain
  <2>1. i' = 1
    BY <1>2 DEF RunAgain
  <2>2. \A t \in Task : ~(t < 1)
    BY TasksAssumption DEF Task
  <2>3. QED
    BY <2>1, <2>2 DEF RecordsInv
<1>3. CASE UNCHANGED vars \/ (Driver /\ ~Account) \/ Crash
  BY <1>3 DEF vars, driverVars, ctxVars, Driver, Enter, Submit, Answered, TimesOut,
              Leave, PersistMeasurements, Analyze, PersistResults, Exit, Crash,
              RecordsInv
<1>4. CASE \E t \in Task : Work(t)
  <2>1. PICK t \in Task : Work(t)
    BY <1>4
  <2>2. records \subseteq records' /\ i' = i
    BY <2>1 DEF Work, Begin, Admit, OpenPhase, Turns, Commit, Finish, EndPhase,
                SpanClose, ctxVars, driverVars
  <2>3. QED
    BY <2>2 DEF RecordsInv
<1>5. QED
  BY <1>1, <1>2, <1>3, <1>4 DEF Next

\* The first transaction stores the records of every task and leaves results
\* and status alone.
LEMMA MeasurementsStored ==
    ASSUME TypeInv, StoppedInv, StoredInv, pc = "persist", attempt' = attempt,
           rows' = persist_run(rows, StartMetadata, EmptyTable, Stamp(records),
                               Stamp(step_traces), EmptyTable, EmptyTable)
    PROVE  /\ RowsInv' /\ MeasuredNow'
           /\ "store" \notin Faults => NotNewer' /\ ResultsHaveMeasurements'
<1>1. Shaped(rows)
  BY DEF StoredInv, RowsInv
<1>2. /\ Shaped(rows')
      /\ rows'.status = Coalesce(StartMetadata.status, rows.status)
      /\ rows'.total_tasks = Coalesce(StartMetadata.total_tasks, rows.total_tasks)
      /\ rows'.passed_tasks = Coalesce(StartMetadata.passed_tasks, rows.passed_tasks)
      /\ rows'.task_results = Upsert(rows.task_results, EmptyTable)
      /\ rows'.measurements = Upsert(rows.measurements, Stamp(records))
  BY <1>1, PersistRunIs
<1>3. /\ rows'.status = rows.status /\ rows'.total_tasks = rows.total_tasks
      /\ rows'.passed_tasks = rows.passed_tasks
  BY <1>2 DEF StartMetadata, Coalesce
<1>4. DOMAIN EmptyTable = {} /\ DOMAIN Stamp(records) = records
  BY DEF EmptyTable, Stamp
<1>5. /\ DOMAIN rows'.task_results = DOMAIN rows.task_results
      /\ \A t \in DOMAIN rows.task_results :
            rows'.task_results[t] = rows.task_results[t]
  BY <1>2, <1>4 DEF Upsert
<1>6. \A key \in records : /\ key \in DOMAIN rows'.measurements
                           /\ rows'.measurements[key] = attempt
  <2>1. \A key \in records : Stamp(records)[key] = attempt
    BY DEF Stamp
  <2>2. QED
    BY <1>2, <1>4, <2>1 DEF Upsert
<1>7. \A t \in Task : t < i
  BY TasksAssumption DEF StoppedInv, Stopped, Task
<1>8. MeasuredNow'
  BY <1>6, <1>7 DEF StoredInv, RecordsInv, MeasuredNow
<1>9. CompleteIsWhole'
  <2> SUFFICES ASSUME rows.status = "complete"
               PROVE  /\ DOMAIN rows'.task_results = Task
                      /\ rows'.total_tasks = NumTasks
                      /\ rows'.passed_tasks =
                            Cardinality({t \in Task : rows'.task_results[t].passed})
                      /\ \A s, t \in Task : rows'.task_results[s].attempt
                                                = rows'.task_results[t].attempt
    BY <1>3 DEF CompleteIsWhole
  <2>1. /\ DOMAIN rows.task_results = Task /\ rows.total_tasks = NumTasks
        /\ rows.passed_tasks = Cardinality({t \in Task : rows.task_results[t].passed})
        /\ \A s, t \in Task : rows.task_results[s].attempt = rows.task_results[t].attempt
    BY DEF StoredInv, RowsInv, CompleteIsWhole
  <2>2. \A t \in Task : rows'.task_results[t] = rows.task_results[t]
    BY <1>5, <2>1
  <2>3. {t \in Task : rows'.task_results[t].passed} =
        {t \in Task : rows.task_results[t].passed}
    BY <2>2
  <2>4. QED
    BY <1>3, <1>5, <2>1, <2>2, <2>3
<1>10. RowsInv'
  BY <1>2, <1>5, <1>9 DEF StoredInv, RowsInv
<1>11. ASSUME "store" \notin Faults
       PROVE  NotNewer' /\ ResultsHaveMeasurements'
  <2>1. NotNewer
    BY <1>11 DEF StoredInv, MeasuredInv
  <2>2. NotNewer'
    BY <1>5, <2>1 DEF NotNewer
  <2>3. attempt \in Int
    BY AttemptsAssumption DEF TypeInv, TypeOK
  <2>4. ASSUME NEW t \in DOMAIN rows'.task_results, NEW p \in Probe \ FlakyProbe
        PROVE  /\ <<p, <<t, "task">>>> \in DOMAIN rows'.measurements
               /\ rows'.measurements[<<p, <<t, "task">>>>] >= rows'.task_results[t].attempt
    <3>1. t \in Task
      BY <1>5, <2>4 DEF StoredInv, RowsInv
    <3>2. rows'.measurements[<<p, <<t, "task">>>>] = attempt
      BY <1>8, <2>4, <3>1 DEF MeasuredNow
    <3>3. rows'.task_results[t].attempt \in 1 .. attempt
      BY <2>2, <2>4 DEF NotNewer
    <3>4. QED
      BY <1>8, <2>3, <2>4, <3>1, <3>2, <3>3 DEF MeasuredNow
  <2>5. QED
    BY <2>2, <2>4 DEF ResultsHaveMeasurements
<1>12. QED
  BY <1>8, <1>10, <1>11

\* The second transaction stores a result for every task, of this attempt.
LEMMA ResultsStored ==
    ASSUME TypeInv, StoppedInv, CountInv, StoredInv, pc = "complete",
           attempt' = attempt,
           rows' = persist_run(rows, CompleteMetadata, TaskRows, EmptyTable,
                               EmptyTable, Stamp(analysis), EmptyTable)
    PROVE  /\ RowsInv'
           /\ "store" \notin Faults => NotNewer' /\ ResultsHaveMeasurements'
<1>1. Shaped(rows)
  BY DEF StoredInv, RowsInv
<1>2. /\ Shaped(rows')
      /\ rows'.total_tasks = Coalesce(CompleteMetadata.total_tasks, rows.total_tasks)
      /\ rows'.passed_tasks = Coalesce(CompleteMetadata.passed_tasks, rows.passed_tasks)
      /\ rows'.task_results = Upsert(rows.task_results, TaskRows)
      /\ rows'.measurements = Upsert(rows.measurements, EmptyTable)
  BY <1>1, PersistRunIs
<1>3. rows'.total_tasks = NumTasks /\ rows'.passed_tasks = passed
  <2>1. NumTasks # Null /\ passed # Null
    BY TasksAssumption, NullAssumption DEF TypeInv, TypeOK
  <2>2. /\ CompleteMetadata.total_tasks = NumTasks
        /\ CompleteMetadata.passed_tasks = passed
    BY DEF CompleteMetadata
  <2>3. QED
    BY <1>2, <2>1, <2>2 DEF Coalesce
<1>4. /\ DOMAIN rows'.task_results = Task
      /\ \A t \in Task : rows'.task_results[t] = [passed |-> Ok(t), attempt |-> attempt]
  <2>1. /\ DOMAIN TaskRows = Task
        /\ \A t \in Task : TaskRows[t] = [passed |-> Ok(t), attempt |-> attempt]
    BY DEF TaskRows
  <2>2. DOMAIN rows.task_results \subseteq Task
    BY DEF StoredInv, RowsInv
  <2>3. /\ DOMAIN rows'.task_results = DOMAIN TaskRows \cup DOMAIN rows.task_results
        /\ \A t \in DOMAIN TaskRows : rows'.task_results[t] = TaskRows[t]
    BY <1>2 DEF Upsert
  <2>4. QED
    BY <2>1, <2>2, <2>3
<1>5. /\ DOMAIN rows'.measurements = DOMAIN rows.measurements
      /\ \A key \in DOMAIN rows.measurements :
            rows'.measurements[key] = rows.measurements[key]
  <2>1. DOMAIN EmptyTable = {}
    BY DEF EmptyTable
  <2>2. QED
    BY <1>2, <2>1 DEF Upsert
<1>6. \A t \in Task : /\ rows'.task_results[t].passed = Ok(t)
                      /\ rows'.task_results[t].attempt = attempt
  <2> SUFFICES ASSUME NEW t \in Task
               PROVE  /\ rows'.task_results[t].passed = Ok(t)
                      /\ rows'.task_results[t].attempt = attempt
    OBVIOUS
  <2>1. rows'.task_results[t] = [passed |-> Ok(t), attempt |-> attempt]
    BY <1>4
  <2>2. /\ [passed |-> Ok(t), attempt |-> attempt].passed = Ok(t)
        /\ [passed |-> Ok(t), attempt |-> attempt].attempt = attempt
    BY Zenon
  <2>3. QED
    BY <2>1, <2>2, Zenon
<1>7. passed = Cardinality({t \in Task : rows'.task_results[t].passed})
  <2>1. 1 .. i - 1 = Task
    BY TasksAssumption DEF StoppedInv, Stopped, Task
  <2>2. {t \in 1 .. i - 1 : Ok(t)} = {t \in Task : rows'.task_results[t].passed}
    BY <1>6, <2>1
  <2>3. QED
    BY <2>2 DEF CountInv
<1>8. RowsInv'
  BY <1>2, <1>3, <1>4, <1>6, <1>7 DEF RowsInv, CompleteIsWhole
<1>9. ASSUME "store" \notin Faults
      PROVE  NotNewer' /\ ResultsHaveMeasurements'
  <2>1. attempt \in 1 .. attempt /\ attempt \in Int
    BY AttemptsAssumption DEF TypeInv, TypeOK
  <2>2. NotNewer'
    BY <1>4, <1>6, <2>1 DEF NotNewer
  <2>3. MeasuredNow
    BY <1>9 DEF StoredInv, MeasuredInv
  <2>4. QED
    BY <1>4, <1>5, <1>6, <2>1, <2>2, <2>3 DEF ResultsHaveMeasurements, MeasuredNow
<1>10. QED
  BY <1>8, <1>9

LEMMA StoredStep ==
    ASSUME TypeInv, StoppedInv, CountInv, StoredInv, [Next]_vars
    PROVE  StoredInv'
<1> DEFINE First ==
        /\ pc = "persist" /\ pc' = "analyze" /\ attempt' = attempt
        /\ rows' = persist_run(rows, StartMetadata, EmptyTable, Stamp(records),
                               Stamp(step_traces), EmptyTable, EmptyTable)
           Second ==
        /\ pc = "complete" /\ pc' = "returned" /\ attempt' = attempt
        /\ rows' = persist_run(rows, CompleteMetadata, TaskRows, EmptyTable,
                               EmptyTable, Stamp(analysis), EmptyTable)
           Neither ==
        /\ rows' = rows
        /\ attempt' \in {attempt, attempt + 1}
        /\ \/ pc' \notin {"analyze", "complete"} \/ "store" \in Faults
           \/ pc \in {"analyze", "complete"} /\ attempt' = attempt
<1>0. RecordsInv'
  BY RecordsStep DEF StoredInv
<1>1. CASE First
  BY <1>0, <1>1, MeasurementsStored DEF StoredInv, MeasuredInv
<1>2. CASE Second
  BY <1>0, <1>2, ResultsStored DEF StoredInv, MeasuredInv
<1>3. CASE Neither
  <2>1. RowsInv'
    BY <1>3 DEF StoredInv, RowsInv, CompleteIsWhole
  <2>2. ASSUME "store" \notin Faults
        PROVE  NotNewer' /\ ResultsHaveMeasurements'
    <3>1. attempt \in Int /\ NotNewer /\ ResultsHaveMeasurements
      BY <2>2, AttemptsAssumption DEF TypeInv, TypeOK, StoredInv, MeasuredInv
    <3>2. NotNewer'
      BY <1>3, <3>1 DEF NotNewer
    <3>3. ResultsHaveMeasurements'
      BY <1>3, <3>1 DEF ResultsHaveMeasurements
    <3>4. QED
      BY <3>2, <3>3
  <2>3. ASSUME "store" \notin Faults, pc' \in {"analyze", "complete"}
        PROVE  MeasuredNow'
    <3>1. MeasuredNow /\ attempt' = attempt /\ rows' = rows
      BY <1>3, <2>3 DEF StoredInv, MeasuredInv
    <3>2. QED
      BY <3>1 DEF MeasuredNow
  <2>4. QED
    BY <1>0, <2>1, <2>2, <2>3 DEF StoredInv, MeasuredInv
<1>4. CASE PersistMeasurements
  BY <1>1, <1>3, <1>4 DEF PersistMeasurements
<1>5. CASE PersistResults
  BY <1>2, <1>3, <1>5 DEF PersistResults
<1>6. CASE Enter \/ Submit \/ Answered \/ TimesOut \/ Account \/ Leave \/ Analyze
           \/ Exit \/ Crash \/ RunAgain
  BY <1>3, <1>6 DEF Enter, Submit, Answered, TimesOut, Account, Leave, Analyze,
                    Exit, Crash, RunAgain
<1>7. CASE \E t \in Task : Work(t)
  BY <1>3, <1>7 DEF Work, Begin, Admit, OpenPhase, Turns, Commit, Finish, EndPhase,
                    driverVars
<1>8. CASE UNCHANGED vars
  BY <1>3, <1>8 DEF vars, driverVars
<1>9. QED
  BY <1>4, <1>5, <1>6, <1>7, <1>8 DEF Next, Driver

LEMMA InitStored == Init => StoredInv
<1> SUFFICES ASSUME Init PROVE StoredInv
  OBVIOUS
<1>1. rows = NoRows /\ i = 1 /\ pc = "enter"
  BY DEF Init
<1>2. \A t \in Task : ~(t < i)
  BY <1>1, TasksAssumption DEF Task
<1>3. RecordsInv
  BY <1>2 DEF RecordsInv
<1>4. CompleteIsWhole
  BY <1>1, NoRowsShaped, NullAssumption DEF CompleteIsWhole
<1>5. RowsInv
  BY <1>1, <1>4, NoRowsShaped DEF RowsInv
<1>6. MeasuredInv
  BY <1>1, NoRowsShaped DEF MeasuredInv, NotNewer, ResultsHaveMeasurements
<1>7. QED
  BY <1>3, <1>5, <1>6 DEF StoredInv

\* A run that the store calls complete has all its results, of one attempt, and
\* no result is newer than the measurements of its task.
THEOREM StoredRunIsWhole == Spec => []StoredIsWhole
<1>1. Init => TypeInv /\ WorkInv /\ OpenInv /\ CountInv /\ StoredInv
  BY InitType, InitWork, InitOpen, InitStored, CountsOfNone DEF Init
<1>2. /\ TypeInv /\ WorkInv /\ OpenInv /\ CountInv /\ StoredInv /\ [Next]_vars
         => TypeInv' /\ WorkInv' /\ OpenInv' /\ CountInv' /\ StoredInv'
  BY TypeStep, WorkStep, OpenStep, CountStep, StoredStep DEF OpenInv
<1>3. StoredInv => StoredIsWhole
  <2>1. ASSUME StoredInv PROVE ResultsHaveMeasurements
    <3>1. CASE "store" \notin Faults
      BY <2>1, <3>1 DEF StoredInv, MeasuredInv
    <3>2. CASE "store" \in Faults
      BY <3>2 DEF ResultsHaveMeasurements
    <3>3. QED
      BY <3>1, <3>2
  <2>2. QED
    BY <2>1 DEF StoredIsWhole, StoredInv, RowsInv
<1>4. QED
  BY <1>1, <1>2, <1>3, PTL DEF Spec
===============================================================================
