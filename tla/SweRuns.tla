------------------------------- MODULE SweRuns -------------------------------
(***************************************************************************)
(* Runs of the SWE-bench adapter (benchmarks/swe_bench): threads that share *)
(* one adapter, its LatencyRecorder and the predictions file, each with a  *)
(* list of instances.  An instance gets a container; whatever happens in   *)
(* it, the finally of _run_mswa_instance ends the record, writes the       *)
(* prediction and removes the container, in this order.  The process may   *)
(* be killed and run again with the same output directory.                 *)
(*                                                                         *)
(* mini-swe-agent and docker are external: an agent makes calls and ends   *)
(* with a status and a submission, or raises.                              *)
(***************************************************************************)
EXTENDS Integers, Sequences, FiniteSets

CONSTANTS
    SweThreads,   \* threads that call run_task
    SwePlans,     \* thread -> the instances it runs, in order
    MaxSweCalls,  \* bound on the calls of an instance
    MaxSweFaults  \* errors of the environment, of the output directory, kills

Instances == UNION {{q[k] : k \in DOMAIN q} :
                    q \in UNION {{w[t] : t \in SweThreads} : w \in SwePlans}}

\* No two threads are given the same instance.
ASSUME SweAssumption ==
    /\ MaxSweCalls \in Nat /\ MaxSweFaults \in Nat
    /\ "free" \notin SweThreads
    /\ \A w \in SwePlans : \A t \in SweThreads : w[t] \in Seq(Instances)
    /\ \A w \in SwePlans : \A t, u \in SweThreads :
          t # u => {w[t][k] : k \in DOMAIN w[t]} \cap {w[u][k] : k \in DOMAIN w[u]} = {}

\* How an attempt ends: the exit status, and whether the patch has more than 10 characters.
SweEndings == [status : {"submitted", "limits", "error"}, patch : {"long", "short"}]
Unfinished == [status |-> "none", patch |-> "short"]

VARIABLES
    swe,          \* thread -> its step, its instances, how the attempt ended, ...
    sweData,      \* the recorder: instance -> the calls it recorded
    preds,        \* preds.json: [torn, of: instance -> patch]
    predsLock,    \* the thread in _update_preds, or "free"
    sweContainers, \* the containers that run: <<process, thread, instance>>
    sweResults,   \* instance -> its last result: [passed, made, calls]
    sweProcess,   \* how often the process has started
    spilled,      \* history: containers whose finally did not come to its end
    sweFaults

sweVars == <<swe, sweData, preds, predsLock, sweContainers, sweResults, sweProcess, spilled,
             sweFaults>>

SweAt(t, step) == swe[t].pc = step
Instance(t) == Head(swe[t].todo)
Container(t) == <<sweProcess, t, Instance(t)>>
TurnOf(t, i) == swe[t].todo # <<>> /\ Instance(t) = i
SweFault == sweFaults < MaxSweFaults /\ sweFaults' = sweFaults + 1

NewThread(todo) ==
    [pc |-> IF todo = <<>> THEN "done" ELSE "start", todo |-> todo, calls |-> 0,
     env |-> FALSE, end |-> Unfinished, read |-> <<>>]

SweTypeOK ==
    /\ \A t \in SweThreads :
           /\ swe[t].pc \in {"start", "env", "agent", "finally", "write",
                             "cleanup", "result", "done"}
           /\ swe[t].end \in SweEndings \cup {Unfinished}
           /\ swe[t].calls \in 0 .. MaxSweCalls
    /\ DOMAIN sweData \subseteq Instances /\ DOMAIN preds.of \subseteq Instances
    /\ predsLock \in SweThreads \cup {"free"}
    /\ \A t \in SweThreads : SweAt(t, "write") <=> predsLock = t

SweFrom(lists) ==
    /\ swe = [t \in SweThreads |-> NewThread(lists[t])]
    /\ sweData = <<>>
    /\ preds = [torn |-> FALSE, of |-> <<>>]
    /\ predsLock = "free" /\ sweContainers = {} /\ sweResults = <<>>
    /\ sweProcess = 1 /\ spilled = {} /\ sweFaults = 0

SweInit == \E lists \in SwePlans : SweFrom(lists)

SweWith(f, key, value) == [k \in DOMAIN f \cup {key} |-> IF k = key THEN value ELSE f[k]]
SweGoes(t, step) == swe' = [swe EXCEPT ![t].pc = step]

-------------------------------------------------------------------------------
Bug_KeepsEntry(t) ==
    /\ SweAt(t, "start")
    /\ sweData' = IF Instance(t) \in DOMAIN sweData THEN sweData
                  ELSE SweWith(sweData, Instance(t), 0)
    /\ SweGoes(t, "env")
    /\ UNCHANGED <<preds, predsLock, sweContainers, sweResults, sweProcess, spilled, sweFaults>>

(* start_instance: the entry of an earlier attempt is replaced.             *)
StartInstance(t) ==
    /\ SweAt(t, "start")
    /\ sweData' = SweWith(sweData, Instance(t), 0)
    /\ SweGoes(t, "env")
    /\ UNCHANGED <<preds, predsLock, sweContainers, sweResults, sweProcess, spilled, sweFaults>>

Raise(t) ==
    /\ SweFault
    /\ swe' = [swe EXCEPT ![t].pc = "finally", ![t].end = [status |-> "error", patch |-> "short"]]

\* The model's class or the environment's constructor raises: there is no env.
NoEnvironment(t) ==
    /\ SweAt(t, "env") /\ Raise(t)
    /\ UNCHANGED <<sweData, preds, predsLock, sweContainers, sweResults, sweProcess, spilled>>

(* The environment's constructor starts the container.                      *)
Environment(t) ==
    /\ SweAt(t, "env")
    /\ sweContainers' = sweContainers \cup {Container(t)}
    /\ swe' = [swe EXCEPT ![t].pc = "agent", ![t].env = TRUE]
    /\ UNCHANGED <<sweData, preds, predsLock, sweResults, sweProcess, spilled, sweFaults>>

(* TimedModel.query and TimedEnvironment.execute: record_llm, record_tool.  *)
RecordCall(t) ==
    /\ SweAt(t, "agent") /\ swe[t].calls < MaxSweCalls
    /\ swe' = [swe EXCEPT ![t].calls = @ + 1]
    /\ sweData' = [sweData EXCEPT ![Instance(t)] = @ + 1]
    /\ UNCHANGED <<preds, predsLock, sweContainers, sweResults, sweProcess, spilled, sweFaults>>

AgentEnds(t, end) ==
    /\ SweAt(t, "agent") /\ end.status # "error"
    /\ swe' = [swe EXCEPT ![t].pc = "finally", ![t].end = end]
    /\ UNCHANGED <<sweData, preds, predsLock, sweContainers, sweResults, sweProcess, spilled,
                   sweFaults>>

\* The startup command fails, the agent cannot be built, or it raises.
AgentRaises(t) ==
    /\ SweAt(t, "agent") /\ Raise(t)
    /\ UNCHANGED <<sweData, preds, predsLock, sweContainers, sweResults, sweProcess, spilled>>

-------------------------------------------------------------------------------
Kept == IF preds.torn THEN <<>> ELSE preds.of

Bug_NoPredsLock(t) ==
    /\ SweAt(t, "finally")
    /\ predsLock' = predsLock
    /\ swe' = [swe EXCEPT ![t].pc = "write", ![t].read = Kept]
    /\ UNCHANGED <<sweData, preds, sweContainers, sweResults, sweProcess, spilled, sweFaults>>

(* The finally: _update_preds reads the file, an unreadable one as empty, ... *)
ReadPreds(t) ==
    /\ SweAt(t, "finally") /\ predsLock = "free"
    /\ predsLock' = t
    /\ swe' = [swe EXCEPT ![t].pc = "write", ![t].read = Kept]
    /\ UNCHANGED <<sweData, preds, sweContainers, sweResults, sweProcess, spilled, sweFaults>>

Bug_KeepsPrediction(t) ==
    /\ SweAt(t, "write")
    /\ preds' = [torn |-> FALSE,
                 of |-> IF Instance(t) \in DOMAIN swe[t].read THEN swe[t].read
                        ELSE SweWith(swe[t].read, Instance(t), swe[t].end.patch)]
    /\ predsLock' = "free"
    /\ swe' = [swe EXCEPT ![t].pc = "cleanup", ![t].read = <<>>]
    /\ UNCHANGED <<sweData, sweContainers, sweResults, sweProcess, spilled, sweFaults>>

(* ... and writes it with the instance's patch.                             *)
WritePreds(t) ==
    /\ SweAt(t, "write")
    /\ preds' = [torn |-> FALSE, of |-> SweWith(swe[t].read, Instance(t), swe[t].end.patch)]
    /\ predsLock' = "free"
    /\ swe' = [swe EXCEPT ![t].pc = "cleanup", ![t].read = <<>>]
    /\ UNCHANGED <<sweData, sweContainers, sweResults, sweProcess, spilled, sweFaults>>

\* The output directory cannot be written: before the file is touched, or when it
\* has been truncated.  The exception leaves the finally, and run_task answers with it.
WriteFails(t, torn) ==
    /\ SweAt(t, "write") /\ SweFault
    /\ preds' = IF torn THEN [torn |-> TRUE, of |-> <<>>] ELSE preds
    /\ predsLock' = "free"
    /\ spilled' = spilled \cup {c \in {Container(t)} : swe[t].env}
    /\ swe' = [swe EXCEPT ![t].pc = "result", ![t].read = <<>>,
                          ![t].end = [status |-> "error", patch |-> "short"]]
    /\ UNCHANGED <<sweData, sweContainers, sweResults, sweProcess>>

Bug_CleanupIfOk(t) ==
    /\ SweAt(t, "cleanup")
    /\ sweContainers' = IF swe[t].end.status = "error" THEN sweContainers
                        ELSE sweContainers \ {Container(t)}
    /\ SweGoes(t, "result")
    /\ UNCHANGED <<sweData, preds, predsLock, sweResults, sweProcess, spilled, sweFaults>>

(* env.cleanup; without an env the NameError is swallowed.                  *)
Cleanup(t) ==
    /\ SweAt(t, "cleanup")
    /\ sweContainers' = sweContainers \ {Container(t)}
    /\ SweGoes(t, "result")
    /\ UNCHANGED <<sweData, preds, predsLock, sweResults, sweProcess, spilled, sweFaults>>

HasPatch(end) == end.patch = "long"
SwePassed(end) == end.status = "submitted" /\ HasPatch(end)
(* The result of the attempt.                                               *)
SweResult(t) ==
    /\ SweAt(t, "result")
    /\ LET end == swe[t].end
       IN  sweResults' = SweWith(sweResults, Instance(t),
               [passed |-> SwePassed(end), made |-> swe[t].calls, calls |-> sweData[Instance(t)]])
    /\ swe' = [swe EXCEPT ![t] = NewThread(Tail(@.todo))]
    /\ UNCHANGED <<sweData, preds, predsLock, sweContainers, sweProcess, spilled, sweFaults>>

(* The process is killed and run again: `resume` is not read, so that every *)
(* instance is run again.  A write is cut when one was going on.            *)
SweRestart ==
    /\ SweFault /\ sweProcess = 1
    /\ sweProcess' = 2
    /\ \E lists \in SwePlans : swe' = [t \in SweThreads |-> NewThread(lists[t])]
    /\ preds' = IF predsLock = "free" THEN preds ELSE [torn |-> TRUE, of |-> <<>>]
    /\ predsLock' = "free"
    /\ spilled' = spilled \cup sweContainers
    /\ sweData' = <<>> /\ sweResults' = <<>>
    /\ UNCHANGED sweContainers

SweThreadStep(t) ==
    \/ StartInstance(t) \/ NoEnvironment(t) \/ Environment(t) \/ RecordCall(t) \/ AgentRaises(t)
    \/ \E end \in SweEndings : AgentEnds(t, end)
    \/ ReadPreds(t) \/ WritePreds(t)
    \/ \E torn \in BOOLEAN : WriteFails(t, torn)
    \/ Cleanup(t) \/ SweResult(t)

SweNext == SweRestart \/ \E t \in SweThreads : SweThreadStep(t)

SweSpec == SweInit /\ [][SweNext]_sweVars

-------------------------------------------------------------------------------
(* A prediction stays in preds.json while other instances are written,      *)
(* whatever their threads do, until a write of the file is cut:             *)
(* _update_preds.                                                           *)
PredictionsStay ==
    [DOMAIN preds.of \subseteq DOMAIN preds'.of \/ preds'.torn]_preds

(* An instance that the process last reported as passed has its patch in the *)
(* file, until a write is cut: also when it had an earlier prediction.      *)
PassedIsPredicted ==
    \A i \in DOMAIN sweResults :
        (sweResults[i].passed /\ ~preds.torn /\ \A t \in SweThreads : ~TurnOf(t, i))
            => i \notin DOMAIN preds.of \/ preds.of[i] = "long"

(* The latencies of a result are those of its own attempt, whether or not   *)
(* the instance ran before in the process: start_instance.                  *)
LatenciesOfAttempt == \A i \in DOMAIN sweResults : sweResults[i].calls = sweResults[i].made

(* A container outlives its attempt only when the finally was cut: by a kill *)
(* or by an output directory that cannot be written.                        *)
ContainersRemoved ==
    \A c \in sweContainers \ spilled :
        /\ c[1] = sweProcess /\ TurnOf(c[2], c[3])
        /\ swe[c[2]].pc \notin {"start", "result"}
===============================================================================
