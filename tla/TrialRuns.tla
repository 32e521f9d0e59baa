------------------------------- MODULE TrialRuns ------------------------------
(***************************************************************************)
(* What an agent and a task promise together: the replay proxy with the     *)
(* agents in front of it, and the tasks of terminal-bench.                 *)
(***************************************************************************)
EXTENDS ReplayRuns, TaskRuns

(* Agents: recorded replies are kept and repeated, each task runs in its own *)
(* container, and a verdict is the tests'.                                   *)
TrialsFaithful ==
    /\ ReplayTypeOK /\ SpansClosed /\ AnswersAreRecorded /\ SameTrajectory
    /\ RecordedIsKept /\ MissCostsOneTurn
    /\ TaskTypeOK /\ OwnContainer /\ NothingLeftRunning /\ VerdictNotInvented
    /\ PulledImagesStay
===============================================================================
