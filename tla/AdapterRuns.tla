------------------------------ MODULE AdapterRuns ------------------------------
(***************************************************************************)
(* The adapters whose threads or tasks share something, side by side: the  *)
(* SWE-bench adapter, the six phases and the vLLM server.                  *)
(***************************************************************************)
EXTENDS SweRuns, PhaseRuns, ServerRuns

(* What the adapters' threads share is built once and given back, and a     *)
(* result says what happened in its own attempt and on its own server.      *)
AdaptersKeep ==
    /\ SweTypeOK /\ PassedIsPredicted /\ LatenciesOfAttempt /\ ContainersRemoved
    /\ PhaseTypeOK /\ ReplicasConserved /\ BuiltOnce /\ IndexAloneIsLocked
    /\ WarmLoopsRetrieve /\ PhasesAllRun
    /\ ServerTypeOK /\ NoServerLeft /\ StarterIsMeasured
================================================================================
