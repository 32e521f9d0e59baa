-------------------------------- MODULE CellRuns ------------------------------
(***************************************************************************)
(* What a cell promises, whoever runs it: the sweeps of harbor, the density *)
(* script and the launcher of tau-bench.                                   *)
(***************************************************************************)
EXTENDS SweepRuns, DensityRuns, TauRuns

(* Cells: what is measured together starts together, is counted once and     *)
(* whole, and leaves nothing running.                                        *)
CellsWhole ==
    /\ SweepTypeOK /\ PointsHaveParents /\ SweepIsWhole /\ NoTrialsNoPoint
    /\ FirstSweepCountsItsOwn /\ EmonStopsWithCell
    /\ DensityTypeOK /\ StartTogether /\ LostOnlyIfKilled /\ DrainedIsWhole
    /\ EmonCoversAgents /\ CellsDoNotOverlap
    /\ TauTypeOK /\ OwnCallsRecorded /\ ArgvIsOwn /\ ForeignDataHasReason
    /\ LauncherCleansUp
===============================================================================
