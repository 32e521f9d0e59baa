------------------------------- MODULE SweepRuns -------------------------------
(***************************************************************************)
(* Concurrency sweeps over Harbor (sweep/harbor_sweep.py, sweep/spec.py):  *)
(* one cell after the other, each with a telemetry collection, a replay    *)
(* proxy and a run of the harbor command, whose trials are then collected  *)
(* from the directory of the cell.  Sweeps follow each other over the same *)
(* output directory and the same store.                                    *)
(***************************************************************************)
EXTENDS Integers, Sequences

CONSTANTS
    SweepIds,
    CellCount,       \* densities x replicates, in the order of the runs
    TrialCount,      \* trials in a cell: tasks x attempts
    MaxSweeps,       \* bound on the sweeps started
    MaxSweepFaults   \* bound on crashes and on what fails

ASSUME SweepAssumption ==
    /\ CellCount \in Nat \ {0} /\ TrialCount \in Nat \ {0}
    /\ MaxSweeps \in Nat /\ MaxSweepFaults \in Nat

VARIABLES
    sweep,         \* the sweep that runs: where it is
    trials,        \* per cell directory, the trials on disk: how many the last sweep
                   \* that ran the cell left there, and how many the ones before it
    collecting,    \* the cells, <<sweep, cell>>, whose EMON collection goes on
    sweepRows,     \* the sweeps table: id -> what its data is labelled as
    sweepRuns,     \* ids with a row in the runs table
    sweepPoints,   \* the sweep_points table: <<id, cell>> -> point
    verdicts,      \* id -> the points its stored verdict was computed from
    launches,      \* history: the sweeps started, by id
    abandoned,     \* history: the cells left collecting because their EMON start or stop
                   \* raised, or because the sweep was killed or raised at them
    sweepFaults

sweepVars == <<sweep, trials, collecting, sweepRows, sweepRuns, sweepPoints, verdicts,
               launches, abandoned, sweepFaults>>
store == <<sweepRows, sweepRuns, sweepPoints, verdicts>>
history == <<launches, abandoned>>

NumberedCells == 1 .. CellCount
NoSweep == [pc |-> "none", id |-> "none", cell |-> 0, dry |-> FALSE, emon |-> FALSE,
            made |-> <<>>]
Launches == Len(launches)
ThisCell == <<Launches, sweep.cell>>
Once(id) == \E i \in DOMAIN launches : {j \in DOMAIN launches : launches[j] = id} = {i}

\* f with x |-> v.
With(f, x, v) == [y \in DOMAIN f \cup {x} |-> IF y = x THEN v ELSE f[y]]

SweepInit ==
    /\ sweep = NoSweep /\ collecting = {}
    /\ trials = [c \in NumberedCells |-> [by |-> 0, n |-> 0, before |-> 0]]
    /\ sweepRows = <<>> /\ sweepRuns = {} /\ sweepPoints = <<>> /\ verdicts = <<>>
    /\ launches = <<>> /\ abandoned = {} /\ sweepFaults = 0

Measuring == sweep.pc \in {"harbor", "collect"}
Fault == sweepFaults < MaxSweepFaults /\ sweepFaults' = sweepFaults + 1

\* run: the sweep's metadata, labelled, and its parent row, before any cell.
StartSweep ==
    /\ sweep.pc = "none" /\ Launches < MaxSweeps
    /\ \E id \in SweepIds, dry \in BOOLEAN :
           /\ sweepRows' = With(sweepRows, id, IF dry THEN "synthetic" ELSE "measured")
           /\ sweepRuns' = sweepRuns \cup {id}
           /\ sweep' = [NoSweep EXCEPT !.pc = "cell", !.id = id, !.cell = 1, !.dry = dry]
           /\ launches' = Append(launches, id)
    /\ UNCHANGED <<trials, collecting, sweepPoints, verdicts, abandoned, sweepFaults>>

\* _run_cell starts EMON, which may be missing or fail: the cell runs without it, and
\* does not stop what a start that raised may have left collecting.
StartCell ==
    /\ sweep.pc = "cell" /\ ~sweep.dry
    /\ \E on \in BOOLEAN :
           /\ sweep' = [sweep EXCEPT !.pc = "harbor", !.emon = on]
           /\ \/ /\ on /\ collecting' = collecting \cup {ThisCell}
                 /\ UNCHANGED abandoned
              \/ ~on /\ UNCHANGED <<collecting, abandoned>>
              \/ /\ ~on /\ collecting' = collecting \cup {ThisCell}
                 /\ abandoned' = abandoned \cup {ThisCell}
    /\ UNCHANGED <<trials, store, launches, sweepFaults>>

\* The sweep ends by an exception, of the proxy, of the harbor command or its
\* timeout: the proxy is stopped on the way out, EMON is not.
Propagate ==
    /\ Fault
    /\ sweep' = NoSweep
    /\ abandoned' = abandoned \cup ({ThisCell} \cap collecting)
    /\ UNCHANGED <<collecting, store, launches>>

\* _harbor_run: trials complete one by one until the command exits, whatever its
\* exit code, or is given up.
HarborRun ==
    /\ sweep.pc = "harbor"
    /\ \E n \in 0 .. TrialCount :
           trials' = [trials EXCEPT ![sweep.cell] =
                         [by |-> Launches, n |-> n, before |-> @.before + @.n]]
    /\ \/ /\ sweep' = [sweep EXCEPT !.pc = "collect"]
          /\ UNCHANGED <<collecting, sweepFaults, store, history>>
       \/ Propagate

Bug_FirstJob(cell) ==
    IF trials[cell].before > 0 THEN trials[cell].before ELSE trials[cell].n

\* _collect_task_phases: every trial of every job in the directory of the cell.
CollectedTrials(cell) == trials[cell].before + trials[cell].n
OwnTrials(cell) == IF trials[cell].by = Launches THEN trials[cell].n ELSE 0

MeasuredPoint ==
    [source |-> "measured", by |-> Launches, completed |-> CollectedTrials(sweep.cell),
     own |-> OwnTrials(sweep.cell)]
Bug_Unlabelled ==
    [source |-> "measured", by |-> Launches, completed |-> TrialCount, own |-> TrialCount]
SyntheticPoint ==
    [source |-> "synthetic", by |-> Launches, completed |-> TrialCount, own |-> TrialCount]

Bug_EmptyCellCounts == FALSE
CellFails == CollectedTrials(sweep.cell) = 0

\* emon.stop(), of the collection this cell started: an exception of it is logged,
\* and the cell goes on whether EMON stopped or not.
StopEmonOfCell ==
    \/ /\ collecting' = IF sweep.emon THEN collecting \ {ThisCell} ELSE collecting
       /\ UNCHANGED abandoned
    \/ /\ sweep.emon
       /\ abandoned' = abandoned \cup {ThisCell}
       /\ UNCHANGED collecting

Bug_RaisesFirst ==
    /\ sweep.pc = "collect"
    /\ IF CellFails THEN UNCHANGED <<collecting, abandoned>> ELSE StopEmonOfCell
    /\ sweep' = IF CellFails THEN NoSweep
                ELSE [sweep EXCEPT !.pc = "store", !.emon = FALSE,
                                   !.made = Append(@, MeasuredPoint)]
    /\ UNCHANGED <<trials, store, launches, sweepFaults>>

\* After the harbor command EMON is stopped; only then is a cell without a trial an
\* error, which ends the sweep.
CollectCell ==
    /\ sweep.pc = "collect"
    /\ StopEmonOfCell
    /\ sweep' = IF CellFails THEN NoSweep
                ELSE [sweep EXCEPT !.pc = "store", !.emon = FALSE,
                                   !.made = Append(@, MeasuredPoint)]
    /\ UNCHANGED <<trials, store, launches, sweepFaults>>

DryCell ==
    /\ sweep.pc = "cell" /\ sweep.dry
    /\ sweep' = [sweep EXCEPT !.pc = "store", !.made = Append(@, SyntheticPoint)]
    /\ UNCHANGED <<trials, collecting, store, history, sweepFaults>>

Bug_PointFirst(key) == UNCHANGED sweepRuns

\* _ensure_run_row of the cell, before the point that refers to it.
EnsureRunRow(key) == sweepRuns' = sweepRuns \cup {key}

Bug_OneCellMore == sweep.cell > CellCount
LastCell == sweep.cell = CellCount

\* A write that fails is logged, and the sweep goes on.
StoreCell ==
    /\ sweep.pc = "store"
    /\ LET key == <<sweep.id, sweep.cell>>
       IN  /\ EnsureRunRow(key)
           /\ \/ /\ sweepPoints' = With(sweepPoints, key, sweep.made[sweep.cell])
                 /\ UNCHANGED sweepFaults
              \/ Fault /\ UNCHANGED sweepPoints
    /\ sweep' = IF LastCell THEN [sweep EXCEPT !.pc = "analyze"]
                ELSE [sweep EXCEPT !.pc = "cell", !.cell = @ + 1]
    /\ UNCHANGED <<trials, collecting, sweepRows, verdicts, history>>

Bug_DryIsNotAnalyzed ==
    /\ sweep.pc = "analyze" /\ ~sweep.dry
    /\ verdicts' = With(verdicts, sweep.id, sweep.made)
    /\ sweep' = NoSweep
    /\ UNCHANGED <<trials, collecting, sweepRows, sweepRuns, sweepPoints, history, sweepFaults>>

\* The verdict is computed from the points this sweep made.
AnalyzeSweep ==
    /\ sweep.pc = "analyze"
    /\ verdicts' = With(verdicts, sweep.id, sweep.made)
    /\ sweep' = NoSweep
    /\ UNCHANGED <<trials, collecting, sweepRows, sweepRuns, sweepPoints, history, sweepFaults>>

\* The process is killed; EMON, a process of its own, goes on.
KillSweep ==
    /\ sweep.pc # "none" /\ Fault
    /\ sweep' = NoSweep
    /\ abandoned' = IF Measuring THEN abandoned \cup ({ThisCell} \cap collecting)
                    ELSE abandoned
    /\ UNCHANGED <<trials, collecting, store, launches>>

SweepSteps == StartCell \/ HarborRun \/ CollectCell \/ DryCell \/ StoreCell \/ AnalyzeSweep
SweepRunsNext == StartSweep \/ SweepSteps \/ KillSweep

\* A sweep that has started goes on: the harbor command has a timeout.
SweepRunsSpec == SweepInit /\ [][SweepRunsNext]_sweepVars /\ WF_sweepVars(SweepSteps)

-------------------------------------------------------------------------------
(* Properties. *)

SweepTypeOK ==
    /\ sweep.pc \in {"none", "cell", "harbor", "collect", "store", "analyze"}
    /\ sweep.cell \in 0 .. CellCount /\ Len(sweep.made) <= CellCount
    /\ DOMAIN sweepRows \subseteq SweepIds /\ DOMAIN verdicts \subseteq SweepIds
    /\ DOMAIN sweepPoints \subseteq SweepIds \X NumberedCells

\* Every point, and every verdict, refers to rows that are there before it is, so
\* that a foreign key never refuses it, wherever a sweep is cut short.
PointsHaveParents ==
    /\ \A key \in DOMAIN sweepPoints : key \in sweepRuns /\ key[1] \in DOMAIN sweepRows
    /\ DOMAIN verdicts \subseteq sweepRuns

\* A sweep id used once holds only points of the kind its row is labelled with, and
\* its verdict, if any, is that of all its cells, as they are stored.
SweepIsWhole ==
    \A id \in SweepIds : Once(id) =>
        /\ \A c \in NumberedCells : <<id, c>> \in DOMAIN sweepPoints =>
               sweepPoints[<<id, c>>].source = sweepRows[id]
        /\ id \in DOMAIN verdicts =>
               /\ Len(verdicts[id]) = CellCount
               /\ \A c \in NumberedCells :
                      IF <<id, c>> \in DOMAIN sweepPoints
                      THEN sweepPoints[<<id, c>>] = verdicts[id][c]
                      ELSE sweepFaults > 0

\* A cell of which no trial is found makes no point: the sweep stops there, and no
\* later cell is measured.
NoTrialsNoPoint ==
    \A key \in DOMAIN sweepPoints : sweepPoints[key].completed > 0

\* A point never counts fewer trials than its harbor run completed, and no more in
\* the first sweep over an output directory.
FirstSweepCountsItsOwn ==
    \A key \in DOMAIN sweepPoints :
        LET p == sweepPoints[key]
        IN  p.own <= p.completed /\ (p.by = 1 => p.own = p.completed)

\* EMON collects for a cell that is over, into later cells and after the sweep, only
\* where its own start or stop raised, or where the sweep was killed, or ended by the
\* proxy or the harbor command, in that very cell; a cell without a trial is no excuse.
EmonStopsWithCell ==
    \A k \in collecting : \/ k \in abandoned
                          \/ Measuring /\ sweep.emon /\ k = ThisCell

\* A sweep that started ends.
SweepsEnd == []<>(sweep.pc = "none")
===============================================================================
