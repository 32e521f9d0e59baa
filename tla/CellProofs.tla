------------------------------ MODULE CellProofs -------------------------------
(***************************************************************************)
(* Proofs about the cells of CellRuns: the sweep, the density script and   *)
(* the launcher of tau-bench each have an inductive invariant of their own, *)
(* for they share no variable.                                             *)
(***************************************************************************)
EXTENDS CellRuns, SequenceTheorems, WellFoundedInduction, TLAPS

-------------------------------------------------------------------------------
(* The sweeps of harbor.                                                    *)

Label(dry) == IF dry THEN "synthetic" ELSE "measured"
Launched(id) == \E i \in DOMAIN launches : launches[i] = id

SweepPoint == [source : {"measured", "synthetic"}, by : Nat, completed : Nat, own : Nat]
PointOK(p) == p.completed > 0 /\ p.own <= p.completed /\ (p.by = 1 => p.own = p.completed)

\* How many cells the sweep has made a point of, and which it has tried to store.
Made == CASE sweep.pc \in {"cell", "harbor", "collect"} -> sweep.cell - 1
          [] sweep.pc = "store" -> sweep.cell
          [] sweep.pc = "analyze" -> CellCount
          [] OTHER -> 0
Stored(c) == c < sweep.cell \/ sweep.pc = "analyze"

SweepShapeInv ==
    /\ sweep.pc \in {"none", "cell", "harbor", "collect", "store", "analyze"}
    /\ sweep = [pc |-> sweep.pc, id |-> sweep.id, cell |-> sweep.cell, dry |-> sweep.dry,
                emon |-> sweep.emon, made |-> sweep.made]
    /\ sweep.dry \in BOOLEAN /\ sweep.emon \in BOOLEAN
    /\ IF sweep.pc = "none" THEN sweep = NoSweep ELSE sweep.cell \in NumberedCells
    /\ sweep.pc = "analyze" => sweep.cell = CellCount
    /\ sweep.made \in Seq(SweepPoint) /\ Len(sweep.made) = Made
    /\ trials \in [NumberedCells -> [by : Nat, n : Nat, before : Nat]]
    /\ sweepFaults \in Nat
    /\ launches \in Seq(SweepIds)
    /\ DOMAIN sweepRows \subseteq SweepIds
    /\ DOMAIN sweepPoints \subseteq SweepIds \X NumberedCells
    /\ DOMAIN verdicts \subseteq SweepIds

SweepRowsInv ==
    /\ PointsHaveParents
    /\ \A id \in DOMAIN verdicts : Launched(id)
    /\ \A key \in DOMAIN sweepPoints : Launched(key[1]) /\ PointOK(sweepPoints[key])
    /\ \A key \in DOMAIN sweepPoints : sweepPoints[key] \in SweepPoint

\* The sweep that runs is the last that was started.
SweepCurrentInv ==
    sweep.pc # "none" =>
        /\ sweep.id \in SweepIds /\ launches # <<>> /\ launches[Len(launches)] = sweep.id
        /\ sweep.id \in sweepRuns /\ sweep.id \in DOMAIN sweepRows
        /\ sweepRows[sweep.id] = Label(sweep.dry)
        /\ sweep.pc \in {"harbor", "collect"} => ~sweep.dry
        /\ \A k \in DOMAIN sweep.made :
               PointOK(sweep.made[k]) /\ sweep.made[k].source = Label(sweep.dry)

\* In the first sweep no cell has trials before it has run.
SweepTrialsInv ==
    \A c \in NumberedCells :
        Launches <= 1 /\ (Launches = 1 => sweep.pc # "none") =>
            /\ trials[c].before = 0
            /\ trials[c].n # 0 => trials[c].by = 1
            /\ \/ Launches = 0 \/ c > sweep.cell
               \/ c = sweep.cell /\ sweep.pc \in {"cell", "harbor"}
               => trials[c].n = 0

SweepOnceInv ==
    \A id \in SweepIds : Once(id) =>
        IF sweep.pc # "none" /\ sweep.id = id
        THEN /\ id \notin DOMAIN verdicts
             /\ \A c \in NumberedCells :
                    /\ <<id, c>> \in DOMAIN sweepPoints =>
                           Stored(c) /\ sweepPoints[<<id, c>>] = sweep.made[c]
                    /\ Stored(c) => <<id, c>> \in DOMAIN sweepPoints \/ sweepFaults > 0
        ELSE /\ \A c \in NumberedCells : <<id, c>> \in DOMAIN sweepPoints =>
                    sweepPoints[<<id, c>>].source = sweepRows[id]
             /\ id \in DOMAIN verdicts =>
                    /\ Len(verdicts[id]) = CellCount
                    /\ \A c \in NumberedCells :
                           IF <<id, c>> \in DOMAIN sweepPoints
                           THEN sweepPoints[<<id, c>>] = verdicts[id][c]
                           ELSE sweepFaults > 0

SweepEmonInv == EmonStopsWithCell

SweepInv ==
    /\ SweepShapeInv /\ SweepRowsInv /\ SweepCurrentInv /\ SweepTrialsInv /\ SweepOnceInv
    /\ SweepEmonInv

-------------------------------------------------------------------------------

LEMMA WithIs ==
    ASSUME NEW f, NEW x, NEW v
    PROVE  /\ DOMAIN With(f, x, v) = DOMAIN f \cup {x} /\ With(f, x, v)[x] = v
           /\ \A y \in DOMAIN f : y # x => With(f, x, v)[y] = f[y]
BY DEF With

LEMMA SweepFields ==
    ASSUME SweepInv, sweep.pc # "none"
    PROVE  /\ sweep.cell \in NumberedCells /\ sweep.cell \in Nat /\ sweep.cell <= CellCount
           /\ sweep.made \in Seq(SweepPoint) /\ Len(sweep.made) = Made
           /\ launches \in Seq(SweepIds) /\ launches # <<>> /\ Launches \in Nat /\ Launches >= 1
BY SweepAssumption DEF SweepInv, SweepShapeInv, SweepCurrentInv, NumberedCells, Launches

LEMMA StoredIsMade ==
    ASSUME SweepInv, sweep.pc # "none", NEW c \in NumberedCells, Stored(c)
    PROVE  c \in DOMAIN sweep.made
<1>1. c \in Nat /\ c >= 1 /\ c <= CellCount /\ CellCount \in Nat
  BY SweepAssumption DEF NumberedCells
<1>2. sweep.pc \in {"cell", "harbor", "collect", "store", "analyze"}
  BY DEF SweepInv, SweepShapeInv
<1>3. c <= Made /\ Made \in Nat
  <2>1. CASE sweep.pc = "analyze"
    BY <1>1, <2>1 DEF Made
  <2>2. CASE sweep.pc # "analyze"
    <3>1. c < sweep.cell /\ sweep.cell \in Nat
      BY <2>2, SweepFields DEF Stored
    <3>2. Made \in {sweep.cell - 1, sweep.cell}
      BY <1>2, <2>2 DEF Made
    <3>3. QED
      BY <1>1, <3>1, <3>2
  <2>3. QED
    BY <2>1, <2>2
<1>4. sweep.made \in Seq(SweepPoint) /\ Len(sweep.made) = Made
  BY SweepFields
<1>5. QED
  BY <1>1, <1>3, <1>4

\* A step on the way to the point of a cell: the tables stay as they are.
LEMMA SweepGoesOn ==
    ASSUME SweepInv, sweep.pc \in {"cell", "harbor", "collect"},
           NEW p \in {"harbor", "collect", "store"}, p \in {"harbor", "collect"} => ~sweep.dry,
           NEW e \in BOOLEAN,
           NEW m \in Seq(SweepPoint),
           IF p = "store"
           THEN \E point \in SweepPoint : /\ PointOK(point) /\ point.source = Label(sweep.dry)
                                          /\ m = Append(sweep.made, point)
           ELSE m = sweep.made,
           sweep' = [pc |-> p, id |-> sweep.id, cell |-> sweep.cell, dry |-> sweep.dry,
                     emon |-> e, made |-> m],
           UNCHANGED <<store, launches, sweepFaults>>,
           trials' \in [NumberedCells -> [by : Nat, n : Nat, before : Nat]],
           SweepTrialsInv', SweepEmonInv'
    PROVE  SweepInv'
<1>1. /\ sweep'.pc = p /\ sweep'.id = sweep.id /\ sweep'.cell = sweep.cell
      /\ sweep'.dry = sweep.dry /\ sweep'.emon = e /\ sweep'.made = m
  OBVIOUS
<1>2. /\ sweep.cell \in NumberedCells /\ sweep.cell \in Nat /\ Made = sweep.cell - 1
      /\ sweep.made \in Seq(SweepPoint) /\ Len(sweep.made) = sweep.cell - 1
  BY SweepFields DEF Made
<1>3. UNCHANGED <<sweepRows, sweepRuns, sweepPoints, verdicts, launches, sweepFaults>>
  BY DEF store
<1>4. /\ Len(m) = IF p = "store" THEN sweep.cell ELSE sweep.cell - 1
      /\ \A k \in 1 .. sweep.cell - 1 : m[k] = sweep.made[k]
      /\ \A k \in DOMAIN m : PointOK(m[k]) /\ m[k].source = Label(sweep.dry)
  <2>1. \A k \in DOMAIN sweep.made : PointOK(sweep.made[k]) /\ sweep.made[k].source = Label(sweep.dry)
    BY DEF SweepInv, SweepCurrentInv
  <2>2. CASE p = "store"
    <3>1. PICK point \in SweepPoint : /\ PointOK(point) /\ point.source = Label(sweep.dry)
                                      /\ m = Append(sweep.made, point)
      BY <2>2
    <3>2. /\ Len(m) = sweep.cell /\ m[sweep.cell] = point /\ DOMAIN m = 1 .. sweep.cell
          /\ DOMAIN sweep.made = 1 .. sweep.cell - 1
          /\ \A k \in 1 .. sweep.cell - 1 : m[k] = sweep.made[k]
      BY <1>2, <3>1
    <3>3. QED
      BY <1>2, <2>1, <2>2, <3>1, <3>2
  <2>3. CASE p # "store"
    BY <1>2, <2>1, <2>3
  <2>4. QED
    BY <2>2, <2>3
<1>5. Made' = Len(m)
  BY <1>1, <1>2, <1>4 DEF Made
<1>6. SweepShapeInv'
  BY <1>1, <1>2, <1>3, <1>5 DEF SweepInv, SweepShapeInv
<1>7. SweepRowsInv'
  BY <1>3 DEF SweepInv, SweepRowsInv, PointsHaveParents, Launched
<1>8. SweepCurrentInv'
  BY <1>1, <1>3, <1>4 DEF SweepInv, SweepCurrentInv
<1>9. SweepOnceInv'
  <2>1. ASSUME NEW id \in SweepIds, Once(id), id = sweep.id, NEW c \in NumberedCells
        PROVE  /\ id \notin DOMAIN verdicts
               /\ <<id, c>> \in DOMAIN sweepPoints =>
                      c < sweep.cell /\ sweepPoints[<<id, c>>] = m[c]
               /\ c < sweep.cell => <<id, c>> \in DOMAIN sweepPoints \/ sweepFaults > 0
    <3>1. /\ id \notin DOMAIN verdicts
          /\ <<id, c>> \in DOMAIN sweepPoints =>
                 Stored(c) /\ sweepPoints[<<id, c>>] = sweep.made[c]
          /\ Stored(c) => <<id, c>> \in DOMAIN sweepPoints \/ sweepFaults > 0
      BY <2>1 DEF SweepInv, SweepOnceInv
    <3>2. Stored(c) <=> c < sweep.cell
      BY DEF Stored
    <3>3. c < sweep.cell => c \in 1 .. sweep.cell - 1
      BY <1>2, SweepAssumption DEF NumberedCells
    <3>4. QED
      BY <1>4, <3>1, <3>2, <3>3
  <2>2. Once(sweep.id)' <=> Once(sweep.id)
    BY <1>1, <1>3 DEF Once
  <2>3. \A id \in SweepIds : Once(id)' <=> Once(id)
    BY <1>3 DEF Once
  <2>4. \A c \in NumberedCells : Stored(c)' <=> c < sweep.cell
    BY <1>1 DEF Stored
  <2>5. QED
    BY <1>1, <1>3, <2>1, <2>3, <2>4 DEF SweepInv, SweepOnceInv
<1>10. QED
  BY <1>6, <1>7, <1>8, <1>9 DEF SweepInv

\* The sweep ends, or is ended, before its verdict.
LEMMA SweepIsCut ==
    ASSUME SweepInv, sweep.pc # "none", sweep' = NoSweep, UNCHANGED <<store, launches>>,
           sweepFaults' \in Nat, sweepFaults' >= sweepFaults,
           trials' \in [NumberedCells -> [by : Nat, n : Nat, before : Nat]],
           SweepEmonInv'
    PROVE  SweepInv'
<1>1. /\ sweep'.pc = "none" /\ sweep'.cell = 0 /\ sweep'.made = <<>> /\ sweep'.dry = FALSE /\ sweep'.emon = FALSE
      /\ sweep' = [pc |-> sweep'.pc, id |-> sweep'.id, cell |-> sweep'.cell, dry |-> sweep'.dry,
                   emon |-> sweep'.emon, made |-> sweep'.made]
  BY DEF NoSweep
<1>2. UNCHANGED <<sweepRows, sweepRuns, sweepPoints, verdicts, launches>>
  BY DEF store
<1>3. SweepShapeInv'
  <2>1. Made' = 0 /\ sweep'.made \in Seq(SweepPoint) /\ Len(sweep'.made) = 0
    BY <1>1 DEF Made
  <2>2. /\ sweepFaults \in Nat /\ launches \in Seq(SweepIds)
        /\ DOMAIN sweepRows \subseteq SweepIds
        /\ DOMAIN sweepPoints \subseteq SweepIds \X NumberedCells
        /\ DOMAIN verdicts \subseteq SweepIds
    BY DEF SweepInv, SweepShapeInv
  <2>3. /\ (IF sweep'.pc = "none" THEN sweep' = NoSweep ELSE sweep'.cell \in NumberedCells)
        /\ sweep'.dry \in BOOLEAN /\ sweep'.emon \in BOOLEAN
        /\ sweep'.pc \in {"none", "cell", "harbor", "collect", "store", "analyze"}
        /\ sweep'.pc = "analyze" => sweep'.cell = CellCount
    BY <1>1
  <2>4. QED
    BY <1>1, <1>2, <2>1, <2>2, <2>3 DEF SweepShapeInv
<1>4. SweepRowsInv'
  BY <1>2 DEF SweepInv, SweepRowsInv, PointsHaveParents, Launched
<1>5. SweepCurrentInv'
  BY <1>1 DEF SweepCurrentInv
<1>6. SweepTrialsInv'
  <2>1. Launches' = Launches /\ Launches >= 1
    BY <1>2, SweepFields DEF Launches
  <2>2. Launches' # 0
    BY <2>1
  <2>3. Launches' = 1 \/ ~(Launches' <= 1)
    BY <2>1, SweepFields
  <2>4. QED
    BY <1>1, <2>3 DEF SweepTrialsInv
<1>7. SweepOnceInv'
  <2>1. ASSUME NEW id \in SweepIds, Once(id)
        PROVE  /\ \A c \in NumberedCells : <<id, c>> \in DOMAIN sweepPoints =>
                      sweepPoints[<<id, c>>].source = sweepRows[id]
               /\ id \in DOMAIN verdicts =>
                      /\ Len(verdicts[id]) = CellCount
                      /\ \A c \in NumberedCells :
                             IF <<id, c>> \in DOMAIN sweepPoints
                             THEN sweepPoints[<<id, c>>] = verdicts[id][c]
                             ELSE sweepFaults' > 0
    <3>1. CASE sweep.id = id
      <4>1. /\ id \notin DOMAIN verdicts
            /\ \A c \in NumberedCells : <<id, c>> \in DOMAIN sweepPoints =>
                    Stored(c) /\ sweepPoints[<<id, c>>] = sweep.made[c]
        BY <2>1, <3>1 DEF SweepInv, SweepOnceInv
      <4>2. \A c \in NumberedCells : Stored(c) => c \in DOMAIN sweep.made
        BY StoredIsMade
      <4>3. \A k \in DOMAIN sweep.made : sweep.made[k].source = sweepRows[id]
        BY <3>1 DEF SweepInv, SweepCurrentInv
      <4>4. QED
        BY <4>1, <4>2, <4>3
    <3>2. CASE sweep.id # id
      <4>1. sweepFaults \in Nat /\ (sweepFaults > 0 => sweepFaults' > 0)
        BY DEF SweepInv, SweepShapeInv
      <4>2. QED
        BY <2>1, <3>2, <4>1 DEF SweepInv, SweepOnceInv
    <3>3. QED
      BY <3>1, <3>2
  <2>2. \A id \in SweepIds : Once(id)' <=> Once(id)
    BY <1>2 DEF Once
  <2>3. QED
    BY <1>1, <1>2, <2>1, <2>2 DEF SweepOnceInv
<1>8. QED
  BY <1>3, <1>4, <1>5, <1>6, <1>7 DEF SweepInv

LEMMA StartSweepKeeps ==
    ASSUME SweepInv, StartSweep
    PROVE  SweepInv'
<1>1. PICK id \in SweepIds : \E dry \in BOOLEAN :
           /\ sweepRows' = With(sweepRows, id, IF dry THEN "synthetic" ELSE "measured")
           /\ sweepRuns' = sweepRuns \cup {id}
           /\ sweep' = [NoSweep EXCEPT !.pc = "cell", !.id = id, !.cell = 1, !.dry = dry]
           /\ launches' = Append(launches, id)
  BY DEF StartSweep
<1>2. PICK dry \in BOOLEAN :
           /\ sweepRows' = With(sweepRows, id, Label(dry))
           /\ sweepRuns' = sweepRuns \cup {id}
           /\ sweep' = [NoSweep EXCEPT !.pc = "cell", !.id = id, !.cell = 1, !.dry = dry]
           /\ launches' = Append(launches, id)
  BY <1>1 DEF Label
<1>3. sweep.pc = "none" /\ UNCHANGED <<trials, collecting, sweepPoints, verdicts, abandoned, sweepFaults>>
  BY DEF StartSweep
<1>4. /\ sweep' = [pc |-> "cell", id |-> id, cell |-> 1, dry |-> dry, emon |-> FALSE, made |-> <<>>]
      /\ sweep'.pc = "cell" /\ sweep'.id = id /\ sweep'.cell = 1 /\ sweep'.dry = dry
      /\ sweep'.emon = FALSE /\ sweep'.made = <<>>
  BY <1>2 DEF NoSweep
<1>5. /\ launches \in Seq(SweepIds) /\ launches' \in Seq(SweepIds) /\ launches' # <<>>
      /\ Len(launches') = Len(launches) + 1 /\ launches'[Len(launches')] = id
      /\ DOMAIN launches' = DOMAIN launches \cup {Len(launches')}
      /\ Len(launches') \notin DOMAIN launches
      /\ \A i \in DOMAIN launches : launches'[i] = launches[i]
  <2>1. launches \in Seq(SweepIds)
    BY DEF SweepInv, SweepShapeInv
  <2>2. QED
    BY <1>2, <2>1
<1>6. /\ DOMAIN sweepRows' = DOMAIN sweepRows \cup {id} /\ sweepRows'[id] = Label(dry)
      /\ \A y \in DOMAIN sweepRows : y # id => sweepRows'[y] = sweepRows[y]
  <2>1. \A v : /\ DOMAIN With(sweepRows, id, v) = DOMAIN sweepRows \cup {id}
               /\ With(sweepRows, id, v)[id] = v
               /\ \A y \in DOMAIN sweepRows : y # id => With(sweepRows, id, v)[y] = sweepRows[y]
    BY DEF With
  <2>2. sweepRows' = With(sweepRows, id, Label(dry))
    BY <1>2
  <2>3. QED
    BY <2>1, <2>2
<1>7. SweepShapeInv'
  <2>1. Made' = 0
    BY <1>4 DEF Made
  <2>2. 1 \in NumberedCells
    BY SweepAssumption DEF NumberedCells
  <2>3. <<>> \in Seq(SweepPoint) /\ Len(<<>>) = 0
    OBVIOUS
  <2>4. QED
    BY <1>3, <1>4, <1>5, <1>6, <2>1, <2>2, <2>3 DEF SweepInv, SweepShapeInv
<1>8. \A i : Launched(i) => Launched(i)'
  BY <1>5 DEF Launched
<1>9. SweepRowsInv'
  BY <1>2, <1>3, <1>6, <1>8 DEF SweepInv, SweepRowsInv, PointsHaveParents
<1>10. SweepCurrentInv'
  BY <1>2, <1>4, <1>5, <1>6 DEF SweepCurrentInv
<1>11. SweepTrialsInv'
  <2>1. Launches' = Launches + 1 /\ Launches \in Nat
    BY <1>5 DEF Launches
  <2>2. Launches' <= 1 => Launches = 0
    BY <2>1
  <2>3. Launches = 0 => \A c \in NumberedCells : trials[c].before = 0 /\ trials[c].n = 0
    BY DEF SweepInv, SweepTrialsInv
  <2>4. QED
    BY <1>3, <2>2, <2>3 DEF SweepTrialsInv
<1>12. SweepOnceInv'
  <2>1. ASSUME NEW i \in SweepIds, i # id, Once(i)'
        PROVE  Once(i)
    <3>1. \A j \in DOMAIN launches' : launches'[j] = i => j \in DOMAIN launches
      BY <1>5, <2>1
    <3>2. {j \in DOMAIN launches' : launches'[j] = i} = {j \in DOMAIN launches : launches[j] = i}
      BY <1>5, <3>1
    <3>3. PICK k \in DOMAIN launches' : {j \in DOMAIN launches' : launches'[j] = i} = {k}
      BY <2>1 DEF Once
    <3>4. {j \in DOMAIN launches : launches[j] = i} = {k} /\ k \in DOMAIN launches
      BY <3>2, <3>3
    <3>5. QED
      BY <3>4 DEF Once
  <2>2. ASSUME Once(id)'
        PROVE  ~Launched(id)
    <3>1. PICK k \in DOMAIN launches' : {j \in DOMAIN launches' : launches'[j] = id} = {k}
      BY <2>2 DEF Once
    <3>2. k = Len(launches')
      BY <1>5, <3>1
    <3>3. QED
      BY <1>5, <3>1, <3>2 DEF Launched
  <2>3. ASSUME Once(id)', NEW c \in NumberedCells
        PROVE  id \notin DOMAIN verdicts /\ <<id, c>> \notin DOMAIN sweepPoints /\ ~Stored(c)'
    <3>1. id \notin DOMAIN verdicts
      BY <2>2, <2>3 DEF SweepInv, SweepRowsInv
    <3>2. <<id, c>>[1] = id
      OBVIOUS
    <3>3. <<id, c>> \notin DOMAIN sweepPoints
      BY <2>2, <2>3, <3>2 DEF SweepInv, SweepRowsInv
    <3>4. ~(c < 1)
      BY SweepAssumption DEF NumberedCells
    <3>5. QED
      BY <1>4, <3>1, <3>3, <3>4 DEF Stored
  <2>4. Once(id)' => id \notin DOMAIN verdicts
    BY <2>2 DEF SweepInv, SweepRowsInv
  <2>5. ASSUME NEW i \in SweepIds, i # id, Once(i)'
        PROVE  /\ \A c \in NumberedCells : <<i, c>> \in DOMAIN sweepPoints =>
                      sweepPoints[<<i, c>>].source = sweepRows'[i]
               /\ i \in DOMAIN verdicts =>
                      /\ Len(verdicts[i]) = CellCount
                      /\ \A c \in NumberedCells :
                             IF <<i, c>> \in DOMAIN sweepPoints
                             THEN sweepPoints[<<i, c>>] = verdicts[i][c]
                             ELSE sweepFaults > 0
    <3>1. /\ \A c \in NumberedCells : <<i, c>> \in DOMAIN sweepPoints =>
                 sweepPoints[<<i, c>>].source = sweepRows[i]
          /\ i \in DOMAIN verdicts =>
                 /\ Len(verdicts[i]) = CellCount
                 /\ \A c \in NumberedCells :
                        IF <<i, c>> \in DOMAIN sweepPoints
                        THEN sweepPoints[<<i, c>>] = verdicts[i][c]
                        ELSE sweepFaults > 0
      BY <1>3, <2>1, <2>5 DEF SweepInv, SweepOnceInv
    <3>2. \A c : <<i, c>> \in DOMAIN sweepPoints => i \in DOMAIN sweepRows
      <4>1. \A c : <<i, c>>[1] = i
        OBVIOUS
      <4>2. QED
        BY <4>1 DEF SweepInv, SweepRowsInv, PointsHaveParents
    <3>3. QED
      BY <1>6, <2>5, <3>1, <3>2
  <2>6. QED
    BY <1>3, <1>4, <2>3, <2>4, <2>5 DEF SweepOnceInv
<1>13. SweepEmonInv'
  BY <1>3 DEF SweepInv, SweepEmonInv, EmonStopsWithCell, Measuring
<1>14. QED
  BY <1>7, <1>9, <1>10, <1>11, <1>12, <1>13 DEF SweepInv

LEMMA StartCellKeeps ==
    ASSUME SweepInv, StartCell
    PROVE  SweepInv'
<1>1. PICK on \in BOOLEAN :
          /\ sweep' = [sweep EXCEPT !.pc = "harbor", !.emon = on]
          /\ \/ /\ on /\ collecting' = collecting \cup {ThisCell}
                /\ UNCHANGED abandoned
             \/ ~on /\ UNCHANGED <<collecting, abandoned>>
             \/ /\ ~on /\ collecting' = collecting \cup {ThisCell}
                /\ abandoned' = abandoned \cup {ThisCell}
  BY DEF StartCell
<1>2. /\ sweep.pc = "cell" /\ ~sweep.dry
      /\ UNCHANGED <<trials, store, launches, sweepFaults>>
  BY DEF StartCell
<1>3. sweep = [pc |-> sweep.pc, id |-> sweep.id, cell |-> sweep.cell, dry |-> sweep.dry,
               emon |-> sweep.emon, made |-> sweep.made]
  BY DEF SweepInv, SweepShapeInv
<1>4. sweep' = [pc |-> "harbor", id |-> sweep.id, cell |-> sweep.cell, dry |-> sweep.dry,
                emon |-> on, made |-> sweep.made]
  BY <1>1, <1>3
<1>5. /\ trials' \in [NumberedCells -> [by : Nat, n : Nat, before : Nat]]
      /\ sweep.made \in Seq(SweepPoint)
  BY <1>1, <1>2 DEF SweepInv, SweepShapeInv
<1>6. sweep'.pc = "harbor" /\ sweep'.cell = sweep.cell /\ sweep'.emon = on
  BY <1>4
<1>7. SweepTrialsInv'
  BY <1>2, <1>6 DEF SweepInv, SweepTrialsInv, Launches
<1>8. SweepEmonInv'
  <2>1. ThisCell' = ThisCell /\ Measuring' /\ ~Measuring
    BY <1>2, <1>6 DEF ThisCell, Launches, Measuring
  <2>2. /\ collecting' \subseteq collecting \cup {ThisCell} /\ abandoned \subseteq abandoned'
        /\ collecting' # collecting => on \/ ThisCell \in abandoned'
    BY <1>1
  <2>3. \A k \in collecting : k \in abandoned
    BY <2>1 DEF SweepInv, SweepEmonInv, EmonStopsWithCell
  <2>4. ASSUME NEW k \in collecting'
        PROVE  k \in abandoned' \/ (on /\ k = ThisCell)
    <3>1. CASE k \in collecting
      BY <2>2, <2>3, <3>1
    <3>2. CASE k \notin collecting
      BY <2>2, <2>4, <3>2
    <3>3. QED
      BY <3>1, <3>2
  <2>5. QED
    BY <1>2, <1>6, <2>1, <2>4 DEF SweepEmonInv, EmonStopsWithCell
<1>9. QED
  BY <1>1, <1>2, <1>4, <1>5, <1>7, <1>8, SweepGoesOn

LEMMA HarborRunKeeps ==
    ASSUME SweepInv, HarborRun
    PROVE  SweepInv'
<1>1. PICK n \in 0 .. TrialCount :
           trials' = [trials EXCEPT ![sweep.cell] =
                         [by |-> Launches, n |-> n, before |-> @.before + @.n]]
  BY DEF HarborRun
<1>2. sweep.pc = "harbor"
  BY DEF HarborRun
<1>3. /\ sweep.cell \in NumberedCells /\ sweep.cell \in Nat
      /\ trials \in [NumberedCells -> [by : Nat, n : Nat, before : Nat]]
      /\ Launches \in Nat /\ Launches >= 1 /\ n \in Nat
      /\ sweepFaults \in Nat
      /\ trials[sweep.cell].before \in Nat /\ trials[sweep.cell].n \in Nat
  <2>1. /\ trials \in [NumberedCells -> [by : Nat, n : Nat, before : Nat]]
        /\ sweepFaults \in Nat
    BY DEF SweepInv, SweepShapeInv
  <2>2. n \in Nat
    BY SweepAssumption
  <2>3. QED
    BY <1>2, <2>1, <2>2, SweepFields
<1>4. /\ trials'[sweep.cell] = [by |-> Launches, n |-> n,
                               before |-> trials[sweep.cell].before + trials[sweep.cell].n]
      /\ \A c \in NumberedCells : c # sweep.cell => trials'[c] = trials[c]
  BY <1>1, <1>3
<1>5. trials' \in [NumberedCells -> [by : Nat, n : Nat, before : Nat]]
  <2>1. trials[sweep.cell].before + trials[sweep.cell].n \in Nat
    BY <1>3
  <2>2. [by |-> Launches, n |-> n, before |-> trials[sweep.cell].before + trials[sweep.cell].n]
            \in [by : Nat, n : Nat, before : Nat]
    BY <1>3, <2>1
  <2>3. QED
    BY <1>1, <1>3, <2>2
<1>6. CASE sweep' = [sweep EXCEPT !.pc = "collect"] /\ UNCHANGED <<collecting, sweepFaults, store, history>>
  <2>1. sweep = [pc |-> sweep.pc, id |-> sweep.id, cell |-> sweep.cell, dry |-> sweep.dry,
                 emon |-> sweep.emon, made |-> sweep.made]
    BY DEF SweepInv, SweepShapeInv
  <2>2. sweep' = [pc |-> "collect", id |-> sweep.id, cell |-> sweep.cell, dry |-> sweep.dry,
                  emon |-> sweep.emon, made |-> sweep.made]
    BY <1>6, <2>1
  <2>3. sweep'.pc = "collect" /\ sweep'.cell = sweep.cell /\ sweep'.emon = sweep.emon
    BY <2>2
  <2>4. ~sweep.dry /\ sweep.emon \in BOOLEAN /\ sweep.made \in Seq(SweepPoint)
    BY <1>2 DEF SweepInv, SweepShapeInv, SweepCurrentInv
  <2>5. SweepTrialsInv'
    <3>1. SUFFICES ASSUME Launches = 1, NEW c \in NumberedCells
                   PROVE  /\ trials'[c].before = 0
                          /\ trials'[c].n # 0 => trials'[c].by = 1
                          /\ c > sweep.cell => trials'[c].n = 0
      <4>1. Launches' = Launches
        BY <1>6 DEF history, Launches
      <4>2. Launches <= 1 => Launches = 1
        BY <1>3
      <4>3. QED
        BY <1>3, <2>3, <4>1, <4>2 DEF SweepTrialsInv
    <3>2. /\ trials[c].before = 0
          /\ trials[c].n # 0 => trials[c].by = 1
          /\ c > sweep.cell \/ c = sweep.cell => trials[c].n = 0
      BY <1>2, <3>1 DEF SweepInv, SweepTrialsInv
    <3>3. CASE c = sweep.cell
      <4>1. trials'[c].before = trials[c].before + trials[c].n /\ trials'[c].by = 1
        BY <1>4, <3>1, <3>3
      <4>2. ~(c > sweep.cell)
        BY <1>3, <3>3
      <4>3. QED
        BY <3>2, <3>3, <4>1, <4>2
    <3>4. CASE c # sweep.cell
      BY <1>4, <3>2, <3>4
    <3>5. QED
      BY <3>3, <3>4
  <2>6. SweepEmonInv'
    <3>1. UNCHANGED <<collecting, launches, abandoned>>
      BY <1>6 DEF history
    <3>2. ThisCell' = ThisCell /\ Measuring'
      BY <2>3, <3>1 DEF ThisCell, Launches, Measuring
    <3>3. QED
      BY <2>3, <3>1, <3>2 DEF SweepInv, SweepEmonInv, EmonStopsWithCell
  <2>7. UNCHANGED launches
    BY <1>6 DEF history
  <2>8. QED
    BY <1>2, <1>3, <1>5, <1>6, <2>2, <2>4, <2>5, <2>6, <2>7, SweepGoesOn
<1>7. CASE Propagate
  <2>1. /\ sweep' = NoSweep /\ UNCHANGED <<collecting, store, launches>>
        /\ sweepFaults' = sweepFaults + 1
        /\ abandoned' = abandoned \cup ({ThisCell} \cap collecting)
    BY <1>7 DEF Propagate, Fault
  <2>2. SweepEmonInv'
    BY <2>1 DEF SweepInv, SweepEmonInv, EmonStopsWithCell
  <2>3. QED
    BY <1>2, <1>3, <1>5, <2>1, <2>2, SweepIsCut
<1>8. QED
  BY <1>6, <1>7 DEF HarborRun

LEMMA CollectCellKeeps ==
    ASSUME SweepInv, CollectCell
    PROVE  SweepInv'
<1>1. /\ sweep.pc = "collect" /\ UNCHANGED <<trials, store, launches, sweepFaults>>
      /\ StopEmonOfCell
      /\ sweep' = IF CellFails THEN NoSweep
                  ELSE [sweep EXCEPT !.pc = "store", !.emon = FALSE,
                                     !.made = Append(@, MeasuredPoint)]
  BY DEF CollectCell
<1>2. /\ sweepFaults \in Nat
      /\ trials' \in [NumberedCells -> [by : Nat, n : Nat, before : Nat]]
  BY <1>1 DEF SweepInv, SweepShapeInv
<1>3. SweepEmonInv'
  <2>1. \A k \in collecting : k \in abandoned \/ (sweep.emon /\ k = ThisCell)
    BY DEF SweepInv, SweepEmonInv, EmonStopsWithCell
  <2>2. \A k \in collecting' : k \in abandoned'
    <3>1. CASE /\ collecting' = IF sweep.emon THEN collecting \ {ThisCell} ELSE collecting
               /\ UNCHANGED abandoned
      <4>1. CASE sweep.emon
        BY <2>1, <3>1, <4>1
      <4>2. CASE ~sweep.emon
        BY <2>1, <3>1, <4>2
      <4>3. QED
        BY <4>1, <4>2
    <3>2. CASE abandoned' = abandoned \cup {ThisCell} /\ UNCHANGED collecting
      BY <2>1, <3>2
    <3>3. QED
      BY <1>1, <3>1, <3>2 DEF StopEmonOfCell
  <2>3. QED
    BY <1>1, <2>2 DEF SweepEmonInv, EmonStopsWithCell
<1>4. CASE CellFails
  BY <1>1, <1>2, <1>3, <1>4, SweepIsCut
<1>5. CASE ~CellFails
  <2> DEFINE own == trials[sweep.cell]
  <2>1. /\ own.n \in Nat /\ own.before \in Nat /\ own.by \in Nat
        /\ Launches \in Nat /\ Launches >= 1 /\ sweep.cell \in NumberedCells
        /\ sweep.made \in Seq(SweepPoint) /\ sweep.emon \in BOOLEAN /\ ~sweep.dry
    <3>1. trials \in [NumberedCells -> [by : Nat, n : Nat, before : Nat]]
      BY DEF SweepInv, SweepShapeInv
    <3>2. sweep.cell \in NumberedCells /\ Launches \in Nat /\ Launches >= 1
      BY <1>1, SweepFields
    <3>3. sweep.made \in Seq(SweepPoint) /\ sweep.emon \in BOOLEAN /\ ~sweep.dry
      BY <1>1 DEF SweepInv, SweepShapeInv, SweepCurrentInv
    <3>4. QED
      BY <3>1, <3>2, <3>3
  <2>2. Launches = 1 => own.before = 0 /\ (own.n # 0 => own.by = 1)
    BY <1>1, <2>1 DEF SweepInv, SweepTrialsInv
  <2>3. /\ CollectedTrials(sweep.cell) = own.before + own.n
        /\ OwnTrials(sweep.cell) = IF own.by = Launches THEN own.n ELSE 0
    BY DEF CollectedTrials, OwnTrials
  <2> HIDE DEF own
  <2>4. /\ CollectedTrials(sweep.cell) \in Nat /\ OwnTrials(sweep.cell) \in Nat
        /\ CollectedTrials(sweep.cell) > 0
        /\ OwnTrials(sweep.cell) <= CollectedTrials(sweep.cell)
        /\ Launches = 1 => OwnTrials(sweep.cell) = CollectedTrials(sweep.cell)
    BY <1>5, <2>1, <2>2, <2>3 DEF CellFails
  <2>5. /\ MeasuredPoint \in SweepPoint /\ PointOK(MeasuredPoint)
        /\ MeasuredPoint.source = Label(sweep.dry)
    BY <2>1, <2>4 DEF MeasuredPoint, SweepPoint, PointOK, Label
  <2>6. sweep = [pc |-> sweep.pc, id |-> sweep.id, cell |-> sweep.cell, dry |-> sweep.dry,
                 emon |-> sweep.emon, made |-> sweep.made]
    BY DEF SweepInv, SweepShapeInv
  <2>7. sweep' = [pc |-> "store", id |-> sweep.id, cell |-> sweep.cell, dry |-> sweep.dry,
                  emon |-> FALSE, made |-> Append(sweep.made, MeasuredPoint)]
    BY <1>1, <1>5, <2>6
  <2>8. SweepTrialsInv'
    BY <1>1, <2>7 DEF SweepInv, SweepTrialsInv, Launches
  <2>9. Append(sweep.made, MeasuredPoint) \in Seq(SweepPoint)
    BY <2>1, <2>5
  <2>10. QED
    BY <1>1, <1>2, <1>3, <2>1, <2>5, <2>7, <2>8, <2>9, SweepGoesOn
<1>6. QED
  BY <1>4, <1>5

LEMMA DryCellKeeps ==
    ASSUME SweepInv, DryCell
    PROVE  SweepInv'
<1>1. /\ sweep.pc = "cell" /\ sweep.dry
      /\ UNCHANGED <<trials, collecting, store, launches, abandoned, sweepFaults>>
      /\ sweep' = [sweep EXCEPT !.pc = "store", !.made = Append(@, SyntheticPoint)]
  BY DEF DryCell, history
<1>2. sweep = [pc |-> sweep.pc, id |-> sweep.id, cell |-> sweep.cell, dry |-> sweep.dry,
               emon |-> sweep.emon, made |-> sweep.made]
  BY DEF SweepInv, SweepShapeInv
<1>3. sweep' = [pc |-> "store", id |-> sweep.id, cell |-> sweep.cell, dry |-> sweep.dry,
                emon |-> sweep.emon, made |-> Append(sweep.made, SyntheticPoint)]
  BY <1>1, <1>2
<1>4. /\ SyntheticPoint \in SweepPoint /\ PointOK(SyntheticPoint)
      /\ SyntheticPoint.source = Label(sweep.dry)
  <2>1. Launches \in Nat /\ TrialCount \in Nat /\ TrialCount > 0
    BY <1>1, SweepAssumption, SweepFields
  <2>2. QED
    BY <1>1, <2>1 DEF SyntheticPoint, SweepPoint, PointOK, Label
<1>5. /\ sweep.made \in Seq(SweepPoint) /\ sweep.emon \in BOOLEAN
      /\ trials' \in [NumberedCells -> [by : Nat, n : Nat, before : Nat]]
  BY <1>1 DEF SweepInv, SweepShapeInv
<1>6. Append(sweep.made, SyntheticPoint) \in Seq(SweepPoint)
  BY <1>4, <1>5
<1>7. SweepTrialsInv'
  BY <1>1, <1>3 DEF SweepInv, SweepTrialsInv, Launches
<1>8. SweepEmonInv'
  BY <1>1 DEF SweepInv, SweepEmonInv, EmonStopsWithCell, Measuring
<1>9. QED
  BY <1>1, <1>3, <1>4, <1>5, <1>6, <1>7, <1>8, SweepGoesOn

LEMMA KillSweepKeeps ==
    ASSUME SweepInv, KillSweep
    PROVE  SweepInv'
<1>1. /\ sweep.pc # "none" /\ sweep' = NoSweep
      /\ UNCHANGED <<trials, collecting, store, launches>>
      /\ sweepFaults' = sweepFaults + 1
      /\ abandoned' = IF Measuring THEN abandoned \cup ({ThisCell} \cap collecting)
                      ELSE abandoned
  BY DEF KillSweep, Fault
<1>2. /\ sweepFaults \in Nat
      /\ trials' \in [NumberedCells -> [by : Nat, n : Nat, before : Nat]]
  BY <1>1 DEF SweepInv, SweepShapeInv
<1>3. SweepEmonInv'
  BY <1>1 DEF SweepInv, SweepEmonInv, EmonStopsWithCell
<1>4. QED
  BY <1>1, <1>2, <1>3, SweepIsCut

LEMMA StoreCellKeeps ==
    ASSUME SweepInv, StoreCell
    PROVE  SweepInv'
<1> DEFINE key == <<sweep.id, sweep.cell>>
<1>1. /\ sweep.pc = "store" /\ sweepRuns' = sweepRuns \cup {key}
      /\ UNCHANGED <<trials, collecting, sweepRows, verdicts, launches, abandoned>>
      /\ sweep' = IF LastCell THEN [sweep EXCEPT !.pc = "analyze"]
                  ELSE [sweep EXCEPT !.pc = "cell", !.cell = @ + 1]
  BY DEF StoreCell, EnsureRunRow, history
<1>2. \/ /\ sweepPoints' = With(sweepPoints, key, sweep.made[sweep.cell])
         /\ sweepFaults' = sweepFaults
      \/ sweepFaults' = sweepFaults + 1 /\ sweepPoints' = sweepPoints
  BY DEF StoreCell, Fault
<1>3. /\ sweep.cell \in NumberedCells /\ sweep.cell \in Nat /\ sweep.cell >= 1
      /\ sweep.cell <= CellCount /\ CellCount \in Nat
      /\ sweep.made \in Seq(SweepPoint) /\ Len(sweep.made) = sweep.cell
      /\ sweep.cell \in DOMAIN sweep.made
      /\ launches \in Seq(SweepIds) /\ Launches \in Nat /\ sweepFaults \in Nat
      /\ sweep.id \in SweepIds
  <2>1. Made = sweep.cell
    BY <1>1 DEF Made
  <2>2. /\ sweep.cell \in NumberedCells /\ sweep.made \in Seq(SweepPoint)
        /\ Len(sweep.made) = sweep.cell /\ launches \in Seq(SweepIds) /\ Launches \in Nat
    BY <1>1, <2>1, SweepFields
  <2>3. sweepFaults \in Nat /\ sweep.id \in SweepIds
    BY <1>1 DEF SweepInv, SweepShapeInv, SweepCurrentInv
  <2>4. QED
    BY <2>2, <2>3, SweepAssumption DEF NumberedCells
<1>4. /\ DOMAIN sweepPoints' \subseteq DOMAIN sweepPoints \cup {key}
      /\ DOMAIN sweepPoints \subseteq DOMAIN sweepPoints'
      /\ \A k \in DOMAIN sweepPoints : k # key => sweepPoints'[k] = sweepPoints[k]
      /\ sweepFaults' \in Nat /\ sweepFaults' >= sweepFaults
  <2>1. CASE sweepPoints' = With(sweepPoints, key, sweep.made[sweep.cell]) /\ sweepFaults' = sweepFaults
    BY <1>3, <2>1 DEF With
  <2>2. CASE sweepFaults' = sweepFaults + 1 /\ sweepPoints' = sweepPoints
    BY <1>3, <2>2
  <2>3. QED
    BY <1>2, <2>1, <2>2
<1>5. \/ key \in DOMAIN sweepPoints' /\ sweepPoints'[key] = sweep.made[sweep.cell]
      \/ sweepPoints' = sweepPoints /\ sweepFaults' > 0
  <2>1. CASE sweepPoints' = With(sweepPoints, key, sweep.made[sweep.cell]) /\ sweepFaults' = sweepFaults
    BY <2>1 DEF With
  <2>2. CASE sweepFaults' = sweepFaults + 1 /\ sweepPoints' = sweepPoints
    BY <1>3, <2>2
  <2>3. QED
    BY <1>2, <2>1, <2>2
<1>6. sweep' = [pc |-> IF LastCell THEN "analyze" ELSE "cell", id |-> sweep.id,
                cell |-> IF LastCell THEN sweep.cell ELSE sweep.cell + 1,
                dry |-> sweep.dry, emon |-> sweep.emon, made |-> sweep.made]
  <2>1. sweep = [pc |-> sweep.pc, id |-> sweep.id, cell |-> sweep.cell, dry |-> sweep.dry,
                 emon |-> sweep.emon, made |-> sweep.made]
    BY DEF SweepInv, SweepShapeInv
  <2>2. CASE LastCell
    BY <1>1, <2>1, <2>2
  <2>3. CASE ~LastCell
    BY <1>1, <2>1, <2>3
  <2>4. QED
    BY <2>2, <2>3
<1>7. /\ sweep'.id = sweep.id /\ sweep'.dry = sweep.dry /\ sweep'.emon = sweep.emon
      /\ sweep'.made = sweep.made /\ sweep'.pc \in {"analyze", "cell"}
      /\ sweep'.pc = "analyze" => sweep'.cell = sweep.cell /\ sweep.cell = CellCount
      /\ sweep'.pc = "cell" => sweep'.cell = sweep.cell + 1 /\ sweep.cell # CellCount
  BY <1>6 DEF LastCell
<1>8. sweep'.cell \in NumberedCells /\ Made' = sweep.cell
  <2>1. CASE sweep'.pc = "analyze"
    BY <1>3, <1>7, <2>1 DEF Made
  <2>2. CASE sweep'.pc = "cell"
    BY <1>3, <1>7, <2>2 DEF Made, NumberedCells
  <2>3. QED
    BY <1>7, <2>1, <2>2
<1>9. \A c \in NumberedCells : Stored(c)' <=> c <= sweep.cell
  <2>1. \A c \in NumberedCells : c \in Nat /\ c <= CellCount
    BY <1>3 DEF NumberedCells
  <2>2. CASE sweep'.pc = "analyze"
    BY <1>7, <2>1, <2>2 DEF Stored
  <2>3. CASE sweep'.pc = "cell"
    BY <1>3, <1>7, <2>1, <2>3 DEF Stored
  <2>4. QED
    BY <1>7, <2>2, <2>3
<1>10. key \in SweepIds \X NumberedCells /\ key[1] = sweep.id
  BY <1>3
<1> HIDE DEF key
<1>11. SweepShapeInv'
  <2>1. DOMAIN sweepPoints' \subseteq SweepIds \X NumberedCells
    BY <1>4, <1>10 DEF SweepInv, SweepShapeInv
  <2>2. /\ sweep'.dry \in BOOLEAN /\ sweep'.emon \in BOOLEAN /\ sweep'.pc # "none"
        /\ sweep' = [pc |-> sweep'.pc, id |-> sweep'.id, cell |-> sweep'.cell, dry |-> sweep'.dry,
                     emon |-> sweep'.emon, made |-> sweep'.made]
    BY <1>6, <1>7 DEF SweepInv, SweepShapeInv
  <2>3. /\ trials' \in [NumberedCells -> [by : Nat, n : Nat, before : Nat]]
        /\ launches' \in Seq(SweepIds)
        /\ DOMAIN sweepRows' \subseteq SweepIds /\ DOMAIN verdicts' \subseteq SweepIds
    BY <1>1 DEF SweepInv, SweepShapeInv
  <2>4. QED
    BY <1>3, <1>4, <1>7, <1>8, <2>1, <2>2, <2>3 DEF SweepShapeInv
<1>12. SweepRowsInv'
  <2>1. /\ sweep.id \in DOMAIN sweepRows /\ Launched(sweep.id)
        /\ PointOK(sweep.made[sweep.cell]) /\ sweep.made[sweep.cell] \in SweepPoint
    <3>1. sweep.id \in DOMAIN sweepRows /\ PointOK(sweep.made[sweep.cell])
      BY <1>1, <1>3 DEF SweepInv, SweepCurrentInv
    <3>2. sweep.made[sweep.cell] \in SweepPoint
      BY <1>3
    <3>3. launches # <<>> /\ launches[Len(launches)] = sweep.id
      BY <1>1 DEF SweepInv, SweepCurrentInv
    <3>4. Len(launches) \in DOMAIN launches
      BY <1>3, <3>3
    <3>5. QED
      BY <3>1, <3>2, <3>3, <3>4 DEF Launched
  <2>2. \A i : Launched(i)' <=> Launched(i)
    BY <1>1 DEF Launched
  <2>3. PointsHaveParents'
    BY <1>1, <1>4, <1>10, <2>1 DEF SweepInv, SweepRowsInv, PointsHaveParents
  <2>4. ASSUME NEW k \in DOMAIN sweepPoints'
        PROVE  Launched(k[1])' /\ PointOK(sweepPoints'[k]) /\ sweepPoints'[k] \in SweepPoint
    <3>1. CASE sweepPoints' = sweepPoints
      BY <2>2, <2>4, <3>1 DEF SweepInv, SweepRowsInv
    <3>2. CASE k = key /\ sweepPoints'[key] = sweep.made[sweep.cell]
      BY <1>10, <2>1, <2>2, <3>2
    <3>3. CASE k # key
      BY <1>4, <2>2, <2>4, <3>3 DEF SweepInv, SweepRowsInv
    <3>4. QED
      BY <1>5, <3>1, <3>2, <3>3
  <2>5. \A i \in DOMAIN verdicts' : Launched(i)'
    BY <1>1, <2>2 DEF SweepInv, SweepRowsInv
  <2>6. QED
    BY <2>3, <2>4, <2>5 DEF SweepRowsInv
<1>13. SweepCurrentInv'
  BY <1>1, <1>7 DEF SweepInv, SweepCurrentInv
<1>14. SweepTrialsInv'
  <2>1. SUFFICES ASSUME Launches = 1, NEW c \in NumberedCells
                 PROVE  /\ trials[c].before = 0
                        /\ trials[c].n # 0 => trials[c].by = 1
                        /\ \/ c > sweep'.cell
                           \/ c = sweep'.cell /\ sweep'.pc \in {"cell", "harbor"}
                           => trials[c].n = 0
    <3>1. Launches' = Launches /\ trials' = trials
      BY <1>1 DEF Launches
    <3>2. Launches >= 1
      BY <1>1, SweepFields
    <3>3. Launches <= 1 => Launches = 1
      BY <1>3, <3>2
    <3>4. QED
      BY <1>3, <3>1, <3>2, <3>3 DEF SweepTrialsInv
  <2>2. /\ trials[c].before = 0
        /\ trials[c].n # 0 => trials[c].by = 1
        /\ c > sweep.cell => trials[c].n = 0
    BY <1>1, <2>1 DEF SweepInv, SweepTrialsInv
  <2>3. c \in Nat
    BY <1>3 DEF NumberedCells
  <2>4. \/ c > sweep'.cell
        \/ c = sweep'.cell /\ sweep'.pc \in {"cell", "harbor"}
        => c > sweep.cell
    BY <1>3, <1>7, <2>3
  <2>5. QED
    BY <2>2, <2>4
<1>15. SweepOnceInv'
  <2>1. \A id \in SweepIds : Once(id)' <=> Once(id)
    BY <1>1 DEF Once
  <2>2. ASSUME Once(sweep.id)
        PROVE  /\ sweep.id \notin DOMAIN verdicts
               /\ \A c \in NumberedCells :
                      /\ <<sweep.id, c>> \in DOMAIN sweepPoints' =>
                             c <= sweep.cell /\ sweepPoints'[<<sweep.id, c>>] = sweep.made[c]
                      /\ c <= sweep.cell => <<sweep.id, c>> \in DOMAIN sweepPoints' \/ sweepFaults' > 0
    <3>1. /\ sweep.id \notin DOMAIN verdicts
          /\ \A c \in NumberedCells :
                 /\ <<sweep.id, c>> \in DOMAIN sweepPoints =>
                        Stored(c) /\ sweepPoints[<<sweep.id, c>>] = sweep.made[c]
                 /\ Stored(c) => <<sweep.id, c>> \in DOMAIN sweepPoints \/ sweepFaults > 0
      BY <1>1, <1>3, <2>2 DEF SweepInv, SweepOnceInv
    <3>2. ASSUME NEW c \in NumberedCells
          PROVE  /\ <<sweep.id, c>> \in DOMAIN sweepPoints' =>
                        c <= sweep.cell /\ sweepPoints'[<<sweep.id, c>>] = sweep.made[c]
                 /\ c <= sweep.cell => <<sweep.id, c>> \in DOMAIN sweepPoints' \/ sweepFaults' > 0
      <4>1. c \in Nat /\ (Stored(c) <=> c < sweep.cell)
        BY <1>1 DEF Stored, NumberedCells
      <4>2. CASE c = sweep.cell
        <5>1. <<sweep.id, c>> = key /\ ~Stored(c) /\ c <= sweep.cell
          BY <1>3, <4>1, <4>2 DEF key
        <5>2. key \notin DOMAIN sweepPoints
          BY <3>1, <3>2, <5>1
        <5>3. QED
          BY <1>5, <4>2, <5>1, <5>2
      <4>3. CASE c # sweep.cell
        <5>1. <<sweep.id, c>> # key
          BY <4>3 DEF key
        <5>2. /\ <<sweep.id, c>> \in DOMAIN sweepPoints' <=> <<sweep.id, c>> \in DOMAIN sweepPoints
              /\ <<sweep.id, c>> \in DOMAIN sweepPoints =>
                     sweepPoints'[<<sweep.id, c>>] = sweepPoints[<<sweep.id, c>>]
          BY <1>4, <5>1
        <5>3. c <= sweep.cell <=> c < sweep.cell
          BY <1>3, <4>1, <4>3
        <5>4. sweepFaults > 0 => sweepFaults' > 0
          BY <1>3, <1>4
        <5>5. QED
          BY <3>1, <4>1, <5>2, <5>3, <5>4
      <4>4. QED
        BY <4>2, <4>3
    <3>3. QED
      BY <3>1, <3>2
  <2>3. ASSUME NEW i \in SweepIds, Once(i), i # sweep.id
        PROVE  /\ \A c \in NumberedCells : <<i, c>> \in DOMAIN sweepPoints' =>
                      sweepPoints'[<<i, c>>].source = sweepRows[i]
               /\ i \in DOMAIN verdicts =>
                      /\ Len(verdicts[i]) = CellCount
                      /\ \A c \in NumberedCells :
                             IF <<i, c>> \in DOMAIN sweepPoints'
                             THEN sweepPoints'[<<i, c>>] = verdicts[i][c]
                             ELSE sweepFaults' > 0
    <3>1. \A c \in NumberedCells :
              /\ <<i, c>> \in DOMAIN sweepPoints' <=> <<i, c>> \in DOMAIN sweepPoints
              /\ <<i, c>> \in DOMAIN sweepPoints => sweepPoints'[<<i, c>>] = sweepPoints[<<i, c>>]
      <4>1. \A c : <<i, c>> # key
        BY <2>3 DEF key
      <4>2. QED
        BY <1>4, <4>1
    <3>2. sweepFaults > 0 => sweepFaults' > 0
      BY <1>3, <1>4
    <3>3. /\ \A c \in NumberedCells : <<i, c>> \in DOMAIN sweepPoints =>
                 sweepPoints[<<i, c>>].source = sweepRows[i]
          /\ i \in DOMAIN verdicts =>
                 /\ Len(verdicts[i]) = CellCount
                 /\ \A c \in NumberedCells :
                        IF <<i, c>> \in DOMAIN sweepPoints
                        THEN sweepPoints[<<i, c>>] = verdicts[i][c]
                        ELSE sweepFaults > 0
      BY <2>3 DEF SweepInv, SweepOnceInv
    <3>4. QED
      BY <3>1, <3>2, <3>3
  <2>4. QED
    BY <1>1, <1>7, <1>9, <2>1, <2>2, <2>3 DEF SweepOnceInv
<1>16. SweepEmonInv'
  BY <1>1 DEF SweepInv, SweepEmonInv, EmonStopsWithCell, Measuring
<1>17. QED
  BY <1>11, <1>12, <1>13, <1>14, <1>15, <1>16 DEF SweepInv

LEMMA AnalyzeSweepKeeps ==
    ASSUME SweepInv, AnalyzeSweep
    PROVE  SweepInv'
<1>1. /\ sweep.pc = "analyze" /\ sweep' = NoSweep
      /\ verdicts' = With(verdicts, sweep.id, sweep.made)
      /\ UNCHANGED <<trials, collecting, sweepRows, sweepRuns, sweepPoints, launches,
                     abandoned, sweepFaults>>
  BY DEF AnalyzeSweep, history
<1>2. /\ DOMAIN verdicts' = DOMAIN verdicts \cup {sweep.id} /\ verdicts'[sweep.id] = sweep.made
      /\ \A i \in DOMAIN verdicts : i # sweep.id => verdicts'[i] = verdicts[i]
  BY <1>1 DEF With
<1>3. /\ sweep'.pc = "none" /\ sweep'.cell = 0 /\ sweep'.made = <<>>
      /\ sweep'.dry = FALSE /\ sweep'.emon = FALSE
      /\ sweep' = [pc |-> sweep'.pc, id |-> sweep'.id, cell |-> sweep'.cell, dry |-> sweep'.dry,
                   emon |-> sweep'.emon, made |-> sweep'.made]
  BY <1>1 DEF NoSweep
<1>4. /\ sweep.made \in Seq(SweepPoint) /\ Len(sweep.made) = CellCount
      /\ launches \in Seq(SweepIds) /\ launches # <<>> /\ Launches \in Nat /\ Launches >= 1
      /\ sweepFaults \in Nat /\ sweep.id \in SweepIds /\ sweep.cell = CellCount
  <2>1. Made = CellCount
    BY <1>1 DEF Made
  <2>2. sweepFaults \in Nat /\ sweep.id \in SweepIds /\ sweep.cell = CellCount
    BY <1>1 DEF SweepInv, SweepShapeInv, SweepCurrentInv
  <2>3. QED
    BY <1>1, <2>1, <2>2, SweepFields
<1>5. SweepShapeInv'
  <2>1. Made' = 0 /\ sweep'.made \in Seq(SweepPoint) /\ Len(sweep'.made) = 0
    BY <1>3 DEF Made
  <2>2. DOMAIN verdicts' \subseteq SweepIds
    BY <1>2, <1>4 DEF SweepInv, SweepShapeInv
  <2>3. /\ (IF sweep'.pc = "none" THEN sweep' = NoSweep ELSE sweep'.cell \in NumberedCells)
        /\ sweep'.dry \in BOOLEAN /\ sweep'.emon \in BOOLEAN
        /\ sweep'.pc \in {"none", "cell", "harbor", "collect", "store", "analyze"}
        /\ sweep'.pc = "analyze" => sweep'.cell = CellCount
    BY <1>1, <1>3
  <2>4. /\ trials' \in [NumberedCells -> [by : Nat, n : Nat, before : Nat]]
        /\ sweepFaults' \in Nat
        /\ launches' \in Seq(SweepIds) /\ DOMAIN sweepRows' \subseteq SweepIds
        /\ DOMAIN sweepPoints' \subseteq SweepIds \X NumberedCells
    BY <1>1 DEF SweepInv, SweepShapeInv
  <2>5. QED
    BY <1>3, <2>1, <2>2, <2>3, <2>4 DEF SweepShapeInv
<1>6. SweepRowsInv'
  <2>1. \A i : Launched(i)' <=> Launched(i)
    BY <1>1 DEF Launched
  <2>2. sweep.id \in sweepRuns /\ Launched(sweep.id)
    <3>1. launches[Len(launches)] = sweep.id /\ sweep.id \in sweepRuns
      BY <1>1 DEF SweepInv, SweepCurrentInv
    <3>2. Len(launches) \in DOMAIN launches
      BY <1>4
    <3>3. QED
      BY <3>1, <3>2 DEF Launched
  <2>3. PointsHaveParents'
    BY <1>1, <1>2, <2>2 DEF SweepInv, SweepRowsInv, PointsHaveParents
  <2>4. \A i \in DOMAIN verdicts' : Launched(i)'
    BY <1>2, <2>1, <2>2 DEF SweepInv, SweepRowsInv
  <2>5. /\ \A k \in DOMAIN sweepPoints' : Launched(k[1])' /\ PointOK(sweepPoints'[k])
        /\ \A k \in DOMAIN sweepPoints' : sweepPoints'[k] \in SweepPoint
    BY <1>1, <2>1 DEF SweepInv, SweepRowsInv
  <2>6. QED
    BY <2>3, <2>4, <2>5 DEF SweepRowsInv
<1>7. SweepCurrentInv'
  BY <1>3 DEF SweepCurrentInv
<1>8. SweepTrialsInv'
  <2>1. Launches' = Launches
    BY <1>1 DEF Launches
  <2>2. Launches' = 1 \/ ~(Launches' <= 1)
    BY <1>4, <2>1
  <2>3. QED
    BY <1>3, <2>2 DEF SweepTrialsInv
<1>9. SweepOnceInv'
  <2>1. \A id \in SweepIds : Once(id)' <=> Once(id)
    BY <1>1 DEF Once
  <2>2. ASSUME Once(sweep.id)
        PROVE  \A c \in NumberedCells :
                   /\ <<sweep.id, c>> \in DOMAIN sweepPoints =>
                          /\ sweepPoints[<<sweep.id, c>>].source = sweepRows[sweep.id]
                          /\ sweepPoints[<<sweep.id, c>>] = sweep.made[c]
                   /\ <<sweep.id, c>> \notin DOMAIN sweepPoints => sweepFaults > 0
    <3>1. \A c \in NumberedCells :
              /\ <<sweep.id, c>> \in DOMAIN sweepPoints =>
                     Stored(c) /\ sweepPoints[<<sweep.id, c>>] = sweep.made[c]
              /\ Stored(c) => <<sweep.id, c>> \in DOMAIN sweepPoints \/ sweepFaults > 0
      BY <1>1, <1>4, <2>2 DEF SweepInv, SweepOnceInv
    <3>2. \A c \in NumberedCells : Stored(c)
      BY <1>1 DEF Stored
    <3>3. \A c \in NumberedCells : c \in DOMAIN sweep.made
      BY <1>4 DEF NumberedCells
    <3>4. \A k \in DOMAIN sweep.made : sweep.made[k].source = sweepRows[sweep.id]
      BY <1>1 DEF SweepInv, SweepCurrentInv
    <3>5. QED
      BY <3>1, <3>2, <3>3, <3>4
  <2>3. ASSUME NEW i \in SweepIds, Once(i), i # sweep.id
        PROVE  /\ \A c \in NumberedCells : <<i, c>> \in DOMAIN sweepPoints =>
                      sweepPoints[<<i, c>>].source = sweepRows[i]
               /\ i \in DOMAIN verdicts' =>
                      /\ Len(verdicts'[i]) = CellCount
                      /\ \A c \in NumberedCells :
                             IF <<i, c>> \in DOMAIN sweepPoints
                             THEN sweepPoints[<<i, c>>] = verdicts'[i][c]
                             ELSE sweepFaults > 0
    <3>1. i \in DOMAIN verdicts' => i \in DOMAIN verdicts /\ verdicts'[i] = verdicts[i]
      BY <1>2, <2>3
    <3>2. /\ \A c \in NumberedCells : <<i, c>> \in DOMAIN sweepPoints =>
                 sweepPoints[<<i, c>>].source = sweepRows[i]
          /\ i \in DOMAIN verdicts =>
                 /\ Len(verdicts[i]) = CellCount
                 /\ \A c \in NumberedCells :
                        IF <<i, c>> \in DOMAIN sweepPoints
                        THEN sweepPoints[<<i, c>>] = verdicts[i][c]
                        ELSE sweepFaults > 0
      BY <2>3 DEF SweepInv, SweepOnceInv
    <3>3. QED
      BY <3>1, <3>2
  <2>4. QED
    BY <1>1, <1>2, <1>3, <1>4, <2>1, <2>2, <2>3 DEF SweepOnceInv
<1>10. SweepEmonInv'
  BY <1>1 DEF SweepInv, SweepEmonInv, EmonStopsWithCell, Measuring
<1>11. QED
  BY <1>5, <1>6, <1>7, <1>8, <1>9, <1>10 DEF SweepInv

-------------------------------------------------------------------------------

LEMMA SweepStarts ==
    ASSUME SweepInit
    PROVE  SweepInv
<1>1. /\ sweep = NoSweep /\ collecting = {}
      /\ trials = [c \in NumberedCells |-> [by |-> 0, n |-> 0, before |-> 0]]
      /\ sweepRows = <<>> /\ sweepRuns = {} /\ sweepPoints = <<>> /\ verdicts = <<>>
      /\ launches = <<>> /\ sweepFaults = 0
  BY DEF SweepInit
<1>2. /\ sweep.pc = "none" /\ sweep.cell = 0 /\ sweep.made = <<>>
      /\ sweep.dry = FALSE /\ sweep.emon = FALSE
      /\ sweep = [pc |-> sweep.pc, id |-> sweep.id, cell |-> sweep.cell, dry |-> sweep.dry,
                  emon |-> sweep.emon, made |-> sweep.made]
  BY <1>1 DEF NoSweep
<1>3. DOMAIN sweepRows = {} /\ DOMAIN sweepPoints = {} /\ DOMAIN verdicts = {} /\ DOMAIN launches = {}
  BY <1>1
<1>4. SweepShapeInv
  <2>1. Made = 0 /\ sweep.made \in Seq(SweepPoint) /\ Len(sweep.made) = 0
    BY <1>2 DEF Made
  <2>2. trials \in [NumberedCells -> [by : Nat, n : Nat, before : Nat]]
    BY <1>1
  <2>3. sweepFaults \in Nat /\ launches \in Seq(SweepIds)
    <3>1. <<>> \in Seq(SweepIds)
      OBVIOUS
    <3>2. QED
      BY <1>1, <3>1
  <2>4. QED
    BY <1>1, <1>2, <1>3, <2>1, <2>2, <2>3 DEF SweepShapeInv
<1>5. SweepRowsInv
  BY <1>1, <1>3 DEF SweepRowsInv, PointsHaveParents
<1>6. SweepCurrentInv
  BY <1>2 DEF SweepCurrentInv
<1>7. SweepTrialsInv
  BY <1>1 DEF SweepTrialsInv
<1>8. SweepOnceInv
  BY <1>3 DEF SweepOnceInv, Once
<1>9. SweepEmonInv
  BY <1>1 DEF SweepEmonInv, EmonStopsWithCell
<1>10. QED
  BY <1>4, <1>5, <1>6, <1>7, <1>8, <1>9 DEF SweepInv

LEMMA SweepStaysIdle ==
    ASSUME SweepInv, UNCHANGED sweepVars
    PROVE  SweepInv'
<1>1. UNCHANGED <<sweep, trials, collecting, sweepRows, sweepRuns, sweepPoints, verdicts, launches,
                  abandoned, sweepFaults>>
  BY DEF sweepVars
<1>2. SweepShapeInv'
  BY <1>1 DEF SweepInv, SweepShapeInv, Made
<1>3. SweepRowsInv'
  BY <1>1 DEF SweepInv, SweepRowsInv, PointsHaveParents, Launched
<1>4. SweepCurrentInv' /\ SweepEmonInv'
  BY <1>1 DEF SweepInv, SweepCurrentInv, SweepEmonInv, EmonStopsWithCell, Measuring, ThisCell,
              Launches
<1>5. SweepTrialsInv'
  BY <1>1 DEF SweepInv, SweepTrialsInv, Launches
<1>6. SweepOnceInv'
  <2>1. /\ \A id : Once(id)' <=> Once(id)
        /\ \A c : Stored(c)' <=> Stored(c)
    BY <1>1 DEF Once, Stored
  <2>2. QED
    BY <1>1, <2>1 DEF SweepInv, SweepOnceInv
<1>7. QED
  BY <1>2, <1>3, <1>4, <1>5, <1>6 DEF SweepInv

LEMMA SweepInvHolds == SweepRunsSpec => []SweepInv
<1>1. SweepInit => SweepInv
  BY SweepStarts
<1>2. SweepInv /\ [SweepRunsNext]_sweepVars => SweepInv'
  BY StartSweepKeeps, StartCellKeeps, HarborRunKeeps, CollectCellKeeps, DryCellKeeps,
     StoreCellKeeps, AnalyzeSweepKeeps, KillSweepKeeps, SweepStaysIdle
     DEF SweepRunsNext, SweepSteps
<1>3. QED
  BY <1>1, <1>2, PTL DEF SweepRunsSpec

LEMMA SweepInvImplies ==
    SweepInv => /\ SweepTypeOK /\ PointsHaveParents /\ SweepIsWhole /\ NoTrialsNoPoint
                /\ FirstSweepCountsItsOwn /\ EmonStopsWithCell
<1> SUFFICES ASSUME SweepInv
             PROVE  /\ SweepTypeOK /\ PointsHaveParents /\ SweepIsWhole /\ NoTrialsNoPoint
                    /\ FirstSweepCountsItsOwn /\ EmonStopsWithCell
  OBVIOUS
<1>1. SweepTypeOK
  <2>1. sweep.cell \in 0 .. CellCount
    BY SweepAssumption DEF SweepInv, SweepShapeInv, NoSweep, NumberedCells
  <2>2. Made <= CellCount
    <3>1. CASE sweep.pc = "none"
      BY <3>1, SweepAssumption DEF Made
    <3>2. CASE sweep.pc # "none"
      BY <2>1, <3>2, SweepAssumption DEF Made, SweepInv, SweepShapeInv
    <3>3. QED
      BY <3>1, <3>2
  <2>3. QED
    BY <2>1, <2>2 DEF SweepTypeOK, SweepInv, SweepShapeInv
<1>2. PointsHaveParents /\ NoTrialsNoPoint /\ FirstSweepCountsItsOwn
  BY DEF SweepInv, SweepRowsInv, NoTrialsNoPoint, FirstSweepCountsItsOwn, PointOK
<1>3. SweepIsWhole
  <2>1. SUFFICES ASSUME NEW id \in SweepIds, Once(id), sweep.pc # "none", sweep.id = id
                 PROVE  /\ id \notin DOMAIN verdicts
                        /\ \A c \in NumberedCells : <<id, c>> \in DOMAIN sweepPoints =>
                               sweepPoints[<<id, c>>].source = sweepRows[id]
    BY DEF SweepIsWhole, SweepInv, SweepOnceInv
  <2>2. /\ id \notin DOMAIN verdicts
        /\ \A c \in NumberedCells : <<id, c>> \in DOMAIN sweepPoints =>
               Stored(c) /\ sweepPoints[<<id, c>>] = sweep.made[c]
    BY <2>1 DEF SweepInv, SweepOnceInv
  <2>3. \A k \in DOMAIN sweep.made : sweep.made[k].source = sweepRows[id]
    BY <2>1 DEF SweepInv, SweepCurrentInv
  <2>4. \A c \in NumberedCells : Stored(c) => c \in DOMAIN sweep.made
    BY <2>1, StoredIsMade
  <2>5. QED
    BY <2>2, <2>3, <2>4
<1>4. EmonStopsWithCell
  BY DEF SweepInv, SweepEmonInv
<1>5. QED
  BY <1>1, <1>2, <1>3, <1>4

-------------------------------------------------------------------------------
(* The density script.                                                      *)

Part == [by : DensityAgents, more : BOOLEAN, ok : BOOLEAN]
Results == [ok : SUBSET DensityAgents, failed : SUBSET DensityAgents]
AtWork == {"working", "putting", "rest"}
Over == {"ended", "dead"}

DensityShapeInv ==
    /\ setting \in DensitySettings
    /\ driver = [pc |-> driver.pc, cell |-> driver.cell, joined |-> driver.joined]
    /\ driver.pc \in {"next", "spawn", "barrier", "join", "collect", "done"}
    /\ cell \in 0 .. CellTotal /\ driver.joined \in 0 .. AgentCount
    /\ driver.pc \notin {"next", "done"} => cell \in DensityCells
    /\ driver.pc \in {"spawn", "barrier"} => driver.joined = 0
    /\ emon \in BOOLEAN /\ mishaps \in 0 .. MaxMishaps
    /\ phase \in [DensityCells -> [DensityAgents -> PhaseNames]]
    /\ holder \in [DensityCells -> 0 .. AgentCount]
    /\ pipe \in [DensityCells -> Seq(Part)]
    /\ \A c \in DensityCells : Len(pipe[c]) <= PipeSize
    /\ heard \in [DensityCells -> Results]
    /\ killed \in [DensityCells -> SUBSET DensityAgents]
    /\ records \in Seq([cell : DensityCells, error : BOOLEAN, results : Results])

\* What the step of the driver says of the agents of its cell, and of the others.
DensityControlInv ==
    /\ StartTogether
    /\ \A c \in DensityCells, a \in DensityAgents :
           /\ c > cell \/ (c = cell /\ driver.pc = "spawn") => phase[c][a] = "none"
           /\ c < cell \/ (c = cell /\ driver.pc \in {"next", "done", "collect"}) =>
                  ~Alive(c, a) \/ c \in broken
           /\ c = cell /\ driver.pc # "join" => phase[c][a] \notin AtWork
           /\ c = cell /\ driver.pc \in {"barrier", "join", "collect"} => phase[c][a] # "none"
           /\ c = cell /\ driver.pc = "join" /\ a <= driver.joined => phase[c][a] \in Over
           /\ c = cell /\ driver.pc = "collect" => phase[c][a] \in Over
    /\ setting.emon /\ driver.pc \in {"spawn", "barrier", "join"} => emon

\* The result of an agent that has ended has been read, or is in the pipe.
Handed(c, a) ==
    \/ a \in heard[c].ok \cup heard[c].failed
    \/ \E i \in DOMAIN pipe[c] : pipe[c][i].by = a /\ ~pipe[c][i].more

DensityQueueInv ==
    \A c \in DensityCells, a \in DensityAgents :
        /\ phase[c][a] = "rest" => holder[c] = a
        /\ phase[c][a] = "ended" => Handed(c, a)
        /\ phase[c][a] = "dead" => a \in killed[c]

DensityQuietInv ==
    Drained /\ mishaps = 0 =>
        /\ broken = {}
        /\ \A c \in DensityCells :
               /\ \A a \in DensityAgents : phase[c][a] \notin {"erring", "dead"}
               /\ \A i \in DOMAIN pipe[c] : pipe[c][i].ok
               /\ heard[c].failed = {}
        /\ \A i \in DOMAIN records : records[i].results.ok = DensityAgents

DensityInv ==
    /\ DensityShapeInv /\ DensityControlInv /\ DensityQueueInv /\ DensityQuietInv
    /\ LostOnlyIfKilled

-------------------------------------------------------------------------------

LEMMA DensityTypes ==
    ASSUME DensityInv
    PROVE  /\ phase \in [DensityCells -> [DensityAgents -> PhaseNames]]
           /\ driver.cell \in 0 .. CellTotal /\ driver.joined \in 0 .. AgentCount
           /\ driver.pc \in {"next", "spawn", "barrier", "join", "collect", "done"}
           /\ driver.pc \notin {"next", "done"} => driver.cell \in DensityCells
           /\ driver = [pc |-> driver.pc, cell |-> driver.cell, joined |-> driver.joined]
           /\ mishaps \in Nat /\ mishaps \in 0 .. MaxMishaps /\ MaxMishaps \in Nat
           /\ AgentCount \in Nat /\ AgentCount >= 1 /\ CellTotal \in Nat
           /\ DensityAgents \subseteq Nat /\ DensityCells \subseteq Nat
BY DensityAssumption DEF DensityInv, DensityShapeInv, cell, DensityAgents, DensityCells

LEMMA PhaseAt ==
    ASSUME phase \in [DensityCells -> [DensityAgents -> PhaseNames]],
           NEW c \in DensityCells, NEW a \in DensityAgents, NEW v \in PhaseNames,
           phase' = [phase EXCEPT ![c][a] = v]
    PROVE  /\ phase' \in [DensityCells -> [DensityAgents -> PhaseNames]]
           /\ phase'[c][a] = v
           /\ \A d \in DensityCells, b \in DensityAgents :
                  d # c \/ b # a => phase'[d][b] = phase[d][b]
<1>1. phase[c] \in [DensityAgents -> PhaseNames]
  OBVIOUS
<1>2. phase' = [phase EXCEPT ![c] = [phase[c] EXCEPT ![a] = v]]
  OBVIOUS
<1>3. [phase[c] EXCEPT ![a] = v] \in [DensityAgents -> PhaseNames]
  BY <1>1
<1>4. QED
  BY <1>1, <1>2, <1>3

LEMMA PhasesOf ==
    ASSUME phase \in [DensityCells -> [DensityAgents -> PhaseNames]],
           NEW c \in DensityCells, NEW f \in [DensityAgents -> PhaseNames],
           phase' = [phase EXCEPT ![c] = f]
    PROVE  /\ phase' \in [DensityCells -> [DensityAgents -> PhaseNames]]
           /\ \A b \in DensityAgents : phase'[c][b] = f[b]
           /\ \A d \in DensityCells, b \in DensityAgents :
                  d # c => phase'[d][b] = phase[d][b]
OBVIOUS

\* A step of an agent, or its death.
LEMMA AgentMoves ==
    ASSUME DensityInv, NEW c \in DensityCells, NEW a \in DensityAgents, NEW v \in PhaseNames,
           Alive(c, a), v # "none", v \in AtWork => phase[c][a] \in AtWork,
           v \in {"setup", "ready"} => phase[c][a] \in {"setup", "ready"},
           phase' = [phase EXCEPT ![c][a] = v],
           UNCHANGED <<setting, driver, emon, broken>>
    PROVE  DensityControlInv'
<1>1. /\ phase'[c][a] = v
      /\ \A d \in DensityCells, b \in DensityAgents :
             d # c \/ b # a => phase'[d][b] = phase[d][b]
  BY DensityTypes, PhaseAt
<1>2. phase[c][a] \notin {"none", "ended", "dead"}
  BY DEF Alive
<1>3. StartTogether'
  <2>1. SUFFICES ASSUME NEW d \in DensityCells, NEW b \in DensityAgents,
                        phase'[d][b] \in AtWork, NEW e \in DensityAgents
                 PROVE  phase'[d][e] \notin {"none", "setup", "ready"}
    BY DEF StartTogether, AtWork
  <2>2. phase[d][b] \in AtWork
    BY <1>1, <2>1
  <2>3. phase[d][e] \notin {"none", "setup", "ready"}
    BY <2>1, <2>2 DEF DensityInv, DensityControlInv, StartTogether, AtWork
  <2>4. QED
    BY <1>1, <2>3
<1>4. ASSUME NEW d \in DensityCells, NEW b \in DensityAgents
      PROVE  /\ d > cell \/ (d = cell /\ driver.pc = "spawn") => phase'[d][b] = "none"
             /\ d < cell \/ (d = cell /\ driver.pc \in {"next", "done", "collect"}) =>
                    ~Alive(d, b)' \/ d \in broken
             /\ d = cell /\ driver.pc # "join" => phase'[d][b] \notin AtWork
             /\ d = cell /\ driver.pc \in {"barrier", "join", "collect"} => phase'[d][b] # "none"
             /\ d = cell /\ driver.pc = "join" /\ b <= driver.joined => phase'[d][b] \in Over
             /\ d = cell /\ driver.pc = "collect" => phase'[d][b] \in Over
  <2>1. /\ d > cell \/ (d = cell /\ driver.pc = "spawn") => phase[d][b] = "none"
        /\ d < cell \/ (d = cell /\ driver.pc \in {"next", "done", "collect"}) =>
               ~Alive(d, b) \/ d \in broken
        /\ d = cell /\ driver.pc # "join" => phase[d][b] \notin AtWork
        /\ d = cell /\ driver.pc \in {"barrier", "join", "collect"} => phase[d][b] # "none"
        /\ d = cell /\ driver.pc = "join" /\ b <= driver.joined => phase[d][b] \in Over
        /\ d = cell /\ driver.pc = "collect" => phase[d][b] \in Over
    BY DEF DensityInv, DensityControlInv
  <2>2. CASE d # c \/ b # a
    BY <1>1, <2>1, <2>2 DEF Alive
  <2>3. CASE d = c /\ b = a
    BY <1>1, <1>2, <2>1, <2>3 DEF Alive, Over
  <2>4. QED
    BY <2>2, <2>3
<1>5. UNCHANGED <<cell, driver.pc, driver.joined, setting.emon>>
  BY DEF cell
<1>6. (setting.emon /\ driver.pc \in {"spawn", "barrier", "join"} => emon)'
  BY DEF DensityInv, DensityControlInv
<1>7. QED
  BY <1>3, <1>4, <1>5, <1>6 DEF DensityControlInv

\* A step of the driver that leaves the agents alone.
LEMMA DriverMoves ==
    ASSUME DensityInv, UNCHANGED <<setting, workers>>,
           NEW p \in {"next", "spawn", "barrier", "join", "collect", "done"},
           NEW k \in 0 .. CellTotal, NEW j \in 0 .. AgentCount,
           driver' = [pc |-> p, cell |-> k, joined |-> j],
           p \notin {"next", "done"} => k \in DensityCells,
           p \in {"spawn", "barrier"} => j = 0,
           emon' \in BOOLEAN, mishaps' \in 0 .. MaxMishaps, mishaps' >= mishaps,
           DensityControlInv'
    PROVE  /\ records' \in Seq([cell : DensityCells, error : BOOLEAN, results : Results]) =>
                  DensityShapeInv'
           /\ DensityQueueInv'
           /\ UNCHANGED records => DensityQuietInv' /\ LostOnlyIfKilled'
<1>1. UNCHANGED <<phase, broken, holder, pipe, reading, heard, killed>>
  BY DEF workers
<1>2. driver'.pc = p /\ driver'.cell = k /\ driver'.joined = j
  OBVIOUS
<1>3. ASSUME records' \in Seq([cell : DensityCells, error : BOOLEAN, results : Results])
      PROVE  DensityShapeInv'
  <2>1. driver' = [pc |-> driver'.pc, cell |-> driver'.cell, joined |-> driver'.joined]
    BY <1>2
  <2>2. QED
    BY <1>1, <1>2, <1>3, <2>1 DEF DensityInv, DensityShapeInv, cell
<1>4. DensityQueueInv'
  BY <1>1 DEF DensityInv, DensityQueueInv, Handed
<1>5. ASSUME UNCHANGED records
      PROVE  DensityQuietInv' /\ LostOnlyIfKilled'
  <2>1. mishaps' = 0 => mishaps = 0
    BY DensityTypes
  <2>2. DensityQuietInv'
    BY <1>1, <1>5, <2>1 DEF DensityInv, DensityQuietInv, Drained
  <2>3. LostOnlyIfKilled'
    BY <1>1, <1>5 DEF DensityInv, LostOnlyIfKilled
  <2>4. QED
    BY <2>2, <2>3
<1>6. QED
  BY <1>3, <1>4, <1>5

LEMMA RecordsAre ==
    ASSUME DensityInv, NEW i \in DOMAIN records
    PROVE  /\ records[i].cell \in DensityCells /\ records[i].error \in BOOLEAN
           /\ records[i].results \in Results
<1> DEFINE R == [cell : DensityCells, error : BOOLEAN, results : Results]
<1>1. records \in Seq(R)
  BY DEF DensityInv, DensityShapeInv
<1> HIDE DEF R
<1>2. records[i] \in R
  BY <1>1
<1>3. QED
  BY <1>2 DEF R

\* What a step of an agent, or of the queue, does to the shapes.
LEMMA ShapeStays ==
    ASSUME DensityInv, UNCHANGED <<setting, driver, emon, records>>,
           mishaps' \in 0 .. MaxMishaps,
           phase' \in [DensityCells -> [DensityAgents -> PhaseNames]],
           holder' \in [DensityCells -> 0 .. AgentCount],
           pipe' \in [DensityCells -> Seq(Part)],
           \A c \in DensityCells : Len(pipe'[c]) <= PipeSize,
           heard' \in [DensityCells -> Results],
           killed' \in [DensityCells -> SUBSET DensityAgents]
    PROVE  DensityShapeInv'
BY DEF DensityInv, DensityShapeInv, cell

LEMMA FaultIs ==
    ASSUME DensityInv, Mishap
    PROVE  mishaps' \in 0 .. MaxMishaps /\ mishaps' = mishaps + 1 /\ mishaps' # 0
BY DensityTypes DEF Mishap

LEMMA ProgressKeeps ==
    ASSUME DensityInv, NEW c \in DensityCells, NEW a \in DensityAgents, Progress(c, a)
    PROVE  DensityInv'
<1>1. /\ UNCHANGED <<setting, driver, emon, broken, holder, pipe, reading, heard, killed, records>>
      /\ mishaps' \in 0 .. MaxMishaps /\ (mishaps' = 0 => mishaps = 0)
  <2>1. Mishap \/ UNCHANGED mishaps
    BY DEF Progress
  <2>2. QED
    BY <2>1, FaultIs, DensityTypes DEF Progress
<1>2. PICK v \in {"ready", "erring", "putting"} :
          /\ phase' = [phase EXCEPT ![c][a] = v]
          /\ phase[c][a] \in {"setup", "working"}
          /\ v = "putting" => phase[c][a] = "working"
          /\ v = "ready" => phase[c][a] = "setup"
          /\ v = "erring" => broken # {} \/ mishaps' # 0
  <2>1. CASE phase[c][a] = "setup" /\ UNCHANGED mishaps
             /\ phase' = [phase EXCEPT ![c][a] = IF c \in broken THEN AfterBroken ELSE "ready"]
    <3>1. CASE c \in broken
      BY <2>1, <3>1 DEF AfterBroken
    <3>2. CASE c \notin broken
      BY <2>1, <3>2
    <3>3. QED
      BY <3>1, <3>2
  <2>2. CASE phase[c][a] = "working" /\ phase' = [phase EXCEPT ![c][a] = "putting"]
    BY <2>2
  <2>3. CASE phase[c][a] = "working" /\ Mishap /\ phase' = [phase EXCEPT ![c][a] = "erring"]
    BY <2>3, FaultIs
  <2>4. QED
    BY <2>1, <2>2, <2>3 DEF Progress
<1>3. v \in PhaseNames
  BY DEF PhaseNames
<1>4. /\ phase' \in [DensityCells -> [DensityAgents -> PhaseNames]] /\ phase'[c][a] = v
      /\ \A d \in DensityCells, b \in DensityAgents : d # c \/ b # a => phase'[d][b] = phase[d][b]
  BY <1>2, <1>3, DensityTypes, PhaseAt
<1>5. DensityControlInv'
  <2>1. Alive(c, a)
    BY <1>2 DEF Alive
  <2>2. /\ v \in AtWork => phase[c][a] \in AtWork
        /\ v \in {"setup", "ready"} => phase[c][a] \in {"setup", "ready"}
    BY <1>2 DEF AtWork
  <2>3. QED
    BY <1>1, <1>2, <1>3, <2>1, <2>2, AgentMoves
<1>6. DensityShapeInv'
  BY <1>1, <1>4, ShapeStays DEF DensityInv, DensityShapeInv
<1>7. DensityQueueInv'
  <2>1. \A d \in DensityCells, b \in DensityAgents : Handed(d, b)' <=> Handed(d, b)
    BY <1>1 DEF Handed
  <2>2. QED
    BY <1>1, <1>4, <2>1 DEF DensityInv, DensityQueueInv
<1>8. DensityQuietInv'
  <2>1. SUFFICES ASSUME Drained, mishaps' = 0
                 PROVE  \A d \in DensityCells, b \in DensityAgents : phase'[d][b] \notin {"erring", "dead"}
    BY <1>1 DEF DensityInv, DensityQuietInv, Drained
  <2>2. broken = {} /\ \A d \in DensityCells, b \in DensityAgents : phase[d][b] \notin {"erring", "dead"}
    BY <1>1, <2>1 DEF DensityInv, DensityQuietInv
  <2>3. v # "erring" /\ v # "dead"
    BY <1>2, <2>1, <2>2
  <2>4. QED
    BY <1>4, <2>2, <2>3
<1>9. LostOnlyIfKilled'
  BY <1>1 DEF DensityInv, LostOnlyIfKilled
<1>10. QED
  BY <1>5, <1>6, <1>7, <1>8, <1>9 DEF DensityInv

LEMMA AgentDiesKeeps ==
    ASSUME DensityInv, NEW c \in DensityCells, NEW a \in DensityAgents, AgentDies(c, a)
    PROVE  DensityInv'
<1>1. /\ UNCHANGED <<setting, driver, emon, broken, holder, pipe, reading, heard, records>>
      /\ mishaps' \in 0 .. MaxMishaps /\ mishaps' # 0 /\ Alive(c, a)
      /\ phase' = [phase EXCEPT ![c][a] = "dead"]
      /\ killed' = [killed EXCEPT ![c] = @ \cup {a}]
  BY FaultIs DEF AgentDies, Dead
<1>2. "dead" \in PhaseNames
  BY DEF PhaseNames
<1>3. /\ phase' \in [DensityCells -> [DensityAgents -> PhaseNames]] /\ phase'[c][a] = "dead"
      /\ \A d \in DensityCells, b \in DensityAgents : d # c \/ b # a => phase'[d][b] = phase[d][b]
  BY <1>1, <1>2, DensityTypes, PhaseAt
<1>4. /\ killed' \in [DensityCells -> SUBSET DensityAgents] /\ a \in killed'[c]
      /\ \A d \in DensityCells : killed[d] \subseteq killed'[d]
  BY <1>1 DEF DensityInv, DensityShapeInv
<1>5. DensityControlInv'
  BY <1>1, <1>2, AgentMoves DEF AtWork
<1>6. DensityShapeInv'
  BY <1>1, <1>3, <1>4, ShapeStays DEF DensityInv, DensityShapeInv
<1>7. DensityQueueInv'
  <2>1. \A d \in DensityCells, b \in DensityAgents : Handed(d, b)' <=> Handed(d, b)
    BY <1>1 DEF Handed
  <2>2. QED
    BY <1>1, <1>3, <1>4, <2>1 DEF DensityInv, DensityQueueInv
<1>8. DensityQuietInv'
  BY <1>1 DEF DensityQuietInv
<1>9. LostOnlyIfKilled'
  <2>1. \A i \in DOMAIN records : records[i].cell \in DensityCells
    BY RecordsAre
  <2>2. QED
    BY <1>1, <1>4, <2>1 DEF DensityInv, LostOnlyIfKilled
<1>10. QED
  BY <1>5, <1>6, <1>7, <1>8, <1>9 DEF DensityInv

LEMMA PutResultKeeps ==
    ASSUME DensityInv, NEW c \in DensityCells, NEW a \in DensityAgents, PutResult(c, a)
    PROVE  DensityInv'
<1> DEFINE more == phase[c][a] = "putting"
           part == [by |-> a, more |-> more, ok |-> phase[c][a] # "erring"]
           v == IF more THEN "rest" ELSE "ended"
<1>1. /\ UNCHANGED <<setting, driver, emon, broken, reading, heard, killed, records, mishaps>>
      /\ phase[c][a] \in {"putting", "rest", "erring"}
      /\ holder[c] \in {0, a} /\ Len(pipe[c]) < PipeSize
      /\ pipe' = [pipe EXCEPT ![c] = Append(@, part)]
      /\ holder' = [holder EXCEPT ![c] = IF more THEN a ELSE 0]
      /\ phase' = [phase EXCEPT ![c][a] = v]
  BY DEF PutResult, MayWrite
<1>2. part \in Part /\ part.by = a /\ part.more = more /\ part.ok = (phase[c][a] # "erring")
  BY DEF Part
<1>3. /\ v \in {"rest", "ended"} /\ (v = "rest" <=> more) /\ v \in PhaseNames
  BY DEF PhaseNames
<1>4. pipe[c] \in Seq(Part) /\ holder[c] \in 0 .. AgentCount
  BY DEF DensityInv, DensityShapeInv
<1> HIDE DEF part, v
<1>5. /\ Append(pipe[c], part) \in Seq(Part) /\ Len(Append(pipe[c], part)) = Len(pipe[c]) + 1
      /\ DOMAIN Append(pipe[c], part) = 1 .. Len(pipe[c]) + 1
      /\ DOMAIN pipe[c] = 1 .. Len(pipe[c]) /\ Len(pipe[c]) \in Nat
      /\ Append(pipe[c], part)[Len(pipe[c]) + 1] = part
      /\ \A i \in DOMAIN pipe[c] : Append(pipe[c], part)[i] = pipe[c][i]
  BY <1>2, <1>4
<1>6. /\ pipe' \in [DensityCells -> Seq(Part)]
      /\ pipe'[c] = Append(pipe[c], part)
      /\ \A d \in DensityCells : d # c => pipe'[d] = pipe[d]
  BY <1>1, <1>5 DEF DensityInv, DensityShapeInv
<1>7. /\ phase' \in [DensityCells -> [DensityAgents -> PhaseNames]] /\ phase'[c][a] = v
      /\ \A d \in DensityCells, b \in DensityAgents : d # c \/ b # a => phase'[d][b] = phase[d][b]
  BY <1>1, <1>3, DensityTypes, PhaseAt
<1>8. /\ holder' \in [DensityCells -> 0 .. AgentCount]
      /\ holder'[c] = IF more THEN a ELSE 0
      /\ \A d \in DensityCells : d # c => holder'[d] = holder[d]
  <2>1. (IF more THEN a ELSE 0) \in 0 .. AgentCount
    BY DensityAssumption DEF DensityAgents
  <2>2. QED
    BY <1>1, <2>1 DEF DensityInv, DensityShapeInv
<1>9. DensityControlInv'
  <2>1. Alive(c, a)
    BY <1>1 DEF Alive
  <2>2. v \in AtWork => phase[c][a] \in AtWork
    BY <1>3 DEF AtWork
  <2>3. QED
    BY <1>1, <1>3, <2>1, <2>2, AgentMoves
<1>10. DensityShapeInv'
  <2>1. \A d \in DensityCells : Len(pipe'[d]) <= PipeSize
    BY <1>1, <1>5, <1>6, DensityAssumption DEF DensityInv, DensityShapeInv
  <2>2. QED
    BY <1>1, <1>6, <1>7, <1>8, <2>1, ShapeStays DEF DensityInv, DensityShapeInv
<1>11. DensityQueueInv'
  <2>1. SUFFICES ASSUME NEW d \in DensityCells, NEW b \in DensityAgents
                 PROVE  /\ phase'[d][b] = "rest" => holder'[d] = b
                        /\ phase'[d][b] = "ended" => Handed(d, b)'
                        /\ phase'[d][b] = "dead" => b \in killed'[d]
    BY DEF DensityQueueInv
  <2>2. /\ phase[d][b] = "rest" => holder[d] = b
        /\ phase[d][b] = "ended" => Handed(d, b)
        /\ phase[d][b] = "dead" => b \in killed[d]
    BY DEF DensityInv, DensityQueueInv
  <2>3. Handed(d, b) => Handed(d, b)'
    <3>1. CASE d = c
      <4>1. \A i \in DOMAIN pipe[c] : i \in DOMAIN pipe'[c] /\ pipe'[c][i] = pipe[c][i]
        BY <1>5, <1>6
      <4>2. QED
        BY <1>1, <3>1, <4>1 DEF Handed
    <3>2. CASE d # c
      BY <1>1, <1>6, <3>2 DEF Handed
    <3>3. QED
      BY <3>1, <3>2
  <2>4. CASE d # c
    BY <1>1, <1>7, <1>8, <2>2, <2>3, <2>4
  <2>5. CASE d = c /\ b = a
    <3>1. more => holder'[c] = a
      BY <1>8
    <3>2. ~more => Handed(c, a)'
      <4>1. Len(pipe[c]) + 1 \in DOMAIN pipe'[c] /\ pipe'[c][Len(pipe[c]) + 1] = part
        BY <1>5, <1>6
      <4>2. QED
        BY <1>2, <4>1 DEF Handed
    <3>3. QED
      BY <1>3, <1>7, <2>5, <3>1, <3>2
  <2>6. CASE d = c /\ b # a
    <3>1. phase[c][b] # "rest"
      <4>1. b # 0
        BY DEF DensityAgents
      <4>2. QED
        BY <1>1, <2>2, <2>6, <4>1
    <3>2. QED
      BY <1>1, <1>7, <2>2, <2>3, <2>6, <3>1
  <2>7. QED
    BY <2>4, <2>5, <2>6
<1>12. DensityQuietInv'
  <2>1. SUFFICES ASSUME Drained, mishaps = 0
                 PROVE  \A d \in DensityCells :
                            /\ \A b \in DensityAgents : phase'[d][b] \notin {"erring", "dead"}
                            /\ \A i \in DOMAIN pipe'[d] : pipe'[d][i].ok
    BY <1>1 DEF DensityInv, DensityQuietInv, Drained
  <2>2. \A d \in DensityCells :
            /\ \A b \in DensityAgents : phase[d][b] \notin {"erring", "dead"}
            /\ \A i \in DOMAIN pipe[d] : pipe[d][i].ok
    BY <2>1 DEF DensityInv, DensityQuietInv
  <2>3. part.ok
    BY <1>2, <2>2
  <2>4. \A i \in DOMAIN pipe'[c] : i \in DOMAIN pipe[c] \/ i = Len(pipe[c]) + 1
    BY <1>5, <1>6
  <2>5. \A i \in DOMAIN pipe'[c] : pipe'[c][i].ok
    BY <1>5, <1>6, <2>2, <2>3, <2>4
  <2>6. \A d \in DensityCells, b \in DensityAgents : phase'[d][b] \notin {"erring", "dead"}
    BY <1>3, <1>7, <2>2
  <2>7. QED
    BY <1>6, <2>2, <2>5, <2>6
<1>13. LostOnlyIfKilled'
  BY <1>1 DEF DensityInv, LostOnlyIfKilled
<1>14. QED
  BY <1>9, <1>10, <1>11, <1>12, <1>13 DEF DensityInv

LEMMA ReadPartKeeps ==
    ASSUME DensityInv, ReadPart
    PROVE  DensityInv'
<1> DEFINE part == Head(pipe[cell])
<1>1. /\ UNCHANGED <<setting, driver, emon, phase, broken, holder, killed, records, mishaps>>
      /\ Reading /\ pipe[cell] # <<>>
      /\ pipe' = [pipe EXCEPT ![cell] = Tail(@)]
      /\ heard' = CASE part.more -> heard
                    [] ~part.more /\ part.ok -> [heard EXCEPT ![cell].ok = @ \cup {part.by}]
                    [] ~part.more /\ ~part.ok -> [heard EXCEPT ![cell].failed = @ \cup {part.by}]
  BY DEF ReadPart
<1>2. cell \in DensityCells
  <2>1. driver.pc \in {"barrier", "join", "collect"}
    BY <1>1 DEF Reading
  <2>2. QED
    BY <2>1, DensityTypes DEF cell
<1>3. pipe[cell] \in Seq(Part) /\ Len(pipe[cell]) <= PipeSize /\ heard[cell] \in Results
  BY <1>2 DEF DensityInv, DensityShapeInv
<1>4. /\ part \in Part /\ part = pipe[cell][1] /\ 1 \in DOMAIN pipe[cell]
      /\ Tail(pipe[cell]) \in Seq(Part) /\ Len(Tail(pipe[cell])) = Len(pipe[cell]) - 1
      /\ DOMAIN pipe[cell] = 1 .. Len(pipe[cell]) /\ Len(pipe[cell]) \in Nat
      /\ DOMAIN Tail(pipe[cell]) = 1 .. Len(pipe[cell]) - 1
      /\ \A i \in 1 .. Len(pipe[cell]) - 1 : Tail(pipe[cell])[i] = pipe[cell][i + 1]
  BY <1>1, <1>3
<1> HIDE DEF part
<1>5. part.by \in DensityAgents /\ part.more \in BOOLEAN /\ part.ok \in BOOLEAN
  BY <1>4 DEF Part
<1>6. /\ pipe' \in [DensityCells -> Seq(Part)] /\ pipe'[cell] = Tail(pipe[cell])
      /\ \A d \in DensityCells : d # cell => pipe'[d] = pipe[d]
  BY <1>1, <1>2, <1>4 DEF DensityInv, DensityShapeInv
<1>7. /\ heard' \in [DensityCells -> Results]
      /\ \A d \in DensityCells : heard[d].ok \subseteq heard'[d].ok /\ heard[d].failed \subseteq heard'[d].failed
      /\ \A d \in DensityCells : d # cell => heard'[d] = heard[d]
      /\ ~part.more => part.by \in heard'[cell].ok \cup heard'[cell].failed
      /\ part.ok => heard'[cell].failed = heard[cell].failed
  <2>1. heard \in [DensityCells -> Results]
    BY DEF DensityInv, DensityShapeInv
  <2>2. CASE part.more
    BY <1>1, <2>1, <2>2
  <2>3. CASE ~part.more /\ part.ok
    <3>1. heard' = [heard EXCEPT ![cell] = [heard[cell] EXCEPT !.ok = heard[cell].ok \cup {part.by}]]
      BY <1>1, <2>3
    <3>2. /\ [heard[cell] EXCEPT !.ok = heard[cell].ok \cup {part.by}] \in Results
          /\ [heard[cell] EXCEPT !.ok = heard[cell].ok \cup {part.by}].ok = heard[cell].ok \cup {part.by}
          /\ [heard[cell] EXCEPT !.ok = heard[cell].ok \cup {part.by}].failed = heard[cell].failed
      BY <1>3, <1>5 DEF Results
    <3>3. QED
      BY <1>2, <2>1, <2>3, <3>1, <3>2
  <2>4. CASE ~part.more /\ ~part.ok
    <3>1. heard' = [heard EXCEPT ![cell] = [heard[cell] EXCEPT !.failed = heard[cell].failed \cup {part.by}]]
      BY <1>1, <2>4
    <3>2. /\ [heard[cell] EXCEPT !.failed = heard[cell].failed \cup {part.by}] \in Results
          /\ [heard[cell] EXCEPT !.failed = heard[cell].failed \cup {part.by}].failed
                 = heard[cell].failed \cup {part.by}
          /\ [heard[cell] EXCEPT !.failed = heard[cell].failed \cup {part.by}].ok = heard[cell].ok
      BY <1>3, <1>5 DEF Results
    <3>3. QED
      BY <1>2, <2>1, <2>4, <3>1, <3>2
  <2>5. QED
    BY <1>5, <2>2, <2>3, <2>4
<1>8. DensityShapeInv'
  <2>1. \A d \in DensityCells : Len(pipe'[d]) <= PipeSize
    <3>1. Len(pipe'[cell]) <= PipeSize
      BY <1>3, <1>4, <1>6, DensityAssumption
    <3>2. \A d \in DensityCells : Len(pipe[d]) <= PipeSize
      BY DEF DensityInv, DensityShapeInv
    <3>3. QED
      BY <1>6, <3>1, <3>2
  <2>2. QED
    BY <1>1, <1>6, <1>7, <2>1, ShapeStays DEF DensityInv, DensityShapeInv
<1>9. DensityControlInv'
  BY <1>1 DEF DensityInv, DensityControlInv, StartTogether, Alive, cell
<1>10. DensityQueueInv'
  <2>1. ASSUME NEW d \in DensityCells, NEW b \in DensityAgents, Handed(d, b)
        PROVE  Handed(d, b)'
    <3>1. CASE b \in heard[d].ok \cup heard[d].failed
      BY <1>7, <3>1 DEF Handed
    <3>2. CASE b \notin heard[d].ok \cup heard[d].failed
      <4>1. PICK i \in DOMAIN pipe[d] : pipe[d][i].by = b /\ ~pipe[d][i].more
        BY <2>1, <3>2 DEF Handed
      <4>2. CASE d # cell
        BY <1>6, <4>1, <4>2 DEF Handed
      <4>3. CASE d = cell /\ i = 1
        BY <1>4, <1>7, <4>1, <4>3 DEF Handed
      <4>4. CASE d = cell /\ i # 1
        <5>1. i - 1 \in 1 .. Len(pipe[cell]) - 1 /\ (i - 1) + 1 = i
          BY <1>4, <4>1, <4>4
        <5>2. i - 1 \in DOMAIN pipe'[d] /\ pipe'[d][i - 1] = pipe[d][i]
          BY <1>4, <1>6, <4>4, <5>1
        <5>3. QED
          BY <4>1, <5>2 DEF Handed
      <4>5. QED
        BY <4>2, <4>3, <4>4
    <3>3. QED
      BY <3>1, <3>2
  <2>2. QED
    BY <1>1, <2>1 DEF DensityInv, DensityQueueInv
<1>11. DensityQuietInv'
  <2>1. SUFFICES ASSUME Drained, mishaps = 0
                 PROVE  \A d \in DensityCells :
                            /\ \A i \in DOMAIN pipe'[d] : pipe'[d][i].ok
                            /\ heard'[d].failed = {}
    BY <1>1 DEF DensityInv, DensityQuietInv, Drained
  <2>2. \A d \in DensityCells : heard[d].failed = {} /\ \A i \in DOMAIN pipe[d] : pipe[d][i].ok
    BY <2>1 DEF DensityInv, DensityQuietInv
  <2>3. part.ok
    BY <1>2, <1>4, <2>2
  <2>4. \A i \in DOMAIN pipe'[cell] : i + 1 \in DOMAIN pipe[cell] /\ pipe'[cell][i] = pipe[cell][i + 1]
    BY <1>4, <1>6
  <2>5. \A d \in DensityCells : heard'[d].failed = {}
    BY <1>7, <2>2, <2>3
  <2>6. QED
    BY <1>2, <1>6, <2>2, <2>4, <2>5
<1>12. LostOnlyIfKilled'
  BY <1>1 DEF DensityInv, LostOnlyIfKilled
<1>13. QED
  BY <1>8, <1>9, <1>10, <1>11, <1>12 DEF DensityInv

-------------------------------------------------------------------------------
(* The steps of the driver. *)

\* A record of an error; of a cell whose agents have all ended, or were killed.
LEMMA RecordKeeps ==
    ASSUME DensityInv, UNCHANGED <<setting, workers>>, mishaps' \in 0 .. MaxMishaps, mishaps' >= mishaps,
           NEW c \in DensityCells, NEW e \in BOOLEAN, NEW r \in Results, Record(c, e, r),
           e \/ DensityAgents \subseteq r.ok \cup r.failed \cup killed[c],
           Drained /\ mishaps' = 0 => r.ok = DensityAgents
    PROVE  /\ records' \in Seq([cell : DensityCells, error : BOOLEAN, results : Results])
           /\ DensityQuietInv' /\ LostOnlyIfKilled'
<1> DEFINE R == [cell : DensityCells, error : BOOLEAN, results : Results]
           new == [cell |-> c, error |-> e, results |-> r]
<1>1. /\ UNCHANGED <<phase, broken, holder, pipe, reading, heard, killed>>
      /\ records' = Append(records, new)
  BY DEF workers, Record
<1>2. records \in Seq(R) /\ new \in R /\ new.cell = c /\ new.error = e /\ new.results = r
  BY DEF DensityInv, DensityShapeInv
<1>3. mishaps' = 0 => mishaps = 0
  BY DensityTypes
<1> HIDE DEF R, new
<1>4. /\ records' \in Seq(R)
      /\ \A i \in DOMAIN records' : \/ i \in DOMAIN records /\ records'[i] = records[i]
                                    \/ records'[i] = new
  BY <1>1, <1>2
<1>5. DensityQuietInv'
  <2>1. SUFFICES ASSUME Drained, mishaps' = 0
                 PROVE  \A i \in DOMAIN records' : records'[i].results.ok = DensityAgents
    BY <1>1, <1>3 DEF DensityInv, DensityQuietInv, Drained
  <2>2. \A i \in DOMAIN records : records[i].results.ok = DensityAgents
    BY <1>3, <2>1 DEF DensityInv, DensityQuietInv
  <2>3. QED
    BY <1>2, <1>4, <2>1, <2>2
<1>6. LostOnlyIfKilled'
  <2>1. ASSUME NEW i \in DOMAIN records'
        PROVE  records'[i].error \/ DensityAgents \subseteq
                   records'[i].results.ok \cup records'[i].results.failed \cup killed[records'[i].cell]
    <3>1. CASE records'[i] = new
      BY <1>2, <3>1
    <3>2. CASE i \in DOMAIN records /\ records'[i] = records[i]
      BY <3>2 DEF DensityInv, LostOnlyIfKilled
    <3>3. QED
      BY <1>4, <3>1, <3>2
  <2>2. QED
    BY <1>1, <2>1 DEF LostOnlyIfKilled
<1>7. QED
  BY <1>4, <1>5, <1>6 DEF R

LEMMA NothingIs == Nothing \in Results /\ Nothing.ok = {} /\ Nothing.failed = {}
BY DEF Nothing, Results

\* A record of an error is whole.
LEMMA ErrorKeeps ==
    ASSUME DensityInv, NEW c \in DensityCells, Record(c, TRUE, Nothing),
           killed' \in [DensityCells -> SUBSET DensityAgents],
           \A d \in DensityCells : killed[d] \subseteq killed'[d]
    PROVE  /\ records' \in Seq([cell : DensityCells, error : BOOLEAN, results : Results])
           /\ LostOnlyIfKilled'
<1> DEFINE R == [cell : DensityCells, error : BOOLEAN, results : Results]
           new == [cell |-> c, error |-> TRUE, results |-> Nothing]
<1>1. /\ records' = Append(records, new) /\ records \in Seq(R) /\ new \in R /\ new.error
  BY NothingIs DEF Record, DensityInv, DensityShapeInv
<1> HIDE DEF R, new
<1>2. /\ records' \in Seq(R)
      /\ \A i \in DOMAIN records' : \/ i \in DOMAIN records /\ records'[i] = records[i]
                                    \/ records'[i] = new
  BY <1>1
<1>3. \A i \in DOMAIN records : records[i].cell \in DensityCells
  BY RecordsAre
<1>4. LostOnlyIfKilled'
  BY <1>1, <1>2, <1>3 DEF DensityInv, LostOnlyIfKilled
<1>5. QED
  BY <1>2, <1>4 DEF R

LEMMA ControlIs ==
    ASSUME DensityInv, NEW d \in DensityCells, NEW b \in DensityAgents
    PROVE  /\ d > driver.cell \/ (d = driver.cell /\ driver.pc = "spawn") => phase[d][b] = "none"
           /\ d < driver.cell \/ (d = driver.cell /\ driver.pc \in {"next", "done", "collect"}) =>
                  ~Alive(d, b) \/ d \in broken
           /\ d = driver.cell /\ driver.pc # "join" => phase[d][b] \notin AtWork
           /\ d = driver.cell /\ driver.pc \in {"barrier", "join", "collect"} => phase[d][b] # "none"
           /\ d = driver.cell /\ driver.pc = "join" /\ b <= driver.joined => phase[d][b] \in Over
           /\ d = driver.cell /\ driver.pc = "collect" => phase[d][b] \in Over
           /\ phase[d][b] \in PhaseNames /\ d \in Nat /\ b \in Nat /\ b >= 1 /\ b <= AgentCount
           /\ d >= 1 /\ d <= CellTotal
BY DensityAssumption DEF DensityInv, DensityControlInv, DensityShapeInv, cell, DensityAgents, DensityCells

\* The control invariant of the next state, from what the driver's step is then.
LEMMA ControlBecomes ==
    ASSUME NEW p, NEW k, driver'.pc = p, driver'.cell = k,
           StartTogether',
           \A d \in DensityCells, b \in DensityAgents :
               /\ d > k \/ (d = k /\ p = "spawn") => phase'[d][b] = "none"
               /\ d < k \/ (d = k /\ p \in {"next", "done", "collect"}) =>
                      phase'[d][b] \in {"none", "ended", "dead"} \/ d \in broken'
               /\ d = k /\ p # "join" => phase'[d][b] \notin AtWork
               /\ d = k /\ p \in {"barrier", "join", "collect"} => phase'[d][b] # "none"
               /\ d = k /\ p = "join" /\ b <= driver'.joined => phase'[d][b] \in Over
               /\ d = k /\ p = "collect" => phase'[d][b] \in Over,
           setting'.emon /\ p \in {"spawn", "barrier", "join"} => emon'
    PROVE  DensityControlInv'
BY DEF DensityControlInv, Alive, cell

LEMMA TogetherStays ==
    ASSUME DensityInv, UNCHANGED phase
    PROVE  StartTogether'
BY DEF DensityInv, DensityControlInv, StartTogether

LEMMA NextDensityKeeps ==
    ASSUME DensityInv, NextDensity
    PROVE  DensityInv'
<1>1. /\ driver.pc = "next" /\ driver.cell < CellTotal
      /\ driver' = [pc |-> "spawn", cell |-> driver.cell + 1, joined |-> 0]
      /\ emon' = (emon \/ setting.emon)
      /\ UNCHANGED <<setting, workers, records, mishaps>>
      /\ UNCHANGED <<phase, broken>>
  BY DEF NextDensity, cell, workers
<1>2. /\ driver.cell + 1 \in DensityCells /\ driver.cell + 1 \in 0 .. CellTotal
      /\ 0 \in 0 .. AgentCount /\ driver.cell \in Nat
  BY <1>1, DensityTypes DEF DensityCells
<1>3. driver'.pc = "spawn" /\ driver'.cell = driver.cell + 1 /\ driver'.joined = 0
  BY <1>1
<1>4. DensityControlInv'
  <2>1. ASSUME NEW d \in DensityCells, NEW b \in DensityAgents
        PROVE  /\ d >= driver.cell + 1 => phase[d][b] = "none"
               /\ d < driver.cell + 1 => phase[d][b] \in {"none", "ended", "dead"} \/ d \in broken
               /\ d = driver.cell + 1 => phase[d][b] \notin AtWork
    <3>1. d \in Nat
      BY ControlIs
    <3>2. d >= driver.cell + 1 => d > driver.cell
      BY <1>2, <3>1
    <3>3. d < driver.cell + 1 => d < driver.cell \/ d = driver.cell
      BY <1>2, <3>1
    <3>4. d = driver.cell + 1 => d > driver.cell
      BY <1>2, <3>1
    <3>5. QED
      BY <1>1, <3>2, <3>3, <3>4, ControlIs DEF Alive, AtWork
  <2>2. setting'.emon => emon'
    BY <1>1
  <2>3. \A d \in DensityCells : d \in Nat
    BY DensityTypes
  <2>4. \A d \in DensityCells : d > driver.cell + 1 => d >= driver.cell + 1
    BY <1>2, <2>3
  <2>5. QED
    BY <1>1, <1>2, <1>3, <2>1, <2>2, <2>3, <2>4, TogetherStays, ControlBecomes
<1>5. emon' \in BOOLEAN /\ mishaps' \in 0 .. MaxMishaps /\ mishaps' >= mishaps
  BY <1>1, DensityTypes DEF DensityInv, DensityShapeInv, DensitySettings
<1>6. records' \in Seq([cell : DensityCells, error : BOOLEAN, results : Results])
  BY <1>1 DEF DensityInv, DensityShapeInv
<1>7. QED
  BY <1>1, <1>2, <1>4, <1>5, <1>6, DriverMoves DEF DensityInv

LEMMA DoesNotFitKeeps ==
    ASSUME DensityInv, DoesNotFit
    PROVE  DensityInv'
<1>1. /\ driver.pc = "next" /\ driver.cell < CellTotal
      /\ driver' = [driver EXCEPT !.cell = driver.cell + 1]
      /\ IF Drained THEN UNCHANGED records ELSE Record(driver.cell + 1, TRUE, Nothing)
      /\ UNCHANGED <<setting, emon, workers, mishaps>>
      /\ UNCHANGED <<phase, broken>>
  BY DEF DoesNotFit, cell, workers
<1>2. /\ driver.cell + 1 \in DensityCells /\ driver.cell + 1 \in 0 .. CellTotal
      /\ driver.cell \in Nat
  BY <1>1, DensityTypes DEF DensityCells
<1>3. /\ driver' = [pc |-> "next", cell |-> driver.cell + 1, joined |-> driver.joined]
      /\ driver'.pc = "next" /\ driver'.cell = driver.cell + 1
  BY <1>1, DensityTypes
<1>4. DensityControlInv'
  <2>1. ASSUME NEW d \in DensityCells, NEW b \in DensityAgents
        PROVE  /\ d > driver.cell + 1 => phase[d][b] = "none"
               /\ d < driver.cell + 1 \/ d = driver.cell + 1 =>
                      phase[d][b] \in {"none", "ended", "dead"} \/ d \in broken
               /\ d = driver.cell + 1 => phase[d][b] \notin AtWork
    <3>1. d \in Nat
      BY ControlIs
    <3>2. d > driver.cell + 1 => d > driver.cell
      BY <1>2, <3>1
    <3>3. d < driver.cell + 1 => d < driver.cell \/ d = driver.cell
      BY <1>2, <3>1
    <3>4. d = driver.cell + 1 => d > driver.cell
      BY <1>2, <3>1
    <3>5. QED
      BY <1>1, <3>2, <3>3, <3>4, ControlIs DEF Alive, AtWork
  <2>2. QED
    BY <1>1, <1>3, <2>1, TogetherStays, ControlBecomes
<1>5. emon' \in BOOLEAN /\ mishaps' \in 0 .. MaxMishaps /\ mishaps' >= mishaps
  BY <1>1, DensityTypes DEF DensityInv, DensityShapeInv
<1>6. CASE Drained
  <2>1. records' \in Seq([cell : DensityCells, error : BOOLEAN, results : Results])
    BY <1>1, <1>6 DEF DensityInv, DensityShapeInv
  <2>2. QED
    BY <1>1, <1>2, <1>3, <1>4, <1>5, <1>6, <2>1, DensityTypes, DriverMoves DEF DensityInv
<1>7. CASE ~Drained
  <2>1. /\ records' \in Seq([cell : DensityCells, error : BOOLEAN, results : Results])
        /\ DensityQuietInv' /\ LostOnlyIfKilled'
    BY <1>1, <1>2, <1>5, <1>7, NothingIs, RecordKeeps
  <2>2. QED
    BY <1>1, <1>2, <1>3, <1>4, <1>5, <2>1, DensityTypes, DriverMoves DEF DensityInv
<1>8. QED
  BY <1>6, <1>7

\* A step of the driver that changes nothing but its own place in its cell.
LEMMA PlaceMoves ==
    ASSUME DensityInv, UNCHANGED <<setting, workers, mishaps>>, emon' \in BOOLEAN,
           NEW p \in {"next", "join", "collect", "done"}, NEW j \in 0 .. AgentCount,
           driver' = [pc |-> p, cell |-> driver.cell, joined |-> j],
           p \notin {"next", "done"} => driver.cell \in DensityCells,
           DensityControlInv'
    PROVE  /\ records' \in Seq([cell : DensityCells, error : BOOLEAN, results : Results]) =>
                  DensityShapeInv'
           /\ DensityQueueInv'
           /\ UNCHANGED records => DensityInv'
<1>1. mishaps' \in 0 .. MaxMishaps /\ mishaps' >= mishaps /\ driver.cell \in 0 .. CellTotal
  BY DensityTypes
<1>2. /\ records' \in Seq([cell : DensityCells, error : BOOLEAN, results : Results]) =>
             DensityShapeInv'
      /\ DensityQueueInv'
      /\ UNCHANGED records => DensityQuietInv' /\ LostOnlyIfKilled'
  BY <1>1, DriverMoves
<1>3. records \in Seq([cell : DensityCells, error : BOOLEAN, results : Results])
  BY DEF DensityInv, DensityShapeInv
<1>4. QED
  BY <1>2, <1>3 DEF DensityInv

LEMMA LastDensityKeeps ==
    ASSUME DensityInv, LastDensity
    PROVE  DensityInv'
<1>1. /\ driver.pc = "next"
      /\ driver' = [driver EXCEPT !.pc = "done"]
      /\ UNCHANGED <<setting, emon, workers, records, mishaps>>
      /\ UNCHANGED <<phase, broken>>
  BY DEF LastDensity, DriverAt, workers
<1>2. /\ driver' = [pc |-> "done", cell |-> driver.cell, joined |-> driver.joined]
      /\ driver'.pc = "done" /\ driver'.cell = driver.cell
  BY <1>1, DensityTypes
<1>3. DensityControlInv'
  <2>1. ASSUME NEW d \in DensityCells, NEW b \in DensityAgents
        PROVE  /\ d > driver.cell => phase[d][b] = "none"
               /\ d < driver.cell \/ d = driver.cell =>
                      phase[d][b] \in {"none", "ended", "dead"} \/ d \in broken
               /\ d = driver.cell => phase[d][b] \notin AtWork
    BY <1>1, ControlIs DEF Alive
  <2>2. QED
    BY <1>1, <1>2, <2>1, TogetherStays, ControlBecomes
<1>4. QED
  BY <1>1, <1>2, <1>3, DensityTypes, PlaceMoves DEF DensityInv, DensityShapeInv

LEMMA JoinKeeps ==
    ASSUME DensityInv, Join
    PROVE  DensityInv'
<1>1. /\ driver.pc = "join" /\ \E a \in DensityAgents : a = driver.joined + 1 /\ ~Alive(driver.cell, a)
      /\ driver' = [driver EXCEPT !.joined = driver.joined + 1]
      /\ UNCHANGED <<setting, emon, workers, records, mishaps>>
      /\ UNCHANGED <<phase, broken>>
  BY DEF Join, Joining, cell, workers
<1>2. /\ driver' = [pc |-> "join", cell |-> driver.cell, joined |-> driver.joined + 1]
      /\ driver'.pc = "join" /\ driver'.cell = driver.cell /\ driver'.joined = driver.joined + 1
  BY <1>1, DensityTypes
<1>3. /\ driver.cell \in DensityCells /\ driver.joined + 1 \in 0 .. AgentCount
      /\ driver.joined \in Nat /\ ~Alive(driver.cell, driver.joined + 1)
      /\ driver.joined + 1 \in DensityAgents
  <2>1. driver.joined + 1 \in DensityAgents /\ ~Alive(driver.cell, driver.joined + 1)
    BY <1>1
  <2>2. QED
    BY <1>1, <2>1, DensityTypes DEF DensityAgents
<1>4. DensityControlInv'
  <2>1. ASSUME NEW d \in DensityCells, NEW b \in DensityAgents
        PROVE  /\ d > driver.cell => phase[d][b] = "none"
               /\ d < driver.cell => phase[d][b] \in {"none", "ended", "dead"} \/ d \in broken
               /\ d = driver.cell => phase[d][b] # "none"
               /\ d = driver.cell /\ b <= driver.joined + 1 => phase[d][b] \in Over
    <3>1. b <= driver.joined + 1 => b <= driver.joined \/ b = driver.joined + 1
      BY <1>3, ControlIs
    <3>2. d = driver.cell /\ b = driver.joined + 1 => phase[d][b] \in Over
      BY <1>1, <1>3, ControlIs DEF Alive, Over
    <3>3. QED
      BY <1>1, <3>1, <3>2, ControlIs DEF Alive
  <2>2. setting'.emon => emon'
    BY <1>1 DEF DensityInv, DensityControlInv
  <2>3. QED
    BY <1>1, <1>2, <2>1, <2>2, TogetherStays, ControlBecomes
<1>5. QED
  BY <1>1, <1>2, <1>3, <1>4, PlaceMoves DEF DensityInv, DensityShapeInv

LEMMA AllOver ==
    ASSUME DensityInv, AllJoined, NEW b \in DensityAgents
    PROVE  driver.cell \in DensityCells /\ phase[driver.cell][b] \in Over
<1>1. driver.pc = "join" /\ driver.joined = AgentCount /\ driver.cell \in DensityCells
  BY DensityTypes DEF AllJoined
<1>2. QED
  BY <1>1, ControlIs

LEMMA StopEmonKeeps ==
    ASSUME DensityInv, StopEmon
    PROVE  DensityInv'
<1>1. /\ driver.pc = "join" /\ driver' = [driver EXCEPT !.pc = "collect"] /\ emon' = FALSE
      /\ UNCHANGED <<setting, workers, records, mishaps>>
      /\ UNCHANGED <<phase, broken>>
  BY DEF StopEmon, AllJoined, DriverAt, workers
<1>2. /\ driver' = [pc |-> "collect", cell |-> driver.cell, joined |-> driver.joined]
      /\ driver'.pc = "collect" /\ driver'.cell = driver.cell
  BY <1>1, DensityTypes
<1>3. driver.cell \in DensityCells
  BY <1>1, DensityTypes
<1>4. DensityControlInv'
  <2>1. ASSUME NEW d \in DensityCells, NEW b \in DensityAgents
        PROVE  /\ d > driver.cell => phase[d][b] = "none"
               /\ d < driver.cell => phase[d][b] \in {"none", "ended", "dead"} \/ d \in broken
               /\ d = driver.cell => phase[d][b] \in {"ended", "dead"}
    <3>1. d = driver.cell => phase[d][b] \in {"ended", "dead"}
      BY AllOver DEF StopEmon, Over
    <3>2. QED
      BY <1>1, <3>1, ControlIs DEF Alive
  <2>2. QED
    BY <1>1, <1>2, <2>1, TogetherStays, ControlBecomes DEF AtWork, Over
<1>5. QED
  BY <1>1, <1>2, <1>3, <1>4, DensityTypes, PlaceMoves

LEMMA CollectedKeeps ==
    ASSUME DensityInv, Collected
    PROVE  DensityInv'
<1>1. /\ driver.pc = "collect" /\ pipe[driver.cell] = <<>>
      /\ Record(driver.cell, FALSE, heard[driver.cell])
      /\ driver' = [driver EXCEPT !.pc = "next"]
      /\ UNCHANGED <<setting, emon, workers, mishaps>>
      /\ UNCHANGED <<phase, broken>>
  BY DEF Collected, ReadAll, DriverAt, workers, cell
<1>2. /\ driver' = [pc |-> "next", cell |-> driver.cell, joined |-> driver.joined]
      /\ driver'.pc = "next" /\ driver'.cell = driver.cell
  BY <1>1, DensityTypes
<1>3. driver.cell \in DensityCells /\ heard[driver.cell] \in Results
  BY <1>1, DensityTypes DEF DensityInv, DensityShapeInv
<1>4. \A b \in DensityAgents : phase[driver.cell][b] \in Over
  BY <1>1, <1>3, ControlIs
<1>5. DensityControlInv'
  <2>1. ASSUME NEW d \in DensityCells, NEW b \in DensityAgents
        PROVE  /\ d > driver.cell => phase[d][b] = "none"
               /\ d < driver.cell => phase[d][b] \in {"none", "ended", "dead"} \/ d \in broken
               /\ d = driver.cell => phase[d][b] \in {"ended", "dead"}
    BY <1>4, ControlIs DEF Alive, Over
  <2>2. QED
    BY <1>1, <1>2, <2>1, TogetherStays, ControlBecomes DEF AtWork
<1>6. ASSUME NEW b \in DensityAgents
      PROVE  /\ phase[driver.cell][b] = "ended" => b \in heard[driver.cell].ok \cup heard[driver.cell].failed
             /\ phase[driver.cell][b] = "dead" => b \in killed[driver.cell]
  <2>1. Handed(driver.cell, b) => b \in heard[driver.cell].ok \cup heard[driver.cell].failed
    <3>1. DOMAIN pipe[driver.cell] = {}
      BY <1>1
    <3>2. QED
      BY <3>1 DEF Handed
  <2>2. QED
    BY <1>3, <2>1 DEF DensityInv, DensityQueueInv
<1>7. DensityAgents \subseteq heard[driver.cell].ok \cup heard[driver.cell].failed \cup killed[driver.cell]
  BY <1>4, <1>6 DEF Over
<1>8. Drained /\ mishaps' = 0 => heard[driver.cell].ok = DensityAgents
  <2>1. SUFFICES ASSUME Drained, mishaps = 0
                 PROVE  heard[driver.cell].ok = DensityAgents
    BY <1>1
  <2>2. /\ heard[driver.cell].failed = {}
        /\ \A b \in DensityAgents : phase[driver.cell][b] # "dead"
    BY <1>3, <2>1 DEF DensityInv, DensityQuietInv
  <2>3. \A b \in DensityAgents : b \in heard[driver.cell].ok
    BY <1>4, <1>6, <2>2 DEF Over
  <2>4. heard[driver.cell].ok \subseteq DensityAgents
    BY <1>3 DEF Results
  <2>5. QED
    BY <2>3, <2>4
<1>9. mishaps' \in 0 .. MaxMishaps /\ mishaps' >= mishaps
  BY <1>1, DensityTypes
<1>10. /\ records' \in Seq([cell : DensityCells, error : BOOLEAN, results : Results])
       /\ DensityQuietInv' /\ LostOnlyIfKilled'
  BY <1>1, <1>3, <1>7, <1>8, <1>9, RecordKeeps
<1>11. DensityShapeInv' /\ DensityQueueInv'
  BY <1>1, <1>2, <1>5, <1>10, DensityTypes, PlaceMoves DEF DensityInv, DensityShapeInv
<1>12. QED
  BY <1>5, <1>10, <1>11 DEF DensityInv

\* A step of the driver that moves the agents of its cell, or ends one of them.
LEMMA CellMoves ==
    ASSUME DensityInv, UNCHANGED <<setting, holder, pipe, heard>>,
           NEW p \in {"next", "barrier", "join", "done"}, NEW j \in 0 .. AgentCount,
           driver' = [pc |-> p, cell |-> driver.cell, joined |-> j],
           p = "barrier" => j = 0, driver.cell \in DensityCells, emon' \in BOOLEAN,
           mishaps' \in 0 .. MaxMishaps, mishaps' >= mishaps,
           phase' \in [DensityCells -> [DensityAgents -> PhaseNames]],
           killed' \in [DensityCells -> SUBSET DensityAgents],
           \A d \in DensityCells : killed[d] \subseteq killed'[d],
           \A d \in DensityCells, b \in DensityAgents :
               /\ phase'[d][b] \in {"rest", "ended"} => phase'[d][b] = phase[d][b]
               /\ phase'[d][b] = "dead" => phase[d][b] = "dead" \/ b \in killed'[d]
               /\ Drained /\ mishaps' = 0 /\ phase[d][b] \notin {"erring", "dead"} =>
                      phase'[d][b] \notin {"erring", "dead"},
           Drained /\ mishaps' = 0 /\ broken = {} => broken' = {},
           DensityControlInv'
    PROVE  /\ records' \in Seq([cell : DensityCells, error : BOOLEAN, results : Results]) =>
                  DensityShapeInv'
           /\ DensityQueueInv'
           /\ UNCHANGED records => DensityInv'
<1>1. /\ driver'.pc = p /\ driver'.cell = driver.cell /\ driver'.joined = j
      /\ driver' = [pc |-> driver'.pc, cell |-> driver'.cell, joined |-> driver'.joined]
  OBVIOUS
<1>2. ASSUME records' \in Seq([cell : DensityCells, error : BOOLEAN, results : Results])
      PROVE  DensityShapeInv'
  <2>1. driver'.cell \in 0 .. CellTotal
    BY <1>1, DensityTypes
  <2>2. QED
    BY <1>1, <1>2, <2>1 DEF DensityInv, DensityShapeInv, cell
<1>3. DensityQueueInv'
  <2>1. ASSUME NEW d \in DensityCells, NEW b \in DensityAgents
        PROVE  /\ phase'[d][b] = "rest" => holder'[d] = b
               /\ phase'[d][b] = "ended" => Handed(d, b)'
               /\ phase'[d][b] = "dead" => b \in killed'[d]
    <3>1. /\ phase[d][b] = "rest" => holder[d] = b
          /\ phase[d][b] = "ended" => Handed(d, b)
          /\ phase[d][b] = "dead" => b \in killed[d]
      BY DEF DensityInv, DensityQueueInv
    <3>2. Handed(d, b)' <=> Handed(d, b)
      BY DEF Handed
    <3>3. QED
      BY <3>1, <3>2
  <2>2. QED
    BY <2>1 DEF DensityQueueInv
<1>4. ASSUME UNCHANGED records
      PROVE  DensityInv'
  <2>1. mishaps' = 0 => mishaps = 0
    BY DensityTypes
  <2>2. DensityQuietInv'
    <3>1. ASSUME Drained, mishaps' = 0
          PROVE  /\ broken' = {}
                 /\ \A d \in DensityCells, b \in DensityAgents : phase'[d][b] \notin {"erring", "dead"}
      <4>1. /\ broken = {}
            /\ \A d \in DensityCells, b \in DensityAgents : phase[d][b] \notin {"erring", "dead"}
        BY <2>1, <3>1 DEF DensityInv, DensityQuietInv
      <4>2. QED
        BY <3>1, <4>1
    <3>2. Drained' <=> Drained
      BY DEF Drained
    <3>3. QED
      BY <1>4, <2>1, <3>1, <3>2 DEF DensityInv, DensityQuietInv
  <2>3. LostOnlyIfKilled'
    <3>1. \A i \in DOMAIN records : records[i].cell \in DensityCells
      BY RecordsAre
    <3>2. QED
      BY <1>4, <3>1 DEF DensityInv, LostOnlyIfKilled
  <2>4. records' \in Seq([cell : DensityCells, error : BOOLEAN, results : Results])
    BY <1>4 DEF DensityInv, DensityShapeInv
  <2>5. QED
    BY <1>2, <1>3, <2>2, <2>3, <2>4 DEF DensityInv
<1>5. QED
  BY <1>2, <1>3, <1>4

LEMMA DensityRest ==
    ASSUME DensityInv
    PROVE  /\ emon \in BOOLEAN /\ setting.emon \in BOOLEAN
           /\ killed \in [DensityCells -> SUBSET DensityAgents]
           /\ records \in Seq([cell : DensityCells, error : BOOLEAN, results : Results])
           /\ StartTogether
           /\ setting.emon /\ driver.pc \in {"spawn", "barrier", "join"} => emon
           /\ driver.pc \in {"spawn", "barrier"} => driver.joined = 0
BY DEF DensityInv, DensityShapeInv, DensityControlInv, DensitySettings

LEMMA SpawnKeeps ==
    ASSUME DensityInv, Spawn
    PROVE  DensityInv'
<1>1. /\ driver.pc = "spawn"
      /\ phase' = [phase EXCEPT ![driver.cell] = [a \in DensityAgents |-> "setup"]]
      /\ driver' = [driver EXCEPT !.pc = "barrier"]
      /\ UNCHANGED <<setting, emon, broken, holder, pipe, reading, heard, killed, records, mishaps>>
  BY DEF Spawn, DriverAt, cell
<1>2. /\ driver' = [pc |-> "barrier", cell |-> driver.cell, joined |-> driver.joined]
      /\ driver'.pc = "barrier" /\ driver'.cell = driver.cell
      /\ driver.cell \in DensityCells
  BY <1>1, DensityTypes
<1>3. [a \in DensityAgents |-> "setup"] \in [DensityAgents -> PhaseNames]
  BY DEF PhaseNames
<1>4. /\ phase' \in [DensityCells -> [DensityAgents -> PhaseNames]]
      /\ \A b \in DensityAgents : phase'[driver.cell][b] = "setup"
      /\ \A d \in DensityCells, b \in DensityAgents : d # driver.cell => phase'[d][b] = phase[d][b]
  BY <1>1, <1>2, <1>3, DensityTypes, PhasesOf
<1>5. StartTogether'
  BY <1>4, DensityRest DEF StartTogether
<1>6. DensityControlInv'
  <2>1. ASSUME NEW d \in DensityCells, NEW b \in DensityAgents
        PROVE  /\ d > driver.cell => phase'[d][b] = "none"
               /\ d < driver.cell => phase'[d][b] \in {"none", "ended", "dead"} \/ d \in broken
               /\ d = driver.cell => phase'[d][b] = "setup"
    <3>1. d > driver.cell \/ d < driver.cell => d # driver.cell
      BY <1>2, DensityTypes
    <3>2. QED
      BY <1>4, <3>1, ControlIs DEF Alive
  <2>2. setting'.emon => emon'
    BY <1>1, DensityRest
  <2>3. QED
    BY <1>1, <1>2, <1>5, <2>1, <2>2, ControlBecomes DEF AtWork
<1>7. /\ mishaps' \in 0 .. MaxMishaps /\ mishaps' >= mishaps /\ emon' \in BOOLEAN
      /\ driver.joined \in 0 .. AgentCount /\ killed' \in [DensityCells -> SUBSET DensityAgents]
      /\ \A d \in DensityCells : killed[d] \subseteq killed'[d]
  BY <1>1, DensityTypes, DensityRest
<1>8. \A d \in DensityCells, b \in DensityAgents :
           phase'[d][b] = phase[d][b] \/ phase'[d][b] = "setup"
  BY <1>4
<1>9. QED
  BY <1>1, <1>2, <1>4, <1>6, <1>7, <1>8, DensityRest, CellMoves

LEMMA ReleaseKeeps ==
    ASSUME DensityInv, Release
    PROVE  DensityInv'
<1>1. /\ driver.pc = "barrier"
      /\ \A a \in DensityAgents : phase[driver.cell][a] = "ready"
      /\ phase' = [phase EXCEPT ![driver.cell] = [a \in DensityAgents |-> "working"]]
      /\ driver' = [driver EXCEPT !.pc = "join"]
      /\ UNCHANGED <<setting, emon, broken, holder, pipe, reading, heard, killed, records, mishaps>>
  BY DEF Release, DriverAt, cell
<1>2. /\ driver' = [pc |-> "join", cell |-> driver.cell, joined |-> driver.joined]
      /\ driver'.pc = "join" /\ driver'.cell = driver.cell /\ driver'.joined = driver.joined
      /\ driver.cell \in DensityCells
  BY <1>1, DensityTypes
<1>3. [a \in DensityAgents |-> "working"] \in [DensityAgents -> PhaseNames]
  BY DEF PhaseNames
<1>4. /\ phase' \in [DensityCells -> [DensityAgents -> PhaseNames]]
      /\ \A b \in DensityAgents : phase'[driver.cell][b] = "working"
      /\ \A d \in DensityCells, b \in DensityAgents : d # driver.cell => phase'[d][b] = phase[d][b]
  BY <1>1, <1>2, <1>3, DensityTypes, PhasesOf
<1>5. StartTogether'
  BY <1>4, DensityRest DEF StartTogether
<1>6. driver.joined = 0
  BY <1>1 DEF DensityInv, DensityShapeInv
<1>7. DensityControlInv'
  <2>1. ASSUME NEW d \in DensityCells, NEW b \in DensityAgents
        PROVE  /\ d > driver.cell => phase'[d][b] = "none"
               /\ d < driver.cell => phase'[d][b] \in {"none", "ended", "dead"} \/ d \in broken
               /\ d = driver.cell => phase'[d][b] = "working" /\ ~(b <= driver'.joined)
    <3>1. d > driver.cell \/ d < driver.cell => d # driver.cell
      BY <1>2, DensityTypes
    <3>2. ~(b <= driver'.joined)
      BY <1>2, <1>6, ControlIs
    <3>3. QED
      BY <1>4, <3>1, <3>2, ControlIs DEF Alive
  <2>2. setting'.emon => emon'
    BY <1>1, DensityRest
  <2>3. QED
    BY <1>1, <1>2, <1>5, <2>1, <2>2, ControlBecomes
<1>8. /\ mishaps' \in 0 .. MaxMishaps /\ mishaps' >= mishaps /\ emon' \in BOOLEAN
      /\ driver.joined \in 0 .. AgentCount /\ killed' \in [DensityCells -> SUBSET DensityAgents]
      /\ \A d \in DensityCells : killed[d] \subseteq killed'[d]
  BY <1>1, DensityTypes, DensityRest
<1>9. \A d \in DensityCells, b \in DensityAgents :
           phase'[d][b] = phase[d][b] \/ phase'[d][b] = "working"
  BY <1>4
<1>10. QED
  BY <1>1, <1>2, <1>4, <1>7, <1>8, <1>9, CellMoves

LEMMA BreaksKeeps ==
    ASSUME DensityInv, Breaks
    PROVE  DensityInv'
<1> DEFINE now == [a \in DensityAgents |->
                     IF phase[driver.cell][a] = "ready" THEN "erring" ELSE phase[driver.cell][a]]
<1>1. /\ driver.pc = "barrier" /\ broken' = broken \cup {driver.cell}
      /\ phase' = [phase EXCEPT ![driver.cell] = now]
      /\ \/ Drained /\ driver' = [driver EXCEPT !.pc = "join"] /\ UNCHANGED <<emon, records>>
         \/ /\ ~Drained /\ driver' = [driver EXCEPT !.pc = "next"] /\ emon' = FALSE
            /\ Record(driver.cell, TRUE, Nothing)
      /\ UNCHANGED <<setting, holder, pipe, reading, heard, killed>>
  BY DEF Breaks, DriverAt, cell, AfterBroken
<1>2. PICK p \in {"next", "join"} :
          /\ driver' = [pc |-> p, cell |-> driver.cell, joined |-> driver.joined]
          /\ driver'.pc = p /\ driver'.cell = driver.cell /\ driver'.joined = driver.joined
          /\ p = "join" => UNCHANGED <<emon, records>>
          /\ p = "next" => ~Drained /\ Record(driver.cell, TRUE, Nothing) /\ emon' = FALSE
  <2>1. CASE Drained /\ driver' = [driver EXCEPT !.pc = "join"] /\ UNCHANGED <<emon, records>>
    BY <2>1, DensityTypes
  <2>2. CASE /\ ~Drained /\ driver' = [driver EXCEPT !.pc = "next"] /\ emon' = FALSE
             /\ Record(driver.cell, TRUE, Nothing)
    BY <2>2, DensityTypes
  <2>3. QED
    BY <1>1, <2>1, <2>2
<1>3. driver.cell \in DensityCells
  BY <1>1, DensityTypes
<1>4. /\ now \in [DensityAgents -> PhaseNames]
      /\ \A b \in DensityAgents :
             \/ phase[driver.cell][b] = "ready" /\ now[b] = "erring"
             \/ now[b] = phase[driver.cell][b]
  BY <1>3, DensityTypes DEF PhaseNames
<1> HIDE DEF now
<1>5. /\ phase' \in [DensityCells -> [DensityAgents -> PhaseNames]]
      /\ \A b \in DensityAgents : phase'[driver.cell][b] = now[b]
      /\ \A d \in DensityCells, b \in DensityAgents : d # driver.cell => phase'[d][b] = phase[d][b]
  BY <1>1, <1>3, <1>4, DensityTypes, PhasesOf
<1>6. \A d \in DensityCells, b \in DensityAgents :
           \/ phase'[d][b] = phase[d][b]
           \/ phase'[d][b] = "erring" /\ phase[d][b] = "ready"
  BY <1>4, <1>5
<1>7. StartTogether'
  <2>1. ASSUME NEW d \in DensityCells, NEW b \in DensityAgents, NEW e \in DensityAgents,
               phase'[d][b] \in {"working", "putting", "rest"}
        PROVE  phase'[d][e] \notin {"none", "setup", "ready"}
    <3>1. phase[d][b] \in {"working", "putting", "rest"}
      BY <1>6, <2>1
    <3>2. phase[d][e] \notin {"none", "setup", "ready"}
      BY <3>1, DensityRest DEF StartTogether
    <3>3. QED
      BY <1>6, <3>2
  <2>2. QED
    BY <2>1 DEF StartTogether
<1>8. \E a \in DensityAgents : phase[driver.cell][a] = "dead" \/ Mishap
  BY DEF Breaks, cell
<1>9. /\ mishaps' \in 0 .. MaxMishaps /\ mishaps' >= mishaps
      /\ Drained => mishaps' # 0
  <2>1. CASE UNCHANGED mishaps /\ \E a \in DensityAgents : phase[driver.cell][a] = "dead"
    <3>1. Drained => mishaps # 0
      BY <1>3, <2>1 DEF DensityInv, DensityQuietInv
    <3>2. QED
      BY <2>1, <3>1, DensityTypes
  <2>2. CASE Mishap
    BY <2>2, FaultIs, DensityTypes
  <2>3. QED
    BY <2>1, <2>2 DEF Breaks, cell
<1>10. driver.joined = 0
  BY <1>1 DEF DensityInv, DensityShapeInv
<1>11. DensityControlInv'
  <2>1. ASSUME NEW d \in DensityCells, NEW b \in DensityAgents
        PROVE  /\ d > driver.cell => phase'[d][b] = "none"
               /\ d < driver.cell => phase'[d][b] \in {"none", "ended", "dead"} \/ d \in broken'
               /\ d = driver.cell => phase'[d][b] \notin AtWork /\ phase'[d][b] # "none" /\ d \in broken'
               /\ d = driver.cell => ~(b <= driver'.joined)
    <3>1. d > driver.cell \/ d < driver.cell => d # driver.cell
      BY <1>3, DensityTypes
    <3>2. ~(b <= driver'.joined)
      BY <1>2, <1>10, ControlIs
    <3>3. d = driver.cell => phase[d][b] \notin AtWork /\ phase[d][b] # "none"
      BY <1>1, ControlIs
    <3>4. QED
      BY <1>1, <1>5, <1>6, <3>1, <3>2, <3>3, ControlIs DEF Alive, AtWork
  <2>2. setting'.emon /\ p = "join" => emon'
    BY <1>1, <1>2, DensityRest
  <2>3. QED
    BY <1>2, <1>7, <2>1, <2>2, ControlBecomes
<1>12. /\ emon' \in BOOLEAN /\ driver.joined \in 0 .. AgentCount
       /\ killed' \in [DensityCells -> SUBSET DensityAgents]
       /\ \A d \in DensityCells : killed[d] \subseteq killed'[d]
  BY <1>1, <1>2, DensityTypes, DensityRest
<1>13. \A d \in DensityCells, b \in DensityAgents :
           /\ phase'[d][b] \in {"rest", "ended"} => phase'[d][b] = phase[d][b]
           /\ phase'[d][b] = "dead" => phase[d][b] = "dead" \/ b \in killed'[d]
           /\ Drained /\ mishaps' = 0 /\ phase[d][b] \notin {"erring", "dead"} =>
                  phase'[d][b] \notin {"erring", "dead"}
  BY <1>6, <1>9
<1>14. Drained /\ mishaps' = 0 /\ broken = {} => broken' = {}
  BY <1>9
<1>15. /\ records' \in Seq([cell : DensityCells, error : BOOLEAN, results : Results]) =>
              DensityShapeInv'
       /\ DensityQueueInv'
       /\ UNCHANGED records => DensityInv'
  BY <1>1, <1>2, <1>3, <1>5, <1>9, <1>11, <1>12, <1>13, <1>14, CellMoves
<1>16. CASE p = "join"
  BY <1>2, <1>15, <1>16
<1>17. CASE p = "next"
  <2>1. ~Drained /\ Record(driver.cell, TRUE, Nothing)
    BY <1>2, <1>17
  <2>2. /\ records' \in Seq([cell : DensityCells, error : BOOLEAN, results : Results])
        /\ LostOnlyIfKilled'
    BY <1>3, <1>12, <2>1, ErrorKeeps
  <2>3. DensityQuietInv'
    BY <1>1, <2>1 DEF DensityQuietInv, Drained
  <2>4. QED
    BY <1>11, <1>15, <2>2, <2>3 DEF DensityInv
<1>18. QED
  BY <1>16, <1>17

LEMMA StragglerKeeps ==
    ASSUME DensityInv, Straggler
    PROVE  DensityInv'
<1>1. PICK a \in DensityAgents : Joining(a) /\ Alive(cell, a) /\ TimesOut(a) /\ Terminate(a)
  BY DEF Straggler
<1>2. /\ driver.pc = "join" /\ a = driver.joined + 1 /\ Alive(driver.cell, a)
      /\ phase' = [phase EXCEPT ![driver.cell][a] = "dead"]
      /\ killed' = [killed EXCEPT ![driver.cell] = @ \cup {a}]
      /\ driver' = [driver EXCEPT !.joined = driver.joined + 1]
      /\ UNCHANGED <<setting, emon, broken, holder, pipe, reading, heard, records>>
  BY <1>1 DEF Straggler, Joining, Terminate, Dead, cell
<1>3. /\ driver' = [pc |-> "join", cell |-> driver.cell, joined |-> driver.joined + 1]
      /\ driver'.pc = "join" /\ driver'.cell = driver.cell /\ driver'.joined = driver.joined + 1
      /\ driver.cell \in DensityCells /\ driver.joined \in Nat
      /\ driver.joined + 1 \in 0 .. AgentCount
  <2>1. driver.joined + 1 \in 0 .. AgentCount
    BY <1>2, DensityTypes DEF DensityAgents
  <2>2. QED
    BY <1>2, <2>1, DensityTypes
<1>4. "dead" \in PhaseNames
  BY DEF PhaseNames
<1>5. /\ phase' \in [DensityCells -> [DensityAgents -> PhaseNames]] /\ phase'[driver.cell][a] = "dead"
      /\ \A d \in DensityCells, b \in DensityAgents :
             d # driver.cell \/ b # a => phase'[d][b] = phase[d][b]
  BY <1>2, <1>3, <1>4, DensityTypes, PhaseAt
<1>6. /\ killed' \in [DensityCells -> SUBSET DensityAgents] /\ a \in killed'[driver.cell]
      /\ \A d \in DensityCells : killed[d] \subseteq killed'[d]
  BY <1>2, <1>3, DensityRest
\* Nobody is starved where a thread reads, and no one has died: the agent is slow.
<1>7. /\ mishaps' \in 0 .. MaxMishaps /\ mishaps' >= mishaps
      /\ Drained => mishaps' # 0
  <2>1. CASE Starved(cell, a) /\ UNCHANGED mishaps
    <3>1. Drained => mishaps # 0
      <4>1. SUFFICES ASSUME Drained, mishaps = 0
                     PROVE  FALSE
        OBVIOUS
      <4>2. Reading
        BY <1>2, <4>1 DEF Reading
      <4>3. holder[driver.cell] # 0 /\ phase[driver.cell][holder[driver.cell]] = "dead"
        BY <2>1, <4>2 DEF Starved, cell
      <4>4. holder[driver.cell] \in DensityAgents
        <5>1. holder[driver.cell] \in 0 .. AgentCount
          BY <1>3 DEF DensityInv, DensityShapeInv
        <5>2. QED
          BY <4>3, <5>1, DensityTypes DEF DensityAgents
      <4>5. QED
        BY <1>3, <4>1, <4>3, <4>4 DEF DensityInv, DensityQuietInv
    <3>2. QED
      BY <2>1, <3>1, DensityTypes
  <2>2. CASE Mishap
    BY <2>2, FaultIs, DensityTypes
  <2>3. QED
    BY <1>1, <2>1, <2>2 DEF TimesOut
<1>8. StartTogether'
  <2>1. ASSUME NEW d \in DensityCells, NEW b \in DensityAgents, NEW e \in DensityAgents,
               phase'[d][b] \in {"working", "putting", "rest"}
        PROVE  phase'[d][e] \notin {"none", "setup", "ready"}
    <3>1. phase[d][b] \in {"working", "putting", "rest"}
      BY <1>5, <2>1
    <3>2. phase[d][e] \notin {"none", "setup", "ready"}
      BY <3>1, DensityRest DEF StartTogether
    <3>3. QED
      BY <1>5, <3>2
  <2>2. QED
    BY <2>1 DEF StartTogether
<1>9. DensityControlInv'
  <2>1. ASSUME NEW d \in DensityCells, NEW b \in DensityAgents
        PROVE  /\ d > driver.cell => phase'[d][b] = "none"
               /\ d < driver.cell => phase'[d][b] \in {"none", "ended", "dead"} \/ d \in broken
               /\ d = driver.cell => phase'[d][b] # "none"
               /\ d = driver.cell /\ b <= driver.joined + 1 => phase'[d][b] \in Over
    <3>1. d > driver.cell \/ d < driver.cell => d # driver.cell
      BY <1>3, DensityTypes
    <3>2. b <= driver.joined + 1 => b <= driver.joined \/ b = a
      BY <1>2, <1>3, ControlIs
    <3>3. CASE d # driver.cell
      BY <1>2, <1>5, <3>1, <3>3, ControlIs DEF Alive
    <3>4. CASE d = driver.cell /\ b = a
      BY <1>3, <1>5, <3>4, DensityTypes DEF Over
    <3>5. CASE d = driver.cell /\ b # a
      <4>1. ~(d > driver.cell) /\ ~(d < driver.cell)
        BY <1>3, <3>5, DensityTypes
      <4>2. phase'[d][b] = phase[d][b]
        BY <1>5, <3>5
      <4>3. QED
        BY <1>2, <3>2, <3>5, <4>1, <4>2, ControlIs
    <3>6. QED
      BY <3>3, <3>4, <3>5
  <2>2. setting'.emon => emon'
    BY <1>2, DensityRest
  <2>3. QED
    BY <1>2, <1>3, <1>8, <2>1, <2>2, ControlBecomes
<1>10. \A d \in DensityCells, b \in DensityAgents :
           /\ phase'[d][b] \in {"rest", "ended"} => phase'[d][b] = phase[d][b]
           /\ phase'[d][b] = "dead" => phase[d][b] = "dead" \/ b \in killed'[d]
  BY <1>5, <1>6
<1>11. emon' \in BOOLEAN /\ (Drained /\ mishaps' = 0 => FALSE)
  BY <1>2, <1>7, DensityRest
<1>12. QED
  BY <1>2, <1>3, <1>5, <1>6, <1>7, <1>9, <1>10, <1>11, CellMoves

LEMMA CellRaisesKeeps ==
    ASSUME DensityInv, CellRaises
    PROVE  DensityInv'
<1>1. /\ driver.pc = "spawn" \/ AllJoined
      /\ mishaps' \in 0 .. MaxMishaps /\ mishaps' >= mishaps /\ mishaps' # 0
      /\ broken' = IF driver.pc = "spawn" THEN broken \cup {driver.cell} ELSE broken
      /\ UNCHANGED <<setting, emon, holder, pipe, reading, heard, killed>>
  BY FaultIs, DensityTypes DEF CellRaises, cell
<1>2. PICK started \in 0 .. AgentCount - 1 :
           /\ driver.pc = "spawn" \/ started = 0
           /\ phase' = [phase EXCEPT ![driver.cell] = [a \in DensityAgents |->
                   IF ~Drained /\ a <= started THEN "setup" ELSE phase[driver.cell][a]]]
  BY DEF CellRaises, cell
<1>3. driver.cell \in DensityCells
  BY <1>1, DensityTypes DEF AllJoined
<1> DEFINE now == [a \in DensityAgents |->
                     IF ~Drained /\ a <= started THEN "setup" ELSE phase[driver.cell][a]]
<1>4. /\ now \in [DensityAgents -> PhaseNames]
      /\ \A b \in DensityAgents : \/ now[b] = phase[driver.cell][b]
                                  \/ now[b] = "setup" /\ driver.pc = "spawn"
  <2>1. \A b \in DensityAgents : b <= started => started # 0
    BY <1>2, DensityTypes DEF DensityAgents
  <2>2. QED
    BY <1>2, <1>3, <2>1, DensityTypes DEF PhaseNames
<1> HIDE DEF now
<1>5. phase' = [phase EXCEPT ![driver.cell] = now]
  BY <1>2 DEF now
<1>6. /\ phase' \in [DensityCells -> [DensityAgents -> PhaseNames]]
      /\ \A b \in DensityAgents : phase'[driver.cell][b] = now[b]
      /\ \A d \in DensityCells, b \in DensityAgents : d # driver.cell => phase'[d][b] = phase[d][b]
  BY <1>3, <1>4, <1>5, DensityTypes, PhasesOf
<1>7. \A d \in DensityCells, b \in DensityAgents :
           \/ phase'[d][b] = phase[d][b]
           \/ d = driver.cell /\ phase'[d][b] = "setup" /\ driver.pc = "spawn"
  BY <1>4, <1>6
<1>8. PICK p \in {"next", "done"} :
          /\ driver' = [pc |-> p, cell |-> driver.cell, joined |-> driver.joined]
          /\ driver'.pc = p /\ driver'.cell = driver.cell
          /\ UNCHANGED records \/ (~Drained /\ Record(driver.cell, TRUE, Nothing))
  <2>1. \/ Drained /\ driver' = [driver EXCEPT !.pc = "done"] /\ UNCHANGED records
        \/ ~Drained /\ driver' = [driver EXCEPT !.pc = "next"] /\ Record(driver.cell, TRUE, Nothing)
    BY DEF CellRaises, DriverAt, cell
  <2>2. CASE Drained /\ driver' = [driver EXCEPT !.pc = "done"] /\ UNCHANGED records
    <3>1. driver' = [pc |-> "done", cell |-> driver.cell, joined |-> driver.joined]
      BY <2>2, DensityTypes
    <3>2. driver'.pc = "done" /\ driver'.cell = driver.cell /\ UNCHANGED records
      BY <2>2, <3>1
    <3>3. QED
      BY <3>1, <3>2
  <2>3. CASE ~Drained /\ driver' = [driver EXCEPT !.pc = "next"] /\ Record(driver.cell, TRUE, Nothing)
    BY <2>3, DensityTypes
  <2>4. QED
    BY <2>1, <2>2, <2>3
<1>9. \A b \in DensityAgents : phase[driver.cell][b] = "none" \/ phase[driver.cell][b] \in Over
  <2>1. CASE driver.pc = "spawn"
    BY <1>3, <2>1, ControlIs
  <2>2. CASE AllJoined
    BY <2>2, AllOver
  <2>3. QED
    BY <1>1, <2>1, <2>2
<1>10. StartTogether'
  <2>1. ASSUME NEW d \in DensityCells, NEW b \in DensityAgents, NEW e \in DensityAgents,
               phase'[d][b] \in {"working", "putting", "rest"}
        PROVE  phase'[d][e] \notin {"none", "setup", "ready"}
    <3>1. phase[d][b] \in {"working", "putting", "rest"}
      BY <1>7, <2>1
    <3>2. phase[d][e] \notin {"none", "setup", "ready"}
      BY <3>1, DensityRest DEF StartTogether
    <3>3. d # driver.cell
      BY <1>9, <3>1 DEF Over
    <3>4. QED
      BY <1>6, <3>2, <3>3
  <2>2. QED
    BY <2>1 DEF StartTogether
<1>11. DensityControlInv'
  <2>1. ASSUME NEW d \in DensityCells, NEW b \in DensityAgents
        PROVE  /\ d > driver.cell => phase'[d][b] = "none"
               /\ d < driver.cell \/ d = driver.cell =>
                      phase'[d][b] \in {"none", "ended", "dead"} \/ d \in broken'
               /\ d = driver.cell => phase'[d][b] \notin AtWork
    <3>1. d > driver.cell \/ d < driver.cell => d # driver.cell
      BY <1>3, DensityTypes
    <3>2. CASE d # driver.cell
      BY <1>1, <1>6, <3>1, <3>2, ControlIs DEF Alive
    <3>3. CASE d = driver.cell
      <4>1. ~(d > driver.cell)
        BY <1>3, <3>3, DensityTypes
      <4>2. CASE phase'[d][b] = phase[d][b]
        BY <1>9, <3>3, <4>1, <4>2 DEF Over, AtWork
      <4>3. CASE phase'[d][b] = "setup" /\ driver.pc = "spawn"
        BY <1>1, <3>3, <4>1, <4>3 DEF AtWork
      <4>4. QED
        BY <1>7, <3>3, <4>2, <4>3
    <3>4. QED
      BY <3>2, <3>3
  <2>2. QED
    BY <1>8, <1>10, <2>1, ControlBecomes
<1>12. /\ emon' \in BOOLEAN /\ driver.joined \in 0 .. AgentCount
       /\ killed' \in [DensityCells -> SUBSET DensityAgents]
       /\ \A d \in DensityCells : killed[d] \subseteq killed'[d]
  BY <1>1, DensityTypes, DensityRest
<1>13. \A d \in DensityCells, b \in DensityAgents :
           /\ phase'[d][b] \in {"rest", "ended"} => phase'[d][b] = phase[d][b]
           /\ phase'[d][b] = "dead" => phase[d][b] = "dead" \/ b \in killed'[d]
  BY <1>7
<1>14. /\ records' \in Seq([cell : DensityCells, error : BOOLEAN, results : Results]) =>
              DensityShapeInv'
       /\ DensityQueueInv'
       /\ UNCHANGED records => DensityInv'
  BY <1>1, <1>3, <1>6, <1>8, <1>11, <1>12, <1>13, CellMoves
<1>15. CASE UNCHANGED records
  BY <1>14, <1>15
<1>16. CASE ~Drained /\ Record(driver.cell, TRUE, Nothing)
  <2>1. /\ records' \in Seq([cell : DensityCells, error : BOOLEAN, results : Results])
        /\ LostOnlyIfKilled'
    BY <1>3, <1>12, <1>16, ErrorKeeps
  <2>2. DensityQuietInv'
    BY <1>1 DEF DensityQuietInv
  <2>3. QED
    BY <1>11, <1>14, <2>1, <2>2 DEF DensityInv
<1>17. QED
  BY <1>8, <1>15, <1>16

-------------------------------------------------------------------------------

LEMMA DensityStarts ==
    ASSUME NEW s \in DensitySettings, NEW p \in {"next", "done"}, DensityFrom(s, p)
    PROVE  DensityInv
<1>1. /\ setting = s /\ driver = [pc |-> p, cell |-> 0, joined |-> 0] /\ emon = FALSE
      /\ phase = [c \in DensityCells |-> [a \in DensityAgents |-> "none"]]
      /\ broken = {} /\ holder = [c \in DensityCells |-> 0]
      /\ pipe = [c \in DensityCells |-> <<>>]
      /\ heard = [c \in DensityCells |-> [ok |-> {}, failed |-> {}]]
      /\ records = <<>> /\ killed = [c \in DensityCells |-> {}] /\ mishaps = 0
  BY DEF DensityFrom
<1>2. /\ driver.pc = p /\ driver.cell = 0 /\ driver.joined = 0
      /\ driver = [pc |-> driver.pc, cell |-> driver.cell, joined |-> driver.joined]
  BY <1>1
<1>3. /\ \A c \in DensityCells, a \in DensityAgents : phase[c][a] = "none"
      /\ \A c \in DensityCells : c > 0 /\ ~(c < 0) /\ c # 0
      /\ \A c \in DensityCells : pipe[c] = <<>> /\ DOMAIN pipe[c] = {}
      /\ DOMAIN records = {}
  BY <1>1 DEF DensityCells
<1>4. DensityShapeInv
  <2>1. phase \in [DensityCells -> [DensityAgents -> PhaseNames]]
    BY <1>1 DEF PhaseNames
  <2>2. /\ pipe \in [DensityCells -> Seq(Part)]
        /\ \A c \in DensityCells : Len(pipe[c]) <= PipeSize
    BY <1>1, DensityAssumption
  <2>3. /\ heard \in [DensityCells -> Results] /\ killed \in [DensityCells -> SUBSET DensityAgents]
        /\ holder \in [DensityCells -> 0 .. AgentCount]
        /\ mishaps \in 0 .. MaxMishaps /\ emon \in BOOLEAN
        /\ driver.cell \in 0 .. CellTotal /\ driver.joined \in 0 .. AgentCount
    <3>1. heard \in [DensityCells -> Results]
      BY <1>1 DEF Results
    <3>2. killed \in [DensityCells -> SUBSET DensityAgents] /\ emon \in BOOLEAN
      BY <1>1
    <3>3. 0 \in 0 .. AgentCount /\ 0 \in 0 .. MaxMishaps /\ 0 \in 0 .. CellTotal
      BY DensityAssumption
    <3>4. holder \in [DensityCells -> 0 .. AgentCount]
      BY <1>1, <3>3
    <3>5. QED
      BY <1>1, <1>2, <3>1, <3>2, <3>3, <3>4
  <2>4. records \in Seq([cell : DensityCells, error : BOOLEAN, results : Results])
    BY <1>1
  <2>5. QED
    BY <1>1, <1>2, <2>1, <2>2, <2>3, <2>4 DEF DensityShapeInv, cell
<1>5. DensityControlInv
  BY <1>2, <1>3 DEF DensityControlInv, StartTogether, AtWork, cell
<1>6. DensityQueueInv
  BY <1>3 DEF DensityQueueInv
<1>7. DensityQuietInv
  BY <1>1, <1>3 DEF DensityQuietInv
<1>8. LostOnlyIfKilled
  BY <1>3 DEF LostOnlyIfKilled
<1>9. QED
  BY <1>4, <1>5, <1>6, <1>7, <1>8 DEF DensityInv

LEMMA DensityStaysIdle ==
    ASSUME DensityInv, UNCHANGED densityVars
    PROVE  DensityInv'
<1>1. UNCHANGED <<setting, driver, emon, phase, broken, holder, pipe, reading, heard, killed, records, mishaps>>
  BY DEF densityVars, workers
<1>2. DensityShapeInv'
  BY <1>1 DEF DensityInv, DensityShapeInv, cell
<1>3. DensityControlInv'
  BY <1>1 DEF DensityInv, DensityControlInv, StartTogether, Alive, cell
<1>4. DensityQueueInv'
  BY <1>1 DEF DensityInv, DensityQueueInv, Handed
<1>5. DensityQuietInv' /\ LostOnlyIfKilled'
  BY <1>1 DEF DensityInv, DensityQuietInv, LostOnlyIfKilled, Drained
<1>6. QED
  BY <1>2, <1>3, <1>4, <1>5 DEF DensityInv

LEMMA DensityInvHolds == DensitySpec => []DensityInv
<1>1. DensityInit => DensityInv
  BY DensityStarts DEF DensityInit
<1>2. DensityInv /\ [DensityNext]_densityVars => DensityInv'
  BY NextDensityKeeps, DoesNotFitKeeps, LastDensityKeeps, SpawnKeeps, ReleaseKeeps, BreaksKeeps,
     JoinKeeps, StragglerKeeps, StopEmonKeeps, CollectedKeeps, ReadPartKeeps, CellRaisesKeeps,
     ProgressKeeps, PutResultKeeps, AgentDiesKeeps, DensityStaysIdle
     DEF DensityNext, DensitySteps
<1>3. QED
  BY <1>1, <1>2, PTL DEF DensitySpec

LEMMA DensityInvImplies ==
    DensityInv => /\ DensityTypeOK /\ StartTogether /\ LostOnlyIfKilled /\ DrainedIsWhole
                  /\ EmonCoversAgents /\ CellsDoNotOverlap
<1> SUFFICES ASSUME DensityInv
             PROVE  /\ DensityTypeOK /\ StartTogether /\ LostOnlyIfKilled /\ DrainedIsWhole
                    /\ EmonCoversAgents /\ CellsDoNotOverlap
  OBVIOUS
<1>1. DensityTypeOK
  BY DEF DensityInv, DensityShapeInv, DensityQueueInv, DensityTypeOK
<1>2. StartTogether /\ LostOnlyIfKilled /\ DrainedIsWhole
  BY DEF DensityInv, DensityControlInv, DensityQuietInv, DrainedIsWhole
<1>3. EmonCoversAgents
  <2>1. SUFFICES ASSUME setting.emon, NEW a \in DensityAgents, driver.cell # 0,
                        phase[driver.cell][a] = "working"
                 PROVE  emon
    BY DEF EmonCoversAgents, cell
  <2>2. driver.cell \in DensityCells
    BY <2>1, DensityTypes DEF DensityCells
  <2>3. driver.pc = "join"
    BY <2>1, <2>2, ControlIs DEF AtWork
  <2>4. QED
    BY <2>1, <2>3, DensityRest
<1>4. CellsDoNotOverlap
  <2>1. SUFFICES ASSUME NEW c \in 1 .. driver.cell - 1, NEW a \in DensityAgents, Alive(c, a)
                 PROVE  c \in broken
    BY DEF CellsDoNotOverlap, cell
  <2>2. c \in DensityCells /\ c < driver.cell
    BY DensityTypes DEF DensityCells
  <2>3. QED
    BY <2>1, <2>2, ControlIs
<1>5. QED
  BY <1>1, <1>2, <1>3, <1>4

-------------------------------------------------------------------------------
(* The launcher of tau-bench.                                               *)

TauTasks == DOMAIN launch.tasks
TauNames == {launch.tasks[k] : k \in TauTasks}
TauSims == TauAgents \X TauTasks
TauArgs == {Launcher} \cup TauSims

TauAgentShape == [pc : TauSteps, k : TauTasks, saved : TauArgs, chain : Seq(TauAgents),
                  asked : TauArgs, status : {"ok", "exit", "error"}]
TauEntry == [task : TauNames, sim : TauSims, calls : Nat,
             status : {"none", "ok", "error"}]
TauReport == [task : TauNames, asked : TauArgs, own : TauSims, passed : BOOLEAN,
              data : TauEntry \cup {NoData}]

TauShapeInv ==
    /\ launch = [tasks |-> launch.tasks, tau2 |-> launch.tau2, server |-> launch.server,
                 left |-> launch.left, pc |-> launch.pc, failed |-> launch.failed]
    /\ launch.pc \in {"boot", "density", "emon", "agents", "stop", "finally", "ended"}
    /\ launch.failed \in BOOLEAN
    /\ \E n \in 1 .. MaxTauTasks : TauTasks = 1 .. n /\ Len(launch.tasks) = n
    /\ running \subseteq {"vllm", "emon"}
    /\ tau \in [TauAgents -> TauAgentShape]
    /\ latencyLock \in {0} \cup TauAgents
    /\ hooks \in Seq(TauAgents)
    /\ argv \in TauArgs
    /\ recorders \in [TauAgents -> Seq(TauEntry)]
    /\ tauReports \in [TauAgents -> Seq(TauReport)]
    /\ made \in [AllSims -> Nat]
    /\ replaced \subseteq TauAgents /\ crossed \in BOOLEAN
    /\ tauFaults \in 0 .. MaxTauFaults

\* The driver: agents act only between the start and the end of a density.
TauDriverInv ==
    /\ launch.pc # "agents" => \A a \in TauAgents : tau[a].pc \in {"idle", "ended"}
    /\ launch.pc = "boot" => running = {}
    /\ launch.pc \in {"density", "emon", "finally", "ended"} /\ "emon" \in running =>
           launch.failed
    /\ launch.pc = "ended" => "vllm" \notin running

\* An agent that has patched tau2 is in its chain, unless another replaced it.
TauHooksInv ==
    \A a \in TauAgents :
        \/ tau[a].pc \in {"argv", "parse", "enter", "calls", "restore"}
        \/ tau[a].pc = "look" /\ launch.tau2
        => a \in ToSet(hooks) \cup replaced

\* A recorder has one entry of a simulation, ...
OneEach(data) == \A i, j \in DOMAIN data : data[i].sim = data[j].sim => i = j

\* ... and knows n calls of it.
Counts(data, sim, n) ==
    /\ \A i \in DOMAIN data : data[i].sim = sim => data[i].calls = n
    /\ n > 0 => \E i \in DOMAIN data : data[i].sim = sim

\* The entries of an agent's own simulations count the calls of those.
TauRecordersInv ==
    \A a \in TauAgents :
        /\ OneEach(recorders[a])
        /\ a \notin replaced =>
               \A k \in 1 .. MaxTauTasks : Counts(recorders[a], <<a, k>>, made[<<a, k>>])

\* sys.argv is that of the one agent that has set it, which saved the launcher's.
TauArgvInv ==
    /\ \A a \in TauAgents : tau[a].pc \in {"enter", "calls"} => tau[a].asked # Launcher
    /\ ~crossed =>
           /\ \A a, b \in TauAgents : HasArgv(a) /\ HasArgv(b) => a = b
           /\ \A a \in TauAgents : HasArgv(a) => argv = Here(a) /\ tau[a].saved = Launcher
           /\ (\A a \in TauAgents : ~HasArgv(a)) => argv = Launcher
           /\ \A a \in TauAgents :
                  \/ tau[a].pc \in {"enter", "calls", "restore"}
                  \/ tau[a].pc = "look" /\ launch.tau2
                  => tau[a].asked = Here(a)

TauReportsInv ==
    \A a \in TauAgents : \A i \in DOMAIN tauReports[a] :
        /\ launch.tau2 /\ ~crossed /\ tauReports[a][i].passed =>
               tauReports[a][i].asked = tauReports[a][i].own
        /\ tauReports[a][i].data # NoData => InKey(tauReports[a][i].task, tauReports[a][i].data)

TauInv ==
    /\ TauShapeInv /\ TauDriverInv /\ TauHooksInv /\ TauRecordersInv /\ TauArgvInv
    /\ TauReportsInv

-------------------------------------------------------------------------------

LEMMA TauTypes ==
    ASSUME TauInv
    PROVE  /\ TauTasks \subseteq 1 .. MaxTauTasks /\ TauTasks \subseteq Nat
           /\ 1 \in TauTasks /\ Len(launch.tasks) \in TauTasks
           /\ \A k \in TauTasks : k # Len(launch.tasks) => k + 1 \in TauTasks
           /\ TauSims \subseteq AllSims /\ Launcher \notin TauSims /\ 0 \notin TauAgents
           /\ tau \in [TauAgents -> TauAgentShape] /\ argv \in TauArgs
           /\ recorders \in [TauAgents -> Seq(TauEntry)] /\ made \in [AllSims -> Nat]
           /\ tauReports \in [TauAgents -> Seq(TauReport)]
           /\ hooks \in Seq(TauAgents) /\ replaced \subseteq TauAgents /\ crossed \in BOOLEAN
           /\ latencyLock \in {0} \cup TauAgents /\ tauFaults \in 0 .. MaxTauFaults
           /\ running \subseteq {"vllm", "emon"}
<1>1. PICK n \in 1 .. MaxTauTasks : TauTasks = 1 .. n /\ Len(launch.tasks) = n
  BY DEF TauInv, TauShapeInv
<1>2. n \in Nat /\ n >= 1 /\ n <= MaxTauTasks /\ MaxTauTasks \in Nat /\ MaxTauAgents \in Nat
  BY TauAssumption
<1>3. /\ TauTasks \subseteq 1 .. MaxTauTasks /\ TauTasks \subseteq Nat
      /\ 1 \in TauTasks /\ Len(launch.tasks) \in TauTasks
      /\ \A k \in TauTasks : k # Len(launch.tasks) => k + 1 \in TauTasks
  BY <1>1, <1>2
<1>4. 0 \notin TauAgents
  BY <1>2 DEF TauAgents
<1>5. TauSims \subseteq AllSims /\ Launcher \notin TauSims
  BY <1>3, <1>4 DEF TauSims, AllSims, Launcher
<1>6. QED
  BY <1>3, <1>4, <1>5 DEF TauInv, TauShapeInv

LEMMA AgentIs ==
    ASSUME TauInv, NEW a \in TauAgents
    PROVE  /\ tau[a] \in TauAgentShape
           /\ tau[a] = [pc |-> tau[a].pc, k |-> tau[a].k, saved |-> tau[a].saved,
                        chain |-> tau[a].chain, asked |-> tau[a].asked, status |-> tau[a].status]
           /\ tau[a].pc \in TauSteps /\ tau[a].k \in TauTasks /\ tau[a].saved \in TauArgs
           /\ tau[a].chain \in Seq(TauAgents) /\ tau[a].asked \in TauArgs
           /\ tau[a].status \in {"ok", "exit", "error"}
           /\ Here(a) \in TauSims /\ Here(a) \in TauArgs /\ Here(a) # Launcher
<1>1. tau[a] \in TauAgentShape
  BY TauTypes
<1>2. /\ tau[a] = [pc |-> tau[a].pc, k |-> tau[a].k, saved |-> tau[a].saved,
                   chain |-> tau[a].chain, asked |-> tau[a].asked, status |-> tau[a].status]
      /\ tau[a].pc \in TauSteps /\ tau[a].k \in TauTasks /\ tau[a].saved \in TauArgs
      /\ tau[a].chain \in Seq(TauAgents) /\ tau[a].asked \in TauArgs
      /\ tau[a].status \in {"ok", "exit", "error"}
  BY <1>1 DEF TauAgentShape
<1>3. Here(a) \in TauSims
  BY <1>2 DEF Here, TauSims
<1>4. QED
  BY <1>1, <1>2, <1>3, TauTypes DEF TauArgs

\* The agent as its step leaves it.
LEMMA AgentBecomes ==
    ASSUME TauInv, NEW a \in TauAgents, NEW r, tau' = [tau EXCEPT ![a] = r]
    PROVE  /\ tau'[a] = r
           /\ \A b \in TauAgents : b # a => tau'[b] = tau[b]
           /\ r \in TauAgentShape => tau' \in [TauAgents -> TauAgentShape]
BY TauTypes

LEMMA AgentActs ==
    ASSUME TauInv, NEW a \in TauAgents, tau[a].pc \notin {"idle", "ended"},
           UNCHANGED <<launch, running>>,
           tau' \in [TauAgents -> TauAgentShape],
           latencyLock' \in {0} \cup TauAgents, hooks' \in Seq(TauAgents), argv' \in TauArgs,
           recorders' \in [TauAgents -> Seq(TauEntry)],
           tauReports' \in [TauAgents -> Seq(TauReport)], made' \in [AllSims -> Nat],
           replaced' \subseteq TauAgents, crossed' \in BOOLEAN,
           tauFaults' \in 0 .. MaxTauFaults
    PROVE  TauShapeInv' /\ TauDriverInv'
<1>1. /\ TauTasks' = TauTasks /\ TauNames' = TauNames /\ TauSims' = TauSims
      /\ TauArgs' = TauArgs
  BY DEF TauTasks, TauNames, TauSims, TauArgs
<1>2. /\ TauAgentShape' = TauAgentShape /\ TauEntry' = TauEntry /\ TauReport' = TauReport
  BY <1>1 DEF TauAgentShape, TauEntry, TauReport
<1>3. TauShapeInv'
  BY <1>1, <1>2 DEF TauInv, TauShapeInv
<1>4. launch.pc = "agents"
  BY DEF TauInv, TauDriverInv
<1>5. TauDriverInv'
  BY <1>4 DEF TauDriverInv
<1>6. QED
  BY <1>3, <1>5

LEMMA HooksStay ==
    ASSUME TauInv, NEW a \in TauAgents, UNCHANGED <<launch, hooks, replaced>>,
           \A b \in TauAgents : b # a => tau'[b] = tau[b],
           \/ tau'[a].pc \in {"argv", "parse", "enter", "calls", "restore"}
           \/ tau'[a].pc = "look" /\ launch.tau2
           => \/ tau[a].pc \in {"argv", "parse", "enter", "calls", "restore"}
              \/ tau[a].pc = "look" /\ launch.tau2
    PROVE  TauHooksInv'
<1>1. ToSet(hooks)' = ToSet(hooks)
  BY DEF ToSet
<1>2. QED
  BY <1>1 DEF TauInv, TauHooksInv

LEMMA RecordersStay ==
    ASSUME TauInv, UNCHANGED <<recorders, made>>, replaced \subseteq replaced'
    PROVE  TauRecordersInv'
BY DEF TauInv, TauRecordersInv

\* A step that leaves sys.argv alone, and the agent as near to it as it was.
LEMMA ArgvStays ==
    ASSUME TauInv, NEW a \in TauAgents, UNCHANGED <<launch, argv, crossed>>,
           \A b \in TauAgents : b # a => tau'[b] = tau[b],
           HasArgv(a)' <=> HasArgv(a),
           tau'[a].pc \in {"enter", "calls"} => tau[a].pc \in {"enter", "calls"},
           tau'[a].pc \in {"enter", "calls", "restore"} =>
               tau[a].pc \in {"enter", "calls", "restore"},
           ~(tau'[a].pc = "look" /\ launch.tau2),
           HasArgv(a) => /\ tau'[a].k = tau[a].k /\ tau'[a].saved = tau[a].saved
                         /\ tau'[a].asked = tau[a].asked
    PROVE  TauArgvInv'
<1>1. \A b \in TauAgents : HasArgv(b)' <=> HasArgv(b)
  BY DEF HasArgv
<1>2. \A b \in TauAgents : HasArgv(b) =>
          /\ Here(b)' = Here(b) /\ tau'[b].saved = tau[b].saved /\ tau'[b].asked = tau[b].asked
  BY DEF Here
<1>3. \A b \in TauAgents : tau'[b].pc \in {"enter", "calls"} => tau'[b].asked # Launcher
  BY <1>2 DEF TauInv, TauArgvInv, HasArgv
<1>4. ASSUME ~crossed
      PROVE  /\ \A b, c \in TauAgents : HasArgv(b)' /\ HasArgv(c)' => b = c
             /\ \A b \in TauAgents : HasArgv(b)' => argv = Here(b)' /\ tau'[b].saved = Launcher
             /\ (\A b \in TauAgents : ~HasArgv(b)') => argv = Launcher
  BY <1>1, <1>2, <1>4 DEF TauInv, TauArgvInv
<1>5. ASSUME ~crossed, NEW b \in TauAgents,
             \/ tau'[b].pc \in {"enter", "calls", "restore"}
             \/ tau'[b].pc = "look" /\ launch.tau2
      PROVE  tau'[b].asked = Here(b)'
  <2>1. CASE b = a
    <3>1. tau[a].pc \in {"enter", "calls", "restore"}
      BY <1>5, <2>1
    <3>2. HasArgv(a) /\ tau[a].asked = Here(a)
      BY <1>5, <3>1 DEF TauInv, TauArgvInv, HasArgv
    <3>3. QED
      BY <1>2, <2>1, <3>2
  <2>2. CASE b # a
    <3>1. tau'[b] = tau[b] /\ Here(b)' = Here(b)
      BY <2>2 DEF Here
    <3>2. QED
      BY <1>5, <3>1 DEF TauInv, TauArgvInv
  <2>3. QED
    BY <2>1, <2>2
<1>6. QED
  BY <1>3, <1>4, <1>5 DEF TauArgvInv

LEMMA ReportsStay ==
    ASSUME TauInv, UNCHANGED <<launch, tauReports>>, crossed => crossed'
    PROVE  TauReportsInv'
BY DEF TauInv, TauReportsInv

LEMMA TauFaultIs ==
    ASSUME TauInv, TauFault
    PROVE  tauFaults' \in 0 .. MaxTauFaults
BY TauAssumption, TauTypes DEF TauFault

LEMMA StepIs ==
    ASSUME NEW x \in TauAgentShape, NEW step
    PROVE  [x EXCEPT !.pc = step] =
               [pc |-> step, k |-> x.k, saved |-> x.saved, chain |-> x.chain,
                asked |-> x.asked, status |-> x.status]
BY DEF TauAgentShape

Chained(x, step, chain) == [x EXCEPT !.pc = step, !.chain = chain]

LEMMA ChainedIs ==
    ASSUME NEW x \in TauAgentShape, NEW step \in TauSteps, NEW chain \in Seq(TauAgents)
    PROVE  /\ Chained(x, step, chain) \in TauAgentShape
           /\ Chained(x, step, chain).pc = step /\ Chained(x, step, chain).k = x.k
           /\ Chained(x, step, chain).saved = x.saved /\ Chained(x, step, chain).asked = x.asked
<1> DEFINE y == [x EXCEPT !.pc = step, !.chain = chain]
<1>1. y \in TauAgentShape
  BY DEF TauAgentShape
<1>2. /\ y.pc = step /\ y.k = x.k
      /\ y.saved = x.saved /\ y.asked = x.asked
  BY DEF TauAgentShape
<1>3. QED
  BY <1>1, <1>2 DEF Chained

Saving(x, step, saved) == [x EXCEPT !.pc = step, !.saved = saved, !.status = "ok"]

LEMMA SavingIs ==
    ASSUME NEW x \in TauAgentShape, NEW step \in TauSteps, NEW saved \in TauArgs
    PROVE  /\ Saving(x, step, saved) \in TauAgentShape
           /\ Saving(x, step, saved).pc = step /\ Saving(x, step, saved).k = x.k
           /\ Saving(x, step, saved).saved = saved /\ Saving(x, step, saved).asked = x.asked
<1> DEFINE y == [x EXCEPT !.pc = step, !.saved = saved, !.status = "ok"]
<1>1. y \in TauAgentShape
  BY DEF TauAgentShape
<1>2. /\ y.pc = step /\ y.k = x.k
      /\ y.saved = saved /\ y.asked = x.asked
  BY DEF TauAgentShape
<1>3. QED
  BY <1>1, <1>2 DEF Saving

Asking(x, asked, step, end) == [x EXCEPT !.asked = asked, !.pc = step, !.status = end]

LEMMA AskingIs ==
    ASSUME NEW x \in TauAgentShape, NEW step \in TauSteps, NEW asked \in TauArgs,
           NEW end \in {"ok", "exit", "error"}
    PROVE  /\ Asking(x, asked, step, end) \in TauAgentShape
           /\ Asking(x, asked, step, end).pc = step /\ Asking(x, asked, step, end).k = x.k
           /\ Asking(x, asked, step, end).saved = x.saved /\ Asking(x, asked, step, end).asked = asked
<1> DEFINE y == [x EXCEPT !.asked = asked, !.pc = step, !.status = end]
<1>1. y \in TauAgentShape
  BY DEF TauAgentShape
<1>2. /\ y.pc = step /\ y.k = x.k
      /\ y.saved = x.saved /\ y.asked = asked
  BY DEF TauAgentShape
<1>3. QED
  BY <1>1, <1>2 DEF Asking

LEMMA RaisedIs ==
    ASSUME NEW x \in TauAgentShape
    PROVE  [x EXCEPT !.pc = "restore", !.status = "error"] =
               Asking(x, x.asked, "restore", "error")
BY DEF TauAgentShape, Asking

LEMMA TauGoesOn ==
    ASSUME TauInv, NEW a \in TauAgents, NEW step \in TauSteps, TauGoes(a, step)
    PROVE  /\ tau' \in [TauAgents -> TauAgentShape]
           /\ tau'[a].pc = step /\ tau'[a].k = tau[a].k /\ tau'[a].saved = tau[a].saved
           /\ tau'[a].asked = tau[a].asked /\ tau'[a].status = tau[a].status
           /\ \A b \in TauAgents : b # a => tau'[b] = tau[b]
<1> DEFINE r == [pc |-> step, k |-> tau[a].k, saved |-> tau[a].saved, chain |-> tau[a].chain,
                 asked |-> tau[a].asked, status |-> tau[a].status]
<1>1. tau' = [tau EXCEPT ![a] = [tau[a] EXCEPT !.pc = step]]
  BY DEF TauGoes
<1>2. [tau[a] EXCEPT !.pc = step] = r
  BY AgentIs, StepIs
<1>3. r \in TauAgentShape
  BY AgentIs DEF TauAgentShape
<1>4. /\ r.pc = step /\ r.k = tau[a].k /\ r.saved = tau[a].saved
      /\ r.asked = tau[a].asked /\ r.status = tau[a].status
  OBVIOUS
<1> HIDE DEF r
<1>5. tau' = [tau EXCEPT ![a] = r]
  BY <1>1, <1>2
<1>6. QED
  BY <1>3, <1>4, <1>5, AgentBecomes

-------------------------------------------------------------------------------
(* What the operations of a recorder do to its entries.                     *)

LEMMA AppendedSet ==
    ASSUME NEW S, NEW s \in Seq(S), NEW x \in S
    PROVE  ToSet(Append(s, x)) = ToSet(s) \cup {x} /\ ToSet(s) \subseteq S
<1> DEFINE t == Append(s, x)
<1>1. /\ Len(s) \in Nat /\ DOMAIN s = 1 .. Len(s) /\ \A i \in 1 .. Len(s) : s[i] \in S
      /\ DOMAIN t = 1 .. Len(s) + 1 /\ t[Len(s) + 1] = x
      /\ \A i \in 1 .. Len(s) : t[i] = s[i]
  OBVIOUS
<1> HIDE DEF t
<1>2. ToSet(t) \subseteq ToSet(s) \cup {x}
  <2>1. ASSUME NEW i \in DOMAIN t PROVE t[i] \in ToSet(s) \cup {x}
    <3>1. i \in 1 .. Len(s) \/ i = Len(s) + 1
      BY <1>1
    <3>2. QED
      BY <1>1, <3>1 DEF ToSet
  <2>2. QED
    BY <2>1 DEF ToSet
<1>3. ToSet(s) \cup {x} \subseteq ToSet(t)
  <2>1. ASSUME NEW i \in DOMAIN s PROVE s[i] \in ToSet(t)
    <3>1. i \in DOMAIN t /\ t[i] = s[i]
      BY <1>1
    <3>2. QED
      BY <3>1 DEF ToSet
  <2>2. Len(s) + 1 \in DOMAIN t
    BY <1>1
  <2>3. QED
    BY <1>1, <2>1, <2>2 DEF ToSet
<1>4. ToSet(s) \subseteq S
  BY <1>1 DEF ToSet
<1>5. QED
  BY <1>2, <1>3, <1>4 DEF t

LEMMA EnsureKeeps ==
    ASSUME NEW data \in Seq(TauEntry), OneEach(data), NEW task \in TauNames, NEW sim \in TauSims
    PROVE  /\ Ensure(data, task, sim) \in Seq(TauEntry) /\ OneEach(Ensure(data, task, sim))
           /\ \E i \in DOMAIN Ensure(data, task, sim) : Ensure(data, task, sim)[i].sim = sim
           /\ \A s : \A n \in Nat : Counts(data, s, n) => Counts(Ensure(data, task, sim), s, n)
<1> DEFINE e == [task |-> task, sim |-> sim, calls |-> 0, status |-> "none"]
           t == Append(data, e)
<1>1. CASE \E i \in DOMAIN data : data[i].sim = sim
  BY <1>1 DEF Ensure
<1>2. CASE ~\E i \in DOMAIN data : data[i].sim = sim
  <2>1. Ensure(data, task, sim) = t
    BY <1>2 DEF Ensure
  <2>2. e \in TauEntry
    BY DEF TauEntry
  <2>3. e.sim = sim /\ e.calls = 0
    OBVIOUS
  <2> HIDE DEF e
  <2>4. t \in Seq(TauEntry)
    BY <2>2
  <2>5. /\ Len(data) \in Nat /\ DOMAIN data = 1 .. Len(data)
        /\ DOMAIN t = 1 .. Len(data) + 1 /\ t[Len(data) + 1] = e
        /\ \A i \in 1 .. Len(data) : t[i] = data[i]
    BY <2>2
  <2> HIDE DEF t
  <2>6. ASSUME NEW i \in DOMAIN t
        PROVE  \/ i \in DOMAIN data /\ t[i] = data[i]
               \/ i = Len(data) + 1 /\ t[i] = e
    <3>1. i \in 1 .. Len(data) \/ i = Len(data) + 1
      BY <2>5
    <3>2. QED
      BY <2>5, <3>1
  <2>7. OneEach(t)
    BY <1>2, <2>3, <2>6 DEF OneEach
  <2>8. \A i \in DOMAIN data : i \in DOMAIN t /\ t[i] = data[i]
    BY <2>5
  <2>9. ASSUME NEW s, NEW n \in Nat, Counts(data, s, n) PROVE Counts(t, s, n)
    <3>1. ASSUME NEW i \in DOMAIN t, t[i].sim = s PROVE t[i].calls = n
      <4>1. CASE i \in DOMAIN data /\ t[i] = data[i]
        BY <2>9, <3>1, <4>1 DEF Counts
      <4>2. CASE i = Len(data) + 1 /\ t[i] = e
        <5>1. ~(n > 0)
          BY <1>2, <2>3, <2>9, <3>1, <4>2 DEF Counts
        <5>2. QED
          BY <2>3, <4>2, <5>1
      <4>3. QED
        BY <2>6, <4>1, <4>2
    <3>2. n > 0 => \E i \in DOMAIN t : t[i].sim = s
      BY <2>8, <2>9 DEF Counts
    <3>3. QED
      BY <3>1, <3>2 DEF Counts
  <2>10. Len(data) + 1 \in DOMAIN t /\ t[Len(data) + 1].sim = sim
    BY <2>3, <2>5
  <2>11. QED
    BY <2>1, <2>4, <2>7, <2>9, <2>10
<1>3. QED
  BY <1>1, <1>2

LEMMA CountedCounts ==
    ASSUME NEW data \in Seq(TauEntry), OneEach(data), NEW task \in TauNames, NEW sim \in TauSims
    PROVE  /\ Counted(data, task, sim) \in Seq(TauEntry) /\ OneEach(Counted(data, task, sim))
           /\ \A s : \A n \in Nat : s # sim /\ Counts(data, s, n) =>
                  Counts(Counted(data, task, sim), s, n)
           /\ \A n \in Nat : Counts(data, sim, n) =>
                  Counts(Counted(data, task, sim), sim, n + 1)
<1> DEFINE kept == Ensure(data, task, sim)
           t == Counted(data, task, sim)
<1>1. /\ kept \in Seq(TauEntry) /\ OneEach(kept)
      /\ \E i \in DOMAIN kept : kept[i].sim = sim
      /\ \A s : \A n \in Nat : Counts(data, s, n) => Counts(kept, s, n)
  BY EnsureKeeps
<1>2. t = [i \in DOMAIN kept |->
              IF kept[i].sim = sim THEN [kept[i] EXCEPT !.calls = @ + 1] ELSE kept[i]]
  BY DEF Counted
<1> HIDE DEF kept, t
<1>3. ASSUME NEW i \in DOMAIN kept
      PROVE  /\ t[i] \in TauEntry /\ t[i].sim = kept[i].sim
             /\ kept[i].sim = sim => t[i].calls = kept[i].calls + 1
             /\ kept[i].sim # sim => t[i].calls = kept[i].calls
  <2>1. kept[i] \in TauEntry
    BY <1>1
  <2>2. CASE kept[i].sim = sim
    BY <1>2, <2>1, <2>2 DEF TauEntry
  <2>3. CASE kept[i].sim # sim
    BY <1>2, <2>1, <2>3
  <2>4. QED
    BY <2>2, <2>3
<1>4. DOMAIN t = DOMAIN kept /\ DOMAIN kept = 1 .. Len(kept) /\ Len(kept) \in Nat
  BY <1>1, <1>2
<1>5. t \in Seq(TauEntry)
  <2>1. t = [i \in 1 .. Len(kept) |-> t[i]]
    BY <1>2, <1>4
  <2>2. QED
    BY <1>3, <1>4, <2>1
<1>6. OneEach(t)
  BY <1>1, <1>3, <1>4 DEF OneEach
<1>7. ASSUME NEW s, NEW n \in Nat, s # sim, Counts(data, s, n) PROVE Counts(t, s, n)
  <2>1. Counts(kept, s, n)
    BY <1>1, <1>7
  <2>2. QED
    BY <1>3, <1>4, <1>7, <2>1 DEF Counts
<1>8. ASSUME NEW n \in Nat, Counts(data, sim, n) PROVE Counts(t, sim, n + 1)
  <2>1. Counts(kept, sim, n)
    BY <1>1, <1>8
  <2>2. QED
    BY <1>1, <1>3, <1>4, <2>1 DEF Counts
<1>9. QED
  BY <1>5, <1>6, <1>7, <1>8 DEF t

LEMMA EndsKeeps ==
    ASSUME NEW data \in Seq(TauEntry), OneEach(data), NEW sim, NEW status \in {"ok", "error"}
    PROVE  /\ EndsSim(data, sim, status) \in Seq(TauEntry)
           /\ OneEach(EndsSim(data, sim, status))
           /\ \A s : \A n \in Nat : Counts(data, s, n) => Counts(EndsSim(data, sim, status), s, n)
<1> DEFINE t == EndsSim(data, sim, status)
<1>2. t = [i \in DOMAIN data |->
              IF data[i].sim = sim THEN [data[i] EXCEPT !.status = status] ELSE data[i]]
  BY DEF EndsSim
<1> HIDE DEF t
<1>3. ASSUME NEW i \in DOMAIN data
      PROVE  t[i] \in TauEntry /\ t[i].sim = data[i].sim /\ t[i].calls = data[i].calls
  <2>1. data[i] \in TauEntry
    OBVIOUS
  <2>2. CASE data[i].sim = sim
    BY <1>2, <2>1, <2>2 DEF TauEntry
  <2>3. CASE data[i].sim # sim
    BY <1>2, <2>1, <2>3
  <2>4. QED
    BY <2>2, <2>3
<1>4. DOMAIN t = DOMAIN data /\ DOMAIN data = 1 .. Len(data) /\ Len(data) \in Nat
  BY <1>2
<1>5. t \in Seq(TauEntry)
  <2>1. t = [i \in 1 .. Len(data) |-> t[i]]
    BY <1>2, <1>4
  <2>2. QED
    BY <1>3, <1>4, <2>1
<1>6. OneEach(t)
  BY <1>3, <1>4 DEF OneEach
<1>7. \A s : \A n \in Nat : Counts(data, s, n) => Counts(t, s, n)
  BY <1>3, <1>4 DEF Counts
<1>8. QED
  BY <1>5, <1>6, <1>7 DEF t

LEMMA SimDataIsFound ==
    ASSUME NEW data \in Seq(TauEntry), NEW task
    PROVE  \/ SimData(data, task) = NoData
           \/ SimData(data, task) \in TauEntry /\ InKey(task, SimData(data, task))
<1> DEFINE found == {i \in DOMAIN data : InKey(task, data[i])}
           first == CHOOSE i \in found : \A j \in found : i <= j
<1>1. found \subseteq Nat /\ found \subseteq DOMAIN data
  OBVIOUS
<1>2. CASE found = {}
  BY <1>2 DEF SimData
<1>3. CASE found # {}
  <2>1. PICK i \in found : \A j \in found : ~(j < i)
    <3>1. IsWellFoundedOn(OpToRel(<, Nat), Nat)
      BY NatLessThanWellFounded
    <3>2. PICK i \in found : \A j \in found : ~(<<j, i>> \in OpToRel(<, Nat))
      BY <1>1, <1>3, <3>1, WFMin
    <3>3. QED
      BY <1>1, <3>2 DEF OpToRel
  <2>2. \E k \in found : \A j \in found : k <= j
    <3>1. \A j \in found : i <= j
      BY <1>1, <2>1
    <3>2. QED
      BY <3>1
  <2>3. first \in found
    BY <2>2
  <2>4. SimData(data, task) = data[first]
    BY <1>3 DEF SimData
  <2> HIDE DEF first
  <2>5. data[first] \in TauEntry /\ InKey(task, data[first])
    BY <2>3
  <2>6. QED
    BY <2>4, <2>5
<1>4. QED
  BY <1>2, <1>3

-------------------------------------------------------------------------------
(* The steps of an agent.                                                   *)

LEMMA ReadPatchesKeeps ==
    ASSUME TauInv, NEW a \in TauAgents, ReadPatches(a)
    PROVE  TauInv'
<1> DEFINE r == Chained(tau[a], "patch", hooks)
<1>1. tau' = [tau EXCEPT ![a] = r]
  BY DEF ReadPatches, Chained
<1>2. /\ r \in TauAgentShape
      /\ r.pc = "patch" /\ r.k = tau[a].k /\ r.saved = tau[a].saved /\ r.asked = tau[a].asked
  <2>1. hooks \in Seq(TauAgents) /\ "patch" \in TauSteps
    BY TauTypes DEF TauSteps
  <2>2. tau[a] \in TauAgentShape
    BY AgentIs
  <2>3. QED
    BY <2>1, <2>2, ChainedIs
<1> HIDE DEF r
<1>4. /\ tau' \in [TauAgents -> TauAgentShape] /\ tau'[a] = r
      /\ \A b \in TauAgents : b # a => tau'[b] = tau[b]
  BY <1>1, <1>2, AgentBecomes
<1>5. TauShapeInv' /\ TauDriverInv'
  BY <1>4, TauTypes, AgentActs DEF ReadPatches, At, marks
<1>6. TauHooksInv'
  BY <1>2, <1>4, HooksStay DEF ReadPatches, marks
<1>7. TauRecordersInv'
  BY RecordersStay DEF ReadPatches, marks
<1>8. TauArgvInv'
  BY <1>2, <1>4, ArgvStays DEF ReadPatches, marks, HasArgv, At
<1>9. TauReportsInv'
  BY ReportsStay DEF ReadPatches, marks
<1>10. QED
  BY <1>5, <1>6, <1>7, <1>8, <1>9 DEF TauInv

LEMMA PatchKeeps ==
    ASSUME TauInv, NEW a \in TauAgents, Patch(a)
    PROVE  TauInv'
<1> DEFINE r == Chained(tau[a], "argv", <<>>)
<1>1. tau' = [tau EXCEPT ![a] = r]
  BY DEF Patch, Chained
<1>2. /\ r \in TauAgentShape
      /\ r.pc = "argv" /\ r.k = tau[a].k /\ r.saved = tau[a].saved /\ r.asked = tau[a].asked
  <2>1. <<>> \in Seq(TauAgents) /\ "argv" \in TauSteps
    BY TauTypes DEF TauSteps
  <2>2. tau[a] \in TauAgentShape
    BY AgentIs
  <2>3. QED
    BY <2>1, <2>2, ChainedIs
<1> HIDE DEF r
<1>4. /\ tau' \in [TauAgents -> TauAgentShape] /\ tau'[a] = r
      /\ \A b \in TauAgents : b # a => tau'[b] = tau[b]
  BY <1>1, <1>2, AgentBecomes
<1>5. /\ ToSet(hooks') = ToSet(tau[a].chain) \cup {a} /\ hooks' \in Seq(TauAgents)
      /\ ToSet(hooks) \subseteq TauAgents
  <2>1. tau[a].chain \in Seq(TauAgents) /\ hooks' = Append(tau[a].chain, a)
    BY AgentIs DEF Patch
  <2>2. hooks \in Seq(TauAgents)
    BY TauTypes
  <2>3. ToSet(hooks) \subseteq TauAgents
    BY <2>2, AppendedSet
  <2>4. ToSet(Append(tau[a].chain, a)) = ToSet(tau[a].chain) \cup {a}
    BY <2>1, AppendedSet
  <2>5. QED
    BY <2>1, <2>3, <2>4
<1>6. /\ replaced' = replaced \cup (ToSet(hooks) \ ToSet(tau[a].chain))
      /\ replaced' \subseteq TauAgents /\ replaced \subseteq replaced'
  BY <1>5, TauTypes DEF Patch
<1>7. TauShapeInv' /\ TauDriverInv'
  BY <1>4, <1>5, <1>6, TauTypes, AgentActs DEF Patch, At
<1>8. TauHooksInv'
  <2>1. ASSUME NEW b \in TauAgents,
               \/ tau'[b].pc \in {"argv", "parse", "enter", "calls", "restore"}
               \/ tau'[b].pc = "look" /\ launch'.tau2
        PROVE  b \in ToSet(hooks') \cup replaced'
    <3>1. CASE b = a
      BY <1>5, <3>1
    <3>2. CASE b # a
      <4>1. b \in ToSet(hooks) \cup replaced
        BY <1>4, <2>1, <3>2 DEF TauInv, TauHooksInv, Patch
      <4>2. QED
        BY <1>5, <1>6, <4>1
    <3>3. QED
      BY <3>1, <3>2
  <2>2. QED
    BY <2>1 DEF TauHooksInv, ToSet
<1>9. TauRecordersInv'
  BY <1>6, RecordersStay DEF Patch
<1>10. TauArgvInv'
  BY <1>2, <1>4, ArgvStays DEF Patch, HasArgv, At
<1>11. TauReportsInv'
  BY ReportsStay DEF Patch
<1>12. QED
  BY <1>7, <1>8, <1>9, <1>10, <1>11 DEF TauInv

LEMMA SetArgvKeeps ==
    ASSUME TauInv, NEW a \in TauAgents, SetArgv(a)
    PROVE  TauInv'
<1> DEFINE r == Saving(tau[a], "parse", argv)
<1>1. tau' = [tau EXCEPT ![a] = r]
  BY DEF SetArgv, Saving
<1>2. /\ r \in TauAgentShape
      /\ r.pc = "parse" /\ r.k = tau[a].k /\ r.saved = argv /\ r.asked = tau[a].asked
  <2>1. argv \in TauArgs /\ "parse" \in TauSteps
    BY TauTypes DEF TauSteps
  <2>2. tau[a] \in TauAgentShape
    BY AgentIs
  <2>3. QED
    BY <2>1, <2>2, SavingIs
<1> HIDE DEF r
<1>4. /\ tau' \in [TauAgents -> TauAgentShape] /\ tau'[a] = r
      /\ \A b \in TauAgents : b # a => tau'[b] = tau[b]
  BY <1>1, <1>2, AgentBecomes
<1>5. /\ crossed' \in BOOLEAN
      /\ crossed => crossed'
      /\ ~crossed' => \A b \in TauAgents : ~HasArgv(b)
  <2>1. crossed' = (crossed \/ \E b \in TauAgents \ {a} : HasArgv(b)) /\ crossed \in BOOLEAN
    BY TauTypes DEF SetArgv
  <2>2. ~HasArgv(a)
    BY DEF SetArgv, At, HasArgv
  <2>3. crossed' \in BOOLEAN
    BY <2>1
  <2>4. QED
    BY <2>1, <2>2, <2>3
<1>6. argv' = Here(a) /\ argv' \in TauArgs
  BY AgentIs DEF SetArgv
<1>7. TauShapeInv' /\ TauDriverInv'
  BY <1>4, <1>5, <1>6, TauTypes, AgentActs DEF SetArgv, At
<1>8. TauHooksInv'
  BY <1>2, <1>4, HooksStay DEF SetArgv, At
<1>9. TauRecordersInv'
  BY RecordersStay DEF SetArgv
<1>10. TauArgvInv'
  <2>1. \A b \in TauAgents : tau'[b].pc \in {"enter", "calls"} => tau'[b].asked # Launcher
    BY <1>2, <1>4 DEF TauInv, TauArgvInv
  <2>2. ASSUME ~crossed'
        PROVE  /\ \A b \in TauAgents : HasArgv(b)' => b = a
               /\ HasArgv(a)' /\ argv' = Here(a)' /\ tau'[a].saved = Launcher
    <3>1. ~crossed /\ \A b \in TauAgents : ~HasArgv(b)
      BY <1>5, <2>2
    <3>2. argv = Launcher
      BY <3>1 DEF TauInv, TauArgvInv
    <3>3. QED
      BY <1>2, <1>4, <1>6, <3>1, <3>2 DEF HasArgv, Here
  <2>3. ASSUME ~crossed', NEW b \in TauAgents,
               \/ tau'[b].pc \in {"enter", "calls", "restore"}
               \/ tau'[b].pc = "look" /\ launch'.tau2
        PROVE  tau'[b].asked = Here(b)'
    <3>1. b # a /\ tau'[b] = tau[b] /\ Here(b)' = Here(b) /\ launch' = launch /\ ~crossed
      BY <1>2, <1>4, <1>5, <2>3 DEF Here, SetArgv
    <3>2. QED
      BY <2>3, <3>1 DEF TauInv, TauArgvInv
  <2>4. QED
    BY <2>1, <2>2, <2>3 DEF TauArgvInv
<1>11. TauReportsInv'
  BY <1>5, ReportsStay DEF SetArgv
<1>12. QED
  BY <1>7, <1>8, <1>9, <1>10, <1>11 DEF TauInv

LEMMA ParseArgvKeeps ==
    ASSUME TauInv, NEW a \in TauAgents, ParseArgv(a)
    PROVE  TauInv'
<1> DEFINE step == IF argv = Launcher THEN "restore" ELSE "enter"
           end == IF argv = Launcher THEN "exit" ELSE "ok"
           r == Asking(tau[a], argv, step, end)
<1>1. /\ step \in TauSteps /\ end \in {"ok", "exit", "error"}
      /\ step \in {"enter", "restore"}
      /\ step = "enter" => argv # Launcher
  BY DEF TauSteps
<1>2. tau' = [tau EXCEPT ![a] = [tau[a] EXCEPT !.asked = argv, !.pc = step, !.status = end]]
  BY DEF ParseArgv
<1> HIDE DEF step, end
<1>3. tau' = [tau EXCEPT ![a] = r]
  BY <1>2 DEF Asking
<1>4. tau[a] \in TauAgentShape /\ argv \in TauArgs
  BY AgentIs, TauTypes
<1>5. /\ r \in TauAgentShape
      /\ r.pc = step /\ r.k = tau[a].k /\ r.saved = tau[a].saved /\ r.asked = argv
  BY <1>1, <1>4, AskingIs
<1> HIDE DEF r
<1>6. /\ tau' \in [TauAgents -> TauAgentShape] /\ tau'[a] = r
      /\ \A b \in TauAgents : b # a => tau'[b] = tau[b]
  BY <1>3, <1>5, AgentBecomes
<1>7. TauShapeInv' /\ TauDriverInv'
  BY <1>6, TauTypes, AgentActs DEF ParseArgv, At, marks
<1>8. TauHooksInv'
  BY <1>1, <1>5, <1>6, HooksStay DEF ParseArgv, At, marks
<1>9. TauRecordersInv'
  BY RecordersStay DEF ParseArgv, marks
<1>10. TauArgvInv'
  <2>1. \A b \in TauAgents : tau'[b].pc \in {"enter", "calls"} => tau'[b].asked # Launcher
    BY <1>1, <1>5, <1>6 DEF TauInv, TauArgvInv
  <2>2. HasArgv(a) /\ HasArgv(a)'
    BY <1>1, <1>5, <1>6 DEF HasArgv, ParseArgv, At
  <2>3. \A b \in TauAgents : HasArgv(b)' <=> HasArgv(b)
    BY <1>6, <2>2 DEF HasArgv
  <2>4. /\ \A b \in TauAgents : Here(b)' = Here(b) /\ tau'[b].saved = tau[b].saved
        /\ argv' = argv /\ crossed' = crossed /\ launch' = launch
    BY <1>5, <1>6 DEF Here, ParseArgv, marks
  <2>5. ASSUME ~crossed
        PROVE  /\ \A b, c \in TauAgents : HasArgv(b)' /\ HasArgv(c)' => b = c
               /\ \A b \in TauAgents : HasArgv(b)' => argv' = Here(b)' /\ tau'[b].saved = Launcher
               /\ (\A b \in TauAgents : ~HasArgv(b)') => argv' = Launcher
    BY <2>3, <2>4, <2>5 DEF TauInv, TauArgvInv
  <2>6. ASSUME ~crossed, NEW b \in TauAgents,
               \/ tau'[b].pc \in {"enter", "calls", "restore"}
               \/ tau'[b].pc = "look" /\ launch.tau2
        PROVE  tau'[b].asked = Here(b)'
    <3>1. CASE b = a
      <4>1. argv = Here(a)
        BY <2>2, <2>6 DEF TauInv, TauArgvInv
      <4>2. QED
        BY <1>5, <1>6, <2>4, <3>1, <4>1
    <3>2. CASE b # a
      BY <1>6, <2>4, <2>6, <3>2 DEF TauInv, TauArgvInv
    <3>3. QED
      BY <3>1, <3>2
  <2>7. QED
    BY <2>1, <2>4, <2>5, <2>6 DEF TauArgvInv
<1>11. TauReportsInv'
  BY ReportsStay DEF ParseArgv, marks
<1>12. QED
  BY <1>7, <1>8, <1>9, <1>10, <1>11 DEF TauInv

LEMMA RecordersBecome ==
    ASSUME \A b \in TauAgents : OneEach(recorders'[b]),
           \A b \in TauAgents : b \notin replaced' =>
               \A k \in 1 .. MaxTauTasks : Counts(recorders'[b], <<b, k>>, made'[<<b, k>>])
    PROVE  TauRecordersInv'
BY DEF TauRecordersInv, OneEach, Counts

\* A step that leaves the counts of the recorders as they are.
LEMMA Recording ==
    ASSUME TauInv, NEW added, Recorded(added), UNCHANGED <<made, replaced>>,
           \A b \in TauAgents :
               /\ added[b] \in Seq(TauEntry) /\ OneEach(added[b])
               /\ \A s : \A n \in Nat : Counts(recorders[b], s, n) => Counts(added[b], s, n)
    PROVE  recorders' \in [TauAgents -> Seq(TauEntry)] /\ TauRecordersInv'
<1>1. recorders' = [b \in TauAgents |-> IF b \in ToSet(hooks) THEN added[b] ELSE recorders[b]]
  BY DEF Recorded
<1>2. ASSUME NEW b \in TauAgents
      PROVE  /\ recorders'[b] \in Seq(TauEntry) /\ OneEach(recorders'[b])
             /\ \A s : \A n \in Nat : Counts(recorders[b], s, n) => Counts(recorders'[b], s, n)
  <2>1. recorders[b] \in Seq(TauEntry) /\ OneEach(recorders[b])
    BY TauTypes DEF TauInv, TauRecordersInv
  <2>2. recorders'[b] = added[b] \/ recorders'[b] = recorders[b]
    BY <1>1
  <2>3. QED
    BY <2>1, <2>2
<1>3. recorders' \in [TauAgents -> Seq(TauEntry)]
  BY <1>1, <1>2
<1>4. ASSUME NEW b \in TauAgents, b \notin replaced, NEW k \in 1 .. MaxTauTasks
      PROVE  Counts(recorders'[b], <<b, k>>, made'[<<b, k>>])
  <2>1. made[<<b, k>>] \in Nat
    BY TauTypes DEF AllSims
  <2>2. Counts(recorders[b], <<b, k>>, made[<<b, k>>])
    BY <1>4 DEF TauInv, TauRecordersInv
  <2>3. QED
    BY <1>2, <2>1, <2>2
<1>5. \A b \in TauAgents : OneEach(recorders'[b])
  BY <1>2
<1>6. TauRecordersInv'
  BY <1>4, <1>5, RecordersBecome
<1>7. QED
  BY <1>3, <1>6

LEMMA AskedIs ==
    ASSUME TauInv, NEW a \in TauAgents, tau[a].pc \in {"enter", "calls"}
    PROVE  AskedTask(a) \in TauNames /\ Here(a) \in TauSims
<1>1. tau[a].asked \in TauArgs /\ tau[a].asked # Launcher /\ Here(a) \in TauSims
  BY AgentIs DEF TauInv, TauArgvInv
<1>2. tau[a].asked \in TauSims
  BY <1>1 DEF TauArgs
<1>3. tau[a].asked[2] \in TauTasks
  BY <1>2 DEF TauSims
<1>4. QED
  BY <1>1, <1>3 DEF AskedTask, TauNames

LEMMA EnterSimKeeps ==
    ASSUME TauInv, NEW a \in TauAgents, EnterSim(a)
    PROVE  TauInv'
<1> DEFINE added == [b \in TauAgents |-> Ensure(recorders[b], AskedTask(a), Here(a))]
<1>1. Recorded(added) /\ UNCHANGED <<made, replaced>>
  BY DEF EnterSim, marks
<1>2. /\ tau' \in [TauAgents -> TauAgentShape] /\ tau'[a].pc = "calls"
      /\ tau'[a].k = tau[a].k /\ tau'[a].saved = tau[a].saved /\ tau'[a].asked = tau[a].asked
      /\ \A b \in TauAgents : b # a => tau'[b] = tau[b]
  <2>1. TauGoes(a, "calls") /\ "calls" \in TauSteps
    BY DEF EnterSim, TauSteps
  <2>2. QED
    BY <2>1, TauGoesOn
<1>3. ASSUME NEW b \in TauAgents
      PROVE  /\ added[b] \in Seq(TauEntry) /\ OneEach(added[b])
             /\ \A s : \A n \in Nat : Counts(recorders[b], s, n) => Counts(added[b], s, n)
  <2>1. recorders[b] \in Seq(TauEntry) /\ OneEach(recorders[b])
    BY TauTypes DEF TauInv, TauRecordersInv
  <2>2. AskedTask(a) \in TauNames /\ Here(a) \in TauSims
    BY AskedIs DEF EnterSim, At
  <2>3. added[b] = Ensure(recorders[b], AskedTask(a), Here(a))
    OBVIOUS
  <2> HIDE DEF added
  <2>4. QED
    BY <2>1, <2>2, <2>3, EnsureKeeps
<1> HIDE DEF added
<1>4. recorders' \in [TauAgents -> Seq(TauEntry)] /\ TauRecordersInv'
  BY <1>1, <1>3, Recording
<1>5. TauShapeInv' /\ TauDriverInv'
  BY <1>2, <1>4, TauTypes, AgentActs DEF EnterSim, At, marks
<1>6. TauHooksInv'
  BY <1>2, HooksStay DEF EnterSim, At, marks
<1>7. TauArgvInv'
  BY <1>2, ArgvStays DEF EnterSim, marks, HasArgv, At
<1>8. TauReportsInv'
  BY ReportsStay DEF EnterSim, marks
<1>9. QED
  BY <1>4, <1>5, <1>6, <1>7, <1>8 DEF TauInv

LEMMA TauCallKeeps ==
    ASSUME TauInv, NEW a \in TauAgents, TauCall(a)
    PROVE  TauInv'
<1> DEFINE added == [b \in TauAgents |-> Counted(recorders[b], AskedTask(a), Here(a))]
           here == Here(a)
           n == made[Here(a)]
<1>1. Recorded(added) /\ made' = [made EXCEPT ![Here(a)] = n + 1] /\ tau' = tau
  BY DEF TauCall
<1>2. /\ AskedTask(a) \in TauNames /\ here \in TauSims /\ here \in AllSims
      /\ n \in Nat /\ n + 1 \in Nat /\ made \in [AllSims -> Nat]
  <2>1. AskedTask(a) \in TauNames /\ here \in TauSims
    BY AskedIs DEF TauCall, At
  <2>2. here \in AllSims /\ made \in [AllSims -> Nat]
    BY <2>1, TauTypes
  <2>3. QED
    BY <2>1, <2>2
<1>3. ASSUME NEW b \in TauAgents
      PROVE  /\ added[b] \in Seq(TauEntry) /\ OneEach(added[b])
             /\ \A s : \A m \in Nat : s # here /\ Counts(recorders[b], s, m) =>
                    Counts(added[b], s, m)
             /\ \A m \in Nat : Counts(recorders[b], here, m) => Counts(added[b], here, m + 1)
  <2>1. recorders[b] \in Seq(TauEntry) /\ OneEach(recorders[b])
    BY TauTypes DEF TauInv, TauRecordersInv
  <2>2. added[b] = Counted(recorders[b], AskedTask(a), here)
    OBVIOUS
  <2> HIDE DEF added, here, n
  <2>3. QED
    BY <1>2, <2>1, <2>2, CountedCounts
<1>4. recorders' = [b \in TauAgents |-> IF b \in ToSet(hooks) THEN added[b] ELSE recorders[b]]
  BY <1>1 DEF Recorded
<1>5. here = <<a, tau[a].k>>
  BY DEF Here
<1>6. made' = [made EXCEPT ![here] = n + 1] /\ n = made[here]
  BY <1>1
<1> HIDE DEF added, here, n
<1>7. ASSUME NEW b \in TauAgents
      PROVE  /\ recorders'[b] \in Seq(TauEntry) /\ OneEach(recorders'[b])
             /\ b \in ToSet(hooks) => recorders'[b] = added[b]
             /\ \A s : \A m \in Nat : s # here /\ Counts(recorders[b], s, m) =>
                    Counts(recorders'[b], s, m)
  <2>1. recorders[b] \in Seq(TauEntry) /\ OneEach(recorders[b])
    BY TauTypes DEF TauInv, TauRecordersInv
  <2>2. CASE b \in ToSet(hooks)
    BY <1>3, <1>4, <2>2
  <2>3. CASE b \notin ToSet(hooks)
    BY <1>4, <2>1, <2>3
  <2>4. QED
    BY <2>2, <2>3
<1>8. ASSUME NEW b \in TauAgents, b \notin replaced, NEW k \in 1 .. MaxTauTasks
      PROVE  Counts(recorders'[b], <<b, k>>, made'[<<b, k>>])
  <2>1. made[<<b, k>>] \in Nat /\ <<b, k>> \in AllSims
    BY TauTypes DEF AllSims
  <2>2. Counts(recorders[b], <<b, k>>, made[<<b, k>>])
    BY <1>8 DEF TauInv, TauRecordersInv
  <2>3. CASE <<b, k>> # here
    <3>1. made'[<<b, k>>] = made[<<b, k>>]
      BY <1>2, <1>6, <2>1, <2>3
    <3>2. QED
      BY <1>7, <2>1, <2>2, <2>3, <3>1
  <2>4. CASE <<b, k>> = here
    <3>1. b = a
      BY <1>5, <2>4
    <3>2. a \in ToSet(hooks)
      BY <1>8, <3>1 DEF TauInv, TauHooksInv, TauCall, At
    <3>3. made'[<<b, k>>] = n + 1
      BY <1>2, <1>6, <2>4
    <3>4. Counts(added[b], here, n + 1)
      BY <1>2, <1>3, <1>6, <2>2, <2>4
    <3>5. QED
      BY <1>7, <2>4, <3>1, <3>2, <3>3, <3>4
  <2>5. QED
    BY <2>3, <2>4
<1>9. TauRecordersInv'
  BY <1>7, <1>8 DEF TauRecordersInv, OneEach, Counts, TauCall, marks
<1>10. recorders' \in [TauAgents -> Seq(TauEntry)] /\ made' \in [AllSims -> Nat]
  BY <1>2, <1>4, <1>6, <1>7
<1>11. TauShapeInv' /\ TauDriverInv'
  BY <1>1, <1>10, TauTypes, AgentActs DEF TauCall, At, marks
<1>12. TauHooksInv'
  BY <1>1, HooksStay DEF TauCall, At, marks
<1>13. TauArgvInv'
  BY <1>1, ArgvStays DEF TauCall, marks, HasArgv, At
<1>14. TauReportsInv'
  BY ReportsStay DEF TauCall, marks
<1>15. QED
  BY <1>9, <1>11, <1>12, <1>13, <1>14 DEF TauInv

\* The two ways out of a simulation.
LEMMA EndingKeeps ==
    ASSUME TauInv, NEW a \in TauAgents, At(a, "calls"), NEW status \in {"ok", "error"},
           Recorded([b \in TauAgents |-> EndsSim(recorders[b], Here(a), status)]),
           tau' \in [TauAgents -> TauAgentShape], tau'[a].pc = "restore",
           tau'[a].k = tau[a].k, tau'[a].saved = tau[a].saved, tau'[a].asked = tau[a].asked,
           \A b \in TauAgents : b # a => tau'[b] = tau[b],
           tauFaults' \in 0 .. MaxTauFaults,
           UNCHANGED <<launch, running, latencyLock, hooks, argv, tauReports, made, replaced,
                       crossed>>
    PROVE  TauInv'
<1> DEFINE added == [b \in TauAgents |-> EndsSim(recorders[b], Here(a), status)]
<1>1. Recorded(added)
  OBVIOUS
<1>2. ASSUME NEW b \in TauAgents
      PROVE  /\ added[b] \in Seq(TauEntry) /\ OneEach(added[b])
             /\ \A s : \A n \in Nat : Counts(recorders[b], s, n) => Counts(added[b], s, n)
  <2>1. recorders[b] \in Seq(TauEntry) /\ OneEach(recorders[b])
    BY TauTypes DEF TauInv, TauRecordersInv
  <2>2. added[b] = EndsSim(recorders[b], Here(a), status)
    OBVIOUS
  <2> HIDE DEF added
  <2>3. QED
    BY <2>1, <2>2, EndsKeeps
<1> HIDE DEF added
<1>3. recorders' \in [TauAgents -> Seq(TauEntry)] /\ TauRecordersInv'
  BY <1>1, <1>2, Recording
<1>4. TauShapeInv' /\ TauDriverInv'
  BY <1>3, TauTypes, AgentActs DEF At
<1>5. TauHooksInv'
  BY HooksStay DEF At
<1>6. TauArgvInv'
  BY ArgvStays DEF HasArgv, At
<1>7. TauReportsInv'
  BY ReportsStay
<1>8. QED
  BY <1>3, <1>4, <1>5, <1>6, <1>7 DEF TauInv

LEMMA ExitSimKeeps ==
    ASSUME TauInv, NEW a \in TauAgents, ExitSim(a)
    PROVE  TauInv'
<1>1. TauGoes(a, "restore") /\ "restore" \in TauSteps
  BY DEF ExitSim, TauSteps
<1>2. /\ tau' \in [TauAgents -> TauAgentShape] /\ tau'[a].pc = "restore"
      /\ tau'[a].k = tau[a].k /\ tau'[a].saved = tau[a].saved /\ tau'[a].asked = tau[a].asked
      /\ \A b \in TauAgents : b # a => tau'[b] = tau[b]
  BY <1>1, TauGoesOn
<1>3. /\ At(a, "calls") /\ Recorded([b \in TauAgents |-> EndsSim(recorders[b], Here(a), "ok")])
      /\ UNCHANGED <<launch, running, latencyLock, hooks, argv, tauReports, made, replaced,
                      crossed, tauFaults>>
  BY DEF ExitSim, marks
<1>4. tauFaults' \in 0 .. MaxTauFaults
  BY <1>3, TauTypes
<1>5. QED
  BY <1>2, <1>3, <1>4, EndingKeeps

LEMMA ExitRaisedKeeps ==
    ASSUME TauInv, NEW a \in TauAgents, ExitRaised(a)
    PROVE  TauInv'
<1> DEFINE r == Asking(tau[a], tau[a].asked, "restore", "error")
<1>1. tau[a] \in TauAgentShape /\ tau[a].asked \in TauArgs /\ "restore" \in TauSteps
  BY AgentIs DEF TauSteps
<1>2. /\ r \in TauAgentShape
      /\ r.pc = "restore" /\ r.k = tau[a].k /\ r.saved = tau[a].saved /\ r.asked = tau[a].asked
  BY <1>1, AskingIs
<1>3. tau' = [tau EXCEPT ![a] = r]
  <2>1. tau' = [tau EXCEPT ![a] = [tau[a] EXCEPT !.pc = "restore", !.status = "error"]]
    BY DEF ExitRaised
  <2>2. [tau[a] EXCEPT !.pc = "restore", !.status = "error"] = r
    BY <1>1, RaisedIs
  <2>3. QED
    BY <2>1, <2>2
<1> HIDE DEF r
<1>4. /\ tau' \in [TauAgents -> TauAgentShape] /\ tau'[a] = r
      /\ \A b \in TauAgents : b # a => tau'[b] = tau[b]
  BY <1>2, <1>3, AgentBecomes
<1>5. /\ At(a, "calls")
      /\ Recorded([b \in TauAgents |-> EndsSim(recorders[b], Here(a), "error")])
      /\ UNCHANGED <<launch, running, latencyLock, hooks, argv, tauReports, made, replaced,
                      crossed>>
  BY DEF ExitRaised, marks
<1>6. tauFaults' \in 0 .. MaxTauFaults
  BY TauFaultIs DEF ExitRaised
<1>7. QED
  BY <1>2, <1>4, <1>5, <1>6, EndingKeeps

LEMMA RestoreArgvKeeps ==
    ASSUME TauInv, NEW a \in TauAgents, RestoreArgv(a)
    PROVE  TauInv'
<1>1. TauGoes(a, "look") /\ "look" \in TauSteps
  BY DEF RestoreArgv, TauSteps
<1>2. /\ tau' \in [TauAgents -> TauAgentShape] /\ tau'[a].pc = "look"
      /\ tau'[a].k = tau[a].k /\ tau'[a].saved = tau[a].saved /\ tau'[a].asked = tau[a].asked
      /\ \A b \in TauAgents : b # a => tau'[b] = tau[b]
  BY <1>1, TauGoesOn
<1>3. argv' = tau[a].saved /\ argv' \in TauArgs
  BY AgentIs DEF RestoreArgv
<1>4. TauShapeInv' /\ TauDriverInv'
  BY <1>2, <1>3, TauTypes, AgentActs DEF RestoreArgv, At, marks
<1>5. TauHooksInv'
  BY <1>2, HooksStay DEF RestoreArgv, At, marks
<1>6. TauRecordersInv'
  BY RecordersStay DEF RestoreArgv, marks
<1>7. TauArgvInv'
  <2>1. \A b \in TauAgents : tau'[b].pc \in {"enter", "calls"} => tau'[b].asked # Launcher
    BY <1>2 DEF TauInv, TauArgvInv
  <2>2. HasArgv(a) /\ launch' = launch /\ crossed' = crossed
    BY DEF RestoreArgv, HasArgv, At, marks
  <2>3. ASSUME ~crossed
        PROVE  argv' = Launcher /\ \A b \in TauAgents : ~HasArgv(b)'
    <3>1. tau[a].saved = Launcher /\ \A b \in TauAgents : HasArgv(b) => b = a
      BY <2>2, <2>3 DEF TauInv, TauArgvInv
    <3>2. QED
      BY <1>2, <1>3, <3>1 DEF HasArgv
  <2>4. ASSUME ~crossed, NEW b \in TauAgents,
               \/ tau'[b].pc \in {"enter", "calls", "restore"}
               \/ tau'[b].pc = "look" /\ launch.tau2
        PROVE  tau'[b].asked = Here(b)'
    <3>1. Here(b)' = Here(b) /\ tau'[b].asked = tau[b].asked
      BY <1>2 DEF Here
    <3>2. CASE b = a
      <4>1. tau[a].pc = "restore"
        BY DEF RestoreArgv, At
      <4>2. QED
        BY <2>4, <3>1, <3>2, <4>1 DEF TauInv, TauArgvInv
    <3>3. CASE b # a
      BY <1>2, <2>4, <3>1, <3>3 DEF TauInv, TauArgvInv
    <3>4. QED
      BY <3>2, <3>3
  <2>5. QED
    BY <2>1, <2>2, <2>3, <2>4 DEF TauArgvInv
<1>8. TauReportsInv'
  BY ReportsStay DEF RestoreArgv, marks
<1>9. QED
  BY <1>4, <1>5, <1>6, <1>7, <1>8 DEF TauInv

\* A task that is over: its report, and the next task or the teardown.
LEMMA ReportedKeeps ==
    ASSUME TauInv, NEW a \in TauAgents, At(a, "look"), NEW passed \in BOOLEAN, NEW data,
           Reported(a, passed, data),
           launch.tau2 /\ passed => tau[a].status = "ok",
           data = NoData \/ (data \in TauEntry /\ InKey(launch.tasks[tau[a].k], data)),
           UNCHANGED <<launch, running, latencyLock, hooks, argv, recorders, made, replaced,
                       crossed, tauFaults>>
    PROVE  TauInv'
<1> DEFINE step == IF launch.tau2 THEN "argv" ELSE "look"
           last == [NewAgent EXCEPT !.pc = "dump"]
           next == [NewAgent EXCEPT !.k = tau[a].k + 1, !.pc = step]
           r == IF tau[a].k = Len(launch.tasks) THEN last ELSE next
           e == [task |-> launch.tasks[tau[a].k], asked |-> tau[a].asked, own |-> Here(a),
                 passed |-> passed, data |-> data]
<1>1. tau' = [tau EXCEPT ![a] = r]
  BY DEF Reported
<1>2. /\ r \in TauAgentShape /\ r.pc \in {"dump", step}
  <2>1. NewAgent \in TauAgentShape
    <3>1. 1 \in TauTasks /\ <<>> \in Seq(TauAgents) /\ Launcher \in TauArgs
      BY TauTypes DEF TauArgs
    <3>2. QED
      BY <3>1 DEF NewAgent, TauAgentShape, TauSteps
  <2>2. CASE tau[a].k = Len(launch.tasks)
    <3>1. last \in TauAgentShape /\ last.pc = "dump"
      BY <2>1 DEF TauAgentShape, TauSteps
    <3>2. QED
      BY <2>2, <3>1
  <2>3. CASE tau[a].k # Len(launch.tasks)
    <3>1. tau[a].k + 1 \in TauTasks
      BY <2>3, AgentIs, TauTypes
    <3>2. step \in TauSteps
      BY DEF TauSteps
    <3>3. next \in TauAgentShape /\ next.pc = step
      <4> DEFINE k == tau[a].k + 1
      <4>1. k \in TauTasks
        BY <3>1
      <4> HIDE DEF k, step
      <4>2. [NewAgent EXCEPT !.k = k, !.pc = step] \in TauAgentShape
        BY <2>1, <3>2, <4>1 DEF TauAgentShape
      <4>3. [NewAgent EXCEPT !.k = k, !.pc = step].pc = step
        BY <2>1, <3>2, <4>1 DEF TauAgentShape
      <4>4. QED
        BY <4>2, <4>3 DEF k
    <3>4. QED
      BY <2>3, <3>3
  <2>4. QED
    BY <2>2, <2>3
<1>3. tauReports' = [tauReports EXCEPT ![a] = Append(tauReports[a], e)]
  BY TauTypes DEF Reported
<1>4. e \in TauReport
  <2>1. launch.tasks[tau[a].k] \in TauNames /\ tau[a].asked \in TauArgs /\ Here(a) \in TauSims
    BY AgentIs DEF TauNames
  <2>2. QED
    BY <2>1 DEF TauReport
<1>5. /\ e.task = launch.tasks[tau[a].k] /\ e.asked = tau[a].asked /\ e.own = Here(a)
      /\ e.passed = passed /\ e.data = data
  OBVIOUS
<1> HIDE DEF r, e
<1>6. /\ tau' \in [TauAgents -> TauAgentShape] /\ tau'[a] = r
      /\ \A b \in TauAgents : b # a => tau'[b] = tau[b]
  BY <1>1, <1>2, AgentBecomes
<1>7. tauReports' \in [TauAgents -> Seq(TauReport)]
  BY <1>3, <1>4, TauTypes
<1>8. TauShapeInv' /\ TauDriverInv'
  BY <1>6, <1>7, TauTypes, AgentActs DEF At
<1>9. TauHooksInv'
  BY <1>2, <1>6, HooksStay DEF At
<1>10. TauRecordersInv'
  BY RecordersStay
<1>11. TauArgvInv'
  BY <1>2, <1>6, ArgvStays DEF HasArgv, At
<1>12. TauReportsInv'
  <2>1. ASSUME NEW b \in TauAgents, NEW i \in DOMAIN tauReports'[b]
        PROVE  \/ i \in DOMAIN tauReports[b] /\ tauReports'[b][i] = tauReports[b][i]
               \/ b = a /\ tauReports'[b][i] = e
    <3>1. CASE b = a
      <4>1. tauReports'[b] = Append(tauReports[a], e) /\ tauReports[a] \in Seq(TauReport)
        BY <1>3, <3>1, TauTypes
      <4>2. QED
        BY <2>1, <3>1, <4>1
    <3>2. CASE b # a
      BY <1>3, <2>1, <3>2, TauTypes
    <3>3. QED
      BY <3>1, <3>2
  <2>2. /\ launch.tau2 /\ ~crossed /\ e.passed => e.asked = e.own
        /\ e.data # NoData => InKey(e.task, e.data)
    <3>1. launch.tau2 /\ ~crossed => tau[a].asked = Here(a)
      BY DEF TauInv, TauArgvInv, At
    <3>2. QED
      BY <1>5, <3>1
  <2>3. ASSUME NEW b \in TauAgents, NEW i \in DOMAIN tauReports'[b]
        PROVE  /\ launch.tau2 /\ ~crossed /\ tauReports'[b][i].passed =>
                      tauReports'[b][i].asked = tauReports'[b][i].own
               /\ tauReports'[b][i].data # NoData =>
                      InKey(tauReports'[b][i].task, tauReports'[b][i].data)
    <3>1. CASE i \in DOMAIN tauReports[b] /\ tauReports'[b][i] = tauReports[b][i]
      BY <3>1 DEF TauInv, TauReportsInv
    <3>2. CASE tauReports'[b][i] = e
      BY <2>2, <3>2
    <3>3. QED
      BY <2>1, <3>1, <3>2
  <2>4. QED
    BY <2>3 DEF TauReportsInv, InKey
<1>13. QED
  BY <1>8, <1>9, <1>10, <1>11, <1>12 DEF TauInv

LEMMA LookKeeps ==
    ASSUME TauInv, NEW a \in TauAgents, LookUp(a) \/ LookRaises(a) \/ Fallback(a)
    PROVE  TauInv'
<1>1. /\ At(a, "look")
      /\ UNCHANGED <<launch, running, latencyLock, hooks, argv, recorders, made, replaced,
                      crossed, tauFaults>>
  BY DEF LookUp, LookRaises, Fallback, marks
<1>2. CASE LookUp(a)
  <2> DEFINE task == launch.tasks[tau[a].k]
             data == SimData(recorders[a], task)
             passed == tau[a].status = "ok"
  <2>1. Reported(a, passed, data)
    BY <1>2 DEF LookUp
  <2>2. recorders[a] \in Seq(TauEntry)
    BY TauTypes
  <2>3. data = NoData \/ (data \in TauEntry /\ InKey(task, data))
    BY <2>2, SimDataIsFound
  <2>4. passed \in BOOLEAN
    OBVIOUS
  <2>5. launch.tau2 /\ passed => tau[a].status = "ok"
    OBVIOUS
  <2> HIDE DEF data, passed
  <2>6. QED
    BY <1>1, <2>1, <2>3, <2>4, <2>5, ReportedKeeps
<1>3. CASE LookRaises(a)
  <2>1. Reported(a, FALSE, NoData)
    BY <1>3 DEF LookRaises
  <2>2. QED
    BY <1>1, <2>1, ReportedKeeps
<1>4. CASE Fallback(a)
  <2>1. Reported(a, TRUE, NoData) /\ ~launch.tau2
    BY <1>4 DEF Fallback
  <2>2. QED
    BY <1>1, <2>1, ReportedKeeps
<1>5. QED
  BY <1>2, <1>3, <1>4

LEMMA TeardownKeeps ==
    ASSUME TauInv, NEW a \in TauAgents, TeardownEmpty(a) \/ TeardownDumps(a)
    PROVE  TauInv'
<1>1. PICK step \in {"summary", "ended"} : TauGoes(a, step)
  BY DEF TeardownEmpty, TeardownDumps
<1>2. /\ tau' \in [TauAgents -> TauAgentShape] /\ tau'[a].pc = step
      /\ \A b \in TauAgents : b # a => tau'[b] = tau[b]
  <2>1. step \in TauSteps
    BY DEF TauSteps
  <2>2. QED
    BY <1>1, <2>1, TauGoesOn
<1>3. /\ tau[a].pc \in {"dump", "summary"}
      /\ UNCHANGED <<launch, running, hooks, argv, recorders, tauReports, made, replaced,
                      crossed, tauFaults>>
  BY DEF TeardownEmpty, TeardownDumps, At, marks
<1>4. latencyLock' \in {0} \cup TauAgents
  BY TauTypes DEF TeardownEmpty, TeardownDumps
<1>5. TauShapeInv' /\ TauDriverInv'
  BY <1>2, <1>3, <1>4, TauTypes, AgentActs
<1>6. TauHooksInv'
  BY <1>1, <1>2, <1>3, HooksStay
<1>7. TauRecordersInv'
  BY <1>3, RecordersStay
<1>8. TauArgvInv'
  BY <1>1, <1>2, <1>3, ArgvStays DEF HasArgv
<1>9. TauReportsInv'
  BY <1>3, ReportsStay
<1>10. QED
  BY <1>5, <1>6, <1>7, <1>8, <1>9 DEF TauInv

-------------------------------------------------------------------------------
(* The steps of the driver.                                                 *)

LaunchBecomes(left, step, failed) ==
    /\ launch' = [tasks |-> launch'.tasks, tau2 |-> launch'.tau2, server |-> launch'.server,
                  left |-> launch'.left, pc |-> launch'.pc, failed |-> launch'.failed]
    /\ launch'.tasks = launch.tasks /\ launch'.tau2 = launch.tau2
    /\ launch'.server = launch.server /\ launch'.left = left /\ launch'.pc = step
    /\ launch'.failed = failed

\* The command lines that differ from this one in what the driver sets.
LaunchForms(lefts, steps) ==
    [tasks : {launch.tasks}, tau2 : {launch.tau2}, server : {launch.server}, left : lefts,
     pc : steps, failed : BOOLEAN]

LEMMA LaunchForm ==
    ASSUME TauInv, NEW lefts, NEW steps, launch.left \in lefts, launch.pc \in steps
    PROVE  launch \in LaunchForms(lefts, steps)
<1> DEFINE l == [tasks |-> launch.tasks, tau2 |-> launch.tau2, server |-> launch.server,
                 left |-> launch.left, pc |-> launch.pc, failed |-> launch.failed]
<1>1. launch = l /\ launch.failed \in BOOLEAN
  BY DEF TauInv, TauShapeInv
<1>2. l \in LaunchForms(lefts, steps)
  BY <1>1 DEF LaunchForms
<1> HIDE DEF l
<1>3. QED
  BY <1>1, <1>2

LEMMA LaunchGoes ==
    ASSUME TauInv, NEW step, DriverGoes(step)
    PROVE  LaunchBecomes(launch.left, step, launch.failed)
<1> DEFINE S == LaunchForms({launch.left}, {launch.pc, step})
<1>1. launch \in S
  BY LaunchForm
<1>2. ASSUME NEW l \in S
      PROVE  LET m == [l EXCEPT !.pc = step]
             IN  m \in S /\ m.pc = step /\ m.failed = l.failed
  BY DEF LaunchForms
<1>3. launch' \in S /\ launch'.pc = step /\ launch'.failed = launch.failed
  BY <1>1, <1>2 DEF DriverGoes
<1>4. QED
  BY <1>3 DEF LaunchForms, LaunchBecomes

LEMMA LaunchFails ==
    ASSUME TauInv, NEW step, launch' = [launch EXCEPT !.pc = step, !.failed = TRUE]
    PROVE  LaunchBecomes(launch.left, step, TRUE)
<1> DEFINE S == LaunchForms({launch.left}, {launch.pc, step})
           Failed(l) == [l EXCEPT !.pc = step, !.failed = TRUE]
<1>1. launch \in S
  BY LaunchForm
<1>2. ASSUME NEW l \in S
      PROVE  Failed(l) \in S /\ Failed(l).pc = step /\ Failed(l).failed = TRUE
  <2>1. Failed(l) \in S
    BY DEF LaunchForms
  <2>2. Failed(l).pc = step /\ Failed(l).failed = TRUE
    BY DEF LaunchForms
  <2>3. QED
    BY <2>1, <2>2
<1>3. launch' = Failed(launch)
  OBVIOUS
<1> HIDE DEF Failed
<1>4. launch' \in S /\ launch'.pc = step /\ launch'.failed = TRUE
  BY <1>1, <1>2, <1>3
<1>5. QED
  BY <1>4 DEF LaunchForms, LaunchBecomes

LEMMA LaunchStops ==
    ASSUME TauInv, StopTauEmon
    PROVE  \E step \in {"finally", "density"} :
               LaunchBecomes(Tail(launch.left), step, launch.failed)
<1> DEFINE left == Tail(launch.left)
           step == IF Len(launch.left) = 1 THEN "finally" ELSE "density"
           S == LaunchForms({launch.left, left}, {launch.pc, "finally", "density"})
           Stopped(l) == [l EXCEPT !.left = left, !.pc = step]
<1>1. launch \in S
  BY LaunchForm
<1>2. step \in {"finally", "density"}
  OBVIOUS
<1>3. launch' = Stopped(launch)
  BY DEF StopTauEmon
<1> HIDE DEF left, step
<1>4. ASSUME NEW l \in S
      PROVE  /\ Stopped(l) \in S /\ Stopped(l).pc = step /\ Stopped(l).left = left
             /\ Stopped(l).failed = l.failed
  <2>1. Stopped(l) \in S
    BY <1>2 DEF LaunchForms
  <2>2. Stopped(l).pc = step /\ Stopped(l).left = left /\ Stopped(l).failed = l.failed
    BY <1>2 DEF LaunchForms
  <2>3. QED
    BY <2>1, <2>2
<1> HIDE DEF Stopped
<1>5. /\ launch' \in S /\ launch'.pc = step /\ launch'.left = left
      /\ launch'.failed = launch.failed
  BY <1>1, <1>3, <1>4
<1>6. LaunchBecomes(left, step, launch.failed)
  BY <1>5 DEF LaunchForms, LaunchBecomes
<1>7. QED
  BY <1>2, <1>6 DEF left

LEMMA DriverActs ==
    ASSUME TauInv, UNCHANGED agentState,
           NEW left, NEW failed \in BOOLEAN,
           NEW step \in {"boot", "density", "emon", "agents", "stop", "finally", "ended"},
           LaunchBecomes(left, step, failed),
           running' \subseteq {"vllm", "emon"}, tauFaults' \in 0 .. MaxTauFaults,
           step # "agents" => \A a \in TauAgents : tau[a].pc \in {"idle", "ended"},
           step = "boot" => running' = {},
           step \in {"density", "emon", "finally", "ended"} /\ "emon" \in running' => failed,
           step = "ended" => "vllm" \notin running'
    PROVE  TauInv'
<1>1. /\ launch'.tasks = launch.tasks /\ launch'.tau2 = launch.tau2
      /\ launch'.server = launch.server /\ launch'.left = left /\ launch'.pc = step
      /\ launch'.failed = failed
      /\ launch' = [tasks |-> launch'.tasks, tau2 |-> launch'.tau2, server |-> launch'.server,
                    left |-> launch'.left, pc |-> launch'.pc, failed |-> launch'.failed]
  BY DEF LaunchBecomes
<1>2. /\ tau' = tau /\ latencyLock' = latencyLock /\ hooks' = hooks /\ argv' = argv
      /\ recorders' = recorders /\ tauReports' = tauReports /\ made' = made
      /\ replaced' = replaced /\ crossed' = crossed
  BY DEF agentState, marks
<1>3. /\ TauTasks' = TauTasks /\ TauNames' = TauNames /\ TauSims' = TauSims
      /\ TauArgs' = TauArgs
  BY <1>1 DEF TauTasks, TauNames, TauSims, TauArgs
<1>4. /\ TauAgentShape' = TauAgentShape /\ TauEntry' = TauEntry /\ TauReport' = TauReport
  BY <1>3 DEF TauAgentShape, TauEntry, TauReport
<1>5. TauShapeInv'
  BY <1>1, <1>2, <1>3, <1>4 DEF TauInv, TauShapeInv
<1>6. TauDriverInv'
  BY <1>1, <1>2 DEF TauDriverInv
<1>7. TauHooksInv'
  BY <1>1, <1>2 DEF TauInv, TauHooksInv, ToSet
<1>8. TauRecordersInv'
  BY <1>2 DEF TauInv, TauRecordersInv
<1>9. TauArgvInv'
  BY <1>1, <1>2 DEF TauInv, TauArgvInv, HasArgv, Here
<1>10. TauReportsInv'
  BY <1>1, <1>2 DEF TauInv, TauReportsInv
<1>11. QED
  BY <1>5, <1>6, <1>7, <1>8, <1>9, <1>10 DEF TauInv

LEMMA StartAgentsKeeps ==
    ASSUME TauInv, NEW found \in BOOLEAN, StartAgents(found)
    PROVE  TauInv'
<1> DEFINE first == IF launch.tau2 THEN "read" ELSE "look"
           idle(a) == IF a > Head(launch.left) THEN [NewAgent EXCEPT !.pc = "ended"]
                      ELSE [NewAgent EXCEPT !.pc = first]
<1>1. /\ launch.pc = "emon" /\ running' = running \cup {p \in {"emon"} : found}
      /\ DriverGoes("agents") /\ tau' = [a \in TauAgents |-> idle(a)]
      /\ recorders' = [a \in TauAgents |-> <<>>] /\ tauReports' = [a \in TauAgents |-> <<>>]
      /\ made' = [s \in AllSims |-> 0] /\ hooks' = <<>> /\ replaced' = {}
      /\ latencyLock' = latencyLock /\ argv' = argv /\ crossed' = crossed
      /\ tauFaults' = tauFaults
  BY DEF StartAgents
<1>2. LaunchBecomes(launch.left, "agents", launch.failed)
  BY <1>1, LaunchGoes
<1>3. /\ launch'.tasks = launch.tasks /\ launch'.tau2 = launch.tau2
      /\ launch'.server = launch.server /\ launch'.left = launch.left
      /\ launch'.pc = "agents" /\ launch'.failed = launch.failed
      /\ launch' = [tasks |-> launch'.tasks, tau2 |-> launch'.tau2, server |-> launch'.server,
                    left |-> launch'.left, pc |-> launch'.pc, failed |-> launch'.failed]
  BY <1>2 DEF LaunchBecomes
<1>4. /\ TauTasks' = TauTasks /\ TauNames' = TauNames /\ TauSims' = TauSims
      /\ TauArgs' = TauArgs
  BY <1>3 DEF TauTasks, TauNames, TauSims, TauArgs
<1>5. /\ TauAgentShape' = TauAgentShape /\ TauEntry' = TauEntry /\ TauReport' = TauReport
  BY <1>4 DEF TauAgentShape, TauEntry, TauReport
<1>6. ASSUME NEW a \in TauAgents
      PROVE  /\ tau'[a] \in TauAgentShape
             /\ tau'[a].pc \in {"ended", "read", "look"} /\ tau'[a].asked = Launcher
             /\ launch.tau2 => tau'[a].pc # "look"
  <2>1. NewAgent \in TauAgentShape /\ NewAgent.asked = Launcher
    <3>1. 1 \in TauTasks /\ <<>> \in Seq(TauAgents) /\ Launcher \in TauArgs
      BY TauTypes DEF TauArgs
    <3>2. QED
      BY <3>1 DEF NewAgent, TauAgentShape, TauSteps
  <2>2. PICK step \in {"ended", "read", "look"} :
            tau'[a] = [NewAgent EXCEPT !.pc = step] /\ (launch.tau2 => step # "look")
    <3>1. tau'[a] = [NewAgent EXCEPT !.pc = "ended"] \/ tau'[a] = [NewAgent EXCEPT !.pc = first]
      BY <1>1
    <3>2. CASE tau'[a] = [NewAgent EXCEPT !.pc = "ended"]
      BY <3>2
    <3>3. CASE tau'[a] = [NewAgent EXCEPT !.pc = first]
      <4>1. first \in {"read", "look"} /\ (launch.tau2 => first # "look")
        OBVIOUS
      <4> HIDE DEF first
      <4>2. QED
        BY <3>3, <4>1
    <3>4. QED
      BY <3>1, <3>2, <3>3
  <2>3. step \in TauSteps
    BY DEF TauSteps
  <2>4. QED
    BY <2>1, <2>2, <2>3 DEF TauAgentShape
<1> HIDE DEF idle, first
<1>7. tau' \in [TauAgents -> TauAgentShape]
  <2>1. tau' = [a \in TauAgents |-> tau'[a]]
    BY <1>1
  <2>2. QED
    BY <1>6, <2>1
<1>8. TauShapeInv'
  <2>1. /\ recorders' \in [TauAgents -> Seq(TauEntry)]
        /\ tauReports' \in [TauAgents -> Seq(TauReport)]
        /\ made' \in [AllSims -> Nat] /\ hooks' \in Seq(TauAgents)
        /\ running' \subseteq {"vllm", "emon"}
    <3>1. <<>> \in Seq(TauEntry) /\ <<>> \in Seq(TauReport) /\ <<>> \in Seq(TauAgents)
      OBVIOUS
    <3>2. QED
      BY <1>1, <3>1, TauTypes
  <2>2. QED
    BY <1>1, <1>3, <1>4, <1>5, <1>7, <2>1 DEF TauInv, TauShapeInv
<1>9. TauDriverInv'
  BY <1>3 DEF TauDriverInv
<1>10. TauHooksInv'
  BY <1>3, <1>6 DEF TauHooksInv
<1>11. TauRecordersInv'
  <2>1. \A b \in TauAgents : recorders'[b] = <<>>
    BY <1>1
  <2>2. ASSUME NEW b \in TauAgents, NEW k \in 1 .. MaxTauTasks
        PROVE  made'[<<b, k>>] = 0
    BY <1>1 DEF AllSims
  <2>3. \A b \in TauAgents : OneEach(recorders'[b])
    BY <2>1 DEF OneEach
  <2>4. \A b \in TauAgents : \A k \in 1 .. MaxTauTasks :
            Counts(recorders'[b], <<b, k>>, made'[<<b, k>>])
    <3>1. \A s : Counts(<<>>, s, 0)
      BY DEF Counts
    <3>2. QED
      BY <2>1, <2>2, <3>1
  <2>5. QED
    BY <2>3, <2>4, RecordersBecome
<1>12. TauArgvInv'
  <2>1. \A a \in TauAgents : ~HasArgv(a) /\ ~HasArgv(a)'
    BY <1>1, <1>6 DEF HasArgv, TauInv, TauDriverInv
  <2>2. ~crossed => argv = Launcher
    BY <2>1 DEF TauInv, TauArgvInv
  <2>3. QED
    BY <1>1, <1>3, <1>6, <2>1, <2>2 DEF TauArgvInv
<1>13. TauReportsInv'
  <2>1. \A a \in TauAgents : DOMAIN tauReports'[a] = {}
    BY <1>1
  <2>2. QED
    BY <2>1 DEF TauReportsInv
<1>14. QED
  BY <1>8, <1>9, <1>10, <1>11, <1>12, <1>13 DEF TauInv

LEMMA DriverKeeps ==
    ASSUME TauInv, TauDriverStep \/ VllmNeverReady \/ StopEmonRaises
    PROVE  TauInv'
<1>1. /\ launch.failed \in BOOLEAN /\ tauFaults \in 0 .. MaxTauFaults
      /\ running \subseteq {"vllm", "emon"} /\ TauDriverInv
  BY DEF TauInv, TauShapeInv
<1>2. CASE Boot
  <2>1. running = {} /\ running' \subseteq {"vllm"} /\ UNCHANGED <<agentState, tauFaults>>
    BY <1>1, <1>2 DEF Boot, TauDriverInv
  <2>2. LaunchBecomes(launch.left, "density", launch.failed)
    BY <1>2, LaunchGoes DEF Boot
  <2>3. \A a \in TauAgents : tau[a].pc \in {"idle", "ended"}
    BY <1>1, <1>2 DEF Boot, TauDriverInv
  <2>4. QED
    BY <1>1, <2>1, <2>2, <2>3, DriverActs
<1>3. CASE VllmNeverReady
  <2>1. LaunchBecomes(launch.left, "ended", TRUE)
    BY <1>3, LaunchFails DEF VllmNeverReady
  <2>2. /\ running' = {} /\ UNCHANGED agentState
        /\ \A a \in TauAgents : tau[a].pc \in {"idle", "ended"}
    BY <1>1, <1>3 DEF VllmNeverReady, TauDriverInv
  <2>3. tauFaults' \in 0 .. MaxTauFaults
    BY <1>3, TauFaultIs DEF VllmNeverReady
  <2>4. QED
    BY <2>1, <2>2, <2>3, DriverActs
<1>4. CASE NextTauDensity
  <2>1. LaunchBecomes(launch.left, "emon", launch.failed)
    BY <1>4, LaunchGoes DEF NextTauDensity
  <2>2. /\ running' = running /\ UNCHANGED <<agentState, tauFaults>>
        /\ \A a \in TauAgents : tau[a].pc \in {"idle", "ended"}
        /\ "emon" \in running => launch.failed
    BY <1>1, <1>4 DEF NextTauDensity, TauDriverInv
  <2>3. QED
    BY <1>1, <2>1, <2>2, DriverActs
<1>5. CASE AgentsEnded
  <2>1. LaunchBecomes(launch.left, "stop", launch.failed)
    BY <1>5, LaunchGoes DEF AgentsEnded
  <2>2. /\ running' = running /\ UNCHANGED <<agentState, tauFaults>>
        /\ \A a \in TauAgents : tau[a].pc \in {"idle", "ended"}
    BY <1>5 DEF AgentsEnded, At
  <2>3. QED
    BY <1>1, <2>1, <2>2, DriverActs
<1>6. CASE StopTauEmon
  <2> DEFINE left == Tail(launch.left)
  <2>1. PICK step \in {"finally", "density"} : LaunchBecomes(left, step, launch.failed)
    BY <1>6, LaunchStops
  <2>3. /\ running' = running \ {"emon"} /\ UNCHANGED <<agentState, tauFaults>>
        /\ \A a \in TauAgents : tau[a].pc \in {"idle", "ended"}
    BY <1>1, <1>6 DEF StopTauEmon, TauDriverInv
  <2> HIDE DEF left
  <2>4. QED
    BY <1>1, <2>1, <2>3, DriverActs
<1>7. CASE StopEmonRaises
  <2>1. LaunchBecomes(launch.left, "finally", TRUE)
    BY <1>7, LaunchFails DEF StopEmonRaises
  <2>2. /\ running' = running /\ UNCHANGED agentState
        /\ \A a \in TauAgents : tau[a].pc \in {"idle", "ended"}
    BY <1>1, <1>7 DEF StopEmonRaises, TauDriverInv
  <2>3. tauFaults' \in 0 .. MaxTauFaults
    BY <1>7, TauFaultIs DEF StopEmonRaises
  <2>4. QED
    BY <1>1, <2>1, <2>2, <2>3, DriverActs
<1>8. CASE StopVllm
  <2>1. LaunchBecomes(launch.left, "ended", launch.failed)
    BY <1>8, LaunchGoes DEF StopVllm
  <2>2. /\ running' = running \ {"vllm"} /\ UNCHANGED <<agentState, tauFaults>>
        /\ \A a \in TauAgents : tau[a].pc \in {"idle", "ended"}
        /\ "emon" \in running => launch.failed
    BY <1>1, <1>8 DEF StopVllm, TauDriverInv
  <2>3. QED
    BY <1>1, <2>1, <2>2, DriverActs
<1>9. CASE \E found \in BOOLEAN : StartAgents(found)
  BY <1>9, StartAgentsKeeps
<1>10. QED
  BY <1>2, <1>3, <1>4, <1>5, <1>6, <1>7, <1>8, <1>9 DEF TauDriverStep

-------------------------------------------------------------------------------

LEMMA TauInvInit == TauInit => TauInv
<1> SUFFICES ASSUME NEW l \in TauLaunches, TauFrom(l)
             PROVE  TauInv
  BY DEF TauInit
<1>1. launch = [tasks |-> l.tasks, tau2 |-> l.tau2, server |-> l.server,
                left |-> l.densities, pc |-> "boot", failed |-> FALSE]
  BY DEF TauFrom
<1>2. /\ launch.tasks = l.tasks /\ launch.tau2 = l.tau2 /\ launch.server = l.server
      /\ launch.left = l.densities /\ launch.pc = "boot" /\ launch.failed = FALSE
  BY <1>1
<1>3. /\ Len(l.tasks) \in 1 .. MaxTauTasks /\ TauTasks = 1 .. Len(l.tasks)
      /\ MaxTauTasks \in Nat /\ MaxTauFaults \in Nat
  BY <1>2, TauAssumption DEF TauTasks
<1>4. /\ running = {} /\ tau = [a \in TauAgents |-> NewAgent]
      /\ latencyLock = 0 /\ hooks = <<>> /\ argv = Launcher
      /\ recorders = [a \in TauAgents |-> <<>>] /\ tauReports = [a \in TauAgents |-> <<>>]
      /\ made = [s \in AllSims |-> 0] /\ replaced = {} /\ crossed = FALSE /\ tauFaults = 0
  BY DEF TauFrom
<1>5. NewAgent \in TauAgentShape /\ NewAgent.pc = "idle" /\ NewAgent.asked = Launcher
  <2>1. 1 \in TauTasks /\ <<>> \in Seq(TauAgents) /\ Launcher \in TauArgs
    BY <1>3 DEF TauArgs
  <2>2. QED
    BY <2>1 DEF NewAgent, TauAgentShape, TauSteps
<1>6. TauShapeInv
  <2>1. /\ recorders \in [TauAgents -> Seq(TauEntry)]
        /\ tauReports \in [TauAgents -> Seq(TauReport)]
        /\ made \in [AllSims -> Nat] /\ hooks \in Seq(TauAgents)
        /\ tau \in [TauAgents -> TauAgentShape] /\ argv \in TauArgs
        /\ tauFaults \in 0 .. MaxTauFaults
    <3>1. <<>> \in Seq(TauEntry) /\ <<>> \in Seq(TauReport) /\ <<>> \in Seq(TauAgents)
      OBVIOUS
    <3>2. QED
      BY <1>3, <1>4, <1>5, <3>1 DEF TauArgs
  <2>2. \E n \in 1 .. MaxTauTasks : TauTasks = 1 .. n /\ Len(launch.tasks) = n
    BY <1>2, <1>3
  <2>3. QED
    BY <1>1, <1>2, <1>4, <2>1, <2>2 DEF TauShapeInv
<1>7. TauDriverInv
  BY <1>2, <1>4, <1>5 DEF TauDriverInv
<1>8. TauHooksInv
  BY <1>4, <1>5 DEF TauHooksInv
<1>9. TauRecordersInv
  <2>1. \A b \in TauAgents : recorders[b] = <<>>
    BY <1>4
  <2>2. ASSUME NEW b \in TauAgents, NEW k \in 1 .. MaxTauTasks
        PROVE  made[<<b, k>>] = 0
    BY <1>4 DEF AllSims
  <2>3. OneEach(<<>>) /\ \A s : Counts(<<>>, s, 0)
    BY DEF OneEach, Counts
  <2>4. QED
    BY <2>1, <2>2, <2>3 DEF TauRecordersInv
<1>10. TauArgvInv
  BY <1>4, <1>5 DEF TauArgvInv, HasArgv
<1>11. TauReportsInv
  <2>1. \A a \in TauAgents : DOMAIN tauReports[a] = {}
    BY <1>4
  <2>2. QED
    BY <2>1 DEF TauReportsInv
<1>12. QED
  BY <1>6, <1>7, <1>8, <1>9, <1>10, <1>11 DEF TauInv

LEMMA TauInvStep == TauInv /\ [TauNext]_tauVars => TauInv'
<1> SUFFICES ASSUME TauInv, [TauNext]_tauVars
             PROVE  TauInv'
  OBVIOUS
<1>1. CASE TauDriverStep \/ VllmNeverReady \/ StopEmonRaises
  BY <1>1, DriverKeeps
<1>2. ASSUME NEW a \in TauAgents,
             TauAgentStep(a) \/ TauCall(a) \/ ExitRaised(a) \/ LookRaises(a)
      PROVE  TauInv'
  <2>1. CASE TauCall(a) \/ ExitRaised(a) \/ LookRaises(a)
    BY <2>1, TauCallKeeps, ExitRaisedKeeps, LookKeeps
  <2>2. CASE TauAgentStep(a)
    BY <2>2, ReadPatchesKeeps, PatchKeeps, SetArgvKeeps, ParseArgvKeeps, EnterSimKeeps,
       ExitSimKeeps, RestoreArgvKeeps, LookKeeps, TeardownKeeps DEF TauAgentStep
  <2>3. QED
    BY <1>2, <2>1, <2>2
<1>3. CASE UNCHANGED tauVars
  <2>1. UNCHANGED <<launch, running, tau, latencyLock, hooks, argv, recorders, tauReports, made,
                    replaced, crossed, tauFaults>>
    BY <1>3 DEF tauVars
  <2>2. /\ TauTasks' = TauTasks /\ TauNames' = TauNames /\ TauSims' = TauSims
        /\ TauArgs' = TauArgs
    BY <2>1 DEF TauTasks, TauNames, TauSims, TauArgs
  <2>3. /\ TauAgentShape' = TauAgentShape /\ TauEntry' = TauEntry /\ TauReport' = TauReport
    BY <2>2 DEF TauAgentShape, TauEntry, TauReport
  <2>4. TauShapeInv'
    BY <2>1, <2>2, <2>3 DEF TauInv, TauShapeInv
  <2>5. TauDriverInv'
    BY <2>1 DEF TauInv, TauDriverInv
  <2>6. TauHooksInv'
    BY <2>1 DEF TauInv, TauHooksInv, ToSet
  <2>7. TauRecordersInv'
    BY <2>1, RecordersStay
  <2>8. TauArgvInv'
    BY <2>1 DEF TauInv, TauArgvInv, HasArgv, Here
  <2>9. TauReportsInv'
    BY <2>1, ReportsStay
  <2>10. QED
    BY <2>4, <2>5, <2>6, <2>7, <2>8, <2>9 DEF TauInv
<1>4. QED
  BY <1>1, <1>2, <1>3 DEF TauNext

LEMMA TauInvHolds == TauSpec => []TauInv
<1>1. TauInit => TauInv
  BY TauInvInit
<1>2. TauInv /\ [TauNext]_tauVars => TauInv'
  BY TauInvStep
<1>3. QED
  BY <1>1, <1>2, PTL DEF TauSpec

\* What the invariant says of the launcher.
LEMMA TauInvImplies ==
    TauInv => /\ TauTypeOK /\ OwnCallsRecorded /\ ArgvIsOwn
              /\ ForeignDataHasReason /\ LauncherCleansUp
<1> SUFFICES ASSUME TauInv
             PROVE  /\ TauTypeOK /\ OwnCallsRecorded /\ ArgvIsOwn
                    /\ ForeignDataHasReason /\ LauncherCleansUp
  OBVIOUS
<1>1. TauTypeOK
  <2>1. \A a \in TauAgents : tau[a].pc \in TauSteps /\ tau[a].k \in DOMAIN launch.tasks
    BY AgentIs DEF TauTasks
  <2>2. argv \in {Launcher} \cup AllSims
    BY TauTypes DEF TauArgs
  <2>3. \A a \in TauAgents : \A i, j \in DOMAIN recorders[a] :
            recorders[a][i].sim = recorders[a][j].sim => i = j
    BY DEF TauInv, TauRecordersInv, OneEach
  <2>4. QED
    BY <2>1, <2>2, <2>3 DEF TauInv, TauShapeInv, TauTypeOK
<1>2. OwnCallsRecorded
  <2>1. ASSUME NEW a \in TauAgents \ replaced, NEW k \in 1 .. MaxTauTasks, made[<<a, k>>] > 0
        PROVE  \E i \in DOMAIN recorders[a] :
                   recorders[a][i].sim = <<a, k>> /\ recorders[a][i].calls = made[<<a, k>>]
    <3>1. Counts(recorders[a], <<a, k>>, made[<<a, k>>])
      BY DEF TauInv, TauRecordersInv
    <3>2. PICK i \in DOMAIN recorders[a] : recorders[a][i].sim = <<a, k>>
      BY <2>1, <3>1 DEF Counts
    <3>3. recorders[a][i].calls = made[<<a, k>>]
      BY <3>1, <3>2 DEF Counts
    <3>4. QED
      BY <3>2, <3>3
  <2>2. QED
    BY <2>1 DEF OwnCallsRecorded
<1>3. ArgvIsOwn
  BY DEF TauInv, TauArgvInv, TauReportsInv, ArgvIsOwn
<1>4. ForeignDataHasReason
  <2>1. ASSUME NEW a \in TauAgents, NEW i \in DOMAIN tauReports[a],
               tauReports[a][i].data # NoData
        PROVE  \/ <<tauReports[a][i].task, tauReports[a][i].data.sim>> \in Occurs
               \/ tauReports[a][i].data.task = tauReports[a][i].task
    BY <2>1 DEF TauInv, TauReportsInv, InKey
  <2>2. QED
    BY <2>1 DEF ForeignDataHasReason
<1>5. LauncherCleansUp
  BY DEF TauInv, TauDriverInv, LauncherCleansUp
<1>6. QED
  BY <1>1, <1>2, <1>3, <1>4, <1>5

-------------------------------------------------------------------------------

(* A cell of a sweep, of the density script and of the launcher is whole:   *)
(* it starts together, is counted once, and leaves nothing running,          *)
(* however many cells, trials, agents, tasks and failures there are.         *)
THEOREM CellsAreWhole == SweepRunsSpec /\ DensitySpec /\ TauSpec => []CellsWhole
<1>1. SweepInv /\ DensityInv /\ TauInv => CellsWhole
  BY SweepInvImplies, DensityInvImplies, TauInvImplies DEF CellsWhole
<1>2. QED
  BY <1>1, SweepInvHolds, DensityInvHolds, TauInvHolds, PTL
===============================================================================
