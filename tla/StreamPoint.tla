----------------------------- MODULE StreamPoint -----------------------------
(***************************************************************************)
(* What run_task_sized_streams promises its caller: the results of the     *)
(* items, each item once, and a normal return only with all of them; or    *)
(* an exception, after which nothing more is reported and no return        *)
(* follows.                                                                *)
(***************************************************************************)
CONSTANT Item

VARIABLES
    done,    \* the items whose result the caller has
    outcome  \* "running", "returned" or "failed"

Init == done = {} /\ outcome = "running"

\* The result of one more item; a fatal one fails the whole point.
Report(i) ==
    /\ outcome = "running"
    /\ i \notin done
    /\ done' = done \cup {i}
    /\ outcome' \in {"running", "failed"}

Return ==
    /\ outcome = "running"
    /\ done = Item
    /\ outcome' = "returned"
    /\ UNCHANGED done

Fail ==
    /\ outcome = "running"
    /\ outcome' = "failed"
    /\ UNCHANGED done

Next == (\E i \in Item : Report(i)) \/ Return \/ Fail

Spec == Init /\ [][Next]_<<done, outcome>>
===============================================================================
