-------------------------------- MODULE RunStore --------------------------------
(***************************************************************************)
(* What the result store promises its users: every method that writes is   *)
(* one step.  It happens as a whole on what is committed, or not at all,   *)
(* and then the caller goes on or, when the failure is raised, gives up.   *)
(***************************************************************************)
EXTENDS StoreTables

VARIABLES
    db,   \* what is committed
    todo  \* process -> the calls it has yet to make

vars == <<db, todo>>
Caller == DOMAIN todo

Become(p, calls) == todo' = [todo EXCEPT ![p] = calls]

Writes(p) ==
    /\ todo[p] # <<>> /\ Head(todo[p]).kind = "write"
    /\ ~SomeRefused(db, Head(todo[p]).stmts)
    /\ db' = ApplyAll(db, Head(todo[p]).stmts)
    /\ Become(p, Tail(todo[p]))

FailsToWrite(p) ==
    /\ todo[p] # <<>> /\ Head(todo[p]).kind = "write"
    /\ Become(p, IF Head(todo[p]).fatal THEN <<>> ELSE Tail(todo[p]))
    /\ UNCHANGED db

Reads(p) ==
    /\ todo[p] # <<>> /\ Head(todo[p]).kind # "write"
    /\ Become(p, AfterRead(db, p, Head(todo[p])) \o Tail(todo[p]))
    /\ UNCHANGED db

Dies(p) == todo[p] # <<>> /\ Become(p, <<>>) /\ UNCHANGED db

Next == \E p \in Caller : Writes(p) \/ FailsToWrite(p) \/ Reads(p) \/ Dies(p)

\* The database and the callers start in any state of their own.
Spec == [][Next]_vars
===============================================================================
