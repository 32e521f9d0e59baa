--------------------------------- MODULE Calls ---------------------------------
(***************************************************************************)
(* A function of the program that keeps no state is an operator.  To check *)
(* it, one step calls it: `call` holds the function's name, the arguments  *)
(* and the answer, and the invariants compare the three.  Modules of such  *)
(* functions share this variable, so that one run checks any number of     *)
(* them and their inputs add up instead of multiplying.                    *)
(***************************************************************************)
EXTENDS Integers, Sequences, FiniteSets, TLC, SequencesExt, FiniteSetsExt, Functions

VARIABLE call

NoCall == [fn |-> "none"]

Idle == call = NoCall

\* The step that calls fn.
Answer(fn, args, result) ==
    call' = [fn |-> fn, args |-> args, result |-> result]

\* What a function that may raise gives: a value, or the reason.
Returns(value) == [raised |-> FALSE, value |-> value]
Raises(reason) == [raised |-> TRUE, reason |-> reason]

Called(fn) == call.fn = fn
Succeeded(fn) == call.fn = fn /\ ~call.result.raised

\* The sum of f over a finite set, and the members of S where f is greatest.
Total(f, S) == FoldFunctionOnSet(+, 0, f, S)
===============================================================================
