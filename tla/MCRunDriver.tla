------------------------------ MODULE MCRunDriver ------------------------------
(***************************************************************************)
(* Instances of RunDriver for TLC.                                         *)
(***************************************************************************)
EXTENDS RunDriver

\* What an oracle says of a task, a pass or a failure; and a pass of a task whose
\* agent reported an error.
MCTwoResults == {[passed |-> TRUE, error |-> FALSE, oracle_run |-> TRUE],
                 [passed |-> FALSE, error |-> FALSE, oracle_run |-> TRUE]}
MCPassWithError == {[passed |-> TRUE, error |-> TRUE, oracle_run |-> TRUE]}
===============================================================================
