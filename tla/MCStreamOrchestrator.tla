------------------------ MODULE MCStreamOrchestrator ------------------------
(* Small instances of StreamOrchestrator for TLC. *)
EXTENDS StreamOrchestrator, SequencesExt

\* Two slots of one size: the smallest pool that shares a queue, a pipe and a lock.
MCOneSize == [w \in Slot |-> 1]
MCOneItemSize == [i \in Item |-> 1]

Order == SetToSortSeq(Item, <)
MCBacklog ==
    [s \in Sizes |-> SelectSeq(Order, LAMBDA i : ItemSize[i] = s)]
=============================================================================
