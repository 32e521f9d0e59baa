------------------------------ MODULE RunContext ------------------------------
(***************************************************************************)
(* RunContext, SpanRegistry and track_span (runner.py): the container that *)
(* one benchmark run keeps its measurements in.  Spans are opened and      *)
(* closed by the driver's thread and by the thread that runs the task; a   *)
(* closed span asks every probe for its record; stop() writes the records  *)
(* to JSON.  The operators below are parts of actions: RunDriver says      *)
(* which thread takes which of them, and when.                             *)
(***************************************************************************)
EXTENDS Integers, Sequences, FiniteSets

CONSTANTS
    Span,       \* span ids
    Thread,     \* the threads that open spans
    Probe,      \* the registered measurements, after the PMU election
    FlakyProbe  \* those that may raise in finalize_span, or emit nothing

ASSUME ProbesAssumption == FlakyProbe \subseteq Probe

VARIABLES
    ctx_started,  \* _started
    registry,     \* open spans of each thread, innermost last
    records,      \* _records, as the pairs (probe, span)
    step_traces,  \* spans whose StepTrace rows were added
    json          \* the records in measurement_records.json

ctxVars == <<ctx_started, registry, records, step_traces, json>>

Record == Probe \X Span

CtxTypeOK ==
    /\ ctx_started \in BOOLEAN
    /\ registry \in [Thread -> Seq(Span)]
    /\ records \subseteq Record
    /\ step_traces \subseteq Span
    /\ json \subseteq Record

CtxInit ==
    /\ ctx_started = FALSE
    /\ registry = [thread \in Thread |-> <<>>]
    /\ records = {}
    /\ step_traces = {}
    /\ json = {}

AllActive == UNION {{registry[thread][k] : k \in DOMAIN registry[thread]} :
                        thread \in Thread}

-------------------------------------------------------------------------------
(* start() does nothing the second time. *)
CtxStart == ctx_started' = TRUE

SpanOpen(thread, span) ==
    registry' = [registry EXCEPT ![thread] = Append(@, span)]

Bug_CloseKeepsSpan(thread, span) ==
    \E emitted \in SUBSET Probe :
        /\ Probe \ FlakyProbe \subseteq emitted
        /\ records' = records \cup (emitted \X {span})
        /\ UNCHANGED registry

\* Every probe is asked; one that raises is skipped.  The registry pops the
\* top of the thread's stack, whatever span that is.
SpanClose(thread, span) ==
    \E emitted \in SUBSET Probe :
        /\ Probe \ FlakyProbe \subseteq emitted
        /\ records' = records \cup (emitted \X {span})
        /\ registry' = [registry EXCEPT ![thread] =
                            IF @ = <<>> THEN @ ELSE SubSeq(@, 1, Len(@) - 1)]

AddStepTraces(span) == step_traces' = step_traces \cup {span}

\* stop(): the probes are stopped, then the records that there are by now
\* are serialized.  Persisting them is the step after it (RunDriver).
CtxStop ==
    /\ ctx_started' = FALSE
    /\ json' = records
===============================================================================
