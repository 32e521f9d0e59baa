\* A task behind one that was given up.
SPECIFICATION Spec
CONSTANTS
    Span <- SpanId
    Thread = {"driver", "pool"}
    NumTasks = 2
    TaskResult <- MCTwoResults
    Probe = {"l1"}
    FlakyProbe = {}
    Attempts = 1
    Faults = {"timeout"}
    Null = Null
INVARIANTS
    TimedOutTaskRan
CHECK_DEADLOCK FALSE
