\* A run id is run twice; tasks are given up, raise, or fail in the agent.
SPECIFICATION Spec
CONSTANTS
    Span <- SpanId
    Thread = {"driver", "pool"}
    NumTasks = 2
    TaskResult <- MCTwoResults
    Probe = {"l1"}
    FlakyProbe = {}
    Attempts = 2
    Faults = {"timeout", "raise", "agent", "crash"}
    Null = Null
INVARIANTS
    TypeOK
    ForeignWorkOnlyAfterTimeout
    CountsMatchOutcomes
    QuietAfterStop
    StoredIsWhole
CHECK_DEADLOCK FALSE
