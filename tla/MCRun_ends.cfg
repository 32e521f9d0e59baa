\* Does the run end, and the process?  The probe and the store may fail.
SPECIFICATION FairSpec
CONSTANTS
    Span <- SpanId
    Thread = {"driver", "pool"}
    NumTasks = 2
    TaskResult <- MCPassWithError
    Probe = {"l1"}
    FlakyProbe = {"l1"}
    Attempts = 1
    Faults = {"timeout", "store"}
    Null = Null
PROPERTIES
    DriverReturns
    ProcessExits
CHECK_DEADLOCK FALSE
