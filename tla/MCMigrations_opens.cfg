\* run-streams: the parent opens any store, and then the workers do.
SPECIFICATION Spec
CONSTANTS
    Opener = {parent, w1, w2}
    RunId = {r1, r2}
    Supervisor = parent
    Opens = 4
    Faults = {"kill"}
    Initial = {"fresh", "legacy", "release"}
INVARIANTS
    TypeOK
    VersionNotAhead
    OpenIsCurrent
    FailureAdvances
    WorkersDoNotMigrate
PROPERTIES
    RowsKept
CHECK_DEADLOCK FALSE
