\* Workers die at any step; tasks and cleanups fail.
SPECIFICATION Spec
CONSTANTS
    NumSlots = 2
    Item = {1, 2, 3}
    SlotSize <- MCOneSize
    ItemSize <- MCOneItemSize
    Backlog <- MCBacklog
    None = None
    Faults = {"crash", "benchmark", "cleanup", "deadline"}
INVARIANTS
    TypeOK
    NoItemTwice
    NeverBlockedOnEmpty
    SentinelsLast
    CleanupExclusive
    ReturnedComplete
    NoFalseAlarm
    LeavesNothing
CHECK_DEADLOCK FALSE
