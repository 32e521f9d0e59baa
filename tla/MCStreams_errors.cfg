\* Every failure that is an exception, and tasks that are given up.
SPECIFICATION Spec
CONSTANTS
    NumSlots = 2
    Item = {1, 2}
    SlotSize <- MCOneSize
    ItemSize <- MCOneItemSize
    Backlog <- MCBacklog
    None = None
    Faults = {"start", "benchmark", "timeout", "cleanup", "store", "callback", "deadline"}
INVARIANTS
    WorkerErrorSurfaces
PROPERTIES
    PrimaryPreserved
    ImplementsPoint
CHECK_DEADLOCK FALSE
