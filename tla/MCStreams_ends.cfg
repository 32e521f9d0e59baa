\* Does the run end?
SPECIFICATION FairSpec
CONSTANTS
    NumSlots = 2
    Item = {1, 2}
    SlotSize <- MCOneSize
    ItemSize <- MCOneItemSize
    Backlog <- MCBacklog
    None = None
    Faults = {"crash", "cleanup", "deadline"}
PROPERTIES
    ParentTerminates
    RunReturns
CHECK_DEADLOCK FALSE
