\* Two processes that open a new store together.
SPECIFICATION Spec
CONSTANTS
    Opener = {o1, o2}
    RunId = {r1}
    Supervisor = none
    Opens = 2
    Faults = {}
    Initial = {"fresh"}
INVARIANTS
    OpenIsCurrent
CHECK_DEADLOCK FALSE
