\* One process that may be killed.
SPECIFICATION Spec
CONSTANTS
    Opener = {o1}
    RunId = {r1}
    Supervisor = none
    Opens = 2
    Faults = {"kill"}
    Initial = {"fresh"}
INVARIANTS
    ScriptsRunOnce
CHECK_DEADLOCK FALSE
