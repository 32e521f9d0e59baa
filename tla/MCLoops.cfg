SPECIFICATION Spec
CONSTANTS
    Parts = {"replay", "tasks", "sweeps", "density", "tau"}
    Agents = {a1, a2}
    PassPlans <- MCPassPlans
    MaxTurns = 2
    MaxFaults = 1
    a1 = a1
    a2 = a2
    t1 = t1
    t2 = t2
    t3 = t3
    w1 = w1
    w2 = w2
    TaskIds = {t1, t2, t3}
    Workers = {w1, w2}
    Workloads <- MCWorkloads
    Profiles <- MCProfiles
    MaxTroubles = 2
    SweepIds = {s1, s2}
    CellCount = 2
    TrialCount = 2
    MaxSweeps = 2
    MaxSweepFaults = 2
    Null = Null
    AgentCount = 2
    CellTotal = 2
    PipeSize = 3
    MaxMishaps = 2
    TauLaunches <- MCLaunches
    Occurs <- MCOccurs
    MaxTauAgents = 2
    MaxTauTasks = 3
    MaxTauCalls = 1
    MaxTauFaults = 1
INVARIANTS
    TrialsFaithful
    CellsWhole
PROPERTIES
    LoopsEnd
CHECK_DEADLOCK FALSE
