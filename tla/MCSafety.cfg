\* Each function is called once, with every input; the others run from their start.
SPECIFICATION Spec
CONSTANTS
    Parts = {"calls", "probes", "store", "swe", "phases", "servers", "harness", "telemetry"}
    w1 = w1
    w2 = w2
    p1 = p1
    p2 = p2
    p3 = p3
    t1 = t1
    t2 = t2
    TaskSpans = {p1}
    TurnSpans = {p3}
    ProbeHosts <- MCProbeHosts
    MaxClock = 8
    MaxForeign = 1
    Null = Null
    RunId = {"r", "c1", "c2", "s"}
    SweepId = "s"
    CellRuns <- MCCellRuns
    TaskId = {"t1", "t2"}
    Process = {"w1", "w2"}
    Scenes <- MCScenes
    MaxStoreFaults = 2
    SweThreads = {w1, w2}
    SwePlans <- MCSwePlans
    MaxSweCalls = 1
    MaxSweFaults = 1
    ServerModes = {"docker", "process", "remote"}
    TaskLists <- MCTaskLists
    MaxRequests = 1
    MaxServerFaults = 2
    PhaseWorkers = {w1, w2}
    LoopCount = 2
    PoolSize = 1
    MaxPhaseFaults = 2
    HarnessPlans <- MCHarnessPlans
    ToolsMissing = {{}, {"vmstat"}}
    TrialsPerCell = 3
    PipeRoom = 2
    MaxHarnessFaults = 2
    Scope = {"c1", "x1"}
    Image <- MCImage
    Unread = Unread
    MaxUsage = 1
    MaxTicks = 3
    MaxTelemetryFaults = 1
    SlotTotals = {0, 1, 2, 3, 4, 5, 6, 7, 8}
    TaskHistograms <- MCHistograms
    NodeLayouts <- MCLayouts
    MemoryBudgets = {0, 1, 3}
    MaxPort = 5
    ProbeOutcomes <- MCProbeOutcomes
    SpanSignals <- MCSpanSignals
    CpuRecords <- MCCpuRecords
    TaskRecords <- MCTaskRecords
    MemorySeries <- MCMemorySeries
    PhaseSpans <- MCPhaseSpans
    Curves <- MCCurves
    Sweeps <- MCSweeps
    LogicalCpus = {8}
    Ladders <- MCLadders
    ImportedCells <- MCImportedCells
    CoreLayouts <- MCCoreLayouts
    Experiments <- MCExperiments
    WorkloadMixes <- MCWorkloadMixes
    DensityCurves <- MCDensityCurves
    CallDumps <- MCCallDumps
    CpuInfos <- MCCpuInfos
    LscpuOutputs <- MCLscpuOutputs
    CacheFiles <- MCCacheFiles
    MlcResults <- MCMlcResults
    HostSettings <- MCHostSettings
    Windows <- MCWindows
    TelemetryNames = {"amx_active", "onednn_dispatch", "hugepage_fault", "remote_access_max", "openvino_infer"}
    SutConfigs <- MCSutConfigs
    CounterClaims <- MCCounterClaims
    CpuLists <- MCCpuLists
    StatReadings <- MCStatReadings
    Catalogues <- MCCatalogues
    Selectors <- MCSelectors
    Datasets <- MCDatasets
    RunRequests <- MCRunRequests
    DefaultTasks = 2
    LegalTasks <- MCLegalTasks
    MaxIndicators = 4
    Commands <- MCCommands
INVARIANTS
    PlansFit
    TraceVerdicts
    SweepVerdicts
    HostVerdicts
    TasksAsAsked
    ProbesHonest
    StoreConsistent
    AdaptersKeep
    CellsAreTheirOwn
PROPERTIES
    ImplementsRunStore
    NothingIsLost
CHECK_DEADLOCK FALSE
