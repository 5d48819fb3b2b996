CONSTANTS
    Jobs = 2
    ErrorJobs = {2}
    SinkCap = 2
    SinkChunk = 2
    RunCases = {"extra-nul", "retain", "header-nul", "binary"}
    Kinds = {"reader", "seed"}
    MaxBody = 2
    MaxSpawns = 2
    Programs = {"admission", "control"}
    MaxInterrupts = 2
    MaxCallers = 2
    Observations = 2
    GapTicks = 1
    TotalTicks = 3
    MaxHosts = 2
    MaxSlots = 2
    MaxRuns = 4
    MaxTouches = 1
SPECIFICATION Parts
CHECK_DEADLOCK FALSE
INVARIANTS DriverSound NativeSound CycleSound ExitOwnsNothing ReportedIsTrue
PROPERTIES AttachSound
