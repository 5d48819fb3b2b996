CONSTANTS
    Entries = 3
    MaxEpoch = 2
    Datasource = {d1, d2}
    Capacity <- MCCapacity
    Limits <- MCLimits
    SharedBytes = {1}
    WorkerBytes = {1}
    ParentBytes = {1, 3}
    OutputBytes = {1}
    None = None
    MaxNumber = 40
    MaxSlots = 9
    Pids = {p1, p2}
SYMMETRY DatasourceSymmetry
SPECIFICATION Parts
INVARIANTS CreditsSound DomainSound
CHECK_DEADLOCK FALSE
