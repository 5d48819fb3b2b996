CONSTANTS
    Conn = {c1, c2}
    NoConn = NoConn
    PreAuthSlots = 1
    SessionSlots = 1
    Burst = 2
    Faults = {"start", "close", "bind", "accept", "admit"}
    EarlyStop = FALSE
    MaxJobs = 2
    Rounds = 2
    Threads = {t1, t2, t3}
    None = None
    Worker = {w1, w2}
    WaitingRoom = 1
    Ticket = {k1, k2, k3, k4}
    NoTicket = NoTicket
    QueueFaults = {"start", "job", "contain"}
    MountKinds = {"tmpfs", "anonymous", "existing", "odd"}
    MaxInterrupts = 1
SPECIFICATION FairParts
CHECK_DEADLOCK FALSE
INVARIANTS ListenerSound ResultsSound SessionSound ReaderClean
PROPERTIES ChildGoes SessionEnds QueueSound AcceptedCompletes ReaderEnds
