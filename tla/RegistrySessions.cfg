\* One datasource, two sessions, two generations: every interleaving of
\* sessions, publications, withdrawals and the shutdown.
CONSTANTS
    Datasource = {d1}
    Alias = {a1}
    Lease = {l1, l2}
    Reservation = {r1, r2}
    MaxGenerations = 2
    SessionLimits = {2}
    MaxSessions = 2
    MaxRetired = 1
    MaxCandidates = 2
    None = None
SPECIFICATION FairSpec
CHECK_DEADLOCK FALSE
INVARIANTS CountersAgree NoCloseUnderUse ClosedIsEmpty
PROPERTIES ImplementsLifecycle ShutdownEnds
