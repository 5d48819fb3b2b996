CONSTANTS
    Supervisor = {s1, s2}
    Thread = {t1, t2}
    Address = {a1, a2, a3}
    Slots = 2
    Bounded = FALSE
    None = None
SYMMETRY LedgerSymmetry
SPECIFICATION Parts
INVARIANTS ChildrenSound
CHECK_DEADLOCK FALSE
