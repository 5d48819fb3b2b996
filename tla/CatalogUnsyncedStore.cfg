CONSTANTS
    p1 = p1
    p2 = p2
    k1 = k1
    k2 = k2
    d1 = d1
    d2 = d2
    None = None
    Procs = {p1, p2}
    Initializers = {p1}
    Keys = {k1, k2}
    Digests = {d1, d2}
    EmptyDigest = d1
    Regimes = {{"kill"}}
    BackupsKept = 1
    MaxRevision = 3
SPECIFICATION Spec
SYMMETRY Symmetry
INVARIANT AnchorFollowsDurableStore
