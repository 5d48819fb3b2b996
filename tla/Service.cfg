CONSTANTS
    Client = {c1, c2}
    Id = {i1, i2}
    Alias = {a1}
    Config = {p, q}
    MaxRevision = 3
    None = None
SPECIFICATION Spec
SYMMETRY ClientSymmetry
INVARIANTS ServiceSound
PROPERTIES NoLostUpdate
