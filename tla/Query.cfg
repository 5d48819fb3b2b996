SPECIFICATION MCSpec
CHECK_DEADLOCK FALSE
CONSTANTS
    Fold <- MCFold
    Within <- MCWithin
    StartsWith <- MCStartsWith
    DeniedFunctions = {"set_config"}
    DeniedPrefixes = {"dblink", "lo_"}
    AllowedPgFunctions = {"pg_typeof"}
    DeniedRelations = {"pg_stats"}
    Rules <- MCRules
    Exceptions <- MCExceptions
    MaxDepth = 2
    Star = "*"
    Queries <- MCQueries
    Keys = {1, 2}
    NoKey = 0
    Names <- MCNames
    FirstNames <- MCFirstNames
    MaxRows = 2
    BatchSizes = {1, 5}
    Available = {2, 3}
    Cells <- MCCells
    Limits <- MCLimits
    MaxRenames = 1
    MaxConnections = 2
    None = None
    Raised = Raised
    EnvKeys = {"absent", "k1", "k2"}
    Secrets = {"s1", "s2"}
    Builders = {b1, b2}
    Workers = {w1}
    MaxSlots = 1
    MaxAddresses = 2
    MaxPayload = 4
    MaxChanges = 1
INVARIANTS NothingProtectedInClear ResultsAreTrue TargetsSound
