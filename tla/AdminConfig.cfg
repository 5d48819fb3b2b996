CONSTANTS
    Query = {q1, q2}
    MaxRetired = 1
    MaxRevision = 2
    Nobody = Nobody
    Admin = {a1, a2}
    Editor = Editor
    Original = Original
    MaxEdits = 1
    MaxCrashes = 1
    Faults = {"io", "kill", "power"}
    Proc = {"p", "q"}
    Token = {"a", "b"}
    MaxDocs = 3
    MaxKills = 1
    MaxSwaps = 3
SYMMETRY Symmetry
SPECIFICATION Parts
INVARIANTS ConfigSound DirectoryKept StartupSound
PROPERTIES NoChangeLost
