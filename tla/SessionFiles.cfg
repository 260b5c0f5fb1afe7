\* Three calls over one stored and two new sessions, one restart; five requests or title
\* jobs; two captures in two sessions, two requests of the panel, one restart; a picker
\* over one stored and one new session, two tiers and one model that is selected by itself.
CONSTANTS
    Ops = {o1, o2, o3}
    Sessions = {s1, s2, s3}
    Stored = {s1}
    MaxCrashes = 1
    Tasks = {1, 2, 3, 4, 5}
    Renames = 2
    Inspected = {i1, i2}
    InspectBounds <- MCBounds
    Torn = Torn
    Picked = {p1, p2}
    StoredPicks = {p1}
    StoredSelections = {None, "m2"}
    Pools <- MCPools
    Explicit = {"m2"}
    Default = "high"
    PickerBudgets <- MCBudgets
    None = None
SPECIFICATION FilesSpec
SYMMETRY Symmetry
INVARIANTS
    RegistryInv
    StoreAgrees
    TitlesInv
    ShownOfCalls
CHECK_DEADLOCK FALSE
