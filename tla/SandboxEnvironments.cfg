SPECIFICATION Spec
CONSTANTS
    dflt = dflt
    x1 = x1
    x2 = x2
    y1 = y1
    Envs <- MCEnvs
    NameOf <- MCNameOf
    Reserved = dflt
    Specs = {"s1", "s2"}
    ReservedSpec = "s1"
    Patches = {p1, p2}
    Bodies <- MCBodies
    Calls = {c1, c2}
    None = None
    MaxVersions = 2
    Budgets <- MCBudgets
    MaxFaults = 1
CHECK_DEADLOCK FALSE
INVARIANTS
    DefaultSlot
    ActiveIsNewestReady
    SnapshotMatches
PROPERTIES
    PendingSettles
