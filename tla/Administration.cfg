SPECIFICATION Spec
CONSTANTS
    r1 = r1
    r2 = r2
    t1 = t1
    t2 = t2
    a1 = a1
    a2 = a2
    d1 = d1
    d2 = d2
    p1 = p1
    p2 = p2
    Slots <- MCSlots
    Tenants <- MCTenants
    Agents <- MCAgents
    OwnerOf <- MCOwnerOf
    NameOf <- MCNameOf
    Docs <- MCDocs
    Configs <- MCConfigs
    Patches <- MCPatches
    Scores = {0, 1}
    MaxRequests = 4
    MaxFaults = 1
    Processes <- MCProcesses
    Limit = 2
    Window = 3
SYMMETRY Symmetry
CHECK_DEADLOCK FALSE
INVARIANTS RateBounded OrphanOnlyIfOvertaken MismatchFlagged EvaluationsConsistent
