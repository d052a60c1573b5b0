SPECIFICATION Spec
CONSTANTS
    r1 = r1
    r2 = r2
    t1 = t1
    t2 = t2
    a1 = a1
    a2 = a2
    d1 = d1
    d2 = d2
    p1 = p1
    p2 = p2
    Slots <- MCSlots
    Tenants <- MCTenants
    Agents <- OneAgent
    OwnerOf <- MCOwnerOf
    NameOf <- MCNameOf
    Docs <- OneDoc
    Configs <- MCConfigs
    Patches <- SizePatches
    Scores = {0, 1}
    MaxRequests = 2
    MaxFaults = 0
    Processes <- MCProcesses
    Limit = 2
    Window = 3
CHECK_DEADLOCK FALSE
INVARIANT StoredConfigValid
