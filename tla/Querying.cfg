SPECIFICATION Spec
CONSTANTS
    s1 = s1
    s2 = s2
    Queries <- OneQuery
    Near <- OneNear
    CacheTTL = 1
    MaxVersion = 0
    Slots <- MCSlots
    Sessions = {k1}
    NoQuery = NoQuery
    SessionExpiry = 1
    SessionLifetime = 3
    Budget = 2
    MaxCost = 2
    MaxFaults = 1
SYMMETRY SlotSymmetry
INVARIANTS OverspendBounded TurnsAreKept SessionOutlivesRequest
PROPERTY TokensAreRecorded
