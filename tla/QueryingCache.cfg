SPECIFICATION FairSpec
CONSTANTS
    s1 = s1
    s2 = s2
    Queries <- MCQueries
    Near <- MCNear
    CacheTTL = 1
    MaxVersion = 2
    Slots <- OneSlot
    Sessions = {k1}
    NoQuery = NoQuery
    SessionExpiry = 0
    SessionLifetime = 2
    Budget = 1
    MaxCost = 1
    MaxFaults = 1
INVARIANTS TypeOK StaleOnlyIfOvertaken
PROPERTY EventuallyFresh
