SPECIFICATION Spec
CONSTANTS
    o1 = o1  o2 = o2  o3 = o3
    h1 = h1  h2 = h2
    Objects = {o1, o2, o3}
    Hashes = {h1, h2}
    HashOf <- ThreeOfTwo
    LaneWorkers = {1, 2}
    DailyQuota = 1
    CacheTTL = 2
    LookupFaults = {"network", "status", "database", "sink", "crash"}
    MaxProcesses = 2
    MaxDays = 3
INVARIANTS
    TypeOK
    VerdictIsProviders
    AsksOnlyWhenExpired
    QuotaBoundsProcess
CHECK_DEADLOCK FALSE
