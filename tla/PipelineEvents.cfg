SPECIFICATION FairSpec
CONSTANTS
    f1 = f1  f2 = f2  f3 = f3
    r1 = r1  r2 = r2  r3 = r3
    Refs = {r1, r2, r3}
    Files = {f1, f2, f3}
    FileOf <- ThreeObjects
    SizeOf <- EventSizes
    Scanners = {"yara"}
    Readers = {"yara"}
    Spilling = {}
    Asynchronous = {}
    SizeGate = "size_gate"
    OpenEnded = TRUE
    MaxObjectSize = 5
    FetchByteBudget = 2
    FetchMaxConns = 2
    AnalyzeCPULimit = 1
    StageQueueSize = 1
    DedupBatch = 4
    PublishBatchSize = 4
    Faults = {"cancel"}
    MaxRuns = 1
    Instances = {}
    NoInstance = "nobody"
    RetryBase = 1
    PollInterval = 1
    LeaseFor = 1
    AgeCap = 0
    AttemptsCap = 0
PROPERTY
    EveryDeliveryAnswered
    RunEnds
CHECK_DEADLOCK FALSE
