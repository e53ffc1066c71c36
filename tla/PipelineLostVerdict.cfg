SPECIFICATION Spec
CONSTANTS
    f1 = f1  f2 = f2  f3 = f3
    r1 = r1  r2 = r2  r3 = r3
    Refs = {r1}
    Files = {f1}
    FileOf <- OneObject
    SizeOf <- OneSize
    Scanners = {"yara", "cape"}
    Readers = {"yara", "cape"}
    Spilling = {}
    Asynchronous = {}
    SizeGate = "size_gate"
    OpenEnded = FALSE
    MaxObjectSize = 0
    FetchByteBudget = 2
    FetchMaxConns = 1
    AnalyzeCPULimit = 1
    StageQueueSize = 1
    DedupBatch = 2
    PublishBatchSize = 1
    Faults = {"sink"}
    MaxRuns = 1
    Instances = {}
    NoInstance = "nobody"
    RetryBase = 1
    PollInterval = 1
    LeaseFor = 1
    AgeCap = 0
    AttemptsCap = 0
INVARIANT
    RecordMeansAccounted
