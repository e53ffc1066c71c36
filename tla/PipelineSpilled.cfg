SPECIFICATION Spec
CONSTANTS
    f1 = f1  f2 = f2  f3 = f3
    r1 = r1  r2 = r2  r3 = r3
    Refs = {r1, r2}
    Files = {f1, f2}
    FileOf <- TwoObjects
    SizeOf <- SameSizes
    Scanners = {"yara", "virustotal"}
    Readers = {"yara"}
    Spilling = {"virustotal"}
    Asynchronous = {}
    SizeGate = "size_gate"
    OpenEnded = FALSE
    MaxObjectSize = 0
    FetchByteBudget = 2
    FetchMaxConns = 2
    AnalyzeCPULimit = 1
    StageQueueSize = 1
    DedupBatch = 2
    PublishBatchSize = 2
    Faults = {}
    MaxRuns = 2
    Instances = {}
    NoInstance = "nobody"
    RetryBase = 1
    PollInterval = 1
    LeaseFor = 1
    AgeCap = 0
    AttemptsCap = 0
INVARIANT
    SpilledIsRunLater
