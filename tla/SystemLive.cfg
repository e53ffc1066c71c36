SPECIFICATION FairSystem
CONSTANTS
    f1 = f1
    r1 = r1
    Refs = {r1}
    Files = {f1}
    FileOf <- OneObject
    SizeOf <- OneSize
    Scanners = {"yara", "cape"}
    Readers = {"yara", "cape"}
    Spilling = {}
    Asynchronous = {"cape"}
    SizeGate = "size_gate"
    OpenEnded = FALSE
    MaxObjectSize = 0
    FetchByteBudget = 2
    FetchMaxConns = 1
    AnalyzeCPULimit = 1
    StageQueueSize = 1
    DedupBatch = 1
    PublishBatchSize = 2
    Faults = {"broker", "open"}
    MaxRuns = 1
    Instances = {w1}
    NoInstance = NoInstance
    NoJob = NoJob
    RetryBase = 1
    PollInterval = 1
    LeaseFor = 1
    MaxAge = 1
    AgeCap = 2
    AttemptsCap = 0
    Collectors = {"cape"}
    Batch = 2
    WorkerFaults = {"poll", "crash"}
PROPERTY
    Collected
    EveryObjectAnswered
    PublishesFirst
    PipelineIsEnvironment
