SPECIFICATION Spec
CONSTANTS
    f1 = f1  f2 = f2  f3 = f3
    r1 = r1  r2 = r2  r3 = r3
    Refs = {r1, r2}
    Files = {f1, f2}
    FileOf <- TwoObjects
    SizeOf <- EmptyAndSmall
    Scanners = {"yara", "cape"}
    Readers = {"yara", "cape"}
    Spilling = {"cape"}
    Asynchronous = {"cape"}
    SizeGate = "size_gate"
    OpenEnded = FALSE
    MaxObjectSize = 0
    FetchByteBudget = 2
    FetchMaxConns = 2
    AnalyzeCPULimit = 1
    StageQueueSize = 1
    DedupBatch = 2
    PublishBatchSize = 2
    Faults = {"cancel", "open", "broker"}
    MaxRuns = 1
    Instances = {}
    NoInstance = "nobody"
    RetryBase = 1
    PollInterval = 1
    LeaseFor = 1
    AgeCap = 0
    AttemptsCap = 0
INVARIANTS
    TypeOK
    ReaderSeesWholeFile
    BudgetCoversDisk
    MessageHasRow
    CleanEndHoldsNothing
    CleanEndAnswersAll
