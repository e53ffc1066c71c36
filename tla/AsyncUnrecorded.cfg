SPECIFICATION FairSpec
CONSTANTS
    f1 = f1  f2 = f2
    Files = {f1}
    Recorded = {}
    Scanners = {"cape"}
    SizeGate = "size_gate"
    Instances = {w1}
    NoInstance = NoInstance
    NoJob = NoJob
    RetryBase = 1
    PollInterval = 1
    LeaseFor = 2
    MaxAge = 2
    AgeCap = 3
    AttemptsCap = 1
    Collectors = {"cape"}
    Batch = 1
    HasBroker = FALSE
    Spilled = {}
    WorkerFaults = {}
PROPERTY
    AllCollected
