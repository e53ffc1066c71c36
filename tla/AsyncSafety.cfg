SPECIFICATION Spec
CONSTANTS
    f1 = f1  f2 = f2
    Files = {f1}
    Recorded = {f1}
    Scanners = {"cape"}
    SizeGate = "size_gate"
    Instances = {w1, w2}
    NoInstance = NoInstance
    NoJob = NoJob
    RetryBase = 1
    PollInterval = 1
    LeaseFor = 2
    MaxAge = 1
    AgeCap = 2
    AttemptsCap = 1
    Collectors = {"cape"}
    Batch = 1
    HasBroker = TRUE
    Spilled <- FirstSpilled
    WorkerFaults = {"poll", "sink", "database", "broker", "crash", "ack"}
INVARIANTS
    TypeOK
    ClosedIsPublished
PROPERTY
    LeaseHonoured
    PublishesFirst
    VerdictKept
SYMMETRY Replicas
