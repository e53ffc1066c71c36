SPECIFICATION FairSpec
CONSTANTS
    o1 = o1  o2 = o2
    N = 3
    Objects = {o1, o2}
    RefsOf <- ThreeMessages
    Decodable = {2, 3}
    Transports = {"kafka", "redis"}
    SourceFaults = {"cancel", "crash", "commit"}
    MaxProcesses = 3
INVARIANTS
    TypeOK
    CommitFollowsHandOn
PROPERTIES
    EveryNotificationHandedOn
    SourceStops
CHECK_DEADLOCK FALSE
