SPECIFICATION FairSpec
CONSTANTS
    Kinds = {"yara", "ioc", "cuckoo", "cape"}
    Parts = {p1, p2, p3}
    Scores = {0, 1, 2, 3, 4, 5}
    Medium = 2
    High = 3
    Critical = 4
    MaxAge = 2
    Copies = {topic, ledger}
INVARIANTS
    TypeOK
    VerdictIsFounded
    MatchIsGraded
    AnalysedIsOver
PROPERTY
    
    ScanAnswered
CHECK_DEADLOCK FALSE
