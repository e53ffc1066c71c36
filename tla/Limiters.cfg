SPECIFICATION FairSpec
CONSTANTS
    Callers = {c1, c2, c3, c4}
    Kinds = {"fixed", "byte", "rate"}
    Settings = {0, 3}
    Weights = {0, 2, 9}
    Interval = 2
    Horizon = 6
INVARIANTS
    TypeOK
    UsedIsHeld
    NoRoomWasted
    Paced
PROPERTY
    ImplementsAdmission
    EveryWaiterServed
