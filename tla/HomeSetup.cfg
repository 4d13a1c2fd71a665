CONSTANTS
    Pages = {p1}
    Requests = {r1, r2}
    AtOnce = 2
    MaxHouses = 2
    MaxApps = 2
    MaxEnables = 2
    MaxEvents = 4

SPECIFICATION Spec

SYMMETRY Symmetry

INVARIANTS
    HelperIsIn
    HouseIsReady
    KeyIsThere
    DoneIsSetUp
    RunningIsDriven

CHECK_DEADLOCK FALSE
