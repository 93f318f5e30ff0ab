\* Liveness at one price: two purchases, one of which may be superseded or
\* expire, and one restart; and a start beside the seed, stopped up to three times.
CONSTANTS
    None = None
    Users = {u1}
    Payments = {p1, p2}
    ManualGrants = {}
    AccessTerm = 2
    ManualTerms = {1}
    GraceTime = 0
    RetentionTime = 1
    Horizon = 6
    Prices = {1}
    OpenWindow = 0
    Kinds = {"paid", "expired"}
    LastTick = 1
    MaxRestarts = 1
    Starters = {"api", "cli"}
    MaxCuts = 3
SPECIFICATION EndSpec
CHECK_DEADLOCK FALSE
PROPERTIES
    PaidIsGrantedUnlessStopped
    SnapshotCatchesUp
    ServedInTheEnd
