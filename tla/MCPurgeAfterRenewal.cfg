\* Two terms, the second bought after the first inventory was purged.
CONSTANTS
    None = None
    Users = {u1}
    Payments = {}
    ManualGrants = {g1, g2}
    AccessTerm = 1
    ManualTerms = {1}
    GraceTime = 0
    RetentionTime = 1
    Horizon = 5
    D30 = 1
    D7 = 1
    BinTime = 1
    Runs = {1}
    MaxMishaps = 0
SPECIFICATION LifecycleSpec
CHECK_DEADLOCK FALSE
PROPERTIES
    PurgeRemovesExpired
