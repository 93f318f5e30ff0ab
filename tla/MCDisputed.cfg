\* One user, one purchase, which is disputed while its term runs.
CONSTANTS
    Users = {u1}
    Payments = {p1}
    ManualGrants = {}
    None = None
    AccessTerm = 1
    ManualTerms = {1}
    GraceTime = 1
    RetentionTime = 1
    Horizon = 4
SPECIFICATION Spec
CHECK_DEADLOCK FALSE
INVARIANTS
    DisputeRestrictsWrites
