\* One purchase, one restart, Stripe retrying until it is answered 2xx.
CONSTANTS
    None = None
    Users = {u1}
    Payments = {p1}
    ManualGrants = {}
    AccessTerm = 2
    ManualTerms = {1}
    GraceTime = 0
    RetentionTime = 1
    Horizon = 6
    Prices = {1}
    OpenWindow = 0
    Kinds = {"paid"}
    LastTick = 0
    MaxRestarts = 1
SPECIFICATION FairWebhookSpec
CHECK_DEADLOCK FALSE
PROPERTIES
    PaidIsGranted
