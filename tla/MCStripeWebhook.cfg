\* Two purchases of one user, or one purchase and one gift; repeated and
\* reordered events, one restart.  Two tabs that two visitors sign in with.
CONSTANTS
    None = None
    Users = {u1}
    Payments = {p1, p2}
    ManualGrants = {g1}
    AccessTerm = 2
    ManualTerms = {1}
    GraceTime = 0
    RetentionTime = 1
    Horizon = 8
    Prices = {1, 2}
    OpenWindow = 0
    Kinds = {"pending", "paid", "expired", "failed", "refunded",
             "partially_refunded", "disputed"}
    LastTick = 2
    MaxRestarts = 1
    Visitors = {va, vb}
    NoVisitor = NoVisitor
    WebTabs = {w1, w2}
    MaxSignIns = 2
    MaxHitches = 1
    MaxTicks = 3
SPECIFICATION PurchaseSpec
CONSTRAINT Small
SYMMETRY Interchangeable
CHECK_DEADLOCK FALSE
INVARIANTS
    PurchasesNeverOverlap
    GrantIsPaidFor
    ProcessedMeansDone
    QuietMeansConsistent
    SignedInIsSound
