\* The tables: two purchases of one user and a gift, or one of each for two
\* users; the clock runs past the end of two stacked terms with their grace and
\* retention.  Running down: two terms, of which the second may be given after the
\* inventory of the first was purged; or one term, with one stop of the process
\* or one run of the job begun beside another.
CONSTANTS
    None = None
    Users = {u1, u2}
    Payments = {p1, p2}
    ManualGrants = {g1, g2}
    AccessTerm = 1
    ManualTerms = {1}
    GraceTime = 1
    RetentionTime = 1
    Horizon = 4
    D30 = 1
    D7 = 1
    BinTime = 1
    Runs = {1, 2}
    MaxMishaps = 1
SPECIFICATION TablesSpec
CHECK_DEADLOCK FALSE
INVARIANTS
    SnapshotAgrees
    TermsDisjoint
    GrantsFollowPayments
    WriteAccessIsPaid
    RemindedOnce
PROPERTIES
    OnlyRevocationShortens
    GrantsAreALedger
    NothingPurgedEarly
    AbandonedIsPurged
