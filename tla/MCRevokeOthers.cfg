\* One account, two sessions.
CONSTANTS
    NoAccount = NoAccount
    NoEmail = NoEmail
    Accounts = {a1}
    Emails = {m1}
    Sessions = {t1, t2}
    Links = {l1}
    Kept = {spools}
SPECIFICATION FairAccountsSpec
CHECK_DEADLOCK FALSE
PROPERTIES
    RevokeOthersKeepsOwn
