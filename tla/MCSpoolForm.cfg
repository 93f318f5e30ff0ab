\* One tab: usage is logged while the edit form of the spool is open.
CONSTANTS
    None = None
    Browsers = {b1}
    Writers = {t1}
    Forms = {t2}
    Edits = {e1, e2}
    Removals = {FALSE}
    MaxVersion = 4
    MaxCrashes = 0
SPECIFICATION Spec
CHECK_DEADLOCK FALSE
INVARIANTS
    LoggedUsageIsKept
