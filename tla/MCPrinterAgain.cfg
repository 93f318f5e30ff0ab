\* Three spellings of two printers, one of which the clean-up makes the other; the
\* other parts as small as they come.
CONSTANTS
    None = None
    Browsers = {b1}
    Writers = {t1}
    Forms = {t1}
    Edits = {e1}
    Removals = {TRUE, FALSE}
    MaxVersion = 1
    MaxCrashes = 0
    SpoolRows = {s1}
    Weighings <- WeighingMap
    Doses = {2}
    Percents = {50}
    Null = Null
    Absent = Absent
    NewRow = NewRow
    NoEditing = NoEditing
    NoBackup = NoBackup
    MaxWritten = 1
    MaxWeight = 3
    m1 = m1
    m2 = m2
    k1 = k1
    k2 = k2
    f1 = f1
    f2 = f2
    f3 = f3
    c1 = c1
    c2 = c2
    c3 = c3
    Unset = Unset
    Makers = {m1, m2}
    Kinds = {k1, k2}
    Filaments = {f1, f2, f3}
    Colours = {c1, c2, c3}
    MakerOf <- MakerMap
    KindOf <- KindMap
    FilamentOf <- FilamentMap
    MaxAsked = 1
    Bodies = {}
    MaxRevised = 1
    NoFile = NoFile
    n1 = n1
    n2 = n2
    n3 = n3
    Names = {n1, n2, n3}
    NoName = NoName
    KeyOf <- KeyMap
    CleanOf <- CleanMap
    Curated = {}
    Dataset = {}
    MaxRow = 2
    MaxTool = 2
    Profiles = {p1}
    Formats = {"orca", "prusaslicer", "openfilamentprofile"}
    IniFormat = "prusaslicer"
    ProfileFormat = "openfilamentprofile"
    Documents = {d1, d2, d3}
    Existing = {d1, d2}
    NoDocument = NoDocument
    NoAnswer = NoAnswer
    Unsaved = Unsaved
    MaxPending = 1
    Visitors = {v1, v2}
    Chosen = {c1, c2}
    MaxPerHour = 1
    Window = 2
    MaxClock = 1
    MaxPresses = 1
SPECIFICATION PagesSpec
CHECK_DEADLOCK FALSE
INVARIANTS
    MissingIsCreated
