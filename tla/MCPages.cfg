\* Two browsers and two edits, or one tab, its form and three edits, an old file
\* and one crash of the server; three products and three colours, two requests
\* under way; three formats, two profiles and one that is gone; two pages that submit;
\* two revisions; three spellings of two printers and a profile.
CONSTANTS
    None = None
    Browsers = {b1, b2}
    Writers = {t1}
    Forms = {t1}
    Edits = {e1, e2, e3}
    Removals = {TRUE, FALSE}
    MaxVersion = 4
    MaxCrashes = 1
    SpoolRows = {s1, s2}
    Weighings <- WeighingMap
    Doses = {2}
    Percents = {50}
    Null = Null
    Absent = Absent
    NewRow = NewRow
    NoEditing = NoEditing
    NoBackup = NoBackup
    MaxWritten = 2
    MaxWeight = 3
    m1 = m1
    m2 = m2
    k1 = k1
    k2 = k2
    f1 = f1
    f2 = f2
    f3 = f3
    c1 = c1
    c2 = c2
    c3 = c3
    Unset = Unset
    Makers = {m1, m2}
    Kinds = {k1, k2}
    Filaments = {f1, f2, f3}
    Colours = {c1, c2, c3}
    MakerOf <- MakerMap
    KindOf <- KindMap
    FilamentOf <- FilamentMap
    MaxAsked = 2
    Bodies <- SomeBodies
    MaxRevised = 2
    NoFile = NoFile
    n1 = n1
    n2 = n2
    n3 = n3
    Names = {n1, n2, n3}
    NoName = NoName
    KeyOf <- KeyMap
    CleanOf <- CleanMap
    Curated = {n1}
    Dataset = {n2}
    MaxRow = 3
    MaxTool = 2
    Profiles = {p1}
    Formats = {"orca", "prusaslicer", "openfilamentprofile"}
    IniFormat = "prusaslicer"
    ProfileFormat = "openfilamentprofile"
    Documents = {d1, d2, d3}
    Existing = {d1, d2}
    NoDocument = NoDocument
    NoAnswer = NoAnswer
    Unsaved = Unsaved
    MaxPending = 2
    Visitors = {v1, v2}
    Chosen = {c1, c2}
    MaxPerHour = 2
    Window = 2
    MaxClock = 3
    MaxPresses = 3
SPECIFICATION PagesSpec
SYMMETRY Interchangeable
CHECK_DEADLOCK FALSE
INVARIANTS
    SpoolsAreSafe
    AmountsAreSound
    FormsAreSound
    ValuesAreSound
    PrintersAreSound
