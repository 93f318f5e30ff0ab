\* Two products, pictures and evidence files; two profiles; two voters; two
\* accounts that want one address; two goods, two pages, two texts; two
\* jobs on two brands of one name; one colour; two presets, and folders of
\* two slicers; two materials and two colours on a tag, names of three lengths on
\* an OpenPrintTag; two codes to scan; two spools of two users.
CONSTANTS
    NoProduct = NoProduct
    NoFile = NoFile
    Products = {s1, s2}
    Pictures = {f1, f2}
    Evidence = {e1, e2}
    NoProfile = NoProfile
    Profiles = {c1, c2}
    Confirmers = {u1}
    MaxRevisions = 3
    Voters = {v1, v2}
    Nobody = Nobody
    Threshold = 2
    NoAccount = NoAccount
    NoEmail = NoEmail
    Accounts = {a1, a2}
    Emails = {m1}
    Sessions = {t1, t2, t3}
    Links = {l1}
    Kept = {spools, prefs}
    Goods = {g1, g2}
    NoGood = NoGood
    Pages = {"hardware", "prints"}
    Prints = "prints"
    MaxText = 2
    MaxLoads = 2
    Clicks = {i3, i4}
    Waits = TRUE
    CartTabs = {x1, x2}
    Most = 1
    MaxLine = 2
    MaxPolls = 1
    Revisits = FALSE
    SideBySide = FALSE
    n1 = n1
    Shades = {n1}
    Swatches = {"white", "grey"}
    Null = Null
    OfdColours = {n1}
    SpoolColours = {n1}
    OfdValues <- OfdMap
    SpoolValue <- SpoolMap
    VisitorValue <- Nothing
    MaxProducts = 2
    MaxColours = 2
    ShopLinks = {l2}
    MostLinks = 1
    ImportJobs = {j1, j2}
    Keys = {k1}
    NoKey = NoKey
    Brands = {b1, b2}
    NoBrand = NoBrand
    Filaments = {p1, p2}
    NoFilament = NoFilament
    Jobs = {j1, j2}
    Presets = {i1, i2}
    NoPreset = NoPreset
    Absent = Absent
    Torn = Torn
    Handlers = {h1, h2}
    MaxSecond = 1
    MaxRequests = 3
    y1 = y1
    y2 = y2
    z1 = z1
    z2 = z2
    q1 = q1
    q2 = q2
    Codes = {y1, y2}
    SiteNames = {y1, y2}
    HelperNames = {y1}
    Colours = {"red", "blue"}
    DefaultColour = "red"
    Weights = {"1 kg"}
    SerialLength = 2
    Mappings <- MappingList
    PrintProfiles <- ProfileMap
    AnyColour = AnyColour
    Refused = Refused
    MaxEdits = 2
    MaxAsked = 2
    Slicers = {"orca", "prusaslicer"}
    PresetNames = {p3}
    NoFolder = NoFolder
    Missing = Missing
    Roots = 2
    Releases = 1
    SignIns = 2
    MaxFolders = 2
    MaxSaves = 3
    Tagged = {o1}
    NameLengths = {8, 24, 64}
    Degrees = {24, 256}
    NoTag = NoTag
    MaxTags = 1
    Spools = {w1, w2}
    NoSpool = NoSpool
    Impatient = FALSE
    MaxStarts = 2
    MaxTyped = 1
    MaxViews = 2
    sp1 = sp1
    sp2 = sp2
    cl1 = cl1
    mk1 = mk1
    dr1 = dr1
    Owners = {a1, a2}
    NoOwner = NoOwner
    SpoolIds = {sp1, sp2}
    NoId = NoId
    Clients = {cl1}
    NoClient = NoClient
    Marks = {mk1}
    Dryings = {dr1}
    Usages = {}
    Unsaid = Unsaid
    SpoolBodies <- BodySet
    MaxSync = 2
    MaxBatch = 2
SPECIFICATION ServerSpec
SYMMETRY Interchangeable
CHECK_DEADLOCK FALSE
INVARIANTS
    RowsAreWhole
    PublishingIsSound
    CountsAreTheVotes
    DeletionIsSound
    ShelfIsSound
    ImportIsSound
    MergingIsSound
    BridgeIsSound
    BothTagsAreSound
    CodesLeadHome
