\* Two orders and a stop; two tags; two tabs; three languages; five rows of the catalogue; terms of a
\* month and of a year up to thirty months; six contributions.
CONSTANTS
    NoEvent = NoEvent
    Orders = {o1, o2}
    Retention = 2
    OpenWindow = 0
    SettleWindow = 1
    ShopHorizon = 3
    MaxStops = 1
    Ways = {"memory", "web-serial", "web-usb", "pcsc"}
    Payloads = {w1, w2}
    NoPayload = NoPayload
    MaxWrites = 2
    Tabs = {t1, t2}
    NoRecord = NoRecord
    Tongues = {en, l1, l2}
    English = en
    Foreign = Foreign
    Weights = {0, 1, 2}
    Bare = Bare
    NoTongue = NoTongue
    NoPage = NoPage
    NoTravel = NoTravel
    MaxHops = 4
    Years <- SampleYears
    Days <- SampleDays
    Terms <- SampleTerms
    MaxMonths = 30
    Values = {0, 20, 22, 25, 60}
    Trusts = {0, 4, 20}
    MaxSamples = 6
    r1 = r1
    r2 = r2
    r3 = r3
    r4 = r4
    r5 = r5
    plas = plas
    petgs = petgs
    Rows = {r1, r2, r3, r4, r5}
    KeyOf <- KeyMap
    MaterialOf <- MaterialMap
    AnyMaterial = AnyMaterial
    Label <- LabelMap
    Nearness <- NearnessMap
    Popularity <- PopularityMap
    Fixtures = {r4}
    Imported = {r2}
    Nearby = {r1, r2, r3, r5}
    PageSize = 2
    Limit = 3
    Featured = {plas}
    Namesakes = FALSE
    Texts = {s1, s2, s3}
    Short = {s1}
    NoText = NoText
    MaxSent = 1
SPECIFICATION DeskSpec
CHECK_DEADLOCK FALSE
INVARIANTS
    OrdersAreSound
    OkMeansReadBack
    ChoicesHold
    TermsAreFair
    RecommendationIsSound
    SearchIsSound
PROPERTIES
    WriteEnds
    PaidOrderIsMarked
