SPECIFICATION MCSpec
CONSTANTS
    Workers = {w1, w2}
    Asks = {q1, q2}
    w1 = w1
    w2 = w2
    q1 = q1
    q2 = q2
    Studies = {"s1", "s2"}
    Needs = {"n1", "n2"}
    HomeOf <- NeedsOfOne
    StudyAsks = {"q1"}
    AskOf <- AsksOfOne
    Org = "o1"
    Governorates = {"g1", "g2"}
    Centers = {"c1", "c2"}
    Regions = {"r1", "r2"}
    RegionOf <- RegionOfAll
    MaxPatches = 2
    Selecting = {"s1", "n1"}
    GovernorateOf <- CentersByName
    Imported = {"n1", "n2", "n3"}
    Keys = {"k1", "k2"}
    Invalid = "bad"
    MaxRows = 2
    Responses = {"a1", "a2"}
    Villages = {"v1", "v2"}
    Documents = {"f1", "f2", "f3"}
    MaxEvidence = 2
    Papers = {"d1"}
    MaxNarratives = 3
    MaxFigures = 1
    Snapshots = {"x1", "x2"}
    SettingRows = {"m1"}
    Scale = {4, 5, 7, 8}
    Themes = {"e1", "e2"}
    SubDomains = {"e3", "e4"}
    DomainOf <- ThemeOfAll
    Codes = {"c1", "c2"}
    Events = {1, 2, 3, 4}
    Batch = 3
    Ceiling = 3
    Chunk = 1
    MaxChunks = 3
    Instances = {"i1", "i2"}
    Limit = 2
    MaxRequests = 6
    People = {"p1", "p2"}
SYMMETRY WorkerSymmetry
CHECK_DEADLOCK FALSE
INVARIANTS
    TypesOK
    SharedWasReviewed
    ReleaseComesFirst
    NoTwins
    ValidatedAsAWhole
    FilesHold
    CountedWhileCalm
PROPERTIES
    DecisionsStand
    AssessedThroughout
    ChangedWithinOwner
    CascadesComplete
    ServerKeepsItsLimits
