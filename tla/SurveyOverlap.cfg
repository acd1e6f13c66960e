SPECIFICATION MCSpec
CONSTANTS
    Surveys = {s1, s2, s3}
    Workers = {w1, w2}
    NoSurvey = NoSurvey
    s1 = s1
    s2 = s2
    s3 = s3
    w1 = w1
    w2 = w2
SYMMETRY WorkerSymmetry
CONSTRAINT Bounded
INVARIANTS
    TypeOK
    VersionChain
    PublishedWasApproved
    RetiredHasSuccessor
    ReviewedHasMethodology
    OneAtATime
PROPERTIES
    OneLiveSurvey
