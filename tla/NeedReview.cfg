SPECIFICATION MCSpec
CONSTANTS
    Workers = {w1, w2}
    MaxEditions = 3
    MaxDecisions = 4
    OverlapEditions = 2
    OverlapDecisions = 2
    w1 = w1
    w2 = w2
SYMMETRY WorkerSymmetry
CONSTRAINT Bounded
INVARIANTS
    TypeOK
    ApprovedByAHuman
    ReviewIsCurrent
