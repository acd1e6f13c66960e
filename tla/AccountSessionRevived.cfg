SPECIFICATION MCSpec
CONSTANTS
    Workers = {w1, w2}
    Links = {r1}
    MaxFailed = 2
    MaxAttempts = 3
    MaxVersion = 2
    OverlapVersion = 2
    w1 = w1
    w2 = w2
    r1 = r1
CONSTRAINT Bounded
INVARIANTS
    EndedForGood
