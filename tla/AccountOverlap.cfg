SPECIFICATION MCSpec
CONSTANTS
    Workers = {w1, w2}
    Links = {r1, r2}
    MaxFailed = 2
    MaxAttempts = 3
    MaxVersion = 2
    OverlapVersion = 1
    w1 = w1
    w2 = w2
    r1 = r1
    r2 = r2
SYMMETRY WorkerSymmetry
CONSTRAINT Bounded
INVARIANTS
    TypeOK
    DisabledHasNoSession
    LockHolds
    CredentialsEnd
PROPERTIES
    OnlyAdminsEnable
