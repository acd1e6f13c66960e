SPECIFICATION Spec
CONSTANTS
    None = None
    n1 = n1
    Links = {l1, l2}
    l1 = l1
    l2 = l2
    Challenges = {c1, c2}
    c1 = c1
    c2 = c2
    Contacts = {k1, k2}
    k1 = k1
    k2 = k2
    Mobiles = {m1, m2}
    m1 = m1
    m2 = m2
    Workers = {w1, w2}
    w1 = w1
    w2 = w2
    Needs = {n1}
    NeedOf <- SameNeed
    MaxAttempts = 2
    MaxVersion = 2
SYMMETRY PeopleSymmetry
INVARIANTS
    TypeOK
    OneResponsePerPerson
    SessionsAccountForResponses
PROPERTIES
    DeadSessionIsInert
    RecordsResponses
