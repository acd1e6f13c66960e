SPECIFICATION FairSpec
CONSTANTS
    None = None
    n1 = n1
    Links = {l1}
    l1 = l1
    Challenges = {c1}
    c1 = c1
    Contacts = {k1}
    k1 = k1
    Mobiles = {m1}
    m1 = m1
    Workers = {w1, w2, w3}
    w1 = w1
    w2 = w2
    w3 = w3
    Needs = {n1}
    NeedOf <- SameNeed
    MaxAttempts = 2
    MaxVersion = 1
PROPERTIES
    EveryRequestAnswered
