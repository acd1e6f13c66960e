SPECIFICATION Spec
CONSTANTS
    Responses = {a1}
    Villages = {v1}
    Staff = {m1}
    a1 = a1
    v1 = v1
    m1 = m1
PROPERTY AnswersKeepTheirScore
CHECK_DEADLOCK FALSE
