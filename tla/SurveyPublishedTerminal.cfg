SPECIFICATION Spec
CONSTANTS
    Surveys = {s1, s2}
    Workers = {w1, w2}
    NoSurvey = NoSurvey
    s1 = s1
    s2 = s2
    w1 = w1
    w2 = w2
PROPERTY PublishedIsTerminal
