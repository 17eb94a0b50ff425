\* An idle service waits; the clock and the offers are bounded.
CHECK_DEADLOCK FALSE
SPECIFICATION Spec
CONSTANTS
    None = None
    Token = {t1, t2, t3}
    Plan = {p1}
    Operation = {o1, o2}
    Handler = {h1, h2}
    Identity = {i1, i2}
    l1 = l1
    l2 = l2
    LabState = {l1, l2}
    Ttl = 1
    Scenario <- MCScenario
    MaxTime = 1
SYMMETRY Alike
INVARIANTS
    PendingIsUnused
    AnswersAgree
PROPERTIES
    SingleUse
