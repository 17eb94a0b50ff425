SPECIFICATION Spec
CONSTANTS
    t1 = t1
    t2 = t2
    a1 = a1
    operator = operator
    other = other
    s1 = s1
    s2 = s2
    delete = delete
    start = start
    steady = steady
    moved = moved
    Nothing = Nothing
    Thread = {t1, t2}
    ApprovalId = {a1}
    Actor = {operator, other}
    Session = {s1, s2}
    Identity <- Identities
    Plan = {delete, start}
    Risk <- RiskOf
    LabState = {steady, moved}
    ApprovalTtl = 1
    ReauthenticationAge = 0
    MaxTime = 1
SYMMETRY AnyThread
CHECK_DEADLOCK FALSE
INVARIANTS
    TypeOK
    StartedAsApproved
    OperationsAudited
    LedgerCoherent
PROPERTIES
    SingleUse
