SPECIFICATION Spec
CONSTANTS
    Absent = Absent
    chart = chart
    schema = schema
    Target <- MCTarget
    Changed <- MCChanged
    Class <- MCClass
    N = 3
    Evidence = {e1, e2}
    PlanId = {p1}
    OpId = {o1, o2}
    Caller = {t1, t2}
SYMMETRY Interchangeable
INVARIANTS
    NoHiddenChange
    PlanExecutedOnce
PROPERTIES
    BlockedIsLeftAlone
    RollbackReversesOrder
