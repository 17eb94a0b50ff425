SPECIFICATION Spec
CONSTANTS
    a = a
    b = b
    c = c
    Id = {a, b, c}
    Documents <- AllDocuments
CHECK_DEADLOCK FALSE
INVARIANTS
    DependenciesFirst
    CycleExact
    ResultIsPlanned
