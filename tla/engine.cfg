SPECIFICATION Spec
CONSTANTS
    db = db
    app = app
    Component = {db, app}
    Dependencies <- ChainDependencies
    Capabilities <- ChainCapabilities
    OpId = {o1, o2}
    Caller = {t1, t2}
    Requests <- EngineRequests
    MaxAttempts = 1
    OrphansPossible = FALSE
    Nobody = Nobody
SYMMETRY Symmetry
INVARIANTS
    TypeOK
    RecoveryReported
    ExecutionExclusion
    SucceededIsVerified
    FreshStepsRespectDependencies
