SPECIFICATION FairSpec
CONSTANTS
    db = db
    app = app
    Component = {db, app}
    Dependencies <- ChainDependencies
    Capabilities <- ChainCapabilities
    OpId = {o1}
    Caller = {t1, t2}
    Requests <- CoreRequests
    MaxAttempts = 2
    OrphansPossible = TRUE
    Nobody = Nobody
PROPERTIES
    OperationSettles
