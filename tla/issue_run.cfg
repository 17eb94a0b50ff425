SPECIFICATION WatchFairSpec
CONSTANTS
    None = None
    r1 = r1
    r2 = r2
    r3 = r3
    Run = {r1, r2, r3}
    LastPhase = 2
    MaxRecords = 2
    Scenario <- MCScenario
    DigestLimit = 1
INVARIANTS
    EvidenceIsCurrent
    
PROPERTIES
    TerminalIsFinal
    DigestArrives
