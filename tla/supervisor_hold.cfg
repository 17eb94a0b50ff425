SPECIFICATION ControlFairSpec
CONSTANTS
    Nothing = Nothing
    t1 = t1
    t2 = t2
    Token = {t1, t2}
    Wants <- MCWants
    MaxGeneration = 3
    MaxTime = 1
    MaxUpdates = 1
    MaxCrashes = 0
PROPERTIES
    HoldTakesEffect
