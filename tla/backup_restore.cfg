SPECIFICATION FairSpec
CONSTANTS
    Absent = Absent
    OpId = {o1, o2}
    BackupId = {b1}
    Caller = {t1}
    Profile = {lab, other}
    Scopes = 2
INVARIANTS
    RestorableIsWhole
    RestoresPassTheGate
    SuccessIsEarned
PROPERTIES
    Settles
