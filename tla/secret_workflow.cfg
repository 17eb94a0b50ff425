SPECIFICATION Spec
CONSTANTS
    Absent = Absent
    Used = Used
    Original = Original
    key = key
    token = token
    ssc = ssc
    sast = sast
    Target <- MCTarget
    Consumers <- MCConsumers
    Consumer = {ssc, sast}
    Generable = {token}
    SscKey = {key}
    SourceType = {"upload", "generated"}
    OpId = {o1, o2}
    ApprovalId = {a1, a2}
INVARIANTS
    OneUpdatePerTarget
    
PROPERTIES
    
    Settles
