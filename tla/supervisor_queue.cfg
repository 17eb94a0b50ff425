SPECIFICATION Spec
CONSTANTS
    Absent = Absent
    Issue = {1, 2}
    Of <- MCOf
    Milestones = 2
    MaxHead = 2
    ApprovalId = {a1, a2}
    Policies <- MCPolicies
SYMMETRY AnyApproval
INVARIANTS
    
    
    CompletionIsWhole

    
