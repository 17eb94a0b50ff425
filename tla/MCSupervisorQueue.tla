-------------------------- MODULE MCSupervisorQueue --------------------------
(* Two policies: profiles of autonomy_policy.py with overrides.             *)
EXTENDS SupervisorQueue, TLC

Profile(start, close, advance, merge) ==
    ("start_next_issue" :> start) @@ ("close_completed_issue" :> close)
    @@ ("advance_milestone" :> advance) @@ ("merge_pull_request" :> merge)

MCPolicies == {Profile("auto", "approval", "auto", "approval"),
               Profile("approval", "auto", "approval", "auto")}
MCOf == <<1, 2>>
AnyApproval == Permutations(ApprovalId)
==============================================================================
