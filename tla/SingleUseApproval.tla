-------------------------- MODULE SingleUseApproval --------------------------
(***************************************************************************)
(* What docs/operations/authorization.md promises of an approval: exactly  *)
(* one decision and one consumption can win, a revoked approval is never   *)
(* consumed, and a consumed approval starts at most one operation.         *)
(***************************************************************************)
EXTENDS Naturals

CONSTANT ApprovalId

VARIABLES stage, \* the state of each approval; "absent" before its request
          uses   \* how many operations each approval has started

Init ==
    /\ stage = [id \in ApprovalId |-> "absent"]
    /\ uses = [id \in ApprovalId |-> 0]

Move(id, from, to) ==
    /\ stage[id] \in from
    /\ stage' = [stage EXCEPT ![id] = to]
    /\ UNCHANGED uses

Request(id) == Move(id, {"absent"}, "pending")
Approve(id) == Move(id, {"pending"}, "approved")
Revoke(id) == Move(id, {"pending", "approved"}, "revoked")
Consume(id) == Move(id, {"approved"}, "consumed")

Start(id) ==
    /\ stage[id] = "consumed" /\ uses[id] = 0
    /\ uses' = [uses EXCEPT ![id] = 1]
    /\ UNCHANGED stage

Next == \E id \in ApprovalId :
            Request(id) \/ Approve(id) \/ Revoke(id) \/ Consume(id) \/ Start(id)

Spec == Init /\ [][Next]_<<stage, uses>>
==============================================================================
