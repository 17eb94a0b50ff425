--------------------------- MODULE MCRemoteActions ---------------------------
(* A plan with faults, recovery with faults, and a plan beside the other      *)
(* services.                                                                 *)
EXTENDS RemoteActions, TLC

CONSTANTS l1, l2
MCScenario ==
    {[plans |-> Plan, offers |-> {}, others |-> {"stop"}, states |-> {l1, l2}, faults |-> 1],
     [plans |-> {}, offers |-> {"retry", "cancel"}, others |-> {"start", "uninstall"},
      states |-> {l1}, faults |-> 1],
     [plans |-> Plan, offers |-> {"acknowledge", "pause"}, others |-> {},
      states |-> {l1}, faults |-> 0]}

Alike == Permutations(Token) \union Permutations(Operation) \union Permutations(Handler)
         \union Permutations(Identity)
==============================================================================
