------------------------- MODULE MCSupervisorControl -------------------------
(* A lease is asked for, and a change that ends it.                           *)
EXTENDS SupervisorControl, TLC

CONSTANTS t1, t2
MCWants == (t1 :> {"autonomous"}) @@ (t2 :> {"manual"})
==============================================================================
