----------------------------- MODULE MCIssueRun ------------------------------
(* Runs alone, two runs that the monitor watches, and one with faults.       *)
EXTENDS IssueRun

CONSTANTS r1, r2, r3
MCScenario ==
    {[runs |-> {r1, r2, r3}, faults |-> 1, policies |-> 1, mode |-> "no heartbeat_root"],
     [runs |-> {r1, r2},     faults |-> 0, policies |-> 0, mode |-> "all"],
     [runs |-> {r1},         faults |-> 1, policies |-> 1, mode |-> "failures"]}
==============================================================================
