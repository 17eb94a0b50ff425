------------------------------ MODULE IssueRun -------------------------------
(***************************************************************************)
(* The monitor watches the run of the current issue: monitor_runner,        *)
(* notify_once and deliver_digest of supervisor/fortify_supervisor.py, over *)
(* the evidence of RunnerHeartbeat.                                         *)
(*                                                                         *)
(* Every pass is a process of its own.  What was announced is kept in the   *)
(* store: events, notifications and the phase last seen.                   *)
(***************************************************************************)
EXTENDS RunnerHeartbeat, Sequences

CONSTANT DigestLimit  \* rows of one digest

ASSUME MonitorAssumption == DigestLimit \in Nat \ {0}

VARIABLES
    monitor,        \* the pass under way
    runnerAttested, \* process_policy:runner, None when absent or too old to count
    rows,           \* table notifications, by fingerprint; age: the days from its
                    \* digest bucket to today's
    seen,           \* settings runner:<issue>:<generation>:phase
    sends           \* external: how often Telegram showed a notification

watchVars == <<heartbeat, faults, monitor, runnerAttested, rows, seen, sends>>
pass == <<runnerAttested, rows, seen, sends>>

\* Fingerprints runner:<issue>:<generation>:<kind> of the current issue.
Generation == 1..Cardinality(Run)
Kind == {"started", "failed", "heartbeat"}
Fingerprint == Generation \X Kind
NoPass == [at |-> "idle"]
MaxAge == 2  \* older buckets are all alike
Row == [state : {"pending", "digest", "delivered"}, age : 0..MaxAge, message : BOOLEAN]

\* None is no record and no row.
ASSUME NoneAssumption == None \notin HeartbeatRecord \union Row

WatchTypeOK ==
    /\ HeartbeatTypeOK
    /\ runnerAttested \in Nat \union {None}
    /\ seen \in [Generation -> Phase \union {None}]
    /\ rows \in [Fingerprint -> Row \union {None}]

WatchInit ==
    /\ HeartbeatInit
    /\ monitor = NoPass /\ runnerAttested = None
    /\ rows = [f \in Fingerprint |-> None]
    /\ seen = [g \in Generation |-> None]
    /\ sends = [f \in Fingerprint |-> 0]

RowIs(f, state) == rows[f] # None /\ rows[f].state = state
PassTo(at) == monitor' = [monitor EXCEPT !.at = at]
Fault == faults < bound.faults /\ faults' = faults + 1

\* require_consistent_policy: fresh evidence of another policy ends the pass.
\* Without heartbeat_root there is nothing to watch.
PassStart ==
    /\ monitor.at = "idle" /\ bound.mode # "no heartbeat_root" /\ runnerAttested \in {None, runPolicy}
    /\ monitor' = [at |-> "digest", policy |-> runPolicy]
    /\ UNCHANGED <<heartbeat, faults, pass>>

------------------------------------------------------------------------------
(* deliver_digest                                                          *)

\* Mutation: only yesterday's bucket is delivered.
DueYesterday == {f \in Fingerprint : RowIs(f, "digest") /\ rows[f].age = 1}

Due == {f \in Fingerprint : RowIs(f, "digest") /\ rows[f].age > 0}

\* A send is shown, fails, or is shown although it seems to have failed.
Shown(fs) == sends' = [f \in Fingerprint |-> IF f \in fs THEN sends[f] + 1 ELSE sends[f]]

\* What was sent is marked next.
Sent(fs) == monitor' = [at |-> "digested", policy |-> monitor.policy, some |-> fs]

\* Mutation: the rows count as delivered when the send failed.
DigestFailedQuietly(fs) == Sent(fs)

\* A failed digest stays in its bucket.
DigestFailed(fs) == PassTo("read")

SendDigest ==
    /\ monitor.at = "digest"
    /\ \/ Due = {} /\ PassTo("read") /\ UNCHANGED <<faults, sends>>
       \/ \E fs \in SUBSET Due \ {{}} :
            /\ Cardinality(fs) <= DigestLimit /\ (fs = Due \/ Cardinality(fs) = DigestLimit)
            /\ \/ Sent(fs) /\ Shown(fs) /\ UNCHANGED faults
               \/ Fault /\ DigestFailed(fs) /\ (Shown(fs) \/ UNCHANGED sends)
    /\ UNCHANGED <<heartbeat, runnerAttested, rows, seen>>

Delivered(row) == [row EXCEPT !.state = "delivered", !.message = TRUE]

\* mark_notification, one row after the other.
MarkDigest ==
    /\ monitor.at = "digested"
    /\ IF monitor.some = {} THEN monitor' = [at |-> "read", policy |-> monitor.policy] /\ UNCHANGED rows
       ELSE \E f \in monitor.some :
              /\ rows' = [rows EXCEPT ![f] = Delivered(@)]
              /\ monitor' = [monitor EXCEPT !.some = @ \ {f}]
    /\ UNCHANGED <<heartbeat, faults, runnerAttested, seen, sends>>

------------------------------------------------------------------------------
(* monitor_runner                                                          *)

\* The notices of a pass, in order.  Of the phases that need attention the
\* script reports `failed' alone.  A routine heartbeat is due or not, and
\* not after a notice that needs attention.
Notices(document) ==
    LET g == document.generation
        opening == IF rows[<<g, "started">>] = None THEN <<"started">> ELSE <<>>
        phase == IF seen[g] \notin {None, document.phase} /\ document.phase = Failed
                   THEN <<"failed">> ELSE <<>> IN
    {opening \o phase} \union IF opening \o phase = <<>> THEN {<<"heartbeat">>} ELSE {}

\* read_heartbeat takes the record as it is stored, without the lock: files are
\* replaced whole.  It does not classify its age, so no notice tells of a stall.
Evidence == record

\* Evidence of another policy than the pass adopted stops it.
Read ==
    /\ monitor.at = "read"
    /\ LET document == Evidence IN
       IF document = None THEN monitor' = NoPass /\ UNCHANGED runnerAttested
       ELSE /\ runnerAttested' = IF document.active THEN document.policy ELSE None
            /\ IF runnerAttested' \in {None, monitor.policy}
                 THEN \E todo \in Notices(document) :
                        monitor' = [at |-> "notify", todo |-> todo, generation |-> document.generation,
                                    phase |-> document.phase]
                 ELSE monitor' = NoPass
    /\ UNCHANGED <<heartbeat, faults, rows, seen, sends>>

This == <<monitor.generation, Head(monitor.todo)>>
Deferred == bound.mode = "failures" /\ Head(monitor.todo) = "heartbeat"

\* The row and the event are stored before anything is sent.  A row that was
\* sent is edited, a row of a digest is left to it.  (They are two commits; a
\* pass that dies between them announces the start again.)
Upsert ==
    /\ monitor.at = "notify" /\ monitor.todo # <<>>
    /\ rows' = IF rows[This] # None THEN rows
               ELSE [rows EXCEPT ![This] = [state |-> IF Deferred THEN "digest" ELSE "pending",
                                            age |-> 0, message |-> FALSE]]
    /\ IF Deferred THEN monitor' = [monitor EXCEPT !.todo = Tail(@)]
       ELSE PassTo(CASE rows'[This].message -> "edit"
                 [] ~rows'[This].message /\ rows'[This].state = "pending" -> "send"
                 [] OTHER -> "sent")
    /\ UNCHANGED <<heartbeat, faults, runnerAttested, seen, sends>>

Undelivered == rows' = [rows EXCEPT ![This].state = "pending"]

SendNotice ==
    /\ monitor.at = "send"
    /\ \/ PassTo("mark") /\ Shown({This}) /\ UNCHANGED <<faults, rows>>
       \/ PassTo("sent") /\ Fault /\ Undelivered /\ (Shown({This}) \/ UNCHANGED sends)
    /\ UNCHANGED <<heartbeat, runnerAttested, seen>>

Edit ==
    /\ monitor.at = "edit" /\ PassTo("sent")
    /\ \/ UNCHANGED <<faults, rows>>
       \/ Fault /\ Undelivered
    /\ UNCHANGED <<heartbeat, runnerAttested, seen, sends>>

Mark ==
    /\ \/ monitor.at = "mark" /\ PassTo("sent") /\ rows' = [rows EXCEPT ![This] = Delivered(@)]
       \/ monitor.at = "sent" /\ UNCHANGED rows
          /\ monitor' = [monitor EXCEPT !.at = "notify", !.todo = Tail(@)]
    /\ UNCHANGED <<heartbeat, faults, runnerAttested, seen, sends>>

\* The phase is noted; the status card that follows changes nothing here.
Note ==
    /\ monitor.at = "notify" /\ monitor.todo = <<>>
    /\ seen' = [seen EXCEPT ![monitor.generation] = monitor.phase]
    /\ monitor' = NoPass
    /\ UNCHANGED <<heartbeat, faults, runnerAttested, rows, sends>>

PassDies ==
    /\ monitor.at # "idle" /\ monitor' = NoPass /\ Fault
    /\ UNCHANGED <<heartbeat, pass>>

\* An attestation counts for 90 seconds, or three passes.
AttestationAges ==
    /\ runnerAttested # None /\ runnerAttested' = None
    /\ UNCHANGED <<heartbeat, faults, monitor, rows, seen, sends>>

NextDay ==
    /\ rows' = [f \in Fingerprint |->
                  IF RowIs(f, "digest") /\ rows[f].age < MaxAge
                    THEN [rows[f] EXCEPT !.age = @ + 1] ELSE rows[f]]
    /\ UNCHANGED <<heartbeat, faults, monitor, runnerAttested, seen, sends>>

WatchPass ==
    \/ PassStart \/ SendDigest \/ MarkDigest \/ Read \/ Upsert \/ SendNotice \/ Edit \/ Mark \/ Note

WatchNext ==
    \/ HeartbeatNext /\ UNCHANGED <<monitor, pass>>
    \/ WatchPass \/ PassDies \/ AttestationAges \/ NextDay

WatchSpec == WatchInit /\ [][WatchNext]_watchVars
\* The monitor is started by a timer and time passes.
WatchFairSpec == WatchSpec /\ WF_watchVars(WatchPass) /\ WF_watchVars(AttestationAges) /\ WF_watchVars(NextDay)

------------------------------------------------------------------------------
(* Properties                                                              *)

\* What counts as delivered was shown, and shown again only after a fault: a
\* process that died between a send and its mark, or an answer that was lost.
DeliveredOnce ==
    \A f \in Fingerprint :
        /\ RowIs(f, "delivered") => sends[f] > 0
        /\ sends[f] <= 1 + faults

\* A deferred notice is delivered in the end, although digests fail, passes die,
\* days are missed, and the evidence of a dead runner keeps blocking passes.
DigestArrives ==
    \A g \in Generation :
        RowIs(<<g, "heartbeat">>, "digest") ~> RowIs(<<g, "heartbeat">>, "delivered")
==============================================================================
