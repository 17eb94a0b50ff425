--------------------------- MODULE SupervisorQueue ---------------------------
(***************************************************************************)
(* The SDLC loop of supervisor/fortify_supervisor.py: one issue after the   *)
(* other is claimed, run, merged and completed, milestone by milestone.     *)
(*                                                                         *)
(* Two processes work on one SQLite file: the monitor, a timer job, and the *)
(* Telegram listener.  Either may die, or get an error from GitHub, between *)
(* any two steps.  A step is one transaction or one GitHub request.         *)
(*                                                                         *)
(* The pull request of issue i is the one of branch agent/issue-i.          *)
(***************************************************************************)
EXTENDS Naturals, FiniteSets

CONSTANTS
    Issue, Of,     \* Of[i]: the milestone of issue i
    Milestones,    \* the authorized milestones are 1..Milestones
    MaxHead,       \* bound: heads of a pull request
    ApprovalId, Policies, Absent

Action == {"start_next_issue", "close_completed_issue", "advance_milestone", "merge_pull_request"}

ASSUME QueueAssumption ==
    /\ Issue \subseteq Nat \ {0} /\ Milestones \in Nat \ {0} /\ MaxHead \in Nat \ {0}
    /\ Of \in [Issue -> 1..Milestones]
    /\ Policies \subseteq [Action -> {"auto", "approval", "disabled"}]

VARIABLES
    policy,       \* the decisions of the effective policy
    settings,     \* table settings
    selected,     \* events issue:N:selected
    recorded,     \* events pr:N:completed
    given,        \* events pr:N:closed
    approvals,    \* table approvals
    proc,         \* where each process stands, with its local variables
    issues, pulls, closed, \* external: GitHub's issues, pull requests, closed milestones
    runs,         \* external: how often a runner was started for an issue
    merger        \* history: the approval under which the supervisor merged

vars == <<policy, settings, selected, recorded, given, approvals, proc, issues, pulls, closed, runs, merger>>
store == <<settings, selected, recorded, given, approvals>>
rest == <<policy, runs, merger>>
github == <<issues, pulls, closed>>

Process == {"monitor", "listener"}
Pull == [head : 1..MaxHead, passed : BOOLEAN, state : {"OPEN", "MERGED", "CLOSED"}]
Approval == [action : {"merge_pr", "milestone_rollover"}, of : Nat, head : 0..MaxHead,
             state : {"pending", "approved", "rejected", "superseded", "expired"}]
Idle == [at |-> "idle", pr |-> 0, head |-> 0, approval |-> Absent, actor |-> "",
         found |-> {}, issue |-> 0, milestone |-> 0, then |-> "idle"]

Point == {"idle", "discover", "track", "view", "paused", "heads", "heads-write", "offer", "offered",
          "approve", "decide", "decide-write", "reverify", "merge", "reject", "reject-write",
          "stay", "stay-write", "stayed", "complete", "complete-write", "completed", "close",
          "slot", "free", "finish", "record", "queue", "next", "claim", "spawn", "rollover",
          "rollover-auto", "rollover-decide", "rollover-write", "transition", "advance"}
Proc == [at : Point, pr : Issue \union {0}, head : 0..MaxHead, approval : ApprovalId \union {Absent},
         actor : {"", "autonomy", "start-next"}, found : SUBSET ApprovalId,
         issue : Issue \union {0}, milestone : 0..Milestones, then : {"idle", "finish"}]
Settings == [paused : BOOLEAN, issue : Issue \union {0}, pr : Issue \union {0},
             milestone : 1..Milestones, once : BOOLEAN, error : BOOLEAN,
             toClose : Issue \union {0}]

\* Absent is no pull request and no approval.
ASSUME AbsentAssumption == Absent \notin Pull \union Approval \union ApprovalId

TypeOK ==
    /\ policy \in Policies
    /\ settings \in Settings
    /\ selected \subseteq Issue /\ recorded \subseteq Issue /\ given \subseteq Issue
    /\ approvals \in [ApprovalId -> Approval \union {Absent}]
    /\ proc \in [Process -> Proc]
    /\ issues \in [Issue -> {"open", "closed"}]
    /\ pulls \in [Issue -> Pull \union {Absent}]
    /\ closed \subseteq 1..Milestones
    /\ runs \in [Issue -> Nat]
    /\ merger \in [Issue -> ApprovalId \union {Absent}]

Init ==
    /\ policy \in Policies
    /\ settings = [paused |-> FALSE, issue |-> 0, pr |-> 0, milestone |-> 1,
                   once |-> FALSE, error |-> FALSE, toClose |-> 0]
    /\ selected = {} /\ recorded = {} /\ given = {}
    /\ approvals = [a \in ApprovalId |-> Absent]
    /\ proc = [p \in Process |-> Idle]
    /\ issues = [i \in Issue |-> "open"]
    /\ pulls = [i \in Issue |-> Absent]
    /\ closed = {}
    /\ runs = [i \in Issue |-> 0]
    /\ merger = [i \in Issue |-> Absent]

Go(p, point) == proc' = [proc EXCEPT ![p].at = point]
Quit(p) == proc' = [proc EXCEPT ![p] = Idle]
\* complete_merged_pull_request is called for the pull request in hand.
Complete(p) == proc' = [proc EXCEPT ![p] = [Idle EXCEPT !.at = "complete", !.pr = proc[p].pr]]
Set(key, value) == settings' = [settings EXCEPT ![key] = value]

------------------------------------------------------------------------------
(* Approvals                                                               *)

Pending(action) == {a \in ApprovalId : approvals[a] # Absent
                       /\ approvals[a].action = action /\ approvals[a].state = "pending"}

Hold(p, a, point) ==
    IF point = "idle" THEN Quit(p)
    ELSE proc' = [proc EXCEPT ![p].approval = a, ![p].at = point, ![p].head = 0]

\* pending_approval, and create_approval when there is none.
Ensure(p, action, of, head, point) ==
    \/ \E a \in Pending(action) :
         /\ approvals[a].of = of /\ approvals[a].head = head
         /\ Hold(p, a, point)
         /\ UNCHANGED approvals
    \/ /\ ~\E a \in Pending(action) : approvals[a].of = of /\ approvals[a].head = head
       /\ \E a \in ApprovalId :
            /\ approvals[a] = Absent
            /\ approvals' = [approvals EXCEPT ![a] =
                  [action |-> action, of |-> of, head |-> head, state |-> "pending"]]
            /\ Hold(p, a, point)

\* decide reads the row; an expired one stays undecided ...
DecideRead(p, at, point) ==
    /\ proc[p].at = at
    /\ IF approvals[proc[p].approval].state = "pending" THEN Go(p, point) ELSE Quit(p)
    /\ UNCHANGED <<store, github, rest>>

\* ... and writes it whatever it has become since.
DecideWrite(p, at, state, point) ==
    /\ proc[p].at = at
    /\ approvals' = [approvals EXCEPT ![proc[p].approval].state = state]
    /\ IF point = "idle" THEN Quit(p) ELSE Go(p, point)
    /\ UNCHANGED <<settings, selected, recorded, given, github, rest>>

\* supersede_merge_approvals and supersede_approvals_for_pull_request: the
\* pending rows are selected first, and updated by id.
SupersedeRead(p, at, keep, point) ==
    /\ proc[p].at = at
    /\ proc' = [proc EXCEPT ![p].at = point, ![p].found =
          {a \in Pending("merge_pr") : approvals[a].of = proc[p].pr /\ approvals[a].head # keep}]
    /\ UNCHANGED <<store, github, rest>>

SupersedeWrite(p, at, point) ==
    /\ proc[p].at = at
    /\ approvals' = [a \in ApprovalId |-> IF a \in proc[p].found
                        THEN [approvals[a] EXCEPT !.state = "superseded"] ELSE approvals[a]]
    /\ proc' = [proc EXCEPT ![p].at = point, ![p].found = {}]
    /\ UNCHANGED <<settings, selected, recorded, given, github, rest>>

------------------------------------------------------------------------------
(* monitor_once                                                            *)

MonitorStart ==
    /\ proc["monitor"].at = "idle" /\ ~settings.paused
    /\ proc' = [proc EXCEPT !["monitor"].at = IF settings.pr = 0 THEN "discover" ELSE "view",
                            !["monitor"].pr = settings.pr]
    /\ UNCHANGED <<store, github, rest>>

\* One open agent pull request is tracked; none, and nothing runs: the queue.
Discover ==
    /\ proc["monitor"].at = "discover"
    /\ LET found == {i \in Issue : pulls[i] # Absent /\ pulls[i].state = "OPEN"} IN
       \/ \E i \in found : /\ found = {i}
                           /\ proc' = [proc EXCEPT !["monitor"].pr = i, !["monitor"].at = "track"]
       \/ found = {} /\ settings.issue = 0 /\ Go("monitor", "queue")
       \/ (Cardinality(found) > 1 \/ (found = {} /\ settings.issue # 0)) /\ Quit("monitor")
    /\ UNCHANGED <<store, github, rest>>

Track ==
    /\ proc["monitor"].at = "track"
    /\ Set("pr", proc["monitor"].pr) /\ Go("monitor", "view")
    /\ UNCHANGED <<selected, recorded, given, approvals, github, rest>>

\* verify_merge_plan
Mergeable(i, head) == pulls[i].state = "OPEN" /\ pulls[i].head = head /\ pulls[i].passed

View ==
    /\ proc["monitor"].at = "view"
    /\ LET i == proc["monitor"].pr pr == pulls[i] IN
       \/ pr.state = "MERGED" /\ Complete("monitor")
       \/ pr.state = "CLOSED"
          /\ IF i \in given THEN Quit("monitor") ELSE Go("monitor", "paused")
       \/ /\ pr.state = "OPEN" /\ pr.passed /\ policy["merge_pull_request"] # "disabled"
          /\ proc' = [proc EXCEPT !["monitor"].head = pr.head, !["monitor"].at = "heads"]
       \/ /\ pr.state = "OPEN" /\ (~pr.passed \/ policy["merge_pull_request"] = "disabled")
          /\ Quit("monitor")
    /\ UNCHANGED <<store, github, rest>>

\* Work is paused once for a pull request that was closed without a merge.
Pause ==
    /\ proc["monitor"].at = "paused"
    /\ given' = given \union {proc["monitor"].pr}
    /\ Set("paused", TRUE) /\ Quit("monitor")
    /\ UNCHANGED <<selected, recorded, approvals, github, rest>>

Offer ==
    /\ proc["monitor"].at = "offer"
    /\ Ensure("monitor", "merge_pr", proc["monitor"].pr, proc["monitor"].head, "offered")
    /\ UNCHANGED <<settings, selected, recorded, given, github, rest>>

\* verify_autonomous_merge, as far as it is not verify_merge_plan.
Unattended(i) ==
    /\ ~settings.paused /\ ~settings.error /\ settings.issue = i
    /\ issues[i] = "open" /\ Of[i] = settings.milestone

\* Autonomy, an armed /approve-once, or buttons for the operator.
Offered ==
    /\ proc["monitor"].at = "offered"
    /\ \/ /\ policy["merge_pull_request"] = "auto" /\ Unattended(proc["monitor"].pr)
          /\ proc' = [proc EXCEPT !["monitor"].at = "approve", !["monitor"].actor = "autonomy"]
          /\ UNCHANGED settings
       \/ /\ policy["merge_pull_request"] # "auto" /\ settings.once
          /\ Set("once", FALSE) /\ Go("monitor", "approve")
       \/ /\ IF policy["merge_pull_request"] = "auto" THEN ~Unattended(proc["monitor"].pr)
                                                      ELSE ~settings.once
          /\ Quit("monitor") /\ UNCHANGED settings
    /\ UNCHANGED <<selected, recorded, given, approvals, github, rest>>

------------------------------------------------------------------------------
(* approve                                                                 *)

Allowed(p) ==
    LET a == approvals[proc[p].approval] IN
    Mergeable(a.of, a.head) /\ (proc[p].actor = "autonomy" => Unattended(a.of))

\* The pull request is read and verified before the decision ...
Approve(p) ==
    /\ proc[p].at = "approve"
    /\ IF Allowed(p)
         THEN proc' = [proc EXCEPT ![p].pr = approvals[proc[p].approval].of, ![p].at = "decide"]
         ELSE Quit(p)
    /\ UNCHANGED <<store, github, rest>>

\* ... and again after it.
Reverify(p) ==
    /\ proc[p].at = "reverify"
    /\ IF Allowed(p)
         THEN proc' = [proc EXCEPT ![p].at = "merge", ![p].actor = ""] /\ UNCHANGED settings
         ELSE Quit(p) /\ Set("error", TRUE)
    /\ UNCHANGED <<selected, recorded, given, approvals, github, rest>>

\* Mutation: the merge does not name the head.
AcceptsAnyHead(p) == pulls[proc[p].pr].state = "OPEN"

\* external: GitHub merges an open pull request whose head is the given one.
Accepts(p) ==
    /\ pulls[proc[p].pr].state = "OPEN"
    /\ pulls[proc[p].pr].head = approvals[proc[p].approval].head

\* The answer of a merge may be lost.
Merge(p) ==
    /\ proc[p].at = "merge"
    /\ \/ /\ Accepts(p)
          /\ pulls' = [pulls EXCEPT ![proc[p].pr].state = "MERGED"]
          /\ merger' = [merger EXCEPT ![proc[p].pr] = proc[p].approval]
          /\ \/ Complete(p) /\ UNCHANGED settings
             \/ Quit(p) /\ Set("error", TRUE)
       \/ ~Accepts(p) /\ Quit(p) /\ Set("error", TRUE) /\ UNCHANGED <<pulls, merger>>
    /\ UNCHANGED <<selected, recorded, given, approvals, issues, closed, policy, runs>>

------------------------------------------------------------------------------
(* complete_merged_pull_request                                            *)

\* Mutation: the completion is recorded before it is done.
CompletedEarly(p) ==
    /\ proc[p].at = "completed"
    /\ IF proc[p].pr \in recorded THEN Quit(p) /\ UNCHANGED recorded
       ELSE Go(p, "close") /\ recorded' = recorded \union {proc[p].pr}
    /\ UNCHANGED <<settings, selected, given, approvals, github, rest>>

Completed(p) ==
    /\ proc[p].at = "completed"
    /\ IF proc[p].pr \in recorded THEN Quit(p) ELSE Go(p, "close")
    /\ UNCHANGED <<store, github, rest>>

CloseIssue(p) ==
    /\ proc[p].at = "close"
    /\ issues' = [issues EXCEPT ![proc[p].pr] =
          IF policy["close_completed_issue"] = "auto" THEN "closed" ELSE @]
    /\ settings' = [settings EXCEPT !.toClose =
          IF policy["close_completed_issue"] = "approval" THEN proc[p].pr ELSE @]
    /\ Go(p, "slot")
    /\ UNCHANGED <<selected, recorded, given, approvals, pulls, closed, rest>>

\* The slot is read in one transaction and freed in the next.
Slot(p) ==
    /\ proc[p].at = "slot"
    /\ proc' = [proc EXCEPT ![p].at = IF settings.issue = proc[p].pr THEN "free" ELSE "queue",
                            ![p].then = "finish"]
    /\ UNCHANGED <<store, github, rest>>

Free(p) ==
    /\ proc[p].at = "free"
    /\ Set("issue", 0) /\ Go(p, "queue")
    /\ UNCHANGED <<selected, recorded, given, approvals, github, rest>>

Finish(p) ==
    /\ proc[p].at = "finish"
    /\ Set("pr", 0) /\ Go(p, "record")
    /\ UNCHANGED <<selected, recorded, given, approvals, github, rest>>

Record(p) ==
    /\ proc[p].at = "record"
    /\ recorded' = recorded \union {proc[p].pr} /\ Quit(p)
    /\ UNCHANGED <<settings, selected, given, approvals, github, rest>>

------------------------------------------------------------------------------
(* queue_next_issue                                                        *)

Return(p) ==
    IF proc[p].then = "idle" THEN Quit(p)
    ELSE proc' = [proc EXCEPT ![p] = [Idle EXCEPT !.at = "finish", !.pr = proc[p].pr]]

MayStart(p) ==
    /\ ~settings.paused
    /\ \/ policy["start_next_issue"] = "auto"
       \/ policy["start_next_issue"] = "approval" /\ proc[p].actor = "start-next"

Queue(p) ==
    /\ proc[p].at = "queue"
    /\ IF MayStart(p)
         THEN proc' = [proc EXCEPT ![p].at = "next", ![p].actor = "",
                                 ![p].milestone = settings.milestone]
         ELSE Return(p)
    /\ UNCHANGED <<store, github, rest>>

\* GitHub.next_issue; labels decide which eligible issue is the first.
Eligible(m, excluded) == {i \in Issue : issues[i] = "open" /\ Of[i] = m} \ {excluded}

NextIssue(p) ==
    /\ proc[p].at = "next"
    /\ LET next == Eligible(proc[p].milestone, proc[p].pr) IN
       \/ \E i \in next : proc' = [proc EXCEPT ![p].issue = i, ![p].at = "claim", ![p].milestone = 0]
       \/ next = {} /\ proc' = [proc EXCEPT ![p].at = "rollover", ![p].milestone = 0]
    /\ UNCHANGED <<store, github, rest>>

\* Mutation: the event of the selection is not unique.
FreeSlotOnly(i) == settings.issue = 0

FreeSlot(i) == settings.issue = 0 /\ i \notin selected

\* claim_issue: one immediate transaction.
Claim(p) ==
    /\ proc[p].at = "claim"
    /\ LET i == proc[p].issue IN
       IF FreeSlot(i)
         THEN /\ Set("issue", i) /\ selected' = selected \union {i}
              /\ Go(p, "spawn")
         ELSE Return(p) /\ UNCHANGED <<settings, selected>>
    /\ UNCHANGED <<recorded, given, approvals, github, rest>>

Spawn(p) ==
    /\ proc[p].at = "spawn"
    /\ runs' = [runs EXCEPT ![proc[p].issue] = @ + 1]
    /\ Return(p)
    /\ UNCHANGED <<policy, store, github, merger>>

------------------------------------------------------------------------------
(* Milestone rollover                                                      *)

\* Mutation: the open issues of the milestone are not counted.
ClosedOnly(m) == m \in closed

\* Closed, with no open issue.
Done(m) == m \in closed /\ Eligible(m, 0) = {}

\* next_milestone, if m is not the last.
NextMilestone(m) == m + 1

\* verify_milestone_rollover for the step from m.
CanRollOver(m) ==
    /\ m = settings.milestone /\ m < Milestones
    /\ Done(m) /\ NextMilestone(m) \notin closed

\* offer_milestone_rollover, up to the approval.
OfferRollover(p) ==
    /\ proc[p].at = "rollover"
    /\ LET m == settings.milestone
           blocked == m < Milestones /\ Done(m) /\ ~CanRollOver(m) IN
       \/ /\ CanRollOver(m) /\ policy["advance_milestone"] # "disabled"
          /\ Ensure(p, "milestone_rollover", m, 0,
                IF policy["advance_milestone"] = "auto" THEN "rollover-auto" ELSE proc[p].then)
          /\ UNCHANGED settings
       \/ /\ ~CanRollOver(m) \/ policy["advance_milestone"] = "disabled"
          /\ settings' = [settings EXCEPT !.error = @ \/ blocked]
          /\ Return(p) /\ UNCHANGED approvals
    /\ UNCHANGED <<selected, recorded, given, github, rest>>

\* Autonomy advances unless a merge waits for approval.
RolloverAuto(p) ==
    /\ proc[p].at = "rollover-auto"
    /\ IF Pending("merge_pr") = {} THEN Go(p, "rollover-decide") ELSE Return(p)
    /\ UNCHANGED <<store, github, rest>>

Transition(p) ==
    /\ proc[p].at = "transition"
    /\ IF CanRollOver(approvals[proc[p].approval].of) THEN Go(p, "advance") ELSE Quit(p)
    /\ UNCHANGED <<store, github, rest>>

\* The comparison of advance_milestone.
StillCurrent(m) == settings.milestone = m /\ ~settings.paused

Advance(p) ==
    /\ proc[p].at = "advance"
    /\ LET m == approvals[proc[p].approval].of IN
       IF StillCurrent(m)
         THEN /\ settings' = [settings EXCEPT !.milestone = NextMilestone(m), !.error = FALSE]
              /\ proc' = [proc EXCEPT ![p].at = "queue", ![p].approval = Absent]
         ELSE Return(p) /\ UNCHANGED settings
    /\ UNCHANGED <<selected, recorded, given, approvals, github, rest>>

------------------------------------------------------------------------------
(* Commands of the operator                                                *)

Command(point, a, actor) ==
    /\ proc["listener"].at = "idle"
    /\ proc' = [proc EXCEPT !["listener"] =
          [Idle EXCEPT !.at = point, !.approval = a, !.actor = actor]]
    /\ UNCHANGED <<store, github, rest>>

Is(a, action) == approvals[a] # Absent /\ approvals[a].action = action

ApproveCommand(a) ==
    Is(a, "merge_pr") /\ policy["merge_pull_request"] # "disabled" /\ Command("approve", a, "")
RejectCommand(a) == approvals[a] # Absent /\ Command("reject", a, "")

\* current_approval_id: a command without an id needs a single candidate, of the
\* tracked pull request if it has any.
Current(action) ==
    LET mine == {a \in Pending(action) : approvals[a].of = settings.pr} IN
    IF action = "merge_pr" /\ mine # {} THEN mine ELSE Pending(action)

AdvanceCommand(a) ==
    /\ Current("milestone_rollover") = {a} /\ policy["advance_milestone"] # "disabled"
    /\ CanRollOver(approvals[a].of) /\ Command("rollover-decide", a, "")

\* The buttons under the message that offers an approval; a rollover that
\* autonomy decides is not offered.
Buttons == [merge_pr |-> {"approve", "reject"}, milestone_rollover |-> {"rollover-decide", "stay"}]

\* A button is good as long as what it was offered for still holds.
Verified(a) ==
    IF approvals[a].action = "merge_pr" THEN Mergeable(approvals[a].of, approvals[a].head)
                                        ELSE CanRollOver(approvals[a].of)

Press(a) ==
    /\ approvals[a] # Absent /\ Verified(a)
    /\ Is(a, "milestone_rollover") => policy["advance_milestone"] = "approval"
    /\ \E point \in Buttons[approvals[a].action] : Command(point, a, "")

\* The operator stays with the milestone: the approval is rejected, work paused.
Stay ==
    /\ proc["listener"].at = "stayed"
    /\ Set("paused", TRUE) /\ Quit("listener")
    /\ UNCHANGED <<selected, recorded, given, approvals, github, rest>>
StartNext == policy["start_next_issue"] = "approval" /\ Command("queue", Absent, "start-next")
CloseCompleted ==
    /\ policy["close_completed_issue"] = "approval" /\ settings.toClose # 0
    /\ proc["listener"].at = "idle"
    /\ issues' = [issues EXCEPT ![settings.toClose] = "closed"]
    /\ Set("toClose", 0)
    /\ UNCHANGED <<selected, recorded, given, approvals, proc, pulls, closed, rest>>

\* /hold, /pause, /continue and /approve-once write one setting.
Switch(key) ==
    /\ proc["listener"].at = "idle"
    /\ key \in {"paused", "once"} /\ Set(key, IF key = "once" THEN TRUE ELSE ~settings[key])
    /\ UNCHANGED <<selected, recorded, given, approvals, proc, github, rest>>

------------------------------------------------------------------------------
(* Faults and the outside                                                  *)

\* A process dies, or GitHub raises an error that ends the command.
Abandon(p) ==
    /\ proc[p].at # "idle" /\ Quit(p)
    /\ UNCHANGED <<store, github, rest>>

\* A pending row past its expiry and one that decide has marked are not told apart.
Expire(a) ==
    /\ approvals[a] # Absent /\ approvals[a].state = "pending"
    /\ approvals' = [approvals EXCEPT ![a].state = "expired"]
    /\ UNCHANGED <<settings, selected, recorded, given, proc, github, rest>>

\* A runner opens its pull request, heads are pushed, checks pass.
PullChanges(i) ==
    /\ \/ /\ runs[i] > 0 /\ pulls[i] = Absent
          /\ pulls' = [pulls EXCEPT ![i] = [head |-> 1, passed |-> FALSE, state |-> "OPEN"]]
       \/ /\ pulls[i] # Absent /\ pulls[i].state = "OPEN"
          /\ \/ pulls[i].head < MaxHead
                /\ pulls' = [pulls EXCEPT ![i].head = @ + 1, ![i].passed = FALSE]
             \/ ~pulls[i].passed /\ pulls' = [pulls EXCEPT ![i].passed = TRUE]
             \/ pulls' = [pulls EXCEPT ![i].state = "CLOSED"]
    /\ UNCHANGED <<store, proc, issues, closed, rest>>

MilestoneCloses(m) ==
    /\ m \notin closed
    /\ closed' = closed \union {m}
    /\ UNCHANGED <<store, proc, issues, pulls, rest>>

Step(p) ==
    \/ DecideRead(p, "decide", "decide-write")
    \/ DecideWrite(p, "decide-write", "approved", "reverify")
    \/ DecideRead(p, "reject", "reject-write")
    \/ DecideWrite(p, "reject-write", "rejected", "idle")
    \/ DecideRead(p, "stay", "stay-write")
    \/ DecideWrite(p, "stay-write", "rejected", "stayed")
    \/ DecideRead(p, "rollover-decide", "rollover-write")
    \/ DecideWrite(p, "rollover-write", "approved", "transition")
    \/ SupersedeRead(p, "heads", proc[p].head, "heads-write")
    \/ SupersedeWrite(p, "heads-write", "offer")
    \/ SupersedeRead(p, "complete", 0, "complete-write")
    \/ SupersedeWrite(p, "complete-write", "completed")
    \/ Approve(p) \/ Reverify(p) \/ Merge(p)
    \/ Completed(p) \/ CloseIssue(p) \/ Slot(p) \/ Free(p) \/ Finish(p) \/ Record(p)
    \/ Queue(p) \/ NextIssue(p) \/ Claim(p) \/ Spawn(p)
    \/ OfferRollover(p) \/ RolloverAuto(p) \/ Transition(p) \/ Advance(p)

Next ==
    \/ MonitorStart \/ Discover \/ Track \/ View \/ Pause \/ Offer \/ Offered
    \/ \E p \in Process : Step(p) \/ Abandon(p)
    \/ \E a \in ApprovalId : ApproveCommand(a) \/ RejectCommand(a) \/ AdvanceCommand(a)
                              \/ Press(a) \/ Expire(a)
    \/ Stay \/ StartNext \/ CloseCompleted \/ \E key \in {"paused", "once"} : Switch(key)
    \/ \E i \in Issue : PullChanges(i)
    \/ \E m \in 1..Milestones : MilestoneCloses(m)

Spec == Init /\ [][Next]_vars

------------------------------------------------------------------------------
(* Properties                                                              *)

\* An issue is started at most once, whichever processes select it, and also
\* after the slot was freed or a process died (docs/operations/
\* sdlc-supervisor.md: `selects the next eligible milestone issue exactly once').
StartedOnce == \A i \in Issue : runs[i] <= 1

\* What the supervisor merges is the head that its approval names, and the
\* checks of that head passed; heads pushed in the meantime are never merged.
MergedAsApproved ==
    \A i \in Issue : merger[i] # Absent =>
        /\ pulls[i].head = approvals[merger[i]].head /\ pulls[i].passed
        /\ approvals[merger[i]].of = i

\* A merge that is recorded as completed was completed: its issue no longer
\* holds the slot and, where the policy says so, is closed.
CompletionIsWhole ==
    \A i \in recorded :
        /\ pulls[i].state = "MERGED" /\ settings.issue # i
        /\ policy["close_completed_issue"] = "auto" => issues[i] = "closed"

\* A milestone is left only for the next one, when it is closed and has no
\* open issue, and never while work is held, although the approval and the
\* verification of the rollover are older than the step that makes it.
AdvancesWhenDone ==
    [][settings'.milestone # settings.milestone =>
          /\ settings'.milestone = settings.milestone + 1
          /\ settings.milestone \in closed /\ ~settings.paused
          /\ \A i \in Issue : Of[i] = settings.milestone => issues[i] = "closed"]_vars
==============================================================================
