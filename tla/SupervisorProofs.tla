--------------------------- MODULE SupervisorProofs ---------------------------
(***************************************************************************)
(* The safety properties of the supervisor's three modules, for every value *)
(* of their constants.                                                      *)
(*                                                                         *)
(* SupervisorQueue: types, StartedOnce, MergedAsApproved, CompletionIsWhole *)
(* and AdvancesWhenDone.  What a process has read is old when it acts, so   *)
(* the invariant says of each point which part of it cannot have changed:   *)
(* heads only grow, merged pull requests stay as they are, closed issues    *)
(* and milestones stay closed, a selected issue is never selected again.    *)
(*                                                                         *)
(* SupervisorControl: types, ConfirmedOnce and AnsweredChangeRules.         *)
(* IssueRun: types, EvidenceIsCurrent, TerminalIsFinal and DeliveredOnce.   *)
(* The three modules share no variable, constant or definition.             *)
(***************************************************************************)
EXTENDS SupervisorQueue, SupervisorControl, IssueRun, FiniteSetTheorems, TLAPS

------------------------------------------------------------------------------
(* The invariant                                                           *)

Opened(i) == i \in Issue /\ pulls[i] # Absent
Merged(i) == Opened(i) /\ pulls[i].state = "MERGED"
Known(a) == a \in ApprovalId /\ approvals[a] # Absent

\* The issue is closed where the policy says so.
CloseDone(i) == policy["close_completed_issue"] = "auto" => issues[i] = "closed"

\* A head that GitHub still accepts under approval a has passed.
Ready(a) == pulls[approvals[a].of].head = approvals[a].head => pulls[approvals[a].of].passed

\* What a process with the local variables q can rely on.
ProcOK(q) ==
    /\ q.at \in {"track", "view", "paused", "heads", "heads-write", "offer"} => Opened(q.pr)
    /\ q.at \in {"heads", "heads-write", "offer"} => q.head <= pulls[q.pr].head
    /\ q.at \in {"reject", "reject-write", "stay", "stay-write"} => Known(q.approval)
    /\ q.at \in {"offered", "approve", "decide", "decide-write", "reverify", "merge"} =>
          Known(q.approval) /\ Is(q.approval, "merge_pr")
    /\ q.at \in {"decide", "decide-write", "reverify", "merge"} => q.pr = approvals[q.approval].of
    /\ q.at = "merge" => Ready(q.approval)
    /\ q.at \in {"rollover-auto", "rollover-decide", "rollover-write", "transition", "advance"} =>
          Known(q.approval)
    /\ q.at = "advance" => approvals[q.approval].of < Milestones /\ Done(approvals[q.approval].of)
    /\ \A a \in q.found : Known(a)
    /\ q.at \in {"complete", "complete-write", "completed", "close", "slot", "free", "finish", "record"}
       \/ q.then = "finish" => Merged(q.pr)
    /\ q.at \in {"slot", "free", "finish", "record"} \/ q.then = "finish" => CloseDone(q.pr)
    /\ q.at \in {"finish", "record"} \/ (q.then = "finish" /\ q.at # "free") => settings.issue # q.pr
    /\ q.then = "finish" =>
          q.at \in {"free", "queue", "next", "claim", "spawn", "rollover", "rollover-auto",
                   "rollover-decide", "rollover-write", "transition", "advance", "finish", "record"}
    /\ q.at \in {"claim", "spawn"} => q.issue \in Issue
    /\ q.at = "spawn" => q.issue \in selected /\ runs[q.issue] = 0

\* Two processes never start one issue.
Apart ==
    \A p, r \in Process : proc[p].at = "spawn" /\ proc[r].at = "spawn"
                          /\ proc[p].issue = proc[r].issue => p = r

ApprovalsOK ==
    \A a \in ApprovalId : Is(a, "merge_pr") =>
        Opened(approvals[a].of) /\ approvals[a].head <= pulls[approvals[a].of].head

TrackedOK == settings.pr # 0 => Opened(settings.pr)

StartsOK ==
    \A i \in Issue : /\ runs[i] <= 1
                     /\ runs[i] > 0 \/ pulls[i] # Absent => i \in selected

MergesOK ==
    \A i \in Issue : merger[i] # Absent =>
        /\ Merged(i) /\ Known(merger[i]) /\ approvals[merger[i]].of = i
        /\ pulls[i].head = approvals[merger[i]].head /\ pulls[i].passed

RecordedOK == \A i \in recorded : Merged(i) /\ settings.issue # i /\ CloseDone(i)

IInv ==
    /\ TypeOK
    /\ \A p \in Process : ProcOK(proc[p])
    /\ Apart /\ ApprovalsOK /\ TrackedOK /\ StartsOK /\ MergesOK /\ RecordedOK

LEMMA IdleFacts == Idle \in Proc /\ Idle.at = "idle" /\ Idle.pr = 0 /\ Idle.head = 0
                   /\ Idle.approval = Absent /\ Idle.found = {} /\ Idle.then = "idle"
BY QueueAssumption DEF Idle, Proc, Point

LEMMA ProcFields ==
    ASSUME NEW q \in Proc
    PROVE  /\ q.at \in Point /\ q.pr \in Issue \union {0} /\ q.head \in 0..MaxHead
           /\ q.approval \in ApprovalId \union {Absent} /\ q.found \subseteq ApprovalId
           /\ q.issue \in Issue \union {0} /\ q.milestone \in 0..Milestones
           /\ q.then \in {"idle", "finish"}
BY DEF Proc

LEMMA IdleOK == ProcOK(Idle) /\ ProcOK(Idle)'
BY IdleFacts DEF ProcOK, Idle

LEMMA InitInvariant == Init => IInv
<1> SUFFICES ASSUME Init PROVE IInv
  OBVIOUS
<1>1. settings \in Settings
  BY QueueAssumption DEF Init, Settings
<1>2. TypeOK
  BY <1>1, IdleFacts DEF Init, TypeOK
<1>3. \A p \in Process : ProcOK(proc[p])
  BY IdleOK DEF Init
<1>4. Apart
  BY IdleFacts DEF Init, Apart
<1>5. ApprovalsOK /\ TrackedOK /\ StartsOK /\ MergesOK /\ RecordedOK
  BY DEF Init, ApprovalsOK, Is, TrackedOK, StartsOK, MergesOK, RecordedOK
<1> QED BY <1>2, <1>3, <1>4, <1>5 DEF IInv

------------------------------------------------------------------------------
(* What every step keeps                                                   *)

\* What a process has read and may still rely on.
PullsKept ==
    \A i \in Issue : pulls[i] # Absent =>
        /\ pulls'[i] # Absent /\ pulls'[i].head \in Nat /\ pulls[i].head <= pulls'[i].head
        /\ pulls[i].state = "MERGED" => pulls'[i] = pulls[i]
        /\ pulls[i].passed /\ pulls'[i].head = pulls[i].head => pulls'[i].passed

ApprovalsKept ==
    \A a \in ApprovalId : approvals[a] # Absent =>
        /\ approvals'[a] # Absent /\ approvals'[a].action = approvals[a].action
        /\ approvals'[a].of = approvals[a].of /\ approvals'[a].head = approvals[a].head

Kept ==
    /\ policy' = policy /\ PullsKept /\ ApprovalsKept
    /\ \A i \in Issue : issues[i] = "closed" => issues'[i] = "closed"
    /\ closed \subseteq closed' /\ selected \subseteq selected'
    /\ settings'.issue \in {settings.issue, 0} \/ settings'.issue \notin selected

LEMMA OpenedPull ==
    ASSUME IInv, NEW i, Opened(i)
    PROVE  i \in Issue /\ pulls[i] \in Pull /\ pulls[i].head \in Nat
<1>1. i \in Issue /\ pulls[i] \in Pull
  BY DEF Opened, IInv, TypeOK
<1>2. pulls[i].head \in 1..MaxHead
  BY <1>1 DEF Pull
<1> QED BY <1>1, <1>2, QueueAssumption

LEMMA MergedKept ==
    ASSUME IInv, Kept, NEW i, Merged(i)
    PROVE  Merged(i)' /\ pulls'[i] = pulls[i] /\ i \in selected /\ (settings.issue # i => settings'.issue # i)
           /\ (CloseDone(i) => CloseDone(i)')
<1>1. i \in Issue /\ pulls[i] # Absent /\ pulls[i].state = "MERGED"
  BY DEF Merged, Opened
<1>2. i \in selected /\ i # 0
  BY <1>1, QueueAssumption DEF IInv, StartsOK
<1> QED BY <1>1, <1>2 DEF Kept, PullsKept, Merged, Opened, CloseDone

\* A merge approval names an open or merged pull request.
LEMMA NamedPull ==
    ASSUME IInv, NEW a, Known(a)
    PROVE  /\ approvals[a] \in Approval /\ approvals[a].of \in Nat /\ approvals[a].head \in 0..MaxHead
           /\ Is(a, "merge_pr") => /\ Opened(approvals[a].of) /\ pulls[approvals[a].of] \in Pull
                                   /\ approvals[a].head <= pulls[approvals[a].of].head
<1>1. approvals[a] \in Approval
  BY DEF Known, IInv, TypeOK
<1> QED BY <1>1 DEF Known, IInv, TypeOK, ApprovalsOK, Approval, Opened

LEMMA ReadyKept ==
    ASSUME IInv, Kept, NEW a, Known(a), Is(a, "merge_pr"), Ready(a)
    PROVE  Ready(a)'
<1>1. PICK i : i = approvals[a].of
  OBVIOUS
<1>2. PICK h : h = approvals[a].head
  OBVIOUS
<1>3. i \in Issue /\ pulls[i] \in Pull /\ pulls[i] # Absent /\ h <= pulls[i].head /\ h \in Nat
      /\ pulls[i].head \in Nat
  BY <1>1, <1>2, NamedPull, QueueAssumption DEF Opened, Pull
<1>4. approvals'[a].of = i /\ approvals'[a].head = h
  BY <1>1, <1>2 DEF Kept, ApprovalsKept, Known
<1>5. pulls[i].head = h => pulls[i].passed
  BY <1>1, <1>2 DEF Ready
<1>6. pulls'[i].head = h => pulls'[i].passed
  <2> SUFFICES ASSUME pulls'[i].head = h PROVE pulls'[i].passed
    OBVIOUS
  <2>1. pulls[i].head <= h
    BY <1>3 DEF Kept, PullsKept
  <2>2. pulls[i].head = h
    BY <1>3, <2>1
  <2> QED BY <1>3, <1>5, <2>2 DEF Kept, PullsKept
<1> QED BY <1>4, <1>6 DEF Ready

LEMMA OpenedKept ==
    ASSUME IInv, Kept, NEW i, Opened(i)
    PROVE  /\ Opened(i)' /\ i \in Issue /\ pulls[i] \in Pull
           /\ \A h \in Nat : h <= pulls[i].head => h <= pulls'[i].head
<1>1. i \in Issue /\ pulls[i] # Absent /\ pulls[i] \in Pull
  BY DEF Opened, IInv, TypeOK
<1>2. pulls[i].head \in Nat /\ pulls'[i].head \in Nat /\ pulls[i].head <= pulls'[i].head
      /\ pulls'[i] # Absent
  BY <1>1, QueueAssumption DEF Kept, PullsKept, Pull
<1> QED BY <1>1, <1>2 DEF Opened

LEMMA KnownKept ==
    ASSUME IInv, Kept, NEW a, Known(a)
    PROVE  /\ Known(a)' /\ a \in ApprovalId /\ approvals'[a].of = approvals[a].of
           /\ approvals'[a].head = approvals[a].head
           /\ \A action : Is(a, action) => Is(a, action)'
BY DEF Known, Kept, ApprovalsKept, Is

LEMMA DoneKept ==
    ASSUME IInv, Kept, NEW m, Done(m)
    PROVE  Done(m)'
BY DEF Done, Eligible, Kept, IInv, TypeOK

\* A step keeps what another process relies on.
LEMMA ProcFrame ==
    ASSUME IInv, Kept, NEW q \in Proc, ProcOK(q), q.at = "spawn" => runs'[q.issue] = runs[q.issue]
    PROVE  ProcOK(q)'
<1>1. q.head \in Nat
  BY ProcFields, QueueAssumption
<1>2. /\ q.at \in {"track", "view", "paused", "heads", "heads-write", "offer"} => Opened(q.pr)'
      /\ q.at \in {"heads", "heads-write", "offer"} => q.head <= pulls'[q.pr].head
  BY <1>1, OpenedKept DEF ProcOK
<1>3. /\ q.at \in {"reject", "reject-write", "stay", "stay-write"} => Known(q.approval)'
      /\ q.at \in {"offered", "approve", "decide", "decide-write", "reverify", "merge"} =>
            Known(q.approval)' /\ Is(q.approval, "merge_pr")'
      /\ q.at \in {"decide", "decide-write", "reverify", "merge"} => q.pr = approvals'[q.approval].of
      /\ q.at \in {"rollover-auto", "rollover-decide", "rollover-write", "transition", "advance"} =>
            Known(q.approval)'
      /\ \A a \in q.found : Known(a)'
  BY KnownKept DEF ProcOK
<1>4. q.at = "merge" => Ready(q.approval)'
  BY ReadyKept DEF ProcOK
<1>5. q.at = "advance" => (approvals[q.approval].of < Milestones /\ Done(approvals[q.approval].of))'
  <2> SUFFICES ASSUME q.at = "advance"
               PROVE  (approvals[q.approval].of < Milestones /\ Done(approvals[q.approval].of))'
    OBVIOUS
  <2>1. PICK m : m = approvals[q.approval].of
    OBVIOUS
  <2>2. m < Milestones /\ Done(m)' /\ approvals'[q.approval].of = m
    BY <2>1, KnownKept, DoneKept DEF ProcOK
  <2> QED BY <2>2 DEF Done
<1>6. /\ \/ q.at \in {"complete", "complete-write", "completed", "close", "slot", "free", "finish", "record"}
         \/ q.then = "finish"
         => Merged(q.pr)'
      /\ q.at \in {"slot", "free", "finish", "record"} \/ q.then = "finish" => CloseDone(q.pr)'
      /\ q.at \in {"finish", "record"} \/ (q.then = "finish" /\ q.at # "free") => settings'.issue # q.pr
  BY MergedKept DEF ProcOK
<1>7. /\ q.then = "finish" =>
            q.at \in {"free", "queue", "next", "claim", "spawn", "rollover", "rollover-auto",
                     "rollover-decide", "rollover-write", "transition", "advance", "finish", "record"}
      /\ q.at \in {"claim", "spawn"} => q.issue \in Issue
      /\ q.at = "spawn" => q.issue \in selected' /\ runs'[q.issue] = 0
  BY DEF ProcOK, Kept
<1> QED BY <1>2, <1>3, <1>4, <1>5, <1>6, <1>7 DEF ProcOK

\* A step keeps of the store what it does not add to.
LEMMA StoreFrame ==
    ASSUME IInv, Kept
    PROVE  /\ (\A a \in ApprovalId : approvals'[a] # Absent => approvals[a] # Absent) => ApprovalsOK'
           /\ settings'.pr \in {settings.pr, 0} => TrackedOK'
           /\ runs' = runs /\ (\A i \in Issue : pulls'[i] # Absent => pulls[i] # Absent) => StartsOK'
           /\ merger' = merger => MergesOK'
           /\ recorded' = recorded => RecordedOK'
<1>1. ASSUME \A a \in ApprovalId : approvals'[a] # Absent => approvals[a] # Absent,
             NEW a \in ApprovalId, Is(a, "merge_pr")'
      PROVE  (Opened(approvals[a].of) /\ approvals[a].head <= pulls[approvals[a].of].head)'
  <2>1. Known(a) /\ Is(a, "merge_pr")
    BY <1>1 DEF Known, Is, Kept, ApprovalsKept
  <2>2. PICK i : i = approvals[a].of
    OBVIOUS
  <2>3. PICK h : h = approvals[a].head
    OBVIOUS
  <2>4. h \in Nat /\ Opened(i) /\ h <= pulls[i].head
    BY <2>1, <2>2, <2>3, NamedPull, QueueAssumption
  <2>5. Opened(i)' /\ h <= pulls'[i].head
    BY <2>4, OpenedKept
  <2> QED BY <2>1, <2>2, <2>3, <2>5, KnownKept DEF Opened
<1>2. ASSUME settings'.pr \in {settings.pr, 0} PROVE TrackedOK'
  BY <1>2, OpenedKept DEF IInv, TrackedOK, Opened
<1>3. ASSUME runs' = runs, \A i \in Issue : pulls'[i] # Absent => pulls[i] # Absent PROVE StartsOK'
  BY <1>3 DEF IInv, StartsOK, Kept
<1>4. ASSUME merger' = merger, NEW i \in Issue, merger'[i] # Absent
      PROVE  (/\ Merged(i) /\ Known(merger[i]) /\ approvals[merger[i]].of = i
              /\ pulls[i].head = approvals[merger[i]].head /\ pulls[i].passed)'
  <2>1. PICK a : a = merger[i]
    OBVIOUS
  <2>2. /\ Merged(i) /\ Known(a) /\ approvals[a].of = i
        /\ pulls[i].head = approvals[a].head /\ pulls[i].passed
    BY <1>4, <2>1 DEF IInv, MergesOK
  <2> QED BY <1>4, <2>1, <2>2, MergedKept, KnownKept DEF Known
<1>5. ASSUME recorded' = recorded PROVE RecordedOK'
  BY <1>5, MergedKept DEF IInv, RecordedOK
<1> QED BY <1>1, <1>2, <1>3, <1>4, <1>5 DEF ApprovalsOK, MergesOK

------------------------------------------------------------------------------
(* Steps of one process                                                    *)

LEMMA ProcessStep ==
    ASSUME IInv, Kept, NEW p \in Process, NEW q \in Proc, proc' = [proc EXCEPT ![p] = q],
           q.at # "spawn", ProcOK(q)', TypeOK',
           \/ UNCHANGED runs
           \/ /\ proc[p].at = "spawn"
              /\ \A i \in Issue : i # proc[p].issue => runs'[i] = runs[i],
           ApprovalsOK', TrackedOK', StartsOK', MergesOK', RecordedOK'
    PROVE  IInv'
<1>1. proc'[p] = q /\ \A r \in Process : r # p => proc'[r] = proc[r]
  BY DEF IInv, TypeOK
<1>2. ASSUME NEW r \in Process PROVE ProcOK(proc[r])'
  <2>1. CASE r = p
    BY <1>1, <2>1 DEF ProcOK
  <2>2. CASE r # p
    <3>1. PICK x \in Proc : x = proc[r]
      BY DEF IInv, TypeOK
    <3>2. ProcOK(x)
      BY <3>1 DEF IInv
    <3>3. x.at = "spawn" => x.issue \in Issue /\ (proc[p].at = "spawn" => x.issue # proc[p].issue)
      BY <2>2, <3>1, <3>2 DEF IInv, Apart, ProcOK
    <3>4. ProcOK(x)'
      BY <3>2, <3>3, ProcFrame
    <3>5. proc'[r] = x
      BY <1>1, <2>2, <3>1
    <3> QED BY <3>4, <3>5 DEF ProcOK
  <2> QED BY <2>1, <2>2
<1>3. Apart'
  BY <1>1 DEF IInv, Apart
<1> QED BY <1>2, <1>3 DEF IInv

\* A step that changes nothing but the variables of its process.
LEMMA LocalStep ==
    ASSUME IInv, NEW p \in Process, NEW q \in Proc, proc' = [proc EXCEPT ![p] = q],
           UNCHANGED <<store, github, rest>>, ProcOK(q), q.at # "spawn"
    PROVE  IInv'
<1>1. UNCHANGED <<policy, settings, selected, recorded, given, approvals, issues, pulls, closed,
                  runs, merger>>
  BY DEF store, github, rest
<1>2. \A i \in Issue : pulls[i] # Absent => pulls[i].head \in Nat
  BY QueueAssumption DEF IInv, TypeOK, Pull
<1>3. Kept
  BY <1>1, <1>2 DEF Kept, PullsKept, ApprovalsKept
<1>4. TypeOK'
  BY <1>1 DEF IInv, TypeOK
<1>5. ApprovalsOK' /\ TrackedOK' /\ StartsOK' /\ MergesOK' /\ RecordedOK'
  BY <1>1, <1>3, StoreFrame
<1>6. ProcOK(q)'
  BY <1>1, <1>3, ProcFrame
<1> QED BY <1>1, <1>3, <1>4, <1>5, <1>6, ProcessStep

LEMMA ProcFacts ==
    ASSUME IInv, NEW p \in Process
    PROVE  /\ proc[p] \in Proc /\ ProcOK(proc[p])
           /\ proc[p].at \in Point /\ proc[p].pr \in Issue \union {0} /\ proc[p].head \in 0..MaxHead
           /\ proc[p].approval \in ApprovalId \union {Absent} /\ proc[p].found \subseteq ApprovalId
           /\ proc[p].issue \in Issue \union {0} /\ proc[p].then \in {"idle", "finish"}
<1>1. proc[p] \in Proc /\ ProcOK(proc[p])
  BY DEF IInv, TypeOK
<1> QED BY <1>1, ProcFields

LEMMA GoProc ==
    ASSUME IInv, NEW p \in Process, NEW point \in Point, Go(p, point)
    PROVE  \E q \in Proc : /\ proc' = [proc EXCEPT ![p] = q]
                           /\ q.at = point /\ q.pr = proc[p].pr /\ q.head = proc[p].head
                           /\ q.approval = proc[p].approval /\ q.found = proc[p].found
                           /\ q.issue = proc[p].issue /\ q.then = proc[p].then
<1>1. PICK q : q = [proc[p] EXCEPT !.at = point] /\ proc' = [proc EXCEPT ![p] = q]
  BY DEF Go
<1>2. proc[p] \in Proc
  BY ProcFacts
<1>3. /\ q.at = point /\ q.pr = proc[p].pr /\ q.head = proc[p].head
      /\ q.approval = proc[p].approval /\ q.found = proc[p].found
      /\ q.issue = proc[p].issue /\ q.then = proc[p].then
  BY <1>1, <1>2 DEF Proc
<1>4. q \in Proc
  BY <1>1, <1>2 DEF Proc
<1> QED BY <1>1, <1>3, <1>4

LEMMA QuitProc ==
    ASSUME NEW p \in Process, Quit(p)
    PROVE  \E q \in Proc : proc' = [proc EXCEPT ![p] = q] /\ ProcOK(q) /\ q.at = "idle"
BY IdleFacts, IdleOK DEF Quit

\* A process that begins at point with the pull request i in hand.
Begun(point, i) == [Idle EXCEPT !.at = point, !.pr = i]

LEMMA BegunFacts ==
    ASSUME NEW point \in Point, NEW i \in Issue \union {0}
    PROVE  /\ Begun(point, i) \in Proc /\ Begun(point, i).at = point /\ Begun(point, i).pr = i
           /\ Begun(point, i).then = "idle" /\ Begun(point, i).found = {}
<1>1. PICK r : r = [Idle EXCEPT !.at = point]
  OBVIOUS
<1>2. r \in Proc /\ r.at = point /\ r.then = "idle" /\ r.found = {}
  BY <1>1, IdleFacts DEF Proc
<1>3. PICK q : q = [r EXCEPT !.pr = i]
  OBVIOUS
<1>4. q \in Proc /\ q.at = point /\ q.pr = i /\ q.then = "idle" /\ q.found = {}
  BY <1>2, <1>3 DEF Proc
<1>5. Begun(point, i) = q
  BY <1>1, <1>3 DEF Begun
<1> QED BY <1>4, <1>5

LEMMA ReturnProc ==
    ASSUME IInv, NEW p \in Process, Return(p),
           proc[p].at \in {"queue", "next", "claim", "spawn", "rollover", "rollover-auto", "advance"}
    PROVE  \E q \in Proc : proc' = [proc EXCEPT ![p] = q] /\ ProcOK(q) /\ q.at \in {"idle", "finish"}
<1>1. CASE proc[p].then = "idle"
  BY <1>1, QuitProc DEF Return
<1>2. CASE proc[p].then # "idle"
  <2>1. proc[p].then = "finish" /\ proc[p].pr \in Issue \union {0} /\ ProcOK(proc[p])
    BY <1>2, ProcFacts
  <2>2. "finish" \in Point
    BY DEF Point
  <2>3. PICK q \in Proc : /\ q = Begun("finish", proc[p].pr)
                          /\ q.at = "finish" /\ q.pr = proc[p].pr /\ q.then = "idle" /\ q.found = {}
    BY <2>1, <2>2, BegunFacts
  <2>4. proc' = [proc EXCEPT ![p] = q]
    BY <1>2, <2>3 DEF Return, Begun
  <2>5. ProcOK(q)
    BY <2>1, <2>3 DEF ProcOK
  <2> QED BY <2>3, <2>4, <2>5
<1> QED BY <1>1, <1>2

LEMMA CompleteProc ==
    ASSUME IInv, NEW p \in Process, Complete(p)
    PROVE  \E q \in Proc : /\ proc' = [proc EXCEPT ![p] = q]
                           /\ q.at = "complete" /\ q.pr = proc[p].pr /\ q.then = "idle" /\ q.found = {}
<1>1. proc[p].pr \in Issue \union {0} /\ "complete" \in Point
  BY ProcFacts DEF Point
<1>2. proc' = [proc EXCEPT ![p] = Begun("complete", proc[p].pr)]
  BY DEF Complete, Begun
<1> QED BY <1>1, <1>2, BegunFacts

------------------------------------------------------------------------------
(* Steps that only read                                                    *)

LEMMA QuitStep ==
    ASSUME IInv, NEW p \in Process, Quit(p), UNCHANGED <<store, github, rest>>
    PROVE  IInv'
BY QuitProc, LocalStep

LEMMA AbandonStep ==
    ASSUME IInv, NEW p \in Process, Abandon(p)
    PROVE  IInv'
BY QuitStep DEF Abandon

LEMMA DecideReadStep ==
    ASSUME IInv, NEW p \in Process, NEW at, NEW point, DecideRead(p, at, point),
           \/ at = "decide" /\ point = "decide-write"
           \/ at = "reject" /\ point = "reject-write"
           \/ at = "stay" /\ point = "stay-write"
           \/ at = "rollover-decide" /\ point = "rollover-write"
    PROVE  IInv'
<1>1. proc[p].at = at /\ UNCHANGED <<store, github, rest>>
  BY DEF DecideRead
<1>2. CASE Quit(p)
  BY <1>1, <1>2, QuitStep
<1>3. CASE Go(p, point)
  <2>1. point \in Point
    BY DEF Point
  <2>2. PICK q \in Proc : /\ proc' = [proc EXCEPT ![p] = q]
                          /\ q.at = point /\ q.pr = proc[p].pr /\ q.head = proc[p].head
                          /\ q.approval = proc[p].approval /\ q.found = proc[p].found
                          /\ q.issue = proc[p].issue /\ q.then = proc[p].then
    BY <1>3, <2>1, GoProc
  <2>3. ProcOK(q)
    BY <1>1, <2>2, ProcFacts DEF ProcOK
  <2> QED BY <1>1, <2>2, <2>3, LocalStep
<1> QED BY <1>2, <1>3 DEF DecideRead

LEMMA SupersedeReadStep ==
    ASSUME IInv, NEW p \in Process, NEW at, NEW keep, NEW point, SupersedeRead(p, at, keep, point),
           \/ at = "heads" /\ point = "heads-write"
           \/ at = "complete" /\ point = "complete-write"
    PROVE  IInv'
<1>1. proc[p].at = at /\ UNCHANGED <<store, github, rest>>
  BY DEF SupersedeRead
<1>2. PICK f : f = {a \in Pending("merge_pr") : approvals[a].of = proc[p].pr /\ approvals[a].head # keep}
  OBVIOUS
<1>3. PICK q : q = [proc[p] EXCEPT !.at = point, !.found = f] /\ proc' = [proc EXCEPT ![p] = q]
  BY <1>2 DEF SupersedeRead
<1>4. f \subseteq ApprovalId /\ \A a \in f : Known(a)
  BY <1>2 DEF Pending, Known
<1>5. /\ q.at = point /\ q.pr = proc[p].pr /\ q.head = proc[p].head
      /\ q.approval = proc[p].approval /\ q.found = f
      /\ q.issue = proc[p].issue /\ q.then = proc[p].then
  BY <1>3, ProcFacts DEF Proc
<1>6. q \in Proc
  <2> point \in Point
    BY DEF Point
  <2>1. PICK r : r = [proc[p] EXCEPT !.at = point]
    OBVIOUS
  <2>2. r \in Proc
    BY <2>1, ProcFacts DEF Proc
  <2>3. q = [r EXCEPT !.found = f]
    BY <1>3, <2>1
  <2> QED BY <1>4, <2>2, <2>3 DEF Proc
<1>7. ProcOK(q)
  BY <1>1, <1>4, <1>5, ProcFacts DEF ProcOK
<1> QED BY <1>1, <1>3, <1>5, <1>6, <1>7, LocalStep

LEMMA MonitorStartStep ==
    ASSUME IInv, MonitorStart
    PROVE  IInv'
<1> DEFINE point == IF settings.pr = 0 THEN "discover" ELSE "view"
<1>1. "monitor" \in Process /\ point \in {"discover", "view"} /\ point \in Point
      /\ (point = "view" <=> settings.pr # 0)
  BY DEF Process, Point
<1>2. proc["monitor"].at = "idle" /\ UNCHANGED <<store, github, rest>>
  BY DEF MonitorStart
<1>3. PICK q : /\ q = [proc["monitor"] EXCEPT !.at = point, !.pr = settings.pr]
               /\ proc' = [proc EXCEPT !["monitor"] = q]
  BY DEF MonitorStart
<1>4. settings.pr \in Issue \union {0}
  BY DEF IInv, TypeOK, Settings
<1>5. q.at = point /\ q.pr = settings.pr /\ q.then = proc["monitor"].then
      /\ q.found = proc["monitor"].found
  BY <1>1, <1>3, ProcFacts DEF Proc
<1> HIDE DEF point
<1>6. q \in Proc
  BY <1>1, <1>3, <1>4, ProcFacts DEF Proc
<1>7. point = "view" => Opened(settings.pr)
  BY <1>1 DEF IInv, TrackedOK
<1>8. ProcOK(q)
  <2>1. ProcOK(proc["monitor"]) /\ proc["monitor"].at = "idle"
    BY <1>1, <1>2, ProcFacts
  <2>2. /\ q.at \in {"discover", "view"} /\ (q.at = "view" => Opened(q.pr))
        /\ \A a \in q.found : Known(a)
        /\ q.then # "finish"
    BY <1>1, <1>5, <1>7, <2>1 DEF ProcOK
  <2> QED BY <2>2 DEF ProcOK
<1> QED BY <1>1, <1>2, <1>3, <1>5, <1>6, <1>8, LocalStep

\* A process goes on to a point at which it may rely on what it has.
LEMMA GoStep ==
    ASSUME IInv, NEW p \in Process, NEW point \in Point, Go(p, point),
           UNCHANGED <<store, github, rest>>, point # "spawn",
           \A q \in Proc :
              /\ q.at = point /\ q.pr = proc[p].pr /\ q.head = proc[p].head
              /\ q.approval = proc[p].approval /\ q.found = proc[p].found
              /\ q.issue = proc[p].issue /\ q.then = proc[p].then
              => ProcOK(q)
    PROVE  IInv'
<1>1. PICK q \in Proc : /\ proc' = [proc EXCEPT ![p] = q]
                        /\ q.at = point /\ q.pr = proc[p].pr /\ q.head = proc[p].head
                        /\ q.approval = proc[p].approval /\ q.found = proc[p].found
                        /\ q.issue = proc[p].issue /\ q.then = proc[p].then
  BY GoProc
<1> QED BY <1>1, LocalStep

LEMMA DiscoverStep ==
    ASSUME IInv, Discover
    PROVE  IInv'
<1>1. /\ "monitor" \in Process /\ proc["monitor"].at = "discover" /\ ProcOK(proc["monitor"])
      /\ UNCHANGED <<store, github, rest>>
  BY ProcFacts DEF Discover, Process
<1>2. CASE \E i \in Issue :
              /\ pulls[i] # Absent
              /\ proc' = [proc EXCEPT !["monitor"].pr = i, !["monitor"].at = "track"]
  <2>1. PICK i \in Issue : /\ pulls[i] # Absent
                           /\ proc' = [proc EXCEPT !["monitor"].pr = i, !["monitor"].at = "track"]
    BY <1>2
  <2>2. PICK q : /\ q = [proc["monitor"] EXCEPT !.pr = i, !.at = "track"]
                 /\ proc' = [proc EXCEPT !["monitor"] = q]
    BY <2>1
  <2>3. /\ q.at = "track" /\ q.pr = i /\ q.then = proc["monitor"].then
        /\ q.found = proc["monitor"].found
    BY <1>1, <2>2, ProcFacts DEF Proc
  <2>4. "track" \in Point
    BY DEF Point
  <2>5. q \in Proc
    BY <1>1, <2>2, <2>4, ProcFacts DEF Proc
  <2>6. ProcOK(q)
    BY <1>1, <2>1, <2>3 DEF ProcOK, Opened
  <2> QED BY <1>1, <2>2, <2>3, <2>5, <2>6, LocalStep
<1>3. CASE Go("monitor", "queue")
  <2>1. "queue" \in Point
    BY DEF Point
  <2> QED BY <1>1, <1>3, <2>1, GoStep DEF ProcOK
<1>4. CASE Quit("monitor")
  BY <1>1, <1>4, QuitStep
<1> QED BY <1>2, <1>3, <1>4 DEF Discover

LEMMA ViewStep ==
    ASSUME IInv, View
    PROVE  IInv'
<1>1. /\ "monitor" \in Process /\ proc["monitor"].at = "view" /\ ProcOK(proc["monitor"])
      /\ UNCHANGED <<store, github, rest>>
  BY ProcFacts DEF View, Process
<1>2. Opened(proc["monitor"].pr)
  BY <1>1 DEF ProcOK
<1>3. CASE pulls[proc["monitor"].pr].state = "MERGED" /\ Complete("monitor")
  <2>1. PICK q \in Proc :
           /\ proc' = [proc EXCEPT !["monitor"] = q]
           /\ q.at = "complete" /\ q.pr = proc["monitor"].pr /\ q.then = "idle" /\ q.found = {}
    BY <1>1, <1>3, CompleteProc
  <2>2. ProcOK(q)
    BY <1>2, <1>3, <2>1 DEF ProcOK, Merged
  <2> QED BY <1>1, <2>1, <2>2, LocalStep
<1>4. CASE Quit("monitor")
  BY <1>1, <1>4, QuitStep
<1>5. CASE Go("monitor", "paused")
  <2>1. "paused" \in Point
    BY DEF Point
  <2> QED BY <1>1, <1>5, <2>1, GoStep DEF ProcOK
<1>6. CASE proc' = [proc EXCEPT !["monitor"].head = pulls[proc["monitor"].pr].head,
                                !["monitor"].at = "heads"]
  <2>1. PICK h : h = pulls[proc["monitor"].pr].head
    OBVIOUS
  <2>2. h \in 1..MaxHead /\ h \in Nat
    <3>1. h \in 1..MaxHead
      BY <1>2, <2>1, OpenedPull DEF Pull
    <3> QED BY <3>1, QueueAssumption
  <2>3. PICK q : /\ q = [proc["monitor"] EXCEPT !.head = h, !.at = "heads"]
                 /\ proc' = [proc EXCEPT !["monitor"] = q]
    BY <1>6, <2>1
  <2>4. /\ q.at = "heads" /\ q.pr = proc["monitor"].pr /\ q.then = proc["monitor"].then
        /\ q.found = proc["monitor"].found /\ q.head = h
    BY <1>1, <2>3, ProcFacts DEF Proc
  <2>5. "heads" \in Point /\ h \in 0..MaxHead
    BY <2>2, QueueAssumption DEF Point
  <2>6. q \in Proc
    BY <1>1, <2>3, <2>5, ProcFacts DEF Proc
  <2>7. q.head <= pulls[q.pr].head
    BY <2>1, <2>2, <2>4
  <2>8. ProcOK(q)
    BY <1>1, <1>2, <2>4, <2>7 DEF ProcOK
  <2> QED BY <1>1, <2>3, <2>4, <2>6, <2>8, LocalStep
<1> QED BY <1>3, <1>4, <1>5, <1>6 DEF View

LEMMA ApproveStep ==
    ASSUME IInv, NEW p \in Process, Approve(p)
    PROVE  IInv'
<1>1. /\ proc[p].at = "approve" /\ ProcOK(proc[p]) /\ UNCHANGED <<store, github, rest>>
      /\ Known(proc[p].approval) /\ Is(proc[p].approval, "merge_pr")
  BY ProcFacts DEF Approve, ProcOK
<1>2. CASE Quit(p)
  BY <1>1, <1>2, QuitStep
<1>3. CASE proc' = [proc EXCEPT ![p].pr = approvals[proc[p].approval].of, ![p].at = "decide"]
  <2>1. PICK i : i = approvals[proc[p].approval].of
    OBVIOUS
  <2>2. i \in Issue
    BY <1>1, <2>1, NamedPull DEF Opened
  <2>3. PICK q : q = [proc[p] EXCEPT !.pr = i, !.at = "decide"] /\ proc' = [proc EXCEPT ![p] = q]
    BY <1>3, <2>1
  <2>4. /\ q.at = "decide" /\ q.pr = i /\ q.then = proc[p].then
        /\ q.found = proc[p].found /\ q.approval = proc[p].approval
    BY <2>3, ProcFacts DEF Proc
  <2>5. "decide" \in Point
    BY DEF Point
  <2>6. q \in Proc
    BY <2>2, <2>3, <2>5, ProcFacts DEF Proc
  <2>7. ProcOK(q)
    BY <1>1, <2>1, <2>4 DEF ProcOK
  <2> QED BY <1>1, <2>3, <2>4, <2>6, <2>7, LocalStep
<1> QED BY <1>2, <1>3 DEF Approve

LEMMA CompletedStep ==
    ASSUME IInv, NEW p \in Process, Completed(p)
    PROVE  IInv'
<1>1. /\ proc[p].at = "completed" /\ ProcOK(proc[p]) /\ UNCHANGED <<store, github, rest>>
      /\ "close" \in Point
  BY ProcFacts DEF Completed, Point
<1>2. CASE Quit(p)
  BY <1>1, <1>2, QuitStep
<1>3. CASE Go(p, "close")
  BY <1>1, <1>3, GoStep DEF ProcOK
<1> QED BY <1>2, <1>3 DEF Completed

LEMMA SlotStep ==
    ASSUME IInv, NEW p \in Process, Slot(p)
    PROVE  IInv'
<1> DEFINE point == IF settings.issue = proc[p].pr THEN "free" ELSE "queue"
<1>1. /\ proc[p].at = "slot" /\ ProcOK(proc[p]) /\ UNCHANGED <<store, github, rest>>
      /\ point \in Point /\ (point = "free" \/ (point = "queue" /\ settings.issue # proc[p].pr))
  BY ProcFacts DEF Slot, Point
<1>2. PICK q : /\ q = [proc[p] EXCEPT !.at = point, !.then = "finish"]
               /\ proc' = [proc EXCEPT ![p] = q]
  BY DEF Slot
<1>3. /\ q.at = point /\ q.pr = proc[p].pr /\ q.then = "finish" /\ q.found = proc[p].found
  BY <1>2, ProcFacts DEF Proc
<1> HIDE DEF point
<1>4. q \in Proc
  BY <1>1, <1>2, ProcFacts DEF Proc
<1>5. ProcOK(q)
  BY <1>1, <1>3 DEF ProcOK
<1> QED BY <1>1, <1>2, <1>3, <1>4, <1>5, LocalStep

LEMMA ReturnStep ==
    ASSUME IInv, NEW p \in Process, Return(p), UNCHANGED <<store, github, rest>>,
           proc[p].at \in {"queue", "next", "claim", "spawn", "rollover", "rollover-auto", "advance"}
    PROVE  IInv'
<1>1. PICK q \in Proc : proc' = [proc EXCEPT ![p] = q] /\ ProcOK(q) /\ q.at \in {"idle", "finish"}
  BY ReturnProc
<1>2. q.at # "spawn"
  BY <1>1
<1> QED BY <1>1, <1>2, LocalStep

LEMMA QueueStep ==
    ASSUME IInv, NEW p \in Process, Queue(p)
    PROVE  IInv'
<1>1. proc[p].at = "queue" /\ ProcOK(proc[p]) /\ UNCHANGED <<store, github, rest>> /\ "next" \in Point
  BY ProcFacts DEF Queue, Point
<1>2. CASE Return(p)
  BY <1>1, <1>2, ReturnStep
<1>3. CASE proc' = [proc EXCEPT ![p].at = "next", ![p].actor = "", ![p].milestone = settings.milestone]
  <2>1. PICK m \in 1..Milestones : m = settings.milestone
    BY DEF IInv, TypeOK, Settings
  <2>2. m \in 0..Milestones
    BY QueueAssumption
  <2>3. PICK q : /\ q = [proc[p] EXCEPT !.at = "next", !.actor = "", !.milestone = m]
                 /\ proc' = [proc EXCEPT ![p] = q]
    BY <1>3, <2>1
  <2>4. q.at = "next" /\ q.pr = proc[p].pr /\ q.then = proc[p].then /\ q.found = proc[p].found
    BY <2>3, ProcFacts DEF Proc
  <2>5. q \in Proc
    BY <1>1, <2>2, <2>3, ProcFacts DEF Proc
  <2>6. ProcOK(q)
    BY <1>1, <2>4 DEF ProcOK
  <2> QED BY <1>1, <2>3, <2>4, <2>5, <2>6, LocalStep
<1> QED BY <1>2, <1>3 DEF Queue

LEMMA NextIssueStep ==
    ASSUME IInv, NEW p \in Process, NextIssue(p)
    PROVE  IInv'
<1>1. /\ proc[p].at = "next" /\ ProcOK(proc[p]) /\ UNCHANGED <<store, github, rest>>
      /\ "claim" \in Point /\ "rollover" \in Point /\ 0 \in 0..Milestones
  <2>1. "claim" \in Point /\ "rollover" \in Point
    BY DEF Point
  <2>2. 0 \in 0..Milestones
    BY QueueAssumption
  <2> QED BY <2>1, <2>2, ProcFacts DEF NextIssue
<1>2. CASE \E i \in Issue : proc' = [proc EXCEPT ![p].issue = i, ![p].at = "claim", ![p].milestone = 0]
  <2>1. PICK i \in Issue : proc' = [proc EXCEPT ![p].issue = i, ![p].at = "claim", ![p].milestone = 0]
    BY <1>2
  <2>2. PICK q : /\ q = [proc[p] EXCEPT !.issue = i, !.at = "claim", !.milestone = 0]
                 /\ proc' = [proc EXCEPT ![p] = q]
    BY <2>1
  <2>3. /\ q.at = "claim" /\ q.pr = proc[p].pr /\ q.then = proc[p].then /\ q.found = proc[p].found
        /\ q.issue = i
    BY <2>2, ProcFacts DEF Proc
  <2>4. q \in Proc
    BY <1>1, <2>2, ProcFacts DEF Proc
  <2>5. ProcOK(q)
    BY <1>1, <2>3 DEF ProcOK
  <2> QED BY <1>1, <2>2, <2>3, <2>4, <2>5, LocalStep
<1>3. CASE proc' = [proc EXCEPT ![p].at = "rollover", ![p].milestone = 0]
  <2>1. PICK q : /\ q = [proc[p] EXCEPT !.at = "rollover", !.milestone = 0]
                 /\ proc' = [proc EXCEPT ![p] = q]
    BY <1>3
  <2>2. q.at = "rollover" /\ q.pr = proc[p].pr /\ q.then = proc[p].then /\ q.found = proc[p].found
    BY <2>1, ProcFacts DEF Proc
  <2>3. q \in Proc
    BY <1>1, <2>1, ProcFacts DEF Proc
  <2>4. ProcOK(q)
    BY <1>1, <2>2 DEF ProcOK
  <2> QED BY <1>1, <2>1, <2>2, <2>3, <2>4, LocalStep
<1> QED BY <1>2, <1>3 DEF NextIssue, Eligible

LEMMA RolloverAutoStep ==
    ASSUME IInv, NEW p \in Process, RolloverAuto(p)
    PROVE  IInv'
<1>1. /\ proc[p].at = "rollover-auto" /\ ProcOK(proc[p]) /\ UNCHANGED <<store, github, rest>>
      /\ "rollover-decide" \in Point
  BY ProcFacts DEF RolloverAuto, Point
<1>2. CASE Return(p)
  BY <1>1, <1>2, ReturnStep
<1>3. CASE Go(p, "rollover-decide")
  BY <1>1, <1>3, GoStep DEF ProcOK
<1> QED BY <1>2, <1>3 DEF RolloverAuto

LEMMA TransitionStep ==
    ASSUME IInv, NEW p \in Process, Transition(p)
    PROVE  IInv'
<1>1. /\ proc[p].at = "transition" /\ ProcOK(proc[p]) /\ UNCHANGED <<store, github, rest>>
      /\ "advance" \in Point
  BY ProcFacts DEF Transition, Point
<1>2. CASE Quit(p)
  BY <1>1, <1>2, QuitStep
<1>3. CASE CanRollOver(approvals[proc[p].approval].of) /\ Go(p, "advance")
  <2>1. approvals[proc[p].approval].of < Milestones /\ Done(approvals[proc[p].approval].of)
    BY <1>3 DEF CanRollOver
  <2> QED BY <1>1, <1>3, <2>1, GoStep DEF ProcOK
<1> QED BY <1>2, <1>3 DEF Transition

\* A command begins with the approval that it names.
LEMMA CommandStep ==
    ASSUME IInv, NEW point \in {"approve", "reject", "rollover-decide", "stay", "queue"},
           NEW a \in ApprovalId \union {Absent}, NEW actor \in {"", "start-next"},
           Command(point, a, actor),
           point # "queue" => Known(a), point = "approve" => Is(a, "merge_pr")
    PROVE  IInv'
<1>1. "listener" \in Process /\ point \in Point /\ UNCHANGED <<store, github, rest>>
  BY DEF Command, Process, Point
<1>2. PICK q : /\ q = [Idle EXCEPT !.at = point, !.approval = a, !.actor = actor]
               /\ proc' = [proc EXCEPT !["listener"] = q]
  BY DEF Command
<1>3. q.at = point /\ q.approval = a /\ q.then = "idle" /\ q.found = {}
  BY <1>2, IdleFacts DEF Proc
<1>4. q \in Proc
  BY <1>1, <1>2, IdleFacts DEF Proc
<1>5. ProcOK(q)
  BY <1>3 DEF ProcOK
<1> QED BY <1>1, <1>2, <1>3, <1>4, <1>5, LocalStep

LEMMA OperatorStep ==
    ASSUME IInv, \/ StartNext
                 \/ \E a \in ApprovalId : ApproveCommand(a) \/ RejectCommand(a) \/ AdvanceCommand(a)
                                          \/ Press(a)
    PROVE  IInv'
<1>1. CASE StartNext
  BY <1>1, CommandStep DEF StartNext
<1>2. ASSUME NEW a \in ApprovalId, ApproveCommand(a) PROVE IInv'
  BY <1>2, CommandStep DEF ApproveCommand, Is, Known
<1>3. ASSUME NEW a \in ApprovalId, RejectCommand(a) PROVE IInv'
  BY <1>3, CommandStep DEF RejectCommand, Known
<1>4. ASSUME NEW a \in ApprovalId, AdvanceCommand(a) PROVE IInv'
  <2>1. a \in Current("milestone_rollover") /\ Command("rollover-decide", a, "")
    BY <1>4 DEF AdvanceCommand
  <2>2. Known(a)
    BY <2>1 DEF Current, Pending, Known
  <2> QED BY <2>1, <2>2, CommandStep
<1>5. ASSUME NEW a \in ApprovalId, Press(a) PROVE IInv'
  <2>1. Known(a) /\ approvals[a].action \in {"merge_pr", "milestone_rollover"}
    BY <1>5, NamedPull DEF Press, Known, Approval
  <2>2. PICK point \in Buttons[approvals[a].action] : Command(point, a, "")
    BY <1>5 DEF Press
  <2>3. CASE approvals[a].action = "merge_pr"
    <3>1. Command("approve", a, "") \/ Command("reject", a, "")
      <4>1. point \in Buttons["merge_pr"]
        BY <2>3
      <4>2. point \in {"approve", "reject"}
        BY <4>1 DEF Buttons
      <4> QED BY <2>2, <4>2
    <3>2. Is(a, "merge_pr")
      BY <2>1, <2>3 DEF Is, Known
    <3>3. CASE Command("approve", a, "")
      BY <2>1, <3>2, <3>3, CommandStep
    <3>4. CASE Command("reject", a, "")
      BY <2>1, <3>4, CommandStep
    <3> QED BY <3>1, <3>3, <3>4
  <2>4. CASE approvals[a].action = "milestone_rollover"
    <3>1. Command("rollover-decide", a, "") \/ Command("stay", a, "")
      <4>1. point \in Buttons["milestone_rollover"]
        BY <2>4
      <4>2. point \in {"rollover-decide", "stay"}
        BY <4>1 DEF Buttons
      <4> QED BY <2>2, <4>2
    <3>2. CASE Command("rollover-decide", a, "")
      BY <2>1, <3>2, CommandStep
    <3>3. CASE Command("stay", a, "")
      BY <2>1, <3>3, CommandStep
    <3> QED BY <3>1, <3>2, <3>3
  <2> QED BY <2>1, <2>3, <2>4
<1> QED BY <1>1, <1>2, <1>3, <1>4, <1>5

------------------------------------------------------------------------------
(* Steps that write settings                                               *)

LEMMA FlagSet ==
    ASSUME IInv, NEW key \in {"paused", "once", "error"}, NEW b \in BOOLEAN, Set(key, b)
    PROVE  /\ settings' \in Settings /\ settings'.issue = settings.issue
           /\ settings'.pr = settings.pr /\ settings'.milestone = settings.milestone
<1>1. PICK s \in Settings : s = settings
  BY DEF IInv, TypeOK
<1>2. PICK t : t = [s EXCEPT ![key] = b]
  OBVIOUS
<1>3. t.issue = s.issue /\ t.pr = s.pr /\ t.milestone = s.milestone
  BY <1>2 DEF Settings
<1>4. t \in Settings
  BY <1>2, Zenon DEF Settings
<1> QED BY <1>1, <1>2, <1>3, <1>4 DEF Set

LEMMA NumberSet ==
    ASSUME IInv, NEW key \in {"issue", "pr", "toClose"}, NEW n \in Issue \union {0}, Set(key, n)
    PROVE  /\ settings' \in Settings /\ settings'.milestone = settings.milestone
           /\ settings'.issue = IF key = "issue" THEN n ELSE settings.issue
           /\ settings'.pr = IF key = "pr" THEN n ELSE settings.pr
<1>1. PICK s \in Settings : s = settings
  BY DEF IInv, TypeOK
<1>2. PICK t : t = [s EXCEPT ![key] = n]
  OBVIOUS
<1>3. /\ t.milestone = s.milestone
      /\ t.issue = IF key = "issue" THEN n ELSE s.issue
      /\ t.pr = IF key = "pr" THEN n ELSE s.pr
  BY <1>2 DEF Settings
<1>4. t \in Settings
  BY <1>2 DEF Settings
<1> QED BY <1>1, <1>2, <1>3, <1>4 DEF Set

LEMMA PullsSame ==
    ASSUME IInv, pulls' = pulls
    PROVE  PullsKept
<1>1. \A i \in Issue : pulls[i] # Absent => pulls[i].head \in Nat
  BY QueueAssumption DEF IInv, TypeOK, Pull
<1> QED BY <1>1 DEF PullsKept

LEMMA ApprovalsSame ==
    ASSUME approvals' = approvals
    PROVE  ApprovalsKept
BY DEF ApprovalsKept

\* A step that writes settings and the variables of its process.
LEMMA SettingsStep ==
    ASSUME IInv, NEW p \in Process, NEW q \in Proc, proc' = [proc EXCEPT ![p] = q],
           UNCHANGED <<selected, recorded, approvals, github, rest>>, given' \subseteq Issue,
           settings' \in Settings, settings'.issue \in {settings.issue, 0},
           settings'.pr \in {settings.pr, 0} \/ Opened(settings'.pr),
           q.at # "spawn", ProcOK(q) \/ ProcOK(q)'
    PROVE  IInv'
<1>1. UNCHANGED <<policy, selected, recorded, approvals, issues, pulls, closed, runs, merger>>
  BY DEF github, rest
<1>2. Kept
  BY <1>1, PullsSame, ApprovalsSame DEF Kept
<1>3. TypeOK'
  BY <1>1 DEF IInv, TypeOK
<1>4. TrackedOK'
  BY <1>1, <1>2, StoreFrame DEF TrackedOK, Opened
<1>5. ApprovalsOK' /\ StartsOK' /\ MergesOK' /\ RecordedOK'
  BY <1>1, <1>2, StoreFrame
<1>6. ProcOK(q)'
  BY <1>1, <1>2, ProcFrame
<1> QED BY <1>1, <1>2, <1>3, <1>4, <1>5, <1>6, ProcessStep

LEMMA TrackStep ==
    ASSUME IInv, Track
    PROVE  IInv'
<1>1. /\ "monitor" \in Process /\ proc["monitor"].at = "track" /\ "view" \in Point
      /\ ProcOK(proc["monitor"]) /\ proc["monitor"].pr \in Issue \union {0}
      /\ Set("pr", proc["monitor"].pr) /\ Go("monitor", "view")
      /\ UNCHANGED <<selected, recorded, given, approvals, github, rest>>
  BY ProcFacts DEF Track, Process, Point
<1>2. PICK q \in Proc : /\ proc' = [proc EXCEPT !["monitor"] = q]
                        /\ q.at = "view" /\ q.pr = proc["monitor"].pr /\ q.then = proc["monitor"].then
                        /\ q.found = proc["monitor"].found
  BY <1>1, GoProc
<1>3. Opened(proc["monitor"].pr) /\ ProcOK(q)
  BY <1>1, <1>2 DEF ProcOK
<1>4. PICK i \in Issue \union {0} : i = proc["monitor"].pr
  BY <1>1
<1>5. settings' \in Settings /\ settings'.issue = settings.issue /\ settings'.pr = i
  <2>1. Set("pr", i)
    BY <1>1, <1>4
  <2> QED BY <2>1, NumberSet
<1>6. given' \subseteq Issue
  BY <1>1 DEF IInv, TypeOK
<1> QED BY <1>1, <1>2, <1>3, <1>4, <1>5, <1>6, SettingsStep

LEMMA PauseStep ==
    ASSUME IInv, Pause
    PROVE  IInv'
<1>1. /\ "monitor" \in Process /\ Opened(proc["monitor"].pr) /\ Quit("monitor")
      /\ given' = given \union {proc["monitor"].pr} /\ Set("paused", TRUE)
      /\ UNCHANGED <<selected, recorded, approvals, github, rest>>
  BY ProcFacts DEF Pause, Process, ProcOK
<1>2. settings' \in Settings /\ settings'.issue = settings.issue /\ settings'.pr = settings.pr
  BY <1>1, FlagSet
<1>3. given' \subseteq Issue
  BY <1>1 DEF IInv, TypeOK, Opened
<1>4. PICK q \in Proc : proc' = [proc EXCEPT !["monitor"] = q] /\ ProcOK(q) /\ q.at = "idle"
  BY <1>1, QuitProc
<1> QED BY <1>1, <1>2, <1>3, <1>4, SettingsStep

\* A step that gives up and, perhaps, sets a flag.
LEMMA FlagQuitStep ==
    ASSUME IInv, NEW p \in Process, NEW key \in {"paused", "once", "error"}, NEW b \in BOOLEAN,
           Set(key, b), Quit(p),
           UNCHANGED <<selected, recorded, given, approvals, github, rest>>
    PROVE  IInv'
<1>1. settings' \in Settings /\ settings'.issue = settings.issue /\ settings'.pr = settings.pr
  BY FlagSet
<1>2. given' \subseteq Issue
  BY DEF IInv, TypeOK
<1>3. PICK q \in Proc : proc' = [proc EXCEPT ![p] = q] /\ ProcOK(q) /\ q.at = "idle"
  BY QuitProc
<1> QED BY <1>1, <1>2, <1>3, SettingsStep

LEMMA StayStep ==
    ASSUME IInv, Stay
    PROVE  IInv'
BY FlagQuitStep DEF Stay, Process

LEMMA FreeStep ==
    ASSUME IInv, NEW p \in Process, Free(p)
    PROVE  IInv'
<1>1. /\ proc[p].at = "free" /\ "queue" \in Point /\ ProcOK(proc[p]) /\ Set("issue", 0) /\ Go(p, "queue")
      /\ UNCHANGED <<selected, recorded, given, approvals, github, rest>>
  BY ProcFacts DEF Free, Point
<1>2. settings' \in Settings /\ settings'.issue = 0 /\ settings'.pr = settings.pr
  BY <1>1, NumberSet
<1>3. given' \subseteq Issue
  BY <1>1 DEF IInv, TypeOK
<1>4. PICK q \in Proc : /\ proc' = [proc EXCEPT ![p] = q]
                        /\ q.at = "queue" /\ q.pr = proc[p].pr /\ q.then = proc[p].then
                        /\ q.found = proc[p].found
  BY <1>1, GoProc
<1>5. Merged(q.pr) /\ CloseDone(q.pr) /\ \A a \in q.found : Known(a)
  BY <1>1, <1>4 DEF ProcOK
<1>6. q.pr # 0
  BY <1>5, QueueAssumption DEF Merged, Opened
<1>7. ProcOK(q)'
  <2>1. UNCHANGED <<policy, approvals, pulls, issues>>
    BY <1>1 DEF github, rest
  <2>2. Merged(q.pr)' /\ CloseDone(q.pr)' /\ \A a \in q.found : Known(a)'
    BY <1>5, <2>1 DEF Merged, Opened, CloseDone, Known
  <2> QED BY <1>2, <1>4, <1>6, <2>2 DEF ProcOK
<1> QED BY <1>1, <1>2, <1>3, <1>4, <1>7, SettingsStep

LEMMA FinishStep ==
    ASSUME IInv, NEW p \in Process, Finish(p)
    PROVE  IInv'
<1>1. /\ proc[p].at = "finish" /\ "record" \in Point /\ ProcOK(proc[p]) /\ Set("pr", 0) /\ Go(p, "record")
      /\ UNCHANGED <<selected, recorded, given, approvals, github, rest>>
  BY ProcFacts DEF Finish, Point
<1>2. settings' \in Settings /\ settings'.issue = settings.issue /\ settings'.pr = 0
  BY <1>1, NumberSet
<1>3. given' \subseteq Issue
  BY <1>1 DEF IInv, TypeOK
<1>4. PICK q \in Proc : /\ proc' = [proc EXCEPT ![p] = q]
                        /\ q.at = "record" /\ q.pr = proc[p].pr /\ q.then = proc[p].then
                        /\ q.found = proc[p].found
  BY <1>1, GoProc
<1>5. ProcOK(q)
  BY <1>1, <1>4 DEF ProcOK
<1> QED BY <1>1, <1>2, <1>3, <1>4, <1>5, SettingsStep

\* An approval or a command changes nothing but settings and its process.
LEMMA OfferedStep ==
    ASSUME IInv, Offered
    PROVE  IInv'
<1>1. /\ "monitor" \in Process /\ "approve" \in Point /\ proc["monitor"].at = "offered"
      /\ ProcOK(proc["monitor"])
      /\ UNCHANGED <<selected, recorded, given, approvals, github, rest>>
  BY ProcFacts DEF Offered, Process, Point
<1>2. CASE /\ proc' = [proc EXCEPT !["monitor"].at = "approve", !["monitor"].actor = "autonomy"]
           /\ UNCHANGED settings
  <2>1. PICK q : /\ q = [proc["monitor"] EXCEPT !.at = "approve", !.actor = "autonomy"]
                 /\ proc' = [proc EXCEPT !["monitor"] = q]
    BY <1>2
  <2>2. /\ q.at = "approve" /\ q.then = proc["monitor"].then /\ q.found = proc["monitor"].found
        /\ q.approval = proc["monitor"].approval
    BY <1>1, <2>1, ProcFacts DEF Proc
  <2>3. q \in Proc
    BY <1>1, <2>1, ProcFacts DEF Proc
  <2>4. ProcOK(q)
    BY <1>1, <2>2 DEF ProcOK
  <2>5. UNCHANGED <<store, github, rest>>
    BY <1>1, <1>2 DEF store
  <2> QED BY <1>1, <2>1, <2>2, <2>3, <2>4, <2>5, LocalStep
<1>3. CASE Set("once", FALSE) /\ Go("monitor", "approve")
  <2>1. settings' \in Settings /\ settings'.issue = settings.issue /\ settings'.pr = settings.pr
    BY <1>3, FlagSet
  <2>2. given' \subseteq Issue
    BY <1>1 DEF IInv, TypeOK
  <2>3. PICK q \in Proc : /\ proc' = [proc EXCEPT !["monitor"] = q]
                          /\ q.at = "approve" /\ q.then = proc["monitor"].then
                          /\ q.found = proc["monitor"].found /\ q.approval = proc["monitor"].approval
    BY <1>1, <1>3, GoProc
  <2>4. ProcOK(q)
    BY <1>1, <2>3 DEF ProcOK
  <2> QED BY <1>1, <2>1, <2>2, <2>3, <2>4, SettingsStep
<1>4. CASE Quit("monitor") /\ UNCHANGED settings
  <2>1. UNCHANGED <<store, github, rest>>
    BY <1>1, <1>4 DEF store
  <2> QED BY <1>1, <1>4, <2>1, QuitStep
<1> QED BY <1>2, <1>3, <1>4 DEF Offered

LEMMA ReverifyStep ==
    ASSUME IInv, NEW p \in Process, Reverify(p)
    PROVE  IInv'
<1>1. /\ proc[p].at = "reverify" /\ ProcOK(proc[p]) /\ "merge" \in Point
      /\ UNCHANGED <<selected, recorded, given, approvals, github, rest>>
  BY ProcFacts DEF Reverify, Point
<1>2. CASE /\ Allowed(p) /\ UNCHANGED settings
           /\ proc' = [proc EXCEPT ![p].at = "merge", ![p].actor = ""]
  <2>1. PICK q : /\ q = [proc[p] EXCEPT !.at = "merge", !.actor = ""]
                 /\ proc' = [proc EXCEPT ![p] = q]
    BY <1>2
  <2>2. /\ q.at = "merge" /\ q.then = proc[p].then /\ q.found = proc[p].found
        /\ q.approval = proc[p].approval /\ q.pr = proc[p].pr
    BY <2>1, ProcFacts DEF Proc
  <2>3. q \in Proc
    BY <1>1, <2>1, ProcFacts DEF Proc
  <2>4. Ready(proc[p].approval)
    BY <1>2 DEF Allowed, Mergeable, Ready
  <2>5. ProcOK(q)
    BY <1>1, <2>2, <2>4 DEF ProcOK
  <2>6. UNCHANGED <<store, github, rest>>
    BY <1>1, <1>2 DEF store
  <2> QED BY <2>1, <2>2, <2>3, <2>5, <2>6, LocalStep
<1>3. CASE Quit(p) /\ Set("error", TRUE)
  BY <1>1, <1>3, FlagQuitStep
<1> QED BY <1>2, <1>3 DEF Reverify

LEMMA AdvanceStep ==
    ASSUME IInv, NEW p \in Process, Advance(p)
    PROVE  IInv'
<1>1. /\ proc[p].at = "advance" /\ ProcOK(proc[p]) /\ "queue" \in Point
      /\ UNCHANGED <<selected, recorded, given, approvals, github, rest>>
  BY ProcFacts DEF Advance, Point
<1>2. PICK m : m = approvals[proc[p].approval].of
  OBVIOUS
<1>3. CASE /\ StillCurrent(m)
           /\ settings' = [settings EXCEPT !.milestone = NextMilestone(m), !.error = FALSE]
           /\ proc' = [proc EXCEPT ![p].at = "queue", ![p].approval = Absent]
  <2>1. m \in 1..Milestones /\ m < Milestones
    BY <1>1, <1>2, <1>3 DEF IInv, TypeOK, Settings, StillCurrent, ProcOK
  <2>2. PICK n : n = NextMilestone(m) /\ n \in 1..Milestones
    BY <2>1, QueueAssumption DEF NextMilestone
  <2>3. PICK s \in Settings : s = settings
    BY DEF IInv, TypeOK
  <2>4. PICK t : t = [s EXCEPT !.milestone = n]
    OBVIOUS
  <2>5. t \in Settings /\ t.issue = s.issue /\ t.pr = s.pr
    BY <2>2, <2>4 DEF Settings
  <2>6. PICK u : u = [t EXCEPT !.error = FALSE]
    OBVIOUS
  <2>7. u.issue = t.issue /\ u.pr = t.pr
    BY <2>5, <2>6 DEF Settings
  <2>8. u \in Settings
    BY <2>5, <2>6, Zenon DEF Settings
  <2>9. settings' = u
    BY <1>3, <2>2, <2>3, <2>4, <2>6
  <2>10. PICK q : /\ q = [proc[p] EXCEPT !.at = "queue", !.approval = Absent]
                  /\ proc' = [proc EXCEPT ![p] = q]
    BY <1>3
  <2>11. q.at = "queue" /\ q.then = proc[p].then /\ q.found = proc[p].found /\ q.pr = proc[p].pr
    BY <2>10, ProcFacts DEF Proc
  <2>12. q \in Proc
    BY <1>1, <2>10, ProcFacts DEF Proc
  <2>13. ProcOK(q)
    BY <1>1, <2>11 DEF ProcOK
  <2>14. given' \subseteq Issue
    BY <1>1 DEF IInv, TypeOK
  <2> QED BY <1>1, <2>3, <2>5, <2>7, <2>8, <2>9, <2>10, <2>11, <2>12, <2>13, <2>14, SettingsStep
<1>4. CASE Return(p) /\ UNCHANGED settings
  <2>1. UNCHANGED <<store, github, rest>>
    BY <1>1, <1>4 DEF store
  <2> QED BY <1>1, <1>4, <2>1, ReturnStep
<1> QED BY <1>2, <1>3, <1>4 DEF Advance

\* A rollover that is blocked is an error.
LEMMA BlockedStep ==
    ASSUME IInv, NEW p \in Process, NEW b \in BOOLEAN, Return(p), proc[p].at = "rollover",
           settings' = [settings EXCEPT !.error = @ \/ b],
           UNCHANGED <<selected, recorded, given, approvals, github, rest>>
    PROVE  IInv'
<1>1. PICK c \in BOOLEAN : c = (settings.error \/ b)
  OBVIOUS
<1>2. Set("error", c)
  BY <1>1, Zenon DEF Set
<1>3. settings' \in Settings /\ settings'.issue = settings.issue /\ settings'.pr = settings.pr
  BY <1>2, FlagSet
<1>4. given' \subseteq Issue
  BY DEF IInv, TypeOK
<1>5. PICK q \in Proc : proc' = [proc EXCEPT ![p] = q] /\ ProcOK(q) /\ q.at \in {"idle", "finish"}
  BY ReturnProc
<1>6. q.at # "spawn"
  BY <1>5
<1> QED BY <1>3, <1>4, <1>5, <1>6, SettingsStep

LEMMA SwitchStep ==
    ASSUME IInv, NEW key \in {"paused", "once"}, Switch(key)
    PROVE  IInv'
<1>1. /\ "listener" \in Process /\ proc["listener"].at = "idle"
      /\ UNCHANGED <<selected, recorded, given, approvals, proc, github, rest>>
  BY DEF Switch, Process
<1>2. PICK b \in BOOLEAN : Set(key, b)
  <2>1. settings[key] \in BOOLEAN
    BY DEF IInv, TypeOK, Settings
  <2> QED BY <2>1, Zenon DEF Switch
<1>3. settings' \in Settings /\ settings'.issue = settings.issue /\ settings'.pr = settings.pr
  BY <1>2, FlagSet
<1>4. given' \subseteq Issue
  BY <1>1 DEF IInv, TypeOK
<1>5. PICK q \in Proc : q = proc["listener"]
  BY <1>1, ProcFacts
<1>6. ProcOK(q) /\ q.at # "spawn" /\ proc' = [proc EXCEPT !["listener"] = q]
  BY <1>1, <1>5 DEF IInv, TypeOK
<1> QED BY <1>1, <1>3, <1>4, <1>6, SettingsStep

------------------------------------------------------------------------------
(* Steps that write approvals                                              *)

LEMMA ApprovalsStep ==
    ASSUME IInv, NEW p \in Process, NEW q \in Proc, proc' = [proc EXCEPT ![p] = q],
           UNCHANGED <<settings, selected, recorded, given, github, rest>>,
           approvals' \in [ApprovalId -> Approval \union {Absent}], ApprovalsKept, ApprovalsOK',
           q.at # "spawn", ProcOK(q) \/ ProcOK(q)'
    PROVE  IInv'
<1>1. UNCHANGED <<policy, settings, selected, recorded, given, issues, pulls, closed, runs, merger>>
  BY DEF github, rest
<1>2. Kept
  BY <1>1, PullsSame DEF Kept
<1>3. TypeOK'
  BY <1>1 DEF IInv, TypeOK
<1>4. TrackedOK' /\ StartsOK' /\ MergesOK' /\ RecordedOK'
  BY <1>1, <1>2, StoreFrame
<1>5. ProcOK(q)'
  BY <1>1, <1>2, ProcFrame
<1> QED BY <1>1, <1>2, <1>3, <1>4, <1>5, ProcessStep

\* A decision, an expiry: the state of one approval.
LEMMA StateSet ==
    ASSUME IInv, NEW a, Known(a), NEW decision \in {"approved", "rejected", "expired"},
           approvals' = [approvals EXCEPT ![a].state = decision], UNCHANGED pulls
    PROVE  /\ approvals' \in [ApprovalId -> Approval \union {Absent}] /\ ApprovalsKept /\ ApprovalsOK'
           /\ \A b \in ApprovalId : approvals'[b] # Absent => approvals[b] # Absent
<1>1. a \in ApprovalId /\ approvals[a] \in Approval
  BY NamedPull DEF Known
<1>2. PICK u : u = [approvals[a] EXCEPT !.state = decision]
  OBVIOUS
<1>3. u \in Approval /\ u.action = approvals[a].action /\ u.of = approvals[a].of
      /\ u.head = approvals[a].head
  BY <1>1, <1>2 DEF Approval
<1>4. u # Absent
  BY <1>3, AbsentAssumption
<1>5. approvals' = [approvals EXCEPT ![a] = u]
  BY <1>2
<1>6. approvals'[a] = u /\ \A b \in ApprovalId : b # a => approvals'[b] = approvals[b]
  BY <1>1, <1>5 DEF IInv, TypeOK
<1>7. approvals' \in [ApprovalId -> Approval \union {Absent}]
  BY <1>3, <1>5 DEF IInv, TypeOK
<1>8. ApprovalsKept
  BY <1>3, <1>4, <1>6 DEF ApprovalsKept
<1>9. \A b \in ApprovalId : approvals'[b] # Absent => approvals[b] # Absent
  BY <1>6 DEF Known
<1>10. ApprovalsOK'
  BY <1>3, <1>6 DEF IInv, ApprovalsOK, Is, Opened, Known
<1> QED BY <1>7, <1>8, <1>9, <1>10

LEMMA DecideWriteStep ==
    ASSUME IInv, NEW p \in Process, NEW at, NEW decision \in {"approved", "rejected"}, NEW point,
           DecideWrite(p, at, decision, point),
           \/ at = "decide-write" /\ point = "reverify"
           \/ at = "reject-write" /\ point = "idle"
           \/ at = "stay-write" /\ point = "stayed"
           \/ at = "rollover-write" /\ point = "transition"
    PROVE  IInv'
<1>1. /\ proc[p].at = at /\ ProcOK(proc[p]) /\ point \in Point
      /\ approvals' = [approvals EXCEPT ![proc[p].approval].state = decision]
      /\ UNCHANGED <<settings, selected, recorded, given, github, rest>>
  BY ProcFacts DEF DecideWrite, Point
<1>2. PICK a : a = proc[p].approval
  OBVIOUS
<1>3. Known(a)
  BY <1>1, <1>2 DEF ProcOK
<1>4. approvals' = [approvals EXCEPT ![a].state = decision] /\ UNCHANGED pulls
  BY <1>1, <1>2 DEF github
<1>5. approvals' \in [ApprovalId -> Approval \union {Absent}] /\ ApprovalsKept /\ ApprovalsOK'
  BY <1>3, <1>4, StateSet
<1>6. PICK q \in Proc : proc' = [proc EXCEPT ![p] = q] /\ ProcOK(q) /\ q.at # "spawn"
  <2>1. CASE Quit(p)
    BY <2>1, QuitProc
  <2>2. CASE Go(p, point) /\ point # "idle"
    <3>1. PICK q \in Proc : /\ proc' = [proc EXCEPT ![p] = q]
                            /\ q.at = point /\ q.pr = proc[p].pr /\ q.head = proc[p].head
                            /\ q.approval = proc[p].approval /\ q.found = proc[p].found
                            /\ q.issue = proc[p].issue /\ q.then = proc[p].then
      BY <1>1, <2>2, GoProc
    <3>2. ProcOK(q) /\ q.at # "spawn"
      BY <1>1, <2>2, <3>1 DEF ProcOK
    <3> QED BY <3>1, <3>2
  <2> QED BY <2>1, <2>2 DEF DecideWrite
<1> QED BY <1>1, <1>5, <1>6, ApprovalsStep

LEMMA SupersedeWriteStep ==
    ASSUME IInv, NEW p \in Process, NEW at, NEW point, SupersedeWrite(p, at, point),
           \/ at = "heads-write" /\ point = "offer"
           \/ at = "complete-write" /\ point = "completed"
    PROVE  IInv'
<1>1. /\ proc[p].at = at /\ ProcOK(proc[p])
      /\ UNCHANGED <<settings, selected, recorded, given, github, rest>> /\ UNCHANGED pulls
  BY ProcFacts DEF SupersedeWrite, github
<1>2. PICK f \in SUBSET ApprovalId : f = proc[p].found /\ \A a \in f : Known(a)
  BY <1>1, ProcFacts DEF ProcOK
<1>3. approvals' = [a \in ApprovalId |-> IF a \in f
                        THEN [approvals[a] EXCEPT !.state = "superseded"] ELSE approvals[a]]
  BY <1>2 DEF SupersedeWrite
<1>4. ASSUME NEW a \in ApprovalId
      PROVE  /\ approvals'[a] \in Approval \union {Absent}
             /\ approvals'[a] # Absent <=> approvals[a] # Absent
             /\ approvals[a] # Absent =>
                   /\ approvals'[a].action = approvals[a].action
                   /\ approvals'[a].of = approvals[a].of /\ approvals'[a].head = approvals[a].head
  <2>1. CASE a \in f
    <3>1. approvals[a] \in Approval /\ approvals[a] # Absent
      BY <1>2, <2>1, NamedPull DEF Known
    <3>2. PICK u : u = [approvals[a] EXCEPT !.state = "superseded"]
      OBVIOUS
    <3>3. u \in Approval /\ u.action = approvals[a].action /\ u.of = approvals[a].of
          /\ u.head = approvals[a].head
      BY <3>1, <3>2 DEF Approval
    <3>4. approvals'[a] = u /\ u # Absent
      BY <1>3, <2>1, <3>2, <3>3, AbsentAssumption
    <3> QED BY <3>1, <3>3, <3>4
  <2>2. CASE a \notin f
    BY <1>3, <2>2 DEF IInv, TypeOK
  <2> QED BY <2>1, <2>2
<1>5. approvals' \in [ApprovalId -> Approval \union {Absent}]
  <2>1. approvals' = [a \in ApprovalId |-> approvals'[a]]
    BY <1>3
  <2> QED BY <1>4, <2>1
<1>6. ApprovalsKept
  BY <1>4 DEF ApprovalsKept
<1>7. ApprovalsOK'
  BY <1>1, <1>4 DEF IInv, ApprovalsOK, Is, Opened
<1>8. PICK q : /\ q = [proc[p] EXCEPT !.at = point, !.found = {}]
               /\ proc' = [proc EXCEPT ![p] = q]
  BY DEF SupersedeWrite
<1>9. /\ q.at = point /\ q.pr = proc[p].pr /\ q.head = proc[p].head /\ q.found = {}
      /\ q.then = proc[p].then
  BY <1>8, ProcFacts DEF Proc
<1>10. q \in Proc
  <2> point \in Point
    BY DEF Point
  <2>1. PICK r : r = [proc[p] EXCEPT !.at = point]
    OBVIOUS
  <2>2. r \in Proc
    BY <2>1, ProcFacts DEF Proc
  <2>3. q = [r EXCEPT !.found = {}]
    BY <1>8, <2>1
  <2> QED BY <2>2, <2>3 DEF Proc
<1>11. ProcOK(q)
  BY <1>1, <1>9 DEF ProcOK
<1>12. q.at # "spawn"
  BY <1>9
<1> QED BY <1>1, <1>5, <1>6, <1>7, <1>8, <1>10, <1>11, <1>12, ApprovalsStep

\* An approval that waits is used again, and a new one is made otherwise.
LEMMA EnsureFacts ==
    ASSUME IInv, NEW p \in Process, NEW action \in {"merge_pr", "milestone_rollover"},
           NEW of \in Nat, NEW head \in 0..MaxHead, NEW point, Ensure(p, action, of, head, point),
           action = "merge_pr" => Opened(of) /\ head <= pulls[of].head, UNCHANGED pulls
    PROVE  /\ approvals' \in [ApprovalId -> Approval \union {Absent}] /\ ApprovalsKept /\ ApprovalsOK'
           /\ \E a \in ApprovalId : Known(a)' /\ Is(a, action)' /\ Hold(p, a, point)
<1>1. CASE \E a \in Pending(action) : Hold(p, a, point) /\ UNCHANGED approvals
  <2>1. PICK a \in Pending(action) : Hold(p, a, point) /\ UNCHANGED approvals
    BY <1>1
  <2>2. a \in ApprovalId /\ approvals[a] # Absent /\ approvals[a].action = action
    BY <2>1 DEF Pending
  <2>3. ApprovalsOK'
    BY <2>1 DEF IInv, ApprovalsOK, Is, Opened
  <2>4. Known(a)' /\ Is(a, action)'
    BY <2>1, <2>2 DEF Known, Is
  <2> QED BY <2>1, <2>2, <2>3, <2>4, ApprovalsSame DEF IInv, TypeOK
<1>2. CASE \E a \in ApprovalId :
              /\ approvals[a] = Absent /\ Hold(p, a, point)
              /\ approvals' = [approvals EXCEPT ![a] =
                    [action |-> action, of |-> of, head |-> head, state |-> "pending"]]
  <2>1. PICK a \in ApprovalId :
              /\ approvals[a] = Absent /\ Hold(p, a, point)
              /\ approvals' = [approvals EXCEPT ![a] =
                    [action |-> action, of |-> of, head |-> head, state |-> "pending"]]
    BY <1>2
  <2>2. PICK u : u = [action |-> action, of |-> of, head |-> head, state |-> "pending"]
    OBVIOUS
  <2>3. u.action = action /\ u.of = of /\ u.head = head
    BY <2>2
  <2>4. u \in Approval /\ u # Absent
    <3>1. u \in Approval
      BY <2>2 DEF Approval
    <3> QED BY <3>1, AbsentAssumption
  <2>5. approvals' = [approvals EXCEPT ![a] = u]
    BY <2>1, <2>2
  <2>6. approvals'[a] = u /\ \A b \in ApprovalId : b # a => approvals'[b] = approvals[b]
    BY <2>5 DEF IInv, TypeOK
  <2>7. approvals' \in [ApprovalId -> Approval \union {Absent}]
    BY <2>4, <2>5 DEF IInv, TypeOK
  <2>8. ApprovalsKept
    BY <2>1, <2>6 DEF ApprovalsKept
  <2>9. ApprovalsOK'
    BY <2>3, <2>6 DEF IInv, ApprovalsOK, Is, Opened
  <2>10. Known(a)' /\ Is(a, action)'
    BY <2>3, <2>4, <2>6 DEF Known, Is
  <2> QED BY <2>1, <2>7, <2>8, <2>9, <2>10
<1> QED BY <1>1, <1>2 DEF Ensure

LEMMA HoldProc ==
    ASSUME IInv, NEW p \in Process, NEW a \in ApprovalId, NEW point \in Point, Hold(p, a, point),
           point # "idle"
    PROVE  \E q \in Proc : /\ proc' = [proc EXCEPT ![p] = q]
                           /\ q.at = point /\ q.approval = a /\ q.pr = proc[p].pr
                           /\ q.found = proc[p].found /\ q.then = proc[p].then
<1>1. PICK q : /\ q = [proc[p] EXCEPT !.approval = a, !.at = point, !.head = 0]
               /\ proc' = [proc EXCEPT ![p] = q]
  BY DEF Hold
<1>2. /\ q.at = point /\ q.approval = a /\ q.pr = proc[p].pr
      /\ q.found = proc[p].found /\ q.then = proc[p].then
  BY <1>1, ProcFacts DEF Proc
<1>3. 0 \in 0..MaxHead
  BY QueueAssumption
<1>4. q \in Proc
  BY <1>1, <1>3, ProcFacts DEF Proc
<1> QED BY <1>1, <1>2, <1>4

LEMMA OfferStep ==
    ASSUME IInv, Offer
    PROVE  IInv'
<1>1. /\ "monitor" \in Process /\ proc["monitor"].at = "offer" /\ ProcOK(proc["monitor"])
      /\ proc["monitor"].head \in 0..MaxHead /\ "offered" \in Point
      /\ Ensure("monitor", "merge_pr", proc["monitor"].pr, proc["monitor"].head, "offered")
      /\ UNCHANGED <<settings, selected, recorded, given, github, rest>> /\ UNCHANGED pulls
  BY ProcFacts DEF Offer, Process, Point, github
<1>2. PICK i : i = proc["monitor"].pr
  OBVIOUS
<1>3. PICK h \in 0..MaxHead : h = proc["monitor"].head
  BY <1>1
<1>4. Opened(i) /\ h <= pulls[i].head /\ i \in Nat
  <2>1. Opened(i) /\ h <= pulls[i].head
    BY <1>1, <1>2, <1>3 DEF ProcOK
  <2> QED BY <2>1, QueueAssumption DEF Opened
<1>5. Ensure("monitor", "merge_pr", i, h, "offered")
  BY <1>1, <1>2, <1>3
<1>6. approvals' \in [ApprovalId -> Approval \union {Absent}] /\ ApprovalsKept /\ ApprovalsOK'
  BY <1>1, <1>4, <1>5, EnsureFacts
<1>7. PICK a \in ApprovalId : Known(a)' /\ Is(a, "merge_pr")' /\ Hold("monitor", a, "offered")
  BY <1>1, <1>4, <1>5, EnsureFacts
<1>8. PICK q \in Proc : /\ proc' = [proc EXCEPT !["monitor"] = q]
                        /\ q.at = "offered" /\ q.approval = a
                        /\ q.found = proc["monitor"].found /\ q.then = proc["monitor"].then
  BY <1>1, <1>7, HoldProc
<1>9. ProcOK(q)'
  <2>1. q.then # "finish" /\ \A b \in q.found : Known(b)
    BY <1>1, <1>8 DEF ProcOK
  <2>2. \A b \in q.found : Known(b)'
    BY <1>6, <2>1 DEF ApprovalsKept, Known
  <2> QED BY <1>7, <1>8, <2>1, <2>2 DEF ProcOK
<1> QED BY <1>1, <1>6, <1>8, <1>9, ApprovalsStep

LEMMA OfferRolloverStep ==
    ASSUME IInv, NEW p \in Process, OfferRollover(p)
    PROVE  IInv'
<1>1. /\ proc[p].at = "rollover" /\ ProcOK(proc[p]) /\ proc[p].then \in {"idle", "finish"}
      /\ UNCHANGED <<selected, recorded, given, github, rest>> /\ UNCHANGED pulls
  BY ProcFacts DEF OfferRollover, github
<1>2. PICK m \in Nat : m = settings.milestone
  <2>1. settings.milestone \in 1..Milestones
    BY DEF IInv, TypeOK, Settings
  <2> QED BY <2>1, QueueAssumption
<1>3. CASE \E point \in {"rollover-auto", proc[p].then} :
              Ensure(p, "milestone_rollover", m, 0, point) /\ UNCHANGED settings
  <2>1. PICK point \in {"rollover-auto", proc[p].then} :
              Ensure(p, "milestone_rollover", m, 0, point) /\ UNCHANGED settings
    BY <1>3
  <2>2. point \in Point /\ point \in {"rollover-auto", "idle", "finish"}
        /\ (point = "idle" => proc[p].then = "idle") /\ (point = "finish" => proc[p].then = "finish")
    BY <1>1, <2>1 DEF Point
  <2>3. 0 \in 0..MaxHead
    BY QueueAssumption
  <2>4. approvals' \in [ApprovalId -> Approval \union {Absent}] /\ ApprovalsKept /\ ApprovalsOK'
    BY <1>1, <2>1, <2>3, EnsureFacts
  <2>5. PICK a \in ApprovalId : Known(a)' /\ Hold(p, a, point)
    BY <1>1, <2>1, <2>3, EnsureFacts
  <2>6. CASE point = "idle"
    <3>1. PICK q \in Proc : proc' = [proc EXCEPT ![p] = q] /\ ProcOK(q) /\ q.at = "idle"
      BY <2>5, <2>6, QuitProc DEF Hold
    <3> QED BY <1>1, <2>1, <2>4, <3>1, ApprovalsStep
  <2>7. CASE point # "idle"
    <3>1. PICK q \in Proc : /\ proc' = [proc EXCEPT ![p] = q]
                            /\ q.at = point /\ q.approval = a /\ q.pr = proc[p].pr
                            /\ q.found = proc[p].found /\ q.then = proc[p].then
      BY <2>2, <2>5, <2>7, HoldProc
    <3>2. /\ \A b \in q.found : Known(b)
          /\ q.then = "finish" => Merged(q.pr) /\ CloseDone(q.pr) /\ settings.issue # q.pr
      BY <1>1, <3>1 DEF ProcOK
    <3>3. UNCHANGED <<policy, pulls, issues, settings>>
      BY <1>1, <2>1 DEF github, rest
    <3>4. /\ \A b \in q.found : Known(b)'
          /\ q.then = "finish" => Merged(q.pr)' /\ CloseDone(q.pr)' /\ settings'.issue # q.pr
      BY <2>4, <3>2, <3>3 DEF ApprovalsKept, Known, Merged, Opened, CloseDone
    <3>5. q.at \in {"rollover-auto", "finish"} /\ (q.at = "finish" => q.then = "finish")
      BY <2>2, <2>7, <3>1
    <3>6. ProcOK(q)'
      BY <2>5, <3>1, <3>4, <3>5 DEF ProcOK
    <3>7. q.at # "spawn"
      BY <3>5
    <3> QED BY <1>1, <2>1, <2>4, <3>1, <3>6, <3>7, ApprovalsStep
  <2> QED BY <2>6, <2>7
<1>4. CASE \E b \in BOOLEAN : /\ settings' = [settings EXCEPT !.error = @ \/ b]
                              /\ Return(p) /\ UNCHANGED approvals
  BY <1>1, <1>4, BlockedStep
<1> QED BY <1>2, <1>3, <1>4 DEF OfferRollover

------------------------------------------------------------------------------
(* A merge and its completion                                              *)

LEMMA MergeStep ==
    ASSUME IInv, NEW p \in Process, Merge(p)
    PROVE  IInv'
<1>1. /\ proc[p].at = "merge" /\ ProcOK(proc[p])
      /\ UNCHANGED <<selected, recorded, given, approvals, issues, closed, policy, runs>>
  BY ProcFacts DEF Merge
<1>2. PICK a \in ApprovalId : a = proc[p].approval
  BY <1>1 DEF ProcOK, Known
<1>3. PICK i : i = proc[p].pr
  OBVIOUS
<1>4. Known(a) /\ Is(a, "merge_pr") /\ Ready(a) /\ i = approvals[a].of
  BY <1>1, <1>2, <1>3 DEF ProcOK
<1>5. CASE /\ Accepts(p) /\ pulls' = [pulls EXCEPT ![i].state = "MERGED"]
           /\ merger' = [merger EXCEPT ![i] = a]
           /\ (Complete(p) /\ UNCHANGED settings) \/ (Quit(p) /\ Set("error", TRUE))
  <2>1. pulls[i].state = "OPEN" /\ pulls[i].head = approvals[a].head
    BY <1>2, <1>3, <1>5 DEF Accepts
  <2>2. /\ pulls' \in [Issue -> Pull \union {Absent}] /\ PullsKept /\ Merged(i)'
        /\ pulls'[i].head = approvals[a].head /\ pulls'[i].passed
        /\ \A j \in Issue : pulls'[j] # Absent => pulls[j] # Absent
        /\ \A j \in Issue : j # i => pulls'[j] = pulls[j]
    <3>1. PICK u : u = [pulls[i] EXCEPT !.state = "MERGED"]
      OBVIOUS
    <3>2. pulls[i] \in Pull
      BY <1>4, NamedPull
    <3>3. u.state = "MERGED" /\ u.head = pulls[i].head /\ u.passed = pulls[i].passed
      BY <3>1, <3>2 DEF Pull
    <3>4. u \in Pull
      BY <3>1, <3>2, Zenon DEF Pull
    <3>5. pulls' = [pulls EXCEPT ![i] = u] /\ u # Absent
      BY <1>5, <3>1, <3>4, AbsentAssumption
    <3>6. Opened(i) /\ i \in Issue /\ pulls[i].head \in Nat
      BY <1>4, NamedPull, OpenedPull
    <3>7. pulls'[i] = u /\ \A j \in Issue : j # i => pulls'[j] = pulls[j]
      BY <3>5, <3>6 DEF IInv, TypeOK
    <3>8. pulls' \in [Issue -> Pull \union {Absent}]
      BY <3>4, <3>5 DEF IInv, TypeOK
    <3>9. \A j \in Issue : pulls[j] # Absent => pulls[j].head \in Nat
      BY QueueAssumption DEF IInv, TypeOK, Pull
    <3>10. PullsKept
      <4>1. ASSUME NEW j \in Issue, pulls[j] # Absent, j # i
            PROVE  pulls'[j] = pulls[j] /\ pulls[j].head \in Nat /\ pulls[j].head <= pulls[j].head
        BY <3>7, <3>9, <4>1
      <4>2. /\ pulls'[i] # Absent /\ pulls'[i].head = pulls[i].head /\ pulls[i].head <= pulls[i].head
            /\ pulls[i].state # "MERGED" /\ (pulls[i].passed => pulls'[i].passed)
        BY <2>1, <3>3, <3>5, <3>6, <3>7
      <4> QED BY <3>6, <4>1, <4>2 DEF PullsKept
    <3>11. Merged(i)'
      BY <3>3, <3>5, <3>6, <3>7 DEF Merged, Opened
    <3>12. pulls[i].passed
      BY <1>4, <2>1 DEF Ready
    <3> QED BY <2>1, <3>3, <3>6, <3>7, <3>8, <3>10, <3>11, <3>12 DEF Opened
  <2>3. i \in Issue
    BY <1>4, NamedPull DEF Opened
  <2>4. settings' \in Settings /\ settings'.issue = settings.issue /\ settings'.pr = settings.pr
    <3>1. CASE UNCHANGED settings
      BY <3>1 DEF IInv, TypeOK
    <3>2. CASE Set("error", TRUE)
      BY <3>2, FlagSet
    <3> QED BY <1>5, <3>1, <3>2
  <2>5. PICK q \in Proc : proc' = [proc EXCEPT ![p] = q] /\ ProcOK(q)' /\ q.at # "spawn"
    <3>1. CASE Complete(p)
      <4>1. PICK q \in Proc : /\ proc' = [proc EXCEPT ![p] = q]
                              /\ q.at = "complete" /\ q.pr = i /\ q.then = "idle" /\ q.found = {}
        BY <1>3, <3>1, CompleteProc
      <4>2. ProcOK(q)'
        BY <2>2, <4>1 DEF ProcOK
      <4> QED BY <4>1, <4>2
    <3>2. CASE Quit(p)
      BY <3>2, IdleFacts, IdleOK DEF Quit
    <3> QED BY <1>5, <3>1, <3>2
  <2>6. Kept
    BY <1>1, <2>2, <2>4, ApprovalsSame DEF Kept
  <2>7. merger' \in [Issue -> ApprovalId \union {Absent}]
    BY <1>5 DEF IInv, TypeOK
  <2>8. TypeOK'
    BY <1>1, <2>2, <2>4, <2>5, <2>7 DEF IInv, TypeOK
  <2>9. ApprovalsOK' /\ TrackedOK' /\ StartsOK' /\ RecordedOK'
    BY <1>1, <2>2, <2>4, <2>6, StoreFrame
  <2>10. MergesOK'
    <3>1. ASSUME NEW j \in Issue, merger'[j] # Absent
          PROVE  (/\ Merged(j) /\ Known(merger[j]) /\ approvals[merger[j]].of = j
                  /\ pulls[j].head = approvals[merger[j]].head /\ pulls[j].passed)'
      <4>1. CASE j = i
        <5>1. merger'[j] = a
          BY <1>5, <2>3, <4>1 DEF IInv, TypeOK
        <5> QED BY <1>1, <1>4, <2>2, <4>1, <5>1 DEF Known
      <4>2. CASE j # i
        <5>1. merger'[j] = merger[j] /\ pulls'[j] = pulls[j]
          BY <1>5, <2>2, <4>2 DEF IInv, TypeOK
        <5> QED BY <1>1, <3>1, <5>1 DEF IInv, MergesOK, Merged, Opened, Known
      <4> QED BY <4>1, <4>2
    <3> QED BY <3>1 DEF MergesOK
  <2> QED BY <1>1, <2>5, <2>6, <2>8, <2>9, <2>10, ProcessStep
<1>6. CASE Quit(p) /\ Set("error", TRUE) /\ UNCHANGED <<pulls, merger>>
  <2>1. UNCHANGED <<selected, recorded, given, approvals, github, rest>>
    BY <1>1, <1>6 DEF github, rest
  <2> QED BY <1>6, <2>1, FlagQuitStep
<1> QED BY <1>2, <1>3, <1>5, <1>6 DEF Merge

LEMMA CloseIssueStep ==
    ASSUME IInv, NEW p \in Process, CloseIssue(p)
    PROVE  IInv'
<1>1. /\ proc[p].at = "close" /\ ProcOK(proc[p]) /\ "slot" \in Point /\ Go(p, "slot")
      /\ UNCHANGED <<selected, recorded, given, approvals, pulls, closed, policy, runs, merger>>
  BY ProcFacts DEF CloseIssue, Point, rest
<1>2. PICK i : i = proc[p].pr
  OBVIOUS
<1>3. Merged(i) /\ i \in Issue /\ \A a \in proc[p].found : Known(a)
  BY <1>1, <1>2 DEF ProcOK, Merged, Opened
<1>4. PICK v : v = IF policy["close_completed_issue"] = "auto" THEN "closed" ELSE issues[i]
  OBVIOUS
<1>5. issues' = [issues EXCEPT ![i] = v] /\ v \in {"open", "closed"}
  BY <1>2, <1>3, <1>4 DEF CloseIssue, IInv, TypeOK
<1>6. issues' \in [Issue -> {"open", "closed"}] /\ CloseDone(i)'
      /\ \A j \in Issue : issues[j] = "closed" => issues'[j] = "closed"
  BY <1>1, <1>3, <1>4, <1>5 DEF IInv, TypeOK, CloseDone
<1>7. settings' \in Settings /\ settings'.issue = settings.issue /\ settings'.pr = settings.pr
  <2>1. settings.toClose \in Issue \union {0}
    BY DEF IInv, TypeOK, Settings
  <2>2. PICK n \in Issue \union {0} :
           n = IF policy["close_completed_issue"] = "approval" THEN i ELSE settings.toClose
    BY <1>3, <2>1
  <2>3. Set("toClose", n)
    BY <1>2, <2>2 DEF CloseIssue, Set
  <2> QED BY <2>3, NumberSet
<1>8. PICK q \in Proc : /\ proc' = [proc EXCEPT ![p] = q]
                        /\ q.at = "slot" /\ q.pr = i /\ q.then = proc[p].then
                        /\ q.found = proc[p].found
  BY <1>1, <1>2, GoProc
<1>9. Kept
  BY <1>1, <1>6, <1>7, PullsSame, ApprovalsSame DEF Kept
<1>10. TypeOK'
  BY <1>1, <1>6, <1>7, <1>8 DEF IInv, TypeOK
<1>11. ApprovalsOK' /\ TrackedOK' /\ StartsOK' /\ MergesOK' /\ RecordedOK'
  BY <1>1, <1>7, <1>9, StoreFrame
<1>12. ProcOK(q)'
  <2>1. q.then # "finish"
    BY <1>1, <1>8 DEF ProcOK
  <2>2. Merged(i)' /\ \A a \in q.found : Known(a)'
    BY <1>1, <1>3, <1>8 DEF Merged, Opened, Known
  <2> QED BY <1>6, <1>8, <2>1, <2>2 DEF ProcOK
<1>13. q.at # "spawn"
  BY <1>8
<1> QED BY <1>1, <1>8, <1>9, <1>10, <1>11, <1>12, <1>13, ProcessStep

LEMMA RecordStep ==
    ASSUME IInv, NEW p \in Process, Record(p)
    PROVE  IInv'
<1>1. /\ proc[p].at = "record" /\ ProcOK(proc[p]) /\ Quit(p)
      /\ recorded' = recorded \union {proc[p].pr}
      /\ UNCHANGED <<policy, settings, selected, given, approvals, issues, pulls, closed, runs, merger>>
  BY ProcFacts DEF Record, github, rest
<1>2. PICK i : i = proc[p].pr
  OBVIOUS
<1>3. Merged(i) /\ CloseDone(i) /\ settings.issue # i
  BY <1>1, <1>2 DEF ProcOK
<1>4. PICK q \in Proc : proc' = [proc EXCEPT ![p] = q] /\ ProcOK(q)' /\ q.at = "idle"
  BY <1>1, IdleFacts, IdleOK DEF Quit
<1>5. Kept
  BY <1>1, PullsSame, ApprovalsSame DEF Kept
<1>6. recorded' \subseteq Issue
  BY <1>1, <1>2, <1>3 DEF IInv, TypeOK, Merged, Opened
<1>7. TypeOK'
  BY <1>1, <1>4, <1>6 DEF IInv, TypeOK
<1>8. ApprovalsOK' /\ TrackedOK' /\ StartsOK' /\ MergesOK'
  BY <1>1, <1>5, StoreFrame
<1>9. RecordedOK'
  BY <1>1, <1>2, <1>3 DEF IInv, RecordedOK, Merged, Opened, CloseDone
<1>10. q.at # "spawn"
  BY <1>4
<1> QED BY <1>1, <1>4, <1>5, <1>7, <1>8, <1>9, <1>10, ProcessStep

------------------------------------------------------------------------------
(* The start of an issue                                                   *)

LEMMA ClaimStep ==
    ASSUME IInv, NEW p \in Process, Claim(p)
    PROVE  IInv'
<1>1. /\ proc[p].at = "claim" /\ ProcOK(proc[p]) /\ "spawn" \in Point
      /\ UNCHANGED <<recorded, given, approvals, github, rest>>
  BY ProcFacts DEF Claim, Point
<1>2. PICK i \in Issue : i = proc[p].issue
  BY <1>1 DEF ProcOK
<1>3. CASE FreeSlot(i) /\ Set("issue", i) /\ selected' = selected \union {i} /\ Go(p, "spawn")
  <2>1. settings' \in Settings /\ settings'.issue = i /\ settings'.pr = settings.pr
    BY <1>3, NumberSet
  <2>2. i \notin selected
    BY <1>3 DEF FreeSlot
  <2>3. UNCHANGED <<policy, recorded, given, approvals, issues, pulls, closed, runs, merger>>
    BY <1>1 DEF github, rest
  <2>4. Kept
    BY <1>3, <2>1, <2>2, <2>3, PullsSame, ApprovalsSame DEF Kept
  <2>5. PICK q \in Proc : /\ proc' = [proc EXCEPT ![p] = q]
                          /\ q.at = "spawn" /\ q.pr = proc[p].pr /\ q.then = proc[p].then
                          /\ q.found = proc[p].found /\ q.issue = i
    BY <1>1, <1>2, <1>3, GoProc
  <2>6. proc'[p] = q /\ \A r \in Process : r # p => proc'[r] = proc[r]
    BY <2>5 DEF IInv, TypeOK
  <2>7. TypeOK'
    BY <1>3, <2>1, <2>3, <2>5 DEF IInv, TypeOK
  <2>8. ApprovalsOK' /\ TrackedOK' /\ StartsOK' /\ MergesOK' /\ RecordedOK'
    BY <2>1, <2>3, <2>4, StoreFrame
  <2>9. runs[i] = 0
    BY <2>2 DEF IInv, TypeOK, StartsOK
  <2>10. ProcOK(q)'
    <3>1. /\ \A a \in q.found : Known(a)
          /\ q.then = "finish" => Merged(q.pr) /\ CloseDone(q.pr) /\ settings.issue # q.pr
      BY <1>1, <2>5 DEF ProcOK
    <3>2. /\ \A a \in q.found : Known(a)'
          /\ q.then = "finish" => Merged(q.pr)' /\ CloseDone(q.pr)' /\ settings'.issue # q.pr
      BY <2>4, <3>1, KnownKept, MergedKept
    <3>3. q.issue \in selected' /\ runs'[q.issue] = 0
      BY <1>3, <2>3, <2>5, <2>9
    <3> QED BY <2>5, <3>2, <3>3 DEF ProcOK
  <2>11. ASSUME NEW r \in Process, r # p
         PROVE  ProcOK(proc[r])' /\ (proc'[r].at = "spawn" => proc'[r].issue # i)
    <3>1. PICK x \in Proc : x = proc[r]
      BY DEF IInv, TypeOK
    <3>2. ProcOK(x)
      BY <3>1 DEF IInv
    <3>3. ProcOK(x)'
      BY <2>3, <2>4, <3>2, ProcFrame
    <3>4. x.at = "spawn" => x.issue # i
      BY <2>2, <3>2 DEF ProcOK
    <3>5. proc'[r] = x
      BY <2>6, <2>11, <3>1
    <3> QED BY <3>3, <3>4, <3>5 DEF ProcOK
  <2>12. \A r \in Process : ProcOK(proc[r])'
    <3>1. ProcOK(proc[p])'
      BY <2>6, <2>10 DEF ProcOK
    <3> QED BY <2>11, <3>1
  <2>13. Apart'
    BY <2>5, <2>6, <2>11 DEF IInv, Apart
  <2> QED BY <2>7, <2>8, <2>12, <2>13 DEF IInv
<1>4. CASE Return(p) /\ UNCHANGED <<settings, selected>>
  <2>1. UNCHANGED <<store, github, rest>>
    BY <1>1, <1>4 DEF store
  <2> QED BY <1>1, <1>4, <2>1, ReturnStep
<1> QED BY <1>2, <1>3, <1>4 DEF Claim

LEMMA SpawnStep ==
    ASSUME IInv, NEW p \in Process, Spawn(p)
    PROVE  IInv'
<1>1. /\ proc[p].at = "spawn" /\ ProcOK(proc[p]) /\ Return(p)
      /\ runs' = [runs EXCEPT ![proc[p].issue] = @ + 1]
      /\ UNCHANGED <<policy, settings, selected, recorded, given, approvals, issues, pulls, closed, merger>>
  BY ProcFacts DEF Spawn, store, github
<1>2. PICK i \in Issue : i = proc[p].issue
  BY <1>1 DEF ProcOK
<1>3. i \in selected /\ runs[i] = 0
  BY <1>1, <1>2 DEF ProcOK
<1>4. runs' \in [Issue -> Nat] /\ runs'[i] = 1 /\ \A j \in Issue : j # i => runs'[j] = runs[j]
  BY <1>1, <1>2, <1>3 DEF IInv, TypeOK
<1>5. Kept
  BY <1>1, PullsSame, ApprovalsSame DEF Kept
<1>6. PICK q \in Proc : proc' = [proc EXCEPT ![p] = q] /\ ProcOK(q) /\ q.at \in {"idle", "finish"}
  BY <1>1, ReturnProc
<1>7. TypeOK'
  BY <1>1, <1>4, <1>6 DEF IInv, TypeOK
<1>8. ApprovalsOK' /\ TrackedOK' /\ MergesOK' /\ RecordedOK'
  BY <1>1, <1>5, StoreFrame
<1>9. StartsOK'
  BY <1>1, <1>3, <1>4 DEF IInv, StartsOK
<1>10. q.at # "spawn"
  BY <1>6
<1>11. ProcOK(q)'
  BY <1>5, <1>6, <1>10, ProcFrame
<1> QED BY <1>1, <1>2, <1>4, <1>5, <1>6, <1>7, <1>8, <1>9, <1>10, <1>11, ProcessStep

------------------------------------------------------------------------------
(* Steps of the operator and of the outside                                *)

LEMMA CloseCompletedStep ==
    ASSUME IInv, CloseCompleted
    PROVE  IInv'
<1>1. /\ "listener" \in Process /\ proc["listener"].at = "idle" /\ settings.toClose # 0
      /\ UNCHANGED <<policy, selected, recorded, given, approvals, proc, pulls, closed, runs, merger>>
      /\ Set("toClose", 0)
  BY DEF CloseCompleted, Process, rest
<1>2. PICK i \in Issue : i = settings.toClose
  BY <1>1 DEF IInv, TypeOK, Settings
<1>3. issues' = [issues EXCEPT ![i] = "closed"]
  BY <1>2 DEF CloseCompleted
<1>4. issues' \in [Issue -> {"open", "closed"}]
      /\ \A j \in Issue : issues[j] = "closed" => issues'[j] = "closed"
  BY <1>3 DEF IInv, TypeOK
<1>5. settings' \in Settings /\ settings'.issue = settings.issue /\ settings'.pr = settings.pr
  BY <1>1, NumberSet
<1>6. PICK q \in Proc : q = proc["listener"]
  BY <1>1, ProcFacts
<1>7. ProcOK(q) /\ q.at # "spawn" /\ proc' = [proc EXCEPT !["listener"] = q]
  BY <1>1, <1>6 DEF IInv, TypeOK
<1>8. Kept
  BY <1>1, <1>4, <1>5, PullsSame, ApprovalsSame DEF Kept
<1>9. TypeOK'
  BY <1>1, <1>4, <1>5 DEF IInv, TypeOK
<1>10. ApprovalsOK' /\ TrackedOK' /\ StartsOK' /\ MergesOK' /\ RecordedOK'
  BY <1>1, <1>5, <1>8, StoreFrame
<1>11. ProcOK(q)'
  BY <1>7, <1>8, ProcFrame
<1> QED BY <1>1, <1>7, <1>8, <1>9, <1>10, <1>11, ProcessStep

\* A step of the outside changes no process and starts no runner.
LEMMA WorldStep ==
    ASSUME IInv, Kept, UNCHANGED <<proc, runs>>, TypeOK',
           ApprovalsOK', TrackedOK', StartsOK', MergesOK', RecordedOK'
    PROVE  IInv'
<1>1. ASSUME NEW r \in Process PROVE ProcOK(proc[r])'
  <2>1. PICK x \in Proc : x = proc[r]
    BY DEF IInv, TypeOK
  <2>2. ProcOK(x)
    BY <2>1 DEF IInv
  <2>3. ProcOK(x)'
    BY <2>2, ProcFrame
  <2> QED BY <2>1, <2>3 DEF ProcOK
<1>2. Apart'
  BY DEF IInv, Apart
<1> QED BY <1>1, <1>2 DEF IInv

LEMMA ExpireStep ==
    ASSUME IInv, NEW a \in ApprovalId, Expire(a)
    PROVE  IInv'
<1>1. /\ Known(a) /\ approvals' = [approvals EXCEPT ![a].state = "expired"]
      /\ UNCHANGED <<policy, settings, selected, recorded, given, proc, issues, pulls, closed, runs, merger>>
  BY DEF Expire, Known, github, rest
<1>2. /\ approvals' \in [ApprovalId -> Approval \union {Absent}] /\ ApprovalsKept /\ ApprovalsOK'
  BY <1>1, StateSet
<1>3. Kept
  BY <1>1, <1>2, PullsSame DEF Kept
<1>4. TypeOK'
  BY <1>1, <1>2 DEF IInv, TypeOK
<1>5. TrackedOK' /\ StartsOK' /\ MergesOK' /\ RecordedOK'
  BY <1>1, <1>3, StoreFrame
<1> QED BY <1>1, <1>2, <1>3, <1>4, <1>5, WorldStep

\* The pull request of i becomes u.
LEMMA PullStep ==
    ASSUME IInv, NEW i \in Issue, NEW u \in Pull, pulls' = [pulls EXCEPT ![i] = u],
           UNCHANGED <<store, proc, issues, closed, rest>>, i \in selected,
           pulls[i] # Absent =>
              /\ pulls[i].state = "OPEN" /\ pulls[i].head <= u.head
              /\ pulls[i].passed /\ u.head = pulls[i].head => u.passed
    PROVE  IInv'
<1>1. UNCHANGED <<policy, settings, selected, recorded, given, approvals, proc, issues, closed, runs, merger>>
  BY DEF store, rest
<1>2. u # Absent /\ u.head \in Nat
  <2>1. u.head \in 1..MaxHead
    BY DEF Pull
  <2> QED BY <2>1, AbsentAssumption, QueueAssumption
<1>3. pulls'[i] = u /\ \A j \in Issue : j # i => pulls'[j] = pulls[j]
  BY DEF IInv, TypeOK
<1>4. pulls' \in [Issue -> Pull \union {Absent}]
  BY DEF IInv, TypeOK
<1>5. \A j \in Issue : pulls[j] # Absent => pulls[j].head \in Nat
  BY QueueAssumption DEF IInv, TypeOK, Pull
<1>6. PullsKept
  BY <1>2, <1>3, <1>5 DEF PullsKept
<1>7. Kept
  BY <1>1, <1>6, ApprovalsSame DEF Kept
<1>8. TypeOK'
  BY <1>1, <1>4 DEF IInv, TypeOK
<1>9. ApprovalsOK' /\ TrackedOK' /\ MergesOK' /\ RecordedOK'
  BY <1>1, <1>7, StoreFrame
<1>10. StartsOK'
  BY <1>1, <1>3 DEF IInv, StartsOK
<1> QED BY <1>1, <1>7, <1>8, <1>9, <1>10, WorldStep

LEMMA PullChangesStep ==
    ASSUME IInv, NEW i \in Issue, PullChanges(i)
    PROVE  IInv'
<1>1. UNCHANGED <<store, proc, issues, closed, rest>>
  BY DEF PullChanges
<1>2. i \in selected
  BY DEF PullChanges, IInv, StartsOK
<1>3. CASE pulls[i] = Absent
  <2>1. PICK u : u = [head |-> 1, passed |-> FALSE, state |-> "OPEN"]
    OBVIOUS
  <2>2. 1 \in 1..MaxHead
    BY QueueAssumption
  <2>3. u \in Pull
    BY <2>1, <2>2, Zenon DEF Pull
  <2>4. pulls' = [pulls EXCEPT ![i] = u]
    BY <1>3, <2>1 DEF PullChanges
  <2> QED BY <1>1, <1>2, <1>3, <2>3, <2>4, PullStep
<1>4. CASE pulls[i] # Absent
  <2>1. PICK v \in Pull : v = pulls[i]
    BY <1>4 DEF IInv, TypeOK
  <2>2. v.state = "OPEN" /\ v.head \in 1..MaxHead /\ v.head \in Nat /\ v.passed \in BOOLEAN
    <3>1. v.state = "OPEN" /\ v.head \in 1..MaxHead
      BY <1>4, <2>1 DEF PullChanges, Pull
    <3> QED BY <3>1, QueueAssumption, <2>1 DEF Pull
  <2>3. CASE v.head < MaxHead /\ pulls' = [pulls EXCEPT ![i].head = @ + 1, ![i].passed = FALSE]
    <3>1. PICK n : n = v.head + 1
      OBVIOUS
    <3>2. n \in 1..MaxHead /\ v.head <= n /\ n # v.head
      BY <2>2, <2>3, <3>1, QueueAssumption
    <3>3. PICK w : w = [v EXCEPT !.head = n]
      OBVIOUS
    <3>4. w \in Pull /\ w.head = n
      BY <3>2, <3>3 DEF Pull
    <3>5. PICK u : u = [w EXCEPT !.passed = FALSE]
      OBVIOUS
    <3>6. u.head = n
      BY <3>4, <3>5 DEF Pull
    <3>7. u \in Pull
      BY <3>4, <3>5, Zenon DEF Pull
    <3>8. pulls' = [pulls EXCEPT ![i] = u]
      BY <2>1, <2>3, <3>1, <3>3, <3>5
    <3> QED BY <1>1, <1>2, <2>1, <2>2, <3>2, <3>6, <3>7, <3>8, PullStep
  <2>4. CASE pulls' = [pulls EXCEPT ![i].passed = TRUE]
    <3>1. PICK u : u = [v EXCEPT !.passed = TRUE]
      OBVIOUS
    <3>2. v.head <= u.head /\ u.passed
      BY <2>2, <3>1 DEF Pull
    <3>3. u \in Pull
      BY <3>1, Zenon DEF Pull
    <3>4. pulls' = [pulls EXCEPT ![i] = u]
      BY <2>1, <2>4, <3>1
    <3> QED BY <1>1, <1>2, <2>1, <2>2, <3>2, <3>3, <3>4, PullStep
  <2>5. CASE pulls' = [pulls EXCEPT ![i].state = "CLOSED"]
    <3>1. PICK u : u = [v EXCEPT !.state = "CLOSED"]
      OBVIOUS
    <3>2. v.head <= u.head /\ (v.passed => u.passed)
      <4>1. u.head = v.head /\ u.passed = v.passed
        BY <3>1 DEF Pull
      <4> QED BY <2>2, <4>1
    <3>3. u \in Pull
      BY <3>1, Zenon DEF Pull
    <3>4. pulls' = [pulls EXCEPT ![i] = u]
      BY <2>1, <2>5, <3>1
    <3> QED BY <1>1, <1>2, <2>1, <2>2, <3>2, <3>3, <3>4, PullStep
  <2> QED BY <1>4, <2>1, <2>3, <2>4, <2>5 DEF PullChanges
<1> QED BY <1>3, <1>4

LEMMA MilestoneClosesStep ==
    ASSUME IInv, NEW m \in 1..Milestones, MilestoneCloses(m)
    PROVE  IInv'
<1>1. /\ closed' = closed \union {m}
      /\ UNCHANGED <<policy, settings, selected, recorded, given, approvals, proc, issues, pulls, runs, merger>>
  BY DEF MilestoneCloses, store, rest
<1>2. Kept
  BY <1>1, PullsSame, ApprovalsSame DEF Kept
<1>3. TypeOK'
  BY <1>1 DEF IInv, TypeOK
<1>4. ApprovalsOK' /\ TrackedOK' /\ StartsOK' /\ MergesOK' /\ RecordedOK'
  BY <1>1, <1>2, StoreFrame
<1> QED BY <1>1, <1>2, <1>3, <1>4, WorldStep

LEMMA StutterStep ==
    ASSUME IInv, UNCHANGED vars
    PROVE  IInv'
<1>1. UNCHANGED <<policy, settings, selected, recorded, given, approvals, proc, issues, pulls, closed,
                  runs, merger>>
  BY DEF vars
<1>2. Kept
  BY <1>1, PullsSame, ApprovalsSame DEF Kept
<1>3. TypeOK'
  BY <1>1 DEF IInv, TypeOK
<1>4. ApprovalsOK' /\ TrackedOK' /\ StartsOK' /\ MergesOK' /\ RecordedOK'
  BY <1>1, <1>2, StoreFrame
<1> QED BY <1>1, <1>2, <1>3, <1>4, WorldStep

------------------------------------------------------------------------------
(* The theorems                                                            *)

LEMMA ProcessNext ==
    ASSUME IInv, NEW p \in Process, Step(p)
    PROVE  IInv'
<1>1. CASE DecideRead(p, "decide", "decide-write") \/ DecideRead(p, "reject", "reject-write")
           \/ DecideRead(p, "stay", "stay-write") \/ DecideRead(p, "rollover-decide", "rollover-write")
  BY <1>1, DecideReadStep
<1>2. CASE DecideWrite(p, "decide-write", "approved", "reverify")
  BY <1>2, DecideWriteStep
<1>3. CASE DecideWrite(p, "reject-write", "rejected", "idle")
  BY <1>3, DecideWriteStep
<1>4. CASE DecideWrite(p, "stay-write", "rejected", "stayed")
  BY <1>4, DecideWriteStep
<1>5. CASE DecideWrite(p, "rollover-write", "approved", "transition")
  BY <1>5, DecideWriteStep
<1>6. CASE SupersedeRead(p, "heads", proc[p].head, "heads-write")
           \/ SupersedeRead(p, "complete", 0, "complete-write")
  BY <1>6, SupersedeReadStep
<1>7. CASE SupersedeWrite(p, "heads-write", "offer") \/ SupersedeWrite(p, "complete-write", "completed")
  BY <1>7, SupersedeWriteStep
<1>8. CASE Approve(p) \/ Reverify(p) \/ Merge(p)
  BY <1>8, ApproveStep, ReverifyStep, MergeStep
<1>9. CASE Completed(p) \/ CloseIssue(p) \/ Slot(p) \/ Free(p) \/ Finish(p) \/ Record(p)
  BY <1>9, CompletedStep, CloseIssueStep, SlotStep, FreeStep, FinishStep, RecordStep
<1>10. CASE Queue(p) \/ NextIssue(p) \/ Claim(p) \/ Spawn(p)
  BY <1>10, QueueStep, NextIssueStep, ClaimStep, SpawnStep
<1>11. CASE OfferRollover(p) \/ RolloverAuto(p) \/ Transition(p) \/ Advance(p)
  BY <1>11, OfferRolloverStep, RolloverAutoStep, TransitionStep, AdvanceStep
<1> QED BY <1>1, <1>2, <1>3, <1>4, <1>5, <1>6, <1>7, <1>8, <1>9, <1>10, <1>11 DEF Step

LEMMA NextInvariant == IInv /\ [Next]_vars => IInv'
<1> SUFFICES ASSUME IInv, [Next]_vars PROVE IInv'
  OBVIOUS
<1>1. CASE MonitorStart \/ Discover \/ Track \/ View \/ Pause \/ Offer \/ Offered
  BY <1>1, MonitorStartStep, DiscoverStep, TrackStep, ViewStep, PauseStep, OfferStep, OfferedStep
<1>2. CASE \E p \in Process : Step(p) \/ Abandon(p)
  BY <1>2, ProcessNext, AbandonStep
<1>3. CASE \/ StartNext
           \/ \E a \in ApprovalId : ApproveCommand(a) \/ RejectCommand(a) \/ AdvanceCommand(a) \/ Press(a)
  BY <1>3, OperatorStep
<1>4. CASE \E a \in ApprovalId : Expire(a)
  BY <1>4, ExpireStep
<1>5. CASE Stay \/ CloseCompleted \/ \E key \in {"paused", "once"} : Switch(key)
  BY <1>5, StayStep, CloseCompletedStep, SwitchStep
<1>6. CASE \E i \in Issue : PullChanges(i)
  BY <1>6, PullChangesStep
<1>7. CASE \E m \in 1..Milestones : MilestoneCloses(m)
  BY <1>7, MilestoneClosesStep
<1>8. CASE UNCHANGED vars
  BY <1>8, StutterStep
<1> QED BY <1>1, <1>2, <1>3, <1>4, <1>5, <1>6, <1>7, <1>8 DEF Next

\* The invariant holds of every reachable state, for every number of issues,
\* milestones, heads and approvals and every policy.
THEOREM Invariance == Spec => []IInv
BY InitInvariant, NextInvariant, PTL DEF Spec

\* Every variable of the two processes, the database and GitHub keeps its type
\* (tables settings and approvals of fortify_supervisor.py).
THEOREM TypeCorrectness == Spec => []TypeOK
<1>1. IInv => TypeOK
  BY DEF IInv
<1> QED BY <1>1, Invariance, PTL

\* claim_issue: a runner is started at most once for an issue, whichever
\* process claims it and also after the slot was freed or a process died.
THEOREM SingleStart == Spec => []StartedOnce
<1>1. IInv => StartedOnce
  BY DEF IInv, StartsOK, StartedOnce
<1> QED BY <1>1, Invariance, PTL

\* approve: what is merged is the head that the approval names, with its
\* checks passed, although heads are pushed between the steps of the merge.
THEOREM ApprovedMerges == Spec => []MergedAsApproved
<1>1. IInv => MergedAsApproved
  BY DEF IInv, MergesOK, MergedAsApproved
<1> QED BY <1>1, Invariance, PTL

\* complete_merged_pull_request: what is recorded as completed was completed,
\* wherever a process died and when both complete one pull request.
THEOREM WholeCompletion == Spec => []CompletionIsWhole
<1>1. IInv => CompletionIsWhole
  BY DEF IInv, RecordedOK, CompletionIsWhole, Merged, CloseDone
<1> QED BY <1>1, Invariance, PTL

LEMMA OtherSetting ==
    ASSUME IInv, NEW key \in {"paused", "issue", "pr", "once", "error", "toClose"}, NEW v, Set(key, v)
    PROVE  settings'.milestone = settings.milestone
<1>1. PICK s \in Settings : s = settings
  BY DEF IInv, TypeOK
<1>2. s.milestone = [s EXCEPT ![key] = v].milestone
  BY DEF Settings
<1> QED BY <1>1, <1>2 DEF Set

\* Only advance_milestone changes the milestone.
LEMMA MilestoneFrame ==
    ASSUME IInv, [Next]_vars, settings'.milestone # settings.milestone
    PROVE  \E p \in Process : Advance(p)
<1> SUFFICES ASSUME ~\E p \in Process : Advance(p)
             PROVE  settings'.milestone = settings.milestone
  OBVIOUS
<1>1. CASE MonitorStart \/ Discover \/ Track \/ View \/ Pause \/ Offer \/ Offered
  BY <1>1, OtherSetting DEF MonitorStart, Discover, Track, View, Pause, Offer, Offered, store
<1>2. ASSUME NEW p \in Process, Step(p) PROVE settings'.milestone = settings.milestone
  <2>1. CASE \/ \E at, point : DecideRead(p, at, point) \/ SupersedeWrite(p, at, point)
             \/ \E at, decision, point : DecideWrite(p, at, decision, point) \/ SupersedeRead(p, at, decision, point)
    BY <2>1 DEF DecideRead, DecideWrite, SupersedeRead, SupersedeWrite, store
  <2>2. CASE \/ Approve(p) \/ Completed(p) \/ Slot(p) \/ Record(p) \/ Queue(p) \/ NextIssue(p)
             \/ Spawn(p) \/ RolloverAuto(p) \/ Transition(p)
    BY <2>2 DEF Approve, Completed, Slot, Record, Queue, NextIssue, Spawn, RolloverAuto, Transition, store
  <2>3. CASE Reverify(p) \/ Merge(p) \/ Free(p) \/ Finish(p) \/ Claim(p)
    BY <2>3, OtherSetting DEF Reverify, Merge, Free, Finish, Claim
  <2>4. CASE CloseIssue(p)
    <3>1. PICK n : Set("toClose", n)
      BY <2>4 DEF CloseIssue, Set
    <3> QED BY <3>1, OtherSetting
  <2>5. CASE OfferRollover(p)
    <3>1. CASE UNCHANGED settings
      BY <3>1
    <3>2. CASE \E b \in BOOLEAN : settings' = [settings EXCEPT !.error = @ \/ b]
      <4>1. PICK b \in BOOLEAN : settings' = [settings EXCEPT !.error = @ \/ b]
        BY <3>2
      <4>2. PICK c \in BOOLEAN : c = (settings.error \/ b)
        OBVIOUS
      <4>3. Set("error", c)
        BY <4>1, <4>2, Zenon DEF Set
      <4> QED BY <4>3, OtherSetting
    <3> QED BY <2>5, <3>1, <3>2 DEF OfferRollover
  <2> QED BY <1>2, <2>1, <2>2, <2>3, <2>4, <2>5 DEF Step
<1>3. CASE \E p \in Process : Abandon(p)
  BY <1>3 DEF Abandon, store
<1>4. CASE \/ StartNext
           \/ \E a \in ApprovalId : ApproveCommand(a) \/ RejectCommand(a) \/ AdvanceCommand(a)
                                    \/ Press(a) \/ Expire(a)
  BY <1>4 DEF StartNext, ApproveCommand, RejectCommand, AdvanceCommand, Press, Expire, Command, store
<1>5. CASE Stay \/ CloseCompleted \/ \E key \in {"paused", "once"} : Switch(key)
  BY <1>5, OtherSetting DEF Stay, CloseCompleted, Switch
<1>6. CASE \/ \E i \in Issue : PullChanges(i)
           \/ \E m \in 1..Milestones : MilestoneCloses(m)
  BY <1>6 DEF PullChanges, MilestoneCloses, store
<1>7. CASE UNCHANGED vars
  BY <1>7 DEF vars
<1> QED BY <1>1, <1>2, <1>3, <1>4, <1>5, <1>6, <1>7 DEF Next

\* advance_milestone: the milestone is left for the next one only, when it is
\* closed without an open issue and work is not held, however old the
\* verification of the rollover is.
THEOREM DoneMilestones == Spec => AdvancesWhenDone
<1>1. ASSUME IInv, [Next]_vars, settings'.milestone # settings.milestone
      PROVE  /\ settings'.milestone = settings.milestone + 1
             /\ settings.milestone \in closed /\ ~settings.paused
             /\ \A i \in Issue : Of[i] = settings.milestone => issues[i] = "closed"
  <2>1. PICK p \in Process : Advance(p)
    BY <1>1, MilestoneFrame
  <2>2. PICK m : m = approvals[proc[p].approval].of
    OBVIOUS
  <2>3. StillCurrent(m) /\ settings' = [settings EXCEPT !.milestone = NextMilestone(m), !.error = FALSE]
    BY <1>1, <2>1, <2>2 DEF Advance
  <2>4. Done(m)
    BY <1>1, <2>1, <2>2, ProcFacts DEF Advance, ProcOK
  <2>5. settings'.milestone = m + 1
    <3>1. PICK s \in Settings : s = settings
      BY <1>1 DEF IInv, TypeOK
    <3>2. [s EXCEPT !.milestone = m + 1, !.error = FALSE].milestone = m + 1
      BY DEF Settings
    <3> QED BY <2>3, <3>1, <3>2 DEF NextMilestone
  <2>6. \A i \in Issue : Of[i] = m => issues[i] = "closed"
    BY <1>1, <2>4, QueueAssumption DEF Done, Eligible, IInv, TypeOK
  <2> QED BY <2>3, <2>4, <2>5, <2>6 DEF StillCurrent, Done
<1> QED BY <1>1, Invariance, PTL DEF Spec, AdvancesWhenDone

------------------------------------------------------------------------------
(* The autonomy policy and its confirmations                               *)

\* Where a process stands: reloads return to the point they were called from.
Reload == {"load", "revert", "attest"}
Handled == {"consistent", "consume", "consumed", "apply", "answer"}
ControlPoint == Reload \union Handled \union {"idle", "fetch", "offset", "check", "verify", "merge"}

ControlPlace == [at : ControlPoint, then : ControlPoint, handling : BOOLEAN, token : Token \union {Nothing}]
Delivery == [command : {"hold"}, token : {Nothing}] \union [command : {"confirm"}, token : Token]

ControlTypes ==
    /\ ControlTypeOK
    /\ adopted \in [Role -> Policy \union {Nothing}]
    /\ attested \in [Role -> Policy \union {Nothing}]
    /\ adopted["listener"] \in Policy
    /\ place \in [Role -> ControlPlace]
    /\ updates \in Seq(Delivery)
    /\ applied \in [Token -> Nat]

PassOK ==
    LET m == place["monitor"] IN
    /\ m.at \in Reload \union {"idle", "check", "verify", "merge"}
    /\ m.at \in Reload => m.then = "check"
    /\ m.at # "idle" => adopted["monitor"] \in Policy
    /\ ~m.handling

RoundOK ==
    LET l == place["listener"] IN
    /\ l.at \in Reload \union Handled \union {"idle", "fetch", "offset"}
    /\ l.at \in Reload => l.then \in {"fetch", "consistent", "consumed", "answer"}
    /\ l.at \in Handled \/ (l.at \in Reload /\ l.then # "fetch") => l.handling
    /\ l.handling => l.token \in Token /\ l.at \notin {"idle", "fetch"}
    /\ l.handling /\ l.at \in Reload => l.then # "fetch"
    /\ l.handling \/ l.at = "offset" => updates # <<>>

\* The listener has consumed its token and not yet applied the change.
Consumed ==
    LET l == place["listener"] IN
    l.at \in {"consumed", "apply"} \/ (l.at \in Reload /\ l.then = "consumed")

TokensOK ==
    /\ \A t \in Token : applied[t] <= 1 /\ (applied[t] > 0 => tokens[t] # Nothing /\ ~Usable(t))
    /\ Consumed => LET t == place["listener"].token IN
                   tokens[t] # Nothing /\ ~Usable(t) /\ applied[t] = 0

\* Autonomy is a lease.
LeaseOK ==
    /\ file.profile = "autonomous" => file.until > 0
    /\ \A p \in Role : adopted[p] # Nothing /\ adopted[p].profile = "autonomous"
                                 => adopted[p].until > 0
    /\ \A t \in Token : tokens[t] # Nothing /\ tokens[t].profile = "autonomous" => tokens[t].until > 0

\* Only the listener writes a lease, and nobody overwrites it unnoticed.
GrantOK ==
    /\ file.profile = "autonomous" => file = adopted["listener"] /\ file \in ruling
    /\ place["listener"].at = "answer" => attested["listener"] = adopted["listener"]

\* While a pass of the monitor goes on under a lease, the lease is on file, or the
\* listener is past it and says so before it answers.
Newer(new, old) == new.generation > old.generation
Overtaken(lease) ==
    /\ Newer(file, lease) /\ Newer(adopted["listener"], lease)
    /\ \/ lease \in ruling
       \/ attested["listener"] # Nothing /\ Newer(attested["listener"], lease)

PassUnderLease ==
    LET lease == adopted["monitor"] IN
    place["monitor"].at \in {"load", "attest", "check", "verify"} /\ lease.profile = "autonomous"
       => file = lease \/ Overtaken(lease)

ControlInv ==
    ControlTypes /\ PassOK /\ RoundOK /\ TokensOK /\ LeaseOK /\ GrantOK /\ PassUnderLease

\* A process that goes to a point stays what it is otherwise.
LEMMA GoMoves ==
    ASSUME place \in [Role -> ControlPlace], NEW p \in Role, NEW point \in ControlPoint,
           GoTo(p, point)
    PROVE  /\ place' \in [Role -> ControlPlace]
           /\ place'[p].at = point /\ place'[p].then = place[p].then
           /\ place'[p].handling = place[p].handling /\ place'[p].token = place[p].token
           /\ \A q \in Role \ {p} : place'[q] = place[q]
BY DEF GoTo, ControlPlace

\* A process that calls for a reload comes back to the point it names.
LEMMA CallMoves ==
    ASSUME place \in [Role -> ControlPlace], NEW p \in Role, NEW point \in ControlPoint,
           Call(p, point)
    PROVE  /\ place' \in [Role -> ControlPlace]
           /\ place'[p].at = "load" /\ place'[p].then = point
           /\ place'[p].handling = place[p].handling /\ place'[p].token = place[p].token
           /\ \A q \in Role \ {p} : place'[q] = place[q]
<1>1. "load" \in ControlPoint
  BY DEF ControlPoint, Reload
<1>2. place' = [place EXCEPT ![p] = [@ EXCEPT !.at = "load", !.then = point]]
  BY DEF Call
<1> QED
  BY <1>1, <1>2 DEF ControlPlace

\* A process that begins anew has nothing in hand.
LEMMA IdlePlace ==
    /\ AtRest \in ControlPlace /\ [AtRest EXCEPT !.at = "offset"] \in ControlPlace
    /\ [AtRest EXCEPT !.at = "fetch"] \in ControlPlace
    /\ AtRest.at = "idle" /\ ~AtRest.handling
    /\ [AtRest EXCEPT !.at = "offset"].at = "offset"
    /\ [AtRest EXCEPT !.at = "fetch"].at = "fetch"
    /\ ~[AtRest EXCEPT !.at = "offset"].handling
    /\ ~[AtRest EXCEPT !.at = "fetch"].handling
BY DEF AtRest, ControlPlace, ControlPoint, Reload, Handled

\* An error ends the pass of the monitor, or the round or the command of the listener.
LEMMA RaiseMoves ==
    ASSUME ControlTypes, PassOK, NEW p \in Role, Raise(p)
    PROVE  /\ place' \in [Role -> ControlPlace]
           /\ \A q \in Role \ {p} : place'[q] = place[q]
           /\ p = "listener" => /\ place'[p].at \in {"idle", "offset"} /\ ~place'[p].handling
                                /\ place'[p].at = "offset" => place[p].handling
                                /\ UNCHANGED adopted
           /\ p = "monitor" => /\ place'[p].at = "idle" /\ ~place'[p].handling
                               /\ adopted' = [adopted EXCEPT !["monitor"] = Nothing]
<1>1. place \in [Role -> ControlPlace] /\ adopted \in [Role -> Policy \union {Nothing}]
  BY DEF ControlTypes
<1>2. CASE place[p].handling
  BY <1>1, <1>2, IdlePlace DEF Raise, PassOK, Role
<1>3. CASE ~place[p].handling
  <2>1. /\ place' = [place EXCEPT ![p] = AtRest]
        /\ adopted' = [adopted EXCEPT ![p] = IF p = "monitor" THEN Nothing ELSE adopted[p]]
    BY <1>3 DEF Raise, End
  <2>2. p = "listener" => adopted' = adopted
    BY <1>1, <2>1
  <2> QED
    BY <1>1, <2>1, <2>2, IdlePlace DEF Role
<1> QED
  BY <1>2, <1>3

\* What only the other process does keeps what is said of this one.
LEMMA PassFrame ==
    ASSUME PassOK, place'["monitor"] = place["monitor"], adopted'["monitor"] = adopted["monitor"]
    PROVE  PassOK'
BY DEF PassOK

LEMMA RoundFrame ==
    ASSUME RoundOK, place'["listener"] = place["listener"], UNCHANGED updates
    PROVE  RoundOK'
BY DEF RoundOK

LEMMA TokensFrame ==
    ASSUME TokensOK, UNCHANGED <<tokens, applied>>,
           place'["listener"] = place["listener"] \/ ~Consumed'
    PROVE  TokensOK'
BY DEF TokensOK, Consumed, Usable

\* Nothing but the place of a process and the note of the configuration changes.
LEMMA PlaceTypes ==
    ASSUME ControlTypes, place' \in [Role -> ControlPlace],
           UNCHANGED <<file, adopted, attested, tokens, now, applied>>,
           updates' \in Seq(Delivery),
           state' \in {"active", "mismatch", "expired-lease", "restart-required"}
    PROVE  ControlTypes'
<1>1. \A p \in Role : place'[p].token \in Token \union {Nothing}
  BY DEF ControlPlace
<1> QED
  BY <1>1 DEF ControlTypes, ControlTypeOK

LEMMA LeaseFrame ==
    ASSUME LeaseOK, UNCHANGED <<file, adopted, tokens>>
    PROVE  LeaseOK'
BY DEF LeaseOK

\* An error ends the pass or the handling.
LEMMA RaiseStep ==
    ASSUME ControlInv, NEW p \in Role, Raise(p),
           UNCHANGED <<file, attested, tokens, now, updates, applied, ruling>>,
           state' \in {"active", "mismatch", "expired-lease", "restart-required"}
    PROVE  ControlInv'
<1> USE DEF Role
<1>1. /\ place' \in [Role -> ControlPlace]
      /\ \A q \in Role \ {p} : place'[q] = place[q]
      /\ p = "listener" => /\ place'[p].at \in {"idle", "offset"} /\ ~place'[p].handling
                           /\ place'[p].at = "offset" => place[p].handling
                           /\ UNCHANGED adopted
      /\ p = "monitor" => /\ place'[p].at = "idle" /\ ~place'[p].handling
                          /\ adopted' = [adopted EXCEPT !["monitor"] = Nothing]
  BY RaiseMoves DEF ControlInv
<1>2. CASE p = "listener"
  <2>1. /\ place'["monitor"] = place["monitor"] /\ UNCHANGED adopted
        /\ place'["listener"].at \in {"idle", "offset"} /\ ~place'["listener"].handling
        /\ place'["listener"].at = "offset" => place["listener"].handling
    BY <1>1, <1>2
  <2>2. ~Consumed' /\ RoundOK'
    BY <2>1 DEF ControlInv, Consumed, RoundOK, Reload, Handled
  <2>3. GrantOK' /\ PassUnderLease'
    BY <2>1 DEF ControlInv, GrantOK, PassUnderLease, Overtaken, Newer
  <2> QED
    <3>1. ControlTypes'
      BY <1>1, <2>1, PlaceTypes DEF ControlInv, ControlTypes
    <3> QED
      BY <2>1, <2>2, <2>3, <3>1, PassFrame, TokensFrame, LeaseFrame DEF ControlInv
<1>3. CASE p = "monitor"
  <2>1. /\ place'["listener"] = place["listener"] /\ place'["monitor"].at = "idle"
        /\ ~place'["monitor"].handling
        /\ adopted' = [adopted EXCEPT !["monitor"] = Nothing]
    BY <1>1, <1>3
  <2>2. /\ adopted \in [Role -> Policy \union {Nothing}]
        /\ adopted'["listener"] = adopted["listener"] /\ adopted'["monitor"] = Nothing
        /\ adopted' \in [Role -> Policy \union {Nothing}]
    BY <2>1 DEF ControlInv, ControlTypes
  <2>3. ControlTypes'
    <3>1. \A q \in Role : place'[q].token \in Token \union {Nothing}
      BY <1>1 DEF ControlPlace
    <3> QED
      BY <1>1, <2>2, <3>1 DEF ControlInv, ControlTypes, ControlTypeOK
  <2>4. PassOK' /\ PassUnderLease'
    BY <2>1 DEF PassOK, PassUnderLease, Reload
  <2>5. LeaseOK'
    BY <2>2 DEF ControlInv, LeaseOK
  <2>6. GrantOK'
    BY <2>1, <2>2 DEF ControlInv, GrantOK
  <2> QED
    BY <2>1, <2>3, <2>4, <2>5, <2>6, RoundFrame, TokensFrame DEF ControlInv
<1> QED
  BY <1>2, <1>3

\* reload_policy adopts the file as it stands, or nothing.
LEMMA LoadStep ==
    ASSUME ControlInv, NEW p \in Role, Load(p)
    PROVE  ControlInv'
<1> USE DEF Role
<1>1. UNCHANGED <<file, attested, tokens, now, updates, applied, ruling>>
  BY DEF Load, outside, history
<1>2. CASE Raise(p) /\ state' \in {"mismatch", "restart-required"}
  BY <1>1, <1>2, RaiseStep
<1>3. CASE /\ adopted' = [adopted EXCEPT ![p] = file] /\ UNCHANGED state
           /\ GoTo(p, IF Expired(file) THEN "revert" ELSE "attest")
  <2>1. PICK point \in {"revert", "attest"} : GoTo(p, point)
    BY <1>3
  <2>2. /\ place' \in [Role -> ControlPlace]
        /\ place'[p].at = point /\ place'[p].then = place[p].then
        /\ place'[p].handling = place[p].handling /\ place'[p].token = place[p].token
        /\ \A q \in Role \ {p} : place'[q] = place[q]
    BY <2>1, GoMoves DEF ControlInv, ControlTypes, ControlPoint, Reload
  <2>3. /\ place[p].at = "load" /\ file \in Policy
        /\ adopted \in [Role -> Policy \union {Nothing}]
    BY DEF Load, ControlInv, ControlTypes, ControlTypeOK
  <2>4. /\ adopted' \in [Role -> Policy \union {Nothing}]
        /\ adopted'[p] = file /\ \A q \in Role \ {p} : adopted'[q] = adopted[q]
    BY <1>3, <2>3
  <2>5. ControlTypes'
    <3>1. \A q \in Role : place'[q].token \in Token \union {Nothing}
      BY <2>2 DEF ControlPlace
    <3> QED
      BY <1>1, <1>3, <2>2, <2>3, <2>4, <3>1 DEF ControlInv, ControlTypes, ControlTypeOK
  <2>6. LeaseOK'
    BY <1>1, <2>4 DEF ControlInv, LeaseOK
  <2>7. CASE p = "monitor"
    <3>1. PassOK'
      BY <2>2, <2>3, <2>4, <2>7 DEF ControlInv, PassOK, Reload
    <3>2. RoundOK' /\ TokensOK'
      BY <1>1, <2>2, <2>7, RoundFrame, TokensFrame DEF ControlInv
    <3>3. GrantOK' /\ PassUnderLease'
      BY <1>1, <2>2, <2>4, <2>7 DEF ControlInv, GrantOK, PassUnderLease
    <3> QED
      BY <2>5, <2>6, <3>1, <3>2, <3>3 DEF ControlInv
  <2>8. CASE p = "listener"
    <3>1. PassOK'
      BY <2>2, <2>4, <2>8, PassFrame DEF ControlInv
    <3>2. RoundOK' /\ TokensOK'
      BY <1>1, <2>2, <2>3, <2>8 DEF ControlInv, RoundOK, TokensOK, Consumed, Usable, Reload, Handled
    <3>3. GrantOK'
      BY <1>1, <2>2, <2>4, <2>8 DEF ControlInv, GrantOK
    <3>4. PassUnderLease'
      BY <1>1, <2>2, <2>4, <2>8 DEF ControlInv, PassUnderLease, Overtaken, Newer
    <3> QED
      BY <2>5, <2>6, <3>1, <3>2, <3>3, <3>4 DEF ControlInv
  <2> QED
    BY <2>7, <2>8
<1> QED
  BY <1>2, <1>3 DEF Load

\* The generation after that of an adopted policy is on the scale.
LEMMA NextPolicy ==
    ASSUME NEW new \in Policy, NEW old \in Policy
    PROVE  /\ new.generation \in Nat /\ new.until \in Nat /\ old.generation \in Nat
           /\ new.generation = old.generation + 1 => Newer(new, old)
BY ControlAssumption DEF Policy, Newer

\* A policy that the listener writes is newer than the lease of the pass.
LEMMA ListenerWrites ==
    ASSUME ControlInv,
           file' \in Policy, file'.generation = adopted["listener"].generation + 1,
           adopted' = [adopted EXCEPT !["listener"] = file'],
           ruling \subseteq ruling', UNCHANGED attested,
           place'["monitor"] = place["monitor"]
    PROVE  PassUnderLease'
<1> USE DEF Role
<1>1. /\ adopted \in [Role -> Policy \union {Nothing}]
      /\ adopted["listener"] \in Policy
  BY DEF ControlInv, ControlTypes
<1>2. adopted'["monitor"] = adopted["monitor"] /\ adopted'["listener"] = file'
  BY <1>1
<1> DEFINE lease == adopted["monitor"]
<1>3. SUFFICES ASSUME place["monitor"].at \in {"load", "attest", "check", "verify"},
                      lease.profile = "autonomous"
               PROVE  Overtaken(lease)'
  BY <1>2 DEF PassUnderLease
<1>4. lease \in Policy
  BY <1>3 DEF ControlInv, PassOK
<1>5. file = lease \/ Overtaken(lease)
  BY <1>3 DEF ControlInv, PassUnderLease
<1>6. CASE file = lease
  <2>1. adopted["listener"] = lease /\ lease \in ruling
    BY <1>3, <1>6 DEF ControlInv, GrantOK
  <2>2. Newer(file', lease)
    BY <1>4, <2>1, NextPolicy
  <2> QED
    BY <1>2, <2>1, <2>2 DEF Overtaken, Newer
<1>7. CASE Overtaken(lease)
  <2>1. Newer(file', adopted["listener"]) /\ Newer(adopted["listener"], lease)
    BY <1>1, <1>7, NextPolicy DEF Overtaken
  <2>2. /\ file'.generation \in Nat /\ adopted["listener"].generation \in Nat
        /\ lease.generation \in Nat
    BY <1>1, <1>4, NextPolicy
  <2>3. Newer(file', lease)
    BY <2>1, <2>2 DEF Newer
  <2> QED
    BY <1>2, <1>7, <2>3 DEF Overtaken, Newer
<1> QED
  BY <1>5, <1>6, <1>7

\* revert_expired_lease: the file that is written is no lease, and it is newer than what
\* the listener adopted if the listener wrote it.
LEMMA RevertStep ==
    ASSUME ControlInv, NEW p \in Role, Revert(p)
    PROVE  ControlInv'
<1> USE DEF Role
<1>1. UNCHANGED <<attested, tokens, now, updates, applied, ruling>> /\ place[p].at = "revert"
  BY DEF Revert, outside, history
<1>2. CASE Replace(p, Reverted(p)) /\ GoTo(p, "attest") /\ state' = "active"
  <2>1. /\ place' \in [Role -> ControlPlace]
        /\ place'[p].at = "attest" /\ place'[p].then = place[p].then
        /\ place'[p].handling = place[p].handling /\ place'[p].token = place[p].token
        /\ \A q \in Role \ {p} : place'[q] = place[q]
    BY <1>2, GoMoves DEF ControlInv, ControlTypes, ControlPoint, Reload
  <2>2. /\ adopted \in [Role -> Policy \union {Nothing}]
        /\ adopted[p] \in Policy
    BY <1>1 DEF ControlInv, ControlTypes, PassOK
  <2>3. /\ file' \in Policy /\ file'.profile = "assisted"
        /\ file'.generation = adopted[p].generation + 1
    BY <1>2, <2>2, ControlAssumption DEF Replace, Reverted, Policy, Profile
  <2>4. /\ adopted' = [adopted EXCEPT ![p] = file']
        /\ adopted' \in [Role -> Policy \union {Nothing}]
        /\ adopted'[p] = file' /\ \A q \in Role \ {p} : adopted'[q] = adopted[q]
    BY <1>2, <2>2, <2>3 DEF Replace
  <2>5. ControlTypes'
    <3>1. \A q \in Role : place'[q].token \in Token \union {Nothing}
      BY <2>1 DEF ControlPlace
    <3> QED
      BY <1>1, <1>2, <2>1, <2>3, <2>4, <3>1 DEF ControlInv, ControlTypes, ControlTypeOK
  <2>6. LeaseOK'
    BY <1>1, <2>3, <2>4 DEF ControlInv, LeaseOK
  <2>7. CASE p = "monitor"
    <3>1. PassOK'
      BY <1>1, <2>1, <2>3, <2>4, <2>7 DEF ControlInv, PassOK, Reload
    <3>2. RoundOK' /\ TokensOK'
      BY <1>1, <2>1, <2>7, RoundFrame, TokensFrame DEF ControlInv
    <3>3. GrantOK' /\ PassUnderLease'
      BY <1>1, <2>1, <2>3, <2>4, <2>7 DEF ControlInv, GrantOK, PassUnderLease
    <3> QED
      BY <2>5, <2>6, <3>1, <3>2, <3>3 DEF ControlInv
  <2>8. CASE p = "listener"
    <3>1. PassOK'
      BY <2>1, <2>4, <2>8, PassFrame DEF ControlInv
    <3>2. RoundOK' /\ TokensOK'
      BY <1>1, <2>1, <2>8 DEF ControlInv, RoundOK, TokensOK, Consumed, Usable, Reload, Handled
    <3>3. GrantOK'
      BY <2>1, <2>3, <2>8 DEF GrantOK
    <3>4. PassUnderLease'
      BY <1>1, <2>1, <2>3, <2>4, <2>8, ListenerWrites
    <3> QED
      BY <2>5, <2>6, <3>1, <3>2, <3>3, <3>4 DEF ControlInv
  <2> QED
    BY <2>7, <2>8
<1>3. CASE Raise(p) /\ state' = "expired-lease" /\ UNCHANGED file
  BY <1>1, <1>3, RaiseStep
<1>4. CASE /\ RecoveryAllowed(p) /\ GoTo(p, place[p].then)
           /\ state' = "expired-lease" /\ UNCHANGED <<file, adopted>>
  <2>1. /\ p = "listener" /\ place[p].then \in {"fetch", "consistent", "consumed"}
    BY <1>1, <1>4 DEF RecoveryAllowed, ControlInv, PassOK, RoundOK, Reload
  <2>2. /\ place' \in [Role -> ControlPlace]
        /\ place'["listener"].at = place["listener"].then
        /\ place'["listener"].then = place["listener"].then
        /\ place'["listener"].handling = place["listener"].handling
        /\ place'["listener"].token = place["listener"].token
        /\ place'["monitor"] = place["monitor"]
    BY <1>4, <2>1, GoMoves DEF ControlInv, ControlTypes, ControlPoint, Handled
  <2>3. ControlTypes'
    BY <1>1, <1>4, <2>2, PlaceTypes DEF ControlInv, ControlTypes
  <2>4. PassOK' /\ LeaseOK'
    BY <1>1, <1>4, <2>2, PassFrame, LeaseFrame DEF ControlInv
  <2>5. RoundOK' /\ TokensOK'
    BY <1>1, <1>4, <2>1, <2>2 DEF RecoveryAllowed, ControlInv, RoundOK, TokensOK, Consumed, Usable, Reload, Handled
  <2>6. GrantOK' /\ PassUnderLease'
    BY <1>1, <1>4, <2>1, <2>2 DEF ControlInv, GrantOK, PassUnderLease, Overtaken, Newer
  <2> QED
    BY <2>3, <2>4, <2>5, <2>6 DEF ControlInv
<1> QED
  BY <1>2, <1>3, <1>4 DEF Revert

\* A process attests what it adopted, and nothing else.
LEMMA AttestStep ==
    ASSUME ControlInv, NEW p \in Role, Attest(p)
    PROVE  ControlInv'
<1> USE DEF Role
<1>1. /\ place[p].at = "attest" /\ GoTo(p, place[p].then) /\ state' = "active"
      /\ attested' = [attested EXCEPT ![p] = adopted[p]]
      /\ UNCHANGED <<file, adopted, tokens, now, updates, applied, ruling>>
  BY DEF Attest, outside, history
<1>2. /\ place[p].then \in ControlPoint
      /\ p = "monitor" => place[p].then = "check"
      /\ p = "listener" => place[p].then \in {"fetch", "consistent", "consumed", "answer"}
  BY <1>1 DEF ControlInv, PassOK, RoundOK, ControlPoint, Reload, Handled
<1>3. /\ place' \in [Role -> ControlPlace]
      /\ place'[p].at = place[p].then /\ place'[p].then = place[p].then
      /\ place'[p].handling = place[p].handling /\ place'[p].token = place[p].token
      /\ \A q \in Role \ {p} : place'[q] = place[q]
  BY <1>1, <1>2, GoMoves DEF ControlInv, ControlTypes
<1>4. /\ adopted[p] \in Policy
      /\ attested' \in [Role -> Policy \union {Nothing}]
      /\ attested'[p] = adopted[p] /\ \A q \in Role \ {p} : attested'[q] = attested[q]
  BY <1>1 DEF ControlInv, ControlTypes, PassOK
<1>5. ControlTypes'
  <2>1. \A q \in Role : place'[q].token \in Token \union {Nothing}
    BY <1>3 DEF ControlPlace
  <2> QED
    BY <1>1, <1>3, <1>4, <2>1 DEF ControlInv, ControlTypes, ControlTypeOK
<1>6. LeaseOK'
  BY <1>1, LeaseFrame DEF ControlInv
<1>7. CASE p = "monitor"
  <2>1. PassOK'
    BY <1>1, <1>2, <1>3, <1>4, <1>7 DEF ControlInv, PassOK, Reload
  <2>2. RoundOK' /\ TokensOK'
    BY <1>1, <1>3, <1>7, RoundFrame, TokensFrame DEF ControlInv
  <2>3. GrantOK'
    BY <1>1, <1>3, <1>4, <1>7 DEF ControlInv, GrantOK
  <2>4. PassUnderLease'
    BY <1>1, <1>3, <1>4, <1>7 DEF ControlInv, PassUnderLease, Overtaken, Newer
  <2> QED
    BY <1>5, <1>6, <2>1, <2>2, <2>3, <2>4 DEF ControlInv
<1>8. CASE p = "listener"
  <2>1. PassOK'
    BY <1>1, <1>3, <1>8, PassFrame DEF ControlInv
  <2>2. RoundOK' /\ TokensOK'
    BY <1>1, <1>2, <1>3, <1>8 DEF ControlInv, RoundOK, TokensOK, Consumed, Usable, Reload, Handled
  <2>3. GrantOK'
    BY <1>1, <1>3, <1>4, <1>8 DEF ControlInv, GrantOK
  <2>4. PassUnderLease'
    <3>1. adopted["listener"] # Nothing
      BY <1>4, <1>8, NothingAssumption
    <3> QED
      BY <1>1, <1>3, <1>4, <1>8, <3>1 DEF ControlInv, PassUnderLease, Overtaken, Newer
  <2> QED
    BY <1>5, <1>6, <2>1, <2>2, <2>3, <2>4 DEF ControlInv
<1> QED
  BY <1>7, <1>8

\* A step that only moves a process, and leaves the pass of the monitor where it is
\* under its lease or takes it out of it.
LEMMA MoveStep ==
    ASSUME ControlInv, place' \in [Role -> ControlPlace],
           UNCHANGED <<file, adopted, attested, tokens, now, applied, ruling>>,
           updates' = updates \/ updates' \in Seq(Delivery),
           state' \in {"active", "mismatch", "expired-lease", "restart-required"},
           PassOK', RoundOK',
           Consumed' => Consumed /\ place'["listener"].token = place["listener"].token,
           place'["listener"].at = "answer" => place["listener"].at = "answer",
           place'["monitor"].at \in {"load", "attest", "check", "verify"} =>
              place["monitor"].at \in {"load", "attest", "check", "verify"}
    PROVE  ControlInv'
<1>1. ControlTypes' /\ LeaseOK'
  BY PlaceTypes, LeaseFrame DEF ControlInv, ControlTypes
<1>2. TokensOK'
  <2>1. \A t \in Token : Usable(t)' <=> Usable(t)
    BY DEF Usable
  <2>2. Consumed' => place["listener"].token \in Token
    BY DEF ControlInv, RoundOK, Consumed, Handled
  <2> QED
    BY <2>1, <2>2 DEF ControlInv, TokensOK
<1>3. GrantOK' /\ PassUnderLease'
  BY DEF ControlInv, GrantOK, PassUnderLease, Overtaken, Newer
<1> QED
  BY <1>1, <1>2, <1>3 DEF ControlInv

\* require_consistent_policy: the check of the policy decides where a process goes.
LEMMA CheckStep ==
    ASSUME ControlInv, NEW p \in Role, NEW from, NEW to,
           <<from, to>> \in {<<"check", "verify">>, <<"consistent", "consume">>, <<"consumed", "apply">>},
           Check(p, from, to)
    PROVE  ControlInv'
<1> USE DEF Role
<1>1. /\ place[p].at = from
      /\ UNCHANGED <<file, attested, tokens, now, updates, applied, ruling>>
  BY DEF Check, outside, history
<1>2. CASE Raise(p) /\ state' = "mismatch"
  BY <1>1, <1>2, RaiseStep
<1>3. CASE GoTo(p, to) /\ UNCHANGED <<adopted, state>>
  <2>1. to \in ControlPoint
    BY DEF ControlPoint, Handled
  <2>2. /\ place' \in [Role -> ControlPlace]
        /\ place'[p].at = to /\ place'[p].then = place[p].then
        /\ place'[p].handling = place[p].handling /\ place'[p].token = place[p].token
        /\ \A q \in Role \ {p} : place'[q] = place[q]
    BY <1>3, <2>1, GoMoves DEF ControlInv, ControlTypes
  <2>3. state' \in {"active", "mismatch", "expired-lease", "restart-required"}
    BY <1>3 DEF ControlInv, ControlTypes, ControlTypeOK
  <2>4. CASE p = "monitor"
    <3>1. from = "check" /\ to = "verify"
      BY <1>1, <2>4 DEF ControlInv, PassOK, Reload
    <3>2. PassOK' /\ RoundOK'
      BY <1>1, <1>3, <2>2, <2>4, <3>1, RoundFrame DEF ControlInv, PassOK, Reload
    <3> QED
      BY <1>1, <1>3, <2>2, <2>3, <2>4, <3>1, <3>2, MoveStep DEF Consumed
  <2>5. CASE p = "listener"
    <3>1. from # "check"
      BY <1>1, <2>5 DEF ControlInv, RoundOK, Reload, Handled
    <3>2. PassOK' /\ RoundOK'
      BY <1>1, <1>3, <2>2, <2>5, <3>1, PassFrame DEF ControlInv, RoundOK, Reload, Handled
    <3>3. Consumed' => Consumed
      BY <1>1, <2>2, <2>5, <3>1 DEF Consumed, Reload
    <3> QED
      BY <1>1, <1>3, <2>2, <2>3, <2>5, <3>1, <3>2, <3>3, MoveStep
  <2> QED
    BY <2>4, <2>5
<1> QED
  BY <1>2, <1>3 DEF Check

\* The pass of the monitor begins with the lease that is on file.
LEMMA PassBeginsStep ==
    ASSUME ControlInv, PassBegins
    PROVE  ControlInv'
<1> USE DEF Role
<1>1. /\ place["monitor"].at = "idle" /\ Call("monitor", "check")
      /\ adopted' = [adopted EXCEPT !["monitor"] = file]
      /\ UNCHANGED <<file, attested, state, tokens, now, updates, applied, ruling>>
  BY DEF PassBegins, outside, history
<1>2. /\ place' \in [Role -> ControlPlace]
      /\ place'["monitor"].at = "load" /\ place'["monitor"].then = "check"
      /\ place'["monitor"].handling = place["monitor"].handling
      /\ place'["listener"] = place["listener"]
  BY <1>1, CallMoves DEF ControlInv, ControlTypes, ControlPoint
<1>3. /\ file \in Policy
      /\ adopted' \in [Role -> Policy \union {Nothing}]
      /\ adopted'["monitor"] = file /\ adopted'["listener"] = adopted["listener"]
  BY <1>1 DEF ControlInv, ControlTypes, ControlTypeOK
<1>4. ControlTypes'
  <2>1. \A q \in Role : place'[q].token \in Token \union {Nothing}
    BY <1>2 DEF ControlPlace
  <2> QED
    BY <1>1, <1>2, <1>3, <2>1 DEF ControlInv, ControlTypes, ControlTypeOK
<1>5. PassOK' /\ LeaseOK'
  <2>1. PassOK'
    BY <1>2, <1>3 DEF ControlInv, PassOK, Reload
  <2>2. LeaseOK'
    BY <1>1, <1>3 DEF ControlInv, LeaseOK
  <2> QED
    BY <2>1, <2>2
<1>6. RoundOK' /\ TokensOK'
  BY <1>1, <1>2, RoundFrame, TokensFrame DEF ControlInv
<1>7. GrantOK' /\ PassUnderLease'
  BY <1>1, <1>2, <1>3 DEF ControlInv, GrantOK, PassUnderLease
<1> QED
  BY <1>4, <1>5, <1>6, <1>7 DEF ControlInv

\* A pass ends, having written the reversion of its lease or nothing.
LEMMA EndStep ==
    ASSUME ControlInv, End("monitor"),
           file' = file \/ (file' \in Policy /\ file'.profile = "assisted"),
           UNCHANGED <<attested, tokens, now, updates, applied, ruling>>,
           state' \in {"active", "mismatch", "expired-lease", "restart-required"}
    PROVE  ControlInv'
<1> USE DEF Role
<1>1. /\ place' \in [Role -> ControlPlace]
      /\ place'["monitor"].at = "idle" /\ ~place'["monitor"].handling
      /\ place'["listener"] = place["listener"]
      /\ adopted' = [adopted EXCEPT !["monitor"] = Nothing]
  BY IdlePlace DEF End, ControlInv, ControlTypes
<1>2. /\ adopted'["listener"] = adopted["listener"] /\ adopted'["monitor"] = Nothing
      /\ adopted' \in [Role -> Policy \union {Nothing}]
  BY <1>1 DEF ControlInv, ControlTypes
<1>3. ControlTypes'
  <2>1. \A q \in Role : place'[q].token \in Token \union {Nothing}
    BY <1>1 DEF ControlPlace
  <2> QED
    BY <1>1, <1>2, <2>1 DEF ControlInv, ControlTypes, ControlTypeOK
<1>4. PassOK' /\ PassUnderLease'
  BY <1>1 DEF PassOK, PassUnderLease, Reload
<1>5. LeaseOK'
  BY <1>2 DEF ControlInv, LeaseOK
<1>6. GrantOK'
  BY <1>1, <1>2 DEF ControlInv, GrantOK
<1> QED
  BY <1>1, <1>3, <1>4, <1>5, <1>6, RoundFrame, TokensFrame DEF ControlInv

\* verify_autonomous_merge reverts a lease that ended, or takes the pass on.
LEMMA VerifyStep ==
    ASSUME ControlInv, Verify
    PROVE  ControlInv'
<1> USE DEF Role
<1>1. /\ place["monitor"].at = "verify"
      /\ UNCHANGED <<attested, tokens, now, updates, applied, ruling>>
      /\ adopted["monitor"] \in Policy
      /\ state \in {"active", "mismatch", "expired-lease", "restart-required"}
  BY DEF Verify, outside, history, ControlInv, PassOK, ControlTypes,
         ControlTypeOK
<1>2. CASE /\ End("monitor") /\ adopted["monitor"].generation < MaxGeneration
           /\ file' = Reverted("monitor") /\ state' = "active"
  <2>1. file' \in Policy /\ file'.profile = "assisted"
    BY <1>1, <1>2, ControlAssumption DEF Reverted, Policy, Profile
  <2> QED
    BY <1>1, <1>2, <2>1, EndStep
<1>3. CASE /\ End("monitor") /\ UNCHANGED file
           /\ state' \in {"active", "mismatch", "expired-lease", "restart-required"}
  BY <1>1, <1>3, EndStep
<1>4. CASE GoTo("monitor", "merge") /\ UNCHANGED <<file, adopted, state>>
  <2>1. /\ place' \in [Role -> ControlPlace] /\ place'["monitor"].at = "merge"
        /\ place'["monitor"].handling = place["monitor"].handling
        /\ place'["listener"] = place["listener"]
    BY <1>4, GoMoves DEF ControlInv, ControlTypes, ControlPoint
  <2>2. PassOK' /\ RoundOK'
    BY <1>1, <1>4, <2>1, RoundFrame DEF ControlInv, PassOK, Reload
  <2> QED
    BY <1>1, <1>4, <2>1, <2>2, MoveStep DEF Consumed
<1> QED
  BY <1>1, <1>2, <1>3, <1>4 DEF Verify

LEMMA PassMergesStep ==
    ASSUME ControlInv, MergeUnattended
    PROVE  ControlInv'
BY EndStep DEF MergeUnattended, outside, history, ControlInv, ControlTypes,
               ControlTypeOK

LEMMA PollStep ==
    ASSUME ControlInv, Poll
    PROVE  ControlInv'
<1> USE DEF Role
<1>1. /\ place["listener"].at = "idle" /\ Call("listener", "fetch")
      /\ UNCHANGED <<file, adopted, attested, state, tokens, now, updates, applied, ruling>>
  BY DEF Poll, outside, history
<1>2. /\ place' \in [Role -> ControlPlace]
      /\ place'["listener"].at = "load" /\ place'["listener"].then = "fetch"
      /\ place'["listener"].handling = place["listener"].handling
      /\ place'["monitor"] = place["monitor"]
  BY <1>1, CallMoves DEF ControlInv, ControlTypes, ControlPoint
<1>3. PassOK' /\ RoundOK' /\ ~Consumed'
  BY <1>1, <1>2, PassFrame DEF ControlInv, RoundOK, Consumed, Reload, Handled
<1>4. state' \in {"active", "mismatch", "expired-lease", "restart-required"}
  BY <1>1 DEF ControlInv, ControlTypes, ControlTypeOK
<1> QED
  BY <1>1, <1>2, <1>3, <1>4, MoveStep

\* An update is answered with a command of its own, held back, or left for the next round.
LEMMA FetchStep ==
    ASSUME ControlInv, Fetch
    PROVE  ControlInv'
<1> USE DEF Role
<1>1. /\ place["listener"].at = "fetch"
      /\ UNCHANGED <<file, adopted, attested, state, tokens, now, updates, applied, ruling>>
      /\ state' \in {"active", "mismatch", "expired-lease", "restart-required"}
  BY DEF Fetch, outside, history, ControlInv, ControlTypes, ControlTypeOK
<1>2. CASE place' = [place EXCEPT !["listener"] = AtRest]
  <2>1. /\ place' \in [Role -> ControlPlace] /\ place'["listener"].at = "idle"
        /\ ~place'["listener"].handling /\ place'["monitor"] = place["monitor"]
    BY <1>2, IdlePlace DEF ControlInv, ControlTypes
  <2>2. PassOK' /\ RoundOK' /\ ~Consumed'
    BY <1>1, <1>2, <2>1, PassFrame DEF ControlInv, RoundOK, Consumed, Reload, Handled
  <2> QED
    BY <1>1, <2>1, <2>2, MoveStep
<1>3. CASE updates # <<>> /\ GoTo("listener", "offset")
  <2>1. /\ place' \in [Role -> ControlPlace] /\ place'["listener"].at = "offset"
        /\ place'["listener"].handling = place["listener"].handling
        /\ place'["monitor"] = place["monitor"]
    BY <1>3, GoMoves DEF ControlInv, ControlTypes, ControlPoint
  <2>2. PassOK' /\ RoundOK' /\ ~Consumed'
    BY <1>1, <1>3, <2>1, PassFrame DEF ControlInv, RoundOK, Consumed, Reload, Handled
  <2> QED
    BY <1>1, <2>1, <2>2, MoveStep
<1>4. CASE /\ updates # <<>> /\ Head(updates).command = "confirm"
           /\ place' = [place EXCEPT !["listener"] =
                 [at |-> "load", handling |-> TRUE, token |-> Head(updates).token,
                  then |-> "consistent"]]
  <2>1. Head(updates).token \in Token
    <3>1. Head(updates) \in Delivery
      BY <1>4 DEF ControlInv, ControlTypes
    <3> QED
      BY <1>4, <3>1 DEF Delivery
  <2> DEFINE new == [at |-> "load", handling |-> TRUE, token |-> Head(updates).token,
                     then |-> "consistent"]
  <2>2. new \in ControlPlace
    BY <2>1 DEF ControlPlace, ControlPoint, Reload, Handled
  <2>3. /\ place' \in [Role -> ControlPlace] /\ place'["monitor"] = place["monitor"]
        /\ place'["listener"] = new
    BY <1>4, <2>2 DEF ControlInv, ControlTypes
  <2>4. PassOK' /\ RoundOK' /\ ~Consumed'
    BY <1>1, <1>4, <2>1, <2>3, PassFrame DEF ControlInv, RoundOK, Consumed, Reload, Handled
  <2> QED
    BY <1>1, <2>3, <2>4, MoveStep
<1> QED
  BY <1>2, <1>3, <1>4 DEF Fetch

\* What is asked for is asked for until later than now, if it is a lease.
LEMMA AskStep ==
    ASSUME ControlInv, NEW t \in Token, NEW profile \in Wants[t],
           Ask(t, profile)
    PROVE  ControlInv'
<1> USE DEF Role
<1> DEFINE payload == [live |-> TRUE, profile |-> profile, until |-> Until(profile)]
<1>1. /\ tokens[t] = Nothing /\ tokens' = [tokens EXCEPT ![t] = payload]
      /\ place["listener"].at = "fetch"
      /\ UNCHANGED <<file, adopted, attested, state, place, now, updates, applied, ruling>>
  BY DEF Ask, outside, history
<1>2. /\ tokens \in [Token -> Payload \union {Nothing}] /\ now \in 0..MaxTime
      /\ MaxTime \in Nat /\ profile \in Profile
  BY ControlAssumption DEF ControlInv, ControlTypes, ControlTypeOK
<1>3. payload \in Payload /\ (payload.profile = "autonomous" => payload.until > 0)
  BY <1>2 DEF Payload, Until
<1>4. /\ tokens' \in [Token -> Payload \union {Nothing}] /\ tokens'[t] = payload
      /\ \A u \in Token \ {t} : tokens'[u] = tokens[u]
  BY <1>1, <1>2, <1>3
<1>5. ControlTypes'
  BY <1>1, <1>4 DEF ControlInv, ControlTypes, ControlTypeOK
<1>6. LeaseOK'
  BY <1>1, <1>3, <1>4 DEF ControlInv, LeaseOK
<1>7. TokensOK'
  <2>1. \A u \in Token : applied[u] > 0 => u # t
    BY <1>1 DEF ControlInv, TokensOK
  <2>2. ~Consumed'
    BY <1>1 DEF Consumed, Reload
  <2> QED
    BY <1>1, <1>4, <2>1, <2>2 DEF ControlInv, TokensOK, Usable
<1>8. PassOK' /\ RoundOK' /\ GrantOK' /\ PassUnderLease'
  BY <1>1 DEF ControlInv, PassOK, RoundOK, GrantOK, PassUnderLease, Overtaken, Newer
<1> QED
  BY <1>5, <1>6, <1>7, <1>8 DEF ControlInv

\* A token that stops being live.
LEMMA TokenSpent ==
    ASSUME ControlInv, NEW t \in Token, Usable(t),
           tokens' = [tokens EXCEPT ![t].live = FALSE]
    PROVE  /\ tokens' \in [Token -> Payload \union {Nothing}]
           /\ tokens'[t] # Nothing /\ ~Usable(t)'
           /\ applied[t] = 0
           /\ \A u \in Token : /\ tokens'[u] # Nothing <=> tokens[u] # Nothing
                               /\ Usable(u)' => Usable(u)
                               /\ tokens'[u] # Nothing => /\ tokens'[u].profile = tokens[u].profile
                                                       /\ tokens'[u].until = tokens[u].until
<1>1. tokens \in [Token -> Payload \union {Nothing}] /\ tokens[t] # Nothing
  BY DEF ControlInv, ControlTypes, ControlTypeOK, Usable
<1>2. tokens[t] \in Payload
  BY <1>1
<1> DEFINE spent == [tokens[t] EXCEPT !.live = FALSE]
<1>3. /\ spent \in Payload /\ ~spent.live
      /\ spent.profile = tokens[t].profile /\ spent.until = tokens[t].until
  BY <1>2 DEF Payload
<1>4. Nothing \notin Payload
  BY NothingAssumption
<1>5. spent # Nothing
  BY <1>3, <1>4
<1>6. /\ tokens' = [tokens EXCEPT ![t] = spent]
      /\ tokens' \in [Token -> Payload \union {Nothing}]
      /\ tokens'[t] = spent /\ \A u \in Token \ {t} : tokens'[u] = tokens[u]
  BY <1>1, <1>3
<1>7. applied[t] = 0
  BY DEF ControlInv, ControlTypes, TokensOK
<1> HIDE DEF spent
<1> QED
  BY <1>1, <1>3, <1>5, <1>6, <1>7 DEF Usable

\* consume_callback_token: of a token that is consumed nothing was applied before.
LEMMA ConsumeStep ==
    ASSUME ControlInv, Consume
    PROVE  ControlInv'
<1> USE DEF Role
<1>1. /\ place["listener"].at = "consume"
      /\ UNCHANGED <<file, attested, state, now, updates, applied, ruling>>
      /\ state' \in {"active", "mismatch", "expired-lease", "restart-required"}
  BY DEF Consume, outside, history, ControlInv, ControlTypes, ControlTypeOK
<1>2. PICK t \in Token : t = place["listener"].token
  BY <1>1 DEF ControlInv, RoundOK, Handled
<1>3. CASE Raise("listener") /\ UNCHANGED tokens
  BY <1>1, <1>3, RaiseStep
<1>4. CASE /\ Usable(t) /\ tokens' = [tokens EXCEPT ![t].live = FALSE]
           /\ Call("listener", "consumed") /\ UNCHANGED adopted
  <2>1. /\ tokens' \in [Token -> Payload \union {Nothing}]
        /\ tokens'[t] # Nothing /\ ~Usable(t)'
        /\ applied[t] = 0
        /\ \A u \in Token : /\ tokens'[u] # Nothing <=> tokens[u] # Nothing
                            /\ Usable(u)' => Usable(u)
                            /\ tokens'[u] # Nothing => /\ tokens'[u].profile = tokens[u].profile
                                                    /\ tokens'[u].until = tokens[u].until
    BY <1>2, <1>4, TokenSpent
  <2>2. /\ place' \in [Role -> ControlPlace]
        /\ place'["listener"].at = "load" /\ place'["listener"].then = "consumed"
        /\ place'["listener"].token = t
        /\ place'["listener"].handling = place["listener"].handling
        /\ place'["monitor"] = place["monitor"]
    BY <1>4, <1>2, CallMoves DEF ControlInv, ControlTypes, ControlPoint, Handled
  <2>3. ControlTypes'
    <3>1. \A q \in Role : place'[q].token \in Token \union {Nothing}
      BY <2>2 DEF ControlPlace
    <3> QED
      BY <1>1, <1>4, <2>1, <2>2, <3>1 DEF ControlInv, ControlTypes, ControlTypeOK
  <2>4. PassOK' /\ RoundOK'
    BY <1>1, <1>2, <1>4, <2>2, PassFrame DEF ControlInv, RoundOK, Reload, Handled
  <2>5. LeaseOK'
    BY <1>1, <1>4, <2>1 DEF ControlInv, LeaseOK
  <2>6. TokensOK'
    BY <1>1, <2>1, <2>2 DEF ControlInv, TokensOK, Usable
  <2>7. GrantOK' /\ PassUnderLease'
    BY <1>1, <1>4, <2>2 DEF ControlInv, GrantOK, PassUnderLease, Overtaken, Newer
  <2> QED
    BY <2>3, <2>4, <2>5, <2>6, <2>7 DEF ControlInv
<1> QED
  BY <1>2, <1>3, <1>4 DEF Consume

LEMMA ExpireTokenStep ==
    ASSUME ControlInv, NEW t \in Token, ExpireToken(t)
    PROVE  ControlInv'
<1>1. /\ Usable(t) /\ tokens' = [tokens EXCEPT ![t].live = FALSE]
      /\ UNCHANGED <<file, adopted, attested, state, place, now, updates, applied, ruling>>
  BY DEF ExpireToken, outside, history
<1>2. /\ tokens' \in [Token -> Payload \union {Nothing}]
      /\ \A u \in Token : /\ tokens'[u] # Nothing <=> tokens[u] # Nothing
                          /\ Usable(u)' => Usable(u)
                          /\ tokens'[u] # Nothing => /\ tokens'[u].profile = tokens[u].profile
                                                  /\ tokens'[u].until = tokens[u].until
  BY <1>1, TokenSpent
<1>3. ControlTypes'
  BY <1>1, <1>2 DEF ControlInv, ControlTypes, ControlTypeOK
<1>4. LeaseOK'
  BY <1>1, <1>2 DEF ControlInv, LeaseOK
<1>5. TokensOK'
  <2>1. Consumed => place["listener"].token \in Token
    BY DEF ControlInv, RoundOK, Consumed, Handled
  <2>2. Consumed' <=> Consumed
    BY <1>1 DEF Consumed
  <2> QED
    BY <1>1, <1>2, <2>1, <2>2 DEF ControlInv, TokensOK
<1>6. PassOK' /\ RoundOK' /\ GrantOK' /\ PassUnderLease'
  BY <1>1 DEF ControlInv, PassOK, RoundOK, GrantOK, PassUnderLease, Overtaken, Newer
<1> QED
  BY <1>3, <1>4, <1>5, <1>6 DEF ControlInv

\* apply_autonomy_change: the change of a consumed token is applied for the first time.
LEMMA ApplyStep ==
    ASSUME ControlInv, Apply
    PROVE  ControlInv'
<1> USE DEF Role
<1>1. /\ place["listener"].at = "apply"
      /\ UNCHANGED <<attested, state, tokens, now, updates>>
      /\ state' \in {"active", "mismatch", "expired-lease", "restart-required"}
  BY DEF Apply, outside, ControlInv, ControlTypes, ControlTypeOK
<1>2. PICK t \in Token : t = place["listener"].token
  BY <1>1 DEF ControlInv, RoundOK, Handled
<1>3. CASE Raise("listener") /\ UNCHANGED <<file, applied, ruling>>
  BY <1>1, <1>3, RaiseStep
<1> DEFINE change == [generation |-> adopted["listener"].generation + 1,
                      until |-> tokens[t].until, profile |-> tokens[t].profile]
<1>4. CASE /\ Replace("listener", change) /\ Call("listener", "answer")
           /\ applied' = [applied EXCEPT ![t] = @ + 1] /\ ruling' = ruling \union {change}
  <2>1. /\ tokens[t] \in Payload /\ ~Usable(t) /\ applied[t] = 0
        /\ applied \in [Token -> Nat]
    BY <1>1, <1>2 DEF ControlInv, ControlTypes, ControlTypeOK, TokensOK, Consumed
  <2>2. /\ file' = change /\ adopted' = [adopted EXCEPT !["listener"] = file']
        /\ change.generation <= MaxGeneration
    BY <1>4 DEF Replace
  <2>3. /\ adopted \in [Role -> Policy \union {Nothing}]
        /\ adopted["listener"] \in Policy
    BY DEF ControlInv, ControlTypes
  <2>4. /\ file' \in Policy
        /\ file'.generation = adopted["listener"].generation + 1
        /\ file'.profile = tokens[t].profile /\ file'.until = tokens[t].until
    BY <2>1, <2>2, <2>3, ControlAssumption DEF Policy, Payload
  <2>5. /\ adopted'["listener"] = file' /\ adopted'["monitor"] = adopted["monitor"]
        /\ adopted' \in [Role -> Policy \union {Nothing}]
    BY <2>2, <2>3, <2>4
  <2>6. /\ place' \in [Role -> ControlPlace]
        /\ place'["listener"].at = "load" /\ place'["listener"].then = "answer"
        /\ place'["listener"].token = t
        /\ place'["listener"].handling = place["listener"].handling
        /\ place'["monitor"] = place["monitor"]
    BY <1>2, <1>4, CallMoves DEF ControlInv, ControlTypes, ControlPoint, Handled
  <2>7. /\ applied' \in [Token -> Nat] /\ applied'[t] = 1
        /\ \A u \in Token \ {t} : applied'[u] = applied[u]
    BY <1>4, <2>1
  <2>8. ControlTypes'
    <3>1. \A q \in Role : place'[q].token \in Token \union {Nothing}
      BY <2>6 DEF ControlPlace
    <3> QED
      BY <1>1, <2>4, <2>5, <2>6, <2>7, <3>1 DEF ControlInv, ControlTypes, ControlTypeOK
  <2>9. PassOK' /\ RoundOK'
    BY <1>1, <1>2, <2>5, <2>6, PassFrame DEF ControlInv, RoundOK, Reload, Handled
  <2>10. TokensOK'
    <3>1. tokens[t] # Nothing
      BY <1>1, <1>2 DEF ControlInv, TokensOK, Consumed
    <3>2. ~Consumed'
      BY <2>6 DEF Consumed, Reload
    <3> QED
      BY <1>1, <2>1, <2>7, <3>1, <3>2 DEF ControlInv, TokensOK, Usable
  <2>11. LeaseOK'
    <3>1. file'.profile = "autonomous" => file'.until > 0
      BY <1>1, <1>2, <2>4 DEF ControlInv, LeaseOK, TokensOK, Consumed
    <3> QED
      BY <1>1, <2>5, <3>1 DEF ControlInv, LeaseOK
  <2>12. GrantOK'
    BY <1>4, <2>2, <2>5, <2>6 DEF GrantOK
  <2>13. PassUnderLease'
    BY <1>1, <1>4, <2>2, <2>4, <2>6, ListenerWrites
  <2> QED
    BY <2>8, <2>9, <2>10, <2>11, <2>12, <2>13 DEF ControlInv
<1> QED
  BY <1>1, <1>2, <1>3, <1>4 DEF Apply, history

\* When the operator is told, every process that attests attests that change or a later one.
LEMMA AnswerStep ==
    ASSUME ControlInv, Answer
    PROVE  ControlInv'
<1> USE DEF Role
<1>1. /\ place["listener"].at = "answer" /\ place["listener"].handling
      /\ UNCHANGED <<file, adopted, attested, state, tokens, now, updates, applied>>
      /\ state' \in {"active", "mismatch", "expired-lease", "restart-required"}
  BY DEF Answer, outside, ControlInv, ControlTypes, ControlTypeOK, RoundOK, Handled
<1>2. CASE place' = [place EXCEPT !["listener"] = AtRest] /\ UNCHANGED ruling
  <2>1. /\ place' \in [Role -> ControlPlace] /\ place'["listener"].at = "idle"
        /\ ~place'["listener"].handling /\ place'["monitor"] = place["monitor"]
    BY <1>2, IdlePlace DEF ControlInv, ControlTypes
  <2>2. PassOK' /\ RoundOK' /\ ~Consumed'
    BY <1>1, <2>1, PassFrame DEF ControlInv, RoundOK, Consumed, Reload, Handled
  <2> QED
    BY <1>1, <1>2, <2>1, <2>2, MoveStep
<1>3. CASE place' = [place EXCEPT !["listener"].at = "offset"] /\ ruling' = {adopted["listener"]}
  <2>1. /\ place' \in [Role -> ControlPlace] /\ place'["listener"].at = "offset"
        /\ place'["listener"].handling = place["listener"].handling
        /\ place'["listener"].token = place["listener"].token
        /\ place'["monitor"] = place["monitor"]
    BY <1>3, GoMoves DEF ControlInv, ControlTypes, ControlPoint, GoTo
  <2>2. PassOK' /\ RoundOK' /\ ~Consumed'
    BY <1>1, <2>1, PassFrame DEF ControlInv, RoundOK, Consumed, Reload, Handled
  <2>3. ControlTypes'
    BY <1>1, <2>1, PlaceTypes DEF ControlInv, ControlTypes
  <2>4. TokensOK' /\ LeaseOK'
    BY <1>1, <2>2, TokensFrame, LeaseFrame DEF ControlInv
  <2>5. GrantOK'
    BY <1>1, <1>3, <2>1 DEF ControlInv, GrantOK
  <2>6. PassUnderLease'
    <3>1. /\ attested["listener"] = adopted["listener"] /\ adopted["listener"] # Nothing
          /\ file.profile = "autonomous" => file = adopted["listener"]
      BY <1>1, NothingAssumption DEF ControlInv, ControlTypes, GrantOK
    <3> QED
      BY <1>1, <2>1, <3>1 DEF ControlInv, PassUnderLease, Overtaken
  <2> QED
    BY <2>2, <2>3, <2>4, <2>5, <2>6 DEF ControlInv
<1> QED
  BY <1>1, <1>2, <1>3 DEF Answer, GoTo

\* The update is done with, and the next one is fetched.
LEMMA OffsetStep ==
    ASSUME ControlInv, Offset
    PROVE  ControlInv'
<1> USE DEF Role
<1>1. /\ place["listener"].at = "offset"
      /\ UNCHANGED <<file, adopted, attested, state, tokens, now, applied, ruling>>
      /\ state' \in {"active", "mismatch", "expired-lease", "restart-required"}
      /\ updates' = Tail(updates)
      /\ place' = [place EXCEPT !["listener"] = [AtRest EXCEPT !.at = "fetch"]]
  BY DEF Offset, history, ControlInv, ControlTypes, ControlTypeOK
<1>2. updates' \in Seq(Delivery)
  BY <1>1 DEF ControlInv, ControlTypes, RoundOK
<1>3. /\ place' \in [Role -> ControlPlace] /\ place'["monitor"] = place["monitor"]
      /\ place'["listener"].at = "fetch" /\ ~place'["listener"].handling
  BY <1>1, IdlePlace DEF ControlInv, ControlTypes
<1>4. PassOK' /\ RoundOK' /\ ~Consumed'
  BY <1>1, <1>3, PassFrame DEF ControlInv, RoundOK, Consumed, Reload, Handled
<1> QED
  BY <1>1, <1>2, <1>3, <1>4, MoveStep

\* The operator sends an update; time passes; the disk fails.
LEMMA OutsideStep ==
    ASSUME ControlInv,
           UNCHANGED <<file, adopted, attested, state, tokens, place, applied, ruling>>,
           updates' = updates \/ \E update \in Delivery : updates' = Append(updates, update),
           now' = now \/ (now < MaxTime /\ now' = now + 1)
    PROVE  ControlInv'
<1>1. updates' \in Seq(Delivery) /\ (updates # <<>> => updates' # <<>>)
  <2>1. updates \in Seq(Delivery)
    BY DEF ControlInv, ControlTypes
  <2>2. CASE updates' = updates
    BY <2>1, <2>2
  <2>3. ASSUME NEW update \in Delivery, updates' = Append(updates, update)
        PROVE  updates' \in Seq(Delivery) /\ updates' # <<>>
    BY <2>1, <2>3
  <2> QED
    BY <2>2, <2>3
<1>2. now' \in 0..MaxTime
  BY ControlAssumption DEF ControlInv, ControlTypes, ControlTypeOK
<1>3. ControlTypes'
  BY <1>1, <1>2 DEF ControlInv, ControlTypes, ControlTypeOK
<1>4. PassOK' /\ RoundOK'
  BY <1>1 DEF ControlInv, PassOK, RoundOK
<1>5. TokensOK' /\ LeaseOK'
  BY TokensFrame, LeaseFrame DEF ControlInv
<1>6. GrantOK' /\ PassUnderLease'
  BY DEF ControlInv, GrantOK, PassUnderLease, Overtaken, Newer
<1> QED
  BY <1>3, <1>4, <1>5, <1>6 DEF ControlInv

LEMMA SendStep ==
    ASSUME ControlInv,
           SendHold \/ \E t \in Token : SendConfirm(t)
    PROVE  ControlInv'
<1>1. /\ UNCHANGED <<file, adopted, attested, state, tokens, place, now, applied, ruling>>
      /\ \E update \in Delivery : updates' = Append(updates, update)
  BY DEF SendHold, SendConfirm, Send, history, Delivery
<1> QED
  BY <1>1, OutsideStep

\* A process dies; the listener adopts the file when it is back.
LEMMA CrashStep ==
    ASSUME ControlInv, NEW p \in Role, Crash(p)
    PROVE  ControlInv'
<1> USE DEF Role
<1>1. /\ place' = [place EXCEPT ![p] = AtRest]
      /\ adopted' = [adopted EXCEPT ![p] = IF p = "monitor" THEN Nothing ELSE file]
      /\ UNCHANGED <<file, attested, state, tokens, now, updates, applied, ruling>>
      /\ state' \in {"active", "mismatch", "expired-lease", "restart-required"}
  BY DEF Crash, history, ControlInv, ControlTypes, ControlTypeOK
<1>2. CASE p = "monitor"
  <2>1. End("monitor")
    BY <1>1, <1>2 DEF End
  <2> QED
    BY <1>1, <2>1, EndStep
<1>3. CASE p = "listener"
  <2>1. /\ place' \in [Role -> ControlPlace] /\ place'["listener"].at = "idle"
        /\ ~place'["listener"].handling /\ place'["monitor"] = place["monitor"]
    BY <1>1, <1>3, IdlePlace DEF ControlInv, ControlTypes
  <2>2. /\ file \in Policy
        /\ adopted' \in [Role -> Policy \union {Nothing}]
        /\ adopted'["listener"] = file /\ adopted'["monitor"] = adopted["monitor"]
    BY <1>1, <1>3 DEF ControlInv, ControlTypes, ControlTypeOK
  <2>3. ControlTypes'
    <3>1. \A q \in Role : place'[q].token \in Token \union {Nothing}
      BY <2>1 DEF ControlPlace
    <3> QED
      BY <1>1, <2>1, <2>2, <3>1 DEF ControlInv, ControlTypes, ControlTypeOK
  <2>4. PassOK' /\ RoundOK' /\ ~Consumed'
    BY <2>1, <2>2, PassFrame DEF ControlInv, RoundOK, Consumed, Reload, Handled
  <2>5. TokensOK'
    BY <1>1, <2>4, TokensFrame DEF ControlInv
  <2>6. LeaseOK'
    BY <1>1, <2>2 DEF ControlInv, LeaseOK
  <2>7. GrantOK' /\ PassUnderLease'
    BY <1>1, <2>1, <2>2 DEF ControlInv, GrantOK, PassUnderLease, Overtaken, Newer
  <2> QED
    BY <2>3, <2>4, <2>5, <2>6, <2>7 DEF ControlInv
<1> QED
  BY <1>2, <1>3

LEMMA ControlBegins ==
    ASSUME ControlInit
    PROVE  ControlInv
<1> USE DEF Role
<1>1. /\ file \in Policy /\ file.profile = "assisted" /\ now \in 0..MaxTime
      /\ adopted \in [Role -> Policy \union {Nothing}]
      /\ attested \in [Role -> Policy \union {Nothing}]
      /\ adopted["listener"] = file /\ adopted["monitor"] = Nothing
      /\ \A t \in Token : tokens[t] = Nothing /\ applied[t] = 0
      /\ \A p \in Role : place[p] = AtRest
  BY ControlAssumption DEF ControlInit, Policy, Profile
<1>2. place \in [Role -> ControlPlace]
  BY IdlePlace DEF ControlInit
<1>3. ControlTypes
  <2>1. \A q \in Role : place[q].token \in Token \union {Nothing}
    BY <1>2 DEF ControlPlace
  <2> QED
    BY <1>1, <1>2, <2>1 DEF ControlTypes, ControlTypeOK, ControlInit
<1>4. PassOK /\ RoundOK /\ ~Consumed
  BY <1>1, IdlePlace DEF PassOK, RoundOK, Consumed, Reload, Handled
<1>5. TokensOK
  BY <1>1, <1>4 DEF TokensOK
<1>6. LeaseOK
  BY <1>1 DEF LeaseOK
<1>7. GrantOK /\ PassUnderLease
  BY <1>1, IdlePlace DEF GrantOK, PassUnderLease
<1> QED
  BY <1>3, <1>4, <1>5, <1>6, <1>7 DEF ControlInv

LEMMA ControlStep ==
    ASSUME ControlInv, [ControlNext]_controlVars
    PROVE  ControlInv'
<1>1. CASE UNCHANGED controlVars
  BY <1>1, OutsideStep DEF controlVars, outside, history
<1>2. ASSUME NEW p \in Role, PolicyStep(p)
      PROVE  ControlInv'
  BY <1>2, LoadStep, RevertStep, AttestStep, CheckStep DEF PolicyStep
<1>3. CASE Monitor
  <2>1. "monitor" \in Role
    BY DEF Role
  <2> QED
    BY <1>2, <1>3, <2>1, PassBeginsStep, VerifyStep, PassMergesStep DEF Monitor
<1>4. CASE Listener
  <2>1. "listener" \in Role
    BY DEF Role
  <2> QED
    BY <1>2, <1>4, <2>1, PollStep, FetchStep, ConsumeStep, ApplyStep, AnswerStep, OffsetStep
    DEF Listener
<1>5. CASE SendHold \/ \E t \in Token : SendConfirm(t)
  BY <1>5, SendStep
<1>6. CASE Tick \/ DiskChanges
  BY <1>6, OutsideStep DEF Tick, DiskChanges, history
<1>7. ASSUME NEW t \in Token,
             ExpireToken(t) \/ \E profile \in Wants[t] : Ask(t, profile)
      PROVE  ControlInv'
  BY <1>7, ExpireTokenStep, AskStep
<1>8. ASSUME NEW r \in Role, Crash(r)
      PROVE  ControlInv'
  BY <1>8, CrashStep
<1> QED
  BY <1>1, <1>3, <1>4, <1>5, <1>6, <1>7, <1>8 DEF ControlNext

\* The invariant holds of every reachable state, for every number of tokens and every bound.
LEMMA ControlInvariance == ControlSpec => []ControlInv
<1>1. ControlInit => ControlInv
  BY ControlBegins
<1>2. ControlInv /\ [ControlNext]_controlVars => ControlInv'
  BY ControlStep
<1> QED
  BY <1>1, <1>2, PTL DEF ControlSpec

\* The policy file, the attestations, the tokens and the clock keep their types, whatever is
\* sent, dies or fails (autonomy_policy.py, table callback_tokens).
THEOREM ControlTypeCorrectness == ControlSpec => []ControlTypeOK
<1>1. ControlInv => ControlTypeOK
  BY DEF ControlInv, ControlTypes
<1> QED
  BY <1>1, ControlInvariance, PTL

\* consume_callback_token and apply_autonomy_change: a confirmed change is applied at most
\* once, although Telegram delivers the update again after a crash or a failed answer.
THEOREM SingleConfirmation == ControlSpec => []ConfirmedOnce
<1>1. ControlInv => ConfirmedOnce
  BY DEF ControlInv, TokensOK, ConfirmedOnce
<1> QED
  BY <1>1, ControlInvariance, PTL

\* The listener does not move the monitor.
LEMMA ListenerApart ==
    ASSUME ControlInv, Listener \/ Crash("listener")
    PROVE  place'["monitor"] = place["monitor"]
<1> USE DEF Role
<1>1. place \in [Role -> ControlPlace]
  BY DEF ControlInv, ControlTypes
<1>2. ASSUME NEW new, place' = [place EXCEPT !["listener"] = new]
      PROVE  place'["monitor"] = place["monitor"]
  BY <1>1, <1>2
<1>3. ASSUME NEW point, GoTo("listener", point) \/ Call("listener", point)
      PROVE  place'["monitor"] = place["monitor"]
  BY <1>1, <1>3 DEF GoTo, Call
<1>4. ASSUME Raise("listener")
      PROVE  place'["monitor"] = place["monitor"]
  BY <1>2, <1>4 DEF Raise, End
<1>5. CASE Load("listener")
  BY <1>3, <1>4, <1>5 DEF Load
<1>6. CASE Revert("listener")
  BY <1>3, <1>4, <1>6 DEF Revert
<1>7. CASE Attest("listener")
  BY <1>3, <1>7 DEF Attest
<1>8. ASSUME NEW from, NEW to, Check("listener", from, to)
      PROVE  place'["monitor"] = place["monitor"]
  BY <1>3, <1>4, <1>8 DEF Check
<1>9. CASE Poll \/ Fetch
  BY <1>2, <1>3, <1>9 DEF Poll, Fetch
<1>10. CASE Consume \/ Apply
  BY <1>3, <1>4, <1>10 DEF Consume, Apply
<1>11. CASE Answer \/ Offset \/ Crash("listener")
  BY <1>2, <1>3, <1>11 DEF Answer, Offset, Crash
<1> QED
  BY <1>5, <1>6, <1>7, <1>8, <1>9, <1>10, <1>11 DEF Listener, PolicyStep

\* Only the last gate takes a pass to the merge.
LEMMA OnlyVerifyMerges ==
    ASSUME ControlInv, [ControlNext]_controlVars,
           place["monitor"].at # "merge", place'["monitor"].at = "merge"
    PROVE  Verify
<1> USE DEF Role
<1>1. place \in [Role -> ControlPlace] /\ place["monitor"] \in ControlPlace /\ PassOK
  BY DEF ControlInv, ControlTypes
<1>2. ASSUME NEW point \in ControlPoint \ {"merge"},
             GoTo("monitor", point) \/ Call("monitor", point)
      PROVE  FALSE
  BY <1>1, <1>2, GoMoves, CallMoves
<1>3. ASSUME Raise("monitor") \/ End("monitor") \/ Crash("monitor")
      PROVE  FALSE
  <2>1. place' = [place EXCEPT !["monitor"] = AtRest]
    BY <1>1, <1>3 DEF Raise, End, Crash, PassOK
  <2> QED
    BY <1>1, <2>1, IdlePlace
<1>4. ~PolicyStep("monitor")
  <2>1. ~Load("monitor")
    BY <1>2, <1>3 DEF Load, ControlPoint, Reload
  <2>2. ~Revert("monitor")
    <3>1. ~RecoveryAllowed("monitor")
      BY <1>1 DEF RecoveryAllowed, PassOK
    <3>2. "attest" \in ControlPoint \ {"merge"}
      BY DEF ControlPoint, Reload
    <3> QED
      BY <1>2, <1>3, <3>1, <3>2 DEF Revert
  <2>3. ~Attest("monitor")
    <3>1. place["monitor"].at = "attest" => place["monitor"].then \in ControlPoint \ {"merge"}
      BY <1>1 DEF PassOK, Reload, ControlPoint
    <3> QED
      BY <1>2, <3>1 DEF Attest
  <2>4. ASSUME NEW from, NEW to \in {"verify", "consume", "apply"}, Check("monitor", from, to)
        PROVE  FALSE
    <3>1. to \in ControlPoint \ {"merge"}
      BY DEF ControlPoint, Handled
    <3> QED
      BY <1>2, <1>3, <2>4, <3>1 DEF Check
  <2> QED
    BY <2>1, <2>2, <2>3, <2>4 DEF PolicyStep
<1>5. ~PassBegins /\ ~MergeUnattended
  <2>1. "check" \in ControlPoint \ {"merge"}
    BY DEF ControlPoint
  <2> QED
    BY <1>2, <1>3, <2>1 DEF PassBegins, MergeUnattended
<1>6. place' # place
  OBVIOUS
<1>7. ~SendHold /\ ~Tick /\ ~DiskChanges
  BY <1>6 DEF SendHold, Send, Tick, DiskChanges
<1>8. ~\E t \in Token : \/ ExpireToken(t) \/ SendConfirm(t)
                        \/ \E profile \in Wants[t] : Ask(t, profile)
  BY <1>6 DEF ExpireToken, SendConfirm, Send, Ask
<1>9. ~\E r \in Role : Crash(r)
  BY <1>3, ListenerApart
<1>10. Monitor
  BY <1>6, <1>7, <1>8, <1>9, ListenerApart DEF ControlNext, controlVars
<1> QED
  BY <1>4, <1>5, <1>10 DEF Monitor

\* verify_autonomous_merge: a merge goes ahead under a lease that is running, and under the
\* change that was answered last or one confirmed since, whatever the listener, a reversion
\* or the disk does between the steps of the pass.
THEOREM AnsweredRules == ControlSpec => AnsweredChangeRules
<1> USE DEF Role
<1>1. ASSUME ControlInv, [ControlNext]_controlVars,
             place["monitor"].at # "merge", place'["monitor"].at = "merge"
      PROVE  adopted["monitor"] \in ruling /\ adopted["monitor"].until > now
  <2> DEFINE lease == adopted["monitor"]
  <2>1. /\ place["monitor"].at = "verify" /\ ~Expired(lease)
        /\ lease.profile = "autonomous" /\ Consistent("monitor")
    <3>1. Verify
      BY <1>1, OnlyVerifyMerges
    <3>2. ~End("monitor")
      BY <1>1, IdlePlace DEF End, ControlInv, ControlTypes
    <3> QED
      BY <3>1, <3>2 DEF Verify
  <2>2. lease \in Policy /\ lease # Nothing /\ now \in 0..MaxTime
    BY <1>1, <2>1, NothingAssumption DEF ControlInv, ControlTypes, ControlTypeOK, PassOK
  <2>3. lease.until > now
    BY <1>1, <2>1, <2>2, ControlAssumption DEF ControlInv, LeaseOK, Expired, Policy
  <2>4. lease \in ruling
    <3>1. ~(attested["listener"] # Nothing /\ Newer(attested["listener"], lease))
      <4>1. ~Newer(lease, lease)
        BY <2>2, NextPolicy DEF Newer
      <4> QED
        BY <2>1, <4>1 DEF Consistent
    <3>2. file = lease \/ Overtaken(lease)
      BY <1>1, <2>1 DEF ControlInv, PassUnderLease
    <3> QED
      BY <1>1, <2>1, <3>1, <3>2 DEF ControlInv, GrantOK, Overtaken
  <2> QED
    BY <2>3, <2>4
<1>2. ControlInv /\ [ControlNext]_controlVars =>
        [place["monitor"].at # "merge" /\ place'["monitor"].at = "merge" =>
            adopted["monitor"] \in ruling /\ adopted["monitor"].until > now]_controlVars
  BY <1>1
<1> QED
  BY <1>2, ControlInvariance, PTL DEF AnsweredChangeRules, ControlSpec

------------------------------------------------------------------------------
(* The heartbeat of a run and what is announced of it                      *)

\* What a run knows, and what a pass has in hand, point by point.
RunState ==
    [at : {"new"}]
    \union [at : {"working"}, policy : Nat, generation : Generation, phase : 1..LastPhase]
    \union [at : {"gone"}, generation : Generation, phase : Phase]

Telling == {"send", "edit", "mark", "sent"}
PassState ==
    [at : {"idle"}] \union [at : {"digest", "read"}, policy : Nat]
    \union [at : {"digested"}, policy : Nat, some : SUBSET Fingerprint]
    \union [at : Telling \union {"notify"}, todo : Seq(Kind),
            generation : Generation, phase : Phase]

\* The record is that of the last run to start, as this run knows it, and its
\* generation is at most the number of the runs so far.
Started == {r \in Run : run[r].at # "new"}
RecordOK ==
    record # None =>
        /\ newest \in Started /\ record.writer = newest
        /\ record.generation = run[newest].generation /\ record.phase = run[newest].phase
        /\ record.generation <= Cardinality(Started)
        /\ Over => run[newest].at = "gone"

EvidenceInv ==
    HeartbeatTypeOK /\ bound \in Scenario /\ run \in [Run -> RunState] /\ RecordOK

PassTypes ==
    /\ runnerAttested \in Nat \union {None}
    /\ seen \in [Generation -> Phase \union {None}]
    /\ rows \in [Fingerprint -> Row \union {None}]
    /\ sends \in [Fingerprint -> Nat]
    /\ monitor \in PassState
    /\ monitor.at \in Telling => monitor.todo # <<>>

\* A notification that has a message, and one that was sent and is not marked yet.
Told(f) == rows[f] # None /\ rows[f].message
InFlight(f) ==
    \/ monitor.at = "mark" /\ f = This
    \/ monitor.at = "digested" /\ f \in monitor.some

\* Without a fault nothing was shown but what is marked or about to be.
SentOK(f) ==
    /\ sends[f] <= faults + (IF Told(f) \/ InFlight(f) THEN 1 ELSE 0)
    /\ InFlight(f) => rows[f] # None /\ ~Told(f)
    /\ Told(f) \/ InFlight(f) => sends[f] > 0
    /\ RowIs(f, "delivered") => Told(f)
    /\ RowIs(f, "digest") => ~Told(f)
    /\ monitor.at = "send" /\ f = This => RowIs(f, "pending") /\ ~Told(f)
    /\ monitor.at = "edit" /\ f = This => Told(f)

WatchInv == EvidenceInv /\ PassTypes /\ \A f \in Fingerprint : SentOK(f)

\* What follows of the assumptions on the constants.
LEMMA WatchFacts ==
    /\ IsFiniteSet(Run) /\ Cardinality(Run) \in Nat
    /\ Generation = 1..Cardinality(Run)
    /\ LastPhase \in Nat \ {0} /\ MaxRecords \in Nat \ {0}
    /\ Phase \subseteq Nat
    /\ None \notin HeartbeatRecord /\ None \notin Row
<1>1. IsFiniteSet(Run) /\ LastPhase \in Nat \ {0} /\ MaxRecords \in Nat \ {0}
  BY HeartbeatAssumption
<1>2. Cardinality(Run) \in Nat
  BY <1>1, FS_CardinalityType
<1>3. Generation = 1..Cardinality(Run)
  BY DEF Generation
<1>4. Phase \subseteq Nat
  BY <1>1 DEF Phase, Terminals, CompletedPhase, Failed
<1> QED
  BY <1>1, <1>2, <1>3, <1>4, NoneAssumption

\* A run that starts is one more.
LEMMA OneMoreStarted ==
    ASSUME NEW r \in Run, run[r].at = "new"
    PROVE  /\ Cardinality(Started) \in Nat
           /\ Cardinality(Started \union {r}) = Cardinality(Started) + 1
           /\ Cardinality(Started) + 1 <= Cardinality(Run)
<1>1. IsFiniteSet(Run) /\ Started \subseteq Run /\ Started \union {r} \subseteq Run /\ r \notin Started
  BY WatchFacts DEF Started
<1>2. IsFiniteSet(Started) /\ Cardinality(Started) \in Nat
  BY <1>1, FS_Subset, FS_CardinalityType
<1>3. Cardinality(Started \union {r}) <= Cardinality(Run)
  BY <1>1, FS_Subset
<1>4. Cardinality(Started \union {r}) = Cardinality(Started) + 1
  BY <1>1, <1>2, FS_AddElement
<1> QED
  BY <1>2, <1>3, <1>4

\* What of the record is a matter of types, and of which run.
LEMMA RecordFacts ==
    ASSUME EvidenceInv, record # None
    PROVE  /\ record \in HeartbeatRecord /\ record.generation \in Nat \ {0}
           /\ newest \in Run /\ run[newest] \in RunState
BY WatchFacts DEF EvidenceInv, RecordOK, Started, HeartbeatTypeOK, HeartbeatRecord

\* The numbers keep within their bounds.
LEMMA BoundFacts ==
    ASSUME EvidenceInv
    PROVE  /\ bound.runs \subseteq Run /\ bound.policies \in Nat /\ bound.faults \in Nat
           /\ faults \in 0..bound.faults /\ faults \in Nat /\ runPolicy \in 0..bound.policies
           /\ later \in 0..MaxRecords - 1
<1>1. bound \in Scenario /\ faults \in 0..bound.faults /\ runPolicy \in 0..bound.policies
      /\ later \in 0..MaxRecords - 1
  BY DEF EvidenceInv, HeartbeatTypeOK
<1>2. bound.runs \subseteq Run /\ bound.policies \in Nat /\ bound.faults \in Nat
  BY <1>1, HeartbeatAssumption
<1> QED
  BY <1>1, <1>2

------------------------------------------------------------------------------
\* start: the generation is one more than that on record, and a run starts once.
LEMMA RunStartStep ==
    ASSUME EvidenceInv, NEW r \in Run, Start(r)
    PROVE  EvidenceInv'
<1>1. PICK read, generation :
        /\ read \in 0..runPolicy
        /\ generation = IF record = None THEN 1 ELSE record.generation + 1
        /\ Write([writer |-> r, generation |-> generation, policy |-> read,
                        phase |-> 1, active |-> TRUE])
        /\ run' = [run EXCEPT ![r] = [at |-> "working", policy |-> read,
                                      generation |-> generation, phase |-> 1]]
  BY DEF Start
<1>2. /\ run[r].at = "new" /\ newest' = r /\ UNCHANGED <<runPolicy, faults, bound>>
      /\ run \in [Run -> RunState]
      /\ bound \in Scenario /\ runPolicy \in 0..bound.policies /\ faults \in 0..bound.faults
      /\ bound.policies \in Nat
  BY HeartbeatAssumption DEF Start, EvidenceInv, HeartbeatTypeOK
<1>3. /\ Cardinality(Started) \in Nat /\ Cardinality(Started) + 1 <= Cardinality(Run)
      /\ Cardinality(Started \union {r}) = Cardinality(Started) + 1
  BY <1>2, OneMoreStarted
<1>4. generation \in Nat \ {0} /\ generation <= Cardinality(Started) + 1
  BY <1>1, <1>3, RecordFacts DEF EvidenceInv, RecordOK
<1>5. /\ generation \in Generation /\ Generation = 1..Cardinality(Run)
      /\ read \in Nat
  BY <1>1, <1>2, <1>3, <1>4, WatchFacts
<1> DEFINE begun == [at |-> "working", policy |-> read, generation |-> generation, phase |-> 1]
           written == [writer |-> r, generation |-> generation, policy |-> read,
                       phase |-> 1, active |-> TRUE]
<1>6. begun \in RunState
  BY <1>2, <1>5, WatchFacts DEF RunState
<1>7. run' \in [Run -> RunState] /\ run'[r] = begun /\ \A q \in Run \ {r} : run'[q] = run[q]
  BY <1>1, <1>2, <1>6
<1>8. Started' = Started \union {r}
  BY <1>7 DEF Started
<1>9. written \in HeartbeatRecord
  BY <1>2, <1>5, WatchFacts DEF HeartbeatRecord, Phase
<1>10. record' = written /\ later' = 0
  BY <1>1 DEF Write
<1>11. RecordOK'
  <2>1. ~Over'
    BY <1>10, WatchFacts DEF Over, Terminals, CompletedPhase, Failed
  <2> QED
    BY <1>2, <1>3, <1>4, <1>7, <1>8, <1>10, <2>1 DEF RecordOK
<1>12. HeartbeatTypeOK'
  BY <1>2, <1>9, <1>10, WatchFacts DEF HeartbeatTypeOK
<1> QED
  BY <1>2, <1>7, <1>11, <1>12 DEF EvidenceInv

\* The run ends, or goes on, and the record says so if it is its own.
LEMMA OwnReport ==
    ASSUME EvidenceInv, NEW r \in Run, run[r].at # "new",
           NEW s \in RunState, s.at # "new", run' = [run EXCEPT ![r] = s],
           s.generation = run[r].generation,
           UNCHANGED <<runPolicy, newest, bound>>,
           faults' \in 0..bound.faults,
           \/ UNCHANGED <<record, later>> /\ s.at = "gone" /\ s.phase = run[r].phase
           \/ Owns(r) /\ Update(s.phase)
              /\ (s.phase \in Terminals => s.at = "gone")
    PROVE  EvidenceInv'
<1>1. /\ run \in [Run -> RunState] /\ Started' = Started
      /\ run' \in [Run -> RunState] /\ run'[r] = s /\ \A q \in Run \ {r} : run'[q] = run[q]
  BY DEF EvidenceInv, Started
<1>2. CASE UNCHANGED <<record, later>> /\ s.at = "gone" /\ s.phase = run[r].phase
  <2>1. RecordOK'
    BY <1>1, <1>2, RecordFacts DEF EvidenceInv, RecordOK, Over
  <2> QED
    BY <1>1, <1>2, <2>1 DEF EvidenceInv, HeartbeatTypeOK
<1>3. CASE Owns(r) /\ Update(s.phase) /\ (s.phase \in Terminals => s.at = "gone")
  <2>1. record # None /\ record.writer = r /\ record.generation = run[r].generation
    BY <1>3 DEF Owns
  <2>2. record \in HeartbeatRecord /\ newest = r
    BY <2>1, RecordFacts DEF EvidenceInv, RecordOK
  <2>3. s.phase \in Phase
    BY DEF RunState, Phase
  <2>4. /\ record' \in HeartbeatRecord /\ record'.phase = s.phase
        /\ record'.writer = record.writer /\ record'.generation = record.generation
        /\ later' = 0
    BY <1>3, <2>2, <2>3 DEF Update, Write, HeartbeatRecord
  <2>5. RecordOK'
    BY <1>1, <1>3, <2>1, <2>2, <2>4 DEF EvidenceInv, RecordOK, Over
  <2>6. HeartbeatTypeOK'
    BY <2>4, WatchFacts DEF EvidenceInv, HeartbeatTypeOK
  <2> QED
    BY <1>1, <2>5, <2>6 DEF EvidenceInv
<1> QED
  BY <1>2, <1>3

\* heartbeat_phase: what the run writes is what it knows.
LEMMA RunAdvanceStep ==
    ASSUME EvidenceInv, NEW r \in Run, AdvanceRun(r)
    PROVE  EvidenceInv'
<1>1. /\ run[r].at = "working" /\ run[r].phase < LastPhase
      /\ run \in [Run -> RunState] /\ faults \in 0..bound.faults
      /\ UNCHANGED <<runPolicy, newest, faults, bound>>
  BY DEF AdvanceRun, EvidenceInv, HeartbeatTypeOK
<1>2. /\ run[r] \in [at : {"working"}, policy : Nat, generation : Generation,
                     phase : 1..LastPhase]
      /\ LastPhase \in Nat
  BY <1>1, WatchFacts DEF RunState
<1>3. CASE Owns(r) /\ Update(run[r].phase + 1) /\ run' = [run EXCEPT ![r].phase = @ + 1]
  <2> DEFINE s == [run[r] EXCEPT !.phase = run[r].phase + 1]
  <2>1. /\ s \in RunState /\ s.at = "working" /\ s.generation = run[r].generation
        /\ s.phase = run[r].phase + 1 /\ s.phase \notin Terminals
    BY <1>1, <1>2 DEF RunState, Terminals, CompletedPhase, Failed
  <2>2. run' = [run EXCEPT ![r] = s]
    BY <1>3
  <2> HIDE DEF s
  <2> QED
    BY <1>1, <1>3, <2>1, <2>2, OwnReport
<1>4. CASE EndRun(r, run[r].phase) /\ UNCHANGED <<record, later>>
  <2> DEFINE s == [at |-> "gone", generation |-> run[r].generation, phase |-> run[r].phase]
  <2>1. s \in RunState
    BY <1>2 DEF RunState, Phase
  <2>2. run' = [run EXCEPT ![r] = s]
    BY <1>4 DEF EndRun
  <2> QED
    BY <1>1, <1>4, <2>1, <2>2, OwnReport
<1> QED
  BY <1>3, <1>4 DEF AdvanceRun

\* A run ends with a phase that it reported, or without a word.
LEMMA EndsStep ==
    ASSUME EvidenceInv, NEW r \in Run, run[r].at = "working",
           NEW phase \in Phase, EndRun(r, phase), UNCHANGED <<runPolicy, newest, bound>>,
           faults' \in 0..bound.faults,
           \/ UNCHANGED <<record, later>> /\ phase = run[r].phase
           \/ Owns(r) /\ Update(phase)
    PROVE  EvidenceInv'
<1> DEFINE s == [at |-> "gone", generation |-> run[r].generation, phase |-> phase]
<1>1. run[r].generation \in Generation
  BY DEF EvidenceInv, RunState
<1>2. s \in RunState /\ s.at = "gone" /\ s.phase = phase /\ s.generation = run[r].generation
  BY <1>1 DEF RunState
<1>3. run' = [run EXCEPT ![r] = s]
  BY DEF EndRun
<1> HIDE DEF s
<1> QED
  BY <1>2, <1>3, OwnReport

\* heartbeat_terminal: the run that writes a terminal phase is gone afterwards.
LEMMA RunFinishStep ==
    ASSUME EvidenceInv, NEW r \in Run, NEW phase \in Terminals,
           FinishRun(r, phase)
    PROVE  EvidenceInv'
<1>1. run[r].at = "working" /\ UNCHANGED <<runPolicy, newest, faults, bound>>
      /\ faults' \in 0..bound.faults
  BY DEF FinishRun, EvidenceInv, HeartbeatTypeOK
<1>2. phase \in Phase /\ run[r].phase \in Phase
  BY <1>1 DEF Phase, EvidenceInv, RunState
<1> QED
  BY <1>1, <1>2, EndsStep DEF FinishRun

\* The script is killed and the record stays behind.
LEMMA RunDiesStep ==
    ASSUME EvidenceInv, NEW r \in Run, Die(r)
    PROVE  EvidenceInv'
<1>1. /\ run[r].at = "working" /\ UNCHANGED <<record, later, runPolicy, newest, bound>>
      /\ EndRun(r, run[r].phase)
  BY DEF Die
<1>2. run[r].phase \in Phase
  BY <1>1 DEF Phase, EvidenceInv, RunState
<1>3. faults' \in 0..bound.faults
  BY BoundFacts DEF Die
<1> QED
  BY <1>1, <1>2, <1>3, EndsStep

\* A report of activity changes nothing that the record says of the run.
LEMMA RunTickStep ==
    ASSUME EvidenceInv, NEW r \in Run, TickRun(r)
    PROVE  EvidenceInv'
<1>1. /\ Owns(r) /\ record # None /\ record' = [record EXCEPT !.active = TRUE] /\ later' = 0
      /\ UNCHANGED <<run, runPolicy, newest, faults, bound>>
  BY DEF TickRun, Write, Owns
<1>2. record \in HeartbeatRecord
  BY <1>1, RecordFacts
<1>3. /\ record' \in HeartbeatRecord /\ record'.phase = record.phase
      /\ record'.writer = record.writer /\ record'.generation = record.generation
  BY <1>1, <1>2 DEF HeartbeatRecord
<1>4. RecordOK' /\ HeartbeatTypeOK'
  BY <1>1, <1>3, WatchFacts DEF EvidenceInv, RecordOK, Started, Over, HeartbeatTypeOK
<1> QED
  BY <1>1, <1>4 DEF EvidenceInv

\* The policy, the faults, and the records of other issues.
LEMMA AroundStep ==
    ASSUME EvidenceInv, UNCHANGED <<run, newest, bound>>,
           runPolicy' \in 0..bound.policies, faults' \in 0..bound.faults,
           record' \in {record, None}, later' \in 0..MaxRecords - 1
    PROVE  EvidenceInv'
BY DEF EvidenceInv, RecordOK, Started, Over, HeartbeatTypeOK

\* Whatever the runs do, the record is that of the last one to start.
LEMMA HeartbeatStep ==
    ASSUME EvidenceInv, HeartbeatNext
    PROVE  EvidenceInv' /\ faults' \in {faults, faults + 1}
<1>1. /\ bound.runs \subseteq Run /\ bound.policies \in Nat
      /\ faults \in 0..bound.faults /\ runPolicy \in 0..bound.policies
      /\ later \in 0..MaxRecords - 1
  BY BoundFacts
<1>2. CASE ChangePolicy
  BY <1>1, <1>2, AroundStep DEF ChangePolicy
<1>3. CASE OthersWrite
  <2>1. later' \in 0..MaxRecords - 1 /\ record' \in {record, None}
    BY <1>1, <1>3, WatchFacts DEF OthersWrite, Excess
  <2> QED
    BY <1>1, <1>3, <2>1, AroundStep DEF OthersWrite
<1>4. ASSUME NEW r \in bound.runs,
             \/ Start(r) \/ AdvanceRun(r) \/ TickRun(r) \/ Die(r)
             \/ \E phase \in Terminals : FinishRun(r, phase)
      PROVE  EvidenceInv' /\ faults' \in {faults, faults + 1}
  <2>1. EvidenceInv'
    BY <1>1, <1>4, RunStartStep, RunAdvanceStep, RunTickStep, RunDiesStep, RunFinishStep
  <2>2. faults' \in {faults, faults + 1}
    BY <1>4 DEF Start, AdvanceRun, TickRun, Die, FinishRun
  <2> QED
    BY <2>1, <2>2
<1> QED
  BY <1>2, <1>3, <1>4 DEF HeartbeatNext

------------------------------------------------------------------------------
\* A notice that is told is of a fingerprint.
LEMMA ThisOne ==
    ASSUME PassTypes, monitor.at \in Telling \/ (monitor.at = "notify" /\ monitor.todo # <<>>)
    PROVE  /\ monitor \in [at : Telling \union {"notify"}, todo : Seq(Kind),
                           generation : Generation, phase : Phase]
           /\ monitor.todo # <<>> /\ Tail(monitor.todo) \in Seq(Kind)
           /\ This \in Fingerprint
<1>1. /\ monitor \in [at : Telling \union {"notify"}, todo : Seq(Kind),
                      generation : Generation, phase : Phase]
      /\ monitor.todo # <<>>
  BY DEF PassTypes, PassState, Telling
<1>2. monitor.todo \in Seq(Kind) /\ monitor.generation \in Generation
  BY <1>1
<1>3. Tail(monitor.todo) \in Seq(Kind) /\ Head(monitor.todo) \in Kind
  BY <1>1, <1>2
<1> QED
  BY <1>1, <1>2, <1>3 DEF This, Fingerprint

\* A pass that goes on to the next point of telling a notice tells the same one.
LEMMA GoTelling ==
    ASSUME PassTypes, monitor.at \in Telling \/ (monitor.at = "notify" /\ monitor.todo # <<>>),
           NEW point \in Telling, PassTo(point)
    PROVE  /\ monitor' \in PassState /\ monitor'.at = point /\ monitor'.todo = monitor.todo
           /\ monitor'.todo # <<>> /\ This' = This
BY ThisOne DEF PassTo, PassState, This

\* What the runner does leaves the pass alone.
LEMMA PassStays ==
    ASSUME WatchInv, faults' \in {faults, faults + 1}, faults \in Nat,
           UNCHANGED <<monitor, runnerAttested, rows, seen, sends>>
    PROVE  PassTypes' /\ \A f \in Fingerprint : SentOK(f)'
<1>1. PassTypes'
  BY DEF WatchInv, PassTypes
<1>2. ASSUME NEW f \in Fingerprint
      PROVE  SentOK(f)'
  <2>1. SentOK(f) /\ sends[f] \in Nat
    BY <1>2 DEF WatchInv, PassTypes
  <2>2. (Told(f)' <=> Told(f)) /\ (InFlight(f)' <=> InFlight(f)) /\ This' = This
    BY DEF Told, InFlight, This
  <2> QED
    BY <2>1, <2>2 DEF SentOK, RowIs
<1> QED
  BY <1>1, <1>2

\* A fault is one more, and no more than the bound.
LEMMA FaultCounts ==
    ASSUME EvidenceInv, UNCHANGED <<record, later, run, runPolicy, newest, bound>>,
           UNCHANGED faults \/ Fault
    PROVE  EvidenceInv' /\ faults \in Nat /\ faults' \in {faults, faults + 1}
<1>1. /\ faults \in 0..bound.faults /\ faults \in Nat /\ runPolicy \in 0..bound.policies
      /\ later \in 0..MaxRecords - 1 /\ bound.faults \in Nat
  BY BoundFacts
<1>2. faults' \in 0..bound.faults /\ faults' \in {faults, faults + 1}
  BY <1>1 DEF Fault
<1> QED
  BY <1>1, <1>2, AroundStep

\* A notification that a step does not touch.
LEMMA SentFrame ==
    ASSUME NEW f \in Fingerprint, SentOK(f), sends[f] \in Nat, faults \in Nat,
           rows'[f] = rows[f], sends'[f] = sends[f],
           faults' \in {faults, faults + 1},
           InFlight(f)' => InFlight(f),
           InFlight(f) => InFlight(f)' \/ faults' = faults + 1,
           ~(monitor'.at \in {"send", "edit"} /\ f = This')
    PROVE  SentOK(f)'
<1>1. Told(f)' <=> Told(f)
  BY DEF Told
<1> QED
  BY <1>1 DEF SentOK, RowIs

\* A pass outside the telling and the digest has nothing under way.
LEMMA PassQuiet ==
    ASSUME WatchInv, EvidenceInv', PassTypes', faults' \in {faults, faults + 1}, faults \in Nat,
           UNCHANGED <<rows, sends>>,
           monitor'.at \notin {"send", "edit", "mark", "digested"},
           monitor.at \in {"mark", "digested"} => faults' = faults + 1
    PROVE  WatchInv'
<1>1. ASSUME NEW f \in Fingerprint
      PROVE  SentOK(f)'
  <2>1. SentOK(f) /\ sends[f] \in Nat
    BY DEF WatchInv, PassTypes
  <2>2. ~InFlight(f)' /\ (InFlight(f) => faults' = faults + 1)
    BY DEF InFlight
  <2> QED
    BY <2>1, <2>2, SentFrame
<1> QED
  BY <1>1 DEF WatchInv

LEMMA PassStartStep ==
    ASSUME WatchInv, PassStart
    PROVE  WatchInv'
<1>1. /\ monitor.at = "idle" /\ monitor' = [at |-> "digest", policy |-> runPolicy]
      /\ UNCHANGED <<record, later, run, runPolicy, newest, bound, faults, runnerAttested, rows,
                     seen, sends>>
  BY DEF PassStart, heartbeat, pass
<1>2. EvidenceInv' /\ faults \in Nat /\ faults' \in {faults, faults + 1}
  BY <1>1, FaultCounts DEF WatchInv
<1>3. runPolicy \in Nat
  BY BoundFacts DEF WatchInv
<1>4. PassTypes'
  BY <1>1, <1>3 DEF WatchInv, PassTypes, PassState, Telling
<1> QED
  BY <1>1, <1>2, <1>4, PassQuiet

\* deliver_digest shows rows of the digest, of which nothing was shown without a fault.
LEMMA SendDigestStep ==
    ASSUME WatchInv, SendDigest
    PROVE  WatchInv'
<1>1. /\ monitor.at = "digest"
      /\ UNCHANGED <<record, later, run, runPolicy, newest, bound, runnerAttested, rows, seen>>
      /\ UNCHANGED faults \/ Fault
  BY DEF SendDigest, heartbeat
<1>2. EvidenceInv' /\ faults \in Nat /\ faults' \in {faults, faults + 1}
  BY <1>1, FaultCounts DEF WatchInv
<1>3. monitor \in [at : {"digest", "read"}, policy : Nat]
  BY <1>1 DEF WatchInv, PassTypes, PassState, Telling
<1>4. \A f \in Fingerprint : SentOK(f) /\ sends[f] \in Nat /\ ~InFlight(f)
  BY <1>1 DEF WatchInv, PassTypes, InFlight
<1>5. ASSUME NEW f \in Due
      PROVE  f \in Fingerprint /\ RowIs(f, "digest") /\ ~Told(f) /\ sends[f] <= faults
  <2>1. f \in Fingerprint /\ RowIs(f, "digest")
    BY <1>5 DEF Due
  <2>2. SentOK(f) /\ ~InFlight(f)
    BY <1>4, <2>1
  <2>3. ~Told(f)
    BY <2>1, <2>2 DEF SentOK
  <2>4. sends[f] <= faults + (IF Told(f) \/ InFlight(f) THEN 1 ELSE 0)
    BY <2>2 DEF SentOK
  <2>5. sends[f] <= faults
    BY <1>2, <1>4, <2>1, <2>2, <2>3, <2>4
  <2> QED
    BY <2>1, <2>3, <2>5
<1>6. ASSUME NEW fs \in SUBSET Due, Shown(fs)
      PROVE  /\ sends' \in [Fingerprint -> Nat]
             /\ \A f \in Fingerprint :
                  sends'[f] = IF f \in fs THEN sends[f] + 1 ELSE sends[f]
  BY <1>4, <1>6 DEF Shown
<1>7. CASE PassTo("read")
  <2>1. monitor' \in [at : {"read"}, policy : Nat]
    BY <1>3, <1>7 DEF PassTo
  <2>2. PICK fs \in SUBSET Due :
           \/ UNCHANGED <<faults, sends>> \/ (faults' = faults + 1 /\ UNCHANGED sends)
           \/ (faults' = faults + 1 /\ Shown(fs))
    <3>1. CASE UNCHANGED <<faults, sends>>
      BY <3>1
    <3>2. ASSUME NEW fs \in SUBSET Due \ {{}},
                 Fault /\ (Shown(fs) \/ UNCHANGED sends)
          PROVE  faults' = faults + 1 /\ (Shown(fs) \/ UNCHANGED sends)
      BY <3>2 DEF Fault
    <3>3. ASSUME NEW fs \in SUBSET Due \ {{}}, Sent(fs)
          PROVE  FALSE
      BY <2>1, <3>3 DEF Sent
    <3> QED
      BY <3>1, <3>2, <3>3 DEF SendDigest
  <2>3. sends' \in [Fingerprint -> Nat]
    BY <1>6, <2>2 DEF WatchInv, PassTypes
  <2>4. PassTypes'
    BY <1>1, <2>1, <2>3 DEF WatchInv, PassTypes, PassState, Telling
  <2>5. ASSUME NEW f \in Fingerprint
        PROVE  SentOK(f)'
    <3>1. ~InFlight(f)' /\ monitor'.at \notin {"send", "edit"}
      BY <2>1 DEF InFlight
    <3>2. CASE sends'[f] = sends[f]
      BY <1>1, <1>2, <1>4, <3>1, <3>2, SentFrame
    <3>3. CASE sends'[f] # sends[f]
      <4>1. faults' = faults + 1 /\ f \in Due /\ sends'[f] = sends[f] + 1
        BY <1>6, <2>2, <3>3
      <4>2. sends[f] <= faults /\ ~Told(f)
        BY <1>5, <4>1
      <4>3. ~Told(f)'
        BY <1>1, <4>2 DEF Told
      <4> QED
        BY <1>1, <1>2, <1>4, <1>5, <3>1, <4>1, <4>2, <4>3 DEF SentOK, RowIs
    <3> QED
      BY <3>2, <3>3
  <2> QED
    BY <1>2, <2>4, <2>5 DEF WatchInv
<1>8. ASSUME NEW fs \in SUBSET Due, Sent(fs), Shown(fs), UNCHANGED faults
      PROVE  WatchInv'
  <2>1. /\ monitor' = [at |-> "digested", policy |-> monitor.policy, some |-> fs]
        /\ monitor' \in [at : {"digested"}, policy : Nat, some : SUBSET Fingerprint]
    BY <1>3, <1>5, <1>8 DEF Sent
  <2>2. PassTypes'
    BY <1>1, <1>6, <1>8, <2>1 DEF WatchInv, PassTypes, PassState, Telling
  <2>3. ASSUME NEW f \in Fingerprint
        PROVE  SentOK(f)'
    <3>1. InFlight(f)' <=> f \in fs
      BY <2>1 DEF InFlight
    <3>2. CASE f \notin fs
      BY <1>1, <1>2, <1>4, <1>6, <1>8, <2>1, <3>1, <3>2, SentFrame
    <3>3. CASE f \in fs
      <4>1. sends'[f] = sends[f] + 1 /\ sends[f] <= faults /\ ~Told(f) /\ RowIs(f, "digest")
        BY <1>5, <1>6, <1>8, <3>3
      <4>2. ~Told(f)'
        BY <1>1, <4>1 DEF Told
      <4> QED
        BY <1>1, <1>2, <1>4, <1>8, <2>1, <3>1, <3>3, <4>1, <4>2 DEF SentOK, RowIs
    <3> QED
      BY <3>2, <3>3
  <2> QED
    BY <1>2, <2>2, <2>3 DEF WatchInv
<1> QED
  BY <1>7, <1>8 DEF SendDigest, DigestFailed

\* A row that is marked was shown; nothing else of it changes.
LEMMA Marked ==
    ASSUME PassTypes, NEW f \in Fingerprint, rows[f] # None,
           rows' = [rows EXCEPT ![f] = Delivered(@)]
    PROVE  /\ rows' \in [Fingerprint -> Row \union {None}]
           /\ Told(f)' /\ ~RowIs(f, "digest")'
           /\ \A g \in Fingerprint \ {f} : rows'[g] = rows[g]
<1>1. rows \in [Fingerprint -> Row \union {None}] /\ rows[f] \in Row
  BY DEF PassTypes
<1> DEFINE row == [rows[f] EXCEPT !.state = "delivered", !.message = TRUE]
<1>2. row \in Row /\ row.state = "delivered" /\ row.message
  BY <1>1 DEF Row
<1>3. row # None
  BY <1>2, WatchFacts
<1>4. rows' = [rows EXCEPT ![f] = row]
  BY DEF Delivered
<1> HIDE DEF row
<1>5. rows'[f] = row /\ \A g \in Fingerprint \ {f} : rows'[g] = rows[g]
  BY <1>1, <1>4
<1> QED
  BY <1>1, <1>2, <1>3, <1>4, <1>5 DEF Told, RowIs

\* mark_notification after the digest: a row is marked that was shown.
LEMMA MarkDigestStep ==
    ASSUME WatchInv, MarkDigest
    PROVE  WatchInv'
<1>1. /\ monitor.at = "digested"
      /\ UNCHANGED <<record, later, run, runPolicy, newest, bound, faults, runnerAttested, seen, sends>>
  BY DEF MarkDigest, heartbeat
<1>2. EvidenceInv' /\ faults \in Nat /\ faults' \in {faults, faults + 1}
  BY <1>1, FaultCounts DEF WatchInv
<1>3. monitor \in [at : {"digested"}, policy : Nat, some : SUBSET Fingerprint]
  BY <1>1 DEF WatchInv, PassTypes, PassState, Telling
<1>4. \A f \in Fingerprint : SentOK(f) /\ sends[f] \in Nat /\ (InFlight(f) <=> f \in monitor.some)
  BY <1>1 DEF WatchInv, PassTypes, InFlight
<1>5. CASE /\ monitor.some = {} /\ UNCHANGED rows
           /\ monitor' = [at |-> "read", policy |-> monitor.policy]
  <2>1. PassTypes'
    BY <1>1, <1>3, <1>5 DEF WatchInv, PassTypes, PassState, Telling
  <2>2. ASSUME NEW f \in Fingerprint
        PROVE  SentOK(f)'
    <3>1. ~InFlight(f) /\ ~InFlight(f)'
      BY <1>4, <1>5 DEF InFlight
    <3> QED
      BY <1>1, <1>2, <1>4, <1>5, <3>1, SentFrame
  <2> QED
    BY <1>2, <2>1, <2>2 DEF WatchInv
<1>6. ASSUME NEW f \in monitor.some, rows' = [rows EXCEPT ![f] = Delivered(@)],
             monitor' = [monitor EXCEPT !.some = @ \ {f}]
      PROVE  WatchInv'
  <2>1. f \in Fingerprint /\ rows[f] # None /\ InFlight(f)
    BY <1>3, <1>4 DEF SentOK
  <2>2. /\ rows' \in [Fingerprint -> Row \union {None}]
        /\ Told(f)' /\ ~RowIs(f, "digest")'
        /\ \A g \in Fingerprint \ {f} : rows'[g] = rows[g]
    BY <1>6, <2>1, Marked DEF WatchInv
  <2>3. /\ monitor' \in [at : {"digested"}, policy : Nat, some : SUBSET Fingerprint]
        /\ monitor'.some = monitor.some \ {f}
    BY <1>3, <1>6
  <2>4. PassTypes'
    BY <1>1, <2>2, <2>3 DEF WatchInv, PassTypes, PassState, Telling
  <2>5. ASSUME NEW g \in Fingerprint \ {f}
        PROVE  SentOK(g)'
    <3>1. InFlight(g)' <=> InFlight(g)
      BY <1>4, <2>3 DEF InFlight
    <3> QED
      BY <1>1, <1>2, <1>4, <2>2, <2>3, <3>1, SentFrame
  <2>6. SentOK(f)'
    <3>1. ~InFlight(f)'
      BY <2>3 DEF InFlight
    <3> QED
      BY <1>1, <1>4, <2>1, <2>2, <2>3, <3>1 DEF SentOK
  <2> QED
    BY <1>2, <2>4, <2>5, <2>6 DEF WatchInv
<1> QED
  BY <1>5, <1>6 DEF MarkDigest

\* Whatever the evidence says, it is told in notices of the known kinds.
LEMMA NoticesAreKinds ==
    ASSUME NEW document, NEW todo \in Notices(document)
    PROVE  todo \in Seq(Kind)
<1>1. PICK opening \in {<<"started">>, <<>>}, phase \in {<<"failed">>, <<>>} :
          todo \in {opening \o phase, <<"heartbeat">>}
  BY DEF Notices
<1>2. \A kind \in Kind : <<kind>> \in Seq(Kind)
  OBVIOUS
<1>3. <<>> \in Seq(Kind)
  OBVIOUS
<1>4. {<<"started">>, <<"failed">>, <<"heartbeat">>} \subseteq Seq(Kind)
  BY <1>2 DEF Kind
<1>5. opening \in Seq(Kind) /\ phase \in Seq(Kind)
  BY <1>1, <1>3, <1>4
<1>6. opening \o phase \in Seq(Kind)
  BY <1>5
<1> QED
  BY <1>1, <1>4, <1>6

\* monitor_runner reads the evidence; nothing of the notifications changes.
LEMMA ReadStep ==
    ASSUME WatchInv, Read
    PROVE  WatchInv'
<1>1. /\ monitor.at = "read"
      /\ UNCHANGED <<record, later, run, runPolicy, newest, bound, faults, rows, seen, sends>>
  BY DEF Read, heartbeat
<1>2. EvidenceInv' /\ faults \in Nat /\ faults' \in {faults, faults + 1}
  BY <1>1, FaultCounts DEF WatchInv
<1>3. CASE record = None /\ monitor' = NoPass /\ UNCHANGED runnerAttested
  <2>1. PassTypes'
    BY <1>1, <1>3 DEF WatchInv, PassTypes, PassState, Telling, NoPass
  <2> QED
    BY <1>1, <1>2, <1>3, <2>1, PassQuiet DEF NoPass
<1>4. CASE record # None
  <2>1. /\ record.policy \in Nat /\ record.generation \in Generation
        /\ record.phase \in Phase
    BY <1>4, RecordFacts DEF WatchInv, HeartbeatRecord, Generation
  <2>2. runnerAttested' \in Nat \union {None}
    BY <1>4, <2>1 DEF Read, Evidence
  <2>3. CASE monitor' = NoPass
    <3>1. PassTypes'
      BY <1>1, <2>2, <2>3 DEF WatchInv, PassTypes, PassState, Telling, NoPass
    <3> QED
      BY <1>1, <1>2, <2>3, <3>1, PassQuiet DEF NoPass
  <2>4. ASSUME NEW todo \in Notices(record),
               monitor' = [at |-> "notify", todo |-> todo, generation |-> record.generation,
                           phase |-> record.phase]
        PROVE  WatchInv'
    <3>1. todo \in Seq(Kind)
      BY <2>4, NoticesAreKinds
    <3>2. PassTypes'
      BY <1>1, <2>1, <2>2, <2>4, <3>1 DEF WatchInv, PassTypes, PassState, Telling
    <3> QED
      BY <1>1, <1>2, <2>4, <3>2, PassQuiet
  <2> QED
    BY <1>4, <2>3, <2>4 DEF Read, Evidence
<1> QED
  BY <1>3, <1>4 DEF Read, Evidence

\* A row that is new is not delivered, and nothing was shown of it without a fault.
LEMMA UpsertRows ==
    ASSUME WatchInv, Upsert
    PROVE  /\ rows' \in [Fingerprint -> Row \union {None}]
           /\ rows'[This] # None
           /\ \A f \in Fingerprint : rows'[f] = rows[f] \/ rows[f] = None
           /\ \A f \in Fingerprint : rows'[f] = rows[f] \/ f = This
           /\ rows[This] = None =>
                /\ rows'[This].message = FALSE
                /\ rows'[This].state = IF Deferred THEN "digest" ELSE "pending"
<1>1. This \in Fingerprint /\ rows \in [Fingerprint -> Row \union {None}]
  BY ThisOne DEF Upsert, WatchInv, PassTypes
<1>2. PICK kept \in {"digest", "pending"} :
          /\ kept = IF Deferred THEN "digest" ELSE "pending"
          /\ rows' = IF rows[This] # None THEN rows
                     ELSE [rows EXCEPT ![This] = [state |-> kept, age |-> 0, message |-> FALSE]]
  BY DEF Upsert
<1> DEFINE row == [state |-> kept, age |-> 0, message |-> FALSE]
<1>3. row \in Row /\ row # None
  <2>1. row \in Row
    BY DEF Row, MaxAge
  <2> QED
    BY <2>1, WatchFacts
<1>4. CASE rows[This] # None
  BY <1>1, <1>2, <1>4
<1>5. CASE rows[This] = None
  <2>1. /\ rows' \in [Fingerprint -> Row \union {None}] /\ rows'[This] = row
        /\ \A f \in Fingerprint \ {This} : rows'[f] = rows[f]
    BY <1>1, <1>2, <1>3, <1>5
  <2> QED
    BY <1>2, <1>3, <1>5, <2>1
<1> QED
  BY <1>4, <1>5

\* notify_once goes on to send only a row without a message.
LEMMA UpsertStep ==
    ASSUME WatchInv, Upsert
    PROVE  WatchInv'
<1>1. /\ monitor.at = "notify" /\ monitor.todo # <<>>
      /\ UNCHANGED <<record, later, run, runPolicy, newest, bound, faults, runnerAttested, seen, sends>>
  BY DEF Upsert, heartbeat
<1>2. EvidenceInv' /\ faults \in Nat /\ faults' \in {faults, faults + 1}
  BY <1>1, FaultCounts DEF WatchInv
<1>3. /\ monitor \in [at : Telling \union {"notify"}, todo : Seq(Kind),
                      generation : Generation, phase : Phase]
      /\ Tail(monitor.todo) \in Seq(Kind) /\ This \in Fingerprint
  BY <1>1, ThisOne DEF WatchInv
<1>4. \A f \in Fingerprint : SentOK(f) /\ sends[f] \in Nat /\ ~InFlight(f)
  BY <1>1 DEF WatchInv, PassTypes, InFlight
<1>5. /\ rows' \in [Fingerprint -> Row \union {None}]
      /\ rows'[This] # None
      /\ \A f \in Fingerprint : rows'[f] = rows[f] \/ rows[f] = None
      /\ \A f \in Fingerprint : rows'[f] = rows[f] \/ f = This
      /\ rows[This] = None =>
           /\ rows'[This].message = FALSE
           /\ rows'[This].state = IF Deferred THEN "digest" ELSE "pending"
  BY UpsertRows
<1>6. /\ PassTypes' /\ monitor'.at \notin {"mark", "digested"}
      /\ monitor'.at = "send" => /\ This' = This
                                 /\ ~rows'[This].message /\ rows'[This].state = "pending"
      /\ monitor'.at = "edit" => This' = This /\ rows'[This].message
  <2>1. CASE Deferred
    <3>1. /\ monitor' = [monitor EXCEPT !.todo = Tail(@)]
      BY <2>1 DEF Upsert
    <3>2. /\ monitor'.at = "notify"
          /\ monitor' \in [at : Telling \union {"notify"}, todo : Seq(Kind),
                           generation : Generation, phase : Phase]
      BY <1>1, <1>3, <3>1
    <3> QED
      BY <1>1, <1>5, <3>2 DEF WatchInv, PassTypes, PassState, Telling
  <2>2. CASE ~Deferred
    <3>1. PICK point \in {"edit", "send", "sent"} :
             /\ PassTo(point)
             /\ point = "send" => ~rows'[This].message /\ rows'[This].state = "pending"
             /\ point = "edit" => rows'[This].message
      BY <2>2 DEF Upsert
    <3>2. /\ monitor' \in PassState /\ monitor'.at = point /\ monitor'.todo # <<>>
          /\ This' = This
      BY <1>1, <3>1, GoTelling DEF WatchInv, Telling
    <3>3. PassTypes'
      BY <1>1, <1>5, <3>2 DEF WatchInv, PassTypes
    <3> QED
      BY <3>1, <3>2, <3>3
  <2> QED
    BY <2>1, <2>2
<1>7. ASSUME NEW f \in Fingerprint
      PROVE  SentOK(f)'
  <2>1. ~InFlight(f)' /\ (monitor'.at \in {"send", "edit"} /\ f = This' => f = This)
    BY <1>6 DEF InFlight
  <2>2. CASE f # This
    BY <1>1, <1>2, <1>4, <1>5, <2>1, <2>2, SentFrame
  <2>3. CASE f = This /\ rows[f] # None
    <3>1. rows'[f] = rows[f]
      BY <1>5, <2>3
    <3>2. (Told(f)' <=> Told(f))
      BY <3>1 DEF Told
    <3> QED
      BY <1>1, <1>4, <1>5, <1>6, <2>1, <2>3, <3>1, <3>2 DEF SentOK, RowIs, Told
  <2>4. CASE f = This /\ rows[f] = None
    <3>1. ~Told(f) /\ ~Told(f)'
      BY <1>5, <2>4 DEF Told
    <3>2. ~RowIs(f, "delivered")'
      BY <1>5, <2>4 DEF RowIs
    <3> QED
      BY <1>1, <1>4, <1>5, <1>6, <2>1, <2>4, <3>1, <3>2 DEF SentOK, RowIs
  <2> QED
    BY <2>2, <2>3, <2>4
<1> QED
  BY <1>2, <1>6, <1>7 DEF WatchInv

\* A row that failed is pending again, with the message that it had.
LEMMA FailedRow ==
    ASSUME PassTypes, NEW f \in Fingerprint, rows[f] # None,
           f = This, Undelivered
    PROVE  /\ rows' \in [Fingerprint -> Row \union {None}]
           /\ (Told(f)' <=> Told(f)) /\ rows'[f] # None
           /\ ~RowIs(f, "delivered")' /\ ~RowIs(f, "digest")'
           /\ \A g \in Fingerprint \ {f} : rows'[g] = rows[g]
<1>1. rows \in [Fingerprint -> Row \union {None}] /\ rows[f] \in Row
  BY DEF PassTypes
<1> DEFINE row == [rows[f] EXCEPT !.state = "pending"]
<1>2. row \in Row /\ row.state = "pending" /\ row.message = rows[f].message
  BY <1>1 DEF Row
<1>3. row # None
  BY <1>2, WatchFacts
<1>4. rows' = [rows EXCEPT ![f] = row]
  BY DEF Undelivered
<1> HIDE DEF row
<1>5. rows'[f] = row /\ \A g \in Fingerprint \ {f} : rows'[g] = rows[g]
  BY <1>1, <1>4
<1> QED
  BY <1>1, <1>2, <1>3, <1>4, <1>5 DEF Told, RowIs

\* A send is shown and waits for its mark, or there was a fault.
LEMMA ShowStep ==
    ASSUME WatchInv, SendNotice
    PROVE  WatchInv'
<1>1. /\ monitor.at = "send"
      /\ UNCHANGED <<record, later, run, runPolicy, newest, bound, runnerAttested, seen>>
      /\ UNCHANGED faults \/ Fault
  BY DEF SendNotice, heartbeat
<1>2. EvidenceInv' /\ faults \in Nat /\ faults' \in {faults, faults + 1}
  BY <1>1, FaultCounts DEF WatchInv
<1>3. PICK f \in Fingerprint : f = This
  BY <1>1, ThisOne DEF WatchInv, Telling
<1>4. \A g \in Fingerprint : SentOK(g) /\ sends[g] \in Nat /\ ~InFlight(g)
  BY <1>1 DEF WatchInv, PassTypes, InFlight
<1>5. rows[f] # None /\ ~Told(f) /\ RowIs(f, "pending")
  BY <1>1, <1>3, <1>4 DEF SentOK, RowIs
<1>6. sends[f] <= faults
  <2>1. sends[f] <= faults + (IF Told(f) \/ InFlight(f) THEN 1 ELSE 0)
    BY <1>4 DEF SentOK
  <2> QED
    BY <1>2, <1>4, <1>5, <2>1
<1>7. Shown({This}) =>
        /\ sends' \in [Fingerprint -> Nat] /\ sends'[f] = sends[f] + 1
        /\ \A g \in Fingerprint \ {f} : sends'[g] = sends[g]
  BY <1>3, <1>4 DEF Shown
<1>8. CASE PassTo("mark") /\ Shown({This}) /\ UNCHANGED <<faults, rows>>
  <2>1. /\ monitor' \in PassState /\ monitor'.at = "mark" /\ monitor'.todo # <<>>
        /\ This' = f
    BY <1>1, <1>3, <1>8, GoTelling DEF WatchInv, Telling
  <2>2. PassTypes'
    BY <1>1, <1>7, <1>8, <2>1 DEF WatchInv, PassTypes
  <2>3. ASSUME NEW g \in Fingerprint \ {f}
        PROVE  SentOK(g)'
    <3>1. ~InFlight(g)'
      BY <2>1 DEF InFlight
    <3> QED
      BY <1>1, <1>2, <1>4, <1>7, <1>8, <2>1, <3>1, SentFrame
  <2>4. SentOK(f)'
    <3>1. InFlight(f)' /\ ~Told(f)' /\ ~RowIs(f, "delivered")'
      BY <1>5, <1>8, <2>1 DEF InFlight, Told, RowIs
    <3> QED
      BY <1>2, <1>4, <1>5, <1>6, <1>7, <1>8, <2>1, <3>1 DEF SentOK
  <2> QED
    BY <1>2, <2>2, <2>3, <2>4 DEF WatchInv
<1>9. CASE /\ PassTo("sent") /\ Fault /\ Undelivered
           /\ Shown({This}) \/ UNCHANGED sends
  <2>1. /\ monitor' \in PassState /\ monitor'.at = "sent" /\ monitor'.todo # <<>>
    BY <1>1, <1>9, GoTelling DEF WatchInv, Telling
  <2>2. /\ rows' \in [Fingerprint -> Row \union {None}]
        /\ ~Told(f)' /\ rows'[f] # None
        /\ ~RowIs(f, "delivered")' /\ ~RowIs(f, "digest")'
        /\ \A g \in Fingerprint \ {f} : rows'[g] = rows[g]
    BY <1>3, <1>5, <1>9, FailedRow DEF WatchInv
  <2>3. PassTypes'
    BY <1>1, <1>7, <1>9, <2>1, <2>2 DEF WatchInv, PassTypes
  <2>4. ASSUME NEW g \in Fingerprint
        PROVE  ~InFlight(g)' /\ monitor'.at \notin {"send", "edit"}
    BY <2>1 DEF InFlight
  <2>5. ASSUME NEW g \in Fingerprint \ {f}
        PROVE  SentOK(g)'
    BY <1>1, <1>2, <1>4, <1>7, <1>9, <2>2, <2>4, SentFrame
  <2>6. SentOK(f)'
    <3>1. faults' = faults + 1 /\ sends'[f] \in {sends[f], sends[f] + 1}
      BY <1>7, <1>9 DEF Fault
    <3> QED
      BY <1>2, <1>4, <1>6, <2>2, <2>4, <3>1 DEF SentOK
  <2> QED
    BY <1>2, <2>3, <2>5, <2>6 DEF WatchInv
<1> QED
  BY <1>8, <1>9 DEF SendNotice

\* A row that is edited was shown before.
LEMMA EditStep ==
    ASSUME WatchInv, Edit
    PROVE  WatchInv'
<1>1. /\ monitor.at = "edit" /\ PassTo("sent")
      /\ UNCHANGED <<record, later, run, runPolicy, newest, bound, runnerAttested, seen, sends>>
      /\ UNCHANGED faults \/ Fault
  BY DEF Edit, heartbeat
<1>2. EvidenceInv' /\ faults \in Nat /\ faults' \in {faults, faults + 1}
  BY <1>1, FaultCounts DEF WatchInv
<1>3. /\ monitor' \in PassState /\ monitor'.at = "sent" /\ monitor'.todo # <<>>
  BY <1>1, GoTelling DEF WatchInv, Telling
<1>4. CASE UNCHANGED <<faults, rows>>
  <2>1. PassTypes'
    BY <1>1, <1>3, <1>4 DEF WatchInv, PassTypes
  <2> QED
    BY <1>1, <1>2, <1>3, <1>4, <2>1, PassQuiet
<1>5. CASE Fault /\ Undelivered
  <2>1. PICK f \in Fingerprint : f = This
    BY <1>1, ThisOne DEF WatchInv, Telling
  <2>2. ASSUME NEW g \in Fingerprint
        PROVE  SentOK(g) /\ sends[g] \in Nat /\ ~InFlight(g) /\ ~InFlight(g)'
    BY <1>1, <1>3 DEF WatchInv, PassTypes, InFlight
  <2>3. Told(f) /\ rows[f] # None
    BY <1>1, <2>1, <2>2 DEF SentOK, Told
  <2>4. /\ rows' \in [Fingerprint -> Row \union {None}]
        /\ Told(f)' /\ rows'[f] # None
        /\ ~RowIs(f, "delivered")' /\ ~RowIs(f, "digest")'
        /\ \A g \in Fingerprint \ {f} : rows'[g] = rows[g]
    BY <1>5, <2>1, <2>3, FailedRow DEF WatchInv
  <2>5. PassTypes'
    BY <1>1, <1>3, <2>4 DEF WatchInv, PassTypes
  <2>6. ASSUME NEW g \in Fingerprint \ {f}
        PROVE  SentOK(g)'
    BY <1>1, <1>2, <1>3, <2>2, <2>4, SentFrame
  <2>7. SentOK(f)'
    BY <1>1, <1>2, <1>3, <2>2, <2>3, <2>4 DEF SentOK
  <2> QED
    BY <1>2, <2>5, <2>6, <2>7 DEF WatchInv
<1> QED
  BY <1>4, <1>5 DEF Edit

\* mark_notification after a send: the row that is marked was shown.
LEMMA MarkStep ==
    ASSUME WatchInv, Mark
    PROVE  WatchInv'
<1>1. /\ monitor.at \in {"mark", "sent"}
      /\ UNCHANGED <<record, later, run, runPolicy, newest, bound, faults, runnerAttested, seen, sends>>
  BY DEF Mark, heartbeat
<1>2. EvidenceInv' /\ faults \in Nat /\ faults' \in {faults, faults + 1}
  BY <1>1, FaultCounts DEF WatchInv
<1>3. CASE /\ monitor.at = "mark" /\ PassTo("sent")
           /\ rows' = [rows EXCEPT ![This] = Delivered(@)]
  <2>1. PICK f \in Fingerprint : f = This
    BY <1>1, ThisOne DEF WatchInv, Telling
  <2>2. ASSUME NEW g \in Fingerprint
        PROVE  SentOK(g) /\ sends[g] \in Nat /\ (InFlight(g) <=> g = f)
    BY <1>3, <2>1 DEF WatchInv, PassTypes, InFlight
  <2>3. rows[f] # None /\ sends[f] > 0
    BY <2>2 DEF SentOK
  <2>4. rows' = [rows EXCEPT ![f] = Delivered(@)]
    BY <1>3, <2>1
  <2>5. /\ rows' \in [Fingerprint -> Row \union {None}]
        /\ Told(f)' /\ ~RowIs(f, "digest")'
        /\ \A g \in Fingerprint \ {f} : rows'[g] = rows[g]
    BY <2>3, <2>4, Marked DEF WatchInv
  <2>6. /\ monitor' \in PassState /\ monitor'.at = "sent" /\ monitor'.todo # <<>>
    BY <1>1, <1>3, GoTelling DEF WatchInv, Telling
  <2>7. PassTypes'
    BY <1>1, <2>5, <2>6 DEF WatchInv, PassTypes
  <2>8. ASSUME NEW g \in Fingerprint
        PROVE  ~InFlight(g)'
    BY <2>6 DEF InFlight
  <2>9. ASSUME NEW g \in Fingerprint \ {f}
        PROVE  SentOK(g)'
    BY <1>1, <1>2, <2>2, <2>5, <2>6, <2>8, SentFrame
  <2>10. SentOK(f)'
    BY <1>1, <2>2, <2>3, <2>5, <2>6, <2>8 DEF SentOK
  <2> QED
    BY <1>2, <2>7, <2>9, <2>10 DEF WatchInv
<1>4. CASE /\ monitor.at = "sent" /\ UNCHANGED rows
           /\ monitor' = [monitor EXCEPT !.at = "notify", !.todo = Tail(@)]
  <2>1. /\ monitor' \in [at : Telling \union {"notify"}, todo : Seq(Kind),
                         generation : Generation, phase : Phase]
        /\ monitor'.at = "notify"
    BY <1>1, <1>4, ThisOne DEF WatchInv, Telling
  <2>2. PassTypes'
    BY <1>1, <1>4, <2>1 DEF WatchInv, PassTypes, PassState, Telling
  <2> QED
    BY <1>1, <1>2, <1>4, <2>1, <2>2, PassQuiet
<1> QED
  BY <1>3, <1>4 DEF Mark

LEMMA NoteStep ==
    ASSUME WatchInv, Note
    PROVE  WatchInv'
<1>1. /\ monitor.at = "notify" /\ monitor' = NoPass
      /\ seen' = [seen EXCEPT ![monitor.generation] = monitor.phase]
      /\ UNCHANGED <<record, later, run, runPolicy, newest, bound, faults, runnerAttested, rows, sends>>
  BY DEF Note, heartbeat
<1>2. EvidenceInv' /\ faults \in Nat /\ faults' \in {faults, faults + 1}
  BY <1>1, FaultCounts DEF WatchInv
<1>3. monitor.phase \in Phase
  BY <1>1 DEF WatchInv, PassTypes, PassState, Telling
<1>4. PassTypes'
  BY <1>1, <1>3 DEF WatchInv, PassTypes, PassState, Telling, NoPass
<1> QED
  BY <1>1, <1>2, <1>4, PassQuiet DEF NoPass

LEMMA PassDiesStep ==
    ASSUME WatchInv, PassDies
    PROVE  WatchInv'
<1>1. /\ monitor' = NoPass /\ Fault
      /\ UNCHANGED <<record, later, run, runPolicy, newest, bound, runnerAttested, rows, seen, sends>>
  BY DEF PassDies, heartbeat, pass
<1>2. EvidenceInv' /\ faults \in Nat /\ faults' = faults + 1
  BY <1>1, FaultCounts DEF WatchInv, Fault
<1>3. PassTypes'
  BY <1>1 DEF WatchInv, PassTypes, PassState, Telling, NoPass
<1> QED
  BY <1>1, <1>2, <1>3, PassQuiet DEF NoPass

\* Nobody acts, or an attestation grows too old.
LEMMA AgingStep ==
    ASSUME WatchInv,
           UNCHANGED <<record, later, run, runPolicy, newest, bound, faults, monitor, rows, seen, sends>>,
           runnerAttested' \in {runnerAttested, None}
    PROVE  WatchInv'
<1>1. EvidenceInv' /\ faults \in Nat /\ faults' \in {faults, faults + 1}
  BY FaultCounts DEF WatchInv
<1>2. PassTypes'
  BY DEF WatchInv, PassTypes
<1>3. ASSUME NEW f \in Fingerprint
      PROVE  SentOK(f)'
  <2>1. SentOK(f)
    BY DEF WatchInv
  <2>2. (Told(f)' <=> Told(f)) /\ (InFlight(f)' <=> InFlight(f)) /\ This' = This
    BY DEF Told, InFlight, This
  <2> QED
    BY <2>1, <2>2 DEF SentOK, RowIs
<1> QED
  BY <1>1, <1>2, <1>3 DEF WatchInv

\* A day makes the rows of the digest older and nothing else of them different.
LEMMA NextDayStep ==
    ASSUME WatchInv, NextDay
    PROVE  WatchInv'
<1>1. UNCHANGED <<record, later, run, runPolicy, newest, bound, faults, monitor, runnerAttested,
                  seen, sends>>
  BY DEF NextDay, heartbeat
<1>2. EvidenceInv' /\ faults \in Nat /\ faults' \in {faults, faults + 1}
  BY <1>1, FaultCounts DEF WatchInv
<1>3. ASSUME NEW f \in Fingerprint
      PROVE  /\ rows'[f] \in Row \union {None} /\ (rows'[f] # None <=> rows[f] # None)
             /\ rows'[f] # None => /\ rows'[f].state = rows[f].state
                                   /\ rows'[f].message = rows[f].message
  <2>1. rows[f] \in Row \union {None}
    BY <1>3 DEF WatchInv, PassTypes
  <2>2. CASE rows'[f] = rows[f]
    BY <2>1, <2>2
  <2>3. CASE /\ rows[f] \in Row /\ rows[f].age < MaxAge
             /\ rows'[f] = [rows[f] EXCEPT !.age = rows[f].age + 1]
    <3>1. rows[f].age + 1 \in 0..MaxAge
      BY <2>3 DEF Row, MaxAge
    <3>2. rows'[f] \in Row
      BY <2>3, <3>1 DEF Row
    <3>3. rows'[f].state = rows[f].state /\ rows'[f].message = rows[f].message
      BY <2>3 DEF Row
    <3> QED
      BY <2>3, <3>2, <3>3, WatchFacts
  <2> QED
    BY <2>1, <2>2, <2>3 DEF NextDay, RowIs
<1>4. PassTypes'
  <2>1. rows' \in [Fingerprint -> Row \union {None}]
    BY <1>3 DEF NextDay
  <2> QED
    BY <1>1, <2>1 DEF WatchInv, PassTypes
<1>5. ASSUME NEW f \in Fingerprint
      PROVE  SentOK(f)'
  <2>1. SentOK(f)
    BY DEF WatchInv
  <2>2. (Told(f)' <=> Told(f)) /\ (InFlight(f)' <=> InFlight(f)) /\ This' = This
    BY <1>1, <1>3 DEF Told, InFlight, This
  <2>3. \A s : RowIs(f, s)' <=> RowIs(f, s)
    BY <1>3 DEF RowIs
  <2>4. rows'[f] # None <=> rows[f] # None
    BY <1>3
  <2> QED
    BY <1>1, <2>1, <2>2, <2>3, <2>4 DEF SentOK
<1> QED
  BY <1>2, <1>4, <1>5 DEF WatchInv

LEMMA WatchBegins ==
    ASSUME WatchInit
    PROVE  WatchInv
<1>1. /\ record = None /\ later = 0 /\ run = [r \in Run |-> [at |-> "new"]]
      /\ runPolicy = 0 /\ faults = 0 /\ newest = None /\ bound \in Scenario
  BY DEF WatchInit, HeartbeatInit
<1>2. bound.policies \in Nat /\ bound.faults \in Nat /\ MaxRecords \in Nat \ {0}
  BY <1>1, WatchFacts, HeartbeatAssumption
<1>3. EvidenceInv
  <2>1. run \in [Run -> RunState]
    BY <1>1 DEF RunState
  <2>2. HeartbeatTypeOK
    BY <1>1, <1>2 DEF HeartbeatTypeOK
  <2> QED
    BY <1>1, <2>1, <2>2 DEF EvidenceInv, RecordOK
<1>4. PassTypes
  BY DEF WatchInit, NoPass, PassTypes, PassState, Telling
<1>5. ASSUME NEW f \in Fingerprint
      PROVE  SentOK(f)
  <2>1. rows[f] = None /\ sends[f] = 0 /\ monitor.at = "idle"
    BY DEF WatchInit, NoPass
  <2> QED
    BY <1>1, <2>1 DEF SentOK, Told, InFlight, RowIs
<1> QED
  BY <1>3, <1>4, <1>5 DEF WatchInv

LEMMA WatchStep ==
    ASSUME WatchInv, [WatchNext]_watchVars
    PROVE  WatchInv'
<1>1. CASE UNCHANGED watchVars
  BY <1>1, AgingStep DEF watchVars, heartbeat
<1>2. CASE HeartbeatNext /\ UNCHANGED <<monitor, pass>>
  <2>1. EvidenceInv' /\ faults' \in {faults, faults + 1} /\ faults \in Nat
    BY <1>2, HeartbeatStep, BoundFacts DEF WatchInv
  <2> QED
    BY <1>2, <2>1, PassStays DEF WatchInv, pass
<1>3. CASE WatchPass
  BY <1>3, PassStartStep, SendDigestStep, MarkDigestStep, ReadStep, UpsertStep, ShowStep, EditStep,
     MarkStep, NoteStep DEF WatchPass
<1>4. CASE AttestationAges
  BY <1>4, AgingStep DEF AttestationAges, heartbeat
<1> QED
  BY <1>1, <1>2, <1>3, <1>4, PassDiesStep, NextDayStep DEF WatchNext

\* The invariant holds of every reachable state, for every number of runs and every scenario.
LEMMA WatchInvariance == WatchSpec => []WatchInv
<1>1. WatchInit => WatchInv
  BY WatchBegins
<1>2. WatchInv /\ [WatchNext]_watchVars => WatchInv'
  BY WatchStep
<1> QED
  BY <1>1, <1>2, PTL DEF WatchSpec

\* The record, the attestation of the runner, the notifications and the phases seen keep
\* their types; the generations stay within the number of runs (runner_heartbeat.py,
\* tables notifications and settings).
THEOREM WatchTypeCorrectness == WatchSpec => []WatchTypeOK
<1>1. WatchInv => WatchTypeOK
  BY DEF WatchInv, EvidenceInv, PassTypes, WatchTypeOK
<1> QED
  BY <1>1, WatchInvariance, PTL

\* update of runner_heartbeat.py: the record shows what the last run to start reported,
\* whatever older runs still write and however often the record is cleaned up.
THEOREM CurrentEvidence == WatchSpec => []EvidenceIsCurrent
<1>1. WatchInv => EvidenceIsCurrent
  BY DEF WatchInv, EvidenceInv, RecordOK, EvidenceIsCurrent
<1> QED
  BY <1>1, WatchInvariance, PTL

\* notify_once and deliver_digest: what counts as delivered was shown, and it was shown once,
\* and once more at most for each fault.
THEOREM SingleDelivery == WatchSpec => []DeliveredOnce
<1>1. ASSUME WatchInv, NEW f \in Fingerprint
      PROVE  (RowIs(f, "delivered") => sends[f] > 0) /\ sends[f] <= 1 + faults
  <2>1. SentOK(f) /\ sends[f] \in Nat /\ faults \in Nat
    BY <1>1, BoundFacts DEF WatchInv, PassTypes
  <2>2. sends[f] <= faults + (IF Told(f) \/ InFlight(f) THEN 1 ELSE 0)
    BY <2>1 DEF SentOK
  <2>3. sends[f] <= 1 + faults
    BY <2>1, <2>2
  <2> QED
    BY <2>1, <2>3 DEF SentOK
<1>2. WatchInv => DeliveredOnce
  BY <1>1 DEF DeliveredOnce
<1> QED
  BY <1>2, WatchInvariance, PTL

\* Only a run that starts, or the clean-up, touches a terminal record.
LEMMA TerminalStep ==
    ASSUME WatchInv, [WatchNext]_watchVars, record # None, Over,
           record' \notin {record, None}
    PROVE  record'.writer # record.writer
<1>1. HeartbeatNext
  BY DEF WatchNext, watchVars, heartbeat, WatchPass, PassStart, SendDigest,
     MarkDigest, Read, Upsert, SendNotice, Edit, Mark, Note,
     PassDies, AttestationAges, NextDay
<1>2. \A r \in Run : ~Owns(r)
  BY DEF Owns
<1>3. bound.runs \subseteq Run
  BY BoundFacts DEF WatchInv
<1>4. PICK r \in Run : Start(r)
  BY <1>1, <1>2, <1>3 DEF HeartbeatNext, ChangePolicy, OthersWrite, AdvanceRun,
     TickRun, Die, FinishRun
<1>5. record'.writer = r /\ run[r].at = "new"
  BY <1>4 DEF Start, Write
<1>6. record.writer = newest /\ run[newest].at # "new"
  BY DEF WatchInv, EvidenceInv, RecordOK, Started
<1> QED
  BY <1>5, <1>6

\* update of runner_heartbeat.py: a terminal record is not revived by a late report; it stays
\* until it is removed or another run starts.
THEOREM FinalTerminals == WatchSpec => TerminalIsFinal
<1>1. WatchInv /\ [WatchNext]_watchVars =>
        [record # None /\ Over /\ record' \notin {record, None}
            => record'.writer # record.writer]_record
  BY TerminalStep
<1> QED
  BY <1>1, WatchInvariance, PTL DEF TerminalIsFinal, WatchSpec
==============================================================================
