------------------------- MODULE AuthorizationProofs -------------------------
(***************************************************************************)
(* For every number of threads, approvals, identities, plans and states:   *)
(* types, LedgerCoherent, StartedAsApproved, OperationsAudited, and that   *)
(* the approvals implement SingleUseApproval.                              *)
(*                                                                         *)
(* The inductive invariant follows one approval through the calls.  What a *)
(* call has read differs from the row at most in its state and stamps      *)
(* (Terms), a call that has consumed an approval and not yet created its   *)
(* operation is its only holder, and a consumed row never changes again.   *)
(***************************************************************************)
EXTENDS Authorization, SequenceTheorems, TLAPS

------------------------------------------------------------------------------
(* The invariant                                                           *)

Terms(a, b) == /\ a.identity = b.identity
               /\ a.plan = b.plan
               /\ a.digestState = b.digestState

\* Call c has consumed approval id and will create its operation.
Holds(c, id) ==
    /\ c.at \in {"audit", "create"} /\ c.action = "authorize" /\ c.id = id

\* What c has read is an older version of the row.
DocOK(c) ==
    /\ c.id \in ApprovalId
    /\ c.doc \in Approval /\ Coherent(c.doc)
    /\ ledger[c.id] \in Approval
    /\ Terms(c.doc, ledger[c.id])

SwapOK(c) ==
    /\ c.action \in {"approve", "revoke", "authorize"}
    /\ c.action = "approve" =>
          /\ c.doc.state = "pending"
          /\ Decided([identity |-> c.identity, confirmed |-> c.confirmed], c.doc)
    /\ c.action = "revoke" => c.doc.state \in {"pending", "approved"}
    /\ c.action = "authorize" => c.doc.state = "approved" /\ Justified(c, c.doc)

HolderOK(c) ==
    /\ ledger[c.id] \in Approval /\ ledger[c.id].state = "consumed"
    /\ Justified(c, ledger[c.id])
    /\ operations[c.id] = <<>>

CallOK(c) ==
    /\ c.at = "read" => c.id \in ApprovalId
    /\ c.at = "observe" => c.action = "authorize"
    /\ c.at \in {"observe", "check", "swap"} => DocOK(c)
    /\ c.at = "swap" => SwapOK(c)
    /\ c.at = "audit" => c.id \in ApprovalId
    /\ c.at = "create" => c.action = "authorize"
    /\ \A id \in ApprovalId : Holds(c, id) => HolderOK(c)
    /\ c.at = "create" /\ c.id \in ApprovalId => <<c.id, "authorize">> \in audit
    /\ c.at \in {"read", "observe", "check", "swap", "audit", "create"} /\ c.action = "authorize"
          => c.plan \in Plan
    /\ c.at \in {"check", "swap", "audit"} /\ c.action = "authorize" => c.seen \in LabState
    /\ c.at = "create" /\ c.id # Nothing => c.seen \in LabState

RowOK(id) ==
    /\ ledger[id] # Absent => Coherent(ledger[id])
    /\ ledger[id].state \in {"approved", "consumed"} => Decided(decision[id], ledger[id])
    /\ Len(operations[id]) \in {0, 1}
    /\ operations[id] # <<>> =>
          /\ ledger[id].state = "consumed"
          /\ Justified(operations[id][1], ledger[id])
          /\ <<id, "authorize">> \in audit

SingleHolder ==
    \A t, u \in Thread, id \in ApprovalId :
        Holds(call[t], id) /\ Holds(call[u], id) => t = u

IInv ==
    /\ TypeOK
    /\ \A t \in Thread : CallOK(call[t])
    /\ \A id \in ApprovalId : RowOK(id)
    /\ SingleHolder

------------------------------------------------------------------------------
(* Facts about types                                                       *)

LEMMA AbsentIsNoApproval == Absent \notin Approval /\ Absent.state = "absent"
BY DEF Absent, Approval

LEMMA NewCallType ==
    ASSUME NEW point \in Point, NEW action \in AuditAction,
           NEW id \in ApprovalId \union {Nothing}, NEW i \in Identity,
           NEW p \in Plan \union {Nothing}
    PROVE  /\ NewCall(point, action, id, i, p) \in Call
           /\ NewCall(point, action, id, i, p).at = point
           /\ NewCall(point, action, id, i, p).action = action
           /\ NewCall(point, action, id, i, p).id = id
           /\ NewCall(point, action, id, i, p).identity = i
           /\ NewCall(point, action, id, i, p).plan = p
           /\ NewCall(point, action, id, i, p).seen = Nothing
BY DEF NewCall, Call

LEMMA InitInvariant == Init => IInv
<1> SUFFICES ASSUME Init PROVE IInv
  OBVIOUS
<1>1. TypeOK
  BY AuthorizationAssumption DEF Init, TypeOK, Time
<1>2. ASSUME NEW t \in Thread PROVE call[t].at = "idle"
  BY DEF Init, Idle
<1>3. \A t \in Thread : CallOK(call[t])
  BY <1>2 DEF CallOK, Holds
<1>4. ASSUME NEW id \in ApprovalId PROVE RowOK(id)
  BY AbsentIsNoApproval DEF Init, RowOK, Absent
<1>5. SingleHolder
  BY <1>2 DEF SingleHolder, Holds
<1> QED BY <1>1, <1>3, <1>4, <1>5 DEF IInv

------------------------------------------------------------------------------
(* What a step of one thread leaves to the others                          *)

\* The calls of the other threads stay right as long as rows keep their terms,
\* consumed rows stay, and nobody else creates the operation of a holder.
LEMMA OtherCalls ==
    ASSUME IInv, NEW u \in Thread, call'[u] = call[u],
           audit \subseteq audit',
           \A id \in ApprovalId : ledger[id] \in Approval =>
               ledger'[id] \in Approval /\ Terms(ledger[id], ledger'[id]),
           \A id \in ApprovalId : ledger[id].state = "consumed" => ledger'[id] = ledger[id],
           \A id \in ApprovalId : Holds(call[u], id) => operations'[id] = operations[id]
    PROVE  CallOK(call[u])'
<1> DEFINE c == call[u]
<1>1. CallOK(c)
  BY DEF IInv
<1>2. c' = c
  OBVIOUS
<1>3. c.at \in {"observe", "check", "swap"} => DocOK(c)'
  BY <1>1, <1>2 DEF CallOK, DocOK, Terms
<1>4. c.at = "swap" => SwapOK(c)'
  BY <1>1, <1>2 DEF CallOK, SwapOK
<1>5. ASSUME NEW id \in ApprovalId, Holds(c, id) PROVE HolderOK(c)'
  <2>1. c.id = id /\ HolderOK(c)
    BY <1>1, <1>5 DEF CallOK, Holds
  <2>2. ledger'[id] = ledger[id] /\ operations'[id] = operations[id]
    BY <1>5, <2>1 DEF HolderOK
  <2> QED BY <1>2, <2>1, <2>2 DEF HolderOK
<1>6. \A id \in ApprovalId : Holds(c, id)' <=> Holds(c, id)
  BY <1>2 DEF Holds
<1> HIDE DEF c
<1> QED BY <1>1, <1>2, <1>3, <1>4, <1>5, <1>6 DEF CallOK, c

\* A step that only moves its own call.
LEMMA LocalStep ==
    ASSUME IInv, NEW t \in Thread, NEW c \in Call \union {Idle},
           call' = [call EXCEPT ![t] = c],
           UNCHANGED <<ledger, audit, operations, decision, lab, now>>,
           CallOK(c), \A id \in ApprovalId : ~Holds(c, id)
    PROVE  IInv'
<1>1. TypeOK'
  BY DEF IInv, TypeOK
<1>2. call'[t] = c /\ \A u \in Thread \ {t} : call'[u] = call[u]
  BY DEF IInv, TypeOK
<1>3. \A u \in Thread \ {t} : CallOK(call[u])'
  BY <1>2, OtherCalls DEF Terms
<1>4. CallOK(call[t])'
  BY <1>2 DEF CallOK, DocOK, SwapOK, HolderOK
<1>5. \A id \in ApprovalId : RowOK(id)'
  BY DEF IInv, RowOK
<1>6. SingleHolder'
  BY <1>2 DEF IInv, SingleHolder, Holds
<1> QED BY <1>1, <1>3, <1>4, <1>5, <1>6 DEF IInv

LEMMA RaiseInvariant ==
    ASSUME IInv, NEW t \in Thread, NEW recorded \in BOOLEAN, call[t] \in Call,
           Raise(t, recorded), UNCHANGED <<operations, lab, now>>
    PROVE  IInv'
<1> DEFINE n == NewCall("raised", call[t].action, call[t].id, call[t].identity, Nothing)
           c == [n EXCEPT !.recorded = recorded]
<1>1. n \in Call /\ n.at = "raised"
  BY NewCallType DEF Call, Point
<1>2. c \in Call /\ c.at = "raised"
  BY <1>1 DEF Call
<1>3. call' = [call EXCEPT ![t] = c]
  BY DEF Raise
<1>4. CallOK(c) /\ \A id \in ApprovalId : ~Holds(c, id)
  BY <1>2 DEF CallOK, Holds
<1> HIDE DEF c
<1> QED BY <1>2, <1>3, <1>4, LocalStep DEF Raise

\* A call that is not idle is a call.
LEMMA ActiveCall ==
    ASSUME IInv, NEW t \in Thread, call[t].at # "idle"
    PROVE  call[t] \in Call /\ CallOK(call[t])
BY DEF IInv, TypeOK, Idle

------------------------------------------------------------------------------
(* Steps that only move their own call                                     *)

LEMMA BeginInvariant ==
    ASSUME IInv, NEW t \in Thread, Approve(t) \/ Revoke(t) \/ Authorize(t)
    PROVE  IInv'
<1>1. CASE Approve(t)
  <2>1. PICK id \in ApprovalId, i \in Authenticated, confirmed \in BOOLEAN :
          call' = [call EXCEPT ![t] =
              [NewCall("read", "approve", id, i, Nothing) EXCEPT !.confirmed = confirmed]]
    BY <1>1 DEF Approve
  <2> DEFINE n == NewCall("read", "approve", id, i, Nothing)
             c == [n EXCEPT !.confirmed = confirmed]
  <2>2. n \in Call /\ n.at = "read" /\ n.action = "approve" /\ n.id = id
    BY NewCallType DEF Point, AuditAction, Authenticated
  <2>3. c \in Call /\ c.at = "read" /\ c.action = "approve" /\ c.id = id
    BY <2>2 DEF Call
  <2>4. CallOK(c) /\ \A x \in ApprovalId : ~Holds(c, x)
    BY <2>3 DEF CallOK, Holds
  <2>5. call' = [call EXCEPT ![t] = c]
    BY <2>1
  <2> HIDE DEF c
  <2> QED BY <1>1, <2>3, <2>4, <2>5, LocalStep DEF Approve
<1>2. CASE Revoke(t)
  <2>1. PICK id \in ApprovalId, i \in Authenticated :
          call' = [call EXCEPT ![t] = NewCall("read", "revoke", id, i, Nothing)]
    BY <1>2 DEF Revoke
  <2> DEFINE c == NewCall("read", "revoke", id, i, Nothing)
  <2>2. c \in Call /\ c.at = "read" /\ c.action = "revoke" /\ c.id = id
    BY NewCallType DEF Point, AuditAction, Authenticated
  <2>3. CallOK(c) /\ \A x \in ApprovalId : ~Holds(c, x)
    BY <2>2 DEF CallOK, Holds
  <2>4. call' = [call EXCEPT ![t] = c]
    BY <2>1
  <2> HIDE DEF c
  <2> QED BY <1>2, <2>2, <2>3, <2>4, LocalStep DEF Revoke
<1>3. CASE Authorize(t)
  <2>1. PICK id \in ApprovalId \union {Nothing}, i \in Authenticated, p \in Plan :
          call' = [call EXCEPT ![t] =
              IF Risk[p] \notin ApprovalRequired THEN NewCall("create", "authorize", Nothing, i, p)
              ELSE IF id = Nothing
                THEN [NewCall("raised", "authorize", id, i, p) EXCEPT !.recorded = TRUE]
              ELSE NewCall("read", "authorize", id, i, p)]
    BY <1>3 DEF Authorize
  <2> DEFINE routine == NewCall("create", "authorize", Nothing, i, p)
             m == NewCall("raised", "authorize", id, i, p)
             denied == [m EXCEPT !.recorded = TRUE]
             begun == NewCall("read", "authorize", id, i, p)
             c == IF Risk[p] \notin ApprovalRequired THEN routine
                  ELSE IF id = Nothing THEN denied ELSE begun
  <2>2. routine \in Call /\ routine.at = "create" /\ routine.id = Nothing
        /\ routine.action = "authorize" /\ routine.plan = p
    BY DEF NewCall, Call, Point, AuditAction, Authenticated
  <2>3. m \in Call /\ m.at = "raised"
    BY NewCallType DEF Point, AuditAction, Authenticated
  <2>4. denied \in Call /\ denied.at = "raised"
    BY <2>3 DEF Call
  <2>5. begun \in Call /\ begun.at = "read" /\ begun.id = id /\ begun.plan = p
    BY NewCallType DEF Point, AuditAction, Authenticated
  <2>6. CallOK(routine) /\ \A x \in ApprovalId : ~Holds(routine, x)
    BY <2>2, AuthorizationAssumption DEF CallOK, Holds
  <2>7. CallOK(denied) /\ \A x \in ApprovalId : ~Holds(denied, x)
    BY <2>4 DEF CallOK, Holds
  <2>8. id # Nothing => CallOK(begun) /\ \A x \in ApprovalId : ~Holds(begun, x)
    BY <2>5 DEF CallOK, Holds
  <2>9. call' = [call EXCEPT ![t] = c]
    BY <2>1
  <2> HIDE DEF routine, denied, begun
  <2>10. c \in Call /\ CallOK(c) /\ \A x \in ApprovalId : ~Holds(c, x)
    BY <2>2, <2>4, <2>5, <2>6, <2>7, <2>8
  <2> HIDE DEF c
  <2> QED BY <1>3, <2>9, <2>10, LocalStep DEF Authorize
<1> QED BY <1>1, <1>2, <1>3

LEMMA ReadInvariant ==
    ASSUME IInv, NEW t \in Thread, ReadApproval(t)
    PROVE  IInv'
<1>1. call[t].at = "read" /\ UNCHANGED <<operations, lab, now>>
  BY DEF ReadApproval
<1>2. call[t] \in Call /\ CallOK(call[t]) /\ call[t].id \in ApprovalId
  BY <1>1, ActiveCall DEF CallOK
<1>3. CASE ledger[call[t].id] = Absent
  BY <1>1, <1>2, <1>3, RaiseInvariant DEF ReadApproval, DenySilently
<1>4. CASE ledger[call[t].id] # Absent
  <2> DEFINE c == [call[t] EXCEPT !.doc = ledger[call[t].id],
                       !.at = IF call[t].action = "authorize" THEN "observe" ELSE "check"]
  <2>1. call' = [call EXCEPT ![t] = c] /\ UNCHANGED <<ledger, audit, decision>>
    BY <1>4 DEF ReadApproval
  <2>2. ledger[call[t].id] \in Approval /\ Coherent(ledger[call[t].id])
    BY <1>2, <1>4 DEF IInv, TypeOK, RowOK
  <2>3. /\ c \in Call /\ c.id = call[t].id /\ c.doc = ledger[call[t].id]
        /\ c.action = call[t].action /\ c.plan = call[t].plan
        /\ c.at = (IF c.action = "authorize" THEN "observe" ELSE "check")
    BY <1>2, <2>2 DEF Call, Point
  <2>4. DocOK(c)
    BY <1>2, <2>2, <2>3 DEF DocOK, Terms
  <2> HIDE DEF c
  <2>5. CallOK(c) /\ \A x \in ApprovalId : ~Holds(c, x)
    BY <1>1, <1>2, <2>3, <2>4 DEF CallOK, Holds
  <2> QED BY <1>1, <2>1, <2>3, <2>5, LocalStep
<1> QED BY <1>3, <1>4

LEMMA ObserveInvariant ==
    ASSUME IInv, NEW t \in Thread, Observe(t)
    PROVE  IInv'
<1>1. call[t].at = "observe" /\ UNCHANGED <<operations, lab, now>>
  BY DEF Observe
<1>2. call[t] \in Call /\ CallOK(call[t])
  BY <1>1, ActiveCall
<1>3. CASE Deny(t)
  BY <1>1, <1>2, <1>3, RaiseInvariant DEF Deny
<1>4. CASE ~Deny(t)
  <2> DEFINE c == [call[t] EXCEPT !.seen = lab, !.at = "check"]
  <2>1. call' = [call EXCEPT ![t] = c] /\ UNCHANGED <<ledger, audit, decision>>
    BY <1>4 DEF Observe
  <2>2. lab \in LabState
    BY DEF IInv, TypeOK
  <2>3. /\ c \in Call /\ c.id = call[t].id /\ c.doc = call[t].doc /\ c.seen = lab
        /\ c.action = call[t].action /\ c.plan = call[t].plan /\ c.at = "check"
    BY <1>2, <2>2 DEF Call, Point
  <2> HIDE DEF c
  <2>4. DocOK(c)
    BY <1>1, <1>2, <2>3 DEF CallOK, DocOK
  <2>5. CallOK(c) /\ \A x \in ApprovalId : ~Holds(c, x)
    BY <1>1, <1>2, <2>2, <2>3, <2>4 DEF CallOK, Holds
  <2> QED BY <1>1, <2>1, <2>3, <2>5, LocalStep
<1> QED BY <1>3, <1>4

LEMMA CheckInvariant ==
    ASSUME IInv, NEW t \in Thread, CheckApprove(t) \/ CheckRevoke(t) \/ CheckAuthorize(t)
    PROVE  IInv'
<1>1. /\ call[t].at = "check" /\ UNCHANGED <<operations, lab, now>>
      /\ call[t].action \in {"approve", "revoke", "authorize"}
  BY DEF CheckApprove, CheckRevoke, CheckAuthorize
<1>2. call[t] \in Call /\ CallOK(call[t])
  BY <1>1, ActiveCall
<1>3. CASE Deny(t)
  BY <1>1, <1>2, <1>3, RaiseInvariant DEF Deny
<1>4. CASE DenySilently(t)
  BY <1>1, <1>2, <1>4, RaiseInvariant DEF DenySilently
<1>5. CASE ~Deny(t) /\ ~DenySilently(t)
  <2> DEFINE c == [call[t] EXCEPT !.at = "swap"]
  <2>1. /\ call' = [call EXCEPT ![t] = c] /\ UNCHANGED <<ledger, audit, decision>>
        /\ call[t].action = "approve" => MayApprove(call[t])
        /\ call[t].action = "revoke" => call[t].doc.state \in {"pending", "approved"}
        /\ call[t].action = "authorize" => MayConsume(call[t])
    BY <1>5 DEF CheckApprove, CheckRevoke, CheckAuthorize, Goto
  <2>2. /\ c \in Call /\ c.id = call[t].id /\ c.doc = call[t].doc /\ c.seen = call[t].seen
        /\ c.action = call[t].action /\ c.plan = call[t].plan /\ c.at = "swap"
        /\ c.identity = call[t].identity /\ c.confirmed = call[t].confirmed
        /\ c.identity \in Identity /\ c.confirmed \in BOOLEAN
    BY <1>2 DEF Call, Point
  <2> HIDE DEF c
  <2>3. DocOK(c)
    BY <1>1, <1>2, <2>2 DEF CallOK, DocOK
  <2>4. SwapOK(c)
    BY <1>1, <2>1, <2>2 DEF SwapOK, MayApprove, MayConsume, Decided, Decision, Justified, BoundTo
  <2>5. CallOK(c) /\ \A x \in ApprovalId : ~Holds(c, x)
    BY <1>1, <1>2, <2>2, <2>3, <2>4 DEF CallOK, Holds
  <2> QED BY <1>1, <2>1, <2>2, <2>5, LocalStep
<1> QED BY <1>3, <1>4, <1>5

LEMMA FailInvariant ==
    ASSUME IInv, NEW t \in Thread, Fail(t)
    PROVE  IInv'
<1>1. CallOK(Idle) /\ \A id \in ApprovalId : ~Holds(Idle, id)
  BY DEF CallOK, Holds, Idle
<1> QED BY <1>1, LocalStep DEF Fail

------------------------------------------------------------------------------
(* Steps that write the tables                                             *)

LEMMA RequestInvariant ==
    ASSUME IInv, NEW t \in Thread, Request(t)
    PROVE  IInv'
<1>1. PICK id \in ApprovalId, i \in Authenticated, p \in Plan :
          /\ ledger[id] = Absent
          /\ ledger' = [ledger EXCEPT ![id] =
                [state |-> "pending", identity |-> i, plan |-> p, digestState |-> lab,
                 expiresAt |-> now + ApprovalTtl, stamps |-> {}]]
          /\ call' = [call EXCEPT ![t] = NewCall("audit", "request", id, i, Nothing)]
  BY DEF Request
<1>2. UNCHANGED <<audit, operations, decision, lab, now>> /\ call[t] = Idle
  BY DEF Request
<1> DEFINE a == [state |-> "pending", identity |-> i, plan |-> p, digestState |-> lab,
                 expiresAt |-> now + ApprovalTtl, stamps |-> {}]
           c == NewCall("audit", "request", id, i, Nothing)
<1>3. a \in Approval /\ a.state = "pending" /\ a.stamps = {}
  BY AuthorizationAssumption DEF IInv, TypeOK, Approval, Authenticated, Time
<1>4. c \in Call /\ c.at = "audit" /\ c.action = "request" /\ c.id = id
  BY NewCallType DEF Point, AuditAction, Authenticated
<1>5. ledger' = [ledger EXCEPT ![id] = a] /\ call' = [call EXCEPT ![t] = c]
  BY <1>1
<1> HIDE DEF a, c
<1>6. /\ ledger' \in [ApprovalId -> Approval \union {Absent}]
      /\ ledger'[id] = a /\ \A x \in ApprovalId \ {id} : ledger'[x] = ledger[x]
  BY <1>3, <1>5 DEF IInv, TypeOK
<1>7. /\ call' \in [Thread -> Call \union {Idle}]
      /\ call'[t] = c /\ \A u \in Thread \ {t} : call'[u] = call[u]
  BY <1>4, <1>5 DEF IInv, TypeOK
<1>8. TypeOK'
  BY <1>2, <1>6, <1>7 DEF IInv, TypeOK
<1>9. ledger[id] \notin Approval /\ ledger[id].state = "absent"
  BY <1>1, AbsentIsNoApproval
<1>10. \A u \in Thread \ {t} : CallOK(call[u])'
  BY <1>2, <1>6, <1>7, <1>9, OtherCalls DEF Terms
<1>11. CallOK(call[t])'
  BY <1>4, <1>7 DEF CallOK, Holds
<1>12. ASSUME NEW x \in ApprovalId PROVE RowOK(x)'
  <2>1. CASE x = id
    <3>1. operations[id] = <<>>
      BY <1>9 DEF IInv, RowOK
    <3>2. Coherent(a)
      BY <1>3 DEF Coherent
    <3>3. ledger'[x] = a /\ operations'[x] = <<>>
      BY <1>2, <1>6, <2>1, <3>1
    <3> QED BY <1>3, <3>2, <3>3 DEF RowOK
  <2>2. CASE x # id
    <3>1. RowOK(x)
      BY DEF IInv
    <3>2. ledger'[x] = ledger[x]
      BY <1>6, <2>2
    <3> QED BY <1>2, <3>1, <3>2 DEF RowOK
  <2> QED BY <2>1, <2>2
<1>13. SingleHolder'
  BY <1>4, <1>7 DEF IInv, SingleHolder, Holds
<1> QED BY <1>8, <1>10, <1>11, <1>12, <1>13 DEF IInv

\* What an accepted decision or consumption establishes: the row still is as it
\* was read, so that no other call holds it.
LEMMA TransitionFacts ==
    ASSUME IInv, NEW t \in Thread, call[t].at = "swap",
           NEW state \in {"approved", "revoked", "consumed"},
           NEW stamp \in {"decided", "revoked", "consumed"},
           Transition(t, state, stamp),
           UNCHANGED <<operations, lab, now>>
    PROVE  LET id == call[t].id
               c == call[t]
           IN  /\ c \in Call /\ DocOK(c) /\ SwapOK(c)
               /\ c.doc.state \in {"pending", "approved"} /\ ledger[id].state = c.doc.state
               /\ ledger' \in [ApprovalId -> Approval \union {Absent}]
               /\ ledger'[id] \in Approval /\ Terms(c.doc, ledger'[id])
               /\ ledger'[id].state = state /\ ledger'[id].stamps = c.doc.stamps \union {stamp}
               /\ \A x \in ApprovalId \ {id} : ledger'[x] = ledger[x]
               /\ call' \in [Thread -> Call \union {Idle}]
               /\ call'[t].at = "audit" /\ call'[t].id = id /\ call'[t].action = c.action
               /\ call'[t].plan = c.plan /\ call'[t].seen = c.seen /\ call'[t].identity = c.identity
               /\ \A u \in Thread \ {t} : call'[u] = call[u]
               /\ \A u \in Thread : ~Holds(call[u], id)
               /\ operations[id] = <<>>
               /\ \A u \in Thread \ {t} : CallOK(call[u])'
<1> DEFINE c == call[t]
           id == c.id
           a == [c.doc EXCEPT !.state = state, !.stamps = @ \union {stamp}]
           n == [c EXCEPT !.at = "audit", !.doc = Absent]
<1>1. c \in Call /\ CallOK(c) /\ DocOK(c) /\ SwapOK(c) /\ id \in ApprovalId
  BY ActiveCall DEF CallOK, DocOK
<1>2. c.doc.state \in {"pending", "approved"}
  BY <1>1 DEF SwapOK
<1>3. /\ ledger[id].state = c.doc.state
      /\ ledger' = [ledger EXCEPT ![id] = a]
      /\ call' = [call EXCEPT ![t] = n]
      /\ UNCHANGED audit
  BY DEF Transition
<1>4. /\ a \in Approval /\ Terms(c.doc, a) /\ a.state = state
      /\ a.stamps = c.doc.stamps \union {stamp}
  BY <1>1 DEF DocOK, Approval, Terms
<1>5. /\ n \in Call /\ n.at = "audit" /\ n.id = id /\ n.action = c.action
      /\ n.plan = c.plan /\ n.seen = c.seen /\ n.identity = c.identity
  BY <1>1 DEF Call, Point
<1> HIDE DEF a, n
<1>6. /\ ledger' \in [ApprovalId -> Approval \union {Absent}]
      /\ ledger'[id] = a /\ \A x \in ApprovalId \ {id} : ledger'[x] = ledger[x]
  BY <1>1, <1>3, <1>4 DEF IInv, TypeOK
<1>7. /\ call' \in [Thread -> Call \union {Idle}]
      /\ call'[t] = n /\ \A u \in Thread \ {t} : call'[u] = call[u]
  BY <1>3, <1>5 DEF IInv, TypeOK
<1>8. \A u \in Thread : ~Holds(call[u], id)
  <2> SUFFICES ASSUME NEW u \in Thread, Holds(call[u], id) PROVE FALSE
    OBVIOUS
  <2>1. CallOK(call[u]) /\ call[u].id = id
    BY DEF IInv, Holds
  <2>2. HolderOK(call[u])
    BY <1>1, <2>1 DEF CallOK
  <2> QED BY <1>2, <1>3, <2>1, <2>2 DEF HolderOK
<1>9. operations[id] = <<>>
  BY <1>1, <1>2, <1>3 DEF IInv, RowOK
<1>10. \A x \in ApprovalId : ledger[x] \in Approval =>
          ledger'[x] \in Approval /\ Terms(ledger[x], ledger'[x])
  BY <1>1, <1>4, <1>6 DEF Terms, DocOK
<1>11. \A x \in ApprovalId : ledger[x].state = "consumed" => ledger'[x] = ledger[x]
  BY <1>2, <1>3, <1>6
<1>12. \A u \in Thread \ {t} : CallOK(call[u])'
  BY <1>3, <1>7, <1>10, <1>11, OtherCalls
<1> QED BY <1>1, <1>2, <1>3, <1>4, <1>5, <1>6, <1>7, <1>8, <1>9, <1>12

\* The row that a decision or a consumption leaves is right, and so is the call.
LEMMA SwapInvariant ==
    ASSUME IInv, NEW t \in Thread, call[t].at = "swap",
           NEW state \in {"approved", "revoked", "consumed"},
           NEW stamp \in {"decided", "revoked", "consumed"},
           Transition(t, state, stamp),
           UNCHANGED <<operations, lab, now>>,
           decision' \in [ApprovalId -> Decision \union {Absent}],
           \A x \in ApprovalId \ {call[t].id} : decision'[x] = decision[x],
           \/ /\ call[t].action = "approve" /\ state = "approved" /\ stamp = "decided"
              /\ decision'[call[t].id] = [identity |-> call[t].identity,
                                          confirmed |-> call[t].confirmed]
           \/ /\ call[t].action = "revoke" /\ state = "revoked" /\ stamp = "revoked"
           \/ /\ call[t].action = "authorize" /\ state = "consumed" /\ stamp = "consumed"
              /\ decision' = decision
    PROVE  IInv'
<1> DEFINE c == call[t]
           id == c.id
<1>1. /\ c \in Call /\ DocOK(c) /\ SwapOK(c) /\ id \in ApprovalId
      /\ ledger[id].state = c.doc.state
      /\ ledger' \in [ApprovalId -> Approval \union {Absent}]
      /\ ledger'[id] \in Approval /\ Terms(c.doc, ledger'[id])
      /\ ledger'[id].state = state /\ ledger'[id].stamps = c.doc.stamps \union {stamp}
      /\ \A x \in ApprovalId \ {id} : ledger'[x] = ledger[x]
      /\ call' \in [Thread -> Call \union {Idle}]
      /\ call'[t].at = "audit" /\ call'[t].id = id /\ call'[t].action = c.action
      /\ call'[t].plan = c.plan /\ call'[t].seen = c.seen /\ call'[t].identity = c.identity
      /\ \A u \in Thread \ {t} : call'[u] = call[u]
      /\ \A u \in Thread : ~Holds(call[u], id)
      /\ operations[id] = <<>>
      /\ \A u \in Thread \ {t} : CallOK(call[u])'
  BY TransitionFacts DEF DocOK
<1>2. UNCHANGED audit
  BY DEF Transition
<1>3. TypeOK'
  BY <1>1, <1>2 DEF IInv, TypeOK
<1>4. CallOK(call[t])'
  <2>1. CallOK(c)
    BY DEF IInv
  <2>2. c.action = "authorize" => HolderOK(call[t])'
    BY <1>1 DEF HolderOK, SwapOK, Justified, Terms, BoundTo
  <2>3. c.action = "authorize" => c.plan \in Plan /\ c.seen \in LabState
    BY <2>1 DEF CallOK
  <2> QED BY <1>1, <2>2, <2>3 DEF CallOK, Holds
<1>5. Coherent(ledger[id]')
  BY <1>1 DEF Coherent, DocOK, SwapOK
<1>6. state \in {"approved", "consumed"} => Decided(decision[id]', ledger[id]')
  <2>1. CASE c.action = "approve"
    BY <1>1, <2>1 DEF SwapOK, Decided, Terms, BoundTo
  <2>2. CASE c.action = "authorize"
    <3>1. Decided(decision[id], ledger[id])
      BY <1>1, <2>2 DEF IInv, RowOK, SwapOK
    <3> QED BY <1>1, <2>2, <3>1 DEF Decided, Terms, DocOK, BoundTo
  <2> QED BY <2>1, <2>2
<1>7. ASSUME NEW x \in ApprovalId PROVE RowOK(x)'
  <2>1. CASE x = id
    BY <1>1, <1>5, <1>6, <2>1 DEF RowOK
  <2>2. CASE x # id
    <3>1. RowOK(x)
      BY DEF IInv
    <3>2. ledger'[x] = ledger[x] /\ decision'[x] = decision[x]
      BY <1>1, <2>2
    <3> QED BY <1>2, <3>1, <3>2 DEF RowOK
  <2> QED BY <2>1, <2>2
<1>8. SingleHolder'
  BY <1>1 DEF IInv, SingleHolder, Holds
<1> QED BY <1>1, <1>3, <1>4, <1>7, <1>8 DEF IInv

LEMMA SwapStepInvariant ==
    ASSUME IInv, NEW t \in Thread, SwapApprove(t) \/ SwapRevoke(t) \/ SwapAuthorize(t)
    PROVE  IInv'
<1>1. call[t].at = "swap" /\ UNCHANGED <<operations, lab, now>>
  BY DEF SwapApprove, SwapRevoke, SwapAuthorize
<1>2. call[t] \in Call /\ CallOK(call[t]) /\ call[t].id \in ApprovalId
  BY <1>1, ActiveCall DEF CallOK, DocOK
<1>3. CASE Deny(t)
  BY <1>1, <1>2, <1>3, RaiseInvariant DEF Deny
<1>4. CASE DenySilently(t)
  BY <1>1, <1>2, <1>4, RaiseInvariant DEF DenySilently
<1>5. CASE SwapApprove(t) /\ ~Deny(t)
  <2> DEFINE d == [identity |-> call[t].identity, confirmed |-> call[t].confirmed]
  <2>1. /\ Transition(t, "approved", "decided") /\ call[t].action = "approve"
        /\ decision' = [decision EXCEPT ![call[t].id] = d]
    BY <1>5 DEF SwapApprove
  <2>2. d \in Decision
    BY <1>2 DEF Call, Decision
  <2>3. /\ decision' \in [ApprovalId -> Decision \union {Absent}]
        /\ decision'[call[t].id] = d
        /\ \A x \in ApprovalId \ {call[t].id} : decision'[x] = decision[x]
    <3> HIDE DEF d
    <3> QED BY <1>2, <2>1, <2>2 DEF IInv, TypeOK
  <2> QED BY <1>1, <2>1, <2>3, SwapInvariant
<1>6. CASE SwapRevoke(t) /\ ~DenySilently(t)
  <2>1. /\ Transition(t, "revoked", "revoked") /\ call[t].action = "revoke"
        /\ UNCHANGED decision
    BY <1>6 DEF SwapRevoke
  <2>2. decision' \in [ApprovalId -> Decision \union {Absent}]
    BY <2>1 DEF IInv, TypeOK
  <2> QED BY <1>1, <2>1, <2>2, SwapInvariant
<1>7. CASE SwapAuthorize(t) /\ ~Deny(t)
  <2>1. /\ Transition(t, "consumed", "consumed") /\ call[t].action = "authorize"
        /\ UNCHANGED decision
    BY <1>7 DEF SwapAuthorize
  <2>2. decision' \in [ApprovalId -> Decision \union {Absent}]
    BY <2>1 DEF IInv, TypeOK
  <2> QED BY <1>1, <2>1, <2>2, SwapInvariant
<1> QED BY <1>3, <1>4, <1>5, <1>6, <1>7

LEMMA RecordInvariant ==
    ASSUME IInv, NEW t \in Thread, RecordAccepted(t)
    PROVE  IInv'
<1> DEFINE c == call[t]
<1>1. /\ c.at = "audit" /\ audit' = audit \union {<<c.id, c.action>>}
      /\ UNCHANGED <<ledger, operations, decision, lab, now>>
  BY DEF RecordAccepted
<1>2. c \in Call /\ CallOK(c) /\ c.id \in ApprovalId
  BY <1>1, ActiveCall DEF CallOK
<1>3. audit' \subseteq ApprovalId \X AuditAction /\ audit \subseteq audit'
  BY <1>1, <1>2 DEF IInv, TypeOK, Call
<1>4. /\ call' \in [Thread -> Call \union {Idle}]
      /\ \A u \in Thread \ {t} : call'[u] = call[u]
      /\ \/ call'[t] = Idle
         \/ c.action = "authorize" /\ call'[t] = [c EXCEPT !.at = "create"]
  <2>1. [c EXCEPT !.at = "create"] \in Call
    BY <1>2 DEF Call, Point
  <2> QED BY <2>1 DEF IInv, TypeOK, RecordAccepted, Goto
<1>5. TypeOK'
  BY <1>1, <1>3, <1>4 DEF IInv, TypeOK
<1>6. \A u \in Thread \ {t} : CallOK(call[u])'
  BY <1>1, <1>3, <1>4, OtherCalls DEF Terms
<1>7. CallOK(call[t])'
  <2>1. CASE call'[t] = Idle
    BY <2>1 DEF CallOK, Holds, Idle
  <2>2. CASE c.action = "authorize" /\ call'[t] = [c EXCEPT !.at = "create"]
    <3>1. /\ call'[t].at = "create" /\ call'[t].action = "authorize" /\ call'[t].id = c.id
          /\ call'[t].plan = c.plan /\ call'[t].seen = c.seen /\ call'[t].identity = c.identity
      BY <1>2, <2>2 DEF Call
    <3>2. HolderOK(c)
      BY <1>1, <1>2, <2>2 DEF CallOK, Holds
    <3>3. HolderOK(call[t])'
      BY <1>1, <3>1, <3>2 DEF HolderOK, Justified, BoundTo
    <3>4. c.plan \in Plan /\ c.seen \in LabState
      BY <1>1, <1>2, <2>2 DEF CallOK
    <3>5. <<c.id, "authorize">> \in audit'
      BY <1>1, <2>2
    <3> QED BY <3>1, <3>3, <3>4, <3>5 DEF CallOK, Holds
  <2> QED BY <1>4, <2>1, <2>2
<1>8. \A x \in ApprovalId : RowOK(x)'
  BY <1>1, <1>3 DEF IInv, RowOK
<1>9. SingleHolder'
  <2>1. \A x \in ApprovalId : Holds(call[t], x)' => Holds(call[t], x)
    BY <1>1, <1>2, <1>4 DEF Holds, Idle, Call
  <2>2. \A u \in Thread, x \in ApprovalId : Holds(call[u], x)' => Holds(call[u], x)
    BY <1>4, <2>1 DEF Holds
  <2> QED BY <2>2 DEF IInv, SingleHolder
<1> QED BY <1>5, <1>6, <1>7, <1>8, <1>9 DEF IInv

LEMMA CreateInvariant ==
    ASSUME IInv, NEW t \in Thread, CreateOperation(t)
    PROVE  IInv'
<1> DEFINE c == call[t]
           o == [plan |-> c.plan, identity |-> c.identity, seen |-> c.seen]
<1>1. /\ c.at = "create" /\ call' = [call EXCEPT ![t] = Idle]
      /\ operations' = IF c.id = Nothing THEN operations
                       ELSE [operations EXCEPT ![c.id] = Append(@, o)]
      /\ UNCHANGED <<ledger, audit, decision, lab, now>>
  BY DEF CreateOperation
<1>2. c \in Call /\ CallOK(c) /\ c.action = "authorize"
  BY <1>1, ActiveCall DEF CallOK
<1>3. /\ call' \in [Thread -> Call \union {Idle}] /\ call'[t] = Idle
      /\ \A u \in Thread \ {t} : call'[u] = call[u]
  BY <1>1 DEF IInv, TypeOK
<1>4. CASE c.id = Nothing
  <2>1. CallOK(Idle) /\ \A id \in ApprovalId : ~Holds(Idle, id)
    BY DEF CallOK, Holds, Idle
  <2> QED BY <1>1, <1>4, <2>1, LocalStep
<1>5. CASE c.id # Nothing
  <2>1. /\ c.id \in ApprovalId /\ HolderOK(c) /\ <<c.id, "authorize">> \in audit
        /\ o \in Operation /\ Justified(o, ledger[c.id])
    <3>1. c.id \in ApprovalId
      BY <1>2, <1>5 DEF Call
    <3>2. HolderOK(c)
      BY <1>1, <1>2, <3>1 DEF CallOK, Holds
    <3>3. o \in Operation
      BY <1>1, <1>2, <1>5 DEF CallOK, Call, Operation
    <3>4. Justified(o, ledger[c.id])
      BY <3>2 DEF HolderOK, Justified, BoundTo
    <3> QED BY <1>1, <1>2, <3>1, <3>2, <3>3, <3>4 DEF CallOK
  <2> HIDE DEF o
  <2>2. /\ operations' \in [ApprovalId -> Seq(Operation)]
        /\ operations'[c.id] = Append(<<>>, o)
        /\ \A x \in ApprovalId \ {c.id} : operations'[x] = operations[x]
    BY <1>1, <1>5, <2>1, AppendProperties DEF IInv, TypeOK, HolderOK
  <2>3. Len(operations'[c.id]) = 1 /\ operations'[c.id][1] = o
    BY <2>1, <2>2, AppendProperties, EmptySeq
  <2>4. TypeOK'
    BY <1>1, <1>3, <2>2 DEF IInv, TypeOK
  <2>5. \A u \in Thread \ {t} : ~Holds(call[u], c.id)
    BY <1>1, <1>2, <2>1 DEF IInv, SingleHolder, Holds
  <2>6. \A u \in Thread \ {t} : CallOK(call[u])'
    <3> SUFFICES ASSUME NEW u \in Thread \ {t} PROVE CallOK(call[u])'
      OBVIOUS
    <3>1. \A x \in ApprovalId : Holds(call[u], x) => operations'[x] = operations[x]
      BY <2>2, <2>5
    <3> QED BY <1>1, <1>3, <3>1, OtherCalls DEF Terms
  <2>7. CallOK(call[t])'
    BY <1>3 DEF CallOK, Holds, Idle
  <2>8. ASSUME NEW x \in ApprovalId PROVE RowOK(x)'
    <3>1. RowOK(x)
      BY DEF IInv
    <3>2. CASE x = c.id
      BY <1>1, <2>1, <2>3, <3>1, <3>2 DEF RowOK, HolderOK
    <3>3. CASE x # c.id
      BY <1>1, <2>2, <3>1, <3>3 DEF RowOK
    <3> QED BY <3>2, <3>3
  <2>9. SingleHolder'
    BY <1>3 DEF IInv, SingleHolder, Holds, Idle
  <2> QED BY <2>4, <2>6, <2>7, <2>8, <2>9 DEF IInv
<1> QED BY <1>4, <1>5

------------------------------------------------------------------------------
(* The environment, and the invariant of the specification                 *)

LEMMA EnvironmentInvariant ==
    ASSUME IInv, Tick \/ Drift
    PROVE  IInv'
<1>1. UNCHANGED <<ledger, audit, operations, decision, call>>
  BY DEF Tick, Drift
<1>2. now' \in Time /\ lab' \in LabState
  BY AuthorizationAssumption DEF IInv, TypeOK, Tick, Drift, Time
<1>3. TypeOK'
  BY <1>1, <1>2 DEF IInv, TypeOK
<1>4. \A t \in Thread : CallOK(call[t])'
  BY <1>1, OtherCalls DEF Terms
<1>5. (\A id \in ApprovalId : RowOK(id)') /\ SingleHolder'
  BY <1>1 DEF IInv, RowOK, SingleHolder, Holds
<1> QED BY <1>3, <1>4, <1>5 DEF IInv

LEMMA CrashInvariant ==
    ASSUME IInv, Crash
    PROVE  IInv'
<1>1. /\ UNCHANGED <<ledger, audit, operations, decision, lab, now>>
      /\ call' = [t \in Thread |-> Idle]
  BY DEF Crash
<1>2. TypeOK'
  BY <1>1 DEF IInv, TypeOK
<1>3. \A t \in Thread : call'[t].at = "idle"
  BY <1>1 DEF Idle
<1>4. (\A t \in Thread : CallOK(call[t])') /\ SingleHolder'
  BY <1>3 DEF CallOK, Holds, SingleHolder
<1>5. \A id \in ApprovalId : RowOK(id)'
  BY <1>1 DEF IInv, RowOK
<1> QED BY <1>2, <1>4, <1>5 DEF IInv

LEMMA StutterInvariant ==
    ASSUME IInv, UNCHANGED vars
    PROVE  IInv'
<1>1. UNCHANGED <<ledger, audit, operations, decision, lab, now, call>>
  BY DEF vars
<1>2. \A t \in Thread : CallOK(call[t])'
  BY <1>1, OtherCalls DEF Terms
<1> QED BY <1>1, <1>2 DEF IInv, TypeOK, RowOK, SingleHolder, Holds

\* What every call has read, and every row, stays right in every interleaving.
THEOREM Invariance == Spec => []IInv
<1>1. IInv /\ [Next]_vars => IInv'
  <2> SUFFICES ASSUME IInv, [Next]_vars PROVE IInv'
    OBVIOUS
  <2>1. ASSUME NEW t \in Thread, Request(t) PROVE IInv'
    BY <2>1, RequestInvariant
  <2>2. ASSUME NEW t \in Thread, Approve(t) \/ Revoke(t) \/ Authorize(t) PROVE IInv'
    BY <2>2, BeginInvariant
  <2>3. ASSUME NEW t \in Thread, CallStep(t) PROVE IInv'
    BY <2>3, ReadInvariant, ObserveInvariant, CheckInvariant, SwapStepInvariant,
       RecordInvariant, CreateInvariant, FailInvariant DEF CallStep
  <2>4. CASE Tick \/ Drift
    BY <2>4, EnvironmentInvariant
  <2>5. CASE Crash
    BY <2>5, CrashInvariant
  <2>6. CASE UNCHANGED vars
    BY <2>6, StutterInvariant
  <2> QED BY <2>1, <2>2, <2>3, <2>4, <2>5, <2>6 DEF Next
<1> QED BY InitInvariant, <1>1, PTL DEF Spec

------------------------------------------------------------------------------
(* The theorems                                                            *)

\* The tables and what the calls have read keep their types.
THEOREM TypeCorrectness == Spec => []TypeOK
<1>1. IInv => TypeOK
  BY DEF IInv
<1> QED BY Invariance, <1>1, PTL

\* The stamps of an approval always tell the story of its state.
THEOREM CoherentLedger == Spec => []LedgerCoherent
<1>1. IInv => LedgerCoherent
  BY DEF IInv, RowOK, LedgerCoherent
<1> QED BY Invariance, <1>1, PTL

\* Every operation under an approval is the one that was requested and approved.
THEOREM StartsAsApproved == Spec => []StartedAsApproved
<1>1. IInv => StartedAsApproved
  <2> SUFFICES ASSUME IInv, NEW id \in ApprovalId, NEW k \in 1..Len(operations[id])
               PROVE  /\ ledger[id] \in Approval
                      /\ Justified(operations[id][k], ledger[id])
                      /\ Decided(decision[id], ledger[id])
    BY DEF StartedAsApproved
  <2>1. RowOK(id) /\ operations[id] \in Seq(Operation)
    BY DEF IInv, TypeOK
  <2>2. k = 1 /\ operations[id] # <<>>
    <3>1. Len(operations[id]) = 1
      BY <2>1 DEF RowOK
    <3> QED BY <3>1
  <2>3. ledger[id] \in Approval
    BY <2>1, <2>2, AbsentIsNoApproval DEF IInv, TypeOK, RowOK
  <2> QED BY <2>1, <2>2, <2>3 DEF RowOK
<1> QED BY Invariance, <1>1, PTL

\* No operation exists under an approval whose consumption is not on record.
THEOREM AuditComesFirst == Spec => []OperationsAudited
<1>1. IInv => OperationsAudited
  BY DEF IInv, RowOK, OperationsAudited
<1> QED BY Invariance, <1>1, PTL

------------------------------------------------------------------------------
(* Refinement                                                              *)

stages == [id \in ApprovalId |-> ledger[id].state]
counts == [id \in ApprovalId |-> Len(operations[id])]

\* One row moves, and no operation is created.
LEMMA RowMoves ==
    ASSUME TypeOK, NEW id \in ApprovalId, NEW to, UNCHANGED operations,
           ledger'[id].state = to,
           \A x \in ApprovalId \ {id} : ledger'[x] = ledger[x]
    PROVE  stages' = [stages EXCEPT ![id] = to] /\ counts' = counts
BY DEF stages, counts

LEMMA TransitionRefines ==
    ASSUME IInv, NEW t \in Thread, call[t].at = "swap",
           NEW state \in {"approved", "revoked", "consumed"},
           NEW stamp \in {"decided", "revoked", "consumed"},
           Transition(t, state, stamp), UNCHANGED <<operations, lab, now>>
    PROVE  /\ call[t].id \in ApprovalId
           /\ stages[call[t].id] = call[t].doc.state /\ SwapOK(call[t])
           /\ stages' = [stages EXCEPT ![call[t].id] = state] /\ counts' = counts
<1> DEFINE id == call[t].id
<1>1. /\ DocOK(call[t]) /\ SwapOK(call[t]) /\ ledger[id].state = call[t].doc.state
      /\ ledger'[id].state = state
      /\ \A x \in ApprovalId \ {id} : ledger'[x] = ledger[x]
  BY TransitionFacts
<1>2. id \in ApprovalId
  BY <1>1 DEF DocOK
<1>3. stages' = [stages EXCEPT ![id] = state] /\ counts' = counts
  BY <1>1, <1>2, RowMoves DEF IInv
<1> QED BY <1>1, <1>2, <1>3 DEF stages

\* Every step is a step of the abstract approval, or leaves it alone.
LEMMA StepRefines ==
    ASSUME IInv, [Next]_vars
    PROVE  [Promise!Next]_<<stages, counts>>
<1> USE DEF Promise!Next, Promise!Request, Promise!Approve, Promise!Revoke, Promise!Consume,
            Promise!Start, Promise!Move
<1>1. CASE UNCHANGED <<ledger, operations>>
  BY <1>1 DEF stages, counts
<1>2. ASSUME NEW t \in Thread, Request(t) PROVE [Promise!Next]_<<stages, counts>>
  <2>1. PICK id \in ApprovalId : /\ ledger[id] = Absent /\ ledger'[id].state = "pending"
                                /\ \A x \in ApprovalId \ {id} : ledger'[x] = ledger[x]
    BY <1>2 DEF Request, IInv, TypeOK
  <2>2. stages[id] = "absent"
    BY <2>1, AbsentIsNoApproval DEF stages
  <2>3. stages' = [stages EXCEPT ![id] = "pending"] /\ counts' = counts
    BY <1>2, <2>1, RowMoves DEF Request, IInv
  <2> QED BY <2>2, <2>3 DEF stages, counts
<1>3. ASSUME NEW t \in Thread, SwapApprove(t), ~UNCHANGED <<ledger, operations>>
      PROVE  [Promise!Next]_<<stages, counts>>
  <2>1. /\ Transition(t, "approved", "decided") /\ call[t].action = "approve"
        /\ call[t].at = "swap" /\ UNCHANGED <<operations, lab, now>>
    BY <1>3 DEF SwapApprove, Deny, Raise
  <2>2. /\ call[t].id \in ApprovalId
        /\ stages[call[t].id] = call[t].doc.state /\ SwapOK(call[t])
        /\ stages' = [stages EXCEPT ![call[t].id] = "approved"] /\ counts' = counts
    BY <2>1, TransitionRefines
  <2>3. call[t].doc.state = "pending"
    BY <2>1, <2>2 DEF SwapOK
  <2> QED BY <2>2, <2>3 DEF stages, counts
<1>4. ASSUME NEW t \in Thread, SwapRevoke(t), ~UNCHANGED <<ledger, operations>>
      PROVE  [Promise!Next]_<<stages, counts>>
  <2>1. /\ Transition(t, "revoked", "revoked") /\ call[t].action = "revoke"
        /\ call[t].at = "swap" /\ UNCHANGED <<operations, lab, now>>
    BY <1>4 DEF SwapRevoke, DenySilently, Raise
  <2> QED BY <2>1, TransitionRefines DEF SwapOK, stages, counts
<1>5. ASSUME NEW t \in Thread, SwapAuthorize(t), ~UNCHANGED <<ledger, operations>>
      PROVE  [Promise!Next]_<<stages, counts>>
  <2>1. /\ Transition(t, "consumed", "consumed") /\ call[t].action = "authorize"
        /\ call[t].at = "swap" /\ UNCHANGED <<operations, lab, now>>
    BY <1>5 DEF SwapAuthorize, Deny, Raise
  <2> QED BY <2>1, TransitionRefines DEF SwapOK, stages, counts
<1>6. ASSUME NEW t \in Thread, CreateOperation(t), ~UNCHANGED <<ledger, operations>>
      PROVE  [Promise!Next]_<<stages, counts>>
  <2> DEFINE c == call[t]
             o == [plan |-> c.plan, identity |-> c.identity, seen |-> c.seen]
  <2>1. /\ c.at = "create" /\ c.id # Nothing /\ UNCHANGED ledger
        /\ operations' = [operations EXCEPT ![c.id] = Append(@, o)]
    BY <1>6 DEF CreateOperation
  <2>2. c \in Call /\ CallOK(c)
    BY <2>1, ActiveCall
  <2>3. c.id \in ApprovalId /\ c.action = "authorize"
    BY <2>1, <2>2 DEF Call, CallOK
  <2>4. HolderOK(c) /\ o \in Operation
    BY <2>1, <2>2, <2>3 DEF CallOK, Holds, Call, Operation
  <2> HIDE DEF o
  <2>5. operations'[c.id] = Append(<<>>, o) /\ \A x \in ApprovalId \ {c.id} : operations'[x] = operations[x]
    BY <2>1, <2>3, <2>4 DEF IInv, TypeOK, HolderOK
  <2>6. Len(operations[c.id]) = 0 /\ Len(operations'[c.id]) = 1
    BY <2>4, <2>5, AppendProperties, EmptySeq DEF HolderOK
  <2>7. counts' = [counts EXCEPT ![c.id] = 1] /\ counts[c.id] = 0
    BY <2>3, <2>5, <2>6 DEF counts
  <2>8. stages' = stages /\ stages[c.id] = "consumed"
    BY <2>1, <2>3, <2>4 DEF stages, HolderOK
  <2> QED BY <2>3, <2>7, <2>8 DEF stages, counts
<1>7. ASSUME NEW t \in Thread, CallStep(t) PROVE [Promise!Next]_<<stages, counts>>
  BY <1>1, <1>3, <1>4, <1>5, <1>6, <1>7
     DEF CallStep, ReadApproval, Observe, CheckApprove, CheckRevoke, CheckAuthorize,
         RecordAccepted, Fail, Deny, DenySilently, Raise
<1> QED BY <1>1, <1>2, <1>7 DEF Next, Approve, Revoke, Authorize, Tick, Drift, Crash, vars

\* Approvals are single-use: every behaviour of the service is one of the
\* abstract specification, under any interleaving and any crash.
THEOREM Refinement == Spec => SingleUse
<1>1. Init => Promise!Init
  <2> SUFFICES ASSUME Init PROVE Promise!Init
    OBVIOUS
  <2>1. Len(<<>>) = 0
    OBVIOUS
  <2> QED BY <2>1, AbsentIsNoApproval DEF Init, Promise!Init
<1>2. IInv /\ [Next]_vars => [Promise!Next]_<<stages, counts>>
  BY StepRefines
<1> QED BY <1>1, <1>2, Invariance, PTL DEF Spec, SingleUse, Promise!Spec, stages, counts
==============================================================================
