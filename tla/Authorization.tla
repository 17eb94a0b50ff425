---------------------------- MODULE Authorization ----------------------------
(***************************************************************************)
(* Single-use approvals (manager/authorization.py) and the operation that  *)
(* the engine creates once it is authorized (operation_engine.py,          *)
(* _prepare_steps).                                                        *)
(*                                                                         *)
(* ApprovalStore locks one statement at a time, so request, approve,       *)
(* revoke and authorize of different threads interleave between their      *)
(* statements: each reads the approval, decides on what it has read, and   *)
(* writes it back under `WHERE state = expected'.  The engine calls        *)
(* authorize under its own lock, the secret workflow does not; no lock is  *)
(* assumed here.                                                           *)
(***************************************************************************)
EXTENDS Naturals, Sequences

CONSTANTS
    Thread,     \* request threads
    ApprovalId,
    Actor, Session,
    Identity,   \* the identities that adapters authenticate
    Plan,       \* operation and ordered targets
    Risk,       \* RISK_BY_OPERATION
    LabState,   \* what component_states may report of the targets
    ApprovalTtl, ReauthenticationAge,
    MaxTime,    \* bound of the clock
    Nothing

Source == {"local-cli", "web", "telegram"}
HighRiskSources == {"local-cli", "web"}
ApprovalRequired == {"disruptive", "high"}

ASSUME AuthorizationAssumption ==
    /\ Identity \subseteq [actor : Actor, source : Source, session : Session,
                            authenticatedAt : Nat]
    /\ Risk \in [Plan -> {"routine"} \union ApprovalRequired]
    /\ ApprovalTtl \in Nat /\ ReauthenticationAge \in Nat /\ MaxTime \in Nat
    /\ Nothing \notin ApprovalId

VARIABLES
    ledger,     \* table operation_approvals
    audit,      \* the accepted entries of table authorization_audit
    operations, \* the operations created with each approval
    decision,   \* history: how each approval was approved
    lab,        \* external: the state of the targets
    now,        \* the clock
    call        \* where each request thread stands, and what it has read

vars == <<ledger, audit, operations, decision, lab, now, call>>

Time == 0..MaxTime

\* The stamps are decidedAt, consumedAt and revokedAt, where they are set.
Approval == [state : {"pending", "approved", "consumed", "revoked"},
             identity : Identity, plan : Plan,
             digestState : LabState, \* planDigest binds plan and state
             expiresAt : Nat, stamps : SUBSET {"decided", "consumed", "revoked"}]
Absent == [state |-> "absent"]

AuditAction == {"request", "approve", "revoke", "authorize"}

\* Points of a call: between two statements that touch shared state.  Nothing
\* reads the audit entries of denials; a call that has raised remembers whether
\* it has written one.
Point == {"audit", "read", "observe", "check", "swap", "create", "raised"}
Idle == [at |-> "idle"]
Call == [at : Point, action : AuditAction, id : ApprovalId \union {Nothing},
         identity : Identity, confirmed : BOOLEAN, \* arguments of every call, of approve
         plan : Plan \union {Nothing},            \* of authorize
         doc : Approval \union {Absent},          \* read from the ledger
         seen : LabState \union {Nothing},        \* read from the state provider
         recorded : BOOLEAN]

\* What a call starts with.
NewCall(point, action, id, i, p) ==
    [at |-> point, action |-> action, id |-> id, identity |-> i, confirmed |-> FALSE,
     plan |-> p, doc |-> Absent, seen |-> Nothing, recorded |-> FALSE]

Decision == [identity : Identity, confirmed : BOOLEAN]
Operation == [plan : Plan, identity : Identity, seen : LabState]

TypeOK ==
    /\ ledger \in [ApprovalId -> Approval \union {Absent}]
    /\ audit \subseteq ApprovalId \X AuditAction
    /\ operations \in [ApprovalId -> Seq(Operation)]
    /\ decision \in [ApprovalId -> Decision \union {Absent}]
    /\ lab \in LabState
    /\ now \in Time
    /\ call \in [Thread -> Call \union {Idle}]

Init ==
    /\ ledger = [id \in ApprovalId |-> Absent]
    /\ audit = {}
    /\ operations = [id \in ApprovalId |-> <<>>]
    /\ decision = [id \in ApprovalId |-> Absent]
    /\ lab \in LabState
    /\ now = 0
    /\ call = [t \in Thread |-> Idle]

------------------------------------------------------------------------------
(* Steps of a call                                                         *)

Goto(t, point) == call' = [call EXCEPT ![t].at = point]

\* Raise AuthorizationError, with or without an audit entry.
Raise(t, recorded) ==
    /\ call' = [call EXCEPT ![t] =
          [NewCall("raised", @.action, @.id, @.identity, Nothing) EXCEPT !.recorded = recorded]]
    /\ UNCHANGED <<ledger, audit, decision>>

Deny(t) == Raise(t, TRUE)
DenySilently(t) == Raise(t, FALSE)

Authenticated == {i \in Identity : i.authenticatedAt <= now}

\* The adapter takes the plan that it resolved and the state it has read, and
\* refuses a request that needs no approval (_operation_plan, lifecycle_plan).
Request(t) ==
    /\ call[t] = Idle
    /\ \E id \in ApprovalId, i \in Authenticated, p \in Plan :
          /\ ledger[id] = Absent
          /\ Risk[p] \in ApprovalRequired
          /\ ledger' = [ledger EXCEPT ![id] =
                [state |-> "pending", identity |-> i, plan |-> p, digestState |-> lab,
                 expiresAt |-> now + ApprovalTtl, stamps |-> {}]]
          /\ call' = [call EXCEPT ![t] = NewCall("audit", "request", id, i, Nothing)]
    /\ UNCHANGED <<audit, operations, decision, lab, now>>

Approve(t) ==
    /\ call[t] = Idle
    /\ \E id \in ApprovalId, i \in Authenticated, confirmed \in BOOLEAN :
          call' = [call EXCEPT ![t] =
              [NewCall("read", "approve", id, i, Nothing) EXCEPT !.confirmed = confirmed]]
    /\ UNCHANGED <<ledger, audit, operations, decision, lab, now>>

Revoke(t) ==
    /\ call[t] = Idle
    /\ \E id \in ApprovalId, i \in Authenticated :
          call' = [call EXCEPT ![t] = NewCall("read", "revoke", id, i, Nothing)]
    /\ UNCHANGED <<ledger, audit, operations, decision, lab, now>>

\* A routine plan is accepted without an approval, any other needs one.
Authorize(t) ==
    /\ call[t] = Idle
    /\ \E id \in ApprovalId \union {Nothing}, i \in Authenticated, p \in Plan :
          call' = [call EXCEPT ![t] =
              IF Risk[p] \notin ApprovalRequired THEN NewCall("create", "authorize", Nothing, i, p)
              ELSE IF id = Nothing
                THEN [NewCall("raised", "authorize", id, i, p) EXCEPT !.recorded = TRUE]
              ELSE NewCall("read", "authorize", id, i, p)]
    /\ UNCHANGED <<ledger, audit, operations, decision, lab, now>>

\* Mutation: an approved plan is not compared with the state of its targets.
ReadApprovalTrusting(t) ==
    /\ call[t].at = "read"
    /\ LET c == call[t] IN
       \/ /\ ledger[c.id] = Absent
          /\ DenySilently(t)
       \/ /\ ledger[c.id] # Absent
          /\ call' = [call EXCEPT
                ![t].doc = ledger[c.id],
                ![t].at = IF c.action = "authorize" /\ ledger[c.id].state = "approved"
                            THEN "swap" ELSE "check"]
          /\ UNCHANGED <<ledger, audit, decision>>
    /\ UNCHANGED <<operations, lab, now>>

ReadApproval(t) ==
    /\ call[t].at = "read"
    /\ LET c == call[t] IN
       \/ /\ ledger[c.id] = Absent
          /\ DenySilently(t)
       \/ /\ ledger[c.id] # Absent
          /\ call' = [call EXCEPT ![t].doc = ledger[c.id],
                                  ![t].at = IF c.action = "authorize" THEN "observe" ELSE "check"]
          /\ UNCHANGED <<ledger, audit, decision>>
    /\ UNCHANGED <<operations, lab, now>>

\* authorize reads the state of the targets itself, or the provider is out.
Observe(t) ==
    /\ call[t].at = "observe"
    /\ \/ Deny(t)
       \/ /\ call' = [call EXCEPT ![t].seen = lab, ![t].at = "check"]
          /\ UNCHANGED <<ledger, audit, decision>>
    /\ UNCHANGED <<operations, lab, now>>

BoundTo(d, i) == d.identity.actor = i.actor /\ d.identity.session = i.session

\* _decision_reason gives no reason.
MayApprove(c) ==
    /\ c.doc.state = "pending"
    /\ now < c.doc.expiresAt
    /\ BoundTo(c.doc, c.identity)
    /\ Risk[c.doc.plan] = "high" =>
          /\ c.identity.source \in HighRiskSources
          /\ now <= c.identity.authenticatedAt + ReauthenticationAge
          /\ c.confirmed

\* Mutation: the state of the targets is not part of the plan digest.
MayConsumeStale(c) ==
    /\ c.doc.state = "approved"
    /\ now < c.doc.expiresAt
    /\ BoundTo(c.doc, c.identity)
    /\ c.doc.identity.source = c.identity.source
    /\ c.doc.plan = c.plan

\* _consumption_reason gives no reason.
MayConsume(c) ==
    /\ c.doc.state = "approved"
    /\ now < c.doc.expiresAt
    /\ BoundTo(c.doc, c.identity)
    /\ c.doc.identity.source = c.identity.source
    /\ c.doc.plan = c.plan /\ c.doc.digestState = c.seen

CheckApprove(t) ==
    /\ call[t].at = "check" /\ call[t].action = "approve"
    /\ \/ ~MayApprove(call[t]) /\ Deny(t)
       \/ /\ MayApprove(call[t]) /\ Goto(t, "swap")
          /\ UNCHANGED <<ledger, audit, decision>>
    /\ UNCHANGED <<operations, lab, now>>

\* The wrong actor is recorded, the wrong state is not.
CheckRevoke(t) ==
    /\ call[t].at = "check" /\ call[t].action = "revoke"
    /\ LET c == call[t]
           sameActor == c.doc.identity.actor = c.identity.actor
           revocable == c.doc.state \in {"pending", "approved"}
       IN  \/ ~sameActor /\ Deny(t)
           \/ sameActor /\ ~revocable /\ DenySilently(t)
           \/ /\ sameActor /\ revocable /\ Goto(t, "swap")
              /\ UNCHANGED <<ledger, audit, decision>>
    /\ UNCHANGED <<operations, lab, now>>

CheckAuthorize(t) ==
    /\ call[t].at = "check" /\ call[t].action = "authorize"
    /\ \/ ~MayConsume(call[t]) /\ Deny(t)
       \/ /\ MayConsume(call[t]) /\ Goto(t, "swap")
          /\ UNCHANGED <<ledger, audit, decision>>
    /\ UNCHANGED <<operations, lab, now>>

\* Mutation: the new document does not carry over what the old one recorded.
TransitionFresh(t, state, stamp) ==
    LET c == call[t] IN
    /\ ledger[c.id].state = c.doc.state
    /\ ledger' = [ledger EXCEPT ![c.id] = [c.doc EXCEPT !.state = state, !.stamps = {stamp}]]
    /\ call' = [call EXCEPT ![t].at = "audit", ![t].doc = Absent]
    /\ UNCHANGED audit

\* Mutation: a row that already has the new state counts as changed.
TransitionAgain(t, state, stamp) ==
    LET c == call[t] IN
    /\ ledger[c.id].state \in {c.doc.state, state}
    /\ ledger' = [ledger EXCEPT ![c.id] =
          [c.doc EXCEPT !.state = state, !.stamps = @ \union {stamp}]]
    /\ call' = [call EXCEPT ![t].at = "audit", ![t].doc = Absent]
    /\ UNCHANGED audit

\* ApprovalStore.transition: the document read earlier, changed, replaces the
\* row if the row still has the expected state.
Transition(t, state, stamp) ==
    LET c == call[t] IN
    /\ ledger[c.id].state = c.doc.state
    /\ ledger' = [ledger EXCEPT ![c.id] =
          [c.doc EXCEPT !.state = state, !.stamps = @ \union {stamp}]]
    /\ call' = [call EXCEPT ![t].at = "audit", ![t].doc = Absent]
    /\ UNCHANGED audit

Changed(t) == ledger[call[t].id].state # call[t].doc.state

SwapApprove(t) ==
    /\ call[t].at = "swap" /\ call[t].action = "approve"
    /\ \/ /\ Transition(t, "approved", "decided")
          /\ decision' = [decision EXCEPT ![call[t].id] =
                [identity |-> call[t].identity, confirmed |-> call[t].confirmed]]
       \/ Changed(t) /\ Deny(t)
    /\ UNCHANGED <<operations, lab, now>>

\* A lost race is not recorded.
SwapRevoke(t) ==
    /\ call[t].at = "swap" /\ call[t].action = "revoke"
    /\ \/ Transition(t, "revoked", "revoked") /\ UNCHANGED decision
       \/ Changed(t) /\ DenySilently(t)
    /\ UNCHANGED <<operations, lab, now>>

\* Mutation: authorize returns before the consumption is on record.
SwapAuthorizeUnrecorded(t) ==
    /\ call[t].at = "swap" /\ call[t].action = "authorize"
    /\ LET c == call[t] IN
       \/ /\ ledger[c.id].state = c.doc.state
          /\ ledger' = [ledger EXCEPT ![c.id] =
                [c.doc EXCEPT !.state = "consumed", !.stamps = @ \union {"consumed"}]]
          /\ call' = [call EXCEPT ![t].at = "create", ![t].doc = Absent]
          /\ UNCHANGED <<audit, decision>>
       \/ Changed(t) /\ Deny(t)
    /\ UNCHANGED <<operations, lab, now>>

SwapAuthorize(t) ==
    /\ call[t].at = "swap" /\ call[t].action = "authorize"
    /\ \/ Transition(t, "consumed", "consumed") /\ UNCHANGED decision
       \/ Changed(t) /\ Deny(t)
    /\ UNCHANGED <<operations, lab, now>>

\* The last statement of every accepted call.
RecordAccepted(t) ==
    /\ call[t].at = "audit"
    /\ audit' = audit \union {<<call[t].id, call[t].action>>}
    /\ \/ call[t].action = "authorize" /\ Goto(t, "create")
       \/ call[t].action # "authorize" /\ call' = [call EXCEPT ![t] = Idle]
    /\ UNCHANGED <<ledger, operations, decision, lab, now>>

\* The engine stores the operation once authorize has returned.  Operations
\* without an approval are not followed further.
CreateOperation(t) ==
    /\ call[t].at = "create"
    /\ operations' =
          IF call[t].id = Nothing THEN operations
          ELSE [operations EXCEPT ![call[t].id] =
                  Append(@, [plan |-> call[t].plan, identity |-> call[t].identity,
                             seen |-> call[t].seen])]
    /\ call' = [call EXCEPT ![t] = Idle]
    /\ UNCHANGED <<ledger, audit, decision, lab, now>>

\* The caller gets the error.
Fail(t) ==
    /\ call[t].at = "raised"
    /\ call' = [call EXCEPT ![t] = Idle]
    /\ UNCHANGED <<ledger, audit, operations, decision, lab, now>>

CallStep(t) ==
    \/ ReadApproval(t) \/ Observe(t)
    \/ CheckApprove(t) \/ CheckRevoke(t) \/ CheckAuthorize(t)
    \/ SwapApprove(t) \/ SwapRevoke(t) \/ SwapAuthorize(t)
    \/ RecordAccepted(t) \/ CreateOperation(t) \/ Fail(t)

------------------------------------------------------------------------------
(* The environment                                                         *)

Tick ==
    /\ now < MaxTime
    /\ now' = now + 1
    /\ UNCHANGED <<ledger, audit, operations, decision, lab, call>>

\* The targets change while nobody looks.
Drift ==
    /\ lab' \in LabState \ {lab}
    /\ UNCHANGED <<ledger, audit, operations, decision, now, call>>

\* The Manager restarts: calls are lost, the tables stay.
Crash ==
    /\ call' = [t \in Thread |-> Idle]
    /\ UNCHANGED <<ledger, audit, operations, decision, lab, now>>

Next ==
    \/ \E t \in Thread :
          Request(t) \/ Approve(t) \/ Revoke(t) \/ Authorize(t) \/ CallStep(t)
    \/ Tick \/ Drift \/ Crash

Spec == Init /\ [][Next]_vars

------------------------------------------------------------------------------
(* Properties                                                              *)

Coherent(a) ==
    /\ a.state = "pending" => a.stamps = {}
    /\ a.state = "approved" => a.stamps = {"decided"}
    /\ a.state = "consumed" => a.stamps = {"decided", "consumed"}
    /\ a.state = "revoked" => a.stamps \ {"decided"} = {"revoked"}

\* The stamps tell the story of the state: no writer that decided on an older
\* version of an approval loses what another has written since.
LedgerCoherent == \A id \in ApprovalId : ledger[id] # Absent => Coherent(ledger[id])

\* What authorize compares: o is an operation, or a call that will create one.
Justified(o, a) ==
    /\ o.plan = a.plan /\ o.seen = a.digestState
    /\ BoundTo(a, o.identity) /\ a.identity.source = o.identity.source

Decided(d, a) ==
    /\ d \in Decision
    /\ BoundTo(a, d.identity)
    /\ Risk[a.plan] = "high" => d.confirmed /\ d.identity.source \in HighRiskSources

\* An operation is started only as it was approved: for the plan, the actor, the
\* session, the source and the state of the targets that were bound when the
\* approval was requested, and after that actor and session approved it, with
\* the confirmation and from a trusted channel if the risk is high.
StartedAsApproved ==
    \A id \in ApprovalId : \A k \in 1..Len(operations[id]) :
        /\ ledger[id] \in Approval
        /\ Justified(operations[id][k], ledger[id])
        /\ Decided(decision[id], ledger[id])

\* The consumption of an approval is on record before its operation exists.
OperationsAudited ==
    \A id \in ApprovalId : operations[id] # <<>> =>
        <<id, "authorize">> \in audit

\* The approvals are single-use, as the documentation promises.
Promise == INSTANCE SingleUseApproval WITH
    stage <- [id \in ApprovalId |-> ledger[id].state],
    uses <- [id \in ApprovalId |-> Len(operations[id])]
SingleUse == Promise!Spec
==============================================================================
