---------------------------- MODULE RemoteActions ----------------------------
(***************************************************************************)
(* Plans and recovery offered as buttons of a private chat, and what        *)
(* pressing one does (manager/remote_actions.py, telegram_observer.py).     *)
(*                                                                         *)
(* The approval ledger is that of SingleUseApproval, which Authorization    *)
(* implements: one call of AuthorizationService is one step here, of the    *)
(* engine (operation_engine.py) there is the lock, the conflict between     *)
(* operations, authorization and the worker's outcome.  All plans and       *)
(* operations affect the same components.                                   *)
(***************************************************************************)
EXTENDS Naturals

CONSTANTS
    Token,      \* opaque references, each issued once
    Plan,       \* remote plans; each has the id of its approval
    Operation,  \* ids of engine operations
    Handler,    \* threads that call PrivateTelegramObserver.handle
    Identity,   \* the linked user and chat
    LabState,   \* what the state provider reports
    Ttl,        \* approval_ttl, callback_ttl
    MaxTime,    \* bound of the clock
    Scenario,   \* bounds of a behaviour: its plans, recovery actions, operations
                \* of other clients, states of the components and faults
    None

RISK_BY_OPERATION == [start |-> "routine", stop |-> "disruptive",
                      upgrade |-> "high", uninstall |-> "high"]
REMOTE_APPROVABLE_RISKS == {"disruptive"}
WEB_ONLY_OPERATIONS == {"uninstall"}
Kind == DOMAIN RISK_BY_OPERATION
RecoveryKind == {"acknowledge", "retry", "cancel", "pause"}

ASSUME RemoteAssumption ==
    /\ Ttl \in Nat \ {0} /\ MaxTime \in Nat
    /\ Scenario \subseteq [plans : SUBSET Plan, offers : SUBSET RecoveryKind,
                             others : SUBSET Kind, states : SUBSET LabState, faults : Nat]
    /\ None \notin Token \union Plan \union Operation \union Identity

VARIABLES
    stage, uses, \* the ledger; history: operations created with each approval
    plans,       \* table remote_plans
    callbacks,   \* table remote_callbacks, with the last answer (history)
    operations,  \* table operations, with the callback that created each (history)
    handler,     \* where each thread stands in execute
    allowed,     \* allowed_user and allowed_chat of this process
    lab, now,    \* external: state of the components; the clock
    bound, faults \* the scenario, and the faults so far

vars == <<stage, uses, plans, callbacks, operations, handler, allowed, lab, now,
          bound, faults>>
limits == <<bound, faults>>

Active == {"queued", "cancelling"}  \* not terminal
Answer == {None, "done", "unavailable", "refused", "broken"}
PlanRow == [kind : Kind, currentState : LabState, expiresAt : 0..(MaxTime + Ttl),
            identity : Identity]
Callback == [state : {"pending", "executing", "consumed", "expired"},
             action : {"approve", "reject"} \union RecoveryKind,
             ref : Plan \union Operation \union {None}, identity : Identity,
             expiresAt : 0..(MaxTime + Ttl), answer : Answer]
OperationRow == [state : Active \union {"failed", "ended"}, kind : Kind,
                 by : Token \union {None}]
Idle == [at |-> "idle"]
Executing == [at : {"approve", "reject", "submit", "create", "queued", "finish"} \union RecoveryKind,
              token : Token, result : Answer]

\* None is no row and no answer.
ASSUME NoneAssumption ==
    None \notin PlanRow \union Callback \union OperationRow \union {"done", "unavailable"}

TypeOK ==
    /\ stage \in [Plan -> {"absent", "pending", "approved", "revoked", "consumed"}]
    /\ uses \in [Plan -> Nat]
    /\ plans \in [Plan -> PlanRow \union {None}]
    /\ callbacks \in [Token -> Callback \union {None}]
    /\ operations \in [Operation -> OperationRow \union {None}]
    /\ handler \in [Handler -> Executing \union {Idle}]
    /\ allowed \in Identity /\ lab \in LabState /\ now \in 0..MaxTime
    /\ bound \in Scenario /\ faults \in Nat

Init ==
    /\ stage = [p \in Plan |-> "absent"] /\ uses = [p \in Plan |-> 0]
    /\ plans = [p \in Plan |-> None]
    /\ callbacks = [t \in Token |-> None]
    /\ operations = [o \in Operation |-> None]
    /\ handler = [h \in Handler |-> Idle]
    /\ bound \in Scenario /\ faults = 0
    /\ allowed \in Identity /\ lab \in bound.states /\ now = 0

------------------------------------------------------------------------------
(* Issuing                                                                 *)

Expiry == now + Ttl

Issue(action, ref) ==
    [state |-> "pending", action |-> action, ref |-> ref, identity |-> allowed,
     expiresAt |-> Expiry, answer |-> None]

\* lifecycle_plan: the plan and the state shown, its approval and two buttons.
LifecyclePlan(p, kind) ==
    /\ p \in bound.plans /\ stage[p] = "absent"
    /\ RISK_BY_OPERATION[kind] \in REMOTE_APPROVABLE_RISKS
    /\ kind \notin WEB_ONLY_OPERATIONS \union {"upgrade"}
    /\ stage' = [stage EXCEPT ![p] = "pending"]
    /\ plans' = [plans EXCEPT ![p] =
          [kind |-> kind, currentState |-> lab, expiresAt |-> Expiry, identity |-> allowed]]
    /\ \E approve, reject \in {t \in Token : callbacks[t] = None} :
          /\ approve # reject
          /\ callbacks' = [callbacks EXCEPT ![approve] = Issue("approve", p),
                                            ![reject] = Issue("reject", p)]
    /\ UNCHANGED <<uses, operations, handler, allowed, lab, now, limits>>

Is(o, states) == operations[o] # None /\ operations[o].state \in states
Busy == \E o \in Operation : Is(o, Active)

\* recovery_actions: what the state of the operation admits.
Offers == ({"acknowledge", "pause"} \X {None})
          \union {<<"retry", o>> : o \in {q \in Operation : Is(q, {"failed"})
                      /\ RISK_BY_OPERATION[operations[q].kind] = "routine"}}
          \union {<<"cancel", o>> : o \in {q \in Operation : Is(q, Active)}}

RecoveryAction(t) ==
    /\ callbacks[t] = None
    /\ \E offer \in {f \in Offers : f[1] \in bound.offers} :
          callbacks' = [callbacks EXCEPT ![t] = Issue(offer[1], offer[2])]
    /\ UNCHANGED <<stage, uses, plans, operations, handler, allowed, lab, now, limits>>

------------------------------------------------------------------------------
(* Pressing a button                                                       *)

\* An update of another user or chat is ignored, a callback of a former
\* identity refused.
Matches(t) == callbacks[t].identity = allowed

\* _authorized and begin; a callback that is not pending changes nothing.
Press(h, t) ==
    /\ handler[h] = Idle /\ callbacks[t] # None
    /\ Matches(t) /\ callbacks[t].state = "pending"
    /\ IF now >= callbacks[t].expiresAt
         THEN /\ callbacks' = [callbacks EXCEPT ![t].state = "expired"]
              /\ UNCHANGED handler
         ELSE /\ callbacks' = [callbacks EXCEPT ![t].state = "executing"]
              /\ handler' = [handler EXCEPT ![h] =
                    [at |-> callbacks[t].action, token |-> t, result |-> None]]
    /\ UNCHANGED <<stage, uses, plans, operations, allowed, lab, now, limits>>

At(h, point) == handler[h].at = point
Ref(h) == callbacks[handler[h].token].ref
Goto(h, point) == handler' = [handler EXCEPT ![h].at = point]
Conclude(h, result) ==
    handler' = [handler EXCEPT ![h].at = "finish", ![h].result = result]
Transition(p, state) == stage' = [stage EXCEPT ![p] = state]

\* authorization.approve, and the approvals it denies.
Approve(h) ==
    LET p == Ref(h) IN
    /\ At(h, "approve")
    /\ \/ /\ stage[p] = "pending" /\ now < plans[p].expiresAt /\ plans[p].identity = allowed
          /\ Transition(p, "approved") /\ Goto(h, "submit")
       \/ stage[p] = "approved" /\ Goto(h, "submit") /\ UNCHANGED stage
       \/ /\ stage[p] \notin {"pending", "approved"} \/ now >= plans[p].expiresAt
          /\ Conclude(h, "refused") /\ UNCHANGED stage
    /\ UNCHANGED <<uses, plans, callbacks, operations, allowed, lab, now, limits>>

RevocableAlways == {"pending", "approved", "consumed"}
Revocable == {"pending", "approved"}

RevokeIgnored(p) == "done"

\* authorization.revoke; the answer is "Plan rejected" only if it succeeds.
RevokeResult(p) == IF stage[p] \in Revocable THEN "done" ELSE "refused"

Reject(h) ==
    LET p == Ref(h) IN
    /\ At(h, "reject")
    /\ IF stage[p] \in Revocable THEN Transition(p, "revoked") ELSE UNCHANGED stage
    /\ Conclude(h, RevokeResult(p))
    /\ UNCHANGED <<uses, plans, callbacks, operations, allowed, lab, now, limits>>

\* The engine's lock is held from the conflict check to the creation.
Unlocked == \A h \in Handler : ~At(h, "create")

\* _prepare_steps up to authorize: the plan is resolved and its state read anew.
Authorize(h) ==
    LET p == Ref(h) IN
    /\ At(h, "submit") /\ Unlocked /\ ~Busy
    /\ stage[p] = "approved" /\ now < plans[p].expiresAt
    /\ plans[p].identity = allowed /\ plans[p].currentState = lab
    /\ Transition(p, "consumed") /\ Goto(h, "create")
    /\ UNCHANGED <<uses, plans, callbacks, operations, allowed, lab, now, limits>>

Create(h, o) ==
    /\ At(h, "create") /\ operations[o] = None
    /\ operations' = [operations EXCEPT ![o] =
          [state |-> "queued", kind |-> plans[Ref(h)].kind, by |-> handler[h].token]]
    /\ uses' = [uses EXCEPT ![Ref(h)] = @ + 1]
    /\ Goto(h, "queued")
    /\ UNCHANGED <<stage, plans, callbacks, allowed, lab, now, limits>>

\* retry_async: a routine operation needs no approval.
Retry(h, o) ==
    LET previous == operations[Ref(h)] IN
    /\ At(h, "retry") /\ Unlocked /\ ~Busy
    /\ previous.state = "failed" /\ RISK_BY_OPERATION[previous.kind] = "routine"
    /\ operations[o] = None
    /\ operations' = [operations EXCEPT ![o] =
          [state |-> "queued", kind |-> previous.kind, by |-> handler[h].token]]
    /\ Goto(h, "queued")
    /\ UNCHANGED <<stage, uses, plans, callbacks, allowed, lab, now, limits>>

\* An operation that has ended is returned as it is.
Cancel(h) ==
    LET o == Ref(h) IN
    /\ At(h, "cancel") /\ Unlocked
    /\ operations' = [operations EXCEPT ![o].state = IF @ \in Active THEN "cancelling" ELSE @]
    /\ Conclude(h, "done")
    /\ UNCHANGED <<stage, uses, plans, callbacks, allowed, lab, now, limits>>

Fault == faults < bound.faults /\ faults' = faults + 1
Step == UNCHANGED <<stage, uses, plans, callbacks, operations, allowed, lab, now, bound>>

\* The incident and the automation service did it; the queued operation is read back.
Reply(h) ==
    /\ handler[h].at \in {"acknowledge", "pause", "queued"}
    /\ Conclude(h, "done") /\ Step /\ UNCHANGED faults

\* A conflict, an approval that is stale or not usable, a state provider that
\* fails (its error is an OperationError): AuthorizationError, ValueError or
\* RuntimeError.
Refuse(h) ==
    /\ handler[h].at \in {"submit", "retry", "acknowledge", "pause"}
    /\ Conclude(h, "refused") /\ Step /\ UNCHANGED faults

\* A port cannot be reached: OSError, TimeoutError or RemoteActionUnavailable.
Outage(h) ==
    /\ handler[h].at \in {"submit", "retry", "cancel", "acknowledge", "pause"}
    /\ Conclude(h, "unavailable") /\ Step /\ UNCHANGED faults

\* Any other exception, a database error for one, between two statements.
Break(h) ==
    /\ handler[h].at \notin {"idle", "finish"}
    /\ Conclude(h, "broken") /\ Step /\ Fault

RetryableOnAnyError == {"unavailable", "broken"}
Retryable == {"unavailable"}

\* The finally clause, and the database failing there too.
Finish(h) ==
    LET t == handler[h].token IN
    /\ At(h, "finish")
    /\ \/ /\ callbacks' = [callbacks EXCEPT
                ![t].state = IF handler[h].result \in Retryable THEN "pending" ELSE "consumed",
                ![t].answer = handler[h].result]
          /\ UNCHANGED faults
       \/ Fault /\ UNCHANGED callbacks
    /\ handler' = [handler EXCEPT ![h] = Idle]
    /\ UNCHANGED <<stage, uses, plans, operations, allowed, lab, now, bound>>

------------------------------------------------------------------------------
(* The rest of the system                                                  *)

\* Another client submits an operation.
Submit(o, kind) ==
    /\ kind \in bound.others /\ operations[o] = None /\ Unlocked /\ ~Busy
    /\ operations' = [operations EXCEPT ![o] =
          [state |-> "queued", kind |-> kind, by |-> None]]
    /\ UNCHANGED <<stage, uses, plans, callbacks, handler, allowed, lab, now, limits>>

\* The worker's outcome.
Work(o) ==
    /\ Is(o, Active)
    /\ \E state \in {"failed", "ended"} :
          operations' = [operations EXCEPT ![o].state = state]
    /\ UNCHANGED <<stage, uses, plans, callbacks, handler, allowed, lab, now, limits>>

\* The manager stops anywhere and starts again, perhaps for another chat:
\* active operations are interrupted, callbacks stay as they are.
Restart ==
    /\ handler' = [h \in Handler |-> Idle]
    /\ operations' = [o \in Operation |->
          IF Is(o, Active) THEN [operations[o] EXCEPT !.state = "failed"] ELSE operations[o]]
    /\ allowed' \in Identity /\ Fault
    /\ UNCHANGED <<stage, uses, plans, callbacks, lab, now, bound>>

Drift ==
    /\ lab' \in bound.states \ {lab}
    /\ UNCHANGED <<stage, uses, plans, callbacks, operations, handler, allowed, now, limits>>

Tick ==
    /\ now < MaxTime /\ now' = now + 1
    /\ UNCHANGED <<stage, uses, plans, callbacks, operations, handler, allowed, lab, limits>>

Next ==
    \/ \E p \in Plan, kind \in Kind : LifecyclePlan(p, kind)
    \/ \E t \in Token : RecoveryAction(t) \/ \E h \in Handler : Press(h, t)
    \/ \E h \in Handler :
          \/ Approve(h) \/ Reject(h) \/ Authorize(h) \/ Cancel(h)
          \/ \E o \in Operation : Create(h, o) \/ Retry(h, o)
          \/ Reply(h) \/ Refuse(h) \/ Outage(h) \/ Break(h) \/ Finish(h)
    \/ \E o \in Operation : Work(o) \/ \E kind \in Kind : Submit(o, kind)
    \/ Restart \/ Drift \/ Tick

Spec == Init /\ [][Next]_vars

------------------------------------------------------------------------------
(* Properties                                                              *)

\* A callback that can be pressed (again) has started nothing, and a plan whose
\* Approve button is live has not been spent: only the outcomes that execute
\* takes for an outage release a callback, however often it was pressed.
PendingIsUnused ==
    \A t \in Token : callbacks[t] # None /\ callbacks[t].state = "pending" =>
        /\ \A o \in Operation : operations[o] # None => operations[o].by # t
        /\ callbacks[t].action = "approve" => stage[callbacks[t].ref] # "consumed"

\* Approve and Reject of one plan, pressed together, are never both answered
\* with success: "Plan rejected" means that nothing was and nothing will be
\* started with it.
AnswersAgree ==
    \A t, u \in Token : callbacks[t] # None /\ callbacks[u] # None =>
        ~ /\ callbacks[t].ref = callbacks[u].ref
          /\ callbacks[t].action = "approve" /\ callbacks[t].answer = "done"
          /\ callbacks[u].action = "reject" /\ callbacks[u].answer = "done"

\* Presses, outages, second presses and rejections of several threads leave the
\* approvals as SingleUseApproval promises: one decision, one consumption and
\* at most one operation for each plan.
Approvals == INSTANCE SingleUseApproval WITH ApprovalId <- Plan
SingleUse == Approvals!Spec
==============================================================================
