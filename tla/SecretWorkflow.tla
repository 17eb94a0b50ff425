---------------------------- MODULE SecretWorkflow ----------------------------
(***************************************************************************)
(* Write-only replacement of secrets (manager/secret_workflow.py).  A       *)
(* replacement runs in the request thread that asks for it: it uses up its  *)
(* approval, then claims the target, replaces the material, restarts and    *)
(* checks every consumer, and rolls back when something fails.              *)
(*                                                                         *)
(* Approvals are those of Authorization; here they are granted at once and  *)
(* consumed in one step.                                                    *)
(***************************************************************************)
EXTENDS Naturals, Sequences

CONSTANTS
    OpId, ApprovalId, Target, Consumer,
    Consumers,  \* Consumers[t]: the registry's consumers of t's Secret, in order
    SourceType,
    Generable,  \* the targets whose material the adapter may generate
    SscKey,     \* the target ssc/ssc-material, in a set
    Original, Absent, Used

ASSUME SecretAssumption ==
    /\ Consumers \in [Target -> Seq(Consumer)]
    /\ Generable \subseteq Target \ SscKey /\ Original \notin OpId

VARIABLES
    rows,      \* table secret_operations
    latest,    \* the newest row of each target, by rowid
    approvals, \* external: the approvals of replace-secret plans
    doc,       \* the document of each thread inside replace
    at,        \* where each thread stands in replace
    previous,  \* previous_revision
    cancelled, \* _cancelled
    marking,   \* threads inside cancel, between the read and the mark
    material,  \* external: the material of each target, named by its writer
    loaded     \* external: the material that each consumer runs with

vars == <<rows, latest, approvals, doc, at, previous, cancelled, marking, material, loaded>>

ActiveStates == {"applying", "restarting", "verifying", "rolling-back"}
EndStates == {"succeeded", "failed", "rolled-back", "recovery-required", "interrupted"}
Material == OpId \union {Original}
Update == [target : Target, state : ActiveStates \union EndStates, restarted : Nat]
Approval == [target : Target, source : SourceType,
             seen : ActiveStates \union EndStates \union {"unmanaged"}]

\* None is no row and no document.
ASSUME AbsentAssumption == Absent \notin Update

TypeOK ==
    /\ rows \in [OpId -> Update \union {Absent}]
    /\ latest \in [Target -> OpId \union {Absent}]
    /\ approvals \in [ApprovalId -> Approval \union {Absent, Used}]
    /\ doc \in [OpId -> Update \union {Absent}]
    /\ \A o \in OpId : doc[o] # Absent => doc[o].restarted <= Len(Consumers[doc[o].target])
    /\ at \in [OpId -> {"none", "claim", "apply", "next", "restart", "health", "raise",
                        "rollback", "end"}]
    /\ previous \in [OpId -> Material \union {Absent}]
    /\ cancelled \subseteq OpId /\ marking \subseteq OpId
    /\ material \in [Target -> Material]
    /\ loaded \in [Consumer -> [Target -> Material]]

Init ==
    /\ rows = [o \in OpId |-> Absent]
    /\ latest = [t \in Target |-> Absent]
    /\ approvals = [a \in ApprovalId |-> Absent]
    /\ doc = [o \in OpId |-> Absent]
    /\ at = [o \in OpId |-> "none"]
    /\ previous = [o \in OpId |-> Absent]
    /\ cancelled = {} /\ marking = {}
    /\ material = [t \in Target |-> Original]
    /\ loaded = [c \in Consumer |-> [t \in Target |-> Original]]

outside == <<material, loaded>>

------------------------------------------------------------------------------
(* Requests                                                                *)

CurrentState(t) == IF latest[t] = Absent THEN "unmanaged" ELSE rows[latest[t]].state

\* _validate_source and the confirmation that the SSC key needs.
Acceptable(t, source, confirmed) ==
    /\ source = "generated" => t \in Generable
    /\ t \in SscKey => confirmed

RequestApproval(a, t, source) ==
    /\ approvals[a] = Absent
    /\ approvals' = [approvals EXCEPT ![a] =
          [target |-> t, source |-> source, seen |-> CurrentState(t)]]
    /\ UNCHANGED <<rows, latest, doc, at, previous, cancelled, marking, outside>>

\* replace, up to the authorization: the approval is consumed if the target
\* is still in the state that it was granted for.
Authorize(o, a, confirmed) ==
    /\ at[o] = "none" /\ rows[o] = Absent /\ approvals[a] \notin {Absent, Used}
    /\ LET p == approvals[a] IN
       /\ Acceptable(p.target, p.source, confirmed)
       /\ p.seen = CurrentState(p.target)
       /\ doc' = [doc EXCEPT ![o] =
             [target |-> p.target, state |-> "applying", restarted |-> 0]]
    /\ approvals' = [approvals EXCEPT ![a] = Used]
    /\ at' = [at EXCEPT ![o] = "claim"]
    /\ UNCHANGED <<rows, latest, previous, cancelled, marking, outside>>

\* Mutation: an update that rolls back does not count as active.
ActiveTargetBut(t) ==
    \E o \in OpId : rows[o] # Absent /\ rows[o].target = t
                    /\ rows[o].state \in ActiveStates \ {"rolling-back"}

ActiveTarget(t) ==
    \E o \in OpId : rows[o] # Absent /\ rows[o].target = t /\ rows[o].state \in ActiveStates

\* The block under _lock.  A conflict leaves the approval spent.
Claim(o) ==
    /\ at[o] = "claim"
    /\ IF ActiveTarget(doc[o].target)
         THEN /\ at' = [at EXCEPT ![o] = "none"]
              /\ doc' = [doc EXCEPT ![o] = Absent]
              /\ UNCHANGED <<rows, latest>>
         ELSE /\ at' = [at EXCEPT ![o] = "apply"]
              /\ rows' = [rows EXCEPT ![o] = doc[o]]
              /\ latest' = [latest EXCEPT ![doc[o].target] = o]
              /\ UNCHANGED doc
    /\ UNCHANGED <<approvals, previous, cancelled, marking, outside>>

\* cancel reads the row, then adds the id to _cancelled.
CancelRead(o) ==
    /\ o \notin marking
    /\ rows[o] # Absent /\ rows[o].state \in ActiveStates \ {"rolling-back"}
    /\ marking' = marking \union {o}
    /\ UNCHANGED <<rows, latest, approvals, doc, at, previous, cancelled, outside>>

CancelMark(o) ==
    /\ o \in marking
    /\ marking' = marking \ {o} /\ cancelled' = cancelled \union {o}
    /\ UNCHANGED <<rows, latest, approvals, doc, at, previous, outside>>

------------------------------------------------------------------------------
(* The thread of replacement o                                             *)

Go(o, point) == at' = [at EXCEPT ![o] = point]

\* _save with the new state.
Save(o, document) ==
    /\ doc' = [doc EXCEPT ![o] = document]
    /\ rows' = [rows EXCEPT ![o] = document]

\* external: SecretAdapter.replace.  It returns the previous revision or
\* None, or raises with or without the new material in place.
Apply(o) ==
    /\ at[o] = "apply"
    /\ LET t == doc[o].target IN
       \/ /\ material' = [material EXCEPT ![t] = o]
          /\ previous' \in {previous, [previous EXCEPT ![o] = material[t]]}
          /\ Go(o, "next")
       \/ /\ \/ material' = [material EXCEPT ![t] = o]
             \/ UNCHANGED material
          /\ Go(o, "raise") /\ UNCHANGED previous
    /\ UNCHANGED <<rows, latest, approvals, doc, cancelled, marking, loaded>>

\* Mutation: the last consumer is left out.
ConsumersLeftButOne(o) == doc[o].restarted + 1 < Len(Consumers[doc[o].target])

ConsumersLeft(o) == doc[o].restarted < Len(Consumers[doc[o].target])

NextConsumer(o) == Consumers[doc[o].target][doc[o].restarted + 1]

\* _check_deadline: cancelled, too late, or on to the next consumer.
CheckDeadline(o) ==
    /\ at[o] = "next" /\ ConsumersLeft(o)
    /\ \/ o \notin cancelled /\ Save(o, [doc[o] EXCEPT !.state = "restarting"]) /\ Go(o, "restart")
       \/ Go(o, "raise") /\ UNCHANGED <<rows, doc>>
    /\ UNCHANGED <<latest, approvals, previous, cancelled, marking, outside>>

\* external: a consumer starts with the material of the moment.
Restart(c) == loaded' = [loaded EXCEPT ![c] = material]

\* Mutation: the restarted consumer is not recorded.
CountNone(o) == doc[o].restarted

\* The new length of restartedConsumers.
Count(o) == doc[o].restarted + 1

Restarted(o) ==
    /\ at[o] = "restart"
    /\ Restart(NextConsumer(o))
    /\ Save(o, [doc[o] EXCEPT !.state = "verifying", !.restarted = Count(o)]) /\ Go(o, "health")
    /\ UNCHANGED <<latest, approvals, previous, cancelled, marking, material>>

RestartFailed(o) ==
    /\ at[o] = "restart"
    /\ Restart(NextConsumer(o)) \/ UNCHANGED loaded
    /\ Go(o, "raise")
    /\ UNCHANGED <<rows, latest, approvals, doc, previous, cancelled, marking, material>>

Health(o) ==
    /\ at[o] = "health"
    /\ Go(o, "next") \/ Go(o, "raise")
    /\ UNCHANGED <<rows, latest, approvals, doc, previous, cancelled, marking, outside>>

Succeed(o) ==
    /\ at[o] = "next" /\ ~ConsumersLeft(o)
    /\ doc' = [doc EXCEPT ![o].state = "succeeded"]
    /\ Go(o, "end")
    /\ UNCHANGED <<rows, latest, approvals, previous, cancelled, marking, outside>>

\* Mutation: the update is saved as failed before the roll back.
RollingBackReleased(o) == [doc[o] EXCEPT !.state = "failed"]

RollingBack(o) == [doc[o] EXCEPT !.state = "rolling-back"]

\* The except clause: without a previous revision there is no roll back.
Raise(o) ==
    /\ at[o] = "raise"
    /\ IF previous[o] = Absent
         THEN /\ doc' = [doc EXCEPT ![o].state = "failed"]
              /\ Go(o, "end") /\ UNCHANGED rows
         ELSE Save(o, RollingBack(o)) /\ Go(o, "rollback")
    /\ UNCHANGED <<latest, approvals, previous, cancelled, marking, outside>>

\* external: SecretAdapter.rollback.
Revert(o) == material' = [material EXCEPT ![doc[o].target] = previous[o]]

RollbackResult(o, ok) == IF ok THEN "rolled-back" ELSE "recovery-required"

Rollback(o) ==
    /\ at[o] = "rollback"
    /\ \E ok \in BOOLEAN :
         /\ Revert(o) \/ (~ok /\ UNCHANGED material)
         /\ doc' = [doc EXCEPT ![o].state = RollbackResult(o, ok)]
    /\ Go(o, "end")
    /\ UNCHANGED <<rows, latest, approvals, previous, cancelled, marking, loaded>>

\* The finally clause.
End(o) ==
    /\ at[o] = "end"
    /\ cancelled' = cancelled \ {o}
    /\ rows' = [rows EXCEPT ![o] = doc[o]]
    /\ doc' = [doc EXCEPT ![o] = Absent] /\ previous' = [previous EXCEPT ![o] = Absent]
    /\ Go(o, "none")
    /\ UNCHANGED <<latest, approvals, marking, outside>>

ThreadStep(o) ==
    \/ Claim(o) \/ Apply(o) \/ CheckDeadline(o) \/ Restarted(o) \/ RestartFailed(o)
    \/ Health(o) \/ Succeed(o) \/ Raise(o) \/ Rollback(o) \/ End(o)

\* The UPDATE in SecretOperationStore.__init__.
ManagerRestart ==
    /\ rows' = [o \in OpId |-> IF rows[o] # Absent /\ rows[o].state \in ActiveStates
                               THEN [rows[o] EXCEPT !.state = "interrupted"] ELSE rows[o]]
    /\ at' = [o \in OpId |-> "none"]
    /\ doc' = [o \in OpId |-> Absent] /\ previous' = [o \in OpId |-> Absent]
    /\ cancelled' = {} /\ marking' = {}
    /\ UNCHANGED <<latest, approvals, outside>>

Next ==
    \/ \E a \in ApprovalId, t \in Target, s \in SourceType : RequestApproval(a, t, s)
    \/ \E o \in OpId, a \in ApprovalId, confirmed \in BOOLEAN : Authorize(o, a, confirmed)
    \/ \E o \in OpId : ThreadStep(o) \/ CancelRead(o) \/ CancelMark(o)
    \/ ManagerRestart

\* Request threads run.  Nobody has to ask for anything.
Spec == Init /\ [][Next]_vars /\ \A o \in OpId : WF_vars(ThreadStep(o))

------------------------------------------------------------------------------
(* Properties                                                              *)

Held(o) == rows[o] # Absent /\ rows[o].state \in ActiveStates

\* Two updates of one target never overlap, although the authorization comes
\* before the claim and a crash may leave rows and approvals behind.
OneUpdatePerTarget ==
    \A o, p \in OpId : Held(o) /\ Held(p) /\ rows[o].target = rows[p].target => o = p

\* When the newest update of a target succeeded, its material is in force and
\* every consumer was restarted with it, whatever updates of other targets
\* restart the same consumers.
SucceededIsLoaded ==
    \A o \in OpId : rows[o] # Absent /\ rows[o].state = "succeeded" /\ latest[rows[o].target] = o =>
        LET t == rows[o].target IN
        /\ material[t] = o
        /\ \A i \in DOMAIN Consumers[t] : loaded[Consumers[t][i]][t] = o

\* A roll back undoes its own replacement, never that of a later update.
RollbackUndoesOwnWork ==
    [][\A o \in OpId : at[o] = "rollback" /\ at'[o] = "end" /\ material' # material =>
          material[doc[o].target] = o]_vars

\* An active update ends, also when the Manager restarts: it never blocks its
\* target for good.
Settles == \A o \in OpId : Held(o) ~> ~Held(o)
==============================================================================
