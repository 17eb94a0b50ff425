---------------------------- MODULE ProfileUpgrade ----------------------------
(***************************************************************************)
(* Upgrades between platform profiles (manager/profile_upgrade.py): plans   *)
(* bound to the evidence they were made from, a worker thread for each      *)
(* upgrade, and the recovery of an upgrade that did not succeed.            *)
(*                                                                         *)
(* Components are the numbers 1..N, in the registry's dependency order.     *)
(***************************************************************************)
EXTENDS Naturals, FiniteSetsExt

CONSTANTS
    Target,   \* the profiles that name the running one as a tested source
    Changed,  \* Changed[t]: the components whose version differs in t
    Class,    \* Class[t][c]: the recovery class of the step of component c
    N, Evidence, \* Evidence: capacity, health, dependency and backup evidence
    PlanId, OpId, Caller, Absent

RecoveryClass == {"reversible", "compensating-action", "restore-required", "irreversible"}

ASSUME UpgradeAssumption ==
    /\ N \in Nat \ {0}
    /\ Changed \in [Target -> (SUBSET (1..N)) \ {{}}]
    /\ Class \in [Target -> [1..N -> RecoveryClass]]

VARIABLES
    plans,     \* table profile_upgrades, kind ProfileUpgradePlan
    rows,      \* table profile_upgrades, kind ProfileUpgradeOperation
    up,        \* the UpgradeStore is constructed
    call,      \* submit or cancel in progress, per request thread
    worker,    \* where each worker stands in _run or _recover
    doc,       \* the document of each worker
    mutated,   \* the list `mutated' of each worker, all of it below doc.current
    cancelled, \* _cancelled
    evidence,  \* external: what observation_provider reports
    version,   \* external: the version of each component
    touched    \* history: what an upgrade has changed and not changed back

vars == <<plans, rows, up, call, worker, doc, mutated, cancelled, evidence, version, touched>>

TerminalStates == {"succeeded", "failed", "cancelled", "timed-out", "interrupted"}
Component == 1..N

Plan == [target : Target, evidence : Evidence, consumed : BOOLEAN, expired : BOOLEAN]
Operation == [plan : PlanId, state : TerminalStates \union {"queued", "running", "cancelling"},
              current : 0..N, \* currentComponent, 0 for None
              done : 0..N,    \* completedComponents is 1..done
              recovery : {"not-required", "restore-required", "rolled-back",
                          "compensating-action-required", "operator-review-required"}]
Idle == [at |-> "idle"]

\* Absent is no row of the table.
ASSUME AbsentAssumption == Absent \notin Plan \union Operation

TypeOK ==
    /\ plans \in [PlanId -> Plan \union {Absent}]
    /\ rows \in [OpId -> Operation \union {Absent}]
    /\ up \in BOOLEAN
    /\ call \in [Caller -> {Idle} \union [at : {"consume", "put"}, plan : PlanId]
                    \union [at : {"mark", "write"}, op : OpId, doc : Operation]]
    /\ worker \in [OpId -> {"none", "start", "loop", "adapter", "mutation", "verify", "save",
                            "recover", "rollback", "end"}]
    /\ doc \in [OpId -> Operation \union {Absent}]
    /\ mutated \in [OpId -> SUBSET Component]
    /\ cancelled \subseteq OpId
    /\ evidence \in Evidence
    /\ version \in [Component -> {"source"} \union Target]
    /\ touched \in [OpId -> SUBSET Component]

Init ==
    /\ plans = [p \in PlanId |-> Absent]
    /\ rows = [o \in OpId |-> Absent]
    /\ up = TRUE
    /\ call = [t \in Caller |-> Idle]
    /\ worker = [o \in OpId |-> "none"]
    /\ doc = [o \in OpId |-> Absent]
    /\ mutated = [o \in OpId |-> {}]
    /\ cancelled = {}
    /\ evidence \in Evidence
    /\ version = [c \in Component |-> "source"]
    /\ touched = [o \in OpId |-> {}]

external == <<evidence, version, touched>>
thread == <<worker, doc, mutated>>

------------------------------------------------------------------------------
(* Plans                                                                   *)

\* _validated_observation: the observed versions are those of the source.
Observed == \A c \in Component : version[c] = "source"

MakePlan(p, t) ==
    /\ up /\ plans[p] = Absent /\ Observed
    /\ plans' = [plans EXCEPT ![p] =
          [target |-> t, evidence |-> evidence, consumed |-> FALSE, expired |-> FALSE]]
    /\ UNCHANGED <<rows, up, call, thread, cancelled, external>>

\* Ten minutes pass.  A plan that is consumed is not asked again.
Expire(p) ==
    /\ plans[p] # Absent /\ ~plans[p].expired /\ ~plans[p].consumed
    /\ plans' = [plans EXCEPT ![p].expired = TRUE]
    /\ UNCHANGED <<rows, up, call, thread, cancelled, external>>

\* Capacity, health or the backup is no longer what it was; only plans look.
EvidenceChanges(e) ==
    /\ \E p \in PlanId : plans[p] # Absent /\ ~plans[p].consumed /\ ~plans[p].expired
    /\ evidence # e /\ evidence' = e
    /\ UNCHANGED <<plans, rows, up, call, thread, cancelled, version, touched>>

\* submit up to the digest of what is observed now.  The plan is confirmed by
\* a fresh identity from a strong source; anything else is refused.
SubmitCheck(t, p) ==
    /\ up /\ call[t] = Idle
    /\ plans[p] # Absent /\ ~plans[p].expired
    /\ Observed /\ plans[p].evidence = evidence
    /\ call' = [call EXCEPT ![t] = [at |-> "consume", plan |-> p]]
    /\ UNCHANGED <<plans, rows, up, thread, cancelled, external>>

\* Mutation: the update of consume_plan does not look at the state.
OpenAny(p) == plans[p] # Absent

\* The WHERE clause of consume_plan.
Open(p) == ~plans[p].consumed

SubmitConsume(t) ==
    /\ call[t].at = "consume"
    /\ LET p == call[t].plan IN
       IF Open(p)
         THEN /\ plans' = [plans EXCEPT ![p].consumed = TRUE]
              /\ call' = [call EXCEPT ![t].at = "put"]
         ELSE call' = [call EXCEPT ![t] = Idle] /\ UNCHANGED plans
    /\ UNCHANGED <<rows, up, thread, cancelled, external>>

SubmitPut(t, o) ==
    /\ call[t].at = "put" /\ rows[o] = Absent
    /\ rows' = [rows EXCEPT ![o] = [plan |-> call[t].plan, state |-> "queued", current |-> 0,
                                    done |-> 0, recovery |-> "not-required"]]
    /\ worker' = [worker EXCEPT ![o] = "start"]
    /\ call' = [call EXCEPT ![t] = Idle]
    /\ UNCHANGED <<plans, up, doc, mutated, cancelled, external>>

\* cancel: it saves the document that it has read.
CancelRead(t, o) ==
    /\ up /\ call[t] = Idle
    /\ rows[o] # Absent /\ rows[o].state \notin TerminalStates
    /\ call' = [call EXCEPT ![t] = [at |-> "mark", op |-> o, doc |-> rows[o]]]
    /\ UNCHANGED <<plans, rows, up, thread, cancelled, external>>

CancelMark(t) ==
    /\ call[t].at = "mark"
    /\ cancelled' = cancelled \union {call[t].op}
    /\ call' = [call EXCEPT ![t].at = "write"]
    /\ UNCHANGED <<plans, rows, up, thread, external>>

CancelWrite(t) ==
    /\ call[t].at = "write"
    /\ rows' = [rows EXCEPT ![call[t].op] = [call[t].doc EXCEPT !.state = "cancelling"]]
    /\ call' = [call EXCEPT ![t] = Idle]
    /\ UNCHANGED <<plans, up, thread, cancelled, external>>

------------------------------------------------------------------------------
(* The worker of upgrade o: _run                                           *)

Goal(o) == plans[doc[o].plan].target
Go(o, point) == worker' = [worker EXCEPT ![o] = point]
Save(o, document) == rows' = [rows EXCEPT ![o] = document]

\* The row is read and saved again as running: what a cancellation wrote in
\* between is lost, its mark is not.
Start(o) ==
    /\ worker[o] = "start"
    /\ doc' = [doc EXCEPT ![o] = [rows[o] EXCEPT !.state = "running"]]
    /\ Save(o, doc'[o]) /\ Go(o, "loop")
    /\ UNCHANGED <<plans, up, call, mutated, cancelled, external>>

StepsLeft(o) == doc[o].done < N

NextComponent(o) ==
    /\ worker[o] = "loop" /\ StepsLeft(o)
    /\ IF o \in cancelled
         THEN /\ doc' = [doc EXCEPT ![o].state = "cancelled"]
              /\ Go(o, "recover") /\ UNCHANGED rows
         ELSE /\ doc' = [doc EXCEPT ![o].current = doc[o].done + 1]
              /\ Save(o, doc'[o])
              /\ Go(o, IF doc[o].done + 1 \in Changed[Goal(o)] THEN "adapter" ELSE "verify")
    /\ UNCHANGED <<plans, up, call, mutated, cancelled, external>>

\* external: UpgradeAdapter.upgrade applies the target's version.
Apply(o) ==
    /\ version' = [version EXCEPT ![doc[o].current] = Goal(o)]
    /\ touched' = [touched EXCEPT ![o] = @ \union {doc[o].current}]

Upgraded(o) ==
    /\ worker[o] = "adapter"
    /\ Apply(o)
    /\ mutated' = [mutated EXCEPT ![o] = @ \union {doc[o].current}]
    /\ Go(o, "mutation")
    /\ UNCHANGED <<plans, rows, up, call, doc, cancelled, evidence>>

Fail(o) ==
    /\ doc' = [doc EXCEPT ![o].state = "failed"]
    /\ Go(o, "recover")

\* An adapter that raises may have applied the version all the same.
UpgradeFailed(o) ==
    /\ worker[o] = "adapter"
    /\ Apply(o) \/ UNCHANGED <<version, touched>>
    /\ Fail(o)
    /\ UNCHANGED <<plans, rows, up, call, mutated, cancelled, evidence>>

\* The save of the evidence mutation-completed.
SaveMutation(o) ==
    /\ worker[o] = "mutation"
    /\ Save(o, doc[o]) /\ Go(o, "verify")
    /\ UNCHANGED <<plans, up, call, doc, mutated, cancelled, external>>

\* verify_layer passes, returns false or raises, or the deadline has passed.
Verify(o) ==
    /\ worker[o] = "verify"
    /\ \/ doc' = [doc EXCEPT ![o].done = doc[o].current] /\ Go(o, "save")
       \/ doc' = [doc EXCEPT ![o].state = "timed-out"] /\ Go(o, "recover")
       \/ Fail(o)
    /\ UNCHANGED <<plans, rows, up, call, mutated, cancelled, external>>

SaveVerified(o) ==
    /\ worker[o] = "save"
    /\ Save(o, doc[o]) /\ Go(o, "loop")
    /\ UNCHANGED <<plans, up, call, doc, mutated, cancelled, external>>

Succeed(o) ==
    /\ worker[o] = "loop" /\ ~StepsLeft(o)
    /\ doc' = [doc EXCEPT ![o].state = "succeeded", ![o].current = 0]
    /\ Go(o, "end")
    /\ UNCHANGED <<plans, rows, up, call, mutated, cancelled, external>>

------------------------------------------------------------------------------
(* _recover                                                                *)

\* Mutation: a component whose upgrade failed counts as not changed.
SuspectedRecorded(o) == mutated[o]

\* An adapter's error does not prove that the version was not applied.
Suspected(o) == mutated[o] \union (Changed[Goal(o)] \intersect {doc[o].current})

\* Mutation: what cannot be reversed at all is forgotten.
BlockingRestoreOnly == {"restore-required"}

Blocking == {"restore-required", "irreversible"}

Conclude(o, status) ==
    /\ doc' = [doc EXCEPT ![o].recovery = status]
    /\ Go(o, "end")

\* Some adapters cannot roll back.
Recover(o) ==
    /\ worker[o] = "recover"
    /\ mutated' = [mutated EXCEPT ![o] = Suspected(o)]
    /\ \/ Suspected(o) = {} /\ Conclude(o, "not-required")
       \/ /\ \E c \in Suspected(o) : Class[Goal(o)][c] \in Blocking
          /\ Conclude(o, "restore-required")
       \/ /\ Suspected(o) # {}
          /\ \A c \in Suspected(o) : Class[Goal(o)][c] \notin Blocking
          /\ \/ Go(o, "rollback") /\ UNCHANGED doc
             \/ Conclude(o, "compensating-action-required")
    /\ UNCHANGED <<plans, rows, up, call, cancelled, external>>

\* Mutation: components are rolled back in the order of the upgrade.
LatestFirst(o) == Min(mutated[o])

\* reversed(mutated); mutated now holds what is still to be rolled back.
Latest(o) == Max(mutated[o])

\* external: UpgradeAdapter.rollback, whatever became of it.
Revert(o) ==
    /\ version' = [version EXCEPT ![Latest(o)] = "source"]
    /\ touched' = [touched EXCEPT ![o] = @ \ {Latest(o)}]

\* A step is rolled back and verified, or something raises.
Rollback(o) ==
    /\ worker[o] = "rollback" /\ mutated[o] # {}
    /\ \/ /\ Revert(o)
          /\ mutated' = [mutated EXCEPT ![o] = @ \ {Latest(o)}]
          /\ UNCHANGED <<doc, worker>>
       \/ /\ Revert(o) \/ UNCHANGED <<version, touched>>
          /\ Conclude(o, "compensating-action-required")
          /\ UNCHANGED mutated
    /\ UNCHANGED <<plans, rows, up, call, cancelled, evidence>>

RolledBack(o) ==
    /\ worker[o] = "rollback" /\ mutated[o] = {}
    /\ Conclude(o, "rolled-back")
    /\ UNCHANGED <<plans, rows, up, call, mutated, cancelled, external>>

\* The finally clause of _run.
End(o) ==
    /\ worker[o] = "end"
    /\ cancelled' = cancelled \ {o}
    /\ Save(o, doc[o]) /\ Go(o, "none")
    /\ doc' = [doc EXCEPT ![o] = Absent] /\ mutated' = [mutated EXCEPT ![o] = {}]
    /\ UNCHANGED <<plans, up, call, external>>

WorkerStep(o) ==
    \/ Start(o) \/ NextComponent(o) \/ Upgraded(o) \/ UpgradeFailed(o) \/ SaveMutation(o)
    \/ Verify(o) \/ SaveVerified(o) \/ Succeed(o)
    \/ Recover(o) \/ Rollback(o) \/ RolledBack(o) \/ End(o)

------------------------------------------------------------------------------
(* Restarts: UpgradeStore.__init__                                         *)

\* The process ends, and the new one runs the first UPDATE.
Restart ==
    /\ rows' = [o \in OpId |->
          IF rows[o] # Absent /\ rows[o].state \notin TerminalStates
            THEN [rows[o] EXCEPT !.state = "interrupted"] ELSE rows[o]]
    /\ up' = FALSE
    /\ worker' = [o \in OpId |-> "none"]
    /\ doc' = [o \in OpId |-> Absent]
    /\ mutated' = [o \in OpId |-> {}]
    /\ call' = [t \in Caller |-> Idle]
    /\ cancelled' = {}
    /\ UNCHANGED <<plans, external>>

\* The SELECT finds every interrupted row, also those of earlier restarts.
NeedsReview(o) == rows[o] # Absent /\ rows[o].state = "interrupted"

Annotate(o) ==
    /\ ~up /\ NeedsReview(o) /\ rows[o].recovery # "operator-review-required"
    /\ rows' = [rows EXCEPT ![o].recovery = "operator-review-required"]
    /\ UNCHANGED <<plans, up, call, thread, cancelled, external>>

StartUp ==
    /\ ~up
    /\ \A o \in OpId : NeedsReview(o) => rows[o].recovery = "operator-review-required"
    /\ up' = TRUE
    /\ UNCHANGED <<plans, rows, call, thread, cancelled, external>>

Next ==
    \/ \E p \in PlanId : Expire(p) \/ \E t \in Target : MakePlan(p, t)
    \/ \E e \in Evidence : EvidenceChanges(e)
    \/ \E t \in Caller :
         \/ \E p \in PlanId : SubmitCheck(t, p)
         \/ \E o \in OpId : SubmitPut(t, o) \/ CancelRead(t, o)
         \/ SubmitConsume(t) \/ CancelMark(t) \/ CancelWrite(t)
    \/ \E o \in OpId : WorkerStep(o) \/ Annotate(o)
    \/ Restart \/ StartUp

Spec == Init /\ [][Next]_vars

------------------------------------------------------------------------------
(* Properties                                                              *)

Ended(o) == rows[o] # Absent /\ rows[o].state \in TerminalStates

\* While the Manager is up, no upgrade that ended without success hides a
\* changed component: if its record asks for no recovery, or says that it was
\* rolled back, all it changed was changed back.  Failed adapters, cancels,
\* timeouts, stale saves and crashes in the middle of a restart included.
NoHiddenChange ==
    up => \A o \in OpId :
        /\ Ended(o) /\ rows[o].state # "succeeded"
        /\ rows[o].recovery \in {"not-required", "rolled-back"}
        => touched[o] = {}

\* A confirmed plan is executed once, however many requests race.
PlanExecutedOnce ==
    \A o, q \in OpId : rows[o] # Absent /\ rows[q] # Absent /\ rows[o].plan = rows[q].plan
        => o = q

\* Nothing is rolled back once a component that may have been changed needs
\* a restore or cannot be reversed.
BlockedIsLeftAlone ==
    [][\A o \in OpId : touched'[o] \subseteq touched[o] /\ touched'[o] # touched[o] =>
          \A c \in touched[o] :
             Class[Goal(o)][c] \notin {"restore-required", "irreversible"}]_vars

\* A component is rolled back after every later one that the upgrade changed.
RollbackReversesOrder ==
    [][\A o \in OpId : \A c \in touched[o] \ touched'[o] :
          \A d \in touched'[o] : d < c]_vars
==============================================================================
