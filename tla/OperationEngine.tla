--------------------------- MODULE OperationEngine ---------------------------
(***************************************************************************)
(* The lifecycle operation engine and its durable store                    *)
(* (manager/operation_engine.py).                                          *)
(*                                                                         *)
(* HTTP request threads (Caller) submit, retry and cancel operations.      *)
(* Every accepted operation gets a background worker thread, named here by *)
(* its operation id.  The engine lock protects the conflict check and the  *)
(* creation of a row, and the whole of cancel; it does NOT protect the     *)
(* saves of a worker.  The manager process may crash at any point: rows    *)
(* and events survive, threads, the lock and the cancelled set do not.     *)
(***************************************************************************)
EXTENDS LifecyclePlan

CONSTANTS OpId,        \* operation ids (uuid4, drawn fresh)
          Caller,      \* request threads
          Requests,    \* the requests that callers may submit
          MaxAttempts, \* the engine's attempt bound for an idempotent step
          OrphansPossible, \* an adapter script's child may outlive the script
          Nobody       \* the lock is free

ASSUME EngineAssumption ==
    /\ Requests \subseteq Request
    /\ MaxAttempts \in Nat \ {0}
    /\ OrphansPossible \in BOOLEAN
    /\ Nobody \notin Caller

VARIABLES
    store,     \* lifecycle_operations: the durable row of each id
    events,    \* lifecycle_events: steps recorded succeeded or resumed
    doc,       \* the document object that the worker thread mutates
    todo,      \* the steps that the worker still has to run
    worker,    \* where the worker thread of each id stands
    attempt,   \* attempt number of the current step
    cancelled, \* OperationEngine._cancelled
    lock,      \* OperationEngine._lock
    call,      \* what each request thread is doing
    cluster,   \* the lab: the state of every component (external)
    orphans,   \* steps whose terminated script left a child at work (external)
    manager    \* the manager process

vars == <<store, events, doc, todo, worker, attempt, cancelled, lock, call,
          cluster, orphans, manager>>
volatile == <<doc, todo, worker, attempt, cancelled, lock, call>>

------------------------------------------------------------------------------
ActiveStates == {"queued", "running", "cancelling"}
TerminalStates == {"succeeded", "failed", "timed-out", "cancelled", "interrupted"}
RetryableStates == TerminalStates \ {"succeeded", "cancelled"}

NoRequest == [flow |-> "plain", operation |-> "start", targets |-> {}]

\* recovery is the document's recovery.required; labAction says whether the
\* fields labAction and selectedComponent are in the document.
Document == [state : ActiveStates \union TerminalStates \union {"none"},
             request : Request, components : SUBSET Component,
             done : Nat, total : Nat,
             recovery : BOOLEAN, labAction : BOOLEAN, retry : BOOLEAN]

NoDocument == [state |-> "none", request |-> NoRequest, components |-> {},
               done |-> 0, total |-> 0,
               recovery |-> FALSE, labAction |-> FALSE, retry |-> FALSE]

ClusterState == {"absent", "stopped", "running"}

WorkerStates == {"none", "starting", "next", "attempt", "boundary", "executing",
                 "checking", "verifying", "succeeded-step", "finally", "saving", "exiting"}

\* A caller is idle, or in prepare (before the lock), creating (holding it),
\* resuming, recording or spawning (row created, worker not started), or
\* cancelling (holding it).
CallStates == {"idle", "prepare", "creating", "saving-resumed", "resuming",
               "spawning", "cancelling"}

\* The last field is a retried operation's set of completed steps.
Call == [at : CallStates, request : Request, steps : Seq(Step),
         retry : BOOLEAN, completed : SUBSET Step,
         id : OpId \union {Nobody}, read : Document]

Idle == [at |-> "idle", request |-> NoRequest, steps |-> <<>>, retry |-> FALSE,
         completed |-> {}, id |-> Nobody, read |-> NoDocument]

TypeOK ==
    /\ store \in [OpId -> Document]
    /\ events \in [OpId -> SUBSET Step]
    /\ doc \in [OpId -> Document]
    /\ todo \in [OpId -> Seq(Step)]
    /\ worker \in [OpId -> WorkerStates]
    /\ attempt \in [OpId -> 0..MaxAttempts]
    /\ cancelled \subseteq OpId
    /\ lock \in Caller \union {Nobody}
    /\ call \in [Caller -> Call]
    /\ cluster \in [Component -> ClusterState]
    /\ orphans \subseteq Step
    /\ manager \in {"down", "opening", "up"}

Init ==
    /\ store = [o \in OpId |-> NoDocument]
    /\ events = [o \in OpId |-> {}]
    /\ doc = [o \in OpId |-> NoDocument]
    /\ todo = [o \in OpId |-> <<>>]
    /\ worker = [o \in OpId |-> "none"]
    /\ attempt = [o \in OpId |-> 0]
    /\ cancelled = {}
    /\ lock = Nobody
    /\ call = [t \in Caller |-> Idle]
    /\ cluster = [c \in Component |-> "absent"]
    /\ orphans = {}
    /\ manager = "up"

------------------------------------------------------------------------------
(* Request threads: submit_async, submit_lab_async,                        *)
(* submit_clean_install_async, retry_async                                 *)

\* A request whose plan cannot be built, or whose preflight is not ready, is
\* refused without a trace.  The clean install also needs an empty footprint,
\* which is read here, before the lock.
Submit(t, request, steps) ==
    /\ manager = "up" /\ call[t].at = "idle"
    /\ request.flow = "clean-install" => \A c \in Component : cluster[c] = "absent"
    /\ call' = [call EXCEPT ![t] = [Idle EXCEPT !.at = "prepare",
                                                !.request = request,
                                                !.steps = steps]]
    /\ UNCHANGED <<store, events, doc, todo, worker, attempt, cancelled, lock,
                   cluster, orphans, manager>>

\* A lab operation is retried from its labAction field.  A plain operation is
\* resubmitted whole; a lab or clean-install operation skips completed steps.
Retry(t, o, steps) ==
    /\ manager = "up" /\ call[t].at = "idle"
    /\ store[o].state \in RetryableStates
    /\ store[o].request.flow = "lab" => store[o].labAction
    /\ call' = [call EXCEPT ![t] =
                    [Idle EXCEPT !.at = "prepare",
                                 !.request = store[o].request,
                                 !.steps = steps,
                                 !.retry = TRUE,
                                 !.completed = IF store[o].request.flow = "plain"
                                                 THEN {} ELSE events[o]]]
    /\ UNCHANGED <<store, events, doc, todo, worker, attempt, cancelled, lock,
                   cluster, orphans, manager>>

\* OperationStore.active_components against the steps' components.
Conflict(steps) ==
    \E o \in OpId : /\ store[o].state \in ActiveStates
                    /\ store[o].components \intersect Affected(steps) # {}

\* _prepare_steps: under the lock, an overlap with an active operation raises
\* OperationConflict.
PrepareLocked(t) ==
    /\ call[t].at = "prepare" /\ lock = Nobody
    /\ IF Conflict(call[t].steps)
         THEN call' = [call EXCEPT ![t] = Idle] /\ UNCHANGED lock
         ELSE call' = [call EXCEPT ![t].at = "creating"] /\ lock' = t
    /\ UNCHANGED <<store, events, doc, todo, worker, attempt, cancelled, cluster, orphans, manager>>

\* The authorization service, still under the lock, denies the operation.
Denied(t) ==
    /\ call[t].at = "creating"
    /\ call' = [call EXCEPT ![t] = Idle]
    /\ lock' = Nobody
    /\ UNCHANGED <<store, events, doc, todo, worker, attempt, cancelled, cluster, orphans, manager>>

QueuedDocument(k) ==
    [state |-> "queued", request |-> k.request, components |-> Affected(k.steps),
     done |-> 0, total |-> Len(k.steps),
     recovery |-> FALSE, labAction |-> FALSE, retry |-> k.retry]

AfterCreate(k) ==
    IF k.request.flow = "lab" THEN "resuming"
    ELSE IF k.request.flow = "clean-install" /\ k.retry THEN "saving-resumed"
    ELSE "spawning"

\* OperationStore.create, then the lock is released.
Create(t, o) ==
    /\ call[t].at = "creating"
    /\ store[o].state = "none"
    /\ store' = [store EXCEPT ![o] = QueuedDocument(call[t])]
    /\ doc' = [doc EXCEPT ![o] = QueuedDocument(call[t])]
    /\ todo' = [todo EXCEPT ![o] = call[t].steps]
    /\ call' = [call EXCEPT ![t].id = o, ![t].at = AfterCreate(call[t])]
    /\ lock' = Nobody
    /\ UNCHANGED <<events, worker, attempt, cancelled, cluster, orphans, manager>>

\* One step-resumed event.  They are written one by one, before the update of
\* the row for a lab operation and after it for a clean install.
Resumable(k) == StepSet(k.steps) \intersect k.completed

RecordResumed(t, step) ==
    /\ call[t].at = "resuming"
    /\ step \in Resumable(call[t]) \ events[call[t].id]
    /\ events' = [events EXCEPT ![call[t].id] = @ \union {step}]
    /\ UNCHANGED <<store, doc, todo, worker, attempt, cancelled, lock, call,
                   cluster, orphans, manager>>

ResumedAll(t) ==
    /\ call[t].at = "resuming"
    /\ Resumable(call[t]) \subseteq events[call[t].id]
    /\ call' = [call EXCEPT ![t].at = IF call[t].request.flow = "lab"
                                        THEN "saving-resumed" ELSE "spawning"]
    /\ UNCHANGED <<store, events, doc, todo, worker, attempt, cancelled, lock,
                   cluster, orphans, manager>>

\* Mutation: the resumed steps are not counted.
ResumedDocumentUncounted(k, d) ==
    [d EXCEPT !.labAction = (k.request.flow = "lab")]

\* The resumed document: the completed steps are dropped from the plan and
\* counted as done; a lab operation also records its action.
ResumedDocument(k, d) ==
    [d EXCEPT !.done = Cardinality(Resumable(k)),
              !.labAction = (k.request.flow = "lab")]

\* The other steps in the order of the plan, which has no step twice.
Remaining(k) ==
    LET S == StepSet(k.steps) \ k.completed
        Position(step) == CHOOSE i \in 1..Len(k.steps) : k.steps[i] = step
    IN  {r \in [1..Cardinality(S) -> S] :
            \A i, j \in 1..Cardinality(S) : i < j => Position(r[i]) < Position(r[j])}

SaveResumed(t) ==
    LET k == call[t]
        d == ResumedDocument(k, doc[k.id])
    IN  /\ k.at = "saving-resumed"
        /\ doc' = [doc EXCEPT ![k.id] = d]
        /\ store' = [store EXCEPT ![k.id] = d]
        /\ \E rest \in Remaining(k) : todo' = [todo EXCEPT ![k.id] = rest]
        /\ call' = [call EXCEPT ![t].at = IF k.request.flow = "lab"
                                            THEN "spawning" ELSE "resuming"]
        /\ UNCHANGED <<events, worker, attempt, cancelled, lock, cluster, orphans, manager>>

\* _start_worker; the request returns.
Spawn(t) ==
    /\ call[t].at = "spawning"
    /\ worker' = [worker EXCEPT ![call[t].id] = "starting"]
    /\ call' = [call EXCEPT ![t] = Idle]
    /\ UNCHANGED <<store, events, doc, todo, attempt, cancelled, lock, cluster, orphans, manager>>

------------------------------------------------------------------------------
(* Request threads: cancel                                                 *)

\* Under the lock the row is read, and a terminal one is returned as it is.
CancelRead(t, o) ==
    /\ manager = "up" /\ call[t].at = "idle" /\ lock = Nobody
    /\ store[o].state \in ActiveStates
    /\ cancelled' = cancelled \union {o}
    /\ call' = [call EXCEPT ![t] = [Idle EXCEPT !.at = "cancelling", !.id = o,
                                                !.read = store[o]]]
    /\ lock' = t
    /\ UNCHANGED <<store, events, doc, todo, worker, attempt, cluster, orphans, manager>>

\* Mutation: cancel itself ends the operation.
CancelWriteEnds(t) ==
    /\ call[t].at = "cancelling"
    /\ store' = [store EXCEPT ![call[t].id] =
                    [call[t].read EXCEPT !.state = "cancelled", !.recovery = TRUE]]
    /\ call' = [call EXCEPT ![t] = Idle]
    /\ lock' = Nobody
    /\ UNCHANGED <<events, doc, todo, worker, attempt, cancelled, cluster, orphans, manager>>

\* The document that was read is written back as cancelling, whatever the
\* worker has saved since.
CancelWrite(t) ==
    /\ call[t].at = "cancelling"
    /\ store' = [store EXCEPT ![call[t].id] =
                    [call[t].read EXCEPT !.state = "cancelling"]]
    /\ call' = [call EXCEPT ![t] = Idle]
    /\ lock' = Nobody
    /\ UNCHANGED <<events, doc, todo, worker, attempt, cancelled, cluster, orphans, manager>>

------------------------------------------------------------------------------
(* The worker thread: _run and _execute_step                               *)

\* _save writes the whole document over the row, outside the lock.
Save(o, d) ==
    /\ doc' = [doc EXCEPT ![o] = d]
    /\ store' = [store EXCEPT ![o] = d]

WorkerAt(o, from, to) ==
    /\ worker[o] = from
    /\ worker' = [worker EXCEPT ![o] = to]
    /\ UNCHANGED <<cancelled, lock, call, manager>>

RunStart(o) ==
    /\ WorkerAt(o, "starting", "next")
    /\ Save(o, [doc[o] EXCEPT !.state = "running"])
    /\ UNCHANGED <<events, todo, attempt, cluster, orphans>>

\* currentStep is set and saved with attempt 0.
NextStep(o) ==
    /\ todo[o] # <<>>
    /\ WorkerAt(o, "next", "attempt")
    /\ attempt' = [attempt EXCEPT ![o] = 0]
    /\ Save(o, doc[o])
    /\ UNCHANGED <<events, todo, cluster, orphans>>

NoMoreSteps(o) ==
    /\ todo[o] = <<>>
    /\ WorkerAt(o, "next", "finally")
    /\ doc' = [doc EXCEPT ![o].state = "succeeded"]
    /\ UNCHANGED <<store, events, todo, attempt, cluster, orphans>>

\* Mutation: the attempt counter is not advanced.
StartAttemptUncounted(o) ==
    /\ WorkerAt(o, "attempt", "boundary")
    /\ Save(o, doc[o])
    /\ UNCHANGED <<events, todo, attempt, cluster, orphans>>

StartAttempt(o) ==
    /\ WorkerAt(o, "attempt", "boundary")
    /\ attempt' = [attempt EXCEPT ![o] = @ + 1]
    /\ Save(o, doc[o])
    /\ UNCHANGED <<events, todo, cluster, orphans>>

\* The exception handlers of _run.
Abort(o, from, state) ==
    /\ WorkerAt(o, from, "finally")
    /\ doc' = [doc EXCEPT ![o].state = state, ![o].recovery = TRUE]
    /\ UNCHANGED <<store, events, todo, attempt>>

\* _check_boundary and the adapter both observe cancellation and the deadline.
StepCancelled(o, from) ==
    /\ o \in cancelled
    /\ Abort(o, from, "cancelled")
    /\ UNCHANGED <<cluster, orphans>>

StepTimedOut(o, from) == Abort(o, from, "timed-out")

Passed(o, from, to) ==
    /\ o \notin cancelled
    /\ WorkerAt(o, from, to)
    /\ UNCHANGED <<store, events, doc, todo, attempt, cluster, orphans>>

\* The check before the adapter runs and the one before its verification.
Boundary(o) ==
    \/ Passed(o, "boundary", "executing")
    \/ Passed(o, "checking", "verifying")
    \/ \E from \in {"boundary", "checking"} :
          \/ StepCancelled(o, from)
          \/ StepTimedOut(o, from) /\ UNCHANGED <<cluster, orphans>>

\* What a step makes of its component: external, the charts under apps/.
Target(operation, c) ==
    CASE operation \in {"install", "upgrade"} -> "running"
      [] operation = "start"                  -> "running"
      [] operation = "configure"              -> cluster[c]
      [] operation = "stop"                   -> "stopped"
      [] OTHER                                -> "absent"

Possible(step) == step.operation = "stop" => cluster[step.component] # "absent"

Apply(step) ==
    cluster' = [cluster EXCEPT ![step.component] = Target(step.operation, step.component)]

\* A failed script may or may not have had its effect.
MaybeApply(step) ==
    \/ Possible(step) /\ Apply(step)
    \/ UNCHANGED cluster

\* _stop terminates the shell, not the helm or kubectl child it waits for: the
\* effect may also come later.
Interrupt(step) ==
    \/ MaybeApply(step) /\ UNCHANGED orphans
    \/ /\ OrphansPossible
       /\ orphans' = orphans \union {step}
       /\ UNCHANGED cluster

OrphanApplies(step) ==
    /\ step \in orphans
    /\ MaybeApply(step)
    /\ orphans' = orphans \ {step}
    /\ UNCHANGED <<store, events, doc, todo, worker, attempt, cancelled, lock, call,
                   manager>>

AdapterDone(o) ==
    LET step == Head(todo[o])
    IN  /\ WorkerAt(o, "executing", "checking")
        /\ Possible(step)
        /\ Apply(step)
        /\ UNCHANGED <<store, events, doc, todo, attempt, orphans>>

\* Mutation: one attempt too many.
AttemptFailedLate(o, from) ==
    \/ /\ attempt[o] <= MaxAttempts
       /\ WorkerAt(o, from, "attempt")
       /\ UNCHANGED <<store, events, doc, todo, attempt>>
    \/ /\ attempt[o] > MaxAttempts
       /\ Abort(o, from, "failed")

\* A failed attempt is followed by another one until the bound is reached.
AttemptFailed(o, from) ==
    \/ /\ attempt[o] < MaxAttempts
       /\ WorkerAt(o, from, "attempt")
       /\ UNCHANGED <<store, events, doc, todo, attempt>>
    \/ /\ attempt[o] = MaxAttempts
       /\ Abort(o, from, "failed")

AdapterFailed(o) ==
    /\ worker[o] = "executing"
    /\ AttemptFailed(o, "executing")
    /\ MaybeApply(Head(todo[o]))
    /\ UNCHANGED orphans

AdapterCancelled(o) ==
    /\ o \in cancelled
    /\ Abort(o, "executing", "cancelled")
    /\ Interrupt(Head(todo[o]))

AdapterTimedOut(o) ==
    /\ StepTimedOut(o, "executing")
    /\ Interrupt(Head(todo[o]))

\* The verify checks pass only on the state the step is meant to reach; a
\* cancellation may arrive while they run and go unnoticed.  The step-succeeded event is written before completedSteps is saved.
VerifyPassed(o) ==
    LET step == Head(todo[o])
    IN  /\ WorkerAt(o, "verifying", "succeeded-step")
        /\ cluster[step.component] = Target(step.operation, step.component)
        /\ events' = [events EXCEPT ![o] = @ \union {step}]
        /\ UNCHANGED <<store, doc, todo, attempt, cluster, orphans>>

VerifyFailed(o) ==
    /\ worker[o] = "verifying"
    /\ AttemptFailed(o, "verifying")
    /\ UNCHANGED <<cluster, orphans>>

\* The verifier, and the check between two verifications, look again.
VerifyBoundary(o) ==
    \/ StepCancelled(o, "verifying")
    \/ StepTimedOut(o, "verifying") /\ UNCHANGED <<cluster, orphans>>

StepSucceeded(o) ==
    /\ WorkerAt(o, "succeeded-step", "next")
    /\ todo' = [todo EXCEPT ![o] = Tail(@)]
    /\ Save(o, [doc[o] EXCEPT !.done = @ + 1])
    /\ UNCHANGED <<events, attempt, cluster, orphans>>

\* finally: the cancelled set forgets the operation, then the last save.
Discard(o) ==
    /\ worker[o] = "finally"
    /\ worker' = [worker EXCEPT ![o] = "saving"]
    /\ cancelled' = cancelled \ {o}
    /\ UNCHANGED <<store, events, doc, todo, attempt, lock, call, cluster, orphans,
                   manager>>

FinalSave(o) ==
    /\ WorkerAt(o, "saving", "exiting")
    /\ Save(o, doc[o])
    /\ UNCHANGED <<events, todo, attempt, cluster, orphans>>

\* _run_worker leaves the workers set under the lock.
WorkerExit(o) ==
    /\ lock = Nobody
    /\ WorkerAt(o, "exiting", "none")
    /\ UNCHANGED <<store, events, doc, todo, attempt, cluster, orphans>>

------------------------------------------------------------------------------
(* Crash of the manager process and OperationStore.__init__                *)

Crash ==
    /\ manager \in {"up", "opening"}
    /\ manager' = "down"
    /\ doc' = [o \in OpId |-> NoDocument]
    /\ todo' = [o \in OpId |-> <<>>]
    /\ worker' = [o \in OpId |-> "none"]
    /\ attempt' = [o \in OpId |-> 0]
    /\ cancelled' = {}
    /\ lock' = Nobody
    /\ call' = [t \in Caller |-> Idle]
    /\ orphans' = {} \* systemd kills what is left of the service
    /\ UNCHANGED <<store, events, cluster>>

\* One UPDATE marks every active row interrupted.
OpenStore ==
    /\ manager = "down"
    /\ manager' = "opening"
    /\ store' = [o \in OpId |-> IF store[o].state \in ActiveStates
                                  THEN [store[o] EXCEPT !.state = "interrupted"]
                                  ELSE store[o]]
    /\ UNCHANGED <<events, cluster, orphans, volatile>>

\* Every interrupted row without recovery evidence gets it, one at a time.
Unrecovered == {o \in OpId : store[o].state = "interrupted" /\ ~store[o].recovery}

SetInterruptedRecovery(o) ==
    /\ manager = "opening" /\ o \in Unrecovered
    /\ store' = [store EXCEPT ![o].recovery = TRUE]
    /\ UNCHANGED <<events, cluster, orphans, manager, volatile>>

\* Mutation: requests are served while rows are still being recovered.
ServeEarly ==
    /\ manager = "opening"
    /\ manager' = "up"
    /\ UNCHANGED <<store, events, cluster, orphans, volatile>>

Serve ==
    /\ manager = "opening" /\ Unrecovered = {}
    /\ manager' = "up"
    /\ UNCHANGED <<store, events, cluster, orphans, volatile>>

------------------------------------------------------------------------------
\* Only a free thread takes a request; said here too so that TLC does not
\* compute the plans of requests that nobody can take.
RequestThread(t) ==
    /\ manager = "up" /\ call[t].at = "idle"
    /\ \/ \E r \in Requests : \E s \in Plans(r) : Submit(t, r, s)
       \/ \E o \in OpId : /\ store[o].state \in RetryableStates
                         /\ \E s \in Plans(store[o].request) : Retry(t, o, s)
       \/ \E o \in OpId : CancelRead(t, o)

\* Once accepted, a request runs to its end.
Handling(t) ==
    \/ PrepareLocked(t)
    \/ Denied(t)
    \/ \E o \in OpId : Create(t, o)
    \/ \E s \in Step : RecordResumed(t, s)
    \/ ResumedAll(t)
    \/ SaveResumed(t)
    \/ Spawn(t)
    \/ CancelWrite(t)

WorkerThread(o) ==
    \/ RunStart(o)
    \/ NextStep(o)
    \/ NoMoreSteps(o)
    \/ StartAttempt(o)
    \/ Boundary(o)
    \/ AdapterDone(o)
    \/ AdapterFailed(o)
    \/ AdapterCancelled(o)
    \/ AdapterTimedOut(o)
    \/ VerifyPassed(o)
    \/ VerifyFailed(o)
    \/ VerifyBoundary(o)
    \/ StepSucceeded(o)
    \/ Discard(o)
    \/ FinalSave(o)
    \/ WorkerExit(o)

Reopen ==
    \/ OpenStore
    \/ \E o \in OpId : SetInterruptedRecovery(o)
    \/ Serve

Next ==
    \/ \E t \in Caller : RequestThread(t) \/ Handling(t)
    \/ \E o \in OpId : WorkerThread(o)
    \/ \E s \in orphans : OrphanApplies(s)
    \/ Crash
    \/ Reopen

Spec == Init /\ [][Next]_vars

\* Threads that can run do run: the operating system schedules them, an adapter
\* is killed at its deadline, and systemd restarts the manager.  Nobody has to
\* submit, retry or cancel, and nothing has to crash.
FairSpec ==
    /\ Spec
    /\ \A t \in Caller : WF_vars(Handling(t))
    /\ \A o \in OpId : WF_vars(WorkerThread(o))
    /\ WF_vars(Reopen)

------------------------------------------------------------------------------
(* Properties                                                              *)

\* The worker has not yet made its last save.
Live(o) == worker[o] \notin {"none", "exiting"}

\* Two operations at work at the same time never share a component, although
\* workers save outside the lock and cancel may write back a stale active row:
\* the conflict check of _prepare_steps and the lock are enough.
ExecutionExclusion ==
    \A o, p \in OpId :
        (o # p /\ Live(o) /\ Live(p)) =>
            doc[o].components \intersect doc[p].components = {}

\* An operation recorded as succeeded has verified, or resumed on the evidence
\* of an earlier verification, every step of its plan, and its step counter says
\* so: no crash, retry or cancellation in between loses or double-counts a step.
SucceededIsVerified ==
    \A o \in OpId :
        store[o].state = "succeeded" =>
            /\ store[o].done = store[o].total
            /\ \A s \in Plans(store[o].request) :
                  StepSet(s) \subseteq events[o] /\ store[o].total = Len(s)

\* A step that changes a component on top of others.
DependenciesHold(step) ==
    /\ step.operation \in StartOperations =>
          \A d \in TransitiveDependencies(step.component) : cluster[d] = "running"
    /\ step.operation \in StopOperations =>
          \A d \in Consumers(step.component) : cluster[d] # "running"

\* While an adapter runs a step of an operation that executes its whole plan,
\* every dependency of the component runs (start-like steps) or no consumer of
\* it runs (stop-like steps), whatever other operations did before.
FreshStepsRespectDependencies ==
    \A o \in OpId :
        (worker[o] = "executing" /\ (doc[o].retry => doc[o].request.flow = "plain")) =>
            DependenciesHold(Head(todo[o]))

\* Once the manager serves requests, an operation that ended without success
\* says that recovery is required, one that succeeded says it is not; a crash
\* half-way through the recovery of the rows loses nothing.
RecoveryReported ==
    manager = "up" =>
        \A o \in OpId : store[o].state \in TerminalStates =>
            (store[o].recovery <=> store[o].state # "succeeded")

\* An operation whose worker runs reaches its last save (or the process dies):
\* attempts are bounded and nothing waits for a lock before it.
OperationSettles ==
    \A o \in OpId : Live(o) ~> ~Live(o)
==============================================================================
