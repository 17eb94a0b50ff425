# A verification project for the Fortify lab manager

These TLA+ modules model the parts of this repository whose mistakes are hard
to test: the workflows of the Manager, which threads, crashes and failing
helpers interleave, and the supervisor, whose two processes share one database
and one policy file.  TLC checks them on small instances; TLAPS proves
every safety property that the runs check for every instance, one of them under
two restrictions (section 2.4).

| section | module | models | run | proofs |
|---|---|---|---|---|
| 2 | `LifecyclePlan`, `OperationEngine` | planning rules, engine, store, adapter outcomes | `engine`, `engine_settles` | `OperationEngineProofs` |
| 3 | `DependencyOrder` | `ComponentRegistry.dependency_order` | `dependency_order` | `DependencyOrderProofs` |
| 4 | `Authorization` | approvals and their use | `authorization` | `AuthorizationProofs` |
| 4 | `SingleUseApproval` | what an approval promises (abstract) | refined by `Authorization` and `RemoteActions` | `Refinement` in both |
| 5 | `BackupRestore` | backups, restores, their artifacts | `backup_restore` | `BackupRestoreProofs` |
| 6 | `ProfileUpgrade` | upgrade plans, upgrades, recovery | `profile_upgrade` | `ProfileUpgradeProofs` |
| 7 | `SecretWorkflow` | replacement of secrets | `secret_workflow` | `SecretWorkflowProofs` |
| 8 | `SupervisorQueue` | the delivery queue of the supervisor | `supervisor_queue` | `SupervisorProofs` |
| 9 | `SupervisorControl` | autonomy policy, leases, confirmations | `supervisor_control`, `supervisor_hold` | `SupervisorProofs` |
| 10 | `RunnerHeartbeat`, `IssueRun` | evidence of a run, notices and digests about it | `issue_run` | `SupervisorProofs` |
| 11 | `RemoteActions` | plans and recovery as buttons of a private chat | `remote_actions` | `RemoteActionsProofs` |

A module `MC<name>` gives the constants of `<name>` their values for TLC; the
`.cfg` file of a run names its properties.  Definitions marked *Mutation*, and
those that `PROJECT.json` lists under `mutants`, are plausible mistakes in the
code; each makes the property it is written for fail, which shows that the
property can fail.  They take no part in any specification.

Every module states the types of its variables as `TypeOK`.  It is proved for
all of them (`TypeCorrectness`), where it is part of the inductive invariant; the
runs check it in sections 2 and 4.

Each proof module states an inductive invariant, `IInv`, proves it
(`Invariance`) and derives its theorems from it.  `SupervisorProofs` extends the
three modules of the supervisor, which share no name: the specification of
section 9 is `ControlSpec` and its invariant `ControlInv`, those of section 10
are `WatchSpec` and `WatchInv`, and their other standard names have the same
prefixes (`ControlTypeOK`, `WatchTypeOK`, ...).  Every invariant was checked
with TLC on the instance of the module's run before it was proved.  The
assumptions on constants are the named `ASSUME`s of the modules: sizes that the
code takes as positive, the form of the registry, that the runs of an issue are
finitely many, and that the value for "no row" (`Absent`, `None`, `Nothing`) is
not a row.

## 1. The system

The repository runs a Fortify lab on one MicroK8s host.  Two programs hold its
logic.

- **The Manager** (`manager/`, started by `scripts/fortify-manager`) is an HTTP
  service with one thread per request (`manager/server.py`, `ThreadingMixIn`).
  It plans and executes lifecycle operations on the components of
  `registry/components.json`, reports health and runs a few guarded workflows,
  each with a SQLite table of its own.
- **The supervisor** (`supervisor/`) drives issues through a delivery queue
  with Telegram commands.  Two processes share one SQLite file: `monitor-once`,
  run by a systemd timer, and the `telegram-loop` listener.  The runs of issues
  (`scripts/fortify-issue-runner.sh`) leave their evidence in files.

| Component | State | Operations | Hard behaviour | Modelled |
|---|---|---|---|---|
| Operation engine and store (`manager/operation_engine.py`) | `lifecycle_operations`, `lifecycle_events`; worker threads, `_cancelled`, `_lock` | submit, clean install, lab action, retry, cancel; the worker's steps; recovery at start | request threads against workers that save outside the lock; crash at any point; retries; timeouts | yes |
| Lifecycle adapter (`manager/microk8s_lifecycle.py`) | one child process per step | execute, stop, verify | an effect that comes after the step was given up | its outcomes |
| Component registry (`manager/component_registry.py`) | immutable after loading | `dependency_order` (Kahn's algorithm over unordered sets) | every order must respect the dependencies; cycles must be refused | yes |
| Authorization (`manager/authorization.py`) | `approvals`, audit records | request, approve, revoke, authorize (consume) | read-then-compare-and-set; expiry; one-time consumption | yes |
| Backup and restore (`manager/backup_restore.py`) | operations, artifacts | submit, back up, restore, cancel | unlocked saves, failing helper, restart under another profile | yes |
| Profile upgrade (`manager/profile_upgrade.py`) | plans, operations | plan, submit, upgrade, roll back, cancel | partial failure, crash, two requests for one plan | yes |
| Secret workflow (`manager/secret_workflow.py`) | operations; material in an external store | approve, replace, restart consumers, roll back, cancel | partial failure, approval consumed before the claim | yes |
| Remote actions and the private chat (`manager/remote_actions.py`, `telegram_observer.py`) | plans, callbacks | offer, press, approve, reject, recover | second presses, outages, crash while executing | yes |
| Runner heartbeat (`manager/runner_heartbeat.py`) | one record per issue | start, update, end, clean up | late writers, clean-up at the limit | yes |
| Supervisor (`supervisor/fortify_supervisor.py`) | settings, events, notifications, approvals, tokens | monitor, claim, merge, complete, roll over, notify, command | two processes, each statement its own commit; crash anywhere; lost and repeated messages | the queue, the control commands, the notices of a run |
| Autonomy policy (`supervisor/autonomy_policy.py`) | the policy file | load, validate, replace, expire | lease expiry against use; two writers | yes |
| Issue runner (`scripts/fortify-issue-runner.sh`) | worktree, branch, record | run an issue | dies and is run again | its heartbeats |
| Web operations and server (`manager/web_operations.py`, `server.py`) | sessions | HTTP routes onto the above | concurrent requests | the calls it makes |
| Record store (`manager/record_store.py`) | history and quarantine tables | append with retention, read with quarantine, migrate | several processes, transactions | no |
| Configuration migration (`manager/config_migration.py`) | configuration file and backups | migrate, roll back | crash between two writes | no |
| Health, availability, observers (`manager/health.py`, `availability.py`, ...) | last results | probe, aggregate | stale evidence | no |

How they interact: requests of the web server and presses of buttons become
calls on the engine and the other workflows; the engine, the secret workflow and
remote actions consume approvals; the engine and the upgrades order components
with the registry; the supervisor reads the records of the runs it starts and
obeys the autonomy policy.  `PROJECT.json` lists every part with its status and,
under `hazards`, what is hard to test in it.

## 2. The operation engine

### 2.1 Modules

`LifecyclePlan` gives the pure planning rules: the dependency closure, the
orders in which steps may run, the consumers that a stop must include, the
scope of a suspension, and which plans a request may get (`Plans`; the empty
set is a refused request).  `dependency_order` iterates over Python sets, so a
plan is any order that respects the dependencies.

`OperationEngine` models the engine.  Its state:

| variable | code |
|---|---|
| `store`, `events` | the two SQLite tables (each statement its own commit) |
| `doc`, `todo`, `attempt`, `worker` | the worker thread of an operation: the document object it mutates, its remaining steps, the attempt number, the point in `_run` / `_execute_step` where it stands |
| `cancelled`, `lock` | `_cancelled`, `_lock` |
| `call` | the request thread: which statement of `submit_*_async`, `retry_async` or `cancel` comes next, and what it has read |
| `cluster`, `orphans` | external: what the component scripts did to the lab |
| `manager` | the process: up, down, or inside `OperationStore.__init__` |

A thread gives way between two statements that touch shared state.  `cancel`
is split between its read of the row and its write, because the worker's saves
take no lock.  Creating a row, marking it resumed and starting the worker are
three steps, because the process may die in between.  Restart recovery is one
`UPDATE` followed by one write per interrupted row.

An adapter run has four outcomes: it takes effect and succeeds, it fails with
or without its effect, it is cancelled, or it times out.  With
`OrphansPossible` a terminated script may leave a child whose effect comes later
(`_stop` terminates the shell only).

The synchronous `submit` and `retry`, which only the tests call, run the
worker's code on the caller's thread and add no behaviour of their own.

### 2.2 Properties and runs

`engine` (2 callers, 2 operations, a clean install and the suspension of a
chain of 2 components, 1 attempt) checks

- `RecoveryReported`: every terminal row that is served says correctly whether
  recovery is required;
- `ExecutionExclusion`: two operations at work share no component;
- `SucceededIsVerified`: success means every step was verified, or resumed once;
- `FreshStepsRespectDependencies`: no step changes a component whose
  dependencies are down or whose consumers are up.

`engine_settles` (2 callers, 1 operation, 2 attempts, late effects of terminated
scripts) checks `OperationSettles`, liveness.

Two components, one above the other, are the smallest registry with a
dependency, a consumer and a plan of two steps; two operations are enough for a
conflict and for a retry.  Crashes, cancellations and timeouts are unbounded:
they may happen in every state.

Fairness (`FairSpec`): threads that can run do run, the adapter is killed at its
deadline and systemd restarts the Manager.  Nobody has to submit, retry or
cancel, and nothing has to crash.

### 2.3 Where the code departs from its documentation

The model shows these behaviours; they are consequences of the code and no
property forbids them.

- The footprint check of a clean install is not repeated under the lock: what
  an operation that ends in between installs is adopted (`docs/api.md:120`).
- A lab row is durable before its `labAction`: a crash in between leaves an
  operation that cannot be retried (`docs/operations/lifecycle-engine.md:66-68`).
- `cancel` may replace a final state by `cancelling`, until the next restart
  (`docs/operations/lifecycle-engine.md:95`).
- A lab retry resumes on evidence that a later operation has made stale
  (`docs/operations/lifecycle-engine.md:46-51`).
- A terminated action may still take effect, since `_stop` terminates the shell
  only.

### 2.4 Proofs

`OperationEngineProofs` proves, for every registry, request set, attempt bound
and number of callers and operations, from `RegistryAssumption` and
`EngineAssumption` only:

- `TypeCorrectness`: `Spec => []TypeOK`
- `Exclusion`: `Spec => []ExecutionExclusion`
- `RecoveryIsReported`: `Spec => []RecoveryReported`
- `SuccessIsVerified`: `Spec => []SucceededIsVerified`

and, where no component declares `configure` (`NoConfigure`) and a terminated
script leaves no child at work (`~OrphansPossible`),

- `DependenciesRespected`: `Spec => []FreshStepsRespectDependencies`

None of them is inductive.  The invariant `IInv` adds:

- *types*: a worker inside a step has a step to run and attempts left;
- *ownership*: an operation whose worker has not saved for the last time, or
  whose request thread has not yet started the worker, has one owner; its row
  is active and lists the components of the owner's document;
- *exclusion*: the components of active rows are disjoint; the steps a caller
  creates under the lock conflict with no row; the row that `cancel` has read,
  and will write back, overlaps no other active row, because the
  caller holds the lock and no row can be created meanwhile;
- *recovery*: a terminal row says correctly whether recovery is required,
  unless it is an interrupted one and the manager is not yet up;
- *evidence*: every step of a plan is in one of three places: verified in the
  events of the operation, still to be done by its worker, or skipped by a retry
  that has not yet recorded it as resumed; the steps done and those left add up
  to the plan.  When nothing is left, everything is in the events.

The exclusion argument shows why the unlocked saves of the workers and the
stale write of `cancel` are harmless for exclusion, though not for the state
the row shows.  Frame lemmas (`RequestThreadFrame`, `HandlingFrame`,
`WorkerThreadFrame`, `EnvironmentFrame`) say once what each actor may change;
every group of the invariant is then preserved actor by actor.

A retry plans anew and may list the steps in another order than the operation
it retries, so both proofs rest on lemmas about the planning rules themselves:
all plans of a request list the same steps, each of them once (`PlansAgree`), and
a plan stops before it starts and has, before each step, a step of its kind on
every component that the step needs (`PlansAreSafe`).

`DependenciesRespected` uses a second invariant, `DependencyInv`, relative to
`IInv`: what a step left to do needs is in force in the lab, or an earlier step
left to do supplies it.  It holds because a step is done only after the adapter
verified it, and because nobody else may touch the components of an active
operation.  It concerns operations that run their whole plan; a resumed one
relies on evidence that may be stale (section 2.3).  Both hypotheses are needed:

- a `configure` step is verified whatever it finds, so it supplies nothing to
  the steps after it.  `src/registry/components.json` declares `install`,
  `start`, `stop`, `scale`, `delete-data` and `uninstall` only;
- the late effect of a terminated script can undo what a later operation has
  verified.  The run `engine` has the same restriction; `engine_settles` lifts it.

Outside the prover's reach and only model-checked: liveness.

## 3. The dependency order

`ComponentRegistry.dependency_order` decides in which order components are
installed, stopped and verified, for the engine, profile upgrades and health.
It is Kahn's algorithm over Python sets, whose iteration order changes with the
hash seed of the process: a test sees one order, the Manager may see another
after each restart.  `registry_validation` calls the same method on documents
that may be cyclic or incomplete.

`DependencyOrder` models it loop by loop: `Include` visits one component of the
recursion (or ends with a gap, the `RegistryError` of an unknown id),
`StartSort` fills the counters and the queue, `Pop` takes the head of the
queue, `Release` decrements one consumer of it, `Finish` returns the order or
reports the cycle.  Every loop over a set takes its next element freely.

The run `dependency_order` starts from every registry of three components and
every registry of two of them that may depend on the missing third, with every
selection, and checks

- `DependenciesFirst`: no component is listed before one it depends on;
- `CycleExact`: the method raises for exactly the cyclic closures;
- `ResultIsPlanned`: the result is one of the orders that `LifecyclePlan` lets
  the engine plan with, which ties this module to section 2.

Three ids give cycles of one, two and three components, components with two
dependencies or two consumers, chains, and a gap beside a complete part.

`DependencyOrderProofs` proves for every finite set of ids and every set of
documents `TypeCorrectness`, `DependenciesComeFirst`, `CyclesAreExact` and
`ResultsArePlanned` (`ResultIsPlanned`).  The
invariant says what the counters mean in the middle of the loops: `indegree[c]`
is the number of dependencies of `c` that are not ordered yet, plus one if `c`
still waits to be released by the component popped last; the queue and the
result together hold, once each, exactly the components whose counter is zero.
When the queue is empty, a component that is not in the result therefore has a
dependency that is not either: those components are the cycle that is reported.
Conversely, of a cyclic set whose components were all listed, the one listed
first would have a dependency listed before it; the least position exists
because the naturals are well-founded.
`ResultsArePlanned` adds what the recursion of `include` has collected: the
components that the loops sort are closed under dependencies and lie in every
closed set that holds the selection, so they are the least such set, which is how
`LifecyclePlan` defines the closure (`ClosureIsLeast`); and no component of the
result depends, directly or not, on a later one (`LaterIsNoDependency`), which is its condition on
an order.

## 4. Authorization

### 4.1 The module

An approval is bound to a plan, an actor, a session, a channel and the state of
the targets (`planDigest`).  It is requested, then approved or revoked, then
consumed by the operation that uses it.  `ApprovalStore` locks single
statements, not calls, so calls of several threads interleave:

| step of `call[t].at` | code |
|---|---|
| `read` | `ApprovalStore.approval` |
| `observe` | the `state_provider` of `authorize` |
| `check` | `_decision_reason`, `_consumption_reason`, the owner check of `revoke` |
| `swap` | `ApprovalStore.transition`, `UPDATE ... WHERE state = expected` |
| `audit` | the entry of an accepted call |
| `create` | the row that `_prepare_steps` stores once `authorize` has returned |
| `raised` | the error on its way to the caller |

The engine calls `authorize` under its own lock but `secret_workflow` does not,
and approve and revoke never hold it: no lock is assumed.  `Drift` changes the
targets, `Tick` is the clock, `Crash` loses all calls and keeps the tables.

The table of denials is not kept (it would only grow); each refused call
remembers whether it was `recorded`.  `decision` is a history variable that
remembers who approved; the code keeps that in the audit history only.  `Plan`
stands for an operation with its ordered targets, `Risk` for `RISK_BY_OPERATION`.

### 4.2 Properties and runs

`authorization` (2 threads, 1 approval, one operator in two web sessions and on
Telegram and a second person, a high-risk and a routine plan, two states of the
targets, a clock of two values) checks

- `SingleUse`: the approvals implement `SingleUseApproval`: one decision and one
  consumption win, and a consumed approval starts at most one operation;
- `LedgerCoherent`: the time stamps of a row tell the story of its state, so no
  writer loses what another wrote since it read;
- `StartedAsApproved`: an operation has the plan, actor, session, channel and
  observed target state that were bound at the request, and was approved with
  confirmation from a trusted channel if its risk is high;
- `OperationsAudited`: the consumption is on record before the operation exists.

Two threads are enough for every race, since each is decided by one
compare-and-set between a reader and a writer; one approval is enough since
calls touch no other.  Each identity differs from the first in one thing that
`authorize` compares: the channel, the session or the actor.  A clock of two
values with a life time of one gives approvals that are valid, that expire
between two statements, and logins that are too old.

`docs/operations/authorization.md:58` says that denials are appended to the
audit history.  `revoke` raises without an entry when it comes too late or loses
a race, and so does every call for an approval that does not exist.

A crash after the consumption leaves an approval that is spent and has no
operation.  This is what `SingleUseApproval` allows (at most one operation):
the operator has to ask again.

### 4.3 Proofs

`AuthorizationProofs` proves, for every number of threads, approvals,
identities, plans and states, from `AuthorizationAssumption` only:
`TypeCorrectness`, `CoherentLedger`, `StartsAsApproved`, `AuditComesFirst` and
`Refinement` (`Spec => SingleUse`).  The invariant follows one approval through
the calls:

- what a call has read differs from the row at most in state and stamps: the
  terms of an approval never change (`Terms`, `DocOK`);
- a call about to swap has passed its check for what it has read (`SwapOK`),
  and the swap succeeds only on a row in that state;
- a call that consumed an approval and has not yet created its operation is its
  only holder (`SingleHolder`), and the approval has no operation (`HolderOK`);
- a consumed row carries its decision, and no action changes it (`RowOK`).

`OtherCalls` and `LocalStep` are the frame lemmas: a step of one call disturbs
the invariant of the others only through the row it swaps.

## 5. Backup and restore

`BackupRestore` models `manager/backup_restore.py`: a row and a worker thread for
each operation, artifacts that a backup seals and a restore reads, and a helper
process whose call for a scope may fail, be late or answer without a checksum
with its work done or not.  `cancel` reads a row, marks the operation and writes
the row back in three steps; the saves of the worker take no lock.  A restart
interrupts active rows and may bring another profile.

`backup_restore` (2 operations, 1 artifact, 1 request thread, 2 profiles, 2
scopes) checks

- `RestorableIsWhole`: the helper has stored every scope of a complete artifact;
- `RestoresPassTheGate`: nothing is restored from an incomplete artifact or from
  one of another profile;
- `SuccessIsEarned`: an operation recorded as succeeded did all of its work;
- `Settles`: an operation that nobody cancels reaches a final state.

A backup and its restore need two operations; two scopes make the first differ
from the last.  Fairness: worker threads run and the helper's calls return or
time out (each has a deadline).  A cancelled operation is excluded from
`Settles` because the row written back may be older than the worker's last one.
Nothing keeps a backup and a restore of the same scopes apart.

`BackupRestoreProofs` proves, for every number of operations, artifacts, request
threads, profiles and scopes, `TypeCorrectness`, `WholeArtifacts`
(`RestorableIsWhole`), `GatedRestores` (`RestoresPassTheGate`) and
`EarnedSuccess` (`SuccessIsEarned`).  The invariant follows one operation:

- its row, the document of its worker and what a cancellation has read agree on
  what is to be done, differing in state and count only (`Terms`);
- the artifact of a backup under way is incomplete and nobody else's
  (`OwnArtifacts`), so a complete artifact never changes;
- the scopes that a worker has counted are in the vault, or were applied
  (`WorkerOK`), so the count is what makes success earned;
- what a cancellation has read is not terminal, so the row that it writes back
  can claim no success.

## 6. Profile upgrade

`ProfileUpgrade` models `manager/profile_upgrade.py`.  A plan is bound to the
evidence it was made from and is consumed by the request that submits it
(`SubmitCheck`, `SubmitConsume`, `SubmitPut` are three statements).  The worker
takes the changed components in order, saves, calls the adapter, verifies, and
after a failure recovers: it rolls back in reverse order, or leaves everything
alone when a step that may have begun cannot be reversed.  Start-up is an
`UPDATE` and then a write per interrupted row, with crashes in between.

`profile_upgrade` (3 components, 2 target profiles, one of which can be reversed
and one contains a migration, 1 plan, 2 requests, 2 pieces of evidence) checks

- `NoHiddenChange`: an upgrade that did not succeed and asks for no recovery has
  left no component changed;
- `PlanExecutedOnce`: a plan becomes one upgrade, however many requests race;
- `BlockedIsLeftAlone`: nothing is rolled back once a component that may have
  changed needs a restore or is irreversible;
- `RollbackReversesOrder`.

Three components let a step succeed before the one that fails, with one after
it.  There is no liveness property: an adapter or a verification may take until
its deadline, and `cancel` can overwrite the final row as in section 2.

`docs/operations/rollback-recovery.md:22` says that only `reversible` steps are
eligible for automatic roll back.  The code also rolls back
`compensating-action` steps.  Two plans made from the same evidence may both be
submitted; the code does not keep their upgrades apart.

`ProfileUpgradeProofs` proves, for every registry, set of targets and number of
plans, upgrades and requests, `TypeCorrectness`, `RecoveryIsHonest`
(`NoHiddenChange`), `SingleExecution` (`PlanExecutedOnce`), `BlockedStays`
(`BlockedIsLeftAlone`) and `ReverseOrder` (`RollbackReversesOrder`).  The
invariant says that

- what an upgrade has changed is in its list `mutated`, or is the component whose
  adapter it is calling when it fails (`Suspected`);
- the row has no terminal state before its worker has ended, so a restart finds
  it and asks for its review;
- a row that a stale cancellation writes after the end is active again: it claims
  nothing until the next restart asks for its review;
- a request that has consumed a plan is the only one that has it, and no row
  names the plan yet.

The last component of `mutated` exists because the naturals are well-founded
(`MaxComponent`).

## 7. Secret workflow

`SecretWorkflow` models `manager/secret_workflow.py`.  A replacement runs in its
request thread: it consumes its approval, claims the target, replaces the
material, restarts and checks the consumers one by one, and rolls back when one
of them fails, the deadline passes or the update is cancelled.  Material, stores
and approvals are external; `loaded` remembers what each consumer runs with.

`secret_workflow` (2 targets that share a consumer, 2 updates, 2 approvals)
checks

- `OneUpdatePerTarget`: updates of a target never overlap;
- `SucceededIsLoaded`: the newest successful update is in force and every
  consumer was restarted with it;
- `RollbackUndoesOwnWork`: a roll back never undoes a later update;
- `Settles`: an active update ends, also across restarts.

Fairness: a request thread that can run does run; adapter calls return or fail.

`docs/operations/write-only-secrets.md:69-70` says that an update which fails
after its replacement reports `recovery-required` when no revision was retained;
the code reports `failed`.
Several registry entries name the same Kubernetes Secret and are looked up by
component and id; their updates may overlap, which the model does not show since
it keeps the material of each target apart.

`SecretWorkflowProofs` proves, for every number of targets, consumers, approvals
and threads, `TypeCorrectness`, `ExclusiveUpdates` (`OneUpdatePerTarget`),
`SuccessIsInForce` (`SucceededIsLoaded`) and `OwnRollback`
(`RollbackUndoesOwnWork`).  The invariant rests on one fact: an active row is the
newest of its target.  A thread past its claim has an active row, so nobody else
writes the material of its target, and whoever restarts a shared consumer in the
meantime restarts it with that material; that is why the first `restarted`
consumers still run with it (`Loads`).

## 8. The supervisor's queue

`SupervisorQueue` models the SDLC loop of `supervisor/fortify_supervisor.py`.
Monitor and listener are two processes with a program counter each; a step is
one transaction or one request to GitHub, and either process may die, or get an
error that ends its command, between any two steps (`Abandon`).

| actions | code |
|---|---|
| `MonitorStart` ... `Offered` | a pass of the monitor: discover the pull request, track it, look at its checks, offer or use an approval |
| `Approve`, `Reverify`, `Merge` | an approved merge, verified again before it is made |
| `Completed` ... `Return` | completion: close the issue, free the slot, record it |
| `Queue` ... `Spawn` | selection of the next issue: claim in one transaction, start a runner |
| `OfferRollover` ... `Advance` | the next milestone |
| `ApproveCommand` ... `Switch`, `Press`, `Stay` | commands and buttons of the operator |
| `Expire`, `PullChanges`, `MilestoneCloses` | external |

`supervisor_queue` (2 issues in 2 milestones, 2 heads of a pull request, 2
approvals, 2 policies) checks

- `StartedOnce`: an issue is started at most once;
- `MergedAsApproved`: only the head that its approval names, with its checks
  passed, is merged;
- `CompletionIsWhole`: a completion that is recorded was made in full;
- `AdvancesWhenDone`: a milestone is left only for the next one, when it is done
  and work is not held.

One issue per milestone makes every completion meet the rollover; a second head
is enough for a stale approval; each of the two policies makes automatic what
the other asks approval for.  The policy does not change within a behaviour:
its changes are section 9.

Behaviours of the code that the model shows and no property forbids:

- a pause that arrives after the check at line 2868 does not keep an issue from
  being claimed, against "A paused supervisor never performs this idle-to-queued
  transition"
  (`docs/operations/sdlc-supervisor.md:432`);
- the slot is read in one transaction and freed in the next (2312-2315): of two
  processes that complete one pull request the slower may free the slot of the
  next issue;
- a pull request found open may be tracked after the other process completed it
  (2432); it is then never untracked and no issue is selected;
- a button does not ask whether the policy has become `disabled`, as `/approve`
  and `/advance` do.

`SupervisorProofs` proves, for every number of issues, milestones, heads and
approvals and every policy, `TypeCorrectness`, `SingleStart` (`StartedOnce`),
`ApprovedMerges` (`MergedAsApproved`), `WholeCompletion` (`CompletionIsWhole`)
and `DoneMilestones` (`AdvancesWhenDone`).  What a process has read is old when
it acts, so `ProcOK` says, for each point of a process, which part of it cannot
have changed; `Kept` says what every step of anybody keeps:

- heads only grow and a merged pull request stays as it is, so a head that was
  verified and that GitHub still accepts has passed (`Ready`);
- the terms of an approval never change, only its state;
- closed issues and milestones stay closed, so what the rollover verified still
  holds when it is made, although the milestone may not;
- the slot only ever gets an issue that was not selected before, and a merged
  pull request belongs to one that was: it cannot come back to the slot between
  the step that frees it and the step that records the completion.

`ProcFrame` and `StoreFrame` derive from `Kept` that a step of one process keeps
what the other relies on; `ProcessStep` and its special cases `LocalStep`,
`SettingsStep` and `ApprovalsStep` then leave of each action what it does itself.
Only `claim_issue` leads to the start of a runner, and of two processes that
start one, no two start one issue (`Apart`).

## 9. Control of the supervisor

`SupervisorControl` models the autonomy policy and the private channel that
changes it.  The policy is a file with a generation.  Each process adopts it
(`Load`), writes the next generation when it finds a lease expired (`Revert`),
attests what it adopted (`Attest`) and acts only while the attestations agree
(`Check`).  The listener fetches an update, handles it and stores the offset
afterwards, so an update may be handled twice.

`supervisor_control` (one request for a lease and one for its end, generations
up to 3, a clock of 2 values, 1 update under way, 1 fault) checks

- `ConfirmedOnce`: a confirmed change is applied once;
- `AnsweredChangeRules`: an unattended merge is verified only under a lease that
  is running, and only under the change that the operator was told of last or one
  confirmed since (`ruling`);
- `LeaseEnds`: a lease that ended is replaced, unless the file cannot be written.

Fairness: the monitor's timer and the listener's loop keep running.

`supervisor_hold` ends in a counterexample.  The reversion of a lease by the
monitor and a confirmed change by the listener both write generation n+1 without
comparing it with the file; the listener then finds a mismatch before every
fetch and `/hold` is never handled, although
`docs/operations/sdlc-supervisor.md:300-302` says that it takes effect
immediately even when lease or attestations are invalid.  The same race lets a
reversion overwrite a confirmed change to the manual profile.

`SupervisorProofs` proves, for every number of tokens and every bound on
generations, time, updates and faults, `ControlTypeCorrectness`,
`SingleConfirmation` (`ConfirmedOnce`) and `AnsweredRules`
(`AnsweredChangeRules`).  The invariant `ControlInv` says that

- a token that was applied, or that the listener has consumed and may still
  apply, is never usable again (`TokensOK`);
- autonomy is always a lease, on file, in a token and in what a process adopted
  (`LeaseOK`);
- only the listener writes a lease, so one on file is what the listener adopted,
  and it is `ruling` (`GrantOK`);
- while a pass of the monitor goes on under a lease, the lease is on file, or
  file and listener are past it; then it is still `ruling`, or the listener has
  attested what replaced it (`PassUnderLease`).

The last one is why a stale pass is harmless: the listener reloads and attests
between a change and its answer, and `Consistent`, tried last before a merge,
compares the attestations.  The proof showed that this depends on
the reload after the change (`fortify_supervisor.py:1698`): unlike the reload
before the token is consumed, it fails when a lease has ended and the file cannot
be written.  `RecoveryAllowed` makes this distinction.

Abstractions: attestations do not age (they do in section 10); the audit and the
reversion in the constructor are those of a reload; two reloads before a token
is consumed are one; `/continue` and `/approve-once` belong to section 8.

## 10. Runs of issues

`RunnerHeartbeat` models the record that a run leaves: start with the next
generation, phases, the ticker's activity, the terminal phase, adoption of the
policy, and the clean-up by runs of other issues, which removes a record older
than the newest ones.  It does not rely on `runner.lock`.  `IssueRun` extends it
with the monitor's passes: `monitor_runner`, `notify_once` and `deliver_digest`.

`issue_run` has three scenarios: three runs of one issue without a monitor, one
fault and one change of the policy; two runs that are watched, without faults;
one run that is watched by a monitor that defers routine notices, with one fault
and one change of the policy.  Two ordinary phases, two records kept and one row
per digest are the smallest values at which each limit is met.  It checks

- `EvidenceIsCurrent`: the record is what the last run to start reported;
- `TerminalIsFinal`: no late report revives a terminal record;
- `DeliveredOnce`: a delivered notice was shown, and again only after a fault;
- `DigestArrives`: a deferred notice is delivered in the end.

Fairness: passes go on, attestations age and days pass.

`SupervisorProofs` proves, for every finite set of runs, every number of phases
and records kept, every digest limit and every set of scenarios,
`WatchTypeCorrectness`, `CurrentEvidence` (`EvidenceIsCurrent`), `FinalTerminals`
(`TerminalIsFinal`) and `SingleDelivery` (`DeliveredOnce`).  The invariant
`WatchInv` says that

- the record is that of the last run to start, with the generation and phase this
  run believes in, and a generation is at most the number of runs started so far,
  since a clean-up makes it start again at 1 (`RecordOK`);
- a notice was sent at most once more than there were faults, and without the
  one more as long as it is neither marked as delivered nor between its send and
  its mark (`SentOK`); a pass never sends what is marked.

A digest marks its rows one by one, so `InFlight` holds of those left to mark.

Behaviours of the code that the model shows and no property forbids:

- the record's age is never classified on the monitor's path, so the stalled and
  recovered notices of `docs/operations/sdlc-supervisor.md:189-192` cannot be
  raised (`fortify_supervisor.py:2696-2722`);
- a started or failed notice whose delivery failed stays pending and is not sent
  again by a later pass, against the retry that the same document promises (line 197);
- a crash between a send and its mark shows the notice twice;
- after a clean-up the generation starts again at 1, and a start that has the
  fingerprint of an earlier one is not announced;
- a run that has failed before it is first seen gets no failure notice;
- fresh evidence of a dead runner with an old policy blocks passes until it is
  too old to count.

## 11. Remote actions

`RemoteActions` models `manager/remote_actions.py` with the dispatch of
`telegram_observer.py`: plans offered with an Approve and a Reject button,
recovery buttons (acknowledge, retry, cancel, pause), and threads that press
them.  A press takes the callback from `pending` to `executing` by
compare-and-set; what it does then may succeed, be refused, meet an outage or
break; the `finally` clause releases or spends the callback.

The module composes with sections 2 and 4: an approval moves as
`SingleUseApproval` says, each call of the authorization service in one step,
which is what `Authorization` is proved to implement; of the engine it has the
lock, the conflict of operations and the outcome of the worker.

`remote_actions` (2 handler threads, 3 callbacks, 1 plan, 2 operations, 2
identities, 2 states of the components, a clock of 2 values) has three scenarios:
a plan with a fault, drift and another client; retry and cancel with a fault; a
plan beside acknowledge and pause.  It checks

- `PendingIsUnused`: a button that can be pressed has started nothing, and a plan
  whose Approve button is live is not spent;
- `AnswersAgree`: Approve and Reject of one plan are never both answered with
  success;
- `SingleUse`: the approvals implement `SingleUseApproval`, whatever is pressed.

An idle service waits for a press, and the clock is bounded: the run does not
look for deadlocks.

`RemoteActionsProofs` proves, for every number of buttons, plans, operations and
threads, `TypeCorrectness`, `ReleasedIsUnused` (`PendingIsUnused`),
`ConsistentAnswers` (`AnswersAgree`) and `Refinement` (`Spec => SingleUse`).  A
plan has one Approve button (`OneButton`) and a button that executes has one
thread (`OneThread`), so the approval of a plan is consumed by that thread alone.
From then on the thread can end in a way that spends the button only: the
outcomes that release it come before the consumption (`Releases`).  The step from
the consumption to the operation maps to the one use that `SingleUseApproval`
allows, because the thread that holds a consumed approval has not used it.

Behaviours of the code that the model shows and no property forbids:

- with the engine of section 2 an outage of its state provider is an
  `OperationError`, which spends the button; only an unreachable port returns it
  to pending as `docs/operations/telegram-observability.md:112-114` says;
- the same text says that approval state remains unchanged by an outage, but
  `approve` has moved the approval to `approved` by then;
- a conflict with another operation spends the Approve button while the approval
  stays approved;
- a crash, or a failure of the last statement, leaves the button executing for
  ever: it can neither be pressed nor is it released at start.

## 12. Not modelled, and abstractions

Not modelled:

- `ConfigMigration`: one process at a time writes a backup and replaces one file
  by rename.
- Record store: each append, expiry and quarantine is one transaction under a
  file lock.
- Availability, health, preflight, observers, inventory: they evaluate one
  snapshot, and nothing acts on the result without looking again.
- `scripts/fortify-manager` and the set-up scripts: the operator runs them alone;
  the switch of a release is one rename.
- Worktree, agent and pull request steps of the issue runner, which are external
  commands; a run that dies leaves a worktree that the next run refuses.
- Of the supervisor: quiet hours and schedule of routine notices, watching,
  `/issue`, `/retry`, the stop command, and the wording of messages.
- Web routing, sessions and rate limits; the command line; formatting of
  communications; charts and component scripts (their effect is the `cluster` of
  `OperationEngine`); the web front end; release and evaluation tools, which are
  pure functions of files.

Abstractions:

- Store writes succeed in sections 2 and 4 to 10; a full disk in a worker's last
  save leaves an active row until the next restart.
- Timestamps except expiry, age of a login and of an attestation, sanitizing,
  digests (equal exactly when their contents are) and the text of errors.
- In `OperationEngine` the authorization of an operation is one possible denial;
  `Authorization` models it by itself, with one operation per consumption.
- A process that survives `kill` for two seconds.

Only model-checked:

- liveness (`OperationSettles`, the two `Settles`, `LeaseEnds`, `DigestArrives`):
  fairness and `ENABLED` are outside the prover's reach;
- the counterexample of `supervisor_hold`, which is a behaviour and no theorem.

## 13. Plan

Every safety property that a run checks is a theorem.  What would come next:

1. Composition of `Authorization` with the engine: the operation that a
   consumption creates is the row of the engine.
2. Quiet hours and the schedule of routine notices (section 10), and the commands
   `/issue` and `/retry` (section 8).
