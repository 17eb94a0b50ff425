---------------------------- MODULE BackupRestore ----------------------------
(***************************************************************************)
(* Backup and restore of the platform (manager/backup_restore.py): one     *)
(* worker thread per operation, request threads that submit and cancel,    *)
(* and a recovery helper in a process of its own.                          *)
(*                                                                         *)
(* Every call of the store is one statement and its own commit; nothing    *)
(* excludes two operations, or a cancellation from the saves of a worker.  *)
(***************************************************************************)
EXTENDS Naturals

CONSTANTS OpId, BackupId, Caller, Profile,
          Scopes,  \* how many scopes BACKUP_SCOPES lists
          Absent

ASSUME RecoveryAssumption == Scopes \in Nat \ {0} /\ Profile # {}

VARIABLES
    rows,      \* table recovery_operations
    artifacts, \* table recovery_artifacts
    doc,       \* the document of each worker
    worker,    \* where each worker stands in _run_backup or _run_restore
    cancelled, \* _cancelled
    call,      \* a cancellation in progress, per request thread
    profile,   \* profile_id of the running Manager
    vault,     \* external: the scopes that the helper has stored
    applied    \* history: the scopes that each restore applied, and its profile

vars == <<rows, artifacts, doc, worker, cancelled, call, profile, vault, applied>>

ActiveStates == {"queued", "running", "verifying"}
TerminalStates == {"succeeded", "failed", "interrupted", "cancelled"}

Operation == [action : {"backup", "restore"}, backup : BackupId,
              state : ActiveStates \union TerminalStates,
              done : 0..Scopes] \* completedScopes
Artifact == [profile : Profile, sums : 0..Scopes, complete : BOOLEAN]
Idle == [at |-> "idle"]

\* None is no row.
ASSUME AbsentAssumption == Absent \notin Operation \union Artifact

TypeOK ==
    /\ rows \in [OpId -> Operation \union {Absent}]
    /\ artifacts \in [BackupId -> Artifact \union {Absent}]
    /\ doc \in [OpId -> Operation \union {Absent}]
    /\ worker \in [OpId -> {"none", "start", "begin", "loop", "adapter", "save",
                            "verify", "end"}]
    /\ cancelled \subseteq OpId
    /\ call \in [Caller -> {Idle} \union
                    [at : {"mark", "write"}, op : OpId, doc : Operation]]
    /\ profile \in Profile
    /\ vault \in [BackupId -> SUBSET (1..Scopes)]
    /\ applied \in [OpId -> [scopes : SUBSET (1..Scopes), profile : Profile \union {Absent}]]

Init ==
    /\ rows = [o \in OpId |-> Absent]
    /\ artifacts = [b \in BackupId |-> Absent]
    /\ doc = [o \in OpId |-> Absent]
    /\ worker = [o \in OpId |-> "none"]
    /\ cancelled = {}
    /\ call = [t \in Caller |-> Idle]
    /\ profile \in Profile
    /\ vault = [b \in BackupId |-> {}]
    /\ applied = [o \in OpId |-> [scopes |-> {}, profile |-> Absent]]

------------------------------------------------------------------------------
(* Request threads                                                         *)

Submit(o, action, b) ==
    /\ rows[o] = Absent
    /\ rows' = [rows EXCEPT ![o] =
          [action |-> action, backup |-> b, state |-> "queued", done |-> 0]]
    /\ worker' = [worker EXCEPT ![o] = "start"]
    /\ UNCHANGED <<artifacts, doc, cancelled, call, profile, vault, applied>>

\* The backup id is new.
SubmitBackup(o, b) ==
    /\ artifacts[b] = Absent
    /\ \A p \in OpId : rows[p] # Absent => rows[p].backup # b
    /\ Submit(o, "backup", b)

\* Mutation: the profiles are not compared.
RestorableAnyProfile(b) == artifacts[b] # Absent /\ artifacts[b].complete

\* RecoveryStore.artifact and the profile gate of restore_plan.
Restorable(b) ==
    /\ artifacts[b] # Absent
    /\ artifacts[b].complete
    /\ artifacts[b].profile = profile

SubmitRestore(o, b) == Restorable(b) /\ Submit(o, "restore", b)

\* cancel reads the row, adds the id to _cancelled and saves what it has read.
CancelRead(t, o) ==
    /\ call[t] = Idle
    /\ rows[o] # Absent /\ rows[o].state \notin TerminalStates
    /\ call' = [call EXCEPT ![t] = [at |-> "mark", op |-> o, doc |-> rows[o]]]
    /\ UNCHANGED <<rows, artifacts, doc, worker, cancelled, profile, vault, applied>>

CancelMark(t) ==
    /\ call[t].at = "mark"
    /\ cancelled' = cancelled \union {call[t].op}
    /\ call' = [call EXCEPT ![t].at = "write"]
    /\ UNCHANGED <<rows, artifacts, doc, worker, profile, vault, applied>>

CancelWrite(t) ==
    /\ call[t].at = "write"
    /\ rows' = [rows EXCEPT ![call[t].op] = call[t].doc]
    /\ call' = [call EXCEPT ![t] = Idle]
    /\ UNCHANGED <<artifacts, doc, worker, cancelled, profile, vault, applied>>

------------------------------------------------------------------------------
(* The worker of operation o                                               *)

Go(o, point) == worker' = [worker EXCEPT ![o] = point]

\* _save, with the document as it is now.
Save(o) == rows' = [rows EXCEPT ![o] = doc[o]]

\* The except clause: the state depends on _cancelled, not on what was raised.
Raise(o) ==
    /\ doc' = [doc EXCEPT ![o].state = IF o \in cancelled THEN "cancelled" ELSE "failed"]
    /\ Go(o, "end")

StartBackup(o) ==
    /\ worker[o] = "start" /\ rows[o].action = "backup"
    /\ artifacts' = [artifacts EXCEPT ![rows[o].backup] =
          [profile |-> profile, sums |-> 0, complete |-> FALSE]]
    /\ doc' = [doc EXCEPT ![o] = [rows[o] EXCEPT !.state = "running"]]
    /\ Go(o, "begin")
    /\ UNCHANGED <<rows, cancelled, call, profile, vault, applied>>

\* The artifact and its profile are checked again by the worker.
StartRestore(o) ==
    /\ worker[o] = "start" /\ rows[o].action = "restore"
    /\ IF Restorable(rows[o].backup)
         THEN /\ doc' = [doc EXCEPT ![o] = [rows[o] EXCEPT !.state = "running"]]
              /\ Go(o, "begin")
         ELSE /\ doc' = [doc EXCEPT ![o] =
                    [rows[o] EXCEPT !.state = IF o \in cancelled THEN "cancelled" ELSE "failed"]]
              /\ Go(o, "end")
    /\ UNCHANGED <<rows, artifacts, cancelled, call, profile, vault, applied>>

Begin(o) ==
    /\ worker[o] = "begin"
    /\ Save(o) /\ Go(o, "loop")
    /\ UNCHANGED <<artifacts, doc, cancelled, call, profile, vault, applied>>

ScopesLeft(o) == doc[o].done < Scopes

\* _check_cancelled and the save of currentScope.
NextScope(o) ==
    /\ worker[o] = "loop" /\ ScopesLeft(o)
    /\ \/ o \in cancelled /\ Raise(o) /\ UNCHANGED rows
       \/ o \notin cancelled /\ Save(o) /\ Go(o, "adapter") /\ UNCHANGED doc
    /\ UNCHANGED <<artifacts, cancelled, call, profile, vault, applied>>

\* Mutation: a restore stays at the last scope.
ScopeStuck(o) == IF doc[o].action = "backup" THEN doc[o].done + 1 ELSE Scopes

\* Backups go through the scopes in order, restores in reverse.
Scope(o) == IF doc[o].action = "backup" THEN doc[o].done + 1 ELSE Scopes - doc[o].done

HelperEffect(o) ==
    IF doc[o].action = "backup"
      THEN /\ vault' = [vault EXCEPT ![doc[o].backup] = @ \union {Scope(o)}]
           /\ UNCHANGED applied
      ELSE /\ applied' = [applied EXCEPT ![o] =
                 [scopes |-> @.scopes \union {Scope(o)}, profile |-> profile]]
           /\ UNCHANGED vault

\* Mutation: the scope is tried again and again.
ScopeDoneUncounted(o) ==
    /\ worker[o] = "adapter"
    /\ HelperEffect(o)
    /\ Go(o, "save")
    /\ UNCHANGED <<rows, artifacts, doc, cancelled, call, profile>>

ScopeDone(o) ==
    /\ worker[o] = "adapter"
    /\ HelperEffect(o)
    /\ doc' = [doc EXCEPT ![o].done = @ + 1]
    /\ Go(o, "save")
    /\ UNCHANGED <<rows, artifacts, cancelled, call, profile>>

\* Mutation: a scope without a checksum counts as backed up.
ScopeFailedUnnoticed(o) ==
    /\ worker[o] = "adapter"
    /\ doc' = [doc EXCEPT ![o].done = @ + 1]
    /\ Go(o, "save")
    /\ UNCHANGED <<rows, artifacts, cancelled, call, profile, vault, applied>>

\* The helper refuses, cannot be reached, answers too late or without a
\* checksum; it may have done its work all the same.
ScopeFailed(o) ==
    /\ worker[o] = "adapter"
    /\ HelperEffect(o) \/ UNCHANGED <<vault, applied>>
    /\ Raise(o)
    /\ UNCHANGED <<rows, artifacts, cancelled, call, profile>>

SaveScope(o) ==
    /\ worker[o] = "save"
    /\ Save(o) /\ Go(o, "loop")
    /\ UNCHANGED <<artifacts, doc, cancelled, call, profile, vault, applied>>

\* All scopes are backed up: the artifact becomes restorable.
Seal(o) ==
    /\ worker[o] = "loop" /\ ~ScopesLeft(o) /\ doc[o].action = "backup"
    /\ artifacts' = [artifacts EXCEPT ![doc[o].backup] =
          [@ EXCEPT !.sums = doc[o].done, !.complete = TRUE]]
    /\ doc' = [doc EXCEPT ![o].state = "succeeded"]
    /\ Go(o, "end")
    /\ UNCHANGED <<rows, cancelled, call, profile, vault, applied>>

\* All scopes are restored: the state `verifying' is saved.
AllRestored(o) ==
    /\ worker[o] = "loop" /\ ~ScopesLeft(o) /\ doc[o].action = "restore"
    /\ doc' = [doc EXCEPT ![o].state = "verifying"]
    /\ rows' = [rows EXCEPT ![o] = doc'[o]]
    /\ Go(o, "verify")
    /\ UNCHANGED <<artifacts, cancelled, call, profile, vault, applied>>

\* Every item of evidence must have passed.
Verify(o) ==
    /\ worker[o] = "verify"
    /\ \/ doc' = [doc EXCEPT ![o].state = "succeeded"] /\ Go(o, "end")
       \/ Raise(o)
    /\ UNCHANGED <<rows, artifacts, cancelled, call, profile, vault, applied>>

\* The finally clause.
End(o) ==
    /\ worker[o] = "end"
    /\ Save(o)
    /\ Go(o, "none")
    /\ UNCHANGED <<artifacts, doc, cancelled, call, profile, vault, applied>>

WorkerStep(o) ==
    \/ StartBackup(o) \/ StartRestore(o) \/ Begin(o) \/ NextScope(o)
    \/ ScopeDone(o) \/ ScopeFailed(o) \/ SaveScope(o)
    \/ Seal(o) \/ AllRestored(o) \/ Verify(o) \/ End(o)

------------------------------------------------------------------------------
\* The UPDATE of RecoveryStore.__init__.
Interrupted(row) ==
    IF row # Absent /\ row.state \in ActiveStates
      THEN [row EXCEPT !.state = "interrupted"] ELSE row

\* The Manager dies and starts again, perhaps with another profile.
Restart(p) ==
    /\ rows' = [o \in OpId |-> Interrupted(rows[o])]
    /\ worker' = [o \in OpId |-> "none"]
    /\ doc' = [o \in OpId |-> Absent]
    /\ call' = [t \in Caller |-> Idle]
    /\ cancelled' = {}
    /\ profile' = p
    /\ UNCHANGED <<artifacts, vault, applied>>

Next ==
    \/ \E o \in OpId, b \in BackupId : SubmitBackup(o, b) \/ SubmitRestore(o, b)
    \/ \E t \in Caller : (\E o \in OpId : CancelRead(t, o)) \/ CancelMark(t) \/ CancelWrite(t)
    \/ \E o \in OpId : WorkerStep(o)
    \/ \E p \in Profile : Restart(p)

Spec == Init /\ [][Next]_vars

\* Threads run.  Nobody has to submit, to cancel or to restart.
FairSpec == Spec /\ \A o \in OpId : WF_vars(WorkerStep(o))

------------------------------------------------------------------------------
(* Properties                                                              *)

\* What may be restored is whole: the helper has stored every scope of an
\* artifact that is complete, whatever failed or was cancelled on the way.
RestorableIsWhole ==
    \A b \in BackupId : artifacts[b] # Absent /\ artifacts[b].complete =>
        artifacts[b].sums = Scopes /\ vault[b] = 1..Scopes

\* Not a byte is restored from an incomplete artifact or from one of another
\* profile than that of the Manager that restored it, although the artifact
\* was looked up when the operation was submitted and restarts change both.
RestoresPassTheGate ==
    \A o \in OpId : applied[o].scopes # {} =>
        LET a == artifacts[rows[o].backup] IN
        a # Absent /\ a.complete /\ a.profile = applied[o].profile

\* An operation recorded as succeeded did all of its work, in spite of the
\* saves of cancellations and workers that overwrite each other.
SuccessIsEarned ==
    \A o \in OpId : rows[o] # Absent /\ rows[o].state = "succeeded" =>
        /\ rows[o].action = "backup" => artifacts[rows[o].backup].complete
        /\ rows[o].action = "restore" => applied[o].scopes = 1..Scopes

\* An operation that nobody cancels reaches a final state, also when the
\* Manager restarts in the middle.
Settles ==
    \A o \in OpId : (rows[o] # Absent) ~>
        \/ rows[o] # Absent /\ rows[o].state \in TerminalStates
        \/ o \in cancelled
        \/ \E t \in Caller : call[t] # Idle /\ call[t].op = o
==============================================================================
