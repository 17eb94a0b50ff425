------------------------- MODULE BackupRestoreProofs -------------------------
(***************************************************************************)
(* For every number of operations, artifacts, request threads, profiles and *)
(* scopes: types, RestorableIsWhole, RestoresPassTheGate, SuccessIsEarned.  *)
(*                                                                         *)
(* The invariant follows one operation.  Its row, the document of its      *)
(* worker and what a cancellation has read agree on what is to be done      *)
(* (Terms); the artifact of a backup under way is incomplete and nobody     *)
(* else's, so a complete artifact never changes; the scopes that a worker   *)
(* has counted are in the vault, or were applied.                          *)
(***************************************************************************)
EXTENDS BackupRestore, TLAPS

------------------------------------------------------------------------------
(* The invariant                                                           *)

Terms(d, e) == d.action = e.action /\ d.backup = e.backup

Whole(b) == artifacts[b] # Absent /\ artifacts[b].complete

\* The work of document d of operation o is done.
Earned(o, d) ==
    /\ d.action = "backup" => Whole(d.backup)
    /\ d.action = "restore" => applied[o].scopes = 1..Scopes

Running == {"begin", "loop", "adapter", "save", "verify"}

\* The worker of o has its document.
Working(o) == worker[o] \notin {"none", "start"}

RowOK(o) ==
    /\ rows[o] = Absent => worker[o] = "none" /\ applied[o].scopes = {}
    /\ rows[o] # Absent /\ rows[o].state = "succeeded" => Earned(o, rows[o])
    /\ worker[o] = "start" =>
          /\ rows[o].done = 0 /\ applied[o].scopes = {}
          /\ rows[o].action = "backup" => artifacts[rows[o].backup] = Absent
    /\ applied[o].scopes # {} =>
          /\ rows[o].action = "restore" /\ Whole(rows[o].backup)
          /\ artifacts[rows[o].backup].profile = applied[o].profile

WorkerOK(o) ==
    /\ doc[o] # Absent /\ Terms(doc[o], rows[o])
    /\ doc[o].state = "succeeded" => Earned(o, doc[o])
    /\ worker[o] = "adapter" => doc[o].done < Scopes
    /\ worker[o] = "verify" => doc[o].action = "restore" /\ doc[o].done = Scopes
    /\ worker[o] \in Running /\ doc[o].action = "backup" =>
          /\ artifacts[doc[o].backup] # Absent /\ ~artifacts[doc[o].backup].complete
          /\ 1..doc[o].done \subseteq vault[doc[o].backup]
    /\ worker[o] \in Running /\ doc[o].action = "restore" =>
          /\ Restorable(doc[o].backup)
          /\ (Scopes - doc[o].done + 1)..Scopes \subseteq applied[o].scopes

\* A cancellation has read an older version of the row.
CallOK(t) ==
    /\ rows[call[t].op] # Absent /\ Terms(call[t].doc, rows[call[t].op])
    /\ call[t].doc.state \notin TerminalStates
    /\ worker[call[t].op] = "start" => call[t].doc.done = 0

\* An artifact is the work of one backup.
OwnArtifacts ==
    \A o, p \in OpId :
        /\ rows[o] # Absent /\ rows[o].action = "backup"
        /\ rows[p] # Absent /\ rows[p].action = "backup"
        /\ rows[o].backup = rows[p].backup
        => o = p

IInv ==
    /\ TypeOK
    /\ \A o \in OpId : RowOK(o)
    /\ \A o \in OpId : Working(o) => WorkerOK(o)
    /\ \A t \in Caller : call[t] # Idle => CallOK(t)
    /\ OwnArtifacts
    /\ RestorableIsWhole

LEMMA InitInvariant == Init => IInv
<1> SUFFICES ASSUME Init PROVE IInv
  OBVIOUS
<1>1. TypeOK
  BY RecoveryAssumption DEF Init, TypeOK
<1>2. \A o \in OpId : RowOK(o) /\ ~Working(o)
  BY DEF Init, RowOK, Working
<1>3. (\A t \in Caller : call[t] = Idle) /\ OwnArtifacts /\ RestorableIsWhole
  BY DEF Init, OwnArtifacts, RestorableIsWhole
<1> QED BY <1>1, <1>2, <1>3 DEF IInv

------------------------------------------------------------------------------
(* What a step for one operation leaves to the others                      *)

\* The other operations stay right as long as complete artifacts stay, those
\* of other backups are left alone, and the vault only grows.
LEMMA OtherOperations ==
    ASSUME IInv, NEW o \in OpId, UNCHANGED profile,
           \A p \in OpId \ {o} : /\ rows'[p] = rows[p] /\ doc'[p] = doc[p]
                                 /\ worker'[p] = worker[p] /\ applied'[p] = applied[p],
           \A b \in BackupId : Whole(b) => artifacts'[b] = artifacts[b],
           \A b \in BackupId : vault[b] \subseteq vault'[b],
           \A p \in OpId \ {o} : rows[p] # Absent /\ rows[p].action = "backup" =>
               artifacts'[rows[p].backup] = artifacts[rows[p].backup]
    PROVE  \A p \in OpId \ {o} : RowOK(p)' /\ (Working(p) => WorkerOK(p))'
<1> SUFFICES ASSUME NEW p \in OpId \ {o} PROVE RowOK(p)' /\ (Working(p) => WorkerOK(p))'
  OBVIOUS
<1>1. /\ RowOK(p) /\ rows[p] \in Operation \union {Absent} /\ doc[p] \in Operation \union {Absent}
      /\ (Working(p) => WorkerOK(p))
  BY DEF IInv, TypeOK
<1>2. \A d : d \in Operation /\ Earned(p, d) => Earned(p, d)'
  BY DEF Earned, Whole, Operation
<1>3. RowOK(p)'
  BY <1>1, <1>2 DEF RowOK, Whole, Operation
<1>4. ASSUME Working(p)' PROVE WorkerOK(p)'
  <2>1. WorkerOK(p) /\ doc[p] \in Operation /\ rows[p] \in Operation /\ rows[p] # Absent
    BY <1>1, <1>4 DEF Working, WorkerOK, RowOK
  <2>2. (worker[p] \in Running /\ doc[p].action = "restore" => Restorable(doc[p].backup))'
    BY <2>1 DEF WorkerOK, Restorable, Whole, Operation
  <2>3. (worker[p] \in Running /\ doc[p].action = "backup" =>
            /\ artifacts[doc[p].backup] # Absent /\ ~artifacts[doc[p].backup].complete
            /\ 1..doc[p].done \subseteq vault[doc[p].backup])'
    <3>1. /\ doc'[p] = doc[p] /\ worker'[p] = worker[p] /\ doc[p].backup \in BackupId
          /\ doc[p].action = "backup" => artifacts'[doc[p].backup] = artifacts[doc[p].backup]
      BY <2>1 DEF WorkerOK, Terms, Operation
    <3> QED BY <3>1, <2>1 DEF WorkerOK
  <2>4. (doc[p].state = "succeeded" => Earned(p, doc[p]))'
    BY <1>2, <2>1 DEF WorkerOK
  <2>5. (worker[p] \in Running /\ doc[p].action = "restore" =>
            (Scopes - doc[p].done + 1)..Scopes \subseteq applied[p].scopes)'
    BY <2>1 DEF WorkerOK
  <2>6. (/\ doc[p] # Absent /\ Terms(doc[p], rows[p])
         /\ worker[p] = "adapter" => doc[p].done < Scopes
         /\ worker[p] = "verify" => doc[p].action = "restore" /\ doc[p].done = Scopes)'
    BY <2>1 DEF WorkerOK, Terms
  <2> HIDE DEF Running
  <2> QED BY <2>2, <2>3, <2>4, <2>5, <2>6 DEF WorkerOK
<1> QED BY <1>3, <1>4

\* What cancellations have read stays an older version of the row.
LEMMA OtherCalls ==
    ASSUME IInv, NEW o \in OpId, UNCHANGED call,
           \A p \in OpId \ {o} : rows'[p] = rows[p] /\ worker'[p] = worker[p],
           rows[o] # Absent => rows'[o] # Absent /\ Terms(rows'[o], rows[o]),
           worker'[o] # "start"
    PROVE  \A t \in Caller : (call[t] # Idle => CallOK(t))'
BY DEF IInv, TypeOK, CallOK, Terms, Idle

LEMMA OwnArtifactsKept ==
    ASSUME OwnArtifacts,
           \A p \in OpId : rows'[p] # Absent => rows[p] # Absent /\ Terms(rows'[p], rows[p])
    PROVE  OwnArtifacts'
BY DEF OwnArtifacts, Terms

\* A step of the worker of o.
LEMMA OwnStep ==
    ASSUME IInv, TypeOK', NEW o \in OpId, UNCHANGED <<call, profile>>,
           \A p \in OpId \ {o} : /\ rows'[p] = rows[p] /\ doc'[p] = doc[p]
                                 /\ worker'[p] = worker[p] /\ applied'[p] = applied[p],
           \A b \in BackupId : Whole(b) => artifacts'[b] = artifacts[b],
           \A b \in BackupId : vault[b] \subseteq vault'[b],
           \A p \in OpId \ {o} : rows[p] # Absent /\ rows[p].action = "backup" =>
               artifacts'[rows[p].backup] = artifacts[rows[p].backup],
           \A b \in BackupId : artifacts'[b] = artifacts[b] \/ ~Whole(b)'
               \/ (artifacts'[b].sums = Scopes /\ vault'[b] = 1..Scopes),
           rows[o] # Absent, rows'[o] # Absent, Terms(rows'[o], rows[o]), worker'[o] # "start",
           RowOK(o)', (Working(o) => WorkerOK(o))'
    PROVE  IInv'
<1>1. \A p \in OpId : RowOK(p)' /\ (Working(p) => WorkerOK(p))'
  BY OtherOperations
<1>2. \A t \in Caller : (call[t] # Idle => CallOK(t))'
  BY OtherCalls
<1>3. OwnArtifacts'
  BY OwnArtifactsKept DEF IInv, Terms
<1>4. RestorableIsWhole'
  <2> SUFFICES ASSUME NEW b \in BackupId, Whole(b)'
               PROVE  artifacts'[b].sums = Scopes /\ vault'[b] = 1..Scopes
    BY DEF RestorableIsWhole, Whole
  <2>1. CASE artifacts'[b] = artifacts[b]
    <3>1. artifacts[b].sums = Scopes /\ vault[b] = 1..Scopes
      BY <2>1 DEF IInv, RestorableIsWhole, Whole
    <3>2. vault[b] \subseteq vault'[b] /\ vault'[b] \in SUBSET (1..Scopes)
      BY DEF TypeOK
    <3> QED BY <2>1, <3>1, <3>2
  <2> QED BY <2>1
<1> QED BY <1>1, <1>2, <1>3, <1>4 DEF IInv

\* A step that only moves on and saves.
LEMMA QuietStep ==
    ASSUME IInv, TypeOK', NEW o \in OpId,
           UNCHANGED <<artifacts, vault, applied, call, profile>>,
           \A p \in OpId \ {o} : rows'[p] = rows[p] /\ doc'[p] = doc[p] /\ worker'[p] = worker[p],
           rows[o] # Absent, rows'[o] # Absent, Terms(rows'[o], rows[o]), worker'[o] # "start",
           rows'[o].state = "succeeded" => Earned(o, rows'[o]),
           (Working(o) => WorkerOK(o))'
    PROVE  IInv'
<1>1. RowOK(o)'
  <2>1. RowOK(o)
    BY DEF IInv
  <2>2. (rows[o].state = "succeeded" => Earned(o, rows[o]))'
    BY DEF Earned, Whole
  <2>3. (applied[o].scopes # {} =>
            /\ rows[o].action = "restore" /\ Whole(rows[o].backup)
            /\ artifacts[rows[o].backup].profile = applied[o].profile)'
    BY <2>1 DEF RowOK, Whole, Terms
  <2> QED BY <2>2, <2>3 DEF RowOK
<1> QED BY <1>1, OwnStep

\* What is known of a worker that has its document.
LEMMA AtWork ==
    ASSUME IInv, NEW o \in OpId, Working(o)
    PROVE  /\ RowOK(o) /\ WorkerOK(o)
           /\ rows[o] \in Operation /\ rows[o] # Absent
           /\ doc[o] \in Operation /\ doc[o] # Absent
BY DEF IInv, TypeOK, RowOK, WorkerOK, Working

------------------------------------------------------------------------------
(* The steps of a worker                                                   *)

\* Begin, NextScope, SaveScope and End.
LEMMA SaveStep ==
    ASSUME IInv, NEW o \in OpId, Working(o), Save(o),
           NEW w \in {"loop", "adapter", "none"}, Go(o, w),
           worker[o] \in Running \/ w = "none", w = "adapter" => ScopesLeft(o),
           UNCHANGED <<artifacts, doc, cancelled, call, profile, vault, applied>>
    PROVE  IInv'
<1>1. RowOK(o) /\ WorkerOK(o) /\ rows[o] # Absent /\ doc[o] \in Operation /\ doc[o] # Absent
  BY AtWork
<1>2. /\ rows'[o] = doc[o] /\ doc'[o] = doc[o] /\ worker'[o] = w
      /\ \A p \in OpId \ {o} : rows'[p] = rows[p] /\ doc'[p] = doc[p] /\ worker'[p] = worker[p]
  BY DEF IInv, TypeOK, Save, Go
<1>3. TypeOK'
  BY <1>1 DEF IInv, TypeOK, Save, Go
<1>4. (Working(o) => WorkerOK(o))'
  <2> SUFFICES ASSUME w # "none" PROVE WorkerOK(o)'
    BY <1>2 DEF Working
  <2>1. worker[o] \in Running
    OBVIOUS
  <2>2. (/\ doc[o] # Absent /\ Terms(doc[o], rows[o])
         /\ worker[o] = "adapter" => doc[o].done < Scopes
         /\ worker[o] = "verify" => doc[o].action = "restore" /\ doc[o].done = Scopes)'
    BY <1>1, <1>2 DEF Terms, ScopesLeft
  <2>3. (doc[o].state = "succeeded" => Earned(o, doc[o]))'
    BY <1>1 DEF WorkerOK, Earned, Whole
  <2> QED BY <2>1, <2>2, <2>3, <1>1 DEF WorkerOK, Restorable
<1> QED BY <1>1, <1>2, <1>3, <1>4, QuietStep DEF WorkerOK

\* What a helper that works for operation o may do.
HelperStep(o) ==
    /\ vault' \in [BackupId -> SUBSET (1..Scopes)]
    /\ applied' \in [OpId -> [scopes : SUBSET (1..Scopes), profile : Profile \union {Absent}]]
    /\ \A b \in BackupId : vault[b] \subseteq vault'[b]
    /\ \A p \in OpId \ {o} : applied'[p] = applied[p]
    /\ applied[o].scopes \subseteq applied'[o].scopes
    /\ applied'[o] # applied[o] =>
          /\ rows[o].action = "restore" /\ Restorable(rows[o].backup)
          /\ applied'[o].profile = profile

LEMMA NoHelperStep ==
    ASSUME IInv, NEW o \in OpId, UNCHANGED <<vault, applied>>
    PROVE  HelperStep(o)
BY DEF IInv, TypeOK, HelperStep

\* The scope that the helper works on is stored or applied.
LEMMA HelperEffectStep ==
    ASSUME IInv, NEW o \in OpId, worker[o] = "adapter", HelperEffect(o)
    PROVE  /\ HelperStep(o)
           /\ doc[o].action = "backup" => Scope(o) \in vault'[doc[o].backup]
           /\ doc[o].action = "restore" => Scope(o) \in applied'[o].scopes
<1>1. WorkerOK(o) /\ doc[o] \in Operation
  BY AtWork DEF Working
<1>2. Scope(o) \in 1..Scopes
  BY <1>1, RecoveryAssumption DEF WorkerOK, Operation, Scope
<1>3. CASE doc[o].action = "backup"
  BY <1>1, <1>2, <1>3 DEF IInv, TypeOK, HelperEffect, HelperStep, Operation
<1>4. CASE doc[o].action = "restore"
  <2>1. applied' = [applied EXCEPT ![o] = [scopes |-> @.scopes \union {Scope(o)}, profile |-> profile]]
    BY <1>4 DEF HelperEffect
  <2>2. vault' = vault /\ rows[o].action = "restore" /\ Restorable(rows[o].backup)
    BY <1>1, <1>4 DEF HelperEffect, WorkerOK, Terms, Running
  <2>3. applied[o].scopes \union {Scope(o)} \in SUBSET (1..Scopes) /\ profile \in Profile
    BY <1>2 DEF IInv, TypeOK
  <2>4. applied'[o] = [scopes |-> applied[o].scopes \union {Scope(o)}, profile |-> profile]
    BY <2>1 DEF IInv, TypeOK
  <2> QED BY <1>4, <2>1, <2>2, <2>3, <2>4 DEF IInv, TypeOK, HelperStep
<1> QED BY <1>1, <1>3, <1>4 DEF Operation

\* The row of an operation whose helper has worked.
LEMMA RowAfterHelper ==
    ASSUME IInv, NEW o \in OpId, Working(o), HelperStep(o),
           UNCHANGED <<rows, artifacts, profile>>, worker'[o] \notin {"none", "start"}
    PROVE  RowOK(o)'
<1>1. RowOK(o) /\ rows[o] # Absent /\ rows[o] \in Operation
  BY AtWork
<1>2. (rows[o].state = "succeeded" => Earned(o, rows[o]))'
  <2> SUFFICES ASSUME rows[o].state = "succeeded" PROVE Earned(o, rows[o])'
    OBVIOUS
  <2>1. Earned(o, rows[o])
    BY <1>1 DEF RowOK
  <2>2. applied'[o].scopes \subseteq 1..Scopes /\ applied[o].scopes \subseteq applied'[o].scopes
    BY DEF HelperStep
  <2> QED BY <2>1, <2>2 DEF Earned, Whole
<1>3. (applied[o].scopes # {} =>
          /\ rows[o].action = "restore" /\ Whole(rows[o].backup)
          /\ artifacts[rows[o].backup].profile = applied[o].profile)'
  BY <1>1 DEF RowOK, HelperStep, Whole, Restorable
<1> QED BY <1>1, <1>2, <1>3 DEF RowOK

\* NextScope, ScopeFailed and Verify: the document ends as failed or cancelled.
LEMMA RaiseStep ==
    ASSUME IInv, NEW o \in OpId, Working(o), HelperStep(o), Raise(o),
           UNCHANGED <<rows, artifacts, cancelled, call, profile>>
    PROVE  IInv'
<1>1. RowOK(o) /\ WorkerOK(o) /\ rows[o] # Absent /\ doc[o] \in Operation /\ doc[o] # Absent
  BY AtWork
<1> DEFINE x == IF o \in cancelled THEN "cancelled" ELSE "failed"
<1>2. x \in {"cancelled", "failed"} /\ doc' = [doc EXCEPT ![o].state = x]
  BY DEF Raise
<1> HIDE DEF x
<1>3. /\ doc'[o] = [doc[o] EXCEPT !.state = x] /\ worker'[o] = "end"
      /\ \A p \in OpId \ {o} : rows'[p] = rows[p] /\ doc'[p] = doc[p] /\ worker'[p] = worker[p]
  BY <1>2 DEF IInv, TypeOK, Raise, Go
<1>4. doc'[o] \in Operation /\ doc'[o].state = x /\ Terms(doc'[o], doc[o])
  BY <1>1, <1>2, <1>3 DEF Operation, TerminalStates, Terms
<1>5. doc'[o] # Absent
  BY <1>4, AbsentAssumption
<1>6. TypeOK'
  BY <1>2, <1>4 DEF IInv, TypeOK, Raise, Go, HelperStep
<1>7. WorkerOK(o)'
  BY <1>1, <1>2, <1>3, <1>4, <1>5 DEF WorkerOK, Terms, Running
<1>8. RowOK(o)'
  BY <1>3, RowAfterHelper
<1> QED BY <1>1, <1>3, <1>6, <1>7, <1>8, OwnStep DEF Terms, HelperStep

LEMMA ScopeDoneStep ==
    ASSUME IInv, NEW o \in OpId, ScopeDone(o)
    PROVE  IInv'
<1> USE DEF ScopeDone
<1>1. /\ RowOK(o) /\ WorkerOK(o) /\ rows[o] # Absent /\ doc[o] \in Operation /\ doc[o] # Absent
      /\ Working(o)
  BY AtWork DEF Working
<1>2. /\ HelperStep(o)
      /\ doc[o].action = "backup" => Scope(o) \in vault'[doc[o].backup]
      /\ doc[o].action = "restore" => Scope(o) \in applied'[o].scopes
  BY HelperEffectStep
<1>3. /\ doc'[o] = [doc[o] EXCEPT !.done = @ + 1] /\ worker'[o] = "save"
      /\ \A p \in OpId \ {o} : rows'[p] = rows[p] /\ doc'[p] = doc[p] /\ worker'[p] = worker[p]
  BY DEF IInv, TypeOK, Go
<1>4. /\ doc'[o] \in Operation /\ Terms(doc'[o], doc[o])
      /\ doc'[o].done = doc[o].done + 1 /\ doc'[o].state = doc[o].state
  BY <1>1, <1>3, RecoveryAssumption DEF Operation, Terms, WorkerOK
<1>5. doc'[o] # Absent
  BY <1>4, AbsentAssumption
<1>6. TypeOK'
  BY <1>2, <1>4 DEF IInv, TypeOK, Go, HelperStep
<1>7. RowOK(o)'
  BY <1>1, <1>2, <1>3, RowAfterHelper
<1>8. WorkerOK(o)'
  <2>1. (doc[o].state = "succeeded" => Earned(o, doc[o]))'
    <3> SUFFICES ASSUME doc[o].state = "succeeded" PROVE Earned(o, doc[o])'
      BY <1>4
    <3>1. Earned(o, doc[o])
      BY <1>1 DEF WorkerOK
    <3>2. applied'[o].scopes \subseteq 1..Scopes /\ applied[o].scopes \subseteq applied'[o].scopes
      BY <1>2 DEF HelperStep
    <3> QED BY <3>1, <3>2, <1>4 DEF Earned, Whole, Terms
  <2>2. CASE doc[o].action = "backup"
    <3>1. /\ artifacts'[doc'[o].backup] # Absent /\ ~artifacts'[doc'[o].backup].complete
          /\ 1..doc[o].done \subseteq vault[doc[o].backup]
      BY <1>1, <1>4, <2>2 DEF WorkerOK, Terms, Running
    <3>2. 1..doc'[o].done \subseteq vault'[doc'[o].backup]
      BY <1>1, <1>2, <1>4, <2>2, <3>1 DEF Scope, HelperStep, Operation, Terms
    <3> QED BY <1>1, <1>3, <1>4, <1>5, <2>1, <2>2, <3>1, <3>2 DEF WorkerOK, Terms
  <2>3. CASE doc[o].action = "restore"
    <3>1. /\ Restorable(doc[o].backup)
          /\ (Scopes - doc[o].done + 1)..Scopes \subseteq applied[o].scopes
      BY <1>1, <2>3 DEF WorkerOK, Running
    <3>2. (Scopes - doc'[o].done + 1)..Scopes \subseteq applied'[o].scopes
      BY <1>1, <1>2, <1>4, <2>3, <3>1, RecoveryAssumption DEF Scope, HelperStep, Operation
    <3>3. Restorable(doc[o].backup)'
      BY <3>1, <1>4 DEF Restorable, Terms
    <3> QED BY <1>1, <1>3, <1>4, <1>5, <2>1, <2>3, <3>2, <3>3 DEF WorkerOK, Terms
  <2> QED BY <1>1, <2>2, <2>3 DEF Operation
<1> QED BY <1>1, <1>2, <1>3, <1>6, <1>7, <1>8, OwnStep DEF Terms, HelperStep

\* The artifact that StartBackup writes.
LEMMA NewArtifact ==
    ASSUME NEW q \in Profile
    PROVE  LET a == [profile |-> q, sums |-> 0, complete |-> FALSE]
           IN  a \in Artifact /\ ~a.complete
<1>1. 0 \in 0..Scopes
  BY RecoveryAssumption
<1> QED BY <1>1, Zenon DEF Artifact

LEMMA StartBackupStep ==
    ASSUME IInv, NEW o \in OpId, StartBackup(o)
    PROVE  IInv'
<1> USE DEF StartBackup
<1> DEFINE b == rows[o].backup
<1>1. /\ RowOK(o) /\ rows[o] # Absent /\ rows[o] \in Operation /\ b \in BackupId
      /\ rows[o].done = 0 /\ artifacts[b] = Absent
  BY DEF IInv, TypeOK, RowOK, Operation
<1>2. /\ doc'[o] = [rows[o] EXCEPT !.state = "running"] /\ worker'[o] = "begin"
      /\ \A p \in OpId \ {o} : rows'[p] = rows[p] /\ doc'[p] = doc[p] /\ worker'[p] = worker[p]
      /\ artifacts'[b] = [profile |-> profile, sums |-> 0, complete |-> FALSE]
      /\ \A c \in BackupId \ {b} : artifacts'[c] = artifacts[c]
  BY <1>1 DEF IInv, TypeOK, Go
<1>3. doc'[o] \in Operation /\ doc'[o].done = 0 /\ doc'[o].state = "running" /\ Terms(doc'[o], rows[o])
  BY <1>1, <1>2 DEF Operation, ActiveStates, Terms
<1>4. artifacts'[b] \in Artifact /\ ~artifacts'[b].complete
  <2>1. profile \in Profile
    BY DEF IInv, TypeOK
  <2> QED BY <1>2, <2>1, NewArtifact, Zenon
<1>5. doc'[o] # Absent /\ artifacts'[b] # Absent
  BY <1>3, <1>4, AbsentAssumption
<1>6. TypeOK'
  BY <1>1, <1>3, <1>4 DEF IInv, TypeOK, Go
<1>7. \A p \in OpId \ {o} : rows[p] # Absent /\ rows[p].action = "backup" =>
          artifacts'[rows[p].backup] = artifacts[rows[p].backup]
  <2> TAKE p \in OpId \ {o}
  <2> HAVE rows[p] # Absent /\ rows[p].action = "backup"
  <2>1. rows[p].backup # b
    BY <1>1 DEF IInv, OwnArtifacts
  <2>2. rows[p].backup \in BackupId
    BY DEF IInv, TypeOK, Operation
  <2> QED BY <1>2, <2>1, <2>2
<1>8. \A c \in BackupId : /\ Whole(c) => artifacts'[c] = artifacts[c]
                          /\ artifacts'[c] = artifacts[c] \/ ~Whole(c)'
  BY <1>1, <1>2, <1>4 DEF Whole
<1>9. RowOK(o)'
  <2>1. applied[o].scopes = {}
    BY <1>1 DEF RowOK
  <2>2. rows[o].state # "succeeded"
    BY <1>1 DEF RowOK, Earned, Whole
  <2> QED BY <1>1, <1>2, <2>1, <2>2 DEF RowOK
<1>10. WorkerOK(o)'
  <2>1. 1..0 = {}
    OBVIOUS
  <2> QED BY <1>1, <1>2, <1>3, <1>4, <1>5, <2>1 DEF WorkerOK, Terms
<1> HIDE DEF b
<1> QED BY <1>1, <1>2, <1>6, <1>7, <1>8, <1>9, <1>10, OwnStep DEF Terms

LEMMA StartRestoreStep ==
    ASSUME IInv, NEW o \in OpId, StartRestore(o)
    PROVE  IInv'
<1>1. /\ RowOK(o) /\ rows[o] # Absent /\ rows[o] \in Operation /\ rows[o].done = 0
      /\ rows[o].action = "restore" /\ worker[o] = "start"
  BY DEF IInv, TypeOK, RowOK, StartRestore
<1>2. PICK x \in {"running", "cancelled", "failed"}, w \in {"begin", "end"} :
          /\ doc' = [doc EXCEPT ![o] = [rows[o] EXCEPT !.state = x]]
          /\ worker' = [worker EXCEPT ![o] = w]
          /\ w = "begin" => Restorable(rows[o].backup)
  BY DEF StartRestore, Go
<1>3. UNCHANGED <<rows, artifacts, cancelled, call, profile, vault, applied>>
  BY DEF StartRestore
<1>4. /\ doc'[o] = [rows[o] EXCEPT !.state = x] /\ worker'[o] = w
      /\ \A p \in OpId \ {o} : rows'[p] = rows[p] /\ doc'[p] = doc[p] /\ worker'[p] = worker[p]
  BY <1>2, <1>3 DEF IInv, TypeOK
<1>5. doc'[o] \in Operation /\ doc'[o].done = 0 /\ doc'[o].state = x /\ Terms(doc'[o], rows[o])
  BY <1>1, <1>4 DEF Operation, ActiveStates, TerminalStates, Terms
<1>6. doc'[o] # Absent
  BY <1>5, AbsentAssumption
<1>7. TypeOK'
  BY <1>2, <1>3, <1>4, <1>5 DEF IInv, TypeOK
<1>8. WorkerOK(o)'
  <2>1. (Scopes - doc'[o].done + 1)..Scopes = {}
    BY <1>5, RecoveryAssumption
  <2>2. w = "begin" => Restorable(doc[o].backup)'
    BY <1>2, <1>3, <1>5 DEF Restorable, Terms
  <2> QED BY <1>1, <1>3, <1>4, <1>5, <1>6, <2>1, <2>2 DEF WorkerOK, Terms, Running
<1>9. rows'[o].state = "succeeded" => Earned(o, rows'[o])
  BY <1>1, <1>3 DEF RowOK
<1> QED BY <1>1, <1>3, <1>4, <1>7, <1>8, <1>9, QuietStep DEF Terms

\* Nobody else backs up into the artifact, and it has all the scopes.
LEMMA SealStep ==
    ASSUME IInv, NEW o \in OpId, Seal(o)
    PROVE  IInv'
<1> USE DEF Seal
<1> DEFINE b == doc[o].backup
<1>1. /\ RowOK(o) /\ WorkerOK(o) /\ rows[o] # Absent /\ rows[o] \in Operation
      /\ doc[o] \in Operation /\ doc[o] # Absent
  BY AtWork DEF Working
<1>2. /\ b \in BackupId /\ doc[o].done = Scopes /\ 1..Scopes \subseteq vault[b]
      /\ artifacts[b] # Absent /\ ~artifacts[b].complete
      /\ rows[o].action = "backup" /\ rows[o].backup = b
  BY <1>1, RecoveryAssumption DEF WorkerOK, Operation, ScopesLeft, Terms, Running
<1>3. /\ doc'[o] = [doc[o] EXCEPT !.state = "succeeded"] /\ worker'[o] = "end"
      /\ \A p \in OpId \ {o} : rows'[p] = rows[p] /\ doc'[p] = doc[p] /\ worker'[p] = worker[p]
      /\ artifacts'[b] = [artifacts[b] EXCEPT !.sums = doc[o].done, !.complete = TRUE]
      /\ \A c \in BackupId \ {b} : artifacts'[c] = artifacts[c]
  BY <1>2 DEF IInv, TypeOK, Go
<1>4. doc'[o] \in Operation /\ doc'[o].state = "succeeded" /\ Terms(doc'[o], doc[o])
  BY <1>1, <1>3 DEF Operation, TerminalStates, Terms
<1>5. artifacts[b] \in Artifact
  BY <1>2 DEF IInv, TypeOK
<1>6. artifacts'[b] \in Artifact /\ artifacts'[b].complete /\ artifacts'[b].sums = Scopes
  <2>1. doc[o].done \in 0..Scopes
    BY <1>1 DEF Operation
  <2> DEFINE z == artifacts'[b]
             n == doc[o].done
             a == artifacts[b]
  <2>2. z = [a EXCEPT !.sums = n, !.complete = TRUE] /\ n \in 0..Scopes /\ a \in Artifact
    BY <1>3, <1>5, <2>1, Zenon
  <2> HIDE DEF z, n, a
  <2> HIDE DEF Seal
  <2>3. z \in Artifact /\ z.complete /\ z.sums = n
    <3>1. [a EXCEPT !.sums = n, !.complete = TRUE] \in Artifact
      BY <2>2, Zenon DEF Artifact
    <3>2. [a EXCEPT !.sums = n, !.complete = TRUE].complete
      BY <2>2, Zenon DEF Artifact
    <3>3. [a EXCEPT !.sums = n, !.complete = TRUE].sums = n
      BY <2>2, Zenon DEF Artifact
    <3> QED BY <2>2, <3>1, <3>2, <3>3, Zenon
  <2> USE DEF z, n
  <2> QED BY <1>2, <2>3
<1>7. doc'[o] # Absent /\ artifacts'[b] # Absent
  BY <1>4, <1>6, AbsentAssumption
<1>8. TypeOK'
  BY <1>2, <1>4, <1>6 DEF IInv, TypeOK, Go
<1>9. \A p \in OpId \ {o} : rows[p] # Absent /\ rows[p].action = "backup" =>
          artifacts'[rows[p].backup] = artifacts[rows[p].backup]
  <2> TAKE p \in OpId \ {o}
  <2> HAVE rows[p] # Absent /\ rows[p].action = "backup"
  <2>1. rows[p].backup # b
    BY <1>1, <1>2 DEF IInv, OwnArtifacts
  <2>2. rows[p].backup \in BackupId
    BY DEF IInv, TypeOK, Operation
  <2> QED BY <1>3, <2>1, <2>2
<1>10. vault'[b] = 1..Scopes
  BY <1>2 DEF IInv, TypeOK
<1>11. Whole(b)' /\ ~Whole(b)
  BY <1>2, <1>6, <1>7 DEF Whole
<1>12. RowOK(o)'
  <2>1. applied[o].scopes = {}
    BY <1>1, <1>2 DEF RowOK
  <2>2. Earned(o, rows[o])'
    BY <1>2, <1>11 DEF Earned
  <2> QED BY <1>1, <1>3, <2>1, <2>2 DEF RowOK
<1>13. WorkerOK(o)'
  <2>1. Earned(o, doc[o])'
    BY <1>2, <1>4, <1>11 DEF Earned, Terms
  <2> QED BY <1>1, <1>3, <1>4, <1>7, <2>1 DEF WorkerOK, Terms, Running
<1>14. \A c \in BackupId : /\ Whole(c) => artifacts'[c] = artifacts[c]
                           /\ artifacts'[c] = artifacts[c] \/ (artifacts'[c].sums = Scopes /\ vault'[c] = 1..Scopes)
  BY <1>3, <1>6, <1>10, <1>11
<1> HIDE DEF b
<1> QED BY <1>1, <1>3, <1>8, <1>9, <1>12, <1>13, <1>14, OwnStep DEF Terms

\* AllRestored saves the document with its new state.
LEMMA AllRestoredStep ==
    ASSUME IInv, NEW o \in OpId, AllRestored(o)
    PROVE  IInv'
<1> USE DEF AllRestored
<1>1. /\ RowOK(o) /\ WorkerOK(o) /\ rows[o] # Absent
      /\ doc[o] \in Operation /\ doc[o] # Absent
  BY AtWork DEF Working
<1>2. /\ doc'[o] = [doc[o] EXCEPT !.state = "verifying"] /\ rows'[o] = doc'[o]
      /\ worker'[o] = "verify"
      /\ \A p \in OpId \ {o} : rows'[p] = rows[p] /\ doc'[p] = doc[p] /\ worker'[p] = worker[p]
  BY DEF IInv, TypeOK, Go
<1>3. /\ doc'[o] \in Operation /\ doc'[o].state = "verifying"
      /\ Terms(doc'[o], doc[o]) /\ doc'[o].done = doc[o].done
  BY <1>1, <1>2 DEF Operation, ActiveStates, Terms
<1>4. doc'[o] # Absent
  BY <1>3, AbsentAssumption
<1>5. TypeOK'
  BY <1>3 DEF IInv, TypeOK, Go
<1>6. doc[o].done = Scopes
  BY <1>1, RecoveryAssumption DEF Operation, ScopesLeft
<1>7. WorkerOK(o)'
  <2>1. /\ Restorable(doc[o].backup)
        /\ (Scopes - doc[o].done + 1)..Scopes \subseteq applied[o].scopes
    BY <1>1 DEF WorkerOK, Running
  <2>2. Restorable(doc[o].backup)'
    BY <1>3, <2>1 DEF Restorable, Terms
  <2> QED BY <1>2, <1>3, <1>4, <1>6, <2>1, <2>2 DEF WorkerOK, Terms
<1>8. Terms(rows'[o], rows[o])
  BY <1>1, <1>2, <1>3 DEF WorkerOK, Terms
<1> QED BY <1>1, <1>2, <1>3, <1>4, <1>5, <1>7, <1>8, QuietStep

\* A restore that verifies has applied every scope.
LEMMA VerifiedStep ==
    ASSUME IInv, NEW o \in OpId, worker[o] = "verify",
           doc' = [doc EXCEPT ![o].state = "succeeded"], Go(o, "end"),
           UNCHANGED <<rows, artifacts, cancelled, call, profile, vault, applied>>
    PROVE  IInv'
<1>1. /\ RowOK(o) /\ WorkerOK(o) /\ rows[o] # Absent
      /\ doc[o] \in Operation /\ doc[o] # Absent
  BY AtWork DEF Working
<1>2. /\ doc'[o] = [doc[o] EXCEPT !.state = "succeeded"] /\ worker'[o] = "end"
      /\ \A p \in OpId \ {o} : rows'[p] = rows[p] /\ doc'[p] = doc[p] /\ worker'[p] = worker[p]
  BY DEF IInv, TypeOK, Go
<1>3. doc'[o] \in Operation /\ Terms(doc'[o], doc[o])
  BY <1>1, <1>2 DEF Operation, TerminalStates, Terms
<1>4. doc'[o] # Absent
  BY <1>3, AbsentAssumption
<1>5. TypeOK'
  BY <1>3 DEF IInv, TypeOK, Go
<1>6. doc[o].action = "restore" /\ applied[o].scopes = 1..Scopes
  <2>1. /\ doc[o].action = "restore" /\ doc[o].done = Scopes
        /\ (Scopes - doc[o].done + 1)..Scopes \subseteq applied[o].scopes
    BY <1>1 DEF WorkerOK, Running
  <2>2. 1..Scopes \subseteq applied[o].scopes
    BY <2>1, RecoveryAssumption
  <2> QED BY <2>1, <2>2 DEF IInv, TypeOK
<1>7. WorkerOK(o)'
  <2>1. Earned(o, doc[o])'
    BY <1>3, <1>6 DEF Earned, Terms
  <2> QED BY <1>1, <1>2, <1>3, <1>4, <2>1 DEF WorkerOK, Terms, Running
<1>8. rows'[o].state = "succeeded" => Earned(o, rows'[o])
  BY <1>1 DEF RowOK
<1> QED BY <1>1, <1>2, <1>5, <1>7, <1>8, QuietStep DEF Terms

LEMMA WorkerStepInvariant ==
    ASSUME IInv, NEW o \in OpId, WorkerStep(o)
    PROVE  IInv'
<1>1. worker[o] \notin {"none", "start"} => Working(o) /\ doc[o] \in Operation
  BY AtWork DEF Working
<1>2. CASE StartBackup(o) \/ StartRestore(o) \/ ScopeDone(o) \/ Seal(o) \/ AllRestored(o)
  BY <1>2, StartBackupStep, StartRestoreStep, ScopeDoneStep, SealStep, AllRestoredStep
<1>3. CASE Begin(o) \/ SaveScope(o) \/ End(o)
  BY <1>1, <1>3, SaveStep DEF Begin, SaveScope, End, Running
<1>4. CASE NextScope(o)
  <2>1. CASE Raise(o) /\ UNCHANGED rows
    BY <1>1, <1>4, <2>1, NoHelperStep, RaiseStep DEF NextScope
  <2>2. CASE Save(o) /\ Go(o, "adapter") /\ UNCHANGED doc
    BY <1>1, <1>4, <2>2, SaveStep DEF NextScope, Running
  <2> QED BY <1>4, <2>1, <2>2 DEF NextScope
<1>5. CASE ScopeFailed(o)
  <2>1. HelperStep(o)
    BY <1>5, NoHelperStep, HelperEffectStep DEF ScopeFailed
  <2> QED BY <1>1, <1>5, <2>1, RaiseStep DEF ScopeFailed
<1>6. CASE Verify(o)
  BY <1>1, <1>6, VerifiedStep, NoHelperStep, RaiseStep DEF Verify
<1> QED BY <1>2, <1>3, <1>4, <1>5, <1>6 DEF WorkerStep

------------------------------------------------------------------------------
(* Request threads and restarts                                            *)

LEMMA SubmitStep ==
    ASSUME IInv, NEW o \in OpId, NEW b \in BackupId, NEW action \in {"backup", "restore"},
           Submit(o, action, b),
           action = "backup" =>
              /\ artifacts[b] = Absent
              /\ \A p \in OpId : rows[p] # Absent => rows[p].backup # b
    PROVE  IInv'
<1> USE DEF Submit
<1> DEFINE r == [action |-> action, backup |-> b, state |-> "queued", done |-> 0]
<1>1. r \in Operation
  BY RecoveryAssumption DEF Operation, ActiveStates
<1>2. /\ rows'[o] = r /\ worker'[o] = "start"
      /\ \A p \in OpId \ {o} : rows'[p] = rows[p] /\ worker'[p] = worker[p]
  BY DEF IInv, TypeOK
<1>3. r # Absent /\ r.action = action /\ r.backup = b /\ r.state = "queued" /\ r.done = 0
  BY <1>1, AbsentAssumption
<1>4. TypeOK'
  BY <1>1 DEF IInv, TypeOK
<1> HIDE DEF r
<1>5. RowOK(o)' /\ ~Working(o)'
  <2>1. applied[o].scopes = {}
    BY DEF IInv, RowOK
  <2> QED BY <1>2, <1>3, <2>1 DEF RowOK, Working
<1>6. \A p \in OpId \ {o} : RowOK(p)' /\ (Working(p) => WorkerOK(p))'
  BY <1>2, OtherOperations
<1>7. ASSUME NEW t \in Caller, (call[t] # Idle)' PROVE CallOK(t)'
  <2>1. CallOK(t) /\ call[t].op \in OpId
    BY <1>7 DEF IInv, TypeOK
  <2>2. call[t].op # o
    BY <2>1 DEF CallOK
  <2> QED BY <1>2, <2>1, <2>2 DEF CallOK
<1>8. OwnArtifacts'
  BY <1>2, <1>3 DEF IInv, OwnArtifacts
<1>9. RestorableIsWhole'
  BY DEF IInv, RestorableIsWhole
<1> QED BY <1>4, <1>5, <1>6, <1>7, <1>8, <1>9 DEF IInv

\* The two steps of a cancellation that leave the rows alone.
LEMMA CancelQuietStep ==
    ASSUME IInv, TypeOK', NEW t \in Caller, \A u \in Caller \ {t} : call'[u] = call[u],
           (call[t] # Idle => CallOK(t))',
           UNCHANGED <<rows, artifacts, doc, worker, profile, vault, applied>>
    PROVE  IInv'
<1>1. \A o \in OpId : RowOK(o)' /\ (Working(o) => WorkerOK(o))'
  <2> SUFFICES ASSUME NEW o \in OpId PROVE RowOK(o)' /\ (Working(o) => WorkerOK(o))'
    OBVIOUS
  <2> QED BY DEF IInv, RowOK, Working, WorkerOK, Earned, Whole, Restorable
<1>2. \A u \in Caller : (call[u] # Idle => CallOK(u))'
  BY DEF IInv, CallOK
<1>3. OwnArtifacts' /\ RestorableIsWhole'
  BY DEF IInv, OwnArtifacts, RestorableIsWhole
<1> QED BY <1>1, <1>2, <1>3 DEF IInv

LEMMA CancelReadStep ==
    ASSUME IInv, NEW t \in Caller, NEW o \in OpId, CancelRead(t, o)
    PROVE  IInv'
<1> USE DEF CancelRead
<1> DEFINE c == [at |-> "mark", op |-> o, doc |-> rows[o]]
<1>1. rows[o] \in Operation /\ RowOK(o)
  BY DEF IInv, TypeOK
<1>2. call'[t] = c /\ \A u \in Caller \ {t} : call'[u] = call[u]
  BY DEF IInv, TypeOK
<1>3. c \in [at : {"mark", "write"}, op : OpId, doc : Operation]
  BY <1>1
<1>4. TypeOK'
  BY <1>3 DEF IInv, TypeOK
<1>5. CallOK(t)'
  BY <1>1, <1>2 DEF CallOK, Terms, RowOK
<1> HIDE DEF c
<1> QED BY <1>2, <1>4, <1>5, CancelQuietStep

LEMMA CancelMarkStep ==
    ASSUME IInv, NEW t \in Caller, CancelMark(t)
    PROVE  IInv'
<1> USE DEF CancelMark
<1>1. call[t] # Idle
  BY DEF Idle
<1>2. call[t] \in [at : {"mark", "write"}, op : OpId, doc : Operation] /\ CallOK(t)
  BY <1>1 DEF IInv, TypeOK
<1>3. /\ call'[t] = [call[t] EXCEPT !.at = "write"]
      /\ \A u \in Caller \ {t} : call'[u] = call[u]
  BY DEF IInv, TypeOK
<1>4. /\ call'[t] \in [at : {"mark", "write"}, op : OpId, doc : Operation]
      /\ call'[t].op = call[t].op /\ call'[t].doc = call[t].doc
  BY <1>2, <1>3
<1>5. TypeOK'
  <2>1. call' \in [Caller -> {Idle} \union [at : {"mark", "write"}, op : OpId, doc : Operation]]
    BY <1>3, <1>4 DEF IInv, TypeOK
  <2>2. cancelled' \subseteq OpId
    BY <1>2 DEF IInv, TypeOK
  <2> QED BY <2>1, <2>2 DEF IInv, TypeOK
<1>6. CallOK(t)'
  BY <1>2, <1>4 DEF CallOK
<1> QED BY <1>3, <1>5, <1>6, CancelQuietStep

\* The stale row that a cancellation writes is not final, and of the same terms.
LEMMA CancelWriteStep ==
    ASSUME IInv, NEW t \in Caller, CancelWrite(t)
    PROVE  IInv'
<1> USE DEF CancelWrite
<1>1. call[t] # Idle
  BY DEF Idle
<1>2. PICK o \in OpId, d \in Operation : o = call[t].op /\ d = call[t].doc
  BY <1>1 DEF IInv, TypeOK
<1>3. CallOK(t) /\ RowOK(o) /\ rows[o] # Absent
  BY <1>1, <1>2 DEF IInv, CallOK
<1>4. /\ rows'[o] = d /\ call'[t] = Idle
      /\ \A p \in OpId \ {o} : rows'[p] = rows[p]
      /\ \A u \in Caller \ {t} : call'[u] = call[u]
  BY <1>2 DEF IInv, TypeOK
<1>5. TypeOK'
  BY <1>2 DEF IInv, TypeOK
<1>6. /\ d # Absent /\ Terms(d, rows[o]) /\ d.state \notin TerminalStates
      /\ worker[o] = "start" => d.done = 0
  BY <1>2, <1>3, AbsentAssumption DEF CallOK
<1>7. RowOK(o)'
  BY <1>2, <1>3, <1>4, <1>6 DEF RowOK, Terms, TerminalStates, Whole
<1>8. (Working(o) => WorkerOK(o))'
  <2> SUFFICES ASSUME Working(o) PROVE WorkerOK(o)'
    BY DEF Working
  <2>1. WorkerOK(o)
    BY <1>2 DEF IInv
  <2>2. Terms(doc[o], rows[o])'
    BY <1>4, <1>6, <2>1 DEF WorkerOK, Terms
  <2> QED BY <2>1, <2>2 DEF WorkerOK, Earned, Whole, Restorable
<1>9. \A p \in OpId \ {o} : RowOK(p)' /\ (Working(p) => WorkerOK(p))'
  BY <1>2, <1>4, OtherOperations
<1>10. \A u \in Caller : (call[u] # Idle => CallOK(u))'
  BY <1>2, <1>3, <1>4, <1>6 DEF IInv, TypeOK, CallOK, Terms
<1>11. OwnArtifacts'
  BY <1>2, <1>3, <1>4, <1>6, OwnArtifactsKept DEF IInv, Terms
<1>12. RestorableIsWhole'
  BY DEF IInv, RestorableIsWhole
<1> QED BY <1>5, <1>7, <1>8, <1>9, <1>10, <1>11, <1>12 DEF IInv

LEMMA RestartStep ==
    ASSUME IInv, NEW q \in Profile, Restart(q)
    PROVE  IInv'
<1> USE DEF Restart
<1>1. ASSUME NEW o \in OpId
      PROVE  /\ rows'[o] \in Operation \union {Absent}
             /\ rows[o] = Absent <=> rows'[o] = Absent
             /\ rows[o] # Absent => Terms(rows'[o], rows[o])
             /\ rows'[o] = rows[o] \/ rows'[o].state = "interrupted"
  <2>1. rows'[o] = Interrupted(rows[o])
    OBVIOUS
  <2>2. CASE rows[o] # Absent /\ rows[o].state \in ActiveStates
    <3>1. rows'[o] = [rows[o] EXCEPT !.state = "interrupted"] /\ rows[o] \in Operation
      BY <2>1, <2>2 DEF Interrupted, IInv, TypeOK
    <3>2. rows'[o] \in Operation /\ Terms(rows'[o], rows[o]) /\ rows'[o].state = "interrupted"
      BY <3>1 DEF Operation, TerminalStates, Terms
    <3> QED BY <2>2, <3>2, AbsentAssumption
  <2>3. CASE ~(rows[o] # Absent /\ rows[o].state \in ActiveStates)
    <3>1. rows'[o] = rows[o]
      BY <2>1, <2>3 DEF Interrupted
    <3> QED BY <3>1 DEF IInv, TypeOK, Terms
  <2> QED BY <2>2, <2>3
<1>2. TypeOK'
  <2>1. rows' \in [OpId -> Operation \union {Absent}]
    BY <1>1
  <2> QED BY <2>1 DEF IInv, TypeOK
<1>3. ASSUME NEW o \in OpId PROVE RowOK(o)' /\ ~Working(o)'
  <2>1. RowOK(o) /\ worker'[o] = "none"
    BY DEF IInv
  <2>2. (rows[o] # Absent /\ rows[o].state = "succeeded" => Earned(o, rows[o]))'
    BY <1>1, <2>1 DEF RowOK, Earned, Whole
  <2>3. (applied[o].scopes # {} =>
            /\ rows[o].action = "restore" /\ Whole(rows[o].backup)
            /\ artifacts[rows[o].backup].profile = applied[o].profile)'
    BY <1>1, <2>1 DEF RowOK, Whole, Terms
  <2>4. rows'[o] = Absent => applied'[o].scopes = {}
    BY <1>1, <2>1 DEF RowOK
  <2> QED BY <2>1, <2>2, <2>3, <2>4 DEF RowOK, Working
<1>4. OwnArtifacts'
  BY <1>1, OwnArtifactsKept DEF IInv
<1>5. RestorableIsWhole' /\ \A t \in Caller : call'[t] = Idle
  BY DEF IInv, RestorableIsWhole
<1> QED BY <1>2, <1>3, <1>4, <1>5 DEF IInv

------------------------------------------------------------------------------
(* The theorems                                                            *)

\* The invariant above holds in every state of every run: submissions,
\* cancellations, workers, the helper and restarts keep it.
THEOREM Invariance == Spec => []IInv
<1>1. IInv /\ [Next]_vars => IInv'
  <2> SUFFICES ASSUME IInv, [Next]_vars PROVE IInv'
    OBVIOUS
  <2>1. ASSUME NEW o \in OpId, NEW b \in BackupId, SubmitBackup(o, b) \/ SubmitRestore(o, b)
        PROVE  IInv'
    BY <2>1, SubmitStep DEF SubmitBackup, SubmitRestore
  <2>2. ASSUME NEW t \in Caller,
               (\E o \in OpId : CancelRead(t, o)) \/ CancelMark(t) \/ CancelWrite(t)
        PROVE  IInv'
    BY <2>2, CancelReadStep, CancelMarkStep, CancelWriteStep
  <2>3. ASSUME NEW o \in OpId, WorkerStep(o) PROVE IInv'
    BY <2>3, WorkerStepInvariant
  <2>4. ASSUME NEW q \in Profile, Restart(q) PROVE IInv'
    BY <2>4, RestartStep
  <2>5. CASE UNCHANGED vars
    BY <2>5 DEF vars, IInv, TypeOK, RowOK, Working, WorkerOK, CallOK, OwnArtifacts,
                RestorableIsWhole, Earned, Whole, Restorable
  <2> QED BY <2>1, <2>2, <2>3, <2>4, <2>5 DEF Next
<1> QED BY InitInvariant, <1>1, PTL DEF Spec

\* Rows, artifacts, documents and what a cancellation has read keep their
\* types, whatever overwrites what.
THEOREM TypeCorrectness == Spec => []TypeOK
<1>1. IInv => TypeOK
  BY DEF IInv
<1> QED BY Invariance, <1>1, PTL

\* An artifact that RecoveryStore.artifact offers for restore has all of its
\* scopes in the vault.
THEOREM WholeArtifacts == Spec => []RestorableIsWhole
<1>1. IInv => RestorableIsWhole
  BY DEF IInv
<1> QED BY Invariance, <1>1, PTL

\* _run_restore never applies a scope of an artifact that is incomplete or of
\* another profile, across any restarts of the Manager.
THEOREM GatedRestores == Spec => []RestoresPassTheGate
<1>1. IInv => RestoresPassTheGate
  BY DEF IInv, RowOK, Whole, RestoresPassTheGate
<1> QED BY Invariance, <1>1, PTL

\* A row saved as succeeded is true: neither a late cancellation nor a restart
\* nor a worker that saves an older document makes it false.
THEOREM EarnedSuccess == Spec => []SuccessIsEarned
<1>1. IInv => SuccessIsEarned
  BY DEF IInv, RowOK, Earned, Whole, SuccessIsEarned
<1> QED BY Invariance, <1>1, PTL
==============================================================================
