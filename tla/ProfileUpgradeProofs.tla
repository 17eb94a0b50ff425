------------------------- MODULE ProfileUpgradeProofs -------------------------
(***************************************************************************)
(* For every registry, set of targets, number of plans, upgrades and        *)
(* requests: types, NoHiddenChange, PlanExecutedOnce, BlockedIsLeftAlone    *)
(* and RollbackReversesOrder.                                               *)
(*                                                                         *)
(* What an upgrade has changed is in its list `mutated' or is the component *)
(* whose adapter it is calling, and its row has no terminal state before    *)
(* its worker has ended: a row that a stale cancellation writes after that  *)
(* is active again, and the next restart asks for its review.               *)
(***************************************************************************)
EXTENDS ProfileUpgrade, WellFoundedInduction, TLAPS

------------------------------------------------------------------------------
(* The invariant                                                           *)

Taken(p) == plans[p] # Absent /\ plans[p].consumed

\* The row says that nothing is left to be done.
Settled(row) == row.state # "succeeded" /\ row.recovery \in {"not-required", "rolled-back"}

\* The worker of o, past its first step.
WorkerOK(o) ==
    /\ doc[o] # Absent /\ doc[o].plan = rows[o].plan
    /\ worker[o] \in {"loop", "adapter", "mutation", "verify", "save"} => doc[o].state = "running"
    /\ worker[o] \in {"loop", "adapter", "mutation", "verify", "save", "rollback"} =>
          touched[o] \subseteq mutated[o]
    /\ worker[o] = "adapter" => doc[o].current \in Changed[Goal(o)]
    /\ worker[o] \in {"recover", "rollback"} => doc[o].state \in {"failed", "cancelled", "timed-out"}
    /\ worker[o] = "recover" => touched[o] \subseteq Suspected(o)
    /\ worker[o] = "rollback" => \A c \in mutated[o] : Class[Goal(o)][c] \notin Blocking
    /\ worker[o] = "end" => /\ doc[o].state \in TerminalStates \ {"interrupted"}
                            /\ Settled(doc[o]) => touched[o] = {}

UpgradeOK(o) ==
    /\ rows[o] = Absent => worker[o] = "none" /\ touched[o] = {}
    /\ rows[o] # Absent => Taken(rows[o].plan)
    /\ worker[o] # "none" => rows[o].state \notin TerminalStates
    /\ worker[o] = "start" => touched[o] = {}
    /\ worker[o] \notin {"none", "start"} => WorkerOK(o)
    /\ Ended(o) /\ rows[o].state # "interrupted" /\ Settled(rows[o]) => touched[o] = {}
    /\ up /\ NeedsReview(o) => rows[o].recovery = "operator-review-required"

\* A request that has consumed a plan is the only one to have it.
CallOK(t) ==
    /\ call[t].at = "consume" => plans[call[t].plan] # Absent
    /\ call[t].at = "put" =>
          /\ Taken(call[t].plan)
          /\ \A o \in OpId : rows[o] # Absent => rows[o].plan # call[t].plan
          /\ \A u \in Caller \ {t} : call[u].at = "put" => call[u].plan # call[t].plan
    /\ call[t].at \in {"mark", "write"} =>
          rows[call[t].op] # Absent /\ call[t].doc.plan = rows[call[t].op].plan

IInv ==
    /\ TypeOK
    /\ \A o \in OpId : UpgradeOK(o)
    /\ \A t \in Caller : CallOK(t)
    /\ PlanExecutedOnce

LEMMA InitInvariant == Init => IInv
<1> SUFFICES ASSUME Init PROVE IInv
  OBVIOUS
<1>1. TypeOK
  BY DEF Init, TypeOK
<1>2. \A o \in OpId : UpgradeOK(o)
  BY DEF Init, UpgradeOK, Ended, NeedsReview
<1>3. \A t \in Caller : CallOK(t)
  BY DEF Init, CallOK, Idle
<1> QED BY <1>1, <1>2, <1>3 DEF IInv, Init, PlanExecutedOnce

------------------------------------------------------------------------------
(* The last component of a list                                            *)

LEMMA MaxComponent ==
    ASSUME NEW S \in SUBSET Component, S # {}
    PROVE  Max(S) \in S /\ \A c \in S : c <= Max(S)
<1>1. N \in Nat /\ \A c \in S : c \in Int /\ 1 <= c /\ c <= N
  BY UpgradeAssumption DEF Component
<1> DEFINE T == {N - c : c \in S}
<1>2. T \subseteq Nat /\ T # {}
  BY <1>1
<1>3. PICK x \in T : \A y \in T : ~(<<y, x>> \in OpToRel(<, Nat))
  BY <1>2, NatLessThanWellFounded, WFMin
<1>4. PICK m \in S : x = N - m
  OBVIOUS
<1>5. \A c \in S : ~(N - c < N - m)
  BY <1>2, <1>3, <1>4 DEF OpToRel
<1>6. \A c \in S : m >= c
  BY <1>1, <1>5
<1> QED BY <1>1, <1>6 DEF Max

------------------------------------------------------------------------------
(* What a step leaves to the other upgrades and requests                   *)

\* Plans are consumed and expire; their target stays.
PlansKept ==
    \A p \in PlanId : plans[p] # Absent =>
        /\ plans'[p] # Absent /\ plans'[p].target = plans[p].target
        /\ plans[p].consumed => plans'[p].consumed

RowsKept ==
    \A o \in OpId : rows[o] # Absent => rows'[o] # Absent /\ rows'[o].plan = rows[o].plan

\* What is known of plan, document and row of an upgrade.
LEMMA Facts ==
    ASSUME IInv, NEW o \in OpId, rows[o] # Absent
    PROVE  /\ rows[o] \in Operation /\ rows[o].plan \in PlanId /\ Taken(rows[o].plan)
           /\ plans[rows[o].plan] \in Plan
           /\ worker[o] \notin {"none", "start"} =>
                 /\ WorkerOK(o) /\ doc[o] \in Operation /\ doc[o].plan = rows[o].plan
                 /\ Goal(o) \in Target
                 /\ Changed[Goal(o)] \subseteq Component /\ Suspected(o) \subseteq Component
<1>1. rows[o] \in Operation /\ rows[o].plan \in PlanId /\ Taken(rows[o].plan)
  BY DEF IInv, TypeOK, UpgradeOK, Operation
<1>2. plans[rows[o].plan] \in Plan
  BY <1>1 DEF IInv, TypeOK, Taken
<1>3. ASSUME worker[o] \notin {"none", "start"}
      PROVE  /\ WorkerOK(o) /\ doc[o] \in Operation /\ doc[o].plan = rows[o].plan
             /\ Goal(o) \in Target
             /\ Changed[Goal(o)] \subseteq Component /\ Suspected(o) \subseteq Component
  <2>1. WorkerOK(o) /\ doc[o] \in Operation /\ doc[o].plan = rows[o].plan
    BY <1>3 DEF IInv, TypeOK, UpgradeOK, WorkerOK
  <2>2. Goal(o) \in Target
    BY <1>2, <2>1 DEF Goal, Plan
  <2>3. Changed[Goal(o)] \subseteq Component
    BY <2>2, UpgradeAssumption DEF Component
  <2>4. mutated[o] \subseteq Component
    BY DEF IInv, TypeOK
  <2> QED BY <2>1, <2>2, <2>3, <2>4 DEF Suspected
<1> QED BY <1>1, <1>2, <1>3

LEMMA UpgradeFrame ==
    ASSUME IInv, NEW o \in OpId, PlansKept, up' => up \/ ~NeedsReview(o),
           rows'[o] = rows[o], worker'[o] = worker[o], doc'[o] = doc[o],
           mutated'[o] = mutated[o], touched'[o] = touched[o]
    PROVE  UpgradeOK(o)'
<1>1. UpgradeOK(o) /\ (rows[o] # Absent => rows[o].plan \in PlanId)
  BY Facts DEF IInv
<1>2. rows[o] # Absent => (Taken(rows[o].plan) => Taken(rows[o].plan)')
  BY <1>1 DEF PlansKept, Taken
<1>3. ASSUME rows[o] # Absent, worker[o] \notin {"none", "start"} PROVE WorkerOK(o)'
  <2>1. WorkerOK(o) /\ doc[o].plan = rows[o].plan /\ rows[o].plan \in PlanId
        /\ plans[doc[o].plan] # Absent
    BY <1>3, Facts DEF Taken
  <2>2. Goal(o)' = Goal(o)
    BY <2>1 DEF PlansKept, Goal
  <2>3. Suspected(o)' = Suspected(o)
    BY <2>2 DEF Suspected
  <2> QED BY <2>1, <2>2, <2>3 DEF WorkerOK, Settled
<1> QED BY <1>1, <1>2, <1>3 DEF UpgradeOK, Ended, NeedsReview, Settled

LEMMA CallFrame ==
    ASSUME IInv, NEW t \in Caller, PlansKept, RowsKept, call'[t] = call[t],
           \A u \in Caller \ {t} : call'[u].at = "put" =>
              \/ call[u].at = "put" /\ call'[u].plan = call[u].plan
              \/ call[t].at = "put" => call'[u].plan # call[t].plan,
           \A o \in OpId : rows'[o] # Absent /\ rows[o] = Absent =>
                               (call[t].at = "put" => rows'[o].plan # call[t].plan)
    PROVE  CallOK(t)'
<1>1. CallOK(t) /\ call[t] \in {Idle} \union [at : {"consume", "put"}, plan : PlanId]
                     \union [at : {"mark", "write"}, op : OpId, doc : Operation]
  BY DEF IInv, TypeOK
<1>2. call[t].at \in {"consume", "put"} => call[t].plan \in PlanId
  BY <1>1 DEF Idle
<1>3. call[t].at \in {"mark", "write"} => call[t].op \in OpId
  BY <1>1 DEF Idle
<1> QED BY <1>1, <1>2, <1>3 DEF CallOK, Taken, PlansKept, RowsKept

\* A step that takes no plan and creates no row keeps the plans apart.
LEMMA OnceFrame ==
    ASSUME IInv, RowsKept, \A o \in OpId : rows'[o] # Absent => rows[o] # Absent
    PROVE  PlanExecutedOnce'
BY DEF IInv, RowsKept, PlanExecutedOnce

LEMMA WorkerFrame ==
    ASSUME IInv, NEW o \in OpId, UNCHANGED <<plans, up, call>>,
           rows[o] # Absent, rows'[o] # Absent, rows'[o].plan = rows[o].plan,
           \A p \in OpId \ {o} : /\ rows'[p] = rows[p] /\ worker'[p] = worker[p]
                                 /\ doc'[p] = doc[p] /\ mutated'[p] = mutated[p]
                                 /\ touched'[p] = touched[p],
           TypeOK', UpgradeOK(o)'
    PROVE  IInv'
<1>1. PlansKept /\ RowsKept /\ \A p \in OpId : rows'[p] # Absent => rows[p] # Absent
  BY DEF PlansKept, RowsKept
<1>2. \A p \in OpId : UpgradeOK(p)'
  BY <1>1, UpgradeFrame
<1>3. \A t \in Caller : CallOK(t)'
  BY <1>1, CallFrame
<1> QED BY <1>1, <1>2, <1>3, OnceFrame DEF IInv

------------------------------------------------------------------------------
(* Plans and requests                                                      *)

\* No upgrade is touched, and call t becomes c.
LEMMA RequestFrame ==
    ASSUME IInv, PlansKept, UNCHANGED <<rows, worker, doc, mutated, touched>>, up' => up, TypeOK',
           \A t \in Caller : \/ CallOK(t)'
                             \/ /\ call'[t] = call[t]
                                /\ \A u \in Caller \ {t} : call'[u].at = "put" =>
                                      \/ call[u].at = "put" /\ call'[u].plan = call[u].plan
                                      \/ call[t].at = "put" => call'[u].plan # call[t].plan
    PROVE  IInv'
<1>1. RowsKept
  BY DEF RowsKept
<1>2. \A o \in OpId : UpgradeOK(o)'
  BY UpgradeFrame
<1>3. \A t \in Caller : CallOK(t)'
  BY <1>1, CallFrame
<1> QED BY <1>1, <1>2, <1>3, OnceFrame DEF IInv

LEMMA MakePlanStep ==
    ASSUME IInv, NEW p \in PlanId, NEW t \in Target, MakePlan(p, t)
    PROVE  IInv'
<1>1. PICK r : /\ r = [target |-> t, evidence |-> evidence, consumed |-> FALSE, expired |-> FALSE]
               /\ plans' = [plans EXCEPT ![p] = r]
  BY DEF MakePlan
<1>2. plans[p] = Absent /\ UNCHANGED <<rows, up, call, thread, cancelled, external>>
  BY DEF MakePlan
<1>3. r \in Plan
  BY <1>1 DEF IInv, TypeOK, Plan
<1>4. TypeOK'
  BY <1>1, <1>2, <1>3 DEF IInv, TypeOK, thread, external
<1>5. PlansKept
  BY <1>1, <1>2 DEF PlansKept, IInv, TypeOK
<1> QED BY <1>2, <1>4, <1>5, RequestFrame DEF thread, external

LEMMA ExpireStep ==
    ASSUME IInv, NEW p \in PlanId, Expire(p)
    PROVE  IInv'
<1>1. PICK r : r = [plans[p] EXCEPT !.expired = TRUE] /\ plans' = [plans EXCEPT ![p] = r]
  BY DEF Expire
<1>2. plans[p] \in Plan /\ UNCHANGED <<rows, up, call, thread, cancelled, external>>
  BY DEF Expire, IInv, TypeOK
<1>3. r \in Plan /\ r.target = plans[p].target /\ r.consumed = plans[p].consumed
  BY <1>1, <1>2 DEF Plan
<1>4. TypeOK'
  BY <1>1, <1>2, <1>3 DEF IInv, TypeOK, thread, external
<1>5. PlansKept
  BY <1>1, <1>3, AbsentAssumption DEF PlansKept, IInv, TypeOK
<1> QED BY <1>2, <1>4, <1>5, RequestFrame DEF thread, external

LEMMA SubmitCheckStep ==
    ASSUME IInv, NEW t \in Caller, NEW p \in PlanId, SubmitCheck(t, p)
    PROVE  IInv'
<1>1. PICK c : c = [at |-> "consume", plan |-> p] /\ call' = [call EXCEPT ![t] = c]
  BY DEF SubmitCheck
<1>2. plans[p] # Absent /\ UNCHANGED <<plans, rows, up, thread, cancelled, external>>
  BY DEF SubmitCheck
<1>3. TypeOK'
  BY <1>1, <1>2 DEF IInv, TypeOK, thread, external
<1>4. /\ call'[t].at = "consume" /\ call'[t].plan = p
      /\ \A u \in Caller \ {t} : call'[u] = call[u]
  BY <1>1 DEF IInv, TypeOK
<1>5. CallOK(t)'
  BY <1>2, <1>4 DEF CallOK
<1>6. PlansKept
  BY <1>2 DEF PlansKept
<1> QED BY <1>2, <1>3, <1>4, <1>5, <1>6, RequestFrame DEF thread, external

LEMMA SubmitConsumeStep ==
    ASSUME IInv, NEW t \in Caller, SubmitConsume(t)
    PROVE  IInv'
<1> DEFINE p == call[t].plan
<1>1. call[t].at = "consume" /\ call[t] \in [at : {"consume", "put"}, plan : PlanId]
  BY DEF SubmitConsume, IInv, TypeOK, Idle
<1>2. PICK q \in PlanId : q = p
  BY <1>1
<1>3. plans[q] \in Plan /\ plans[q] # Absent /\ UNCHANGED <<rows, up, thread, cancelled, external>>
  BY <1>1, <1>2 DEF SubmitConsume, IInv, TypeOK, CallOK
<1>4. CASE Open(p)
  <2>1. PICK r : r = [plans[q] EXCEPT !.consumed = TRUE] /\ plans' = [plans EXCEPT ![q] = r]
    BY <1>2, <1>4 DEF SubmitConsume
  <2>2. r \in Plan /\ r.target = plans[q].target /\ r.consumed
    BY <1>3, <2>1 DEF Plan
  <2>3. PICK c : c = [call[t] EXCEPT !.at = "put"] /\ call' = [call EXCEPT ![t] = c]
    BY <1>4 DEF SubmitConsume
  <2>4. c \in [at : {"consume", "put"}, plan : PlanId] /\ c.at = "put" /\ c.plan = q
    BY <1>1, <1>2, <2>3
  <2>5. TypeOK'
    BY <1>3, <2>1, <2>2, <2>3, <2>4 DEF IInv, TypeOK, thread, external
  <2>6. /\ PlansKept /\ Taken(q)' /\ ~plans[q].consumed
        /\ call'[t] = c /\ \A u \in Caller \ {t} : call'[u] = call[u]
    BY <1>2, <1>3, <1>4, <2>1, <2>2, <2>3, AbsentAssumption DEF PlansKept, Taken, Open, IInv, TypeOK
  <2>7. \A o \in OpId : rows[o] # Absent => rows[o].plan # q
    BY <2>6, Facts DEF Taken
  <2>8. \A u \in Caller \ {t} : call[u].at = "put" => call[u].plan # q
    BY <2>6 DEF IInv, CallOK, Taken
  <2>9. CallOK(t)'
    BY <1>3, <2>4, <2>6, <2>7, <2>8 DEF CallOK, Taken
  <2> QED BY <1>3, <2>4, <2>5, <2>6, <2>8, <2>9, RequestFrame DEF thread, external
<1>5. CASE ~Open(p)
  <2>1. call' = [call EXCEPT ![t] = Idle] /\ UNCHANGED plans
    BY <1>5 DEF SubmitConsume
  <2>2. /\ TypeOK' /\ PlansKept /\ CallOK(t)'
        /\ call'[t].at # "put" /\ \A u \in Caller \ {t} : call'[u] = call[u]
    BY <1>3, <2>1 DEF IInv, TypeOK, PlansKept, CallOK, Idle, thread, external
  <2> QED BY <1>3, <2>2, RequestFrame DEF thread, external
<1> QED BY <1>4, <1>5

LEMMA CancelReadStep ==
    ASSUME IInv, NEW t \in Caller, NEW o \in OpId, CancelRead(t, o)
    PROVE  IInv'
<1>1. PICK c : c = [at |-> "mark", op |-> o, doc |-> rows[o]] /\ call' = [call EXCEPT ![t] = c]
  BY DEF CancelRead
<1>2. rows[o] # Absent /\ rows[o] \in Operation
      /\ UNCHANGED <<plans, rows, up, thread, cancelled, external>>
  BY DEF CancelRead, IInv, TypeOK
<1>3. c \in [at : {"mark", "write"}, op : OpId, doc : Operation]
  BY <1>1, <1>2
<1>4. TypeOK'
  BY <1>1, <1>2, <1>3 DEF IInv, TypeOK, thread, external
<1>5. call'[t] = c /\ \A u \in Caller \ {t} : call'[u] = call[u]
  BY <1>1 DEF IInv, TypeOK
<1>6. CallOK(t)' /\ PlansKept
  BY <1>1, <1>2, <1>5 DEF CallOK, PlansKept
<1> QED BY <1>1, <1>2, <1>4, <1>5, <1>6, RequestFrame DEF thread, external

LEMMA CancelMarkStep ==
    ASSUME IInv, NEW t \in Caller, CancelMark(t)
    PROVE  IInv'
<1>1. call[t].at = "mark" /\ call[t] \in [at : {"mark", "write"}, op : OpId, doc : Operation]
      /\ UNCHANGED <<plans, rows, up, thread, external>>
  BY DEF CancelMark, IInv, TypeOK, Idle
<1>2. PICK c : c = [call[t] EXCEPT !.at = "write"] /\ call' = [call EXCEPT ![t] = c]
  BY DEF CancelMark
<1>3. /\ c \in [at : {"mark", "write"}, op : OpId, doc : Operation]
      /\ c.at = "write" /\ c.op = call[t].op /\ c.doc = call[t].doc
  BY <1>1, <1>2
<1>4. cancelled' \subseteq OpId
  BY <1>1 DEF CancelMark, IInv, TypeOK
<1>5. TypeOK'
  BY <1>1, <1>2, <1>3, <1>4 DEF IInv, TypeOK, thread, external
<1>6. call'[t] = c /\ \A u \in Caller \ {t} : call'[u] = call[u]
  BY <1>2 DEF IInv, TypeOK
<1>7. CallOK(t)' /\ PlansKept
  BY <1>1, <1>3, <1>6 DEF IInv, CallOK, PlansKept
<1> QED BY <1>1, <1>3, <1>5, <1>6, <1>7, RequestFrame DEF thread, external

LEMMA SubmitPutStep ==
    ASSUME IInv, NEW t \in Caller, NEW o \in OpId, SubmitPut(t, o)
    PROVE  IInv'
<1>1. call[t].at = "put" /\ call[t] \in [at : {"consume", "put"}, plan : PlanId]
      /\ rows[o] = Absent /\ UNCHANGED <<plans, up, doc, mutated, cancelled, external>>
  BY DEF SubmitPut, IInv, TypeOK, Idle
<1>2. PICK r : /\ r = [plan |-> call[t].plan, state |-> "queued", current |-> 0,
                       done |-> 0, recovery |-> "not-required"]
               /\ rows' = [rows EXCEPT ![o] = r]
  BY DEF SubmitPut
<1>3. worker' = [worker EXCEPT ![o] = "start"] /\ call' = [call EXCEPT ![t] = Idle]
  BY DEF SubmitPut
<1>4. r \in Operation /\ r.plan = call[t].plan /\ r.state = "queued" /\ r.plan \in PlanId
  BY <1>1, <1>2, UpgradeAssumption DEF Operation
<1>5. TypeOK'
  BY <1>1, <1>2, <1>3, <1>4 DEF IInv, TypeOK, external
<1>6. /\ rows'[o] = r /\ worker'[o] = "start" /\ call'[t].at = "idle"
      /\ \A q \in OpId \ {o} : rows'[q] = rows[q] /\ worker'[q] = worker[q]
      /\ \A u \in Caller \ {t} : call'[u] = call[u]
  BY <1>2, <1>3 DEF IInv, TypeOK, Idle
<1>7. PlansKept /\ RowsKept /\ r # Absent
  BY <1>1, <1>4, <1>6, AbsentAssumption DEF PlansKept, RowsKept
<1>8. UpgradeOK(o)'
  BY <1>1, <1>4, <1>6, <1>7 DEF IInv, UpgradeOK, CallOK, Taken, Ended, NeedsReview, TerminalStates, external
<1>9. \A q \in OpId \ {o} : UpgradeOK(q)'
  BY <1>1, <1>6, <1>7, UpgradeFrame DEF external
<1>10. ASSUME NEW u \in Caller PROVE CallOK(u)'
  <2>1. CASE u = t
    BY <1>6, <2>1 DEF CallOK
  <2>2. CASE u # t
    <3>1. call[u].at = "put" => call[u].plan # r.plan
      BY <1>1, <1>4, <2>2 DEF IInv, CallOK
    <3> QED BY <1>6, <1>7, <2>2, <3>1, CallFrame
  <2> QED BY <2>1, <2>2
<1>11. PlanExecutedOnce'
  <2>1. \A q \in OpId \ {o} : rows'[q] # Absent => rows'[q].plan # r.plan
    BY <1>1, <1>4, <1>6 DEF IInv, CallOK
  <2> QED BY <1>6, <2>1 DEF IInv, PlanExecutedOnce
<1> QED BY <1>5, <1>8, <1>9, <1>10, <1>11 DEF IInv

\* The row of the cancelled upgrade is active, whatever it was before.
LEMMA CancelWriteStep ==
    ASSUME IInv, NEW t \in Caller, CancelWrite(t)
    PROVE  IInv'
<1>1. call[t].at = "write" /\ call[t] \in [at : {"mark", "write"}, op : OpId, doc : Operation]
      /\ UNCHANGED <<plans, up, thread, cancelled, external>>
  BY DEF CancelWrite, IInv, TypeOK, Idle
<1>2. PICK o \in OpId : o = call[t].op
  BY <1>1
<1>3. PICK r : /\ r = [call[t].doc EXCEPT !.state = "cancelling"]
               /\ rows' = [rows EXCEPT ![o] = r]
  BY <1>2 DEF CancelWrite
<1>4. r \in Operation /\ r.plan = call[t].doc.plan /\ r.state = "cancelling" /\ r # Absent
  BY <1>1, <1>3, AbsentAssumption DEF Operation
<1>5. rows[o] # Absent /\ r.plan = rows[o].plan
  BY <1>1, <1>2, <1>4 DEF IInv, CallOK
<1>6. call' = [call EXCEPT ![t] = Idle]
  BY DEF CancelWrite
<1>7. TypeOK'
  BY <1>1, <1>3, <1>4, <1>6 DEF IInv, TypeOK, thread, external
<1>8. /\ rows'[o] = r /\ call'[t].at = "idle"
      /\ \A q \in OpId \ {o} : rows'[q] = rows[q]
      /\ \A u \in Caller \ {t} : call'[u] = call[u]
  BY <1>3, <1>6 DEF IInv, TypeOK, Idle
<1>9. PlansKept /\ RowsKept /\ \A q \in OpId : rows'[q] # Absent => rows[q] # Absent
  BY <1>1, <1>4, <1>5, <1>8 DEF PlansKept, RowsKept
<1>10. UpgradeOK(o)'
  <2>1. worker[o] \notin {"none", "start"} => WorkerOK(o)'
    <3>1. ASSUME worker[o] \notin {"none", "start"} PROVE WorkerOK(o)'
      <4>1. WorkerOK(o)
        BY <1>5, <3>1, Facts
      <4>2. Goal(o)' = Goal(o) /\ Suspected(o)' = Suspected(o)
        BY <1>1 DEF Goal, Suspected, thread
      <4> QED BY <1>1, <1>5, <1>8, <4>1, <4>2 DEF WorkerOK, Settled, thread, external
    <3> QED BY <3>1
  <2> QED BY <1>1, <1>4, <1>5, <1>8, <2>1
          DEF IInv, UpgradeOK, Taken, Ended, NeedsReview, TerminalStates, thread, external
<1>11. \A q \in OpId \ {o} : UpgradeOK(q)'
  BY <1>1, <1>8, <1>9, UpgradeFrame DEF thread, external
<1>12. ASSUME NEW u \in Caller PROVE CallOK(u)'
  <2>1. CASE u = t
    BY <1>8, <2>1 DEF CallOK
  <2>2. CASE u # t
    BY <1>8, <1>9, <2>2, CallFrame
  <2> QED BY <2>1, <2>2
<1> QED BY <1>7, <1>9, <1>10, <1>11, <1>12, OnceFrame DEF IInv

------------------------------------------------------------------------------
(* The worker                                                              *)

\* A worker at work is past the creation of its row.
LEMMA AtWork ==
    ASSUME IInv, NEW o \in OpId, worker[o] # "none"
    PROVE  /\ rows[o] # Absent /\ rows[o] \in Operation /\ rows[o].state \notin TerminalStates
           /\ Taken(rows[o].plan) /\ UpgradeOK(o)
           /\ worker[o] # "start" =>
                 /\ WorkerOK(o) /\ doc[o] \in Operation /\ doc[o].plan = rows[o].plan
                 /\ Goal(o) \in Target
                 /\ Changed[Goal(o)] \subseteq Component /\ Suspected(o) \subseteq Component
BY Facts DEF IInv, UpgradeOK

\* Its step, with document d and row r afterwards.
LEMMA WorkerStepFrame ==
    ASSUME IInv, NEW o \in OpId, worker[o] # "none", UNCHANGED <<plans, up, call, evidence>>,
           NEW d \in Operation, NEW r \in Operation,
           doc' = [doc EXCEPT ![o] = d], rows' = [rows EXCEPT ![o] = r],
           d.plan = rows[o].plan, r.plan = rows[o].plan, r.state \notin TerminalStates,
           \E point : worker' = [worker EXCEPT ![o] = point],
           worker'[o] \in {"loop", "adapter", "mutation", "verify", "save", "recover", "rollback", "end"},
           mutated' \in [OpId -> SUBSET Component], touched' \in [OpId -> SUBSET Component],
           version' \in [Component -> {"source"} \union Target], cancelled' \subseteq OpId,
           \A p \in OpId \ {o} : mutated'[p] = mutated[p] /\ touched'[p] = touched[p],
           WorkerOK(o)'
    PROVE  IInv'
<1>1. PICK w : worker' = [worker EXCEPT ![o] = w]
  OBVIOUS
<1>2. w \in {"loop", "adapter", "mutation", "verify", "save", "recover", "rollback", "end"}
      /\ worker'[o] = w
  BY <1>1 DEF IInv, TypeOK
<1>3. TypeOK'
  BY <1>1, <1>2 DEF IInv, TypeOK
<1>4. /\ rows'[o] = r /\ doc'[o] = d
      /\ \A p \in OpId \ {o} : /\ rows'[p] = rows[p] /\ worker'[p] = worker[p] /\ doc'[p] = doc[p]
                               /\ mutated'[p] = mutated[p] /\ touched'[p] = touched[p]
  BY <1>1 DEF IInv, TypeOK
<1>5. r # Absent /\ rows[o] # Absent /\ Taken(r.plan)
  BY AtWork, AbsentAssumption
<1>6. UpgradeOK(o)'
  BY <1>2, <1>4, <1>5 DEF UpgradeOK, Taken, Ended, NeedsReview, TerminalStates
<1> QED BY <1>3, <1>4, <1>5, <1>6, WorkerFrame

LEMMA GoalKept ==
    ASSUME IInv, NEW o \in OpId, worker[o] \notin {"none", "start"}, UNCHANGED plans,
           doc'[o].plan = rows[o].plan
    PROVE  Goal(o)' = Goal(o)
BY AtWork DEF Goal

LEMMA StartStep ==
    ASSUME IInv, NEW o \in OpId, Start(o)
    PROVE  IInv'
<1>1. worker[o] = "start" /\ UNCHANGED <<plans, up, call, mutated, cancelled, external>>
  BY DEF Start
<1>2. rows[o] \in Operation /\ touched[o] = {}
  BY <1>1, AtWork DEF UpgradeOK
<1>3. PICK d : d = [rows[o] EXCEPT !.state = "running"] /\ doc' = [doc EXCEPT ![o] = d]
  BY DEF Start
<1>4. d \in Operation /\ d.plan = rows[o].plan /\ d.state = "running"
  BY <1>2, <1>3 DEF Operation
<1>5. doc'[o] = d
  BY <1>3 DEF IInv, TypeOK
<1>6. rows' = [rows EXCEPT ![o] = d] /\ worker' = [worker EXCEPT ![o] = "loop"]
  BY <1>5 DEF Start, Save, Go
<1>7. rows'[o] = d /\ worker'[o] = "loop"
  BY <1>6 DEF IInv, TypeOK
<1>8. WorkerOK(o)'
  BY <1>1, <1>2, <1>4, <1>5, <1>7, AbsentAssumption DEF WorkerOK, external
<1> HIDE DEF TerminalStates
<1>9. "running" \notin TerminalStates
  BY DEF TerminalStates
<1> QED BY <1>1, <1>3, <1>4, <1>6, <1>7, <1>8, <1>9, WorkerStepFrame DEF IInv, TypeOK, external

LEMMA NextComponentStep ==
    ASSUME IInv, NEW o \in OpId, NextComponent(o)
    PROVE  IInv'
<1>1. worker[o] = "loop" /\ doc[o].done < N
      /\ UNCHANGED <<plans, up, call, mutated, cancelled, external>>
  BY DEF NextComponent, StepsLeft
<1>2. /\ rows[o] \in Operation /\ rows[o].state \notin TerminalStates
      /\ doc[o] \in Operation /\ doc[o].plan = rows[o].plan
      /\ doc[o].state = "running" /\ touched[o] \subseteq mutated[o]
  BY <1>1, AtWork DEF WorkerOK
<1>3. doc[o] # Absent
  BY <1>2, AbsentAssumption
<1>4. CASE o \in cancelled
  <2>1. PICK d : d = [doc[o] EXCEPT !.state = "cancelled"] /\ doc' = [doc EXCEPT ![o] = d]
    BY <1>4 DEF NextComponent
  <2>2. d \in Operation /\ d.plan = rows[o].plan /\ d.state = "cancelled"
    BY <1>2, <2>1 DEF Operation, TerminalStates
  <2>3. rows' = [rows EXCEPT ![o] = rows[o]] /\ worker' = [worker EXCEPT ![o] = "recover"]
    BY <1>4 DEF NextComponent, Go, IInv, TypeOK
  <2>4. doc'[o] = d /\ rows'[o] = rows[o] /\ worker'[o] = "recover"
    BY <2>1, <2>3 DEF IInv, TypeOK
  <2>5. WorkerOK(o)'
    BY <1>1, <1>2, <2>2, <2>4, AbsentAssumption DEF WorkerOK, Suspected, external
  <2> QED BY <1>1, <1>2, <2>1, <2>2, <2>3, <2>4, <2>5, WorkerStepFrame DEF IInv, TypeOK, external
<1>5. CASE o \notin cancelled
  <2>1. PICK d : d = [doc[o] EXCEPT !.current = doc[o].done + 1] /\ doc' = [doc EXCEPT ![o] = d]
    BY <1>5 DEF NextComponent
  <2>2. doc[o].done + 1 \in 0..N
    BY <1>1, <1>2, UpgradeAssumption DEF Operation
  <2>3. d \in Operation /\ d.plan = rows[o].plan /\ d.state = "running" /\ d.current = doc[o].done + 1
    BY <1>2, <2>1, <2>2 DEF Operation
  <2>4. doc'[o] = d
    BY <2>1 DEF IInv, TypeOK
  <2>5. PICK w \in {"adapter", "verify"} :
           /\ worker' = [worker EXCEPT ![o] = w]
           /\ w = "adapter" => d.current \in Changed[Goal(o)]
    BY <1>5, <2>3 DEF NextComponent, Go
  <2>6. rows' = [rows EXCEPT ![o] = d]
    BY <1>5, <2>4 DEF NextComponent, Save
  <2>7. rows'[o] = d /\ worker'[o] = w
    BY <2>5, <2>6 DEF IInv, TypeOK
  <2>8. Goal(o)' = Goal(o)
    BY <1>1, <2>3, <2>4, GoalKept
  <2>9. WorkerOK(o)'
    BY <1>1, <1>2, <2>3, <2>4, <2>5, <2>7, <2>8, AbsentAssumption DEF WorkerOK, external
  <2>10. "running" \notin TerminalStates
    BY DEF TerminalStates
  <2> QED BY <1>1, <2>1, <2>3, <2>5, <2>6, <2>7, <2>9, <2>10, WorkerStepFrame
          DEF IInv, TypeOK, external
<1> QED BY <1>4, <1>5

\* external: what the adapter applied is the component it was called for.
LEMMA Applied ==
    ASSUME IInv, NEW o \in OpId, worker[o] = "adapter", Apply(o)
    PROVE  /\ touched' \in [OpId -> SUBSET Component]
           /\ version' \in [Component -> {"source"} \union Target]
           /\ touched'[o] = touched[o] \union {doc[o].current}
           /\ \A p \in OpId \ {o} : touched'[p] = touched[p]
<1>1. doc[o].current \in Component /\ Goal(o) \in Target
  BY AtWork DEF WorkerOK
<1> QED BY <1>1 DEF Apply, IInv, TypeOK

LEMMA UpgradedStep ==
    ASSUME IInv, NEW o \in OpId, Upgraded(o)
    PROVE  IInv'
<1>1. worker[o] = "adapter" /\ Apply(o) /\ UNCHANGED <<plans, rows, up, call, doc, cancelled, evidence>>
  BY DEF Upgraded
<1>2. /\ rows[o] \in Operation /\ rows[o].state \notin TerminalStates
      /\ doc[o] \in Operation /\ doc[o].plan = rows[o].plan /\ doc[o] # Absent
      /\ doc[o].state = "running" /\ touched[o] \subseteq mutated[o]
      /\ doc[o].current \in Component
  BY <1>1, AtWork, AbsentAssumption DEF WorkerOK
<1>3. /\ worker' = [worker EXCEPT ![o] = "mutation"]
      /\ mutated' = [mutated EXCEPT ![o] = @ \union {doc[o].current}]
  BY DEF Upgraded, Go
<1>4. /\ worker'[o] = "mutation" /\ mutated'[o] = mutated[o] \union {doc[o].current}
      /\ mutated' \in [OpId -> SUBSET Component]
      /\ \A p \in OpId \ {o} : mutated'[p] = mutated[p]
  BY <1>2, <1>3 DEF IInv, TypeOK
<1>5. doc' = [doc EXCEPT ![o] = doc[o]] /\ rows' = [rows EXCEPT ![o] = rows[o]] /\ cancelled' \subseteq OpId
  BY <1>1 DEF IInv, TypeOK
<1>6. WorkerOK(o)'
  BY <1>1, <1>2, <1>4, Applied DEF WorkerOK
<1> QED BY <1>1, <1>2, <1>3, <1>4, <1>5, <1>6, Applied, WorkerStepFrame

\* A worker that gives up has what may have been applied among the suspects.
LEMMA GiveUp ==
    ASSUME IInv, NEW o \in OpId, worker[o] \in {"adapter", "verify"},
           NEW s \in {"failed", "timed-out"}, doc' = [doc EXCEPT ![o].state = s],
           worker' = [worker EXCEPT ![o] = "recover"],
           UNCHANGED <<plans, rows, up, call, mutated, cancelled, evidence>>,
           UNCHANGED <<version, touched>> \/ (worker[o] = "adapter" /\ Apply(o))
    PROVE  IInv'
<1>1. /\ rows[o] \in Operation /\ rows[o].state \notin TerminalStates
      /\ doc[o] \in Operation /\ doc[o].plan = rows[o].plan
      /\ touched[o] \subseteq mutated[o]
      /\ worker[o] = "adapter" => doc[o].current \in Changed[Goal(o)]
  BY AtWork DEF WorkerOK
<1>2. PICK d : d = [doc[o] EXCEPT !.state = s] /\ doc' = [doc EXCEPT ![o] = d]
  OBVIOUS
<1>3. d \in Operation /\ d.plan = rows[o].plan /\ d.state = s /\ d.current = doc[o].current /\ d # Absent
  BY <1>1, <1>2, AbsentAssumption DEF Operation, TerminalStates
<1>4. doc'[o] = d /\ worker'[o] = "recover" /\ rows' = [rows EXCEPT ![o] = rows[o]]
  BY <1>2 DEF IInv, TypeOK
<1>5. Goal(o)' = Goal(o)
  BY <1>3, <1>4, GoalKept
<1>6. /\ touched' \in [OpId -> SUBSET Component]
      /\ version' \in [Component -> {"source"} \union Target]
      /\ \A p \in OpId \ {o} : touched'[p] = touched[p]
      /\ \/ touched'[o] = touched[o]
         \/ worker[o] = "adapter" /\ touched'[o] = touched[o] \union {doc[o].current}
  BY Applied DEF IInv, TypeOK
<1>7. touched'[o] \subseteq Suspected(o)'
  BY <1>1, <1>3, <1>4, <1>5, <1>6 DEF Suspected
<1>8. WorkerOK(o)'
  BY <1>3, <1>4, <1>7 DEF WorkerOK
<1>9. mutated' \in [OpId -> SUBSET Component] /\ cancelled' \subseteq OpId
  BY DEF IInv, TypeOK
<1> QED BY <1>1, <1>2, <1>3, <1>4, <1>6, <1>8, <1>9, WorkerStepFrame

LEMMA UpgradeFailedStep ==
    ASSUME IInv, NEW o \in OpId, UpgradeFailed(o)
    PROVE  IInv'
BY GiveUp DEF UpgradeFailed, Fail, Go

\* SaveMutation and SaveVerified save the document as it is.
LEMMA SaveStep ==
    ASSUME IInv, NEW o \in OpId, SaveMutation(o) \/ SaveVerified(o)
    PROVE  IInv'
<1>1. /\ worker[o] \in {"mutation", "save"}
      /\ UNCHANGED <<plans, up, call, doc, mutated, cancelled, external>>
      /\ rows' = [rows EXCEPT ![o] = doc[o]]
  BY DEF SaveMutation, SaveVerified, Save
<1>2. PICK w \in {"verify", "loop"} : worker' = [worker EXCEPT ![o] = w]
  BY DEF SaveMutation, SaveVerified, Go
<1>3. /\ doc[o] \in Operation /\ doc[o].plan = rows[o].plan /\ doc[o] # Absent
      /\ doc[o].state = "running" /\ touched[o] \subseteq mutated[o]
  BY <1>1, AtWork, AbsentAssumption DEF WorkerOK
<1>4. worker'[o] = w /\ rows'[o] = doc[o] /\ doc' = [doc EXCEPT ![o] = doc[o]]
  BY <1>1, <1>2 DEF IInv, TypeOK
<1>5. WorkerOK(o)'
  BY <1>1, <1>3, <1>4 DEF WorkerOK, external
<1>6. doc[o].state \notin TerminalStates
  BY <1>3 DEF TerminalStates
<1> QED BY <1>1, <1>2, <1>3, <1>4, <1>5, <1>6, WorkerStepFrame DEF IInv, TypeOK, external

LEMMA VerifyStep ==
    ASSUME IInv, NEW o \in OpId, Verify(o)
    PROVE  IInv'
<1>1. worker[o] = "verify" /\ UNCHANGED <<plans, rows, up, call, mutated, cancelled, external>>
  BY DEF Verify
<1>2. CASE doc' = [doc EXCEPT ![o].done = doc[o].current] /\ worker' = [worker EXCEPT ![o] = "save"]
  <2>1. /\ rows[o] \in Operation /\ rows[o].state \notin TerminalStates
        /\ doc[o] \in Operation /\ doc[o].plan = rows[o].plan
        /\ doc[o].state = "running" /\ touched[o] \subseteq mutated[o]
    BY <1>1, AtWork DEF WorkerOK
  <2>2. PICK d : d = [doc[o] EXCEPT !.done = doc[o].current] /\ doc' = [doc EXCEPT ![o] = d]
    BY <1>2
  <2>3. d \in Operation /\ d.plan = rows[o].plan /\ d.state = "running" /\ d # Absent
    BY <2>1, <2>2, AbsentAssumption DEF Operation
  <2>4. worker'[o] = "save" /\ doc'[o] = d /\ rows' = [rows EXCEPT ![o] = rows[o]]
    BY <1>1, <1>2, <2>2 DEF IInv, TypeOK
  <2>5. WorkerOK(o)'
    BY <1>1, <2>1, <2>3, <2>4 DEF WorkerOK, external
  <2> QED BY <1>1, <1>2, <2>1, <2>2, <2>3, <2>4, <2>5, WorkerStepFrame DEF IInv, TypeOK, external
<1>3. CASE \E s \in {"failed", "timed-out"} : /\ doc' = [doc EXCEPT ![o].state = s]
                                              /\ worker' = [worker EXCEPT ![o] = "recover"]
  BY <1>1, <1>3, GiveUp DEF external
<1> QED BY <1>2, <1>3 DEF Verify, Go, Fail

LEMMA SucceedStep ==
    ASSUME IInv, NEW o \in OpId, Succeed(o)
    PROVE  IInv'
<1>1. /\ worker[o] = "loop" /\ UNCHANGED <<plans, rows, up, call, mutated, cancelled, external>>
      /\ worker' = [worker EXCEPT ![o] = "end"]
  BY DEF Succeed, Go
<1>2. /\ rows[o] \in Operation /\ rows[o].state \notin TerminalStates
      /\ doc[o] \in Operation /\ doc[o].plan = rows[o].plan
  BY <1>1, AtWork
<1>3. PICK d : /\ d = [doc[o] EXCEPT !.state = "succeeded", !.current = 0]
               /\ doc' = [doc EXCEPT ![o] = d]
  BY DEF Succeed
<1>4. d \in Operation /\ d.plan = rows[o].plan /\ d.state = "succeeded" /\ d # Absent
  <2>1. PICK e : e = [doc[o] EXCEPT !.state = "succeeded"]
    OBVIOUS
  <2>2. e \in Operation /\ e.plan = doc[o].plan /\ e.state = "succeeded"
    BY <1>2, <2>1 DEF Operation, TerminalStates
  <2>3. d = [e EXCEPT !.current = 0]
    BY <1>3, <2>1
  <2>4. d \in Operation /\ d.plan = e.plan /\ d.state = e.state
    BY <2>2, <2>3, UpgradeAssumption DEF Operation
  <2> QED BY <1>2, <2>2, <2>4, AbsentAssumption
<1>5. worker'[o] = "end" /\ doc'[o] = d /\ rows' = [rows EXCEPT ![o] = rows[o]]
  BY <1>1, <1>3 DEF IInv, TypeOK
<1>6. WorkerOK(o)'
  BY <1>1, <1>4, <1>5 DEF WorkerOK, TerminalStates, Settled
<1> QED BY <1>1, <1>2, <1>3, <1>4, <1>5, <1>6, WorkerStepFrame DEF IInv, TypeOK, external

------------------------------------------------------------------------------
(* Its recovery                                                            *)

\* Recovery ends with a status that admits to what is left.
LEMMA ConcludeStep ==
    ASSUME IInv, NEW o \in OpId, worker[o] \in {"recover", "rollback"},
           NEW status \in {"not-required", "restore-required", "rolled-back",
                           "compensating-action-required"},
           Conclude(o, status), UNCHANGED <<plans, rows, up, call, cancelled, evidence>>,
           mutated' \in [OpId -> SUBSET Component], touched' \in [OpId -> SUBSET Component],
           version' \in [Component -> {"source"} \union Target],
           \A p \in OpId \ {o} : mutated'[p] = mutated[p] /\ touched'[p] = touched[p],
           status \in {"not-required", "rolled-back"} => touched'[o] = {}
    PROVE  IInv'
<1>1. /\ rows[o] \in Operation /\ rows[o].state \notin TerminalStates
      /\ doc[o] \in Operation /\ doc[o].plan = rows[o].plan
      /\ doc[o].state \in {"failed", "cancelled", "timed-out"}
  BY AtWork DEF WorkerOK
<1>2. PICK d : d = [doc[o] EXCEPT !.recovery = status] /\ doc' = [doc EXCEPT ![o] = d]
  BY DEF Conclude
<1>3. d \in Operation /\ d.plan = rows[o].plan /\ d.recovery = status
      /\ d.state = doc[o].state /\ d # Absent
  BY <1>1, <1>2, AbsentAssumption DEF Operation
<1>4. worker' = [worker EXCEPT ![o] = "end"]
  BY DEF Conclude, Go
<1>5. worker'[o] = "end" /\ doc'[o] = d /\ rows' = [rows EXCEPT ![o] = rows[o]]
  BY <1>2, <1>4 DEF IInv, TypeOK
<1>6. WorkerOK(o)'
  BY <1>1, <1>3, <1>5 DEF WorkerOK, TerminalStates, Settled
<1>7. cancelled' \subseteq OpId
  BY DEF IInv, TypeOK
<1> QED BY <1>1, <1>2, <1>3, <1>4, <1>5, <1>6, <1>7, WorkerStepFrame

LEMMA RecoverStep ==
    ASSUME IInv, NEW o \in OpId, Recover(o)
    PROVE  IInv'
<1>1. /\ worker[o] = "recover" /\ UNCHANGED <<plans, rows, up, call, cancelled, external>>
      /\ mutated' = [mutated EXCEPT ![o] = Suspected(o)]
  BY DEF Recover
<1>2. /\ rows[o] \in Operation /\ rows[o].state \notin TerminalStates
      /\ doc[o] \in Operation /\ doc[o].plan = rows[o].plan /\ doc[o] # Absent
      /\ doc[o].state \in {"failed", "cancelled", "timed-out"}
      /\ touched[o] \subseteq Suspected(o) /\ Suspected(o) \subseteq Component
  BY <1>1, AtWork, AbsentAssumption DEF WorkerOK
<1>3. /\ mutated'[o] = Suspected(o) /\ mutated' \in [OpId -> SUBSET Component]
      /\ \A p \in OpId \ {o} : mutated'[p] = mutated[p]
      /\ touched' \in [OpId -> SUBSET Component]
      /\ version' \in [Component -> {"source"} \union Target]
  BY <1>1, <1>2 DEF IInv, TypeOK, external
<1>4. CASE Suspected(o) = {} /\ Conclude(o, "not-required")
  BY <1>1, <1>2, <1>3, <1>4, ConcludeStep DEF external
<1>5. CASE Conclude(o, "restore-required") \/ Conclude(o, "compensating-action-required")
  BY <1>1, <1>3, <1>5, ConcludeStep DEF external
<1>6. CASE /\ \A c \in Suspected(o) : Class[Goal(o)][c] \notin Blocking
           /\ Go(o, "rollback") /\ UNCHANGED doc
  <2>1. /\ worker' = [worker EXCEPT ![o] = "rollback"] /\ worker'[o] = "rollback"
        /\ doc' = [doc EXCEPT ![o] = doc[o]] /\ rows' = [rows EXCEPT ![o] = rows[o]]
    BY <1>1, <1>6 DEF Go, IInv, TypeOK
  <2>2. Goal(o)' = Goal(o)
    BY <1>1, <1>6 DEF Goal
  <2>3. WorkerOK(o)'
    BY <1>1, <1>2, <1>3, <1>6, <2>1, <2>2 DEF WorkerOK, external
  <2> QED BY <1>1, <1>2, <1>3, <2>1, <2>3, WorkerStepFrame DEF IInv, TypeOK, external
<1> QED BY <1>4, <1>5, <1>6 DEF Recover

\* external: a rollback reverts the last component of the list.
LEMMA Reverted ==
    ASSUME IInv, NEW o \in OpId, worker[o] = "rollback", mutated[o] # {}, Revert(o)
    PROVE  /\ touched' \in [OpId -> SUBSET Component]
           /\ version' \in [Component -> {"source"} \union Target]
           /\ touched'[o] = touched[o] \ {Latest(o)}
           /\ \A p \in OpId \ {o} : touched'[p] = touched[p]
           /\ Latest(o) \in mutated[o] /\ \A c \in mutated[o] : c <= Latest(o)
<1>1. Latest(o) \in mutated[o] /\ \A c \in mutated[o] : c <= Latest(o)
  BY MaxComponent DEF Latest, IInv, TypeOK
<1>2. Latest(o) \in Component
  BY <1>1 DEF IInv, TypeOK
<1> QED BY <1>1, <1>2 DEF Revert, IInv, TypeOK

LEMMA RollbackStep ==
    ASSUME IInv, NEW o \in OpId, Rollback(o)
    PROVE  IInv'
<1>1. /\ worker[o] = "rollback" /\ mutated[o] # {}
      /\ UNCHANGED <<plans, rows, up, call, cancelled, evidence>>
  BY DEF Rollback
<1>2. /\ rows[o] \in Operation /\ rows[o].state \notin TerminalStates
      /\ doc[o] \in Operation /\ doc[o].plan = rows[o].plan /\ doc[o] # Absent
      /\ doc[o].state \in {"failed", "cancelled", "timed-out"}
      /\ touched[o] \subseteq mutated[o]
      /\ \A c \in mutated[o] : Class[Goal(o)][c] \notin Blocking
  BY <1>1, AtWork, AbsentAssumption DEF WorkerOK
<1>3. CASE /\ Revert(o) /\ mutated' = [mutated EXCEPT ![o] = @ \ {Latest(o)}]
           /\ UNCHANGED <<doc, worker>>
  <2>1. /\ mutated'[o] = mutated[o] \ {Latest(o)} /\ mutated' \in [OpId -> SUBSET Component]
        /\ \A p \in OpId \ {o} : mutated'[p] = mutated[p]
    BY <1>3 DEF IInv, TypeOK
  <2>2. /\ worker' = [worker EXCEPT ![o] = "rollback"] /\ worker'[o] = "rollback"
        /\ doc' = [doc EXCEPT ![o] = doc[o]] /\ rows' = [rows EXCEPT ![o] = rows[o]]
    BY <1>1, <1>3 DEF IInv, TypeOK
  <2>3. Goal(o)' = Goal(o)
    BY <1>1, <1>3 DEF Goal
  <2>4. touched'[o] \subseteq mutated'[o]
    BY <1>1, <1>2, <1>3, <2>1, Reverted
  <2>5. WorkerOK(o)'
    BY <1>1, <1>2, <1>3, <2>1, <2>2, <2>3, <2>4 DEF WorkerOK
  <2>6. cancelled' \subseteq OpId
    BY <1>1 DEF IInv, TypeOK
  <2> QED BY <1>1, <1>2, <1>3, <2>1, <2>2, <2>5, <2>6, Reverted, WorkerStepFrame
<1>4. CASE /\ Revert(o) \/ UNCHANGED <<version, touched>>
           /\ Conclude(o, "compensating-action-required") /\ UNCHANGED mutated
  <2>1. /\ touched' \in [OpId -> SUBSET Component]
        /\ version' \in [Component -> {"source"} \union Target]
        /\ \A p \in OpId \ {o} : touched'[p] = touched[p]
    BY <1>1, <1>4, Reverted DEF IInv, TypeOK
  <2>2. mutated' \in [OpId -> SUBSET Component]
    BY <1>4 DEF IInv, TypeOK
  <2> QED BY <1>1, <1>4, <2>1, <2>2, ConcludeStep
<1> QED BY <1>3, <1>4 DEF Rollback

LEMMA RolledBackStep ==
    ASSUME IInv, NEW o \in OpId, RolledBack(o)
    PROVE  IInv'
<1>1. /\ worker[o] = "rollback" /\ mutated[o] = {} /\ Conclude(o, "rolled-back")
      /\ UNCHANGED <<plans, rows, up, call, mutated, cancelled, external>>
  BY DEF RolledBack
<1>2. touched[o] = {}
  BY <1>1, AtWork DEF WorkerOK
<1>3. /\ mutated' \in [OpId -> SUBSET Component] /\ touched' \in [OpId -> SUBSET Component]
      /\ version' \in [Component -> {"source"} \union Target]
  BY <1>1 DEF IInv, TypeOK, external
<1> QED BY <1>1, <1>2, <1>3, ConcludeStep DEF external

LEMMA EndStep ==
    ASSUME IInv, NEW o \in OpId, End(o)
    PROVE  IInv'
<1>1. /\ worker[o] = "end" /\ UNCHANGED <<plans, up, call, external>>
      /\ rows' = [rows EXCEPT ![o] = doc[o]] /\ worker' = [worker EXCEPT ![o] = "none"]
      /\ doc' = [doc EXCEPT ![o] = Absent] /\ mutated' = [mutated EXCEPT ![o] = {}]
      /\ cancelled' \subseteq OpId
  BY DEF End, Save, Go, IInv, TypeOK
<1>2. /\ rows[o] # Absent /\ Taken(rows[o].plan)
      /\ doc[o] \in Operation /\ doc[o].plan = rows[o].plan /\ doc[o] # Absent
      /\ doc[o].state \in TerminalStates \ {"interrupted"} /\ Settled(doc[o]) => touched[o] = {}
      /\ doc[o].state # "interrupted"
  BY <1>1, AtWork, AbsentAssumption DEF WorkerOK
<1>3. TypeOK'
  BY <1>1, <1>2 DEF IInv, TypeOK, external
<1>4. /\ rows'[o] = doc[o] /\ worker'[o] = "none"
      /\ \A p \in OpId \ {o} : /\ rows'[p] = rows[p] /\ worker'[p] = worker[p]
                               /\ doc'[p] = doc[p] /\ mutated'[p] = mutated[p]
  BY <1>1 DEF IInv, TypeOK
<1>5. UpgradeOK(o)'
  BY <1>1, <1>2, <1>4 DEF UpgradeOK, Taken, Ended, NeedsReview, Settled, external
<1> QED BY <1>1, <1>2, <1>3, <1>4, <1>5, WorkerFrame DEF external

LEMMA WorkerStepInvariant ==
    ASSUME IInv, NEW o \in OpId, WorkerStep(o)
    PROVE  IInv'
BY StartStep, NextComponentStep, UpgradedStep, UpgradeFailedStep, SaveStep, VerifyStep,
   SucceedStep, RecoverStep, RollbackStep, RolledBackStep, EndStep DEF WorkerStep

------------------------------------------------------------------------------
(* Restarts and the outside                                                *)

LEMMA RestartStep ==
    ASSUME IInv, Restart
    PROVE  IInv'
<1>1. /\ up' = FALSE /\ cancelled' = {} /\ UNCHANGED <<plans, external>>
      /\ worker' = [o \in OpId |-> "none"] /\ doc' = [o \in OpId |-> Absent]
      /\ mutated' = [o \in OpId |-> {}] /\ call' = [t \in Caller |-> Idle]
      /\ rows' = [o \in OpId |->
            IF rows[o] # Absent /\ rows[o].state \notin TerminalStates
              THEN [rows[o] EXCEPT !.state = "interrupted"] ELSE rows[o]]
  BY DEF Restart
<1>2. ASSUME NEW o \in OpId
      PROVE  /\ rows'[o] \in Operation \union {Absent}
             /\ rows[o] = Absent => rows'[o] = Absent
             /\ rows[o] # Absent => rows'[o] # Absent /\ rows'[o].plan = rows[o].plan
             /\ rows'[o] = rows[o] \/ rows'[o].state = "interrupted"
  <2>1. CASE rows[o] # Absent /\ rows[o].state \notin TerminalStates
    <3>1. rows'[o] = [rows[o] EXCEPT !.state = "interrupted"] /\ rows[o] \in Operation
      BY <1>1, <2>1 DEF IInv, TypeOK
    <3> QED BY <2>1, <3>1, AbsentAssumption DEF Operation, TerminalStates
  <2>2. CASE ~(rows[o] # Absent /\ rows[o].state \notin TerminalStates)
    BY <1>1, <2>2 DEF IInv, TypeOK
  <2> QED BY <2>1, <2>2
<1>3. rows' \in [OpId -> Operation \union {Absent}]
  BY <1>1, <1>2
<1>4. TypeOK'
  BY <1>1, <1>3 DEF IInv, TypeOK, external
<1>5. ASSUME NEW o \in OpId PROVE UpgradeOK(o)'
  BY <1>1, <1>2 DEF IInv, UpgradeOK, Taken, Ended, NeedsReview, Settled, external
<1>6. \A t \in Caller : CallOK(t)'
  BY <1>1 DEF CallOK, Idle
<1>7. PlanExecutedOnce'
  BY <1>2 DEF IInv, PlanExecutedOnce
<1> QED BY <1>4, <1>5, <1>6, <1>7 DEF IInv

LEMMA AnnotateStep ==
    ASSUME IInv, NEW o \in OpId, Annotate(o)
    PROVE  IInv'
<1>1. /\ NeedsReview(o) /\ ~up /\ UNCHANGED <<plans, up, call, thread, cancelled, external>>
      /\ rows[o] # Absent /\ rows[o] \in Operation
  BY DEF Annotate, NeedsReview, IInv, TypeOK
<1>2. PICK r : /\ r = [rows[o] EXCEPT !.recovery = "operator-review-required"]
               /\ rows' = [rows EXCEPT ![o] = r]
  BY DEF Annotate
<1>3. /\ r \in Operation /\ r # Absent /\ r.plan = rows[o].plan /\ r.state = "interrupted"
      /\ r.recovery = "operator-review-required"
  BY <1>1, <1>2, AbsentAssumption DEF Operation, NeedsReview
<1>4. TypeOK'
  BY <1>1, <1>2, <1>3 DEF IInv, TypeOK, thread, external
<1>5. rows'[o] = r /\ \A p \in OpId \ {o} : rows'[p] = rows[p]
  BY <1>2 DEF IInv, TypeOK
<1>6. worker[o] = "none"
  BY <1>1, AtWork DEF NeedsReview, TerminalStates
<1>7. UpgradeOK(o)'
  BY <1>1, <1>3, <1>5, <1>6, Facts DEF UpgradeOK, Taken, Ended, NeedsReview, thread, external
<1> QED BY <1>1, <1>3, <1>4, <1>5, <1>7, WorkerFrame DEF thread, external

LEMMA StartUpStep ==
    ASSUME IInv, StartUp
    PROVE  IInv'
<1>1. /\ up' = TRUE /\ UNCHANGED <<plans, rows, call, thread, cancelled, external>>
      /\ \A o \in OpId : NeedsReview(o) => rows[o].recovery = "operator-review-required"
  BY DEF StartUp
<1>2. TypeOK'
  BY <1>1 DEF IInv, TypeOK, thread, external
<1>3. PlansKept /\ RowsKept
  BY <1>1 DEF PlansKept, RowsKept
<1>4. ASSUME NEW o \in OpId PROVE UpgradeOK(o)'
  <2>1. CASE NeedsReview(o)
    <3>1. worker[o] = "none"
      BY <2>1, AtWork DEF NeedsReview, TerminalStates
    <3> QED BY <1>1, <2>1, <3>1 DEF IInv, UpgradeOK, Taken, Ended, NeedsReview, Settled, thread, external
  <2>2. CASE ~NeedsReview(o)
    BY <1>1, <1>3, <2>2, UpgradeFrame DEF thread, external
  <2> QED BY <2>1, <2>2
<1>5. \A t \in Caller : CallOK(t)'
  BY <1>1, <1>3, CallFrame
<1> QED BY <1>1, <1>2, <1>3, <1>4, <1>5, OnceFrame DEF IInv

LEMMA OutsideStep ==
    ASSUME IInv, UNCHANGED vars \/ \E e \in Evidence : EvidenceChanges(e)
    PROVE  IInv'
<1>1. /\ UNCHANGED <<plans, rows, up, call, thread, cancelled, version, touched>>
      /\ evidence' \in Evidence
  BY DEF EvidenceChanges, vars, thread, IInv, TypeOK
<1>2. TypeOK' /\ PlansKept
  BY <1>1 DEF IInv, TypeOK, PlansKept, thread
<1> QED BY <1>1, <1>2, RequestFrame DEF thread

------------------------------------------------------------------------------
(* The theorems                                                            *)

LEMMA NextInvariant == IInv /\ [Next]_vars => IInv'
<1> SUFFICES ASSUME IInv, [Next]_vars PROVE IInv'
  OBVIOUS
<1>1. ASSUME NEW p \in PlanId, Expire(p) \/ \E t \in Target : MakePlan(p, t) PROVE IInv'
  BY <1>1, ExpireStep, MakePlanStep
<1>2. ASSUME NEW t \in Caller,
             \/ \E p \in PlanId : SubmitCheck(t, p)
             \/ \E o \in OpId : SubmitPut(t, o) \/ CancelRead(t, o)
             \/ SubmitConsume(t) \/ CancelMark(t) \/ CancelWrite(t)
      PROVE  IInv'
  BY <1>2, SubmitCheckStep, SubmitPutStep, CancelReadStep, SubmitConsumeStep, CancelMarkStep,
     CancelWriteStep
<1>3. ASSUME NEW o \in OpId, WorkerStep(o) \/ Annotate(o) PROVE IInv'
  BY <1>3, WorkerStepInvariant, AnnotateStep
<1>4. CASE Restart \/ StartUp
  BY <1>4, RestartStep, StartUpStep
<1>5. CASE UNCHANGED vars \/ \E e \in Evidence : EvidenceChanges(e)
  BY <1>5, OutsideStep
<1> QED BY <1>1, <1>2, <1>3, <1>4, <1>5 DEF Next

\* The invariant above holds in every state: of any number of plans, requests
\* and workers, through failed adapters, cancellations and restarts.
THEOREM Invariance == Spec => []IInv
BY InitInvariant, NextInvariant, PTL DEF Spec

\* Plans, rows, documents and workers keep their types.
THEOREM TypeCorrectness == Spec => []TypeOK
<1>1. IInv => TypeOK
  BY DEF IInv
<1> QED BY Invariance, <1>1, PTL

\* A Manager that is up has no upgrade that ended without success, asks for no
\* recovery and has left a component changed.
THEOREM RecoveryIsHonest == Spec => []NoHiddenChange
<1>1. IInv => NoHiddenChange
  <2> SUFFICES ASSUME IInv, up, NEW o \in OpId, Ended(o), rows[o].state # "succeeded",
                      rows[o].recovery \in {"not-required", "rolled-back"}
               PROVE  touched[o] = {}
    BY DEF NoHiddenChange
  <2>1. UpgradeOK(o) /\ Settled(rows[o])
    BY DEF IInv, Settled
  <2>2. rows[o].state # "interrupted"
    BY <2>1 DEF UpgradeOK, NeedsReview, Ended
  <2> QED BY <2>1, <2>2 DEF UpgradeOK
<1> QED BY Invariance, <1>1, PTL

\* A plan that two requests confirm is consumed, and executed, by one of them.
THEOREM SingleExecution == Spec => []PlanExecutedOnce
<1>1. IInv => PlanExecutedOnce
  BY DEF IInv
<1> QED BY Invariance, <1>1, PTL

\* Only Rollback takes something back, the last component of the list, and not
\* where a component of the list is blocked.
LEMMA TakenBack ==
    ASSUME IInv, [Next]_vars, NEW o \in OpId, NEW c \in touched[o], c \notin touched'[o]
    PROVE  /\ touched[o] \subseteq mutated[o] /\ c \in mutated[o]
           /\ \A d \in mutated[o] : Class[Goal(o)][d] \notin Blocking
           /\ \A d \in touched'[o] : d \in Component /\ c \in Component /\ d < c
<1>1. PICK q \in OpId : Rollback(q) /\ Revert(q)
  <2>1. ASSUME NEW q \in OpId, Apply(q), worker[q] = "adapter" PROVE FALSE
    BY <2>1, Applied
  <2>2. \E q \in OpId : WorkerStep(q)
    BY DEF Next, vars, external, thread, Expire, MakePlan, EvidenceChanges, SubmitCheck, SubmitPut,
           CancelRead, SubmitConsume, CancelMark, CancelWrite, Annotate, Restart, StartUp
  <2>3. PICK q \in OpId : WorkerStep(q) /\ ~UNCHANGED touched
    BY <2>2
  <2>4. Upgraded(q) \/ UpgradeFailed(q) \/ Rollback(q)
    BY <2>3 DEF WorkerStep, external, Start, NextComponent, SaveMutation, Verify, SaveVerified,
                Succeed, Recover, RolledBack, End
  <2> QED BY <2>1, <2>3, <2>4 DEF Upgraded, UpgradeFailed, Rollback
<1>2. worker[q] = "rollback" /\ mutated[q] # {} /\ mutated[q] \subseteq Component
  BY <1>1 DEF Rollback, IInv, TypeOK
<1>3. q = o /\ c = Latest(o) /\ touched'[o] = touched[o] \ {c}
      /\ c \in mutated[o] /\ \A d \in mutated[o] : d <= c
  BY <1>1, <1>2, Reverted
<1>4. /\ touched[o] \subseteq mutated[o]
      /\ \A d \in mutated[o] : Class[Goal(o)][d] \notin Blocking
  BY <1>2, <1>3, AtWork DEF WorkerOK
<1>5. ASSUME NEW d \in touched'[o] PROVE d \in Component /\ c \in Component /\ d < c
  <2>1. d \in mutated[o] /\ d # c /\ d <= c
    BY <1>3, <1>4
  <2> QED BY <1>2, <1>3, <2>1 DEF Component
<1> QED BY <1>3, <1>4, <1>5

\* _recover takes nothing back once a component needs a restore.
THEOREM BlockedStays == Spec => BlockedIsLeftAlone
<1>1. IInv /\ [Next]_vars =>
         [\A o \in OpId : touched'[o] \subseteq touched[o] /\ touched'[o] # touched[o] =>
             \A c \in touched[o] :
                Class[Goal(o)][c] \notin {"restore-required", "irreversible"}]_vars
  <2> SUFFICES ASSUME IInv, [Next]_vars, NEW o \in OpId,
                      touched'[o] \subseteq touched[o], touched'[o] # touched[o],
                      NEW c \in touched[o]
               PROVE  Class[Goal(o)][c] \notin {"restore-required", "irreversible"}
    OBVIOUS
  <2>1. PICK d \in touched[o] : d \notin touched'[o]
    OBVIOUS
  <2> QED BY <2>1, TakenBack DEF Blocking
<1> QED BY Invariance, <1>1, PTL DEF Spec, BlockedIsLeftAlone

\* _recover takes components back in the reverse of the upgrade's order.
THEOREM ReverseOrder == Spec => RollbackReversesOrder
<1>1. IInv /\ [Next]_vars =>
         [\A o \in OpId : \A c \in touched[o] \ touched'[o] : \A d \in touched'[o] : d < c]_vars
  BY TakenBack
<1> QED BY Invariance, <1>1, PTL DEF Spec, RollbackReversesOrder
==============================================================================
