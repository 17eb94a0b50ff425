------------------------ MODULE OperationEngineProofs ------------------------
(***************************************************************************)
(* Proofs about the operation engine, for every registry, request set,     *)
(* number of callers and operations, and attempt bound.                    *)
(*                                                                         *)
(* The inductive invariant is a conjunction of five groups of facts.  The  *)
(* first gives the types; the second says which thread owns an operation;  *)
(* the third why the components of active rows are disjoint; the fourth    *)
(* what a terminal row says about recovery; the fifth where every step of  *)
(* a plan is accounted for.  A second invariant, relative to the first,    *)
(* says that what a step needs is in the lab or done by an earlier step of *)
(* the same plan.                                                          *)
(***************************************************************************)
EXTENDS OperationEngine, TLAPS, FiniteSetTheorems, SequenceTheorems

------------------------------------------------------------------------------
\* A worker inside _execute_step has a step to run, and before an attempt it
\* has attempts left.
InStep == {"attempt", "boundary", "executing", "checking", "verifying",
           "succeeded-step"}

WorkerProgress ==
    \A o \in OpId : /\ worker[o] \in InStep => todo[o] # <<>>
                    /\ worker[o] = "attempt" => attempt[o] < MaxAttempts

\* A request thread between the creation of a row and the start of its worker.
Created(t) == call[t].at \in {"saving-resumed", "resuming", "spawning"}

KnownId ==
    \A t \in Caller : (Created(t) \/ call[t].at = "cancelling") => call[t].id \in OpId

TypeInv == TypeOK /\ WorkerProgress /\ KnownId

------------------------------------------------------------------------------
\* Nothing runs while the manager is down or opens its store.
NothingRuns ==
    manager # "up" => /\ \A t \in Caller : call[t].at = "idle"
                      /\ \A o \in OpId : worker[o] = "none"

LockHeld ==
    \A t \in Caller : call[t].at \in {"creating", "cancelling"} => lock = t

\* Until its worker starts, a created operation belongs to one request thread.
OneOwner ==
    \A t \in Caller : Created(t) =>
        /\ ~Live(call[t].id)
        /\ \A u \in Caller : (u # t /\ Created(u)) => call[u].id # call[t].id

Owned(o) == Live(o) \/ \E t \in Caller : Created(t) /\ call[t].id = o

\* The owner's document is an active one until the run is over.
OwnerDocument ==
    \A o \in OpId :
        /\ Owned(o) => /\ store[o].state \in ActiveStates
                       /\ store[o].components = doc[o].components
        /\ (Owned(o) /\ worker[o] \notin {"finally", "saving"}) =>
              doc[o].state \in ActiveStates

Active(o) == store[o].state \in ActiveStates
Disjoint(o, p) == store[o].components \intersect store[p].components = {}

ActiveDisjoint ==
    \A o, p \in OpId : (o # p /\ Active(o) /\ Active(p)) => Disjoint(o, p)

CreatingIsFree ==
    \A t \in Caller : call[t].at = "creating" => ~Conflict(call[t].steps)

\* What cancel is about to write back is still compatible with the other rows.
CancellingIsFree ==
    \A t \in Caller : call[t].at = "cancelling" =>
        /\ call[t].read.state \in ActiveStates
        /\ call[t].read.components = store[call[t].id].components
        /\ \A p \in OpId : (p # call[t].id /\ Active(p)) => Disjoint(call[t].id, p)

OwnershipInv == NothingRuns /\ LockHeld /\ OneOwner /\ OwnerDocument
ExclusionInv == ActiveDisjoint /\ CreatingIsFree /\ CancellingIsFree

------------------------------------------------------------------------------
Reported(d) == d.recovery <=> d.state # "succeeded"

\* The row's side and the owner's side.
RowReported(o) ==
    store[o].state \in TerminalStates =>
        Reported(store[o]) \/ (manager # "up" /\ store[o].state = "interrupted")

OwnerReported(o) ==
    Owned(o) => IF worker[o] \in {"finally", "saving"}
                  THEN Reported(doc[o])
                  ELSE ~doc[o].recovery

RecoveryInv == \A o \in OpId : RowReported(o) /\ OwnerReported(o)

------------------------------------------------------------------------------
\* A request keeps the plan that was built for it.
PlannedCall(t) ==
    call[t].at \in {"prepare", "creating"} \/ Created(t) =>
        call[t].steps \in Plans(call[t].request)

\* The completed steps that a resumed operation still has to record or to drop.
Owed(k) == IF k.at = "spawning" THEN {} ELSE Resumable(k)

\* Until its worker starts, an operation counts every step of its plan, and each
\* of them is still to do, recorded, or about to be recorded as resumed.
CreatedEvidence(t) ==
    Created(t) =>
        /\ doc[call[t].id].request = call[t].request
        /\ doc[call[t].id].total = Len(call[t].steps)
        /\ doc[call[t].id].done + Len(todo[call[t].id]) = Len(call[t].steps)
        /\ StepSet(call[t].steps) \subseteq
              StepSet(todo[call[t].id]) \union events[call[t].id] \union Owed(call[t])
        /\ (call[t].at = "saving-resumed" /\ call[t].request.flow = "lab") =>
              Resumable(call[t]) \subseteq events[call[t].id]

\* Whichever plan of the document's request was chosen, its steps are among these.
Accounted(d, steps) ==
    \A s \in Plans(d.request) : d.total = Len(s) /\ StepSet(s) \subseteq steps

Verified(d, steps) == d.done = d.total /\ Accounted(d, steps)

\* A running worker has the steps that are not recorded before it.
WorkerEvidence(o) ==
    Live(o) =>
        IF worker[o] \in {"finally", "saving"}
          THEN doc[o].state = "succeeded" => Verified(doc[o], events[o])
          ELSE /\ doc[o].done + Len(todo[o]) = doc[o].total
               /\ Accounted(doc[o], events[o] \union StepSet(todo[o]))
               /\ worker[o] = "succeeded-step" => Head(todo[o]) \in events[o]

RowEvidence(o) == store[o].state = "succeeded" => Verified(store[o], events[o])

EvidenceInv ==
    /\ \A t \in Caller : PlannedCall(t) /\ CreatedEvidence(t)
    /\ \A o \in OpId : WorkerEvidence(o) /\ RowEvidence(o)

IInv == TypeInv /\ OwnershipInv /\ ExclusionInv /\ RecoveryInv /\ EvidenceInv

------------------------------------------------------------------------------
(* Plans are sequences of steps                                            *)

\* An order of a set of components lists components.
LEMMA OrdersAreSequences ==
    ASSUME NEW S \in SUBSET Component, NEW s \in DependencyOrders(S)
    PROVE  s \in Seq(Component)
<1>1. IsFiniteSet(S)
  BY RegistryAssumption, FS_Subset
<1>2. Cardinality(S) \in Nat
  BY <1>1, FS_CardinalityType
<1>3. s \in [1..Cardinality(S) -> Component]
  BY DEF DependencyOrders
<1> QED
  BY <1>2, <1>3, SeqDef

\* Steps built from an order, in either direction, are steps.
LEMMA StepsAreSequences ==
    ASSUME NEW operation \in Operation, NEW s \in Seq(Component)
    PROVE  /\ StepsFor(operation, s) \in Seq(Step)
           /\ StepsFor(operation, Reversed(s)) \in Seq(Step)
<1>1. \A r \in Seq(Component) : StepsFor(operation, r) \in Seq(Step)
  <2> SUFFICES ASSUME NEW r \in Seq(Component)
               PROVE  StepsFor(operation, r) \in Seq(Step)
    OBVIOUS
  <2>1. StepsFor(operation, r) \in [1..Len(r) -> Step]
    BY DEF StepsFor, Step
  <2> QED
    BY <2>1, LenProperties, SeqDef
<1>2. Reversed(s) \in [1..Len(s) -> Component]
  BY DEF Reversed
<1>3. Reversed(s) \in Seq(Component)
  BY <1>2, LenProperties, SeqDef
<1> QED
  BY <1>1, <1>3

\* The closure of a set of components and the scope of a suspension are sets of
\* components, so that the two lemmas above apply to every plan.
LEMMA PlansAreSequences ==
    ASSUME NEW request \in Request, NEW s \in Plans(request)
    PROVE  s \in Seq(Step)
<1> DEFINE S == request.targets
           operation == request.operation
<1>1. operation \in Operation /\ S \in SUBSET Component /\ s \in OrderedPlans(request)
  BY DEF Request, Plans
<1>2. \A T \in SUBSET Component : /\ Closure(T) \in SUBSET Component
                                   /\ SuspendScope(T) \in SUBSET Component
  BY DEF Closure, SuspendScope, Consumers
<1>3. \A o \in Operation, T \in SUBSET Component : StopPlans(o, T) \subseteq Seq(Step)
  BY OrdersAreSequences, StepsAreSequences DEF StopPlans
<1>4. \A o \in Operation, T \in SUBSET Component :
          StartPlans(o, T) \subseteq Seq(Step)
  BY <1>2, OrdersAreSequences, StepsAreSequences DEF StartPlans
<1>5. "stop" \in Operation /\ "start" \in Operation
  BY DEF Operation, StartOperations, StopOperations
<1>6. \A p \in RestartPlans(S) : p \in Seq(Step)
  <2> SUFFICES ASSUME NEW p \in RestartPlans(S)
               PROVE  p \in Seq(Step)
    OBVIOUS
  <2>0. \E u \in StopPlans("stop", S), v \in StartPlans("start", S) : p = u \o v
    BY DEF RestartPlans
  <2> PICK u \in StopPlans("stop", S), v \in StartPlans("start", S) : p = u \o v
    BY <2>0
  <2>1. u \in Seq(Step)
    BY <1>1, <1>3, <1>5
  <2>2. v \in Seq(Step)
    BY <1>1, <1>2, <1>4, <1>5
  <2> QED
    BY <2>1, <2>2, ConcatProperties
<1>7. s \in {} \/ s \in StopPlans("stop", SuspendScope(S)) \/ s \in StopPlans(operation, S)
      \/ s \in StartPlans(operation, S) \/ s \in RestartPlans(S)
  BY <1>1 DEF OrderedPlans
<1> QED
  BY <1>1, <1>2, <1>3, <1>4, <1>5, <1>6, <1>7

\* The components of a plan, and its steps, are what their names say.
LEMMA PlanContents ==
    ASSUME NEW s \in Seq(Step)
    PROVE  /\ Affected(s) \in SUBSET Component
           /\ StepSet(s) \in SUBSET Step
           /\ IsFiniteSet(StepSet(s))
<1>1. \A i \in 1..Len(s) : s[i] \in Step
  BY ElementOfSeq
<1>2. IsFiniteSet(1..Len(s))
  BY LenProperties, FS_Interval
<1>3. StepSet(s) = {s[i] : i \in 1..Len(s)}
  BY DEF StepSet
<1>4. IsFiniteSet(StepSet(s))
  <2> DEFINE f == [i \in 1..Len(s) |-> s[i]]
  <2>1. f \in Surjection(1..Len(s), StepSet(s))
    BY DEF StepSet, Surjection
  <2> QED
    BY <1>2, <2>1, FS_Surjection
<1> QED
  BY <1>1, <1>4 DEF Affected, StepSet, Step

\* What is left of a plan is again a sequence of steps.
LEMMA RemainingAreSequences ==
    ASSUME NEW k \in Call, NEW r \in Remaining(k)
    PROVE  r \in Seq(Step)
<1> DEFINE S == StepSet(k.steps) \ k.completed
<1>1. k.steps \in Seq(Step)
  BY DEF Call
<1>2. S \in SUBSET Step /\ IsFiniteSet(S)
  BY <1>1, PlanContents, FS_Subset
<1>3. Cardinality(S) \in Nat
  BY <1>2, FS_CardinalityType
<1>4. r \in [1..Cardinality(S) -> Step]
  BY <1>2 DEF Remaining
<1> HIDE DEF S
<1> QED
  BY <1>3, <1>4, SeqDef

------------------------------------------------------------------------------
(* The plans of a request list the same steps, each of them once           *)

\* The sequence s lists the steps of T, each of them once.
Lists(s, T) ==
    s \in Seq(Step) /\ IsFiniteSet(T) /\ StepSet(s) = T /\ Len(s) = Cardinality(T)

StepsOn(operation, S) == {[component |-> c, operation |-> operation] : c \in S}

\* A sequence as long as a finite set that repeats none of its elements lists
\* all of them.
LEMMA ListedOnce ==
    ASSUME NEW S, IsFiniteSet(S), NEW r \in [1..Cardinality(S) -> S],
           \A i, j \in 1..Cardinality(S) : i < j => r[i] # r[j]
    PROVE  r \in Seq(S) /\ Len(r) = Cardinality(S) /\ StepSet(r) = S
<1> DEFINE n == Cardinality(S)
<1>1. n \in Nat
  BY FS_CardinalityType
<1>2. r \in Seq(S) /\ Len(r) = n
  BY <1>1, SeqDef, LenProperties
<1>3. IsFiniteSet(1..n) /\ Cardinality(1..n) = n
  BY <1>1, FS_Interval
<1>4. r \in Injection(1..n, S)
  <2>1. \A i, j \in 1..n : r[i] = r[j] => i = j
    <3> SUFFICES ASSUME NEW i \in 1..n, NEW j \in 1..n, r[i] = r[j], i # j
                 PROVE  FALSE
      OBVIOUS
    <3>1. i < j \/ j < i
      BY <1>1
    <3> QED
      BY <3>1
  <2> QED
    BY <2>1 DEF Injection, IsInjective
<1>5. r \in Surjection(1..n, S)
  BY <1>3, <1>4, FS_Injection
<1> QED
  BY <1>2, <1>5 DEF Surjection, StepSet

\* Any order of a set of components lists that set, and so does its reverse.
LEMMA OrdersListTheirSet ==
    ASSUME NEW S \in SUBSET Component, NEW s \in DependencyOrders(S)
    PROVE  /\ IsFiniteSet(S)
           /\ \A r \in {s, Reversed(s)} :
                 r \in Seq(Component) /\ Len(r) = Cardinality(S) /\ StepSet(r) = S
<1>1. IsFiniteSet(S)
  BY RegistryAssumption, FS_Subset
<1>2. /\ s \in [1..Cardinality(S) -> S]
      /\ \A i, j \in 1..Cardinality(S) : i < j => s[i] # s[j]
  BY DEF DependencyOrders
<1>3. s \in Seq(S) /\ Len(s) = Cardinality(S) /\ StepSet(s) = S
  BY <1>1, <1>2, ListedOnce
<1>4. s \in Seq(Component)
  BY OrdersAreSequences
<1> DEFINE n == Len(s)
<1>5. n \in Nat
  BY <1>4, LenProperties
<1>6. Reversed(s) = [i \in 1..n |-> s[n - i + 1]]
  BY DEF Reversed
<1> HIDE DEF n
<1>7. \A i \in 1..n : s[i] \in Component /\ n - i + 1 \in 1..n
  BY <1>4, <1>5, ElementOfSeq DEF n
<1>8. Reversed(s) \in Seq(Component) /\ Len(Reversed(s)) = n
  <2>1. Reversed(s) \in [1..n -> Component]
    BY <1>6, <1>7
  <2> QED
    BY <1>5, <2>1, SeqDef, LenProperties
<1>9. StepSet(Reversed(s)) = StepSet(s)
  <2>1. \A i \in 1..n : Reversed(s)[i] = s[n - i + 1]
    BY <1>6
  <2>2. \A i \in 1..n : s[i] = Reversed(s)[n - i + 1]
    <3> TAKE i \in 1..n
    <3>1. n - (n - i + 1) + 1 = i
      BY <1>5
    <3> QED
      BY <1>7, <2>1, <3>1
  <2>3. StepSet(s) = {s[i] : i \in 1..n} /\ StepSet(Reversed(s)) = {Reversed(s)[i] : i \in 1..n}
    BY <1>8 DEF StepSet, n
  <2> QED
    BY <1>7, <2>1, <2>2, <2>3
<1> QED
  BY <1>1, <1>3, <1>4, <1>8, <1>9 DEF n

\* One operation on each component of such an order.
LEMMA StepsForLists ==
    ASSUME NEW operation \in Operation, NEW S \in SUBSET Component, IsFiniteSet(S),
           NEW r \in Seq(Component), Len(r) = Cardinality(S), StepSet(r) = S
    PROVE  Lists(StepsFor(operation, r), StepsOn(operation, S))
<1> DEFINE f == [c \in S |-> [component |-> c, operation |-> operation]]
           T == StepsOn(operation, S)
           n == Len(r)
           q == StepsFor(operation, r)
<1>1. f \in Bijection(S, T)
  <2>1. f \in Injection(S, T)
    BY DEF Injection, IsInjective, StepsOn
  <2>2. f \in Surjection(S, T)
    BY DEF Surjection, StepsOn
  <2> QED
    BY <2>1, <2>2 DEF Bijection
<1>2. IsFiniteSet(T) /\ Cardinality(T) = Cardinality(S)
  BY <1>1, FS_Bijection DEF ExistsBijection
<1>3. n \in Nat /\ \A i \in 1..n : r[i] \in Component
  BY LenProperties, ElementOfSeq
<1>4. q \in [1..n -> Step]
  BY <1>3 DEF StepsFor, Step
<1>5. q \in Seq(Step) /\ Len(q) = n
  BY <1>3, <1>4, SeqDef, LenProperties
<1>6. StepSet(q) = T
  <2>1. \A i \in 1..n : q[i] = [component |-> r[i], operation |-> operation]
    BY DEF StepsFor
  <2>2. S = {r[i] : i \in 1..n} /\ StepSet(q) = {q[i] : i \in 1..n}
    BY <1>5 DEF StepSet
  <2> QED
    BY <2>1, <2>2 DEF StepsOn
<1> QED
  BY <1>2, <1>5, <1>6 DEF Lists

\* The concatenation of two plans without a step in common.
LEMMA ConcatLists ==
    ASSUME NEW u, NEW v, NEW U, NEW V, Lists(u, U), Lists(v, V), U \intersect V = {}
    PROVE  Lists(u \o v, U \union V)
<1> USE DEF Lists
<1>1. /\ u \o v \in Seq(Step) /\ Len(u \o v) = Len(u) + Len(v)
      /\ \A i \in 1..Len(u) + Len(v) :
            (u \o v)[i] = IF i <= Len(u) THEN u[i] ELSE v[i - Len(u)]
      /\ Len(u) \in Nat /\ Len(v) \in Nat
  BY ConcatProperties, LenProperties
<1>2. IsFiniteSet(U \union V) /\ Cardinality(U \union V) = Cardinality(U) + Cardinality(V)
  <2>1. Cardinality(U \intersect V) = 0
    BY FS_EmptySet
  <2>2. Cardinality(U) \in Nat /\ Cardinality(V) \in Nat
    BY FS_CardinalityType
  <2>3. /\ IsFiniteSet(U \union V)
        /\ Cardinality(U \union V) =
              Cardinality(U) + Cardinality(V) - Cardinality(U \intersect V)
    BY FS_Union
  <2> QED
    BY <2>1, <2>2, <2>3
<1>3. StepSet(u \o v) = StepSet(u) \union StepSet(v)
  <2>1. ASSUME NEW x \in StepSet(u) PROVE x \in StepSet(u \o v)
    <3>1. PICK i \in 1..Len(u) : x = u[i]
      BY DEF StepSet
    <3>2. i \in 1..Len(u) + Len(v) /\ (u \o v)[i] = x
      BY <1>1, <3>1
    <3> QED
      BY <1>1, <3>2 DEF StepSet
  <2>2. ASSUME NEW x \in StepSet(v) PROVE x \in StepSet(u \o v)
    <3>1. PICK i \in 1..Len(v) : x = v[i]
      BY DEF StepSet
    <3> DEFINE j == i + Len(u)
    <3>2. j \in 1..Len(u) + Len(v) /\ ~(j <= Len(u)) /\ j - Len(u) = i
      BY <1>1
    <3>3. (u \o v)[j] = x
      BY <1>1, <3>1, <3>2
    <3> QED
      BY <1>1, <3>2, <3>3 DEF StepSet
  <2>3. ASSUME NEW x \in StepSet(u \o v) PROVE x \in StepSet(u) \union StepSet(v)
    <3>1. PICK i \in 1..Len(u) + Len(v) : x = (u \o v)[i]
      BY <1>1 DEF StepSet
    <3>2. CASE i <= Len(u)
      <4>1. i \in 1..Len(u) /\ x = u[i]
        BY <1>1, <3>1, <3>2
      <4> QED
        BY <4>1 DEF StepSet
    <3>3. CASE ~(i <= Len(u))
      <4>1. i - Len(u) \in 1..Len(v) /\ x = v[i - Len(u)]
        BY <1>1, <3>1, <3>3
      <4> QED
        BY <4>1 DEF StepSet
    <3> QED
      BY <3>2, <3>3
  <2> QED
    BY <2>1, <2>2, <2>3
<1> QED
  BY <1>1, <1>2, <1>3

\* _plan and _lab_steps: whatever the order of unrelated components, the plans of
\* a request have the same steps, and none has a step twice.
LEMMA PlansAgree ==
    ASSUME NEW request \in Request
    PROVE  \E T : \A s \in Plans(request) : Lists(s, T)
<1> DEFINE S == request.targets
           operation == request.operation
<1>1. /\ operation \in Operation /\ S \in SUBSET Component
      /\ Closure(S) \in SUBSET Component /\ SuspendScope(S) \in SUBSET Component
      /\ "stop" \in Operation /\ "start" \in Operation
  BY DEF Request, Closure, SuspendScope, Consumers, Operation, StartOperations,
         StopOperations
<1>2. \A o \in Operation, U \in SUBSET Component : \A s \in StopPlans(o, U) :
          Lists(s, StepsOn(o, U))
  BY OrdersListTheirSet, StepsForLists DEF StopPlans
<1>3. \A o \in Operation, U \in SUBSET Component : \A s \in StartPlans(o, U) :
          Closure(U) \in SUBSET Component => Lists(s, StepsOn(o, Closure(U)))
  BY OrdersListTheirSet, StepsForLists DEF StartPlans
<1>4. \A s \in RestartPlans(S) :
          Lists(s, StepsOn("stop", S) \union StepsOn("start", Closure(S)))
  <2> SUFFICES ASSUME NEW s \in RestartPlans(S)
               PROVE  Lists(s, StepsOn("stop", S) \union StepsOn("start", Closure(S)))
    OBVIOUS
  <2>1. PICK u \in StopPlans("stop", S), v \in StartPlans("start", S) : s = u \o v
    BY DEF RestartPlans
  <2>2. StepsOn("stop", S) \intersect StepsOn("start", Closure(S)) = {}
    <3> SUFFICES ASSUME NEW x \in StepsOn("stop", S), x \in StepsOn("start", Closure(S))
                 PROVE  FALSE
      OBVIOUS
    <3>1. x.operation = "stop" /\ x.operation = "start"
      BY DEF StepsOn
    <3> QED
      BY <3>1
  <2>3. Lists(u, StepsOn("stop", S)) /\ Lists(v, StepsOn("start", Closure(S)))
    BY <1>1, <1>2, <1>3
  <2> QED
    BY <2>1, <2>2, <2>3, ConcatLists
<1>5. CASE Plans(request) \subseteq StopPlans("stop", SuspendScope(S))
  BY <1>1, <1>2, <1>5
<1>6. CASE Plans(request) \subseteq StartPlans(operation, S)
  BY <1>1, <1>3, <1>6
<1>7. CASE Plans(request) \subseteq RestartPlans(S)
  BY <1>4, <1>7
<1>8. CASE Plans(request) \subseteq StopPlans(operation, S)
  BY <1>1, <1>2, <1>8
<1>9. CASE Plans(request) = {}
  BY <1>9
<1>10. \/ OrderedPlans(request) = StopPlans("stop", SuspendScope(S))
       \/ OrderedPlans(request) = StartPlans(operation, S)
       \/ OrderedPlans(request) = RestartPlans(S)
       \/ OrderedPlans(request) = StopPlans(operation, S)
       \/ OrderedPlans(request) = {}
  BY DEF OrderedPlans
<1>11. Plans(request) \subseteq OrderedPlans(request)
  BY DEF Plans
<1> HIDE DEF S, operation
<1> QED
  BY <1>5, <1>6, <1>7, <1>8, <1>9, <1>10, <1>11

\* The completed steps of a plan and the others make up the plan.
LEMMA RemainingLists ==
    ASSUME NEW k \in Call, NEW r \in Remaining(k), Lists(k.steps, StepSet(k.steps))
    PROVE  /\ StepSet(r) = StepSet(k.steps) \ k.completed
           /\ Cardinality(Resumable(k)) + Len(r) = Len(k.steps)
<1> DEFINE P == StepSet(k.steps)
           S == P \ k.completed
           Position(step) == CHOOSE i \in 1..Len(k.steps) : k.steps[i] = step
<1>1. IsFiniteSet(P) /\ Len(k.steps) = Cardinality(P)
  BY DEF Lists
<1>2. IsFiniteSet(S) /\ Cardinality(S) = Cardinality(P) - Cardinality(P \intersect k.completed)
  BY <1>1, FS_Difference
<1>3. \A step \in P : Position(step) \in 1..Len(k.steps)
  BY DEF StepSet
<1>4. /\ r \in [1..Cardinality(S) -> S]
      /\ \A i, j \in 1..Cardinality(S) : i < j => Position(r[i]) < Position(r[j])
  BY DEF Remaining
<1>5. k.steps \in Seq(Step) /\ Len(k.steps) \in Nat
  BY LenProperties DEF Call
<1>6. \A i, j \in 1..Cardinality(S) : i < j => r[i] # r[j]
  <2> SUFFICES ASSUME NEW i \in 1..Cardinality(S), NEW j \in 1..Cardinality(S),
                      i < j, r[i] = r[j]
               PROVE  FALSE
    OBVIOUS
  <2>1. Position(r[i]) < Position(r[j]) /\ Position(r[i]) = Position(r[j])
    BY <1>4
  <2>2. r[i] \in P
    BY <1>4
  <2> HIDE DEF Position
  <2>3. Position(r[i]) \in Nat
    BY <1>3, <1>5, <2>2
  <2> QED
    BY <2>1, <2>3
<1>7. StepSet(r) = S /\ Len(r) = Cardinality(S)
  <2> HIDE DEF S
  <2> QED
    BY <1>2, <1>4, <1>6, ListedOnce
<1>8. Cardinality(P) \in Nat /\ Cardinality(P \intersect k.completed) \in Nat
  BY <1>1, FS_CardinalityType, FS_Subset
<1>9. Resumable(k) = P \intersect k.completed
  BY DEF Resumable
<1> HIDE DEF P, S
<1> QED
  BY <1>1, <1>2, <1>7, <1>8, <1>9 DEF S, P

------------------------------------------------------------------------------
(* Type correctness                                                        *)

\* The empty request, document and request record are well-typed.
LEMMA NoneIsTyped == NoRequest \in Request /\ NoDocument \in Document /\ Idle \in Call
<1>1. NoRequest \in Request
  BY DEF NoRequest, Request, Flow, Operation, StartOperations, StopOperations
<1>2. NoDocument \in Document
  BY <1>1 DEF NoDocument, Document
<1> QED
  BY <1>1, <1>2, EmptySeq DEF Idle, Call, CallStates

\* A fresh store and an idle manager satisfy the type invariant.
LEMMA TypeInit == Init => TypeInv
BY NoneIsTyped, EmptySeq, EngineAssumption
   DEF Init, TypeInv, TypeOK, WorkerProgress, KnownId, Created, InStep, WorkerStates,
       ClusterState, Idle

\* A request thread's steps keep the types.
LEMMA TypeRequestThread ==
    ASSUME TypeInv, NEW t \in Caller, RequestThread(t)
    PROVE  TypeInv'
<1> USE DEF TypeInv, TypeOK, WorkerProgress, KnownId, Created, InStep
<1>1. ASSUME NEW r \in Requests, NEW s \in Plans(r), Submit(t, r, s) PROVE TypeInv'
  <2>1. r \in Request /\ s \in Seq(Step)
    BY EngineAssumption, PlansAreSequences
  <2>2. [Idle EXCEPT !.at = "prepare", !.request = r, !.steps = s] \in Call
    BY <2>1, NoneIsTyped DEF Call, CallStates
  <2>3. call' \in [Caller -> Call] /\ call'[t].at = "prepare"
    BY <1>1, <2>2 DEF Submit, Idle
  <2> QED
    BY <1>1, <2>3 DEF Submit
<1>2. ASSUME NEW o \in OpId, NEW s \in Plans(store[o].request), Retry(t, o, s)
      PROVE  TypeInv'
  <2>1. store[o].request \in Request /\ s \in Seq(Step)
    BY PlansAreSequences DEF Document
  <2> DEFINE k == [Idle EXCEPT !.at = "prepare", !.request = store[o].request,
                               !.steps = s, !.retry = TRUE,
                               !.completed = IF store[o].request.flow = "plain"
                                               THEN {} ELSE events[o]]
  <2>2. k \in Call
    BY <2>1, NoneIsTyped DEF Call, CallStates
  <2>3. call' \in [Caller -> Call] /\ call'[t].at = "prepare"
    BY <1>2, <2>2 DEF Retry, Idle
  <2> QED
    BY <1>2, <2>3 DEF Retry
<1>3. ASSUME NEW o \in OpId, CancelRead(t, o) PROVE TypeInv'
  <2>1. [Idle EXCEPT !.at = "cancelling", !.id = o, !.read = store[o]] \in Call
    BY NoneIsTyped DEF Call, CallStates
  <2>2. call' \in [Caller -> Call] /\ call'[t].id = o
    BY <1>3, <2>1 DEF CancelRead, Idle
  <2> QED
    BY <1>3, <2>2 DEF CancelRead
<1> QED
  BY <1>1, <1>2, <1>3 DEF RequestThread

\* The document that a resumed operation saves.
LEMMA ResumedDocumentType ==
    ASSUME NEW k \in Call, NEW e \in Document
    PROVE  ResumedDocument(k, e) \in Document
<1> DEFINE n == Cardinality(Resumable(k))
           b == k.request.flow = "lab"
<1>1. k.steps \in Seq(Step)
  BY DEF Call
<1>2. IsFiniteSet(Resumable(k))
  BY <1>1, PlanContents, FS_Subset DEF Resumable
<1>3. n \in Nat
  BY <1>2, FS_CardinalityType
<1>4. b \in BOOLEAN
  OBVIOUS
<1>5. ResumedDocument(k, e) = [e EXCEPT !.done = n, !.labAction = b]
  BY DEF ResumedDocument
<1> HIDE DEF n, b
<1> QED
  BY <1>3, <1>4, <1>5 DEF Document

\* The steps of a request thread that handles its request keep the types.
LEMMA TypeHandling ==
    ASSUME TypeInv, OwnershipInv, NEW t \in Caller, Handling(t)
    PROVE  TypeInv'
<1> USE DEF TypeInv, TypeOK, WorkerProgress, KnownId, Created, InStep
<1>0. call[t] \in Call /\ call[t].steps \in Seq(Step) /\ call[t].request \in Request
  BY DEF Call
<1>1. CASE PrepareLocked(t)
  <2>1. [call[t] EXCEPT !.at = "creating"] \in Call
    BY <1>0 DEF Call, CallStates
  <2> DEFINE k == [call[t] EXCEPT !.at = "creating"]
  <2>2. \/ call' = [call EXCEPT ![t] = Idle] /\ lock' = lock
        \/ call' = [call EXCEPT ![t] = k] /\ lock' = t
    BY <1>1 DEF PrepareLocked
  <2>3. Idle.at = "idle" /\ k.at = "creating"
    BY <1>0 DEF Idle, Call
  <2> HIDE DEF k
  <2>4. /\ call' \in [Caller -> Call] /\ lock' \in Caller \union {Nobody}
        /\ call'[t].at \in {"idle", "creating"}
        /\ \A u \in Caller \ {t} : call'[u] = call[u]
    BY <2>1, <2>2, <2>3, NoneIsTyped DEF k
  <2>5. UNCHANGED <<store, events, doc, todo, worker, attempt, cancelled, cluster,
                    orphans, manager>>
    BY <1>1 DEF PrepareLocked
  <2> QED
    BY <2>4, <2>5
<1>2. CASE Denied(t)
  BY <1>2, NoneIsTyped DEF Denied, Idle
<1>3. ASSUME NEW o \in OpId, Create(t, o) PROVE TypeInv'
  <2>1. QueuedDocument(call[t]) \in Document
    <3>1. Affected(call[t].steps) \in SUBSET Component
      BY <1>0, PlanContents
    <3>2. Len(call[t].steps) \in Nat /\ call[t].retry \in BOOLEAN
      BY <1>0, LenProperties DEF Call
    <3> QED
      BY <1>0, <3>1, <3>2 DEF QueuedDocument, Document, ActiveStates
  <2>2. AfterCreate(call[t]) \in CallStates
    BY DEF AfterCreate, CallStates
  <2>3. [call[t] EXCEPT !.id = o, !.at = AfterCreate(call[t])] \in Call
    BY <1>0, <2>2 DEF Call
  <2>4. /\ call' \in [Caller -> Call] /\ call'[t].id = o
        /\ \A u \in Caller \ {t} : call'[u] = call[u]
    BY <1>0, <1>3, <2>3 DEF Create, Call
  <2>5. /\ store' \in [OpId -> Document] /\ doc' \in [OpId -> Document]
        /\ todo' \in [OpId -> Seq(Step)]
    BY <1>0, <1>3, <2>1 DEF Create
  <2>6. KnownId'
    BY <2>4
  <2>7. WorkerProgress'
    <3>1. store[o].state = "none" /\ ~Owned(o)
      BY <1>3 DEF Create, OwnershipInv, OwnerDocument, ActiveStates
    <3>2. worker[o] \notin InStep
      BY <3>1 DEF Owned, Live
    <3> QED
      BY <1>3, <3>2 DEF Create
  <2> QED
    BY <1>3, <2>4, <2>5, <2>6, <2>7 DEF Create
<1>4. ASSUME NEW s \in Step, RecordResumed(t, s) PROVE TypeInv'
  BY <1>4 DEF RecordResumed
<1>5. CASE ResumedAll(t)
  <2>1. [call[t] EXCEPT !.at = "saving-resumed"] \in Call
        /\ [call[t] EXCEPT !.at = "spawning"] \in Call
    BY <1>0 DEF Call, CallStates
  <2>2. call' \in [Caller -> Call] /\ call'[t].id = call[t].id
    BY <1>0, <1>5, <2>1 DEF ResumedAll, Call
  <2> QED
    BY <1>5, <2>2 DEF ResumedAll
<1>6. CASE SaveResumed(t)
  <2> DEFINE o == call[t].id
             d == ResumedDocument(call[t], doc[o])
  <2>1. o \in OpId
    BY <1>6 DEF SaveResumed
  <2>2. d \in Document
    BY <1>0, <2>1, ResumedDocumentType
  <2>3. todo' \in [OpId -> Seq(Step)] /\ \A p \in OpId \ {o} : todo'[p] = todo[p]
    BY <1>0, <1>6, <2>1, RemainingAreSequences DEF SaveResumed
  <2>4. [call[t] EXCEPT !.at = "resuming"] \in Call
        /\ [call[t] EXCEPT !.at = "spawning"] \in Call
    BY <1>0 DEF Call, CallStates
  <2>5. /\ call' \in [Caller -> Call] /\ call'[t].id = o
        /\ \A u \in Caller \ {t} : call'[u] = call[u]
    BY <1>0, <1>6, <2>4 DEF SaveResumed, Call
  <2>6. store' \in [OpId -> Document] /\ doc' \in [OpId -> Document]
    BY <1>6, <2>1, <2>2 DEF SaveResumed
  <2>7. worker[o] \notin InStep
    BY <1>6 DEF SaveResumed, OwnershipInv, OneOwner, Live
  <2>8. UNCHANGED <<events, worker, attempt, cancelled, lock, cluster, orphans, manager>>
    BY <1>6 DEF SaveResumed
  <2> HIDE DEF d, o
  <2>9. WorkerProgress'
    BY <2>3, <2>7, <2>8
  <2> QED
    BY <2>1, <2>3, <2>5, <2>6, <2>8, <2>9
<1>7. CASE Spawn(t)
  BY <1>7, NoneIsTyped DEF Spawn, Idle, WorkerStates
<1>8. CASE CancelWrite(t)
  <2>1. [call[t].read EXCEPT !.state = "cancelling"] \in Document
    BY <1>0 DEF Call, Document, ActiveStates
  <2> QED
    BY <1>8, <2>1, NoneIsTyped DEF CancelWrite, Idle
<1> QED
  BY <1>1, <1>2, <1>3, <1>4, <1>5, <1>6, <1>7, <1>8 DEF Handling

\* The updates that a worker makes to its document.
LEMMA DocumentUpdates ==
    ASSUME NEW d \in Document
    PROVE  /\ \A state \in ActiveStates \union TerminalStates :
                 [d EXCEPT !.state = state] \in Document
           /\ \A state \in TerminalStates :
                 [d EXCEPT !.state = state, !.recovery = TRUE] \in Document
           /\ [d EXCEPT !.done = @ + 1] \in Document
<1>1. \A state \in ActiveStates \union TerminalStates : [d EXCEPT !.state = state] \in Document
  BY DEF Document
<1>2. ASSUME NEW state \in TerminalStates, NEW b \in BOOLEAN
      PROVE  [d EXCEPT !.state = state, !.recovery = b] \in Document
  BY DEF Document
<1>3. [d EXCEPT !.done = @ + 1] \in Document
  BY DEF Document
<1> QED
  BY <1>1, <1>2, <1>3

\* A worker thread's steps keep the types.
LEMMA TypeWorkerThread ==
    ASSUME TypeInv, NEW o \in OpId, WorkerThread(o)
    PROVE  TypeInv'
<1> USE EngineAssumption
        DEF TypeInv, TypeOK, WorkerProgress, KnownId, Created, InStep, WorkerAt
<1>0. doc[o] \in Document /\ todo[o] \in Seq(Step)
  OBVIOUS
<1>1. \A d \in Document : Save(o, d) =>
          store' \in [OpId -> Document] /\ doc' \in [OpId -> Document]
  BY DEF Save
<1>2. CASE RunStart(o)
  BY <1>0, <1>1, <1>2, DocumentUpdates DEF RunStart, WorkerStates, ActiveStates
<1>3. CASE NextStep(o)
  BY <1>0, <1>1, <1>3 DEF NextStep, WorkerStates
<1>4. CASE NoMoreSteps(o)
  <2>1. doc' \in [OpId -> Document]
    BY <1>0, <1>4, DocumentUpdates DEF NoMoreSteps, TerminalStates
  <2> QED
    BY <1>4, <2>1 DEF NoMoreSteps, WorkerStates
<1>5. CASE StartAttempt(o)
  BY <1>0, <1>1, <1>5 DEF StartAttempt, WorkerStates
<1>6. worker[o] \in InStep => Head(todo[o]) \in Step
  BY <1>0, HeadTailProperties
<1>7. \A step \in Step :
          /\ Apply(step) => cluster' \in [Component -> ClusterState]
          /\ MaybeApply(step) => cluster' \in [Component -> ClusterState]
          /\ Interrupt(step) => /\ cluster' \in [Component -> ClusterState]
                                /\ orphans' \in SUBSET Step
  <2> TAKE step \in Step
  <2>1. step.component \in Component
    BY DEF Step
  <2>2. Target(step.operation, step.component) \in ClusterState
    BY <2>1 DEF Target, ClusterState
  <2>3. Apply(step) => cluster' \in [Component -> ClusterState]
    BY <2>1, <2>2 DEF Apply
  <2>4. MaybeApply(step) => cluster' \in [Component -> ClusterState]
    BY <2>3 DEF MaybeApply
  <2> QED
    BY <2>3, <2>4 DEF Interrupt
<1>8. \A from \in WorkerStates, state \in TerminalStates : Abort(o, from, state) =>
          /\ doc' \in [OpId -> Document]
          /\ worker' = [worker EXCEPT ![o] = "finally"]
          /\ UNCHANGED <<store, events, todo, attempt, cancelled, lock, call, manager>>
  <2> SUFFICES ASSUME NEW from \in WorkerStates, NEW state \in TerminalStates,
                      Abort(o, from, state)
               PROVE  doc' \in [OpId -> Document]
    BY DEF Abort
  <2>1. doc' = [doc EXCEPT ![o] = [doc[o] EXCEPT !.state = state, !.recovery = TRUE]]
    BY DEF Abort
  <2>2. [doc[o] EXCEPT !.state = state, !.recovery = TRUE] \in Document
    BY <1>0, DocumentUpdates
  <2> QED
    BY <2>1, <2>2
<1>9. \A from \in WorkerStates : StepCancelled(o, from) \/ StepTimedOut(o, from) =>
          /\ doc' \in [OpId -> Document]
          /\ worker' = [worker EXCEPT ![o] = "finally"]
          /\ UNCHANGED <<store, events, todo, attempt, cancelled, lock, call, manager>>
  BY <1>8 DEF StepCancelled, StepTimedOut, TerminalStates

<1>10. \A from \in WorkerStates : AttemptFailed(o, from) =>
          \/ /\ attempt[o] < MaxAttempts
             /\ worker' = [worker EXCEPT ![o] = "attempt"] /\ worker[o] = from
             /\ UNCHANGED <<store, events, doc, todo, attempt, cancelled, lock, call, manager>>
          \/ /\ doc' \in [OpId -> Document]
             /\ worker' = [worker EXCEPT ![o] = "finally"]
             /\ UNCHANGED <<store, events, todo, attempt, cancelled, lock, call, manager>>
  BY <1>8 DEF AttemptFailed, TerminalStates
<1>11. CASE Boundary(o)
  <2>1. ASSUME NEW from \in WorkerStates, NEW to \in {"executing", "verifying"},
               worker[o] \in InStep, Passed(o, from, to)
        PROVE  TypeInv'
    BY <2>1 DEF Passed, WorkerStates
  <2>2. ASSUME NEW from \in WorkerStates,
               StepCancelled(o, from)
                 \/ (StepTimedOut(o, from) /\ UNCHANGED <<cluster, orphans>>)
        PROVE  TypeInv'
    <3>1. UNCHANGED <<cluster, orphans>>
      BY <2>2 DEF StepCancelled
    <3> QED
      BY <1>9, <2>2, <3>1 DEF WorkerStates
  <2>3. Passed(o, "boundary", "executing") \/ Passed(o, "checking", "verifying")
          => worker[o] \in InStep
    BY DEF Passed
  <2> QED
    BY <1>11, <2>1, <2>2, <2>3 DEF Boundary, WorkerStates
<1>12. CASE AdapterDone(o)
  <2>1. worker[o] \in InStep /\ cluster' \in [Component -> ClusterState]
    BY <1>6, <1>7, <1>12 DEF AdapterDone
  <2> QED
    BY <1>12, <2>1 DEF AdapterDone, WorkerStates
<1>13. CASE AdapterFailed(o)
  <2>1. worker[o] \in InStep /\ cluster' \in [Component -> ClusterState] /\ UNCHANGED orphans
    BY <1>6, <1>7, <1>13 DEF AdapterFailed
  <2> QED
    BY <1>10, <1>13, <2>1 DEF AdapterFailed, WorkerStates
<1>14. CASE AdapterCancelled(o) \/ AdapterTimedOut(o)
  <2>1. worker[o] = "executing" /\ Interrupt(Head(todo[o]))
    BY <1>14 DEF AdapterCancelled, AdapterTimedOut, StepTimedOut, Abort
  <2>2. cluster' \in [Component -> ClusterState] /\ orphans' \in SUBSET Step
    BY <1>6, <1>7, <2>1
  <2>3. /\ doc' \in [OpId -> Document]
        /\ worker' = [worker EXCEPT ![o] = "finally"]
        /\ UNCHANGED <<store, events, todo, attempt, cancelled, lock, call, manager>>
    BY <1>8, <1>14 DEF AdapterCancelled, AdapterTimedOut, StepTimedOut, WorkerStates,
                       TerminalStates
  <2> QED
    BY <2>2, <2>3 DEF WorkerStates
<1>15. CASE VerifyPassed(o)
  <2>1. worker[o] \in InStep /\ Head(todo[o]) \in Step
    BY <1>6, <1>15 DEF VerifyPassed
  <2>2. events' \in [OpId -> SUBSET Step]
    BY <1>15, <2>1 DEF VerifyPassed
  <2> QED
    BY <1>15, <2>1, <2>2 DEF VerifyPassed, WorkerStates
<1>16. CASE VerifyFailed(o)
  <2>1. worker[o] \in InStep /\ UNCHANGED <<cluster, orphans>>
    BY <1>16 DEF VerifyFailed
  <2> QED
    BY <1>10, <1>16, <2>1 DEF VerifyFailed, WorkerStates
<1>17. CASE VerifyBoundary(o)
  <2>1. UNCHANGED <<cluster, orphans>>
    BY <1>17 DEF VerifyBoundary, StepCancelled
  <2> QED
    BY <1>9, <1>17, <2>1 DEF VerifyBoundary, WorkerStates
<1>18. CASE StepSucceeded(o)
  <2>1. Tail(todo[o]) \in Seq(Step) /\ worker[o] \in InStep
    BY <1>0, <1>18, HeadTailProperties DEF StepSucceeded
  <2> QED
    BY <1>0, <1>1, <1>18, <2>1, DocumentUpdates DEF StepSucceeded, WorkerStates
<1>19. CASE Discard(o)
  BY <1>19 DEF Discard, WorkerStates
<1>20. CASE FinalSave(o)
  BY <1>0, <1>1, <1>20 DEF FinalSave, WorkerStates
<1>21. CASE WorkerExit(o)
  BY <1>21 DEF WorkerExit, WorkerStates
<1> QED
  BY <1>2, <1>3, <1>4, <1>5, <1>11, <1>12, <1>13, <1>14, <1>15, <1>16, <1>17, <1>18,
     <1>19, <1>20, <1>21 DEF WorkerThread

\* A crash, the reopening of the store and an orphan's late effect keep the types.
LEMMA TypeEnvironment ==
    ASSUME TypeInv, Crash \/ Reopen \/ \E s \in orphans : OrphanApplies(s)
    PROVE  TypeInv'
<1> USE DEF TypeInv, TypeOK, WorkerProgress, KnownId, Created, InStep
<1>1. CASE Crash
  BY <1>1, NoneIsTyped, EmptySeq, EngineAssumption DEF Crash, WorkerStates, Idle
<1>2. \A d \in Document : /\ [d EXCEPT !.state = "interrupted"] \in Document
                          /\ [d EXCEPT !.recovery = TRUE] \in Document
  <2>1. \A d \in Document, b \in BOOLEAN : [d EXCEPT !.recovery = b] \in Document
    BY DEF Document
  <2> QED
    BY <2>1 DEF Document, TerminalStates
<1>3. CASE OpenStore
  <2>1. store' \in [OpId -> Document]
    BY <1>2, <1>3 DEF OpenStore
  <2> QED
    BY <1>3, <2>1 DEF OpenStore, volatile
<1>4. ASSUME NEW o \in OpId, SetInterruptedRecovery(o) PROVE TypeInv'
  <2>1. store' = [store EXCEPT ![o] = [store[o] EXCEPT !.recovery = TRUE]]
    BY <1>4 DEF SetInterruptedRecovery
  <2>2. store' \in [OpId -> Document]
    BY <1>2, <2>1
  <2> QED
    BY <1>4, <2>2 DEF SetInterruptedRecovery, volatile
<1>5. CASE Serve
  BY <1>5 DEF Serve, volatile
<1>6. ASSUME NEW s \in orphans, OrphanApplies(s) PROVE TypeInv'
  <2>1. s \in Step /\ s.component \in Component
    BY DEF Step
  <2>2. Target(s.operation, s.component) \in ClusterState
    BY <2>1 DEF Target, ClusterState
  <2>3. cluster' \in [Component -> ClusterState]
    BY <1>6, <2>1, <2>2 DEF OrphanApplies, MaybeApply, Apply
  <2> QED
    BY <1>6, <2>3 DEF OrphanApplies
<1> QED
  BY <1>1, <1>3, <1>4, <1>5, <1>6 DEF Reopen

\* Every step keeps the types; OwnershipInv is needed because a row's plan may
\* only be replaced while no worker runs it.
LEMMA TypeStep == TypeInv /\ OwnershipInv /\ [Next]_vars => TypeInv'
<1>1. TypeInv /\ UNCHANGED vars => TypeInv'
  BY DEF TypeInv, TypeOK, WorkerProgress, KnownId, Created, vars
<1> QED
  BY <1>1, TypeRequestThread, TypeHandling, TypeWorkerThread, TypeEnvironment DEF Next

------------------------------------------------------------------------------
(* Ownership                                                               *)

\* Initially nobody owns anything.
LEMMA OwnershipInit == Init => OwnershipInv
BY DEF Init, OwnershipInv, NothingRuns, LockHeld, OneOwner, OwnerDocument, Owned, Live,
       Created, Idle

\* What a new request changes: the requesting thread's own record, and the lock
\* when the request is a cancellation.
LEMMA RequestThreadFrame ==
    ASSUME TypeInv, NEW t \in Caller, RequestThread(t)
    PROVE  /\ call[t].at = "idle" /\ manager = "up"
           /\ UNCHANGED <<store, doc, worker, manager>>
           /\ \A u \in Caller \ {t} : call'[u] = call[u]
           /\ \/ call'[t].at = "prepare" /\ lock' = lock
              \/ /\ call'[t].at = "cancelling" /\ lock = Nobody /\ lock' = t
                 /\ call'[t].id \in OpId
                 /\ store[call'[t].id].state \in ActiveStates
                 /\ call'[t].read = store[call'[t].id]
<1> USE DEF TypeInv, TypeOK
<1>1. ASSUME NEW r \in Requests, NEW s \in Plans(r), Submit(t, r, s)
      PROVE  /\ call[t].at = "idle" /\ manager = "up"
             /\ UNCHANGED <<store, doc, worker, manager>>
             /\ \A u \in Caller \ {t} : call'[u] = call[u]
             /\ call'[t].at = "prepare" /\ lock' = lock
  BY <1>1 DEF Submit, Idle
<1>2. ASSUME NEW o \in OpId, NEW s \in Plans(store[o].request), Retry(t, o, s)
      PROVE  /\ call[t].at = "idle" /\ manager = "up"
             /\ UNCHANGED <<store, doc, worker, manager>>
             /\ \A u \in Caller \ {t} : call'[u] = call[u]
             /\ call'[t].at = "prepare" /\ lock' = lock
  <2> DEFINE done == IF store[o].request.flow = "plain" THEN {} ELSE events[o]
             k == [Idle EXCEPT !.at = "prepare", !.request = store[o].request,
                               !.steps = s, !.retry = TRUE, !.completed = done]
  <2>1. call' = [call EXCEPT ![t] = k]
    BY <1>2 DEF Retry
  <2>2. k.at = "prepare"
    BY DEF Idle
  <2> HIDE DEF k
  <2> QED
    BY <1>2, <2>1, <2>2 DEF Retry
<1>3. ASSUME NEW o \in OpId, CancelRead(t, o)
      PROVE  /\ call[t].at = "idle" /\ manager = "up"
             /\ UNCHANGED <<store, doc, worker, manager>>
             /\ \A u \in Caller \ {t} : call'[u] = call[u]
             /\ call'[t].at = "cancelling" /\ lock = Nobody /\ lock' = t
             /\ call'[t].id = o /\ store[o].state \in ActiveStates
             /\ call'[t].read = store[o]
  BY <1>3 DEF CancelRead, Idle
<1> QED
  BY <1>1, <1>2, <1>3 DEF RequestThread

\* A new submission, retry or cancellation gives no thread an operation.
LEMMA OwnershipRequestThread ==
    ASSUME TypeInv, OwnershipInv, NEW t \in Caller, RequestThread(t)
    PROVE  OwnershipInv'
<1> USE DEF OwnershipInv, NothingRuns, LockHeld, OneOwner, Owned, Live, Created
<1>1. /\ call[t].at = "idle" /\ manager = "up"
      /\ UNCHANGED <<store, doc, worker, manager>>
      /\ \A u \in Caller \ {t} : call'[u] = call[u]
      /\ call'[t].at \in {"prepare", "cancelling"}
      /\ call'[t].at = "cancelling" => lock = Nobody /\ lock' = t
      /\ call'[t].at = "prepare" => lock' = lock
  BY RequestThreadFrame
<1>2. \A u \in Caller : call[u].at \in {"creating", "cancelling"} => lock # Nobody
  BY EngineAssumption
<1>3. \A o \in OpId : Owned(o)' => Owned(o)
  BY <1>1
<1>4. OwnerDocument'
  BY <1>1, <1>3 DEF OwnerDocument
<1> QED
  BY <1>1, <1>2, <1>4

\* What a worker changes: only its own operation.  It runs steps and saves its
\* document, it ends the run, it forgets a cancellation, it saves for the last
\* time, or it exits.
Running == InStep \union {"starting", "next"}

Unfinished(o) ==
    /\ worker[o] \in Running /\ worker'[o] \in Running
    /\ store'[o] = store[o] \/ store'[o] = doc'[o]
    /\ doc'[o].state \in {doc[o].state, "running"}
    /\ doc'[o].recovery = doc[o].recovery

Ending(o) ==
    /\ worker[o] \in Running /\ worker'[o] = "finally"
    /\ store'[o] = store[o]
    /\ \/ doc'[o].state = "succeeded" /\ doc'[o].recovery = doc[o].recovery
       \/ doc'[o].state # "succeeded" /\ doc'[o].recovery

Forgetting(o) ==
    worker[o] = "finally" /\ worker'[o] = "saving" /\ UNCHANGED <<store, doc>>

LastSave(o) ==
    /\ worker[o] = "saving" /\ worker'[o] = "exiting"
    /\ store'[o] = doc[o] /\ doc'[o] = doc[o]

Exiting(o) ==
    worker[o] = "exiting" /\ worker'[o] = "none" /\ UNCHANGED <<store, doc>>

\* Every step of _run is one of the five kinds above and touches no other row.
LEMMA WorkerThreadFrame ==
    ASSUME TypeInv, NEW o \in OpId, WorkerThread(o)
    PROVE  /\ UNCHANGED <<lock, call, manager>>
           /\ \A p \in OpId \ {o} : /\ store'[p] = store[p] /\ doc'[p] = doc[p]
                                    /\ worker'[p] = worker[p]
           /\ doc'[o].components = doc[o].components
           /\ Unfinished(o) \/ Ending(o) \/ Forgetting(o) \/ LastSave(o) \/ Exiting(o)
<1> DEFINE Frame ==
             /\ UNCHANGED <<lock, call, manager>>
             /\ \A p \in OpId \ {o} : /\ store'[p] = store[p] /\ doc'[p] = doc[p]
                                      /\ worker'[p] = worker[p]
             /\ doc'[o].components = doc[o].components
           Outcome ==
             Unfinished(o) \/ Ending(o) \/ Forgetting(o) \/ LastSave(o) \/ Exiting(o)
<1> USE DEF TypeInv, TypeOK, WorkerAt, Running, InStep
<1>0. doc[o] \in Document /\ worker[o] \in WorkerStates
  OBVIOUS
<1>1. CASE RunStart(o)
  BY <1>0, <1>1 DEF RunStart, Save, Unfinished, Document
<1>2. CASE NextStep(o)
  BY <1>0, <1>2 DEF NextStep, Save, Unfinished
<1>3. CASE NoMoreSteps(o)
  <2>1. doc' = [doc EXCEPT ![o] = [doc[o] EXCEPT !.state = "succeeded"]]
    BY <1>3 DEF NoMoreSteps
  <2>2. /\ doc'[o].state = "succeeded" /\ doc'[o].recovery = doc[o].recovery
        /\ doc'[o].components = doc[o].components
    BY <1>0, <2>1 DEF Document
  <2> QED
    BY <1>3, <2>1, <2>2 DEF NoMoreSteps, Ending
<1>4. CASE StartAttempt(o)
  BY <1>0, <1>4 DEF StartAttempt, Save, Unfinished
<1>5. ASSUME NEW from \in Running, NEW state \in TerminalStates \ {"succeeded"},
             Abort(o, from, state)
      PROVE  Frame /\ Outcome
  <2>1. doc' = [doc EXCEPT ![o] = [doc[o] EXCEPT !.state = state, !.recovery = TRUE]]
    BY <1>5 DEF Abort
  <2>2. /\ doc'[o].state # "succeeded" /\ doc'[o].recovery
        /\ doc'[o].components = doc[o].components
    BY <1>0, <2>1 DEF Document
  <2> QED
    BY <1>5, <2>1, <2>2 DEF Abort, Ending
<1>6. ASSUME NEW from \in Running, StepCancelled(o, from) \/ StepTimedOut(o, from)
      PROVE  Frame /\ Outcome
  BY <1>5, <1>6 DEF StepCancelled, StepTimedOut, TerminalStates
<1>7. ASSUME NEW from \in Running, AttemptFailed(o, from)
      PROVE  Frame /\ Outcome
  <2>1. CASE Abort(o, from, "failed")
    BY <1>5, <2>1 DEF TerminalStates
  <2>2. CASE /\ WorkerAt(o, from, "attempt")
             /\ UNCHANGED <<store, events, doc, todo, attempt>>
    BY <1>0, <2>2 DEF Unfinished
  <2> QED
    BY <1>7, <2>1, <2>2 DEF AttemptFailed
<1>8. CASE Boundary(o)
  <2>1. ASSUME NEW from \in Running, NEW to \in Running, Passed(o, from, to)
        PROVE  Frame /\ Outcome
    BY <1>0, <2>1 DEF Passed, Unfinished
  <2> QED
    BY <1>6, <1>8, <2>1 DEF Boundary
<1>9. CASE AdapterDone(o)
  BY <1>0, <1>9 DEF AdapterDone, Unfinished
<1>10. CASE AdapterFailed(o) \/ VerifyFailed(o)
  BY <1>7, <1>10 DEF AdapterFailed, VerifyFailed
<1>11. CASE AdapterCancelled(o) \/ AdapterTimedOut(o)
  BY <1>5, <1>11 DEF AdapterCancelled, AdapterTimedOut, StepTimedOut, TerminalStates
<1>12. CASE VerifyPassed(o)
  BY <1>0, <1>12 DEF VerifyPassed, Unfinished
<1>13. CASE VerifyBoundary(o)
  BY <1>6, <1>13 DEF VerifyBoundary
<1>14. CASE StepSucceeded(o)
  BY <1>0, <1>14 DEF StepSucceeded, Save, Unfinished, Document
<1>15. CASE Discard(o)
  BY <1>15 DEF Discard, Forgetting
<1>16. CASE FinalSave(o)
  BY <1>16 DEF FinalSave, Save, LastSave
<1>17. CASE WorkerExit(o)
  BY <1>17 DEF WorkerExit, Exiting
<1> QED
  BY <1>1, <1>2, <1>3, <1>4, <1>8, <1>9, <1>10, <1>11, <1>12, <1>13, <1>14, <1>15,
     <1>16, <1>17 DEF WorkerThread

\* A worker's saves keep its row active until the last one, which gives it up.
LEMMA OwnershipWorkerThread ==
    ASSUME TypeInv, OwnershipInv, NEW o \in OpId, WorkerThread(o)
    PROVE  OwnershipInv'
<1> USE DEF OwnershipInv
<1>1. /\ UNCHANGED <<lock, call, manager>>
      /\ \A p \in OpId \ {o} : /\ store'[p] = store[p] /\ doc'[p] = doc[p]
                               /\ worker'[p] = worker[p]
      /\ doc'[o].components = doc[o].components
      /\ Unfinished(o) \/ Ending(o) \/ Forgetting(o) \/ LastSave(o) \/ Exiting(o)
  BY WorkerThreadFrame
<1>2. worker[o] # "none" /\ (Live(o)' => Live(o))
  BY <1>1 DEF Unfinished, Ending, Forgetting, LastSave, Exiting, Running, InStep, Live
<1>3. NothingRuns'
  BY <1>1, <1>2 DEF NothingRuns
<1>4. LockHeld'
  BY <1>1 DEF LockHeld
<1>5. \A p \in OpId : Live(p)' => Live(p)
  BY <1>1, <1>2 DEF Live
<1>6. OneOwner'
  <2>1. \A t \in Caller : Created(t) => call[t].id \in OpId
    BY DEF TypeInv, KnownId
  <2> QED
    BY <1>1, <1>5, <2>1 DEF OneOwner, Created
<1>7. OwnerDocument'
  <2>1. \A p \in OpId : Owned(p)' => Owned(p)
    BY <1>1, <1>5 DEF Owned, Created
  <2>2. ASSUME NEW p \in OpId \ {o}, Owned(p)'
        PROVE  /\ store'[p].state \in ActiveStates
               /\ store'[p].components = doc'[p].components
               /\ worker'[p] \notin {"finally", "saving"} => doc'[p].state \in ActiveStates
    BY <1>1, <2>1, <2>2 DEF OwnerDocument
  <2>3. ASSUME Owned(o)'
        PROVE  /\ store'[o].state \in ActiveStates
               /\ store'[o].components = doc'[o].components
               /\ worker'[o] \notin {"finally", "saving"} => doc'[o].state \in ActiveStates
    <3>1. /\ Owned(o) /\ store[o].state \in ActiveStates
          /\ store[o].components = doc[o].components
          /\ worker[o] \notin {"finally", "saving"} => doc[o].state \in ActiveStates
      BY <2>1, <2>3 DEF OwnerDocument
    <3>2. CASE Unfinished(o)
      BY <1>1, <3>1, <3>2 DEF Unfinished, Running, InStep, ActiveStates
    <3>3. CASE Ending(o)
      BY <1>1, <3>1, <3>3 DEF Ending
    <3>4. CASE Forgetting(o)
      BY <1>1, <3>1, <3>4 DEF Forgetting
    <3>5. CASE LastSave(o)
      <4>1. PICK t \in Caller : Created(t) /\ call[t].id = o
        BY <1>1, <2>3, <3>5 DEF Owned, Created, LastSave, Live
      <4> QED
        BY <3>5, <4>1 DEF OneOwner, LastSave, Live
    <3>6. CASE Exiting(o)
      BY <1>1, <3>1, <3>6 DEF Exiting
    <3> QED
      BY <1>1, <3>2, <3>3, <3>4, <3>5, <3>6
  <2> QED
    BY <2>2, <2>3 DEF OwnerDocument
<1> QED
  BY <1>3, <1>4, <1>6, <1>7

\* What a request thread changes while it handles its request.
TakingLock(t) ==
    /\ call[t].at = "prepare" /\ UNCHANGED <<store, doc, worker>>
    /\ \/ call'[t].at = "idle" /\ lock' = lock
       \/ /\ call'[t].at = "creating" /\ lock = Nobody /\ lock' = t
          /\ call'[t].steps = call[t].steps /\ ~Conflict(call[t].steps)

Refused(t) ==
    /\ call[t].at = "creating" /\ call'[t].at = "idle" /\ lock' = Nobody
    /\ UNCHANGED <<store, doc, worker>>

Creating(t, o) ==
    /\ call[t].at = "creating" /\ lock' = Nobody
    /\ Created(t)' /\ call'[t].id = o
    /\ store[o].state = "none"
    /\ store' = [store EXCEPT ![o] = QueuedDocument(call[t])]
    /\ doc' = [doc EXCEPT ![o] = QueuedDocument(call[t])]
    /\ UNCHANGED worker

Resuming(t) ==
    /\ Created(t) /\ Created(t)' /\ call'[t].id = call[t].id
    /\ UNCHANGED <<worker, lock>>
    /\ \/ UNCHANGED <<store, doc>>
       \/ \E d \in Document :
             /\ store' = [store EXCEPT ![call[t].id] = d]
             /\ doc' = [doc EXCEPT ![call[t].id] = d]
             /\ d.state = doc[call[t].id].state
             /\ d.components = doc[call[t].id].components
             /\ d.recovery = doc[call[t].id].recovery

Spawning(t) ==
    /\ Created(t) /\ call'[t].at = "idle"
    /\ worker' = [worker EXCEPT ![call[t].id] = "starting"]
    /\ UNCHANGED <<store, doc, lock>>

WritingBack(t) ==
    /\ call[t].at = "cancelling" /\ call'[t].at = "idle" /\ lock' = Nobody
    /\ store' = [store EXCEPT ![call[t].id] = [call[t].read EXCEPT !.state = "cancelling"]]
    /\ UNCHANGED <<doc, worker>>

\* Every step of submit_async, its variants and cancel is one of the kinds above.
LEMMA HandlingFrame ==
    ASSUME TypeInv, NEW t \in Caller, Handling(t)
    PROVE  /\ UNCHANGED manager
           /\ \A u \in Caller \ {t} : call'[u] = call[u]
           /\ \/ TakingLock(t) \/ Refused(t) \/ \E o \in OpId : Creating(t, o)
              \/ Resuming(t) \/ Spawning(t) \/ WritingBack(t)
<1> DEFINE Outcome == \/ TakingLock(t) \/ Refused(t) \/ \E o \in OpId : Creating(t, o)
                      \/ Resuming(t) \/ Spawning(t) \/ WritingBack(t)
           Frame == UNCHANGED manager /\ \A u \in Caller \ {t} : call'[u] = call[u]
<1> USE DEF TypeInv, TypeOK
<1>0. call[t] \in Call
  OBVIOUS
<1>1. CASE PrepareLocked(t)
  <2> DEFINE k == [call[t] EXCEPT !.at = "creating"]
  <2>1. \/ call' = [call EXCEPT ![t] = Idle] /\ lock' = lock
        \/ /\ call' = [call EXCEPT ![t] = k] /\ lock = Nobody /\ lock' = t
           /\ ~Conflict(call[t].steps)
    BY <1>1 DEF PrepareLocked
  <2>2. Idle.at = "idle" /\ k.at = "creating" /\ k.steps = call[t].steps
    BY <1>0 DEF Idle, Call
  <2> HIDE DEF k
  <2>3. call[t].at = "prepare" /\ UNCHANGED <<store, doc, worker, manager>>
    BY <1>1 DEF PrepareLocked
  <2> QED
    BY <2>1, <2>2, <2>3 DEF TakingLock
<1>2. CASE Denied(t)
  BY <1>2 DEF Denied, Idle, Refused
<1>3. ASSUME NEW o \in OpId, Create(t, o) PROVE Frame /\ Outcome
  <2>1. call'[t].id = o /\ call'[t].at = AfterCreate(call[t])
    BY <1>0, <1>3 DEF Create, Call
  <2>2. Created(t)'
    BY <2>1 DEF Created, AfterCreate
  <2> QED
    BY <1>3, <2>1, <2>2 DEF Create, Creating
<1>4. CASE \E s \in Step : RecordResumed(t, s)
  BY <1>4 DEF RecordResumed, Resuming, Created
<1>5. CASE ResumedAll(t)
  <2>1. call'[t].id = call[t].id /\ Created(t)'
    BY <1>0, <1>5 DEF ResumedAll, Call, Created
  <2> QED
    BY <1>5, <2>1 DEF ResumedAll, Resuming, Created
<1>6. CASE SaveResumed(t)
  <2> DEFINE d == ResumedDocument(call[t], doc[call[t].id])
  <2>1. call'[t].id = call[t].id /\ Created(t) /\ Created(t)'
    BY <1>0, <1>6 DEF SaveResumed, Call, Created
  <2>2. call[t].id \in OpId /\ doc'[call[t].id] = d
    BY <1>6, <2>1 DEF SaveResumed, KnownId
  <2>3. d \in Document
    BY <1>0, <2>2, ResumedDocumentType
  <2>4. /\ d.state = doc[call[t].id].state
        /\ d.components = doc[call[t].id].components
        /\ d.recovery = doc[call[t].id].recovery
    BY <2>2 DEF ResumedDocument, Document
  <2>5. /\ store' = [store EXCEPT ![call[t].id] = d]
        /\ doc' = [doc EXCEPT ![call[t].id] = d]
        /\ UNCHANGED <<worker, lock, manager>> /\ Frame
    BY <1>6 DEF SaveResumed
  <2> HIDE DEF d
  <2> QED
    BY <2>1, <2>3, <2>4, <2>5 DEF Resuming
<1>7. CASE Spawn(t)
  BY <1>7 DEF Spawn, Spawning, Created, Idle
<1>8. CASE CancelWrite(t)
  BY <1>8 DEF CancelWrite, WritingBack, Idle
<1> QED
  BY <1>1, <1>2, <1>3, <1>4, <1>5, <1>6, <1>7, <1>8 DEF Handling

\* Creating a row, resuming and starting its worker hand the operation from one
\* owner to the next; cancel's write keeps an active row active.
LEMMA OwnershipHandling ==
    ASSUME TypeInv, OwnershipInv, ExclusionInv, NEW t \in Caller, Handling(t)
    PROVE  OwnershipInv'
<1> USE DEF OwnershipInv
<1>1. /\ UNCHANGED manager
      /\ \A u \in Caller \ {t} : call'[u] = call[u]
  BY HandlingFrame
<1>2. /\ \A u \in Caller : call[u].at \in {"creating", "cancelling"} => lock = u
      /\ \A u \in Caller : Created(u) => call[u].id \in OpId /\ ~Live(call[u].id)
      /\ \A u, v \in Caller : (u # v /\ Created(u) /\ Created(v)) => call[u].id # call[v].id
      /\ Nobody \notin Caller
  BY EngineAssumption DEF TypeInv, KnownId, LockHeld, OneOwner
<1>3. ASSUME UNCHANGED <<store, doc, worker>>, ~Created(t)', LockHeld'
      PROVE  OwnershipInv'
  <2>1. \A o \in OpId : Live(o)' <=> Live(o)
    BY <1>3 DEF Live
  <2>2. \A u \in Caller : Created(u)' => Created(u) /\ call'[u] = call[u]
    BY <1>1, <1>3 DEF Created
  <2>3. \A o \in OpId : Owned(o)' => Owned(o)
    BY <2>1, <2>2 DEF Owned
  <2>4. OneOwner'
    BY <1>2, <2>1, <2>2 DEF OneOwner
  <2>5. OwnerDocument'
    BY <1>3, <2>3 DEF OwnerDocument
  <2>6. NothingRuns'
    BY <1>1, <1>3, HandlingFrame DEF NothingRuns, TakingLock, Refused, Creating, Resuming,
                                     Spawning, WritingBack, Created
  <2> QED
    BY <1>3, <2>4, <2>5, <2>6
<1>4. CASE TakingLock(t)
  <2>1. LockHeld'
    BY <1>1, <1>2, <1>4 DEF TakingLock, LockHeld
  <2> QED
    BY <1>3, <1>4, <2>1 DEF TakingLock, Created
<1>5. CASE Refused(t)
  <2>1. LockHeld'
    BY <1>1, <1>2, <1>5 DEF Refused, LockHeld
  <2> QED
    BY <1>3, <1>5, <2>1 DEF Refused, Created
<1>6. ASSUME NEW o \in OpId, Creating(t, o) PROVE OwnershipInv'
  <2>1. store[o].state = "none" /\ ~Owned(o)
    BY <1>6 DEF Creating, OwnerDocument, ActiveStates
  <2>2. /\ store'[o].state \in ActiveStates /\ doc'[o].state \in ActiveStates
        /\ store'[o].components = doc'[o].components
        /\ \A p \in OpId \ {o} : store'[p] = store[p] /\ doc'[p] = doc[p]
    BY <1>6 DEF Creating, TypeInv, TypeOK, QueuedDocument, ActiveStates
  <2>3. ~Live(o) /\ \A p \in OpId : Live(p)' <=> Live(p)
    BY <1>6, <2>1 DEF Owned, Creating, Live
  <2>4. LockHeld'
    BY <1>1, <1>2, <1>6 DEF Creating, LockHeld, Created
  <2>5. \A u \in Caller \ {t} : (Created(u)' <=> Created(u)) /\ call'[u].id = call[u].id
    BY <1>1 DEF Created
  <2>6. \A u \in Caller : Created(u) => call[u].id # o
    BY <2>1 DEF Owned
  <2>7. OneOwner'
    BY <1>2, <1>6, <2>3, <2>5, <2>6 DEF OneOwner, Creating
  <2>8. \A p \in OpId \ {o} : Owned(p)' => Owned(p)
    BY <1>6, <2>3, <2>5 DEF Owned, Creating
  <2>9. OwnerDocument'
    BY <1>6, <2>2, <2>8 DEF OwnerDocument, Creating
  <2>10. NothingRuns'
    BY <1>1, <1>6 DEF NothingRuns, Creating
  <2> QED
    BY <2>4, <2>7, <2>9, <2>10
<1>7. CASE Resuming(t)
  <2> DEFINE o == call[t].id
  <2>0. o \in OpId /\ Owned(o) /\ ~Live(o) /\ store[o].state \in ActiveStates
        /\ doc[o].state \in ActiveStates /\ store[o].components = doc[o].components
    BY <1>2, <1>7 DEF Resuming, Owned, OwnerDocument, Live
  <2>1. /\ store'[o].state \in ActiveStates /\ doc'[o].state \in ActiveStates
        /\ store'[o].components = doc'[o].components
        /\ \A p \in OpId \ {o} : store'[p] = store[p] /\ doc'[p] = doc[p]
    BY <1>7, <2>0 DEF Resuming, TypeInv, TypeOK
  <2>2. \A p \in OpId : Live(p)' <=> Live(p)
    BY <1>7 DEF Resuming, Live
  <2>3. LockHeld'
    BY <1>1, <1>2, <1>7 DEF Resuming, LockHeld, Created
  <2>4. \A u \in Caller : (Created(u)' <=> Created(u)) /\ (Created(u) => call'[u].id = call[u].id)
    BY <1>1, <1>7 DEF Resuming, Created
  <2>5. OneOwner'
    BY <1>2, <2>2, <2>4 DEF OneOwner
  <2>6. \A p \in OpId : Owned(p)' => Owned(p)
    BY <2>2, <2>4 DEF Owned
  <2>7. OwnerDocument'
    <3>1. UNCHANGED worker
      BY <1>7 DEF Resuming
    <3> QED
      BY <2>1, <2>6, <3>1 DEF OwnerDocument
  <2>8. NothingRuns'
    BY <1>1, <1>7 DEF NothingRuns, Resuming, Created
  <2> QED
    BY <2>3, <2>5, <2>7, <2>8
<1>8. CASE Spawning(t)
  <2> DEFINE o == call[t].id
  <2>0. o \in OpId /\ Owned(o) /\ doc[o].state \in ActiveStates
    BY <1>2, <1>8 DEF Spawning, Owned, OwnerDocument, Live
  <2>1. LockHeld'
    BY <1>1, <1>2, <1>8 DEF Spawning, LockHeld
  <2>2. \A u \in Caller : Created(u)' => /\ Created(u) /\ call'[u] = call[u] /\ call[u].id # o
    BY <1>1, <1>2, <1>8 DEF Spawning, Created
  <2>3. /\ worker'[o] = "starting"
        /\ \A p \in OpId \ {o} : worker'[p] = worker[p]
    BY <1>8, <2>0 DEF Spawning, TypeInv, TypeOK
  <2>4. OneOwner'
    BY <1>2, <2>2, <2>3 DEF OneOwner, Live
  <2>5. \A p \in OpId : Owned(p)' => Owned(p)
    BY <2>0, <2>2, <2>3 DEF Owned, Live
  <2>6. OwnerDocument'
    BY <1>8, <2>0, <2>3, <2>5 DEF OwnerDocument, Spawning
  <2>7. NothingRuns'
    BY <1>1, <1>8 DEF NothingRuns, Spawning, Created
  <2> QED
    BY <2>1, <2>4, <2>6, <2>7
<1>9. CASE WritingBack(t)
  <2> DEFINE o == call[t].id
  <2>1. LockHeld'
    BY <1>1, <1>2, <1>9 DEF WritingBack, LockHeld
  <2>2. /\ call[t].read \in Document /\ o \in OpId
        /\ store'[o] = [call[t].read EXCEPT !.state = "cancelling"]
        /\ \A p \in OpId \ {o} : store'[p] = store[p]
    BY <1>9 DEF WritingBack, TypeInv, TypeOK, Call, KnownId
  <2>3. store'[o].components = store[o].components /\ store'[o].state \in ActiveStates
    BY <1>9, <2>2 DEF ExclusionInv, CancellingIsFree, WritingBack, Document, ActiveStates
  <2>4. \A u \in Caller : Created(u)' => Created(u) /\ call'[u] = call[u]
    BY <1>1, <1>9 DEF WritingBack, Created
  <2>5. \A p \in OpId : Live(p)' <=> Live(p)
    BY <1>9 DEF WritingBack, Live
  <2>6. OneOwner'
    BY <1>2, <2>4, <2>5 DEF OneOwner
  <2>7. \A p \in OpId : Owned(p)' => Owned(p)
    BY <2>4, <2>5 DEF Owned
  <2>8. OwnerDocument'
    BY <1>9, <2>2, <2>3, <2>7 DEF OwnerDocument, WritingBack
  <2>9. NothingRuns'
    BY <1>1, <1>9 DEF NothingRuns, WritingBack
  <2> QED
    BY <2>1, <2>6, <2>8, <2>9
<1> QED
  BY <1>4, <1>5, <1>6, <1>7, <1>8, <1>9, HandlingFrame

\* Nothing is owned after a crash, nor while the store is opened.
LEMMA NothingOwned ==
    ASSUME OwnershipInv, manager # "up"
    PROVE  \A o \in OpId : ~Owned(o)
BY DEF OwnershipInv, NothingRuns, Owned, Live, Created

\* What the environment may do: stop everything, change a row while nothing
\* runs, open for requests, or change the cluster only.
LEMMA EnvironmentFrame ==
    ASSUME TypeInv, Crash \/ Reopen \/ \E s \in orphans : OrphanApplies(s)
    PROVE  \/ /\ manager' = "down" /\ UNCHANGED store
              /\ \A t \in Caller : call'[t].at = "idle"
              /\ \A o \in OpId : worker'[o] = "none"
           \/ /\ manager # "up" /\ manager' # "up" /\ UNCHANGED <<doc, worker, lock, call>>
              /\ \A o \in OpId :
                    \/ store'[o] = store[o]
                    \/ /\ store'[o].state = "interrupted"
                       /\ store'[o].components = store[o].components
                       /\ ~store[o].recovery \/ store[o].state \in ActiveStates
           \/ /\ manager # "up" /\ manager' = "up" /\ Unrecovered = {}
              /\ UNCHANGED <<store, doc, worker, lock, call>>
           \/ UNCHANGED <<store, doc, worker, lock, call, manager>>
<1> USE DEF TypeInv, TypeOK
<1>1. CASE Crash
  BY <1>1 DEF Crash, Idle
<1>2. CASE OpenStore
  <2>1. \A o \in OpId : store[o] \in Document
    OBVIOUS
  <2>2. \A o \in OpId : store[o].state \in ActiveStates =>
            /\ [store[o] EXCEPT !.state = "interrupted"].state = "interrupted"
            /\ [store[o] EXCEPT !.state = "interrupted"].components = store[o].components
    BY <2>1 DEF Document
  <2> QED
    BY <1>2, <2>2 DEF OpenStore, volatile
<1>3. ASSUME NEW o \in OpId, SetInterruptedRecovery(o)
      PROVE  /\ manager # "up" /\ manager' # "up" /\ UNCHANGED <<doc, worker, lock, call>>
             /\ \A p \in OpId :
                    \/ store'[p] = store[p]
                    \/ /\ store'[p].state = "interrupted"
                       /\ store'[p].components = store[p].components
                       /\ ~store[p].recovery
  <2>1. store' = [store EXCEPT ![o] = [store[o] EXCEPT !.recovery = TRUE]]
    BY <1>3 DEF SetInterruptedRecovery
  <2>2. store[o] \in Document /\ store[o].state = "interrupted" /\ ~store[o].recovery
    BY <1>3 DEF SetInterruptedRecovery, Unrecovered
  <2>3. store'[o].state = "interrupted" /\ store'[o].components = store[o].components
    BY <2>1, <2>2 DEF Document
  <2> QED
    BY <1>3, <2>1, <2>2, <2>3 DEF SetInterruptedRecovery, volatile
<1>4. CASE Serve
  BY <1>4 DEF Serve, volatile
<1>5. ASSUME NEW s \in orphans, OrphanApplies(s)
      PROVE  UNCHANGED <<store, doc, worker, lock, call, manager>>
  BY <1>5 DEF OrphanApplies
<1> QED
  BY <1>1, <1>2, <1>3, <1>4, <1>5 DEF Reopen

\* A crash takes every owner away before the store marks rows interrupted.
LEMMA OwnershipEnvironment ==
    ASSUME TypeInv, OwnershipInv, Crash \/ Reopen \/ \E s \in orphans : OrphanApplies(s)
    PROVE  OwnershipInv'
<1> USE DEF OwnershipInv, NothingRuns, LockHeld, OneOwner, OwnerDocument, Owned, Created, Live
<1>1. CASE /\ manager' = "down" /\ UNCHANGED store
           /\ \A t \in Caller : call'[t].at = "idle"
           /\ \A o \in OpId : worker'[o] = "none"
  BY <1>1
<1>2. CASE manager # "up" /\ UNCHANGED <<doc, worker, lock, call>>
  BY <1>2
<1>3. CASE UNCHANGED <<store, doc, worker, lock, call, manager>>
  BY <1>3
<1> QED
  BY <1>1, <1>2, <1>3, EnvironmentFrame

\* Every step keeps ownership.
LEMMA OwnershipStep ==
    TypeInv /\ OwnershipInv /\ ExclusionInv /\ [Next]_vars => OwnershipInv'
<1>1. OwnershipInv /\ UNCHANGED vars => OwnershipInv'
  BY DEF OwnershipInv, NothingRuns, LockHeld, OneOwner, OwnerDocument, Owned, Created, Live, vars
<1> QED
  BY <1>1, OwnershipRequestThread, OwnershipHandling, OwnershipWorkerThread,
     OwnershipEnvironment DEF Next

------------------------------------------------------------------------------
(* Exclusion                                                               *)

\* Initially no row is active.
LEMMA ExclusionInit == Init => ExclusionInv
BY DEF Init, ExclusionInv, ActiveDisjoint, CreatingIsFree, CancellingIsFree, Active,
       ActiveStates, NoDocument, Idle

\* Rows that keep their components and may only stop being active disturb nobody.
LEMMA RowsOnlyEnd ==
    ASSUME TypeInv, ExclusionInv,
           \A p \in OpId : /\ store'[p].components = store[p].components
                           /\ Active(p)' => Active(p),
           \A t \in Caller : call'[t].at \in {"creating", "cancelling"} =>
              \/ call'[t] = call[t]
              \/ call'[t].at = "creating" /\ ~Conflict(call'[t].steps)
              \/ /\ call'[t].at = "cancelling" /\ call'[t].id \in OpId
                 /\ Active(call'[t].id) /\ call'[t].read = store[call'[t].id]
    PROVE  ExclusionInv'
<1> USE DEF ExclusionInv
<1>1. ActiveDisjoint'
  BY DEF ActiveDisjoint, Disjoint
<1>2. \A t \in Caller : Conflict(call[t].steps)' => Conflict(call'[t].steps)
  BY DEF Conflict, Active
<1>3. CreatingIsFree'
  <2> SUFFICES ASSUME NEW t \in Caller, call'[t].at = "creating"
               PROVE  ~Conflict(call[t].steps)'
    BY DEF CreatingIsFree
  <2>1. ~Conflict(call'[t].steps)
    BY DEF CreatingIsFree
  <2> QED
    BY <1>2, <2>1
<1>4. CancellingIsFree'
  <2> SUFFICES ASSUME NEW t \in Caller, call'[t].at = "cancelling"
               PROVE  /\ call'[t].read.state \in ActiveStates
                      /\ call'[t].read.components = store'[call'[t].id].components
                      /\ \A p \in OpId : (p # call'[t].id /\ Active(p)') =>
                            Disjoint(call[t].id, p)'
    BY DEF CancellingIsFree
  <2>1. call'[t].id \in OpId
    BY DEF TypeInv, KnownId
  <2>2. /\ call'[t].read.state \in ActiveStates
        /\ call'[t].read.components = store[call'[t].id].components
        /\ \A p \in OpId : (p # call'[t].id /\ Active(p)) => Disjoint(call'[t].id, p)
    BY <2>1 DEF CancellingIsFree, ActiveDisjoint, Active
  <2> QED
    BY <2>1, <2>2 DEF Disjoint
<1> QED
  BY <1>1, <1>3, <1>4

\* Reading a row for cancel records components that the row keeps.
LEMMA ExclusionRequestThread ==
    ASSUME TypeInv, ExclusionInv, NEW t \in Caller, RequestThread(t)
    PROVE  ExclusionInv'
<1>1. \A p \in OpId : /\ store'[p].components = store[p].components
                      /\ Active(p)' => Active(p)
  BY RequestThreadFrame DEF Active
<1>2. \A u \in Caller : call'[u].at \in {"creating", "cancelling"} =>
          \/ call'[u] = call[u]
          \/ /\ call'[u].at = "cancelling" /\ call'[u].id \in OpId
             /\ Active(call'[u].id) /\ call'[u].read = store[call'[u].id]
  BY RequestThreadFrame DEF Active
<1> QED
  BY <1>1, <1>2, RowsOnlyEnd

\* A worker saves its row with the components that it was created with.
LEMMA ExclusionWorkerThread ==
    ASSUME TypeInv, OwnershipInv, ExclusionInv, NEW o \in OpId, WorkerThread(o)
    PROVE  ExclusionInv'
<1>1. /\ UNCHANGED call
      /\ \A p \in OpId \ {o} : store'[p] = store[p]
      /\ doc'[o].components = doc[o].components
      /\ Unfinished(o) \/ Ending(o) \/ Forgetting(o) \/ LastSave(o) \/ Exiting(o)
  BY WorkerThreadFrame
<1>2. \/ store'[o] = store[o]
      \/ Live(o) /\ store'[o].components = doc[o].components
  BY <1>1 DEF Unfinished, Ending, Forgetting, LastSave, Exiting, Running, InStep, Live
<1>3. Live(o) => store[o].components = doc[o].components /\ Active(o)
  BY DEF OwnershipInv, OwnerDocument, Owned, Active
<1>4. \A p \in OpId : /\ store'[p].components = store[p].components
                      /\ Active(p)' => Active(p)
  BY <1>1, <1>2, <1>3 DEF Active
<1> QED
  BY <1>1, <1>4, RowsOnlyEnd

\* A crash and the recovery of rows only end active rows.
LEMMA ExclusionEnvironment ==
    ASSUME TypeInv, ExclusionInv, Crash \/ Reopen \/ \E s \in orphans : OrphanApplies(s)
    PROVE  ExclusionInv'
<1>1. \A p \in OpId : /\ store'[p].components = store[p].components
                      /\ Active(p)' => Active(p)
  BY EnvironmentFrame DEF Active, ActiveStates
<1>2. \A u \in Caller : call'[u].at \in {"creating", "cancelling"} => call'[u] = call[u]
  BY EnvironmentFrame
<1> QED
  BY <1>1, <1>2, RowsOnlyEnd

\* A row is created only where the conflict check found no overlap, and cancel
\* revives only a row whose components nobody took since it was read.
LEMMA ExclusionHandling ==
    ASSUME TypeInv, OwnershipInv, ExclusionInv, NEW t \in Caller, Handling(t)
    PROVE  ExclusionInv'
<1>1. \A u \in Caller \ {t} : call'[u] = call[u]
  BY HandlingFrame
<1>2. CASE UNCHANGED store /\ call'[t].at \notin {"creating", "cancelling"}
  BY <1>1, <1>2, RowsOnlyEnd DEF Active
<1>3. CASE TakingLock(t)
  <2>1. call'[t].at \in {"creating", "cancelling"} =>
            call'[t].at = "creating" /\ ~Conflict(call'[t].steps)
    BY <1>3 DEF TakingLock
  <2> QED
    BY <1>1, <1>3, <2>1, RowsOnlyEnd DEF TakingLock, Active
<1>4. ASSUME NEW o \in OpId, Creating(t, o) PROVE ExclusionInv'
  <2>1. /\ store'[o].components = Affected(call[t].steps) /\ Active(o)'
        /\ \A p \in OpId \ {o} : store'[p] = store[p]
    BY <1>4 DEF Creating, TypeInv, TypeOK, QueuedDocument, Active, ActiveStates
  <2>2. \A p \in OpId : Active(p) => store[p].components \intersect store'[o].components = {}
    BY <1>4, <2>1 DEF Creating, ExclusionInv, CreatingIsFree, Conflict, Active
  <2>3. ActiveDisjoint'
    BY <2>1, <2>2 DEF ActiveDisjoint, ExclusionInv, Active, Disjoint
  <2>4. \A u \in Caller : call'[u].at \notin {"creating", "cancelling"}
    BY <1>1, <1>4 DEF Creating, Created, OwnershipInv, LockHeld
  <2>5. CreatingIsFree' /\ CancellingIsFree'
    BY <2>4 DEF CreatingIsFree, CancellingIsFree
  <2> QED
    BY <2>3, <2>5 DEF ExclusionInv
<1>5. CASE Resuming(t)
  <2>1. call[t].id \in OpId /\ Owned(call[t].id)
    BY <1>5 DEF Resuming, TypeInv, KnownId, Owned
  <2>2. \A p \in OpId : store'[p].components = store[p].components /\ (Active(p)' => Active(p))
    BY <1>5, <2>1 DEF Resuming, TypeInv, TypeOK, OwnershipInv, OwnerDocument, Active
  <2> QED
    BY <1>1, <1>5, <2>2, RowsOnlyEnd DEF Resuming, Created
<1>6. CASE WritingBack(t)
  <2> DEFINE o == call[t].id
  <2>1. /\ call[t].read \in Document /\ o \in OpId
        /\ call[t].read.components = store[o].components
        /\ \A p \in OpId : (p # o /\ Active(p)) => Disjoint(o, p)
    BY <1>6 DEF WritingBack, TypeInv, TypeOK, Call, KnownId, ExclusionInv, CancellingIsFree
  <2>2. /\ store'[o].components = store[o].components
        /\ \A p \in OpId \ {o} : store'[p] = store[p]
    BY <1>6, <2>1 DEF WritingBack, TypeInv, TypeOK, Document
  <2>3. ActiveDisjoint'
    BY <2>1, <2>2 DEF ActiveDisjoint, ExclusionInv, Active, Disjoint
  <2>4. \A u \in Caller : call'[u].at \notin {"creating", "cancelling"}
    BY <1>1, <1>6 DEF WritingBack, OwnershipInv, LockHeld
  <2>5. CreatingIsFree' /\ CancellingIsFree'
    BY <2>4 DEF CreatingIsFree, CancellingIsFree
  <2> QED
    BY <2>3, <2>5 DEF ExclusionInv
<1> QED
  BY <1>2, <1>3, <1>4, <1>5, <1>6, HandlingFrame DEF Refused, Spawning

\* Every step keeps the components of active rows disjoint.
LEMMA ExclusionStep ==
    TypeInv /\ OwnershipInv /\ ExclusionInv /\ [Next]_vars => ExclusionInv'
<1>1. ExclusionInv /\ UNCHANGED vars => ExclusionInv'
  BY DEF ExclusionInv, ActiveDisjoint, CreatingIsFree, CancellingIsFree, Active, Disjoint,
         Conflict, vars
<1> QED
  BY <1>1, ExclusionRequestThread, ExclusionHandling, ExclusionWorkerThread,
     ExclusionEnvironment DEF Next

------------------------------------------------------------------------------
(* Recovery                                                                *)

\* Initially there is no terminal row.
LEMMA RecoveryInit == Init => RecoveryInv
BY DEF Init, RecoveryInv, RowReported, OwnerReported, TerminalStates, NoDocument, Owned, Live, Created, Idle

\* What a step leaves alone keeps its part.
LEMMA RecoveryUnchanged ==
    ASSUME RecoveryInv, NEW o \in OpId, UNCHANGED manager
    PROVE  /\ store'[o] = store[o] => RowReported(o)'
           /\ (doc'[o] = doc[o] /\ worker'[o] = worker[o] /\ (Owned(o)' => Owned(o)))
                 => OwnerReported(o)'
BY DEF RecoveryInv, RowReported, OwnerReported, Reported

\* A new request changes no row.
LEMMA RecoveryRequestThread ==
    ASSUME TypeInv, RecoveryInv, NEW t \in Caller, RequestThread(t)
    PROVE  RecoveryInv'
<1>1. \A o \in OpId : Owned(o)' => Owned(o)
  BY RequestThreadFrame DEF Owned, Live, Created
<1> QED
  BY <1>1, RequestThreadFrame, RecoveryUnchanged DEF RecoveryInv

\* The exception handlers of _run set the recovery boundary before the last save.
LEMMA RecoveryWorkerThread ==
    ASSUME TypeInv, OwnershipInv, RecoveryInv, NEW o \in OpId, WorkerThread(o)
    PROVE  RecoveryInv'
<1>1. /\ UNCHANGED <<call, manager>>
      /\ \A p \in OpId \ {o} : /\ store'[p] = store[p] /\ doc'[p] = doc[p]
                               /\ worker'[p] = worker[p]
      /\ Unfinished(o) \/ Ending(o) \/ Forgetting(o) \/ LastSave(o) \/ Exiting(o)
  BY WorkerThreadFrame
<1>2. \A p \in OpId \ {o} : RowReported(p)' /\ OwnerReported(p)'
  <2>1. \A p \in OpId \ {o} : Owned(p)' => Owned(p)
    BY <1>1 DEF Owned, Live, Created
  <2> QED
    BY <1>1, <2>1, RecoveryUnchanged
<1>3. Live(o) => /\ OwnerReported(o) /\ Owned(o)
                 /\ worker[o] \in Running => doc[o].state \in ActiveStates
                 /\ \A t \in Caller : Created(t) => call[t].id # o
  BY DEF RecoveryInv, Owned, OwnershipInv, OwnerDocument, OneOwner, Running, InStep
<1>4. RowReported(o)' /\ OwnerReported(o)'
  <2>1. CASE Unfinished(o)
    <3>1. Live(o) /\ ~doc[o].recovery /\ ~doc'[o].recovery
      BY <1>3, <2>1 DEF Unfinished, Running, InStep, Live, OwnerReported
    <3>2. OwnerReported(o)'
      BY <2>1, <3>1 DEF OwnerReported, Unfinished, Running, InStep
    <3>3. store'[o] = store[o] \/ store'[o].state \in ActiveStates
      BY <1>3, <2>1, <3>1 DEF Unfinished, ActiveStates
    <3> QED
      BY <1>1, <3>2, <3>3, RecoveryUnchanged DEF RowReported, ActiveStates, TerminalStates
  <2>2. CASE Ending(o)
    <3>1. ~doc[o].recovery
      BY <1>3, <2>2 DEF Ending, Running, InStep, Live, OwnerReported
    <3>2. Reported(doc[o])' /\ worker'[o] = "finally"
      BY <2>2, <3>1 DEF Ending, Reported
    <3> QED
      BY <1>1, <2>2, <3>2, RecoveryUnchanged DEF OwnerReported, Ending
  <2>3. CASE Forgetting(o)
    <3>1. Reported(doc[o]) /\ worker'[o] = "saving" /\ doc'[o] = doc[o]
      BY <1>3, <2>3 DEF Forgetting, Live, OwnerReported
    <3>2. OwnerReported(o)'
      BY <3>1 DEF OwnerReported, Reported
    <3> QED
      BY <1>1, <2>3, <3>2, RecoveryUnchanged DEF Forgetting
  <2>4. CASE LastSave(o)
    <3>1. Reported(doc[o]) /\ store'[o] = doc[o]
      BY <1>3, <2>4 DEF LastSave, Live, OwnerReported
    <3>2. RowReported(o)'
      BY <3>1 DEF RowReported, Reported
    <3>3. ~Owned(o)'
      BY <1>1, <1>3, <2>4 DEF LastSave, Owned, Live, Created
    <3> QED
      BY <3>2, <3>3 DEF OwnerReported
  <2>5. CASE Exiting(o)
    <3>1. Owned(o)' => Owned(o) /\ ~doc[o].recovery /\ doc'[o] = doc[o] /\ worker'[o] = "none"
      BY <1>1, <2>5 DEF RecoveryInv, Exiting, Owned, Live, Created, OwnerReported
    <3> QED
      BY <1>1, <2>5, <3>1, RecoveryUnchanged DEF OwnerReported, Exiting
  <2> QED
    BY <1>1, <2>1, <2>2, <2>3, <2>4, <2>5
<1> QED
  BY <1>2, <1>4 DEF RecoveryInv

\* No step of a request thread makes a row terminal.
LEMMA RecoveryHandling ==
    ASSUME TypeInv, OwnershipInv, RecoveryInv, NEW t \in Caller, Handling(t)
    PROVE  RecoveryInv'
<1>1. UNCHANGED manager /\ \A u \in Caller \ {t} : call'[u] = call[u]
  BY HandlingFrame
<1>2. CASE UNCHANGED <<store, doc, worker>> /\ ~Created(t)'
  <2>1. \A o \in OpId : Owned(o)' => Owned(o)
    BY <1>1, <1>2 DEF Owned, Live, Created
  <2> QED
    BY <1>1, <1>2, <2>1, RecoveryUnchanged DEF RecoveryInv
<1>3. ASSUME NEW o \in OpId, Creating(t, o) PROVE RecoveryInv'
  <2>1. /\ store'[o].state = "queued" /\ ~doc'[o].recovery
        /\ \A p \in OpId \ {o} : store'[p] = store[p] /\ doc'[p] = doc[p]
        /\ UNCHANGED worker
    BY <1>3 DEF Creating, TypeInv, TypeOK, QueuedDocument
  <2>2. ~Live(o)
    BY <1>3 DEF Creating, OwnershipInv, OwnerDocument, Owned, ActiveStates
  <2>3. \A p \in OpId \ {o} : Owned(p)' => Owned(p)
    BY <1>1, <1>3, <2>1 DEF Owned, Live, Created, Creating
  <2>4. RowReported(o)' /\ OwnerReported(o)'
    BY <2>1, <2>2 DEF RowReported, OwnerReported, TerminalStates, Live
  <2> QED
    BY <1>1, <2>1, <2>3, <2>4, RecoveryUnchanged DEF RecoveryInv
<1>4. CASE Resuming(t)
  <2> PICK o \in OpId : o = call[t].id
    BY <1>4 DEF Resuming, TypeInv, KnownId
  <2>1. o \in OpId /\ Owned(o) /\ ~Live(o) /\ doc[o].state \in ActiveStates
    BY <1>4 DEF Resuming, TypeInv, KnownId, Owned, OwnershipInv, OneOwner, OwnerDocument, Live
  <2>2. /\ doc'[o].recovery = doc[o].recovery /\ UNCHANGED worker
        /\ store'[o] = store[o] \/ store'[o].state \in ActiveStates
        /\ \A p \in OpId \ {o} : store'[p] = store[p] /\ doc'[p] = doc[p]
    BY <1>4, <2>1 DEF Resuming, TypeInv, TypeOK
  <2>3. \A p \in OpId : Owned(p)' => Owned(p)
    BY <1>1, <1>4, <2>2 DEF Owned, Live, Created, Resuming
  <2>4. OwnerReported(o)'
    BY <2>1, <2>2 DEF RecoveryInv, OwnerReported, Live
  <2>5. RowReported(o)'
    BY <1>1, <2>1, <2>2, RecoveryUnchanged DEF RowReported, ActiveStates, TerminalStates
  <2> QED
    BY <1>1, <2>2, <2>3, <2>4, <2>5, RecoveryUnchanged DEF RecoveryInv
<1>5. CASE Spawning(t)
  <2> PICK o \in OpId : o = call[t].id
    BY <1>5 DEF Spawning, TypeInv, KnownId
  <2>1. o \in OpId /\ Owned(o) /\ ~Live(o)
    BY <1>5 DEF Spawning, TypeInv, KnownId, Owned, OwnershipInv, OneOwner
  <2>2. /\ UNCHANGED <<store, doc>> /\ worker'[o] = "starting"
        /\ \A p \in OpId \ {o} : worker'[p] = worker[p]
    BY <1>5, <2>1 DEF Spawning, TypeInv, TypeOK
  <2>3. \A p \in OpId \ {o} : Owned(p)' => Owned(p)
    BY <1>1, <1>5, <2>2 DEF Owned, Live, Created, Spawning
  <2>4. OwnerReported(o)'
    BY <2>1, <2>2 DEF RecoveryInv, OwnerReported, Live
  <2> QED
    BY <1>1, <2>1, <2>2, <2>3, <2>4, RecoveryUnchanged DEF RecoveryInv
<1>6. CASE WritingBack(t)
  <2> PICK o \in OpId : o = call[t].id
    BY <1>6 DEF WritingBack, TypeInv, KnownId
  <2>1. call[t].read \in Document /\ o \in OpId
    BY <1>6 DEF WritingBack, TypeInv, TypeOK, Call, KnownId
  <2>2. /\ store'[o].state = "cancelling" /\ UNCHANGED <<doc, worker>>
        /\ \A p \in OpId \ {o} : store'[p] = store[p]
    BY <1>6, <2>1 DEF WritingBack, TypeInv, TypeOK, Document
  <2>3. \A p \in OpId : Owned(p)' => Owned(p)
    BY <1>1, <1>6 DEF Owned, Live, Created, WritingBack
  <2>4. RowReported(o)'
    BY <2>2 DEF RowReported, TerminalStates
  <2> QED
    BY <1>1, <2>1, <2>2, <2>3, <2>4, RecoveryUnchanged DEF RecoveryInv
<1> QED
  BY <1>2, <1>3, <1>4, <1>5, <1>6, HandlingFrame DEF TakingLock, Refused, Created

\* Reopening the store recovers every interrupted row before requests are served.
LEMMA RecoveryEnvironment ==
    ASSUME TypeInv, OwnershipInv, RecoveryInv,
           Crash \/ Reopen \/ \E s \in orphans : OrphanApplies(s)
    PROVE  RecoveryInv'
<1>1. CASE /\ manager' = "down" /\ UNCHANGED store
           /\ \A t \in Caller : call'[t].at = "idle"
           /\ \A o \in OpId : worker'[o] = "none"
  BY <1>1 DEF RecoveryInv, RowReported, OwnerReported, Owned, Live, Created, Reported
<1>2. CASE /\ manager # "up" /\ UNCHANGED <<doc, worker, lock, call>>
           /\ \/ /\ manager' # "up"
                 /\ \A o \in OpId : store'[o] = store[o] \/ store'[o].state = "interrupted"
              \/ manager' = "up" /\ Unrecovered = {} /\ UNCHANGED store
  <2>1. \A o \in OpId : ~Owned(o)'
    BY <1>2, NothingOwned DEF Owned, Live, Created
  <2>2. \A o \in OpId : RowReported(o)'
    BY <1>2 DEF RecoveryInv, RowReported, Reported, Unrecovered
  <2> QED
    BY <2>1, <2>2 DEF RecoveryInv, OwnerReported
<1>3. CASE UNCHANGED <<store, doc, worker, lock, call, manager>>
  BY <1>3 DEF RecoveryInv, RowReported, OwnerReported, Owned, Live, Created, Reported
<1> QED
  BY <1>1, <1>2, <1>3, EnvironmentFrame

\* Every step keeps what rows and owners say about recovery.
LEMMA RecoveryStep == TypeInv /\ OwnershipInv /\ RecoveryInv /\ [Next]_vars => RecoveryInv'
<1>1. RecoveryInv /\ UNCHANGED vars => RecoveryInv'
  BY DEF RecoveryInv, RowReported, OwnerReported, Owned, Live, Created, Reported, vars
<1> QED
  BY <1>1, RecoveryRequestThread, RecoveryHandling, RecoveryWorkerThread,
     RecoveryEnvironment DEF Next

------------------------------------------------------------------------------
(* Evidence                                                                *)

\* Initially there is nothing to account for.
LEMMA EvidenceInit == Init => EvidenceInv
BY DEF Init, EvidenceInv, PlannedCall, CreatedEvidence, WorkerEvidence, RowEvidence,
       NoDocument, Live, Created, Idle

\* lifecycle_events only grows, so what a step leaves alone keeps its evidence.
LEMMA EvidenceUnchanged ==
    ASSUME EvidenceInv, \A p \in OpId : events[p] \subseteq events'[p], TypeInv
    PROVE  /\ \A o \in OpId :
                 /\ store'[o] = store[o] => RowEvidence(o)'
                 /\ (doc'[o] = doc[o] /\ todo'[o] = todo[o] /\ worker'[o] = worker[o])
                       => WorkerEvidence(o)'
           /\ \A t \in Caller : call'[t] = call[t] =>
                 /\ PlannedCall(t)'
                 /\ (\A o \in OpId : call[t].id = o /\ Created(t) =>
                        doc'[o] = doc[o] /\ todo'[o] = todo[o])
                       => CreatedEvidence(t)'
<1> USE DEF EvidenceInv
<1>1. \A d, A, B : Accounted(d, A) /\ A \subseteq B => Accounted(d, B)
  BY DEF Accounted
<1>2. ASSUME NEW o \in OpId, store'[o] = store[o] PROVE RowEvidence(o)'
  BY <1>1, <1>2 DEF RowEvidence, Verified
<1>3. ASSUME NEW o \in OpId, doc'[o] = doc[o], todo'[o] = todo[o], worker'[o] = worker[o]
      PROVE  WorkerEvidence(o)'
  <2>1. events[o] \union StepSet(todo[o]) \subseteq events'[o] \union StepSet(todo[o])
    OBVIOUS
  <2>2. /\ Accounted(doc[o], events[o]) => Accounted(doc[o], events'[o])
        /\ Accounted(doc[o], events[o] \union StepSet(todo[o])) =>
              Accounted(doc[o], events'[o] \union StepSet(todo[o]))
    BY <1>1, <2>1
  <2>3. WorkerEvidence(o) /\ events[o] \subseteq events'[o]
    OBVIOUS
  <2> QED
    BY <1>3, <2>2, <2>3 DEF WorkerEvidence, Verified, Live
<1>4. ASSUME NEW t \in Caller, call'[t] = call[t] PROVE PlannedCall(t)'
  BY <1>4 DEF PlannedCall, Created
<1>5. ASSUME NEW t \in Caller, call'[t] = call[t], NEW o \in OpId, call[t].id = o,
             doc'[o] = doc[o], todo'[o] = todo[o]
      PROVE  CreatedEvidence(t)'
  <2>1. CreatedEvidence(t) /\ events[o] \subseteq events'[o]
    OBVIOUS
  <2>2. Owed(call[t])' = Owed(call[t]) /\ Resumable(call[t])' = Resumable(call[t])
    BY <1>5 DEF Owed, Resumable
  <2> QED
    BY <1>5, <2>1, <2>2 DEF CreatedEvidence, Created
<1>6. ASSUME NEW t \in Caller, call'[t] = call[t], ~Created(t) PROVE CreatedEvidence(t)'
  BY <1>6 DEF CreatedEvidence, Created
<1>7. \A t \in Caller : Created(t) => call[t].id \in OpId
  BY DEF TypeInv, KnownId
<1> QED
  BY <1>2, <1>3, <1>4, <1>5, <1>6, <1>7

\* A submission builds its plan from the request, a retry from the row's request.
LEMMA EvidenceRequestThread ==
    ASSUME TypeInv, EvidenceInv, NEW t \in Caller, RequestThread(t)
    PROVE  EvidenceInv'
<1> USE DEF TypeInv, TypeOK
<1>1. UNCHANGED <<events, todo>> /\ PlannedCall(t)'
  <2>1. ASSUME NEW r \in Requests, NEW s \in Plans(r), Submit(t, r, s)
        PROVE  UNCHANGED <<events, todo>> /\ PlannedCall(t)'
    BY <2>1 DEF Submit, Idle, PlannedCall
  <2>2. ASSUME NEW o \in OpId, NEW s \in Plans(store[o].request), Retry(t, o, s)
        PROVE  UNCHANGED <<events, todo>> /\ PlannedCall(t)'
    <3> DEFINE done == IF store[o].request.flow = "plain" THEN {} ELSE events[o]
               k == [Idle EXCEPT !.at = "prepare", !.request = store[o].request,
                                 !.steps = s, !.retry = TRUE, !.completed = done]
    <3>1. call' = [call EXCEPT ![t] = k] /\ UNCHANGED <<events, todo>>
      BY <2>2 DEF Retry
    <3>2. k.request = store[o].request /\ k.steps = s
      BY DEF Idle
    <3> HIDE DEF k
    <3> QED
      BY <2>2, <3>1, <3>2 DEF PlannedCall
  <2>3. ASSUME NEW o \in OpId, CancelRead(t, o)
        PROVE  UNCHANGED <<events, todo>> /\ PlannedCall(t)'
    BY <2>3 DEF CancelRead, Idle, PlannedCall, Created
  <2> QED
    BY <2>1, <2>2, <2>3 DEF RequestThread
<1>2. /\ UNCHANGED <<store, doc, worker>>
      /\ \A u \in Caller \ {t} : call'[u] = call[u]
      /\ ~Created(t)'
  BY RequestThreadFrame DEF Created
<1>3. CreatedEvidence(t)'
  BY <1>2 DEF CreatedEvidence
<1> QED
  BY <1>1, <1>2, <1>3, EvidenceUnchanged DEF EvidenceInv

\* What the started worker is told about the plan is what the plan of any order says.
LEMMA PlannedIsAccounted ==
    ASSUME NEW d, d.request \in Request, NEW s \in Plans(d.request), d.total = Len(s)
    PROVE  /\ Lists(s, StepSet(s))
           /\ \A steps : StepSet(s) \subseteq steps => Accounted(d, steps)
<1>1. PICK T : \A u \in Plans(d.request) : Lists(u, T)
  BY PlansAgree
<1> QED
  BY <1>1 DEF Lists, Accounted

\* Creating a row, recording the resumed steps, dropping them from the plan and
\* starting the worker lose no step of the plan and count none twice.
LEMMA EvidenceHandling ==
    ASSUME TypeInv, OwnershipInv, EvidenceInv, NEW t \in Caller, Handling(t)
    PROVE  EvidenceInv'
<1> USE DEF TypeInv, TypeOK
<1>0. /\ call[t] \in Call /\ call[t].request \in Request /\ call[t].steps \in Seq(Step)
      /\ PlannedCall(t) /\ CreatedEvidence(t)
  BY DEF Call, EvidenceInv
<1>1. \A u \in Caller \ {t} : call'[u] = call[u]
  BY HandlingFrame
<1>2. ASSUME UNCHANGED <<doc, todo, worker>>, \A p \in OpId : events[p] \subseteq events'[p],
             \A p \in OpId : store'[p] = store[p] \/ store'[p].state # "succeeded",
             PlannedCall(t)', CreatedEvidence(t)'
      PROVE  EvidenceInv'
  BY <1>1, <1>2, EvidenceUnchanged DEF EvidenceInv, RowEvidence
<1>3. ASSUME call'[t].at = "idle" PROVE PlannedCall(t)' /\ CreatedEvidence(t)'
  BY <1>3 DEF PlannedCall, CreatedEvidence, Created
<1>4. CASE PrepareLocked(t)
  <2> DEFINE k == [call[t] EXCEPT !.at = "creating"]
  <2>1. /\ call[t].at = "prepare"
        /\ UNCHANGED <<store, doc, todo, worker, events>>
        /\ call' = [call EXCEPT ![t] = Idle] \/ call' = [call EXCEPT ![t] = k]
    BY <1>4 DEF PrepareLocked
  <2>2. /\ Idle.at = "idle"
        /\ k.at = "creating" /\ k.request = call[t].request /\ k.steps = call[t].steps
    BY <1>0 DEF Idle, Call
  <2> HIDE DEF k
  <2>3. PlannedCall(t)' /\ CreatedEvidence(t)'
    BY <1>0, <2>1, <2>2 DEF PlannedCall, CreatedEvidence, Created
  <2> QED
    BY <1>2, <2>1, <2>3
<1>5. CASE Denied(t)
  <2>1. call'[t].at = "idle" /\ UNCHANGED <<store, doc, todo, worker, events>>
    BY <1>5 DEF Denied, Idle
  <2> QED
    BY <1>2, <1>3, <2>1
<1>6. ASSUME NEW o \in OpId, Create(t, o) PROVE EvidenceInv'
  <2> DEFINE d == QueuedDocument(call[t])
  <2>1. /\ store' = [store EXCEPT ![o] = d] /\ doc' = [doc EXCEPT ![o] = d]
        /\ todo' = [todo EXCEPT ![o] = call[t].steps]
        /\ UNCHANGED <<events, worker>> /\ call[t].at = "creating"
        /\ call'[t] = [call[t] EXCEPT !.id = o, !.at = AfterCreate(call[t])]
    BY <1>6 DEF Create
  <2>2. /\ d.state = "queued" /\ d.request = call[t].request
        /\ d.done = 0 /\ d.total = Len(call[t].steps)
    BY DEF QueuedDocument
  <2>3. /\ call'[t].id = o /\ call'[t].at = AfterCreate(call[t])
        /\ call'[t].steps = call[t].steps /\ call'[t].request = call[t].request
    BY <1>0, <2>1 DEF Call
  <2> HIDE DEF d
  <2>4. ~Live(o) /\ \A u \in Caller : Created(u) => call[u].id # o
    BY <1>6 DEF Create, OwnershipInv, OwnerDocument, ActiveStates, Owned
  <2>5. PlannedCall(t)' /\ CreatedEvidence(t)'
    <3>1. Len(call[t].steps) \in Nat
      BY <1>0, LenProperties
    <3>2. ~(call'[t].at = "saving-resumed" /\ call'[t].request.flow = "lab")
      BY <2>3 DEF AfterCreate
    <3>3. call'[t].steps \in Plans(call'[t].request)
      BY <1>0, <2>1, <2>3 DEF PlannedCall
    <3>4. /\ doc'[o].request = call'[t].request
          /\ doc'[o].total = Len(call'[t].steps)
          /\ doc'[o].done + Len(todo'[o]) = Len(call'[t].steps)
          /\ StepSet(call'[t].steps) \subseteq StepSet(todo'[o])
      BY <2>1, <2>2, <2>3, <3>1
    <3> QED
      BY <2>3, <3>2, <3>3, <3>4 DEF PlannedCall, CreatedEvidence
  <2>6. WorkerEvidence(o)' /\ RowEvidence(o)'
    BY <2>1, <2>2, <2>4 DEF WorkerEvidence, RowEvidence, Live
  <2>7. \A p \in OpId \ {o} : doc'[p] = doc[p] /\ todo'[p] = todo[p] /\ store'[p] = store[p]
    BY <2>1
  <2> QED
    BY <1>1, <2>1, <2>4, <2>5, <2>6, <2>7, EvidenceUnchanged DEF EvidenceInv
<1>7. ASSUME NEW s \in Step, RecordResumed(t, s) PROVE EvidenceInv'
  <2>1. /\ UNCHANGED <<store, doc, todo, worker, call>>
        /\ \A p \in OpId : events[p] \subseteq events'[p]
    BY <1>7 DEF RecordResumed
  <2> QED
    BY <2>1, EvidenceUnchanged DEF EvidenceInv
<1>8. CASE ResumedAll(t)
  <2> DEFINE at == IF call[t].request.flow = "lab" THEN "saving-resumed" ELSE "spawning"
             k == [call[t] EXCEPT !.at = at]
  <2>1. /\ UNCHANGED <<store, doc, todo, worker, events>> /\ call'[t] = k
        /\ call[t].at = "resuming" /\ Resumable(call[t]) \subseteq events[call[t].id]
    BY <1>8 DEF ResumedAll
  <2>2. /\ k.at = at /\ k.request = call[t].request /\ k.steps = call[t].steps
        /\ k.id = call[t].id /\ k.completed = call[t].completed
    BY <1>0 DEF Call
  <2> HIDE DEF k
  <2>3. Resumable(k) = Resumable(call[t])
    BY <2>2 DEF Resumable
  <2>4. PlannedCall(t)'
    BY <1>0, <2>1, <2>2 DEF PlannedCall, Created
  <2>5. CreatedEvidence(t)'
    BY <1>0, <2>1, <2>2, <2>3 DEF CreatedEvidence, Created, Owed
  <2> QED
    BY <1>2, <2>1, <2>4, <2>5
<1>9. CASE SaveResumed(t)
  <2> DEFINE at == IF call[t].request.flow = "lab" THEN "spawning" ELSE "resuming"
             k == [call[t] EXCEPT !.at = at]
  <2>1. PICK o \in OpId : o = call[t].id
    BY <1>9 DEF SaveResumed, KnownId, Created
  <2> DEFINE d == ResumedDocument(call[t], doc[o])
  <2>2. /\ call[t].at = "saving-resumed" /\ UNCHANGED <<events, worker>> /\ call'[t] = k
        /\ doc' = [doc EXCEPT ![o] = d] /\ store' = [store EXCEPT ![o] = d]
    BY <1>9, <2>1 DEF SaveResumed
  <2>3. PICK rest \in Remaining(call[t]) : todo' = [todo EXCEPT ![o] = rest]
    BY <1>9, <2>1 DEF SaveResumed
  <2>4. /\ k.at = at /\ k.request = call[t].request /\ k.steps = call[t].steps
        /\ k.id = o /\ k.completed = call[t].completed
    BY <1>0, <2>1 DEF Call
  <2>5. /\ d.state = doc[o].state /\ d.request = doc[o].request
        /\ d.total = doc[o].total /\ d.done = Cardinality(Resumable(call[t]))
    <3>1. doc[o] \in Document
      OBVIOUS
    <3> QED
      BY <3>1 DEF ResumedDocument, Document
  <2> HIDE DEF k, d
  <2>6. /\ Created(t) /\ ~Live(o) /\ doc[o].state \in ActiveStates
        /\ \A u \in Caller \ {t} : Created(u) => call[u].id # o
    BY <2>1, <2>2 DEF OwnershipInv, OneOwner, OwnerDocument, Owned, Created, Live
  <2>7. /\ doc[o].request = call[t].request /\ doc[o].total = Len(call[t].steps)
        /\ call[t].steps \in Plans(call[t].request)
        /\ call[t].request.flow = "lab" => Resumable(call[t]) \subseteq events[o]
    BY <1>0, <2>1, <2>2, <2>6 DEF CreatedEvidence, PlannedCall
  <2>8. Lists(call[t].steps, StepSet(call[t].steps))
    BY <1>0, <2>7, PlannedIsAccounted
  <2>9. /\ StepSet(rest) = StepSet(call[t].steps) \ call[t].completed
        /\ d.done + Len(rest) = Len(call[t].steps)
    BY <1>0, <2>5, <2>8, RemainingLists
  <2>10. Resumable(k) = Resumable(call[t])
         /\ Resumable(k) = StepSet(k.steps) \intersect k.completed
    BY <2>4 DEF Resumable
  <2>11. doc'[o] = d /\ todo'[o] = rest /\ store'[o] = d
    BY <2>2, <2>3
  <2>12. PlannedCall(t)'
    BY <2>2, <2>4, <2>7 DEF PlannedCall
  <2>13. CreatedEvidence(t)'
    <3>1. StepSet(k.steps) \subseteq StepSet(rest) \union events[o] \union Owed(k)
      BY <2>4, <2>7, <2>9, <2>10 DEF Owed
    <3>2. k.at # "saving-resumed"
      BY <2>4
    <3> QED
      BY <2>2, <2>4, <2>5, <2>7, <2>9, <2>11, <3>1, <3>2 DEF CreatedEvidence
  <2>14. WorkerEvidence(o)' /\ RowEvidence(o)'
    BY <2>2, <2>5, <2>6, <2>11 DEF WorkerEvidence, RowEvidence, Live, ActiveStates
  <2>15. \A p \in OpId \ {o} : doc'[p] = doc[p] /\ todo'[p] = todo[p] /\ store'[p] = store[p]
    BY <2>2, <2>3
  <2> QED
    BY <1>1, <2>2, <2>6, <2>12, <2>13, <2>14, <2>15, EvidenceUnchanged DEF EvidenceInv
<1>10. CASE Spawn(t)
  <2>1. PICK o \in OpId : o = call[t].id
    BY <1>10 DEF Spawn, KnownId, Created
  <2>2. /\ worker' = [worker EXCEPT ![o] = "starting"] /\ call'[t].at = "idle"
        /\ call[t].at = "spawning" /\ UNCHANGED <<store, events, doc, todo>>
    BY <1>10, <2>1 DEF Spawn, Idle
  <2>3. /\ doc[o].request = call[t].request /\ doc[o].total = Len(call[t].steps)
        /\ doc[o].done + Len(todo[o]) = doc[o].total
        /\ StepSet(call[t].steps) \subseteq events[o] \union StepSet(todo[o])
        /\ call[t].steps \in Plans(call[t].request)
    BY <1>0, <2>1, <2>2 DEF CreatedEvidence, PlannedCall, Created, Owed
  <2>4. Accounted(doc[o], events[o] \union StepSet(todo[o]))
    BY <1>0, <2>3, PlannedIsAccounted
  <2>5. WorkerEvidence(o)'
    BY <2>2, <2>3, <2>4 DEF WorkerEvidence
  <2>6. \A p \in OpId \ {o} : worker'[p] = worker[p]
    BY <2>2
  <2> QED
    BY <1>1, <1>3, <2>2, <2>5, <2>6, EvidenceUnchanged DEF EvidenceInv
<1>11. CASE CancelWrite(t)
  <2>1. PICK o \in OpId : o = call[t].id
    BY <1>11 DEF CancelWrite, KnownId
  <2>2. /\ store' = [store EXCEPT ![o] = [call[t].read EXCEPT !.state = "cancelling"]]
        /\ call'[t].at = "idle" /\ UNCHANGED <<doc, todo, worker, events>>
    BY <1>11, <2>1 DEF CancelWrite, Idle
  <2>3. call[t].read \in Document
    BY <1>0 DEF Call
  <2>4. store'[o].state # "succeeded"
    BY <2>2, <2>3 DEF Document
  <2>5. \A p \in OpId : store'[p] = store[p] \/ store'[p].state # "succeeded"
    BY <2>2, <2>4
  <2> QED
    BY <1>2, <1>3, <2>2, <2>5
<1> QED
  BY <1>4, <1>5, <1>6, <1>7, <1>8, <1>9, <1>10, <1>11 DEF Handling

\* What a worker changes of its plan: nothing while it carries on with a step, the
\* event once the step is verified, the step once it is counted.
SamePlan(o) ==
    /\ UNCHANGED <<events, todo>>
    /\ doc'[o].request = doc[o].request /\ doc'[o].retry = doc[o].retry
    /\ doc'[o].done = doc[o].done /\ doc'[o].total = doc[o].total

Carrying(o) ==
    /\ worker[o] \in Running /\ worker'[o] \in Running \ {"succeeded-step"}
    /\ SamePlan(o)

Recording(o) ==
    /\ worker[o] = "verifying" /\ worker'[o] = "succeeded-step"
    /\ LET step == Head(todo[o])
       IN  /\ cluster[step.component] = Target(step.operation, step.component)
           /\ events' = [events EXCEPT ![o] = @ \union {step}]
    /\ UNCHANGED <<doc, todo>>

Counting(o) ==
    /\ worker[o] = "succeeded-step" /\ worker'[o] = "next"
    /\ todo' = [todo EXCEPT ![o] = Tail(@)]
    /\ doc'[o].request = doc[o].request /\ doc'[o].retry = doc[o].retry
    /\ doc'[o].done = doc[o].done + 1 /\ doc'[o].total = doc[o].total
    /\ UNCHANGED events

Finishing(o) ==
    /\ worker[o] = "next" /\ worker'[o] = "finally" /\ todo[o] = <<>>
    /\ SamePlan(o)

Failing(o) ==
    /\ worker'[o] = "finally" /\ doc'[o].state # "succeeded"
    /\ UNCHANGED <<events, todo>>

Leaving(o) ==
    /\ \/ worker[o] = "finally" /\ worker'[o] = "saving"
       \/ worker'[o] \in {"exiting", "none"}
    /\ doc'[o] = doc[o] /\ UNCHANGED <<events, todo>>

\* Every step of _run is one of these.
LEMMA EvidenceWorkerFrame ==
    ASSUME TypeInv, NEW o \in OpId, WorkerThread(o)
    PROVE  \/ Carrying(o) \/ Recording(o) \/ Counting(o) \/ Finishing(o) \/ Failing(o)
           \/ Leaving(o)
<1> USE DEF TypeInv, TypeOK, WorkerAt, Running, InStep
<1>0. doc[o] \in Document /\ worker[o] \in WorkerStates
  OBVIOUS
<1>1. CASE RunStart(o)
  BY <1>0, <1>1 DEF RunStart, Save, Carrying, SamePlan, Document
<1>2. CASE NextStep(o)
  BY <1>0, <1>2 DEF NextStep, Save, Carrying, SamePlan
<1>3. CASE NoMoreSteps(o)
  <2>1. doc' = [doc EXCEPT ![o] = [doc[o] EXCEPT !.state = "succeeded"]]
    BY <1>3 DEF NoMoreSteps
  <2>2. /\ doc'[o].request = doc[o].request /\ doc'[o].retry = doc[o].retry
        /\ doc'[o].done = doc[o].done /\ doc'[o].total = doc[o].total
    BY <1>0, <2>1 DEF Document
  <2> QED
    BY <1>3, <2>2 DEF NoMoreSteps, Finishing, SamePlan
<1>4. CASE StartAttempt(o)
  BY <1>0, <1>4 DEF StartAttempt, Save, Carrying, SamePlan
<1>5. ASSUME NEW from \in WorkerStates, NEW state \in TerminalStates \ {"succeeded"},
             Abort(o, from, state)
      PROVE  Failing(o)
  <2>1. doc' = [doc EXCEPT ![o] = [doc[o] EXCEPT !.state = state, !.recovery = TRUE]]
    BY <1>5 DEF Abort
  <2>2. doc'[o].state = state
    BY <1>0, <2>1 DEF Document
  <2> QED
    BY <1>5, <2>2 DEF Abort, Failing
<1>6. ASSUME NEW from \in WorkerStates, StepCancelled(o, from) \/ StepTimedOut(o, from)
      PROVE  Failing(o)
  BY <1>5, <1>6 DEF StepCancelled, StepTimedOut, TerminalStates
<1>7. ASSUME NEW from \in {"executing", "verifying"}, AttemptFailed(o, from)
      PROVE  Carrying(o) \/ Failing(o)
  <2>1. CASE Abort(o, from, "failed")
    BY <1>5, <2>1 DEF TerminalStates, WorkerStates
  <2>2. CASE /\ WorkerAt(o, from, "attempt")
             /\ UNCHANGED <<store, events, doc, todo, attempt>>
    BY <1>0, <2>2 DEF Carrying, SamePlan
  <2> QED
    BY <1>7, <2>1, <2>2 DEF AttemptFailed
<1>8. CASE Boundary(o)
  <2>1. ASSUME NEW from \in Running, NEW to \in {"executing", "verifying"},
               Passed(o, from, to)
        PROVE  Carrying(o)
    BY <1>0, <2>1 DEF Passed, Carrying, SamePlan
  <2> QED
    BY <1>6, <1>8, <2>1 DEF Boundary, WorkerStates
<1>9. CASE AdapterDone(o)
  BY <1>0, <1>9 DEF AdapterDone, Carrying, SamePlan
<1>10. CASE AdapterFailed(o) \/ VerifyFailed(o)
  BY <1>7, <1>10 DEF AdapterFailed, VerifyFailed
<1>11. CASE AdapterCancelled(o) \/ AdapterTimedOut(o)
  BY <1>5, <1>11 DEF AdapterCancelled, AdapterTimedOut, StepTimedOut, TerminalStates,
                     WorkerStates
<1>12. CASE VerifyPassed(o)
  BY <1>0, <1>12 DEF VerifyPassed, Recording
<1>13. CASE VerifyBoundary(o)
  BY <1>6, <1>13 DEF VerifyBoundary, WorkerStates
<1>14. CASE StepSucceeded(o)
  BY <1>0, <1>14 DEF StepSucceeded, Save, Counting, Document
<1>15. CASE Discard(o)
  BY <1>15 DEF Discard, Leaving
<1>16. CASE FinalSave(o)
  BY <1>16 DEF FinalSave, Save, Leaving
<1>17. CASE WorkerExit(o)
  BY <1>17 DEF WorkerExit, Leaving
<1> QED
  BY <1>1, <1>2, <1>3, <1>4, <1>8, <1>9, <1>10, <1>11, <1>12, <1>13, <1>14, <1>15,
     <1>16, <1>17 DEF WorkerThread

\* A worker's row is saved as succeeded only when it ran out of steps, each of
\* which it had recorded before it dropped it.
LEMMA EvidenceWorkerThread ==
    ASSUME TypeInv, OwnershipInv, EvidenceInv, NEW o \in OpId, WorkerThread(o)
    PROVE  EvidenceInv'
<1> USE DEF TypeInv, TypeOK
<1>0. /\ todo[o] \in Seq(Step) /\ doc[o] \in Document /\ WorkerEvidence(o) /\ RowEvidence(o)
      /\ doc[o].done \in Nat /\ doc[o].total \in Nat /\ worker[o] # "none"
      /\ worker[o] = "succeeded-step" => todo[o] # <<>>
  <2>1. worker[o] # "none"
    BY WorkerThreadFrame DEF Unfinished, Ending, Forgetting, LastSave, Exiting, Running,
                             InStep
  <2> QED
    BY <2>1 DEF Document, EvidenceInv, WorkerProgress, InStep
<1>1. /\ UNCHANGED call
      /\ \A p \in OpId \ {o} : /\ store'[p] = store[p] /\ doc'[p] = doc[p]
                               /\ worker'[p] = worker[p]
      /\ Unfinished(o) \/ Ending(o) \/ Forgetting(o) \/ LastSave(o) \/ Exiting(o)
  BY WorkerThreadFrame
<1>2. /\ Carrying(o) \/ Recording(o) \/ Counting(o) \/ Finishing(o) \/ Failing(o)
         \/ Leaving(o)
      /\ \A p \in OpId : events[p] \subseteq events'[p]
      /\ \A p \in OpId \ {o} : todo'[p] = todo[p]
  BY EvidenceWorkerFrame
     DEF Carrying, Recording, Counting, Finishing, Failing, Leaving, SamePlan
<1>3. \A p \in OpId \ {o} : WorkerEvidence(p)' /\ RowEvidence(p)'
  BY <1>1, <1>2, EvidenceUnchanged
<1>4. \A u \in Caller : PlannedCall(u)' /\ CreatedEvidence(u)'
  <2>1. ASSUME NEW u \in Caller, Created(u), call[u].id = o
        PROVE  doc'[o] = doc[o] /\ todo'[o] = todo[o]
    <3>1. worker[o] = "exiting"
      BY <1>0, <2>1 DEF OwnershipInv, OneOwner, Live
    <3> QED
      BY <1>1, <1>2, <3>1 DEF Unfinished, Ending, Forgetting, LastSave, Exiting, Running,
                              InStep, Carrying, Recording, Counting, Finishing, Failing, Leaving
  <2> QED
    BY <1>1, <1>2, <2>1, EvidenceUnchanged
<1>5. RowEvidence(o)'
  <2>1. CASE store'[o] = store[o]
    BY <1>2, <2>1, EvidenceUnchanged
  <2>2. CASE Unfinished(o) /\ store'[o] # store[o]
    <3>1. doc[o].state \in ActiveStates
      BY <2>2 DEF Unfinished, Running, InStep, OwnershipInv, OwnerDocument, Owned, Live
    <3> QED
      BY <2>2, <3>1 DEF Unfinished, RowEvidence, ActiveStates
  <2>3. CASE LastSave(o)
    <3>1. UNCHANGED events
      BY <1>2, <2>3 DEF LastSave, Carrying, Recording, Counting, Finishing, Failing, Leaving,
                        SamePlan, Running, InStep
    <3> QED
      BY <1>0, <2>3, <3>1 DEF LastSave, WorkerEvidence, RowEvidence, Live
  <2> QED
    BY <1>1, <2>1, <2>2, <2>3 DEF Ending, Forgetting, Exiting
<1>6. WorkerEvidence(o)'
  <2>1. CASE Carrying(o)
    <3>1. /\ doc[o].done + Len(todo[o]) = doc[o].total
          /\ Accounted(doc[o], events[o] \union StepSet(todo[o]))
      BY <1>0, <2>1 DEF Carrying, Running, InStep, WorkerEvidence, Live
    <3> QED
      BY <2>1, <3>1 DEF Carrying, SamePlan, Running, InStep, WorkerEvidence, Accounted
  <2>2. CASE Recording(o)
    <3>1. /\ doc[o].done + Len(todo[o]) = doc[o].total
          /\ Accounted(doc[o], events[o] \union StepSet(todo[o]))
      BY <1>0, <2>2 DEF Recording, WorkerEvidence, Live
    <3>2. events'[o] = events[o] \union {Head(todo[o])}
      BY <2>2 DEF Recording
    <3>3. Accounted(doc[o], events'[o] \union StepSet(todo[o]))
      BY <3>1, <3>2 DEF Accounted
    <3> QED
      BY <2>2, <3>1, <3>2, <3>3 DEF Recording, WorkerEvidence
  <2>3. CASE Counting(o)
    <3>1. /\ doc[o].done + Len(todo[o]) = doc[o].total
          /\ Accounted(doc[o], events[o] \union StepSet(todo[o]))
          /\ Head(todo[o]) \in events[o] /\ todo[o] # <<>>
      BY <1>0, <2>3 DEF Counting, WorkerEvidence, Live
    <3>2. /\ todo'[o] = Tail(todo[o]) /\ Len(Tail(todo[o])) = Len(todo[o]) - 1
          /\ Len(todo[o]) \in Nat
          /\ \A i \in 1..Len(Tail(todo[o])) : Tail(todo[o])[i] = todo[o][i + 1]
          /\ Head(todo[o]) = todo[o][1]
      BY <1>0, <2>3, <3>1, HeadTailProperties, LenProperties DEF Counting
    <3>3. StepSet(todo[o]) \subseteq {Head(todo[o])} \union StepSet(todo'[o])
      <4> SUFFICES ASSUME NEW x \in StepSet(todo[o]), x # Head(todo[o])
                   PROVE  x \in StepSet(Tail(todo[o]))
        BY <3>2
      <4>1. PICK i \in 1..Len(todo[o]) : x = todo[o][i]
        BY DEF StepSet
      <4>2. i # 1
        BY <3>2, <4>1
      <4>3. i - 1 \in 1..Len(Tail(todo[o])) /\ Tail(todo[o])[i - 1] = x
        BY <3>2, <4>1, <4>2
      <4> QED
        BY <4>3 DEF StepSet
    <3>4. doc'[o].done + Len(todo'[o]) = doc'[o].total
      BY <1>0, <2>3, <3>1, <3>2 DEF Counting
    <3>5. Accounted(doc'[o], events'[o] \union StepSet(todo'[o]))
      BY <2>3, <3>1, <3>3 DEF Counting, Accounted
    <3> QED
      BY <2>3, <3>4, <3>5 DEF Counting, WorkerEvidence
  <2>4. CASE Finishing(o)
    <3>1. /\ doc[o].done + Len(todo[o]) = doc[o].total
          /\ Accounted(doc[o], events[o] \union StepSet(todo[o]))
      BY <1>0, <2>4 DEF Finishing, WorkerEvidence, Live
    <3>2. Len(todo[o]) = 0
      BY <2>4, EmptySeq DEF Finishing
    <3>3. StepSet(todo[o]) = {}
      BY <3>2 DEF StepSet
    <3>4. Verified(doc[o], events[o])
      BY <1>0, <3>1, <3>2, <3>3 DEF Verified, Accounted
    <3> QED
      BY <2>4, <3>4 DEF Finishing, SamePlan, WorkerEvidence, Verified, Accounted
  <2>5. CASE Failing(o)
    BY <2>5 DEF Failing, WorkerEvidence
  <2>6. CASE Leaving(o)
    BY <1>0, <2>6 DEF Leaving, WorkerEvidence, Live
  <2> QED
    BY <1>2, <2>1, <2>2, <2>3, <2>4, <2>5, <2>6
<1> QED
  BY <1>3, <1>4, <1>5, <1>6 DEF EvidenceInv

\* A crash takes the workers with their plans; what is recorded stays.
LEMMA EvidenceEnvironment ==
    ASSUME TypeInv, OwnershipInv, EvidenceInv,
           Crash \/ Reopen \/ \E s \in orphans : OrphanApplies(s)
    PROVE  EvidenceInv'
<1>1. UNCHANGED events /\ (UNCHANGED todo \/ manager' = "down")
  BY DEF Crash, Reopen, OpenStore, SetInterruptedRecovery, Serve, OrphanApplies, volatile
<1>2. \A o \in OpId : store'[o] = store[o] \/ store'[o].state = "interrupted"
  BY EnvironmentFrame
<1>3. \A o \in OpId : RowEvidence(o)'
  BY <1>1, <1>2, EvidenceUnchanged DEF RowEvidence
<1>4. CASE UNCHANGED <<doc, worker, call, todo>>
  BY <1>1, <1>3, <1>4, EvidenceUnchanged DEF EvidenceInv
<1>5. CASE /\ \A t \in Caller : call'[t].at = "idle"
           /\ \A o \in OpId : worker'[o] = "none"
  BY <1>3, <1>5 DEF EvidenceInv, PlannedCall, CreatedEvidence, WorkerEvidence, Live, Created
<1>6. \/ UNCHANGED <<doc, worker, call, todo>>
      \/ /\ \A t \in Caller : call'[t].at = "idle"
         /\ \A o \in OpId : worker'[o] = "none"
  BY DEF Crash, Reopen, OpenStore, SetInterruptedRecovery, Serve, OrphanApplies, volatile,
         Idle
<1> QED
  BY <1>4, <1>5, <1>6

\* Every step keeps the evidence.
LEMMA EvidenceStep == TypeInv /\ OwnershipInv /\ EvidenceInv /\ [Next]_vars => EvidenceInv'
<1>1. TypeInv /\ EvidenceInv /\ UNCHANGED vars => EvidenceInv'
  BY EvidenceUnchanged DEF EvidenceInv, vars
<1> QED
  BY <1>1, EvidenceRequestThread, EvidenceHandling, EvidenceWorkerThread,
     EvidenceEnvironment DEF Next

------------------------------------------------------------------------------
(* Plans supply what their steps need                                      *)

Starts(step) == step.operation \in StartOperations
SameKind(x, y) == Starts(x) <=> Starts(y)

\* The components whose state decides whether a step may run.
Needs(step) == IF Starts(step) THEN TransitiveDependencies(step.component)
                               ELSE Consumers(step.component)

\* Components are stopped before any is started, and a step is preceded by a step
\* of its kind on every component that it needs.
Phased(s) == \A i, j \in 1..Len(s) : i < j /\ Starts(s[i]) => Starts(s[j])

Supplied(s) ==
    \A i \in 1..Len(s) : \A d \in Needs(s[i]) :
        \E j \in 1..Len(s) : j < i /\ s[j].component = d /\ SameKind(s[j], s[i])

\* A step that brings its component into one known state.
Changing(step) ==
    step.operation \in (StartOperations \union StopOperations) \ {"configure"}

SafePlan(s) == Phased(s) /\ Supplied(s) /\ \A i \in 1..Len(s) : Changing(s[i])

\* What the dependencies of a dependency depend on is a dependency.
LEMMA ClosureIsClosed ==
    ASSUME NEW S \in SUBSET Component
    PROVE  \A c \in Closure(S) : TransitiveDependencies(c) \subseteq Closure(S)
BY DEF Closure, TransitiveDependencies

\* include_dependencies: the dependencies of a component come before it.
LEMMA StartPlanSupplied ==
    ASSUME NEW operation \in StartOperations, NEW S \in SUBSET Component,
           NEW q \in StartPlans(operation, S)
    PROVE  Supplied(q) /\ \A i \in 1..Len(q) : q[i].operation = operation
<1>1. PICK s \in DependencyOrders(Closure(S)) : q = StepsFor(operation, s)
  BY DEF StartPlans
<1>2. Closure(S) \in SUBSET Component
  BY DEF Closure
<1>3. s \in Seq(Component) /\ Len(s) = Cardinality(Closure(S)) /\ StepSet(s) = Closure(S)
  BY <1>2, OrdersListTheirSet
<1> DEFINE n == Len(s)
<1>4. n \in Nat /\ \A i, j \in 1..n : i < j => s[j] \notin TransitiveDependencies(s[i])
  BY <1>3, LenProperties DEF DependencyOrders
<1>5. q = [i \in 1..n |-> [component |-> s[i], operation |-> operation]]
  BY <1>1 DEF StepsFor
<1> HIDE DEF n
<1>6. Len(q) = n /\ \A i \in 1..n : q[i].component = s[i] /\ q[i].operation = operation
  BY <1>4, <1>5
<1>7. ASSUME NEW i \in 1..n, NEW d \in Needs(q[i])
      PROVE  \E j \in 1..n : j < i /\ q[j].component = d
  <2>1. d \in TransitiveDependencies(s[i])
    BY <1>6 DEF Needs, Starts
  <2>2. s[i] \in Closure(S)
    BY <1>3 DEF StepSet, n
  <2>3. d \in Closure(S) /\ d # s[i]
    BY <2>1, <2>2, ClosureIsClosed DEF TransitiveDependencies
  <2>4. PICK j \in 1..n : s[j] = d
    BY <1>3, <2>3 DEF StepSet, n
  <2>5. ~(i < j) /\ i # j
    BY <1>4, <2>1, <2>3, <2>4
  <2> QED
    BY <1>4, <1>6, <2>4, <2>5
<1> QED
  BY <1>6, <1>7 DEF Supplied, SameKind, Starts

\* Without consumers left out, the consumers of a component come before it.
LEMMA StopPlanSupplied ==
    ASSUME NEW operation \in StopOperations, NEW S \in SUBSET Component,
           \A c \in S : Consumers(c) \subseteq S,
           NEW q \in StopPlans(operation, S)
    PROVE  Supplied(q) /\ \A i \in 1..Len(q) : q[i].operation = operation
<1>1. PICK s \in DependencyOrders(S) : q = StepsFor(operation, Reversed(s))
  BY DEF StopPlans
<1>2. s \in Seq(Component) /\ Len(s) = Cardinality(S) /\ StepSet(s) = S
  BY OrdersListTheirSet
<1>3. Len(Reversed(s)) = Len(s)
  BY <1>2, OrdersListTheirSet
<1> DEFINE n == Len(s)
<1>4. n \in Nat /\ \A i, j \in 1..n : i < j => s[j] \notin TransitiveDependencies(s[i])
  BY <1>2, LenProperties DEF DependencyOrders
<1>5. \A i \in 1..n : Reversed(s)[i] = s[n - i + 1]
  BY DEF Reversed
<1>6. q = [i \in 1..n |-> [component |-> Reversed(s)[i], operation |-> operation]]
  BY <1>1, <1>3 DEF StepsFor
<1> HIDE DEF n
<1>7. Len(q) = n /\ \A i \in 1..n : q[i].component = s[n - i + 1] /\ q[i].operation = operation
  BY <1>4, <1>5, <1>6
<1>8. ~(operation \in StartOperations)
  BY DEF StartOperations, StopOperations
<1>9. ASSUME NEW i \in 1..n, NEW d \in Needs(q[i])
      PROVE  \E j \in 1..n : j < i /\ q[j].component = d
  <2> DEFINE m == n - i + 1
  <2>0. m \in 1..n
    BY <1>4
  <2>1. d \in Consumers(s[m])
    BY <1>7, <1>8 DEF Needs, Starts
  <2>2. s[m] \in S
    BY <1>2, <2>0 DEF StepSet, n
  <2>3. d \in S /\ s[m] \in TransitiveDependencies(d) /\ s[m] # d
    BY <2>1, <2>2 DEF Consumers, TransitiveDependencies
  <2>4. PICK k \in 1..n : s[k] = d
    BY <1>2, <2>3 DEF StepSet, n
  <2>5. ~(k < m) /\ k # m
    BY <1>4, <2>0, <2>3, <2>4
  <2> DEFINE j == n - k + 1
  <2>6. j \in 1..n /\ j < i /\ n - j + 1 = k
    BY <1>4, <2>5
  <2> QED
    BY <1>7, <2>4, <2>6
<1>10. \A i, j \in 1..n : SameKind(q[j], q[i])
  BY <1>7 DEF SameKind, Starts
<1> QED
  BY <1>7, <1>9, <1>10 DEF Supplied

\* A restart stops everything before it starts anything.
LEMMA RestartPlanSupplied ==
    ASSUME NEW u \in Seq(Step), NEW v \in Seq(Step), Supplied(u), Supplied(v),
           \A i \in 1..Len(u) : ~Starts(u[i]), \A i \in 1..Len(v) : Starts(v[i])
    PROVE  Supplied(u \o v) /\ Phased(u \o v)
<1> DEFINE s == u \o v
           m == Len(u)
           n == Len(v)
<1>1. /\ Len(s) = m + n /\ m \in Nat /\ n \in Nat
      /\ \A i \in 1..m + n : s[i] = IF i <= m THEN u[i] ELSE v[i - m]
  BY ConcatProperties, LenProperties
<1>2. /\ \A i \in 1..m : s[i] = u[i] /\ i \in 1..m + n
      /\ \A i \in 1..n : s[i + m] = v[i] /\ i + m \in 1..m + n
      /\ \A i \in 1..m + n : i \in 1..m \/ (i - m \in 1..n /\ s[i] = v[i - m])
  <2>1. \A i \in 1..m : i \in 1..m + n /\ i <= m
    BY <1>1
  <2>2. \A i \in 1..n : i + m \in 1..m + n /\ ~(i + m <= m) /\ i + m - m = i
    BY <1>1
  <2>3. \A i \in 1..m + n : i \in 1..m \/ (i - m \in 1..n /\ ~(i <= m))
    BY <1>1
  <2> HIDE DEF s, m, n
  <2> QED
    BY <1>1, <2>1, <2>2, <2>3
<1> HIDE DEF s
<1>3. Phased(s)
  <2> SUFFICES ASSUME NEW i \in 1..m + n, NEW j \in 1..m + n, i < j, Starts(s[i])
               PROVE  Starts(s[j])
    BY <1>1 DEF Phased
  <2>1. i \notin 1..m
    BY <1>2
  <2>2. j \notin 1..m
    BY <1>1, <2>1
  <2> QED
    BY <1>2, <2>2
<1>4. Supplied(s)
  <2> SUFFICES ASSUME NEW i \in 1..m + n, NEW d \in Needs(s[i])
               PROVE  \E j \in 1..m + n :
                         j < i /\ s[j].component = d /\ SameKind(s[j], s[i])
    BY <1>1 DEF Supplied
  <2>1. CASE i \in 1..m
    <3>1. PICK j \in 1..m : j < i /\ u[j].component = d /\ SameKind(u[j], u[i])
      BY <1>2, <2>1 DEF Supplied
    <3> QED
      BY <1>2, <2>1, <3>1
  <2>2. CASE i - m \in 1..n /\ s[i] = v[i - m]
    <3>1. PICK j \in 1..n : j < i - m /\ v[j].component = d /\ SameKind(v[j], v[i - m])
      BY <2>2 DEF Supplied
    <3>2. j + m \in 1..m + n /\ j + m < i /\ s[j + m] = v[j]
      BY <1>1, <1>2, <3>1
    <3> QED
      BY <2>2, <3>1, <3>2
  <2> QED
    BY <1>2, <2>1, <2>2
<1> QED
  BY <1>3, <1>4 DEF s

\* No component of the registry declares the configure operation.
NoConfigure == \A c \in Component : "configure" \notin Capabilities[c]

\* Every plan of a registry without configure steps is safe.
LEMMA PlansAreSafe ==
    ASSUME NoConfigure, NEW request \in Request, NEW s \in Plans(request)
    PROVE  SafePlan(s)
<1> DEFINE S == request.targets
           operation == request.operation
<1>1. /\ operation \in Operation /\ S \in SUBSET Component
      /\ SuspendScope(S) \in SUBSET Component
      /\ "stop" \in StopOperations /\ "start" \in StartOperations
      /\ "stop" \in Operation /\ "start" \in Operation
      /\ StartOperations \intersect StopOperations = {}
  BY DEF Request, SuspendScope, Consumers, Operation, StartOperations, StopOperations
<1>2. s \in Seq(Step)
  BY PlansAreSequences
<1>3. \A c \in SuspendScope(S) : Consumers(c) \subseteq SuspendScope(S)
  BY DEF SuspendScope, Consumers, TransitiveDependencies, Closure
<1>4. MissingConsumers(S) = {} => \A c \in S : Consumers(c) \subseteq S
  BY DEF MissingConsumers, Consumers
<1>5. ASSUME \A i \in 1..Len(s) : s[i].operation \in StartOperations \union StopOperations
      PROVE  \A i \in 1..Len(s) : Changing(s[i])
  <2> SUFFICES ASSUME NEW i \in 1..Len(s) PROVE s[i].operation # "configure"
    BY <1>5 DEF Changing
  <2>1. s[i] \in Step
    BY <1>2, ElementOfSeq
  <2>2. s[i].operation \in Capabilities[s[i].component]
    BY DEF Plans
  <2> QED
    BY <2>1, <2>2 DEF NoConfigure, Step
<1>6. \A op \in StopOperations, U \in SUBSET Component :
          s \in StopPlans(op, U) /\ (\A c \in U : Consumers(c) \subseteq U) => SafePlan(s)
  <2> SUFFICES ASSUME NEW op \in StopOperations, NEW U \in SUBSET Component,
                      s \in StopPlans(op, U), \A c \in U : Consumers(c) \subseteq U
               PROVE  SafePlan(s)
    OBVIOUS
  <2>1. Supplied(s) /\ \A i \in 1..Len(s) : s[i].operation = op
    BY StopPlanSupplied
  <2> QED
    BY <1>1, <1>5, <2>1 DEF SafePlan, Phased, Starts
<1>7. CASE operation \in StartOperations /\ s \in StartPlans(operation, S)
  <2>1. Supplied(s) /\ \A i \in 1..Len(s) : s[i].operation = operation
    BY <1>1, <1>7, StartPlanSupplied
  <2> QED
    BY <1>5, <1>7, <2>1 DEF SafePlan, Phased, Starts
<1>8. CASE MissingConsumers(S) = {} /\ s \in RestartPlans(S)
  <2>1. PICK u \in StopPlans("stop", S), v \in StartPlans("start", S) : s = u \o v
    BY <1>8 DEF RestartPlans
  <2>2. u \in Seq(Step) /\ v \in Seq(Step)
    <3>1. Closure(S) \in SUBSET Component
      BY DEF Closure
    <3> QED
      BY <1>1, <3>1, OrdersAreSequences, StepsAreSequences DEF StopPlans, StartPlans
  <2>3. /\ Supplied(u) /\ \A i \in 1..Len(u) : u[i].operation = "stop"
        /\ Supplied(v) /\ \A i \in 1..Len(v) : v[i].operation = "start"
    BY <1>1, <1>4, <1>8, StartPlanSupplied, StopPlanSupplied
  <2>4. Supplied(s) /\ Phased(s)
    BY <1>1, <2>1, <2>2, <2>3, RestartPlanSupplied DEF Starts
  <2>5. \A i \in 1..Len(s) : s[i].operation \in {"start", "stop"}
    <3> TAKE i \in 1..Len(s)
    <3>1. /\ Len(u) \in Nat /\ Len(v) \in Nat /\ i \in 1..Len(u) + Len(v)
          /\ s[i] = IF i <= Len(u) THEN u[i] ELSE v[i - Len(u)]
      BY <2>1, <2>2, ConcatProperties, LenProperties
    <3>2. i \in 1..Len(u) \/ (i - Len(u) \in 1..Len(v) /\ ~(i <= Len(u)))
      BY <3>1
    <3> QED
      BY <2>3, <3>1, <3>2
  <2> QED
    BY <1>1, <1>5, <2>4, <2>5 DEF SafePlan
<1>9. \/ s \in StopPlans("stop", SuspendScope(S))
      \/ operation \in StartOperations /\ s \in StartPlans(operation, S)
      \/ MissingConsumers(S) = {} /\ s \in RestartPlans(S)
      \/ /\ MissingConsumers(S) = {} /\ s \in StopPlans(operation, S)
         /\ operation \in StopOperations
  BY <1>1 DEF Plans, OrderedPlans, Operation
<1> HIDE DEF S, operation
<1> QED
  BY <1>1, <1>3, <1>4, <1>6, <1>7, <1>8, <1>9

\* The positions of a plan.
LEMMA Positions ==
    ASSUME NEW m \in Nat
    PROVE  IsFiniteSet(1..m) /\ Cardinality(1..m) = m
<1>1. 1 \in Int /\ m \in Int /\ (IF 1 > m THEN 0 ELSE m - 1 + 1) = m
  OBVIOUS
<1> QED
  BY <1>1, FS_Interval

\* A plan of which no step is completed stays safe, although it is rebuilt.
LEMMA RemainingSafe ==
    ASSUME NEW k \in Call, k.completed = {}, NEW r \in Remaining(k),
           Lists(k.steps, StepSet(k.steps)), SafePlan(k.steps)
    PROVE  SafePlan(r)
<1> DEFINE s == k.steps
           P == StepSet(s)
           n == Len(s)
           Position(step) == CHOOSE i \in 1..n : s[i] = step
<1>1. /\ s \in Seq(Step) /\ n \in Nat /\ s \in [1..n -> P] /\ IsFiniteSet(P)
      /\ n = Cardinality(P)
  BY LenProperties DEF Lists, StepSet
<1>2. \A i, j \in 1..n : s[i] = s[j] => i = j
  <2>1. s \in Surjection(1..n, P)
    BY <1>1 DEF Surjection, StepSet
  <2>2. IsFiniteSet(1..n) /\ Cardinality(1..n) = n
    <3>1. n \in Nat
      BY <1>1
    <3> HIDE DEF n
    <3> QED
      BY <3>1, Positions
  <2>3. s \in Injection(1..n, P)
    BY <1>1, <2>1, <2>2, FS_Surjection
  <2> QED
    BY <1>1, <2>3 DEF Injection, IsInjective
<1>3. P \ k.completed = P
  OBVIOUS
<1>4. /\ r \in [1..n -> P]
      /\ \A i, j \in 1..n : i < j => Position(r[i]) < Position(r[j])
  BY <1>1, <1>3 DEF Remaining
<1>5. StepSet(r) = P /\ Len(r) = n
  <2>1. Resumable(k) = {}
    BY DEF Resumable
  <2>2. Cardinality(Resumable(k)) = 0
    BY <2>1, FS_EmptySet
  <2>3. StepSet(r) = P \ k.completed /\ Cardinality(Resumable(k)) + Len(r) = n
    BY RemainingLists
  <2>4. Len(r) \in Nat
    BY RemainingAreSequences, LenProperties
  <2> QED
    BY <1>1, <1>3, <2>2, <2>3, <2>4
<1> DEFINE q == [i \in 1..n |-> Position(r[i])]
<1>6. \A i \in 1..n : q[i] \in 1..n /\ s[q[i]] = r[i]
  <2> SUFFICES ASSUME NEW i \in 1..n
               PROVE  Position(r[i]) \in 1..n /\ s[Position(r[i])] = r[i]
    OBVIOUS
  <2>1. \E j \in 1..n : s[j] = r[i]
    BY <1>4 DEF StepSet
  <2> QED
    BY <2>1
<1>7. \A i, j \in 1..n : i < j => q[i] < q[j]
  BY <1>4
<1>8. \A j \in 1..n : \E i \in 1..n : q[i] = j
  <2> TAKE j \in 1..n
  <2>1. s[j] \in StepSet(r)
    BY <1>5 DEF StepSet
  <2>2. PICK i \in 1..n : r[i] = s[j]
    BY <1>5, <2>1 DEF StepSet
  <2>3. s[q[i]] = s[j] /\ q[i] \in 1..n
    BY <1>6, <2>2
  <2>4. q[i] = j
    BY <1>2, <2>3
  <2> QED
    BY <2>4
<1>9. /\ \A i \in 1..n : Changing(s[i])
      /\ \A i \in 1..n : \A d \in Needs(s[i]) :
            \E j \in 1..n : j < i /\ s[j].component = d /\ SameKind(s[j], s[i])
  BY DEF SafePlan, Supplied
<1> HIDE DEF q, n, s, P
<1>10. Phased(r)
  <2> SUFFICES ASSUME NEW i \in 1..n, NEW j \in 1..n, i < j, Starts(r[i])
               PROVE  Starts(r[j])
    BY <1>5 DEF Phased
  <2>1. q[i] < q[j] /\ q[i] \in 1..n /\ q[j] \in 1..n /\ s[q[i]] = r[i] /\ s[q[j]] = r[j]
    BY <1>6, <1>7
  <2> QED
    BY <2>1 DEF SafePlan, Phased, s, n
<1>11. Supplied(r)
  <2> SUFFICES ASSUME NEW i \in 1..n, NEW d \in Needs(r[i])
               PROVE  \E j \in 1..n :
                         j < i /\ r[j].component = d /\ SameKind(r[j], r[i])
    BY <1>5 DEF Supplied
  <2>1. q[i] \in 1..n /\ s[q[i]] = r[i]
    BY <1>6
  <2>2. PICK p \in 1..n : p < q[i] /\ s[p].component = d /\ SameKind(s[p], s[q[i]])
    BY <1>9, <2>1
  <2>3. PICK j \in 1..n : q[j] = p
    BY <1>8
  <2>4. s[p] = r[j]
    BY <1>6, <2>3
  <2>5. ~(i < j) /\ i # j
    BY <1>1, <1>6, <1>7, <2>2, <2>3 DEF n
  <2>6. j < i
    BY <1>1, <2>5 DEF n
  <2> QED
    BY <2>1, <2>2, <2>4, <2>6
<1>12. \A i \in 1..Len(r) : Changing(r[i])
  BY <1>5, <1>6, <1>9
<1> QED
  BY <1>10, <1>11, <1>12 DEF SafePlan

------------------------------------------------------------------------------
(* Dependencies                                                            *)

\* An operation that runs its whole plan.
Fresh(d) == d.retry => d.request.flow = "plain"

\* In the lab cl, the component is in the state that steps of this kind need and
\* leave behind.
InForce(cl, step, c) == Starts(step) <=> cl[c] = "running"

\* A need of the step at i is met by an earlier step, or already in force with
\* nothing before the step to undo it.
Met(cl, s, i, d) ==
    \/ \E j \in 1..Len(s) : j < i /\ s[j].component = d /\ SameKind(s[j], s[i])
    \/ InForce(cl, s[i], d) /\ \A j \in 1..Len(s) : j <= i => SameKind(s[j], s[i])

Within(s, C) == \A i \in 1..Len(s) : s[i].component \in C

Ready(cl, s, C) ==
    /\ Phased(s)
    /\ \A i \in 1..Len(s) : /\ Changing(s[i])
                            /\ \A d \in Needs(s[i]) : d \in C /\ Met(cl, s, i, d)

\* Until the worker starts, the plan itself supplies what its steps need.
FreshCall(t) ==
    /\ (call[t].at \in {"prepare", "creating"} \/ Created(t)) /\ Fresh(call[t]) =>
          call[t].completed = {}
    /\ Created(t) =>
          /\ doc[call[t].id].retry = call[t].retry
          /\ Within(call[t].steps, doc[call[t].id].components)
          /\ Within(todo[call[t].id], doc[call[t].id].components)
          /\ Fresh(call[t]) => SafePlan(todo[call[t].id])

\* Then what its dropped steps supplied is in force, and no other operation works
\* on the components of this one.
FreshWorker(o) ==
    Live(o) /\ worker[o] \notin {"finally", "saving"} =>
        /\ Within(todo[o], doc[o].components)
        /\ Fresh(doc[o]) =>
              /\ Ready(cluster, todo[o], doc[o].components)
              /\ worker[o] = "succeeded-step" =>
                    InForce(cluster, todo[o][1], todo[o][1].component)

DependencyInv ==
    /\ orphans = {}
    /\ \A t \in Caller : FreshCall(t)
    /\ \A o \in OpId : FreshWorker(o)

\* A safe plan is ready in any lab.
LEMMA SafeIsReady ==
    ASSUME NEW s \in Seq(Step), SafePlan(s), NEW C, Within(s, C), NEW cl
    PROVE  Ready(cl, s, C)
<1>1. \A i \in 1..Len(s) : \A d \in Needs(s[i]) : d \in C /\ Met(cl, s, i, d)
  BY DEF SafePlan, Supplied, Within, Met
<1> QED
  BY <1>1 DEF SafePlan, Ready

\* A plan stays ready while nobody changes its components.
LEMMA ReadyElsewhere ==
    ASSUME NEW s, NEW C, NEW cl, NEW clNext, Ready(cl, s, C),
           \A c \in C : clNext[c] = cl[c]
    PROVE  Ready(clNext, s, C)
<1>1. \A i \in 1..Len(s) : \A d \in Needs(s[i]) : Met(clNext, s, i, d)
  BY DEF Ready, Met, InForce
<1> QED
  BY <1>1 DEF Ready

\* The step that runs undoes nothing that the later steps need.
LEMMA ReadyWhileRunning ==
    ASSUME NEW s, Len(s) \in Nat \ {0}, NEW C, NEW cl, NEW clNext, Ready(cl, s, C),
           \A c \in C : c # s[1].component => clNext[c] = cl[c],
           InForce(clNext, s[1], s[1].component)
    PROVE  Ready(clNext, s, C)
<1>1. ASSUME NEW i \in 1..Len(s), NEW d \in Needs(s[i]) PROVE Met(clNext, s, i, d)
  <2>1. d \in C /\ Met(cl, s, i, d)
    BY DEF Ready
  <2>2. CASE /\ InForce(cl, s[i], d)
             /\ \A j \in 1..Len(s) : j <= i => SameKind(s[j], s[i])
    <3>1. 1 \in 1..Len(s) /\ 1 <= i
      OBVIOUS
    <3>2. SameKind(s[1], s[i])
      BY <2>2, <3>1
    <3>3. InForce(clNext, s[i], d)
      BY <2>1, <2>2, <3>2 DEF InForce, SameKind
    <3> QED
      BY <2>2, <3>3 DEF Met
  <2> QED
    BY <2>1, <2>2 DEF Met
<1> QED
  BY <1>1 DEF Ready

\* A finished step supplies what the rest of the plan needed it for.
LEMMA ReadyTail ==
    ASSUME NEW s \in Seq(Step), s # <<>>, NEW C, NEW cl, Ready(cl, s, C),
           InForce(cl, s[1], s[1].component)
    PROVE  Ready(cl, Tail(s), C)
<1> DEFINE t == Tail(s)
           m == Len(t)
<1>1. /\ Len(s) = m + 1 /\ m \in Nat
      /\ \A i \in 1..m : t[i] = s[i + 1] /\ i + 1 \in 1..m + 1
      /\ 1 \in 1..m + 1
  BY HeadTailProperties, LenProperties, EmptySeq
<1>2. \A i \in 1..m + 1 : i = 1 \/ (i - 1 \in 1..m /\ t[i - 1] = s[i])
  <2>1. \A i \in 1..m + 1 : i = 1 \/ (i - 1 \in 1..m /\ i - 1 + 1 = i)
    BY <1>1
  <2> HIDE DEF t, m
  <2> QED
    BY <1>1, <2>1
<1>3. /\ \A i, j \in 1..m + 1 : i < j /\ Starts(s[i]) => Starts(s[j])
      /\ \A i \in 1..m + 1 : Changing(s[i])
      /\ \A i \in 1..m + 1 : \A d \in Needs(s[i]) : d \in C /\ Met(cl, s, i, d)
  BY <1>1 DEF Ready, Phased
<1> HIDE DEF t, m
<1>4. Phased(t) /\ \A i \in 1..m : Changing(t[i])
  <2>1. \A i, j \in 1..m : i < j => i + 1 < j + 1
    BY <1>1
  <2> QED
    BY <1>1, <1>3, <2>1 DEF Phased, m
<1>5. ASSUME NEW i \in 1..m, NEW d \in Needs(t[i]) PROVE d \in C /\ Met(cl, t, i, d)
  <2>1. d \in C /\ Met(cl, s, i + 1, d) /\ t[i] = s[i + 1] /\ i + 1 \in 1..m + 1
    BY <1>1, <1>3
  <2>2. CASE \E j \in 2..m + 1 :
                j < i + 1 /\ s[j].component = d /\ SameKind(s[j], s[i + 1])
    <3>1. PICK j \in 2..m + 1 :
             j < i + 1 /\ s[j].component = d /\ SameKind(s[j], s[i + 1])
      BY <2>2
    <3>2. j - 1 \in 1..m /\ j - 1 < i /\ t[j - 1] = s[j]
      BY <1>1, <1>2, <3>1
    <3> QED
      BY <2>1, <3>1, <3>2 DEF Met, m
  <2>3. CASE s[1].component = d /\ SameKind(s[1], s[i + 1])
    <3>1. InForce(cl, t[i], d)
      BY <2>1, <2>3 DEF InForce, SameKind
    <3>2. \A j \in 1..m : j <= i => SameKind(t[j], t[i])
      <4> SUFFICES ASSUME NEW j \in 1..m, j <= i
                   PROVE  Starts(s[j + 1]) <=> Starts(s[i + 1])
        BY <1>1, <2>1 DEF SameKind
      <4>1. 1 < j + 1 /\ (j + 1 < i + 1 \/ j = i) /\ j + 1 \in 1..m + 1
        BY <1>1
      <4>2. Starts(s[1]) => Starts(s[j + 1])
        BY <1>1, <1>3, <4>1
      <4>3. Starts(s[j + 1]) => Starts(s[i + 1])
        BY <1>3, <2>1, <4>1
      <4> QED
        BY <2>3, <4>2, <4>3 DEF SameKind
    <3> QED
      BY <2>1, <3>1, <3>2 DEF Met, m
  <2>4. CASE /\ InForce(cl, s[i + 1], d)
             /\ \A j \in 1..m + 1 : j <= i + 1 => SameKind(s[j], s[i + 1])
    <3>1. \A j \in 1..m : j <= i => SameKind(t[j], t[i])
      <4> TAKE j \in 1..m
      <4>1. j + 1 \in 1..m + 1 /\ t[j] = s[j + 1] /\ (j <= i => j + 1 <= i + 1)
        BY <1>1
      <4> QED
        BY <2>1, <2>4, <4>1
    <3> QED
      BY <2>1, <2>4, <3>1 DEF Met, m
  <2>5. \A j \in 1..m + 1 : j = 1 \/ j \in 2..m + 1
    BY <1>1
  <2> QED
    BY <1>1, <2>1, <2>2, <2>3, <2>4, <2>5 DEF Met
<1> QED
  BY <1>4, <1>5 DEF Ready, t, m

\* An adapter or a verified step leaves the component as its kind says.
LEMMA StepInForce ==
    ASSUME TypeInv, NEW step \in Step, Changing(step)
    PROVE  /\ cluster[step.component] = Target(step.operation, step.component) =>
                 InForce(cluster, step, step.component)
           /\ Apply(step) =>
                 /\ InForce(cluster', step, step.component)
                 /\ \A c \in Component : c # step.component => cluster'[c] = cluster[c]
<1>1. step.component \in Component /\ cluster \in [Component -> ClusterState]
  BY DEF Step, TypeInv, TypeOK
<1>2. Target(step.operation, step.component) = "running" <=> Starts(step)
  BY DEF Changing, Starts, Target, StartOperations, StopOperations
<1> QED
  BY <1>1, <1>2 DEF InForce, Apply

\* Initially nothing is planned.
LEMMA DependencyInit == Init => DependencyInv
BY DEF Init, DependencyInv, FreshCall, FreshWorker, Created, Live, Idle

\* What a step leaves alone keeps its part.
LEMMA DependencyUnchanged ==
    ASSUME TypeInv, DependencyInv
    PROVE  /\ \A o \in OpId :
                 (/\ doc'[o] = doc[o] /\ todo'[o] = todo[o] /\ worker'[o] = worker[o]
                  /\ Live(o) => \A c \in doc[o].components : cluster'[c] = cluster[c])
                    => FreshWorker(o)'
           /\ \A t \in Caller :
                 (/\ call'[t] = call[t]
                  /\ \A o \in OpId : call[t].id = o /\ Created(t) =>
                        doc'[o] = doc[o] /\ todo'[o] = todo[o])
                    => FreshCall(t)'
<1> USE DEF DependencyInv
<1>1. ASSUME NEW o \in OpId, doc'[o] = doc[o], todo'[o] = todo[o], worker'[o] = worker[o],
             Live(o) => \A c \in doc[o].components : cluster'[c] = cluster[c]
      PROVE  FreshWorker(o)'
  <2> SUFFICES ASSUME Live(o), worker[o] \notin {"finally", "saving"}
               PROVE  /\ Within(todo[o], doc[o].components)
                      /\ Fresh(doc[o]) =>
                            /\ Ready(cluster', todo[o], doc[o].components)
                            /\ worker[o] = "succeeded-step" =>
                                  InForce(cluster', todo[o][1], todo[o][1].component)
    BY <1>1 DEF FreshWorker, Live
  <2>1. /\ Within(todo[o], doc[o].components)
        /\ Fresh(doc[o]) =>
              /\ Ready(cluster, todo[o], doc[o].components)
              /\ worker[o] = "succeeded-step" =>
                    InForce(cluster, todo[o][1], todo[o][1].component)
    BY DEF FreshWorker
  <2>2. \A c \in doc[o].components : cluster'[c] = cluster[c]
    BY <1>1
  <2>3. worker[o] = "succeeded-step" => todo[o][1].component \in doc[o].components
    <3>1. worker[o] = "succeeded-step" => Len(todo[o]) \in Nat \ {0}
      BY EmptySeq DEF TypeInv, TypeOK, WorkerProgress, InStep
    <3> QED
      BY <2>1, <3>1 DEF Within
  <2> QED
    BY <2>1, <2>2, <2>3, ReadyElsewhere DEF InForce
<1>2. ASSUME NEW t \in Caller, call'[t] = call[t],
             \A o \in OpId : call[t].id = o /\ Created(t) =>
                doc'[o] = doc[o] /\ todo'[o] = todo[o]
      PROVE  FreshCall(t)'
  <2>1. Created(t) => call[t].id \in OpId
    BY DEF TypeInv, KnownId
  <2>2. FreshCall(t) /\ (Created(t)' <=> Created(t))
    BY <1>2 DEF Created
  <2> QED
    BY <1>2, <2>1, <2>2 DEF FreshCall
<1> QED
  BY <1>1, <1>2

\* Only a retry skips steps, and only one that is not of a plain request.
LEMMA DependencyRequestThread ==
    ASSUME TypeInv, DependencyInv, NEW t \in Caller, RequestThread(t)
    PROVE  DependencyInv'
<1> USE DEF TypeInv, TypeOK
<1>1. UNCHANGED <<todo, cluster, orphans>> /\ FreshCall(t)'
  <2>1. ASSUME NEW r \in Requests, NEW s \in Plans(r), Submit(t, r, s)
        PROVE  UNCHANGED <<todo, cluster, orphans>> /\ FreshCall(t)'
    BY <2>1 DEF Submit, Idle, FreshCall, Created
  <2>2. ASSUME NEW o \in OpId, NEW s \in Plans(store[o].request), Retry(t, o, s)
        PROVE  UNCHANGED <<todo, cluster, orphans>> /\ FreshCall(t)'
    <3> DEFINE done == IF store[o].request.flow = "plain" THEN {} ELSE events[o]
               k == [Idle EXCEPT !.at = "prepare", !.request = store[o].request,
                                 !.steps = s, !.retry = TRUE, !.completed = done]
    <3>1. call' = [call EXCEPT ![t] = k] /\ UNCHANGED <<todo, cluster, orphans>>
      BY <2>2 DEF Retry
    <3>2. k.at = "prepare" /\ (Fresh(k) => k.completed = {})
      BY DEF Idle, Fresh
    <3> HIDE DEF k
    <3> QED
      BY <3>1, <3>2 DEF FreshCall, Created
  <2>3. ASSUME NEW o \in OpId, CancelRead(t, o)
        PROVE  UNCHANGED <<todo, cluster, orphans>> /\ FreshCall(t)'
    BY <2>3 DEF CancelRead, Idle, FreshCall, Created
  <2> QED
    BY <2>1, <2>2, <2>3 DEF RequestThread
<1>2. UNCHANGED <<doc, worker>> /\ \A u \in Caller \ {t} : call'[u] = call[u]
  BY RequestThreadFrame
<1> QED
  BY <1>1, <1>2, DependencyUnchanged DEF DependencyInv

\* The steps of a plan work on its components; a sequence of some of its steps
\* works on some of them.
LEMMA WithinPlan ==
    ASSUME NEW s, NEW r, StepSet(r) \subseteq StepSet(s), NEW C, Within(s, C)
    PROVE  Within(r, C)
BY DEF StepSet, Within

\* A plan that is not resumed reaches the worker whole.
LEMMA DependencyHandling ==
    ASSUME NoConfigure, TypeInv, OwnershipInv, EvidenceInv, DependencyInv,
           NEW t \in Caller, Handling(t)
    PROVE  DependencyInv'
<1> USE DEF TypeInv, TypeOK
<1>0. /\ call[t] \in Call /\ call[t].request \in Request /\ call[t].steps \in Seq(Step)
      /\ PlannedCall(t) /\ CreatedEvidence(t) /\ FreshCall(t) /\ orphans = {}
  BY DEF Call, EvidenceInv, DependencyInv
<1>1. /\ \A u \in Caller \ {t} : call'[u] = call[u]
      /\ UNCHANGED <<cluster, orphans>>
  BY HandlingFrame DEF Handling, PrepareLocked, Denied, Create, RecordResumed, ResumedAll,
                       SaveResumed, Spawn, CancelWrite
<1>2. ASSUME UNCHANGED <<doc, todo, worker>>, FreshCall(t)' PROVE DependencyInv'
  BY <1>0, <1>1, <1>2, DependencyUnchanged DEF DependencyInv
<1>3. ASSUME call'[t].at = "idle" PROVE FreshCall(t)'
  BY <1>3 DEF FreshCall, Created
<1>4. CASE PrepareLocked(t)
  <2> DEFINE k == [call[t] EXCEPT !.at = "creating"]
  <2>1. /\ call[t].at = "prepare" /\ UNCHANGED <<doc, todo, worker>>
        /\ call' = [call EXCEPT ![t] = Idle] \/ call' = [call EXCEPT ![t] = k]
    BY <1>4 DEF PrepareLocked
  <2>2. /\ Idle.at = "idle"
        /\ k.at = "creating" /\ k.request = call[t].request /\ k.retry = call[t].retry
        /\ k.completed = call[t].completed
    BY <1>0 DEF Idle, Call
  <2> HIDE DEF k
  <2>3. FreshCall(t)'
    BY <1>0, <2>1, <2>2 DEF FreshCall, Created, Fresh
  <2> QED
    BY <1>2, <2>1, <2>3
<1>5. CASE Denied(t)
  BY <1>2, <1>3, <1>5 DEF Denied, Idle
<1>6. ASSUME NEW o \in OpId, Create(t, o) PROVE DependencyInv'
  <2> DEFINE d == QueuedDocument(call[t])
  <2>1. /\ doc' = [doc EXCEPT ![o] = d] /\ todo' = [todo EXCEPT ![o] = call[t].steps]
        /\ UNCHANGED worker /\ call[t].at = "creating"
        /\ call'[t] = [call[t] EXCEPT !.id = o, !.at = AfterCreate(call[t])]
    BY <1>6 DEF Create
  <2>2. d.retry = call[t].retry /\ d.components = Affected(call[t].steps)
    BY DEF QueuedDocument
  <2>3. /\ call'[t].id = o /\ call'[t].steps = call[t].steps
        /\ call'[t].request = call[t].request /\ call'[t].retry = call[t].retry
        /\ call'[t].completed = call[t].completed
    BY <1>0, <2>1 DEF Call
  <2> HIDE DEF d
  <2>4. ~Live(o) /\ \A u \in Caller : Created(u) => call[u].id # o
    BY <1>6 DEF Create, OwnershipInv, OwnerDocument, ActiveStates, Owned
  <2>5. /\ SafePlan(call[t].steps)
        /\ Within(call[t].steps, Affected(call[t].steps))
    BY <1>0, <2>1, PlansAreSafe DEF PlannedCall, Within, Affected
  <2>6. FreshCall(t)'
    <3>1. Fresh(call'[t]) => call'[t].completed = {}
      BY <1>0, <2>1, <2>3 DEF FreshCall, Fresh
    <3>2. doc'[o] = d /\ todo'[o] = call[t].steps
      BY <2>1
    <3> QED
      BY <2>2, <2>3, <2>5, <3>1, <3>2 DEF FreshCall
  <2>7. FreshWorker(o)'
    BY <2>1, <2>4 DEF FreshWorker, Live
  <2>8. \A p \in OpId \ {o} : doc'[p] = doc[p] /\ todo'[p] = todo[p]
    BY <2>1
  <2> QED
    BY <1>0, <1>1, <2>1, <2>4, <2>6, <2>7, <2>8, DependencyUnchanged DEF DependencyInv
<1>7. ASSUME NEW s \in Step, RecordResumed(t, s) PROVE DependencyInv'
  <2>1. UNCHANGED <<doc, todo, worker, call>>
    BY <1>7 DEF RecordResumed
  <2> QED
    BY <1>0, <1>1, <2>1, DependencyUnchanged DEF DependencyInv
<1>8. CASE ResumedAll(t)
  <2> DEFINE at == IF call[t].request.flow = "lab" THEN "saving-resumed" ELSE "spawning"
             k == [call[t] EXCEPT !.at = at]
  <2>1. UNCHANGED <<doc, todo, worker>> /\ call'[t] = k /\ call[t].at = "resuming"
    BY <1>8 DEF ResumedAll
  <2>2. /\ k.request = call[t].request /\ k.steps = call[t].steps /\ k.id = call[t].id
        /\ k.completed = call[t].completed /\ k.retry = call[t].retry
    BY <1>0 DEF Call
  <2> HIDE DEF k
  <2>3. FreshCall(t)'
    BY <1>0, <2>1, <2>2 DEF FreshCall, Created, Fresh
  <2> QED
    BY <1>2, <2>1, <2>3
<1>9. CASE SaveResumed(t)
  <2> DEFINE at == IF call[t].request.flow = "lab" THEN "spawning" ELSE "resuming"
             k == [call[t] EXCEPT !.at = at]
  <2>1. PICK o \in OpId : o = call[t].id
    BY <1>9 DEF SaveResumed, KnownId, Created
  <2> DEFINE d == ResumedDocument(call[t], doc[o])
  <2>2. /\ call[t].at = "saving-resumed" /\ UNCHANGED worker /\ call'[t] = k
        /\ doc' = [doc EXCEPT ![o] = d]
    BY <1>9, <2>1 DEF SaveResumed
  <2>3. PICK rest \in Remaining(call[t]) : todo' = [todo EXCEPT ![o] = rest]
    BY <1>9, <2>1 DEF SaveResumed
  <2>4. /\ k.request = call[t].request /\ k.steps = call[t].steps /\ k.id = o
        /\ k.completed = call[t].completed /\ k.retry = call[t].retry
    BY <1>0, <2>1 DEF Call
  <2>5. d.retry = doc[o].retry /\ d.components = doc[o].components
    <3>1. doc[o] \in Document
      OBVIOUS
    <3> QED
      BY <3>1 DEF ResumedDocument, Document
  <2> HIDE DEF k, d
  <2>6. /\ Created(t) /\ ~Live(o)
        /\ \A u \in Caller \ {t} : Created(u) => call[u].id # o
    BY <2>1, <2>2 DEF OwnershipInv, OneOwner, Created
  <2>7. /\ call[t].steps \in Plans(call[t].request)
        /\ doc[o].request = call[t].request /\ doc[o].total = Len(call[t].steps)
        /\ doc[o].retry = call[t].retry
        /\ Within(call[t].steps, doc[o].components)
        /\ Fresh(call[t]) => call[t].completed = {}
    BY <1>0, <2>1, <2>6 DEF CreatedEvidence, PlannedCall, FreshCall
  <2>8. Lists(call[t].steps, StepSet(call[t].steps)) /\ SafePlan(call[t].steps)
    BY <1>0, <2>7, PlannedIsAccounted, PlansAreSafe
  <2>9. Fresh(call[t]) => SafePlan(rest)
    BY <1>0, <2>7, <2>8, RemainingSafe
  <2>10. Within(rest, doc[o].components)
    BY <1>0, <2>7, <2>8, RemainingLists, WithinPlan
  <2>11. doc'[o] = d /\ todo'[o] = rest
    BY <2>2, <2>3
  <2>12. FreshCall(t)'
    BY <2>2, <2>4, <2>5, <2>7, <2>9, <2>10, <2>11 DEF FreshCall, Fresh
  <2>13. FreshWorker(o)'
    BY <2>2, <2>6 DEF FreshWorker, Live
  <2>14. \A p \in OpId \ {o} : doc'[p] = doc[p] /\ todo'[p] = todo[p]
    BY <2>2, <2>3
  <2> QED
    BY <1>0, <1>1, <2>2, <2>6, <2>12, <2>13, <2>14, DependencyUnchanged DEF DependencyInv
<1>10. CASE Spawn(t)
  <2>1. PICK o \in OpId : o = call[t].id
    BY <1>10 DEF Spawn, KnownId, Created
  <2>2. /\ worker' = [worker EXCEPT ![o] = "starting"] /\ call'[t].at = "idle"
        /\ Created(t) /\ UNCHANGED <<doc, todo>>
    BY <1>10, <2>1 DEF Spawn, Idle, Created
  <2>3. /\ Within(todo[o], doc[o].components)
        /\ Fresh(doc[o]) => SafePlan(todo[o])
    BY <1>0, <2>1, <2>2 DEF FreshCall, CreatedEvidence, Fresh
  <2>4. FreshWorker(o)'
    BY <2>2, <2>3, SafeIsReady DEF FreshWorker
  <2>5. \A p \in OpId \ {o} : worker'[p] = worker[p]
    BY <2>2
  <2> QED
    BY <1>0, <1>1, <1>3, <2>2, <2>4, <2>5, DependencyUnchanged DEF DependencyInv
<1>11. CASE CancelWrite(t)
  BY <1>2, <1>3, <1>11 DEF CancelWrite, Idle
<1> QED
  BY <1>4, <1>5, <1>6, <1>7, <1>8, <1>9, <1>10, <1>11 DEF Handling

\* A worker changes the lab only by running its step; a terminated script that
\* leaves no child behind has had its effect or not.
LEMMA ClusterFrame ==
    ASSUME ~OrphansPossible, NEW o \in OpId, WorkerThread(o)
    PROVE  /\ UNCHANGED orphans
           /\ UNCHANGED cluster \/ (worker[o] = "executing" /\ Apply(Head(todo[o])))
<1>1. CASE AdapterDone(o) \/ AdapterFailed(o) \/ AdapterCancelled(o) \/ AdapterTimedOut(o)
  BY <1>1 DEF AdapterDone, AdapterFailed, AdapterCancelled, AdapterTimedOut, StepTimedOut,
              Interrupt, MaybeApply, WorkerAt, Abort
<1> QED
  BY <1>1 DEF WorkerThread, RunStart, NextStep, NoMoreSteps, StartAttempt, Boundary, Passed,
              StepCancelled, VerifyPassed, VerifyFailed, VerifyBoundary, StepSucceeded,
              Discard, FinalSave, WorkerExit

\* A worker's steps find what they need in force and leave it in force for the
\* later ones; the workers of other operations do not see them.
LEMMA DependencyWorkerThread ==
    ASSUME ~OrphansPossible, TypeInv, OwnershipInv, ExclusionInv, DependencyInv,
           NEW o \in OpId, WorkerThread(o)
    PROVE  DependencyInv'
<1> USE DEF TypeInv, TypeOK
<1>0. /\ todo[o] \in Seq(Step) /\ doc[o] \in Document /\ FreshWorker(o) /\ orphans = {}
      /\ doc[o].components \subseteq Component
      /\ worker[o] \in InStep => Len(todo[o]) \in Nat \ {0} /\ todo[o] # <<>>
  BY EmptySeq DEF Document, DependencyInv, WorkerProgress
<1>1. /\ UNCHANGED call
      /\ \A p \in OpId \ {o} : doc'[p] = doc[p] /\ worker'[p] = worker[p]
      /\ doc'[o].components = doc[o].components
      /\ Unfinished(o) \/ Ending(o) \/ Forgetting(o) \/ LastSave(o) \/ Exiting(o)
  BY WorkerThreadFrame
<1>2. /\ UNCHANGED orphans
      /\ UNCHANGED cluster \/ (worker[o] = "executing" /\ Apply(Head(todo[o])))
  BY ClusterFrame
<1>3. /\ Carrying(o) \/ Recording(o) \/ Counting(o) \/ Finishing(o) \/ Failing(o)
         \/ Leaving(o)
      /\ \A p \in OpId \ {o} : todo'[p] = todo[p]
  BY EvidenceWorkerFrame
     DEF Carrying, Recording, Counting, Finishing, Failing, Leaving, SamePlan
<1>4. worker[o] \in InStep =>
          /\ 1 \in 1..Len(todo[o])
          /\ todo[o][1] = Head(todo[o]) /\ todo[o][1] \in Step
          /\ todo[o][1].component \in doc[o].components
  <2> SUFFICES ASSUME worker[o] \in InStep
               PROVE  /\ 1 \in 1..Len(todo[o])
                      /\ todo[o][1] = Head(todo[o]) /\ todo[o][1] \in Step
                      /\ todo[o][1].component \in doc[o].components
    OBVIOUS
  <2>1. 1 \in 1..Len(todo[o])
    BY <1>0
  <2>2. todo[o][1] = Head(todo[o]) /\ todo[o][1] \in Step
    BY <1>0, <2>1, HeadTailProperties, ElementOfSeq
  <2>3. Within(todo[o], doc[o].components)
    BY <1>0 DEF FreshWorker, InStep, Live
  <2> QED
    BY <2>1, <2>2, <2>3 DEF Within
<1>5. worker[o] = "executing" /\ Apply(Head(todo[o])) =>
          \A c \in Component : c # todo[o][1].component => cluster'[c] = cluster[c]
  BY <1>4 DEF Apply, InStep, Step
<1>6. ASSUME NEW p \in OpId, p # o, Live(p), NEW c \in doc[p].components
      PROVE  cluster'[c] = cluster[c]
  <2>1. doc[p] \in Document /\ c \in Component
    BY <1>6 DEF Document
  <2>2. CASE UNCHANGED cluster
    BY <2>2
  <2>3. CASE worker[o] = "executing" /\ Apply(Head(todo[o]))
    <3>1. Live(o)
      BY <2>3 DEF Live
    <3>2. doc[o].components \intersect doc[p].components = {}
      BY <1>6, <3>1 DEF OwnershipInv, OwnerDocument, Owned, ExclusionInv, ActiveDisjoint,
                        Active, Disjoint
    <3>3. c # todo[o][1].component
      BY <1>4, <1>6, <2>3, <3>2 DEF InStep
    <3> QED
      BY <1>5, <2>1, <2>3, <3>3
  <2> QED
    BY <1>2, <2>2, <2>3
<1>7. \A p \in OpId \ {o} : FreshWorker(p)'
  BY <1>1, <1>3, <1>6, DependencyUnchanged
<1>8. \A u \in Caller : FreshCall(u)'
  <2>1. ASSUME NEW u \in Caller, Created(u), call[u].id = o
        PROVE  doc'[o] = doc[o] /\ todo'[o] = todo[o]
    <3>1. worker[o] = "exiting"
      BY <1>1, <2>1 DEF OwnershipInv, OneOwner, Live, Unfinished, Ending, Forgetting,
                        LastSave, Exiting, Running, InStep
    <3> QED
      BY <1>1, <1>3, <3>1 DEF Unfinished, Ending, Forgetting, LastSave, Exiting, Running,
                              InStep, Carrying, Recording, Counting, Finishing, Failing, Leaving
  <2> QED
    BY <1>1, <1>3, <2>1, DependencyUnchanged
<1>9. FreshWorker(o)'
  <2>1. CASE Carrying(o)
    <3>1. /\ Within(todo[o], doc[o].components)
          /\ Fresh(doc[o]) => Ready(cluster, todo[o], doc[o].components)
      BY <1>0, <2>1 DEF Carrying, Running, InStep, FreshWorker, Live
    <3>2. Fresh(doc[o]) => Ready(cluster', todo[o], doc[o].components)
      <4>1. CASE UNCHANGED cluster
        BY <3>1, <4>1
      <4>2. CASE worker[o] = "executing" /\ Apply(Head(todo[o])) /\ Fresh(doc[o])
        <5>1. /\ Len(todo[o]) \in Nat \ {0} /\ 1 \in 1..Len(todo[o])
              /\ todo[o][1] \in Step /\ todo[o][1] = Head(todo[o])
          BY <1>0, <1>4, <4>2 DEF InStep
        <5>2. Changing(todo[o][1])
          BY <3>1, <4>2, <5>1 DEF Ready
        <5>3. InForce(cluster', todo[o][1], todo[o][1].component)
          BY <4>2, <5>1, <5>2, StepInForce
        <5>4. \A c \in doc[o].components :
                  c # todo[o][1].component => cluster'[c] = cluster[c]
          BY <1>0, <1>5, <4>2
        <5> QED
          BY <3>1, <4>2, <5>1, <5>3, <5>4, ReadyWhileRunning
      <4> QED
        BY <1>2, <4>1, <4>2
    <3>3. /\ todo'[o] = todo[o] /\ doc'[o].components = doc[o].components
          /\ Fresh(doc[o])' <=> Fresh(doc[o])
          /\ worker'[o] # "succeeded-step"
      BY <1>1, <2>1 DEF Carrying, SamePlan, Fresh
    <3> QED
      BY <3>1, <3>2, <3>3 DEF FreshWorker
  <2>2. CASE Recording(o)
    <3>1. /\ Within(todo[o], doc[o].components)
          /\ Fresh(doc[o]) => Ready(cluster, todo[o], doc[o].components)
          /\ UNCHANGED <<cluster, doc, todo>>
      BY <1>0, <1>2, <2>2 DEF Recording, FreshWorker, Live
    <3>2. ASSUME Fresh(doc[o]) PROVE InForce(cluster, todo[o][1], todo[o][1].component)
      <4>1. /\ 1 \in 1..Len(todo[o])
            /\ todo[o][1] \in Step /\ todo[o][1] = Head(todo[o])
        BY <1>0, <1>4, <2>2 DEF Recording, InStep
      <4>2. Changing(todo[o][1])
        BY <3>1, <3>2, <4>1 DEF Ready
      <4> QED
        BY <2>2, <4>1, <4>2, StepInForce DEF Recording
    <3> QED
      BY <3>1, <3>2 DEF FreshWorker
  <2>3. CASE Counting(o)
    <3>1. /\ Within(todo[o], doc[o].components)
          /\ Fresh(doc[o]) => /\ Ready(cluster, todo[o], doc[o].components)
                              /\ InForce(cluster, todo[o][1], todo[o][1].component)
          /\ UNCHANGED cluster
      BY <1>0, <1>2, <2>3 DEF Counting, FreshWorker, Live
    <3>2. todo[o] # <<>> /\ todo'[o] = Tail(todo[o])
      BY <1>0, <2>3 DEF Counting, InStep
    <3>3. Fresh(doc[o]) => Ready(cluster, Tail(todo[o]), doc[o].components)
      BY <1>0, <3>1, <3>2, ReadyTail
    <3>4. Within(Tail(todo[o]), doc[o].components)
      <4>1. /\ Len(Tail(todo[o])) = Len(todo[o]) - 1 /\ Len(todo[o]) \in Nat
            /\ \A i \in 1..Len(Tail(todo[o])) : Tail(todo[o])[i] = todo[o][i + 1]
        BY <1>0, <3>2, HeadTailProperties, LenProperties
      <4>2. \A i \in 1..Len(Tail(todo[o])) : i + 1 \in 1..Len(todo[o])
        BY <4>1
      <4> QED
        BY <3>1, <4>1, <4>2 DEF Within
    <3>5. /\ doc'[o].components = doc[o].components
          /\ Fresh(doc[o])' <=> Fresh(doc[o])
          /\ worker'[o] = "next"
      BY <1>1, <2>3 DEF Counting, Fresh
    <3> QED
      BY <3>1, <3>2, <3>3, <3>4, <3>5 DEF FreshWorker
  <2>4. CASE Finishing(o) \/ Failing(o) \/ Leaving(o)
    BY <2>4 DEF Finishing, Failing, Leaving, FreshWorker, Live
  <2> QED
    BY <1>3, <2>1, <2>2, <2>3, <2>4
<1> QED
  BY <1>0, <1>2, <1>7, <1>8, <1>9 DEF DependencyInv

\* A crash takes every plan; no orphan is left to change the lab behind it.
LEMMA DependencyEnvironment ==
    ASSUME TypeInv, DependencyInv,
           Crash \/ Reopen \/ \E s \in orphans : OrphanApplies(s)
    PROVE  DependencyInv'
<1>1. Crash \/ Reopen
  BY DEF DependencyInv
<1>2. CASE Crash
  BY <1>2 DEF Crash, Idle, DependencyInv, FreshCall, FreshWorker, Created, Live
<1>3. CASE Reopen
  <2>1. UNCHANGED <<cluster, orphans, doc, todo, worker, call>>
    BY <1>3 DEF Reopen, OpenStore, SetInterruptedRecovery, Serve, volatile
  <2> QED
    BY <2>1, DependencyUnchanged DEF DependencyInv
<1> QED
  BY <1>1, <1>2, <1>3

\* Every step keeps what the plans need in force.
LEMMA DependencyStep ==
    ASSUME ~OrphansPossible, NoConfigure
    PROVE  IInv /\ DependencyInv /\ [Next]_vars => DependencyInv'
<1>1. TypeInv /\ DependencyInv /\ UNCHANGED vars => DependencyInv'
  BY DependencyUnchanged DEF DependencyInv, vars
<1> QED
  BY <1>1, DependencyRequestThread, DependencyHandling, DependencyWorkerThread,
     DependencyEnvironment DEF Next, IInv

------------------------------------------------------------------------------
(* Theorems                                                                *)

\* The inductive invariant: every group of facts holds in every reachable state.
THEOREM Invariance == Spec => []IInv
<1>1. Init => IInv
  BY TypeInit, OwnershipInit, ExclusionInit, RecoveryInit, EvidenceInit DEF IInv
<1>2. IInv /\ [Next]_vars => IInv'
  BY TypeStep, OwnershipStep, ExclusionStep, RecoveryStep, EvidenceStep DEF IInv
<1> QED
  BY <1>1, <1>2, PTL DEF Spec

\* OperationStore rows, worker documents, request records and the cluster keep
\* their types in every step of the engine.
THEOREM TypeCorrectness == Spec => []TypeOK
<1>1. IInv => TypeOK
  BY DEF IInv, TypeInv
<1> QED
  BY <1>1, Invariance, PTL

\* OperationEngine never runs two operations on one component at the same time:
\* the conflict check and the lock of _prepare_steps suffice, whatever workers
\* save and cancel writes back, and across crashes.
THEOREM Exclusion == Spec => []ExecutionExclusion
<1>1. IInv => ExecutionExclusion
  <2> SUFFICES ASSUME IInv, NEW o \in OpId, NEW p \in OpId, o # p, Live(o), Live(p)
               PROVE  doc[o].components \intersect doc[p].components = {}
    BY DEF ExecutionExclusion
  <2>1. \A q \in OpId : Live(q) =>
            Active(q) /\ store[q].components = doc[q].components
    BY DEF IInv, OwnershipInv, OwnerDocument, Owned, Active
  <2> QED
    BY <2>1 DEF IInv, ExclusionInv, ActiveDisjoint, Disjoint
<1> QED
  BY <1>1, Invariance, PTL

\* Whenever the manager serves requests, exactly the terminal operations that did
\* not succeed ask for recovery, however often it crashed, also while reopening.
THEOREM RecoveryIsReported == Spec => []RecoveryReported
<1>1. IInv => RecoveryReported
  BY DEF IInv, RecoveryInv, RowReported, RecoveryReported, Reported
<1> QED
  BY <1>1, Invariance, PTL

\* An operation recorded as succeeded has verified, or resumed on the evidence of
\* an earlier verification, every step of every plan that its request may have
\* got, and has counted each of them once, for any registry, whatever crashes,
\* retries and cancellations came between.
THEOREM SuccessIsVerified == Spec => []SucceededIsVerified
<1>1. IInv => SucceededIsVerified
  BY DEF IInv, EvidenceInv, RowEvidence, Verified, Accounted, SucceededIsVerified
<1> QED
  BY <1>1, Invariance, PTL

\* Where no component declares configure and a terminated script leaves no child at
\* work, no operation that runs its whole plan ever changes a component on top of
\* a dependency that is not running, or stops one under a running consumer:
\* the order of the plan, the conflict check and the verification of each step
\* suffice, for every registry and any number of concurrent operations.
THEOREM DependenciesRespected ==
    ASSUME ~OrphansPossible, NoConfigure
    PROVE  Spec => []FreshStepsRespectDependencies
<1>1. Init => DependencyInv
  BY DependencyInit
<1>2. IInv /\ DependencyInv /\ [Next]_vars => DependencyInv'
  BY DependencyStep
<1>3. IInv /\ DependencyInv => FreshStepsRespectDependencies
  <2> SUFFICES ASSUME IInv, DependencyInv, NEW o \in OpId, worker[o] = "executing",
                      Fresh(doc[o])
               PROVE  DependenciesHold(Head(todo[o]))
    BY DEF FreshStepsRespectDependencies, Fresh
  <2>1. Ready(cluster, todo[o], doc[o].components)
    BY DEF DependencyInv, FreshWorker, Live
  <2>2. /\ todo[o] \in Seq(Step) /\ Len(todo[o]) \in Nat \ {0}
        /\ Head(todo[o]) = todo[o][1]
    <3>1. todo[o] \in Seq(Step) /\ todo[o] # <<>>
      BY DEF IInv, TypeInv, TypeOK, WorkerProgress, InStep
    <3> QED
      BY <3>1, EmptySeq, HeadTailProperties
  <2>3. \A d \in Needs(todo[o][1]) : InForce(cluster, todo[o][1], d)
    <3>1. 1 \in 1..Len(todo[o]) /\ \A j \in 1..Len(todo[o]) : ~(j < 1)
      BY <2>2
    <3> QED
      BY <2>1, <3>1 DEF Ready, Met
  <2> QED
    BY <2>2, <2>3 DEF DependenciesHold, Needs, InForce, Starts, StartOperations,
                      StopOperations
<1> QED
  BY <1>1, <1>2, <1>3, Invariance, PTL DEF Spec
==============================================================================
