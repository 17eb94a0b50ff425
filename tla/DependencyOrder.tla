--------------------------- MODULE DependencyOrder ---------------------------
(***************************************************************************)
(* ComponentRegistry.dependency_order (manager/component_registry.py):     *)
(* dependencies before consumers, cycles and gaps rejected.                *)
(*                                                                         *)
(* The registry is any document: registry_validation calls this method to  *)
(* find out whether there is a cycle.  Python sets are iterated in an      *)
(* order that depends on the hash seed, so every loop over a set picks its *)
(* next element freely; only `ready' starts in the order of the document.  *)
(***************************************************************************)
EXTENDS Naturals, Sequences, FiniteSets

CONSTANTS Id,        \* component ids, registered or not
          Documents  \* the component lists that may be loaded

Listed(s) == {s[i] : i \in 1..Len(s)}
NoRepeat(s) == \A i, j \in 1..Len(s) : i # j => s[i] # s[j]

\* A document lists each id once, and the dependencies of each.
IsDocument(d) ==
    /\ d.ids \in Seq(Id)
    /\ NoRepeat(d.ids)
    /\ d.dependencies \in [Listed(d.ids) -> SUBSET Id]

ASSUME OrderAssumption ==
    /\ IsFiniteSet(Id)
    /\ \A d \in Documents : IsDocument(d)

VARIABLES
    document, \* the registry document
    requested, \* the ids asked for
    include,  \* ids that the `include' recursion still has to visit
    closure,  \* the requested components and all they depend on
    indegree, \* dependencies not yet ordered, per component of the closure
    ready,    \* queue of components whose dependencies are all ordered
    waiting,  \* consumers of the last popped component, not yet decremented
    ordered,  \* the result
    phase     \* where the method stands, or how it ended

vars == <<document, requested, include, closure, indegree, ready, waiting, ordered, phase>>

Registered == Listed(document.ids)
DependenciesOf(c) == document.dependencies[c]
Consumers(c) == {d \in closure : c \in DependenciesOf(d)}

Ended == {"ordered", "cycle", "gap"}

TypeOK ==
    /\ document \in Documents
    /\ requested \subseteq Id
    /\ include \subseteq Id
    /\ closure \subseteq Registered
    /\ indegree \in [closure -> Nat] \/ phase \in {"include", "gap"}
    /\ ready \in Seq(closure)
    /\ waiting \subseteq closure
    /\ ordered \in Seq(closure)
    /\ phase \in {"include", "sort"} \union Ended

\* Mutation: the selection is ignored when the components are visited.
InitWhole ==
    /\ document \in Documents
    /\ \E selected \in SUBSET Id :
          requested = IF selected = {} THEN Registered ELSE selected
    /\ include = Registered
    /\ closure = {}
    /\ indegree = <<>>
    /\ ready = <<>>
    /\ waiting = {}
    /\ ordered = <<>>
    /\ phase = "include"

\* An empty or missing selection stands for the whole registry.
Init ==
    /\ document \in Documents
    /\ \E selected \in SUBSET Id :
          requested = IF selected = {} THEN Registered ELSE selected
    /\ include = requested
    /\ closure = {}
    /\ indegree = <<>>
    /\ ready = <<>>
    /\ waiting = {}
    /\ ordered = <<>>
    /\ phase = "include"

------------------------------------------------------------------------------
\* One call of include: an unknown id raises RegistryError, a known one that
\* is already in the closure returns.
Include(c) ==
    /\ phase = "include" /\ c \in include
    /\ IF c \in Registered
         THEN /\ closure' = closure \union {c}
              /\ include' = (include \union DependenciesOf(c)) \ closure'
              /\ UNCHANGED phase
         ELSE phase' = "gap" /\ UNCHANGED <<closure, include>>
    /\ UNCHANGED <<document, requested, indegree, ready, waiting, ordered>>

Free == {c \in closure : DependenciesOf(c) = {}}

\* The components of S in the order of the document.
DocumentOrders(S) ==
    {s \in [1..Cardinality(S) -> S] :
        /\ Listed(s) = S
        /\ \A i, j \in 1..Len(document.ids), m, n \in 1..Cardinality(S) :
              (m < n /\ document.ids[i] = s[m] /\ document.ids[j] = s[n]) => i < j}

\* indegree and consumers are built, and the free components queued.
StartSort ==
    /\ phase = "include" /\ include = {}
    /\ phase' = "sort"
    /\ indegree' = [c \in closure |-> Cardinality(DependenciesOf(c))]
    /\ ready' \in DocumentOrders(Free)
    /\ UNCHANGED <<document, requested, include, closure, waiting, ordered>>

Pop ==
    /\ phase = "sort" /\ waiting = {} /\ ready # <<>>
    /\ ordered' = Append(ordered, Head(ready))
    /\ ready' = Tail(ready)
    /\ waiting' = Consumers(Head(ready))
    /\ UNCHANGED <<document, requested, include, closure, indegree, phase>>

\* Mutation: a consumer is queued as soon as one dependency is ordered.
ReleaseEarly(c) ==
    /\ phase = "sort" /\ c \in waiting
    /\ waiting' = waiting \ {c}
    /\ indegree' = [indegree EXCEPT ![c] = 0]
    /\ ready' = IF indegree[c] > 0 THEN Append(ready, c) ELSE ready
    /\ UNCHANGED <<document, requested, include, closure, ordered, phase>>

\* The inner loop: the next consumer of the component popped last.
Release(c) ==
    /\ phase = "sort" /\ c \in waiting
    /\ waiting' = waiting \ {c}
    /\ indegree' = [indegree EXCEPT ![c] = @ - 1]
    /\ ready' = IF indegree[c] = 1 THEN Append(ready, c) ELSE ready
    /\ UNCHANGED <<document, requested, include, closure, ordered, phase>>

\* Mutation: the result is returned without comparing its length.
FinishUnchecked ==
    /\ phase = "sort" /\ waiting = {} /\ ready = <<>>
    /\ phase' = "ordered"
    /\ UNCHANGED <<document, requested, include, closure, indegree, ready, waiting, ordered>>

\* The queue is empty: a component that was not reached is on a cycle, or
\* depends on one.
Finish ==
    /\ phase = "sort" /\ waiting = {} /\ ready = <<>>
    /\ phase' = IF Len(ordered) = Cardinality(closure) THEN "ordered" ELSE "cycle"
    /\ UNCHANGED <<document, requested, include, closure, indegree, ready, waiting, ordered>>

Next ==
    \/ \E c \in include : Include(c)
    \/ StartSort
    \/ Pop
    \/ \E c \in waiting : Release(c)
    \/ Finish

Spec == Init /\ [][Next]_vars

------------------------------------------------------------------------------
(* Properties                                                              *)

\* Every component of the result comes once, after all that it depends on, at
\* every moment of the sort and whatever the iteration order of the sets.
\* Operations are planned in this order.
DependenciesFirst ==
    \A i \in 1..Len(ordered) :
        /\ \A d \in DependenciesOf(ordered[i]) : \E j \in 1..(i - 1) : ordered[j] = d
        /\ \A j \in 1..(i - 1) : ordered[j] # ordered[i]

Cyclic(S) == S # {} /\ \A c \in S : DependenciesOf(c) \intersect S # {}

\* The result lists the whole closure, and it is refused exactly for a cycle
\* among the components concerned: the validation of a registry relies on it
\* in both directions.
CycleExact ==
    /\ phase = "ordered" => Listed(ordered) = closure
    /\ phase = "ordered" => \A S \in SUBSET closure : ~Cyclic(S)
    /\ phase = "cycle" => \E S \in SUBSET closure : Cyclic(S)

\* The planning rules over the registry that was loaded.
Plan == INSTANCE LifecyclePlan WITH
    Component <- Registered,
    Dependencies <- document.dependencies,
    Capabilities <- [x \in Registered |-> {}]

\* The orders that module LifecyclePlan plans with are those the method may
\* return: a result is an order of the least dependency-closed set that holds
\* the request.
ResultIsPlanned ==
    phase = "ordered" => ordered \in Plan!DependencyOrders(Plan!Closure(requested))
==============================================================================
