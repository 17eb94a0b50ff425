---------------------------- MODULE LifecyclePlan ----------------------------
(***************************************************************************)
(* The lifecycle plans that manager/operation_engine.py builds from the    *)
(* component registry: which components an operation affects and in which  *)
(* orders its steps may run.                                               *)
(*                                                                         *)
(* ComponentRegistry.dependency_order iterates over Python sets of         *)
(* strings, so the order of unrelated components changes with the hash     *)
(* seed.  A plan is therefore a SET of step sequences, every one of which  *)
(* respects the dependencies; module DependencyOrder models the algorithm  *)
(* itself and shows that it only produces such orders.                     *)
(***************************************************************************)
EXTENDS Naturals, Sequences, FiniteSets

CONSTANTS Component,   \* registry component ids
          Dependencies, \* the registry's "dependencies" list of each component
          Capabilities  \* the operations that each component declares

StartOperations == {"install", "configure", "start", "upgrade"}
StopOperations  == {"stop", "uninstall", "delete-data"}
Operation == StartOperations \union StopOperations \union {"restart"}

\* A plain request, a lab action (deploy, start, suspend) or the clean install.
\* LAB_ACTIONS maps a lab action to the operation recorded here.
Flow == {"plain", "lab", "clean-install"}
Request == [flow : Flow, operation : Operation, targets : SUBSET Component]

Step == [component : Component, operation : Operation]

\* The registry is validated when it is loaded: dependencies are registered
\* components and there is no cycle.
ASSUME RegistryAssumption ==
    /\ IsFiniteSet(Component)
    /\ Dependencies \in [Component -> SUBSET Component]
    /\ Capabilities \in [Component -> SUBSET Operation]

------------------------------------------------------------------------------
DependencyClosed(S) == \A c \in S : Dependencies[c] \subseteq S

\* The `include' recursion: the least dependency-closed set above S.
Closure(S) ==
    {c \in Component :
        \A T \in SUBSET Component : (S \subseteq T /\ DependencyClosed(T)) => c \in T}

TransitiveDependencies(c) == Closure({c}) \ {c}

Consumers(c) == {d \in Component : c \in TransitiveDependencies(d)}

\* Every sequence that lists S once, dependencies before their consumers.
DependencyOrders(S) ==
    {s \in [1..Cardinality(S) -> S] :
        \A i, j \in 1..Cardinality(S) :
            i < j => /\ s[i] # s[j]
                     /\ s[j] \notin TransitiveDependencies(s[i])}

Reversed(s) == [i \in 1..Len(s) |-> s[Len(s) - i + 1]]

StepsFor(operation, order) ==
    [i \in 1..Len(order) |-> [component |-> order[i], operation |-> operation]]

\* _ordered_steps(include_dependencies=True)
StartPlans(operation, S) ==
    {StepsFor(operation, s) : s \in DependencyOrders(Closure(S))}

\* A stop-like operation is refused while a component outside S depends on S.
MissingConsumers(S) ==
    {c \in Component \ S : S \intersect TransitiveDependencies(c) # {}}

\* _ordered_steps(include_dependencies=False), once nothing is missing.
StopPlans(operation, S) ==
    {StepsFor(operation, Reversed(s)) : s \in DependencyOrders(S)}

\* Mutation: the consumers go on running.
SuspendScopeAlone(S) == S

\* Suspending one component also suspends everything that depends on it.
SuspendScope(S) == S \union UNION {Consumers(c) : c \in S}

RestartPlans(S) ==
    {s \o t : s \in StopPlans("stop", S), t \in StartPlans("start", S)}

\* _plan and _lab_steps, before _step looks up the capabilities.
OrderedPlans(request) ==
    LET operation == request.operation
        S == request.targets
    IN  IF request.flow = "lab" /\ operation = "stop"
          THEN StopPlans("stop", SuspendScope(S))
        ELSE IF operation \in StartOperations
          THEN StartPlans(operation, S)
        ELSE IF MissingConsumers(S) # {}
          THEN {}
        ELSE IF operation = "restart"
          THEN RestartPlans(S)
        ELSE StopPlans(operation, S)

\* _step refuses a plan in which a component does not declare its operation.
\* The empty set means that the request is refused.
Plans(request) ==
    {s \in OrderedPlans(request) :
        \A i \in 1..Len(s) : s[i].operation \in Capabilities[s[i].component]}

\* `affected' in _prepare_steps.
Affected(steps) == {steps[i].component : i \in 1..Len(steps)}
StepSet(steps) == {steps[i] : i \in 1..Len(steps)}
==============================================================================
