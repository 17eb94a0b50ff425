------------------------ MODULE DependencyOrderProofs ------------------------
(***************************************************************************)
(* For every set of registry documents: the result of dependency_order     *)
(* lists every component after its dependencies, lists the whole closure,  *)
(* and a closure is refused exactly if it has a cycle.                     *)
(*                                                                         *)
(* The inductive invariant says what the counters mean while the consumers *)
(* of the last popped component are being released: indegree[c] counts the *)
(* dependencies of c that are not ordered yet, and the last one if c still *)
(* waits for its release.                                                  *)
(***************************************************************************)
EXTENDS DependencyOrder, FiniteSetTheorems, SequenceTheorems,
        WellFoundedInduction, TLAPS

------------------------------------------------------------------------------
(* Sequences without repetition                                            *)

LEMMA ListedAppend ==
    ASSUME NEW S, NEW s \in Seq(S), NEW e \in S
    PROVE  /\ Append(s, e) \in Seq(S)
           /\ Listed(Append(s, e)) = Listed(s) \union {e}
           /\ NoRepeat(s) /\ e \notin Listed(s) => NoRepeat(Append(s, e))
BY AppendProperties DEF Listed, NoRepeat

LEMMA ListedTail ==
    ASSUME NEW S, NEW s \in Seq(S), s # <<>>
    PROVE  /\ Head(s) \in S /\ Head(s) \in Listed(s)
           /\ Tail(s) \in Seq(S)
           /\ Listed(Tail(s)) \subseteq Listed(s)
           /\ Listed(s) = {Head(s)} \union Listed(Tail(s))
           /\ NoRepeat(s) => NoRepeat(Tail(s)) /\ Head(s) \notin Listed(Tail(s))
<1>1. /\ Head(s) \in S /\ Tail(s) \in Seq(S)
      /\ Len(s) \in Nat /\ Len(s) >= 1 /\ Len(Tail(s)) = Len(s) - 1
      /\ Head(s) = s[1]
      /\ \A i \in 1..Len(Tail(s)) : Tail(s)[i] = s[i + 1]
  BY HeadTailProperties, LenProperties, EmptySeq
<1>2. Listed(Tail(s)) \subseteq Listed(s) /\ Head(s) \in Listed(s)
  BY <1>1 DEF Listed
<1>3. ASSUME NEW x \in Listed(s), x # Head(s)
      PROVE  x \in Listed(Tail(s))
  <2>1. PICK i \in 1..Len(s) : x = s[i]
    BY DEF Listed
  <2>2. i # 1 /\ i - 1 \in 1..Len(Tail(s))
    BY <1>1, <1>3, <2>1
  <2>3. Tail(s)[i - 1] = s[i]
    BY <1>1, <2>2
  <2> QED BY <2>1, <2>2, <2>3 DEF Listed
<1>4. NoRepeat(s) => NoRepeat(Tail(s)) /\ Head(s) \notin Listed(Tail(s))
  BY <1>1 DEF Listed, NoRepeat
<1> QED BY <1>1, <1>2, <1>3, <1>4

LEMMA ListedIn ==
    ASSUME NEW S, NEW s \in Seq(S)
    PROVE  Listed(s) \subseteq S
BY LenProperties DEF Listed

LEMMA ListedCardinality ==
    ASSUME NEW S, NEW s \in Seq(S), NoRepeat(s)
    PROVE  IsFiniteSet(Listed(s)) /\ Cardinality(Listed(s)) = Len(s)
<1>1. Len(s) \in Nat /\ s \in [1..Len(s) -> S]
  BY LenProperties
<1>2. IsFiniteSet(1..Len(s)) /\ Cardinality(1..Len(s)) = Len(s)
  BY <1>1, FS_Interval
<1>3. s \in Bijection(1..Len(s), Listed(s))
  BY <1>1 DEF Bijection, Injection, Surjection, IsInjective, Listed, NoRepeat
<1> QED BY <1>2, <1>3, FS_Bijection DEF ExistsBijection

------------------------------------------------------------------------------
(* The invariant                                                           *)

Sorting == phase \in {"sort", "ordered", "cycle"}

\* The dependencies of c that indegree[c] still counts.
Pending(c) ==
    {d \in DependenciesOf(c) :
        d \notin Listed(ordered) \/ (c \in waiting /\ d = ordered[Len(ordered)])}

NothingSorted == ready = <<>> /\ ordered = <<>> /\ waiting = {}

\* Only components that are still to be visited are missing from the closure.
ClosureOK ==
    /\ \A c \in closure : DependenciesOf(c) \subseteq closure \union include
    /\ Sorting => include = {}

\* A component is queued or ordered exactly when nothing is pending.
QueueOK ==
    /\ NoRepeat(ready) /\ NoRepeat(ordered)
    /\ Listed(ready) \intersect Listed(ordered) = {}
    /\ \A c \in closure :
          Pending(c) = {} <=> c \in Listed(ready) \union Listed(ordered)

CountsOK ==
    /\ \A c \in closure : indegree[c] = Cardinality(Pending(c))
    /\ \A c \in waiting :
          /\ Len(ordered) > 0
          /\ ordered[Len(ordered)] \in DependenciesOf(c)

EndedOK ==
    /\ phase \in {"ordered", "cycle"} => waiting = {} /\ ready = <<>>
    /\ phase = "ordered" => Len(ordered) = Cardinality(closure)
    /\ phase = "cycle" => Len(ordered) # Cardinality(closure)

IInv ==
    /\ TypeOK
    /\ ClosureOK
    /\ DependenciesFirst
    /\ ~Sorting => NothingSorted
    /\ Sorting => QueueOK /\ CountsOK
    /\ EndedOK

LEMMA DocumentType ==
    ASSUME TypeOK
    PROVE  /\ Registered \subseteq Id
           /\ \A c \in Registered : DependenciesOf(c) \subseteq Id
           /\ IsFiniteSet(closure)
           /\ \A c \in Registered : IsFiniteSet(DependenciesOf(c))
<1>1. IsDocument(document)
  BY OrderAssumption DEF TypeOK
<1>2. Registered \subseteq Id
  BY <1>1, ListedIn DEF IsDocument, Registered
<1>3. \A c \in Registered : DependenciesOf(c) \subseteq Id
  BY <1>1 DEF IsDocument, Registered, DependenciesOf
<1> QED BY <1>2, <1>3, FS_Subset, OrderAssumption DEF TypeOK

LEMMA InitInvariant == Init => IInv
<1> SUFFICES ASSUME Init PROVE IInv
  OBVIOUS
<1>1. IsDocument(document)
  BY OrderAssumption DEF Init
<1>2. requested \subseteq Id
  BY <1>1, ListedIn DEF Init, Registered, IsDocument
<1> QED BY <1>1, <1>2 DEF Init, IInv, TypeOK, Ended, ClosureOK, DependenciesFirst,
      Sorting, NothingSorted, EndedOK

LEMMA OrderFrame ==
    ASSUME DependenciesFirst, UNCHANGED <<document, ordered>>
    PROVE  DependenciesFirst'
BY DEF DependenciesFirst, DependenciesOf

LEMMA IncludeInvariant ==
    ASSUME IInv, NEW c \in include, Include(c)
    PROVE  IInv'
<1>1. /\ phase = "include" /\ ~Sorting /\ NothingSorted
      /\ phase' \in {"include", "gap"} /\ ~Sorting' /\ NothingSorted'
  BY DEF IInv, Include, Sorting, NothingSorted
<1>2. /\ closure' \subseteq closure \union {c}
      /\ closure' \subseteq Registered
      /\ include' \subseteq Id
      /\ UNCHANGED <<document, requested>>
  BY DocumentType DEF IInv, TypeOK, Include
<1>3. TypeOK'
  <2>1. Registered' = Registered
    BY <1>2 DEF Registered
  <2>2. <<>> \in Seq(closure')
    BY EmptySeq
  <2> QED BY <1>1, <1>2, <2>1, <2>2 DEF IInv, TypeOK, NothingSorted, Ended
<1>4. ClosureOK'
  <2>1. \A d \in closure' : DependenciesOf(d)' \subseteq closure' \union include'
    BY DEF IInv, ClosureOK, Include, DependenciesOf
  <2> QED BY <1>1, <2>1 DEF ClosureOK
<1>5. DependenciesFirst'
  BY <1>1 DEF DependenciesFirst, NothingSorted
<1>6. EndedOK'
  BY <1>1 DEF EndedOK
<1> QED BY <1>1, <1>3, <1>4, <1>5, <1>6 DEF IInv

LEMMA StartSortInvariant ==
    ASSUME IInv, StartSort
    PROVE  IInv'
<1>1. /\ phase = "include" /\ NothingSorted /\ include = {}
      /\ phase' = "sort" /\ Sorting'
      /\ ordered' = <<>> /\ waiting' = {}
      /\ UNCHANGED <<document, requested, include, closure>>
      /\ indegree' = [c \in closure |-> Cardinality(DependenciesOf(c))]
      /\ ready' \in DocumentOrders(Free)
  BY DEF IInv, StartSort, Sorting, NothingSorted
<1>2. \A c \in closure : DependenciesOf(c)' = DependenciesOf(c) /\ IsFiniteSet(DependenciesOf(c))
  BY <1>1, DocumentType DEF IInv, TypeOK, DependenciesOf
<1>3. \A c \in closure : Cardinality(DependenciesOf(c)) \in Nat
  BY <1>2, FS_CardinalityType
<1>4. Free \subseteq closure /\ IsFiniteSet(Free) /\ Cardinality(Free) \in Nat
  BY DocumentType, FS_Subset, FS_CardinalityType DEF IInv, Free
<1>5. /\ ready' \in Seq(closure) /\ Listed(ready') = Free /\ NoRepeat(ready')
  <2>1. /\ ready' \in [1..Cardinality(Free) -> Free]
        /\ Listed(ready') = Free
    BY <1>1 DEF DocumentOrders
  <2>2. ready' \in Seq(Free) /\ Len(ready') = Cardinality(Free)
    BY <1>4, <2>1, IsASeq, LenProperties
  <2>3. ready' \in Surjection(1..Cardinality(Free), Free)
    BY <2>1, <2>2 DEF Surjection, Listed
  <2>4. IsFiniteSet(1..Cardinality(Free)) /\ Cardinality(1..Cardinality(Free)) = Cardinality(Free)
    BY <1>4, FS_Interval
  <2>5. ready' \in Injection(1..Cardinality(Free), Free)
    BY <2>3, <2>4, FS_SurjSameCardinalityImpliesInj
  <2>6. NoRepeat(ready')
    BY <2>2, <2>5 DEF Injection, IsInjective, NoRepeat
  <2> QED BY <1>4, <2>1, <2>2, <2>6, SeqMonotonic
<1>6. Listed(<<>>) = {} /\ NoRepeat(<<>>) /\ <<>> \in Seq(closure)
  BY DEF Listed, NoRepeat
<1>7. \A c \in closure : Pending(c)' = DependenciesOf(c)
  BY <1>1, <1>2, <1>6 DEF Pending
<1>8. TypeOK'
  <2>1. Registered' = Registered
    BY <1>1 DEF Registered
  <2> QED BY <1>1, <1>3, <1>5, <1>6, <2>1 DEF IInv, TypeOK
<1>9. ClosureOK'
  BY <1>1, <1>2 DEF IInv, ClosureOK
<1>10. DependenciesFirst'
  BY <1>1 DEF DependenciesFirst
<1>11. QueueOK'
  BY <1>1, <1>5, <1>6, <1>7 DEF QueueOK, Free
<1>12. CountsOK'
  BY <1>1, <1>7 DEF CountsOK
<1>13. EndedOK'
  BY <1>1 DEF EndedOK
<1> QED BY <1>1, <1>8, <1>9, <1>10, <1>11, <1>12, <1>13 DEF IInv

LEMMA PopInvariant ==
    ASSUME IInv, Pop
    PROVE  IInv'
<1> DEFINE p == Head(ready)
<1>1. /\ phase = "sort" /\ Sorting /\ Sorting' /\ phase' = "sort"
      /\ waiting = {} /\ ready # <<>>
      /\ ordered' = Append(ordered, p) /\ ready' = Tail(ready)
      /\ waiting' = Consumers(p)
      /\ UNCHANGED <<document, requested, include, closure, indegree>>
  BY DEF Pop, Sorting
<1>2. TypeOK /\ QueueOK /\ CountsOK /\ ClosureOK /\ DependenciesFirst
  BY <1>1 DEF IInv
<1>3. /\ p \in closure /\ p \in Listed(ready)
      /\ ready' \in Seq(closure) /\ NoRepeat(ready')
      /\ Listed(ready) = {p} \union Listed(ready') /\ p \notin Listed(ready')
  BY <1>1, <1>2, ListedTail DEF TypeOK, QueueOK
<1>4. p \notin Listed(ordered)
  BY <1>2, <1>3 DEF QueueOK
<1>5. /\ ordered' \in Seq(closure) /\ NoRepeat(ordered')
      /\ Listed(ordered') = Listed(ordered) \union {p}
  BY <1>1, <1>2, <1>3, <1>4, ListedAppend DEF TypeOK, QueueOK
<1>6. /\ Len(ordered) \in Nat /\ Len(ordered') = Len(ordered) + 1
      /\ ordered'[Len(ordered')] = p
      /\ \A i \in 1..Len(ordered) : ordered'[i] = ordered[i]
  BY <1>1, <1>2, <1>3, AppendProperties, LenProperties DEF TypeOK
<1>7. \A c \in closure : DependenciesOf(c)' = DependenciesOf(c)
  BY <1>1 DEF DependenciesOf
<1>8. \A c \in closure : Pending(c)' = Pending(c)
  <2> SUFFICES ASSUME NEW c \in closure PROVE Pending(c)' = Pending(c)
    OBVIOUS
  <2>1. Pending(c) = DependenciesOf(c) \ Listed(ordered)
    BY <1>1 DEF Pending
  <2>2. Pending(c)' = {d \in DependenciesOf(c) : d \notin Listed(ordered') \/ (c \in waiting' /\ d = p)}
    BY <1>6, <1>7 DEF Pending
  <2>3. p \in DependenciesOf(c) => c \in waiting'
    BY <1>1 DEF Consumers
  <2> QED BY <1>4, <1>5, <2>1, <2>2, <2>3
<1>9. Pending(p) = {} /\ DependenciesOf(p) \subseteq Listed(ordered)
  BY <1>1, <1>2, <1>3 DEF QueueOK, Pending
<1>10. TypeOK'
  <2>1. Registered' = Registered
    BY <1>1 DEF Registered
  <2>2. waiting' \subseteq closure
    BY <1>1 DEF Consumers
  <2> QED BY <1>1, <1>2, <1>3, <1>5, <2>1, <2>2 DEF TypeOK
<1>11. ClosureOK'
  BY <1>1, <1>2, <1>7 DEF ClosureOK
<1>12. DependenciesFirst'
  <2> SUFFICES ASSUME NEW i \in 1..Len(ordered')
               PROVE  /\ \A d \in DependenciesOf(ordered[i])' : \E j \in 1..(i - 1) : ordered'[j] = d
                      /\ \A j \in 1..(i - 1) : ordered'[j] # ordered'[i]
    BY DEF DependenciesFirst
  <2>1. CASE i \in 1..Len(ordered)
    <3>1. ordered'[i] = ordered[i] /\ \A j \in 1..(i - 1) : ordered'[j] = ordered[j]
      BY <1>6, <2>1
    <3>2. DependenciesOf(ordered[i])' = DependenciesOf(ordered[i])
      BY <1>1, <3>1 DEF DependenciesOf
    <3>3. /\ \A d \in DependenciesOf(ordered[i]) : \E j \in 1..(i - 1) : ordered[j] = d
          /\ \A j \in 1..(i - 1) : ordered[j] # ordered[i]
      BY <1>2, <2>1 DEF DependenciesFirst
    <3> QED BY <3>1, <3>2, <3>3
  <2>2. CASE i = Len(ordered) + 1
    <3>1. ordered'[i] = p /\ i - 1 = Len(ordered)
      BY <1>6, <2>2
    <3>2. DependenciesOf(ordered[i])' = DependenciesOf(p)
      BY <1>1, <3>1 DEF DependenciesOf
    <3>3. /\ \A d \in DependenciesOf(p) : \E j \in 1..(i - 1) : ordered[j] = d
          /\ \A j \in 1..(i - 1) : ordered[j] # p
      BY <1>4, <1>9, <3>1 DEF Listed
    <3> QED BY <1>6, <3>1, <3>2, <3>3
  <2> QED BY <1>6, <2>1, <2>2
<1>13. QueueOK'
  <2>1. Listed(ready') \intersect Listed(ordered') = {}
    BY <1>2, <1>3, <1>5 DEF QueueOK
  <2>2. \A c \in closure : Pending(c)' = {} <=> c \in Listed(ready') \union Listed(ordered')
    BY <1>2, <1>3, <1>5, <1>8 DEF QueueOK
  <2> QED BY <1>1, <1>3, <1>5, <2>1, <2>2 DEF QueueOK
<1>14. CountsOK'
  <2>1. \A c \in waiting' : Len(ordered') > 0 /\ ordered'[Len(ordered')] \in DependenciesOf(c)'
    BY <1>1, <1>6, <1>7 DEF Consumers
  <2> QED BY <1>1, <1>2, <1>8, <2>1 DEF CountsOK
<1>15. EndedOK'
  BY <1>1 DEF EndedOK
<1> QED BY <1>1, <1>10, <1>11, <1>12, <1>13, <1>14, <1>15 DEF IInv

LEMMA ReleaseInvariant ==
    ASSUME IInv, NEW c \in waiting, Release(c)
    PROVE  IInv'
<1> DEFINE last == ordered[Len(ordered)]
<1>1. /\ phase = "sort" /\ Sorting /\ Sorting' /\ phase' = "sort"
      /\ waiting' = waiting \ {c}
      /\ indegree' = [indegree EXCEPT ![c] = @ - 1]
      /\ ready' = IF indegree[c] = 1 THEN Append(ready, c) ELSE ready
      /\ UNCHANGED <<document, requested, include, closure, ordered>>
  BY DEF Release, Sorting
<1>2. TypeOK /\ QueueOK /\ CountsOK /\ ClosureOK /\ DependenciesFirst
  BY <1>1 DEF IInv
<1>3. /\ c \in closure /\ last \in DependenciesOf(c) /\ last \in Listed(ordered)
  BY <1>2, LenProperties DEF TypeOK, CountsOK, Listed
<1>4. \A d \in closure : DependenciesOf(d)' = DependenciesOf(d)
  BY <1>1 DEF DependenciesOf
<1>5. Pending(c)' = Pending(c) \ {last} /\ last \in Pending(c)
  BY <1>1, <1>3, <1>4 DEF Pending
<1>6. \A d \in closure \ {c} : Pending(d)' = Pending(d)
  BY <1>1, <1>4 DEF Pending
<1>7. IsFiniteSet(Pending(c))
  <2>1. Pending(c) \in SUBSET DependenciesOf(c)
    BY DEF Pending
  <2>2. IsFiniteSet(DependenciesOf(c))
    BY <1>2, <1>3, DocumentType DEF TypeOK
  <2> QED BY <2>1, <2>2, FS_Subset
<1>8. /\ indegree[c] = Cardinality(Pending(c)) /\ indegree[c] \in Nat
      /\ Cardinality(Pending(c)') = indegree[c] - 1
      /\ Cardinality(Pending(c)') \in Nat
  <2>1. IsFiniteSet(Pending(c)')
    BY <1>5, <1>7, FS_RemoveElement
  <2>2. Cardinality(Pending(c)') \in Nat /\ Cardinality(Pending(c)) \in Nat
    BY <1>7, <2>1, FS_CardinalityType
  <2>3. Cardinality(Pending(c)') = Cardinality(Pending(c)) - 1
    BY <1>5, <1>7, FS_RemoveElement
  <2> QED BY <1>2, <1>3, <2>2, <2>3 DEF CountsOK
<1>9. (indegree[c] = 1) <=> (Pending(c)' = {})
  <2>1. IsFiniteSet(Pending(c)')
    BY <1>5, <1>7, FS_RemoveElement
  <2> QED BY <1>8, <2>1, FS_EmptySet
<1>10. c \notin Listed(ready) /\ c \notin Listed(ordered)
  BY <1>2, <1>3, <1>5 DEF QueueOK
<1>11. /\ ready' \in Seq(closure) /\ NoRepeat(ready')
       /\ Listed(ready') = IF indegree[c] = 1 THEN Listed(ready) \union {c} ELSE Listed(ready)
  <2>1. ready \in Seq(closure) /\ NoRepeat(ready)
    BY <1>2 DEF TypeOK, QueueOK
  <2>2. /\ Append(ready, c) \in Seq(closure) /\ NoRepeat(Append(ready, c))
        /\ Listed(Append(ready, c)) = Listed(ready) \union {c}
    BY <2>1, <1>3, <1>10, ListedAppend
  <2> QED BY <1>1, <2>1, <2>2
<1>12. /\ indegree' \in [closure -> Nat]
       /\ \A d \in closure : indegree'[d] = Cardinality(Pending(d)')
  <2>1. indegree \in [closure -> Nat]
    BY <1>1, <1>2 DEF TypeOK
  <2>2. indegree'[c] = Cardinality(Pending(c)') /\ \A d \in closure \ {c} : indegree'[d] = indegree[d]
    BY <1>1, <1>3, <1>8, <2>1
  <2>3. \A d \in closure \ {c} : indegree[d] = Cardinality(Pending(d)')
    BY <1>2, <1>6 DEF CountsOK
  <2> QED BY <1>1, <1>3, <1>8, <2>1, <2>2, <2>3
<1>13. TypeOK'
  <2>1. Registered' = Registered
    BY <1>1 DEF Registered
  <2> QED BY <1>1, <1>2, <1>11, <1>12, <2>1 DEF TypeOK
<1>14. ClosureOK'
  BY <1>1, <1>2, <1>4 DEF ClosureOK
<1>15. DependenciesFirst'
  BY <1>1, <1>2, OrderFrame
<1>16. QueueOK'
  <2>1. Listed(ready') \intersect Listed(ordered) = {}
    BY <1>2, <1>10, <1>11 DEF QueueOK
  <2>2. \A d \in closure \ {c} : Pending(d)' = {} <=> d \in Listed(ready') \union Listed(ordered)
    BY <1>2, <1>6, <1>11 DEF QueueOK
  <2>3. Pending(c)' = {} <=> c \in Listed(ready') \union Listed(ordered)
    BY <1>9, <1>10, <1>11
  <2> QED BY <1>1, <1>2, <1>11, <2>1, <2>2, <2>3 DEF QueueOK
<1>17. CountsOK'
  BY <1>1, <1>2, <1>4, <1>12 DEF CountsOK, TypeOK
<1>18. EndedOK'
  BY <1>1 DEF EndedOK
<1> QED BY <1>1, <1>13, <1>14, <1>15, <1>16, <1>17, <1>18 DEF IInv

LEMMA FinishInvariant ==
    ASSUME IInv, Finish
    PROVE  IInv'
<1>1. /\ Sorting /\ Sorting' /\ phase' \in Ended /\ waiting = {} /\ ready = <<>>
      /\ phase' = (IF Len(ordered) = Cardinality(closure) THEN "ordered" ELSE "cycle")
      /\ phase = "sort"
      /\ UNCHANGED <<document, requested, include, closure, indegree, ready, waiting, ordered>>
  BY DEF Finish, Sorting, Ended
<1>2. /\ Registered' = Registered
      /\ \A c \in closure : DependenciesOf(c)' = DependenciesOf(c) /\ Pending(c)' = Pending(c)
  BY <1>1 DEF Registered, DependenciesOf, Pending
<1>3. TypeOK'
  BY <1>1, <1>2 DEF IInv, TypeOK
<1>4. ClosureOK' /\ QueueOK' /\ CountsOK'
  BY <1>1, <1>2 DEF IInv, ClosureOK, QueueOK, CountsOK, TypeOK
<1>5. DependenciesFirst'
  BY <1>1, OrderFrame DEF IInv
<1>6. EndedOK'
  BY <1>1 DEF EndedOK
<1> QED BY <1>1, <1>3, <1>4, <1>5, <1>6 DEF IInv

LEMMA StutterInvariant ==
    ASSUME IInv, UNCHANGED vars
    PROVE  IInv'
BY DEF vars, IInv, TypeOK, Registered, ClosureOK, DependenciesFirst, DependenciesOf, Sorting,
       NothingSorted, QueueOK, CountsOK, Pending, EndedOK

\* The counters, the queue and the result agree in every reachable state.
THEOREM Invariance == Spec => []IInv
<1>1. IInv /\ [Next]_vars => IInv'
  <2> SUFFICES ASSUME IInv, [Next]_vars PROVE IInv'
    OBVIOUS
  <2>1. ASSUME NEW c \in include, Include(c) PROVE IInv'
    BY <2>1, IncludeInvariant
  <2>2. CASE StartSort
    BY <2>2, StartSortInvariant
  <2>3. CASE Pop
    BY <2>3, PopInvariant
  <2>4. ASSUME NEW c \in waiting, Release(c) PROVE IInv'
    BY <2>4, ReleaseInvariant
  <2>5. CASE Finish
    BY <2>5, FinishInvariant
  <2>6. CASE UNCHANGED vars
    BY <2>6, StutterInvariant
  <2> QED BY <2>1, <2>2, <2>3, <2>4, <2>5, <2>6 DEF Next
<1> QED BY InitInvariant, <1>1, PTL DEF Spec

\* The variables keep their types.
THEOREM TypeCorrectness == Spec => []TypeOK
<1>1. IInv => TypeOK
  BY DEF IInv
<1> QED BY Invariance, <1>1, PTL

\* dependency_order never puts a component before one it depends on.
THEOREM DependenciesComeFirst == Spec => []DependenciesFirst
<1>1. IInv => DependenciesFirst
  BY DEF IInv
<1> QED BY Invariance, <1>1, PTL

------------------------------------------------------------------------------
(* Cycles                                                                  *)

\* A set whose members all come after their dependencies has no cycle: its
\* first member in the order would need an earlier one.
LEMMA OrderedIsAcyclic ==
    ASSUME TypeOK, DependenciesFirst, NEW S, S \subseteq Listed(ordered)
    PROVE  ~Cyclic(S)
<1> SUFFICES ASSUME Cyclic(S) PROVE FALSE
  OBVIOUS
<1> DEFINE Places == {i \in 1..Len(ordered) : ordered[i] \in S}
<1>1. Len(ordered) \in Nat /\ Places \subseteq Nat /\ Places # {}
  <2>1. Len(ordered) \in Nat
    BY LenProperties DEF TypeOK
  <2>2. PICK d \in S : TRUE
    BY DEF Cyclic
  <2> QED BY <2>1, <2>2 DEF Listed
<1>2. PICK i \in Places : \A j \in Places : ~(<<j, i>> \in OpToRel(<, Nat))
  BY <1>1, WFMin, NatLessThanWellFounded
<1>3. \A j \in Places : j >= i
  <2> SUFFICES ASSUME NEW j \in Places PROVE j >= i
    OBVIOUS
  <2>1. i \in Nat /\ j \in Nat
    BY <1>1
  <2>2. ~(j < i)
    BY <1>2, <2>1 DEF OpToRel
  <2> QED BY <2>1, <2>2
<1>4. PICK d \in DependenciesOf(ordered[i]) : d \in S
  BY DEF Cyclic
<1>5. PICK j \in 1..(i - 1) : ordered[j] = d
  BY <1>1 DEF DependenciesFirst
<1>6. j \in Places /\ j < i
  BY <1>1, <1>4, <1>5
<1> QED BY <1>1, <1>3, <1>6

\* What is left over when the queue runs empty has a cycle.
LEMMA LeftOverIsCyclic ==
    ASSUME IInv, phase = "cycle"
    PROVE  Cyclic(closure \ Listed(ordered))
<1> DEFINE S == closure \ Listed(ordered)
<1>1. /\ TypeOK /\ ClosureOK /\ QueueOK /\ include = {}
      /\ waiting = {} /\ ready = <<>> /\ Len(ordered) # Cardinality(closure)
  BY DEF IInv, Sorting, ClosureOK, EndedOK
<1>2. S # {}
  <2> SUFFICES ASSUME closure \subseteq Listed(ordered) PROVE FALSE
    OBVIOUS
  <2>1. Listed(ordered) = closure
    BY <1>1, ListedIn DEF TypeOK
  <2> QED BY <1>1, <2>1, ListedCardinality DEF TypeOK, QueueOK
<1>3. ASSUME NEW c \in S PROVE DependenciesOf(c) \intersect S # {}
  <2>1. c \notin Listed(ready)
    BY <1>1 DEF Listed
  <2>2. Pending(c) # {}
    BY <1>1, <2>1 DEF QueueOK
  <2>3. PICK d \in DependenciesOf(c) : d \notin Listed(ordered)
    BY <1>1, <2>2 DEF Pending
  <2>4. d \in closure
    BY <1>1 DEF ClosureOK
  <2> QED BY <2>3, <2>4
<1> QED BY <1>2, <1>3 DEF Cyclic

\* dependency_order returns the whole closure, and refuses exactly the closures
\* with a cycle.
THEOREM CyclesAreExact == Spec => []CycleExact
<1>1. IInv => CycleExact
  <2> SUFFICES ASSUME IInv PROVE CycleExact
    OBVIOUS
  <2>1. ASSUME phase = "ordered" PROVE Listed(ordered) = closure
    <3>1. /\ ordered \in Seq(closure) /\ NoRepeat(ordered) /\ IsFiniteSet(closure)
          /\ Len(ordered) = Cardinality(closure)
      BY <2>1, DocumentType DEF IInv, TypeOK, Sorting, QueueOK, EndedOK
    <3> QED BY <3>1, ListedIn, ListedCardinality, FS_Subset
  <2>2. ASSUME phase = "ordered", NEW S \in SUBSET closure PROVE ~Cyclic(S)
    BY <2>1, <2>2, OrderedIsAcyclic DEF IInv
  <2>3. ASSUME phase = "cycle" PROVE \E S \in SUBSET closure : Cyclic(S)
    BY <2>3, LeftOverIsCyclic
  <2> QED BY <2>1, <2>2, <2>3 DEF CycleExact
<1> QED BY Invariance, <1>1, PTL

------------------------------------------------------------------------------
(* The orders that the engine plans with                                   *)

\* The closure and what is still to be visited hold the request, and lie in every
\* dependency-closed set that does.
Selection ==
    /\ requested \subseteq closure \union include
    /\ \A T \in SUBSET Registered :
          requested \subseteq T /\ Plan!DependencyClosed(T) => closure \union include \subseteq T

LEMMA SelectionFrame ==
    ASSUME Selection, UNCHANGED <<document, requested, include, closure>>
    PROVE  Selection'
BY DEF Selection, Registered, Plan!DependencyClosed

LEMMA SelectionInclude ==
    ASSUME Selection, NEW c \in include, Include(c)
    PROVE  Selection'
<1>1. CASE c \notin Registered
  BY <1>1, SelectionFrame DEF Include
<1>2. CASE c \in Registered
  <2>1. /\ closure' = closure \union {c}
        /\ include' = (include \union DependenciesOf(c)) \ closure'
        /\ UNCHANGED <<document, requested>>
    BY <1>2 DEF Include
  <2>2. requested' \subseteq closure' \union include'
    BY <2>1 DEF Selection
  <2>3. ASSUME NEW T \in SUBSET Registered, requested \subseteq T, Plan!DependencyClosed(T)
        PROVE  closure' \union include' \subseteq T
    <3>1. closure \union include \subseteq T
      BY <2>3 DEF Selection
    <3>2. DependenciesOf(c) \subseteq T
      BY <2>3, <3>1 DEF Plan!DependencyClosed, DependenciesOf
    <3> QED
      BY <2>1, <3>1, <3>2
  <2> QED
    BY <2>1, <2>2, <2>3 DEF Selection, Registered, Plan!DependencyClosed
<1> QED
  BY <1>1, <1>2

\* When nothing is left to visit, the closure is the least dependency-closed set.
LEMMA ClosureIsLeast ==
    ASSUME TypeOK, ClosureOK, Selection, include = {}
    PROVE  closure = Plan!Closure(requested)
<1>1. closure \in SUBSET Registered /\ requested \subseteq closure
  BY DEF TypeOK, Selection
<1>2. Plan!DependencyClosed(closure)
  BY DEF ClosureOK, Plan!DependencyClosed, DependenciesOf
<1>3. \A T \in SUBSET Registered :
         requested \subseteq T /\ Plan!DependencyClosed(T) => closure \subseteq T
  BY DEF Selection
<1> QED
  BY <1>1, <1>2, <1>3 DEF Plan!Closure

\* LifecyclePlan counts as this module does.
LEMMA SameCardinality == \A S : Plan!Cardinality(S) = Cardinality(S)
BY DEF Plan!Cardinality, Cardinality

\* No component depends on one that comes after it: what is ordered up to some
\* place is dependency-closed.
LEMMA LaterIsNoDependency ==
    ASSUME TypeOK, DependenciesFirst,
           NEW i \in 1..Len(ordered), NEW j \in 1..Len(ordered), i < j
    PROVE  ordered[j] \notin Plan!TransitiveDependencies(ordered[i])
<1> DEFINE P == {ordered[m] : m \in 1..i}
<1>1. /\ Len(ordered) \in Nat /\ i \in Nat /\ j \in Nat
      /\ \A m \in 1..i : m \in 1..Len(ordered) /\ ordered[m] \in closure
  BY LenProperties DEF TypeOK
<1>2. P \in SUBSET Registered /\ ordered[i] \in P
  BY <1>1 DEF TypeOK
<1>3. Plan!DependencyClosed(P)
  <2> SUFFICES ASSUME NEW m \in 1..i, NEW d \in DependenciesOf(ordered[m])
               PROVE  d \in P
    BY DEF Plan!DependencyClosed, DependenciesOf
  <2>1. PICK n \in 1..(m - 1) : ordered[n] = d
    BY <1>1 DEF DependenciesFirst
  <2>2. n \in 1..i
    BY <1>1, <2>1
  <2> QED
    BY <2>1, <2>2
<1>4. ordered[j] \notin P
  <2> SUFFICES ASSUME NEW m \in 1..i, ordered[m] = ordered[j] PROVE FALSE
    OBVIOUS
  <2>1. m \in 1..(j - 1)
    BY <1>1
  <2> QED
    BY <2>1 DEF DependenciesFirst
<1>5. Plan!Closure({ordered[i]}) \subseteq P
  BY <1>2, <1>3 DEF Plan!Closure
<1> QED
  BY <1>4, <1>5 DEF Plan!TransitiveDependencies

\* dependency_order returns an order that module LifecyclePlan plans with: an
\* order of the least dependency-closed set that holds the request.
THEOREM ResultsArePlanned == Spec => []ResultIsPlanned
<1>1. Init => Selection
  BY DEF Init, Selection
<1>2. IInv /\ Selection /\ [Next]_vars => Selection'
  <2> SUFFICES ASSUME Selection, [Next]_vars PROVE Selection'
    OBVIOUS
  <2>1. ASSUME NEW c \in include, Include(c) PROVE Selection'
    BY <2>1, SelectionInclude
  <2>2. CASE StartSort \/ Pop \/ Finish \/ UNCHANGED vars
    BY <2>2, SelectionFrame DEF StartSort, Pop, Finish, vars
  <2>3. ASSUME NEW c \in waiting, Release(c) PROVE Selection'
    BY <2>3, SelectionFrame DEF Release
  <2> QED
    BY <2>1, <2>2, <2>3 DEF Next
<1>3. IInv /\ Selection => ResultIsPlanned
  <2> SUFFICES ASSUME IInv, Selection, phase = "ordered"
               PROVE  ordered \in Plan!DependencyOrders(Plan!Closure(requested))
    BY DEF ResultIsPlanned
  <2>1. /\ TypeOK /\ ClosureOK /\ DependenciesFirst /\ include = {}
        /\ NoRepeat(ordered) /\ Len(ordered) = Cardinality(closure)
    BY DEF IInv, ClosureOK, QueueOK, EndedOK, Sorting
  <2>2. closure = Plan!Closure(requested)
    BY <2>1, ClosureIsLeast
  <2>3. ordered \in [1..Cardinality(closure) -> closure]
    BY <2>1, LenProperties DEF TypeOK
  <2>4. \A i, j \in 1..Cardinality(closure) :
           i < j => /\ ordered[i] # ordered[j]
                    /\ ordered[j] \notin Plan!TransitiveDependencies(ordered[i])
    BY <2>1, LaterIsNoDependency DEF NoRepeat
  <2> QED
    BY <2>2, <2>3, <2>4, SameCardinality DEF Plan!DependencyOrders
<1> QED
  BY <1>1, <1>2, <1>3, Invariance, PTL DEF Spec
==============================================================================
