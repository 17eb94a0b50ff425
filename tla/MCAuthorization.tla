--------------------------- MODULE MCAuthorization ---------------------------
(* One operator on two channels and in two sessions, and someone else.     *)
EXTENDS Authorization, TLC

CONSTANTS operator, other, s1, s2, delete

Person(actor, source, session) ==
    [actor |-> actor, source |-> source, session |-> session, authenticatedAt |-> 0]

Identities ==
    {Person(operator, "web", s1), Person(operator, "telegram", s1),
     Person(operator, "web", s2), Person(other, "web", s1)}

RiskOf == [p \in Plan |-> IF p = delete THEN "high" ELSE "routine"]

AnyThread == Permutations(Thread)
==============================================================================
