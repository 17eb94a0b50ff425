------------------------- MODULE SecretWorkflowProofs -------------------------
(***************************************************************************)
(* For every number of targets, consumers, approvals and threads: types,    *)
(* OneUpdatePerTarget, SucceededIsLoaded and RollbackUndoesOwnWork.         *)
(*                                                                         *)
(* An active row is the newest of its target, and this is all that keeps    *)
(* two updates apart: a thread past its claim has an active row, so nobody  *)
(* else writes the material of its target, and whoever restarts a consumer  *)
(* in the meantime restarts it with that material.                          *)
(***************************************************************************)
EXTENDS SecretWorkflow, TLAPS

------------------------------------------------------------------------------
(* The invariant                                                           *)

\* The thread of o has claimed its target.
Working(o) == at[o] \notin {"none", "claim"}

\* The material of t is that of o, and the first n consumers run with it.
Loads(o, t, n) ==
    material[t] = o /\ \A i \in 1..n : loaded[Consumers[t][i]][t] = o

WorkingOK(o) ==
    LET t == doc[o].target IN
    /\ Held(o) /\ rows[o].target = t
    /\ at[o] = "apply" => doc[o].restarted = 0
    /\ at[o] \in {"next", "restart", "health"} => Loads(o, t, doc[o].restarted)
    /\ at[o] = "restart" => ConsumersLeft(o)
    /\ at[o] = "raise" /\ previous[o] # Absent => material[t] = o
    /\ at[o] = "rollback" => material[t] = o /\ previous[o] # Absent
    /\ at[o] = "end" =>
          /\ doc[o].state \in EndStates
          /\ doc[o].state = "succeeded" => Loads(o, t, Len(Consumers[t]))

OpOK(o) ==
    /\ at[o] # "none" => doc[o] # Absent
    /\ at[o] \in {"none", "claim", "apply"} => previous[o] = Absent
    /\ at[o] = "claim" => doc[o].state = "applying" /\ doc[o].restarted = 0
    /\ Held(o) => latest[rows[o].target] = o
    /\ Working(o) => WorkingOK(o)
    /\ rows[o] # Absent /\ rows[o].state = "succeeded" /\ latest[rows[o].target] = o =>
          Loads(o, rows[o].target, Len(Consumers[rows[o].target]))

IInv ==
    /\ TypeOK
    /\ \A o \in OpId : OpOK(o)
    /\ \A t \in Target : latest[t] # Absent => rows[latest[t]] # Absent

LEMMA InitInvariant == Init => IInv
<1> SUFFICES ASSUME Init PROVE IInv
  OBVIOUS
<1>1. TypeOK
  BY DEF Init, TypeOK, Material
<1>2. \A o \in OpId : OpOK(o)
  BY DEF Init, OpOK, Working, Held
<1> QED BY <1>1, <1>2 DEF IInv, Init

------------------------------------------------------------------------------
(* What a step for one update leaves to the others                         *)

\* Only a thread that works on a target has the right to it.
LEMMA OwnTarget ==
    ASSUME IInv, NEW o \in OpId, Working(o)
    PROVE  /\ WorkingOK(o) /\ doc[o] \in Update /\ doc[o] # Absent
           /\ rows[o] \in Update /\ rows[o] # Absent
           /\ doc[o].target \in Target /\ latest[doc[o].target] = o
           /\ doc[o].restarted \in Nat
           /\ doc[o].restarted <= Len(Consumers[doc[o].target])
           /\ Consumers[doc[o].target] \in Seq(Consumer)
<1>1. OpOK(o) /\ WorkingOK(o)
  BY DEF IInv, OpOK
<1>2. doc[o] # Absent /\ rows[o] # Absent /\ rows[o].target = doc[o].target
  BY <1>1 DEF OpOK, Working, WorkingOK, Held
<1>3. doc[o] \in Update /\ rows[o] \in Update
  BY <1>2 DEF IInv, TypeOK
<1>4. doc[o].target \in Target /\ doc[o].restarted \in Nat
  BY <1>3 DEF Update
<1>5. latest[doc[o].target] = o
  BY <1>1, <1>2 DEF OpOK, WorkingOK
<1> QED BY <1>1, <1>2, <1>3, <1>4, <1>5, SecretAssumption DEF IInv, TypeOK

\* What is loaded for another target stays loaded, or is loaded again.
LEMMA LoadsKept ==
    ASSUME IInv, NEW p \in OpId, NEW t \in Target, NEW n \in Nat, n <= Len(Consumers[t]),
           Loads(p, t, n), material'[t] = material[t],
           \A c \in Consumer : loaded'[c][t] \in {loaded[c][t], material[t]}
    PROVE  Loads(p, t, n)'
<1>1. Consumers[t] \in Seq(Consumer)
  BY SecretAssumption
<1>2. \A i \in 1..n : Consumers[t][i] \in Consumer
  BY <1>1
<1> QED BY <1>2 DEF Loads

\* A step for update o keeps what is known of the others when it writes only
\* the material of a target that is its own, takes only a free target, and
\* restarts consumers with what is in force.
LEMMA OtherUpdates ==
    ASSUME IInv, NEW o \in OpId,
           \A p \in OpId \ {o} : /\ rows'[p] = rows[p] /\ doc'[p] = doc[p]
                                 /\ at'[p] = at[p] /\ previous'[p] = previous[p],
           \A t \in Target : \/ latest'[t] = latest[t]
                             \/ latest'[t] = o /\ ~ActiveTarget(t),
           \A t \in Target : material'[t] # material[t] => latest[t] = o,
           \A c \in Consumer, t \in Target : loaded'[c][t] \in {loaded[c][t], material[t]}
    PROVE  \A p \in OpId \ {o} : OpOK(p)'
<1> SUFFICES ASSUME NEW p \in OpId \ {o} PROVE OpOK(p)'
  OBVIOUS
<1>1. OpOK(p) /\ rows[p] \in Update \union {Absent} /\ doc[p] \in Update \union {Absent}
  BY DEF IInv, TypeOK
<1>2. (Held(p) => latest[rows[p].target] = p)'
  <2> SUFFICES ASSUME Held(p) PROVE latest'[rows[p].target] = p
    BY DEF Held
  <2>1. rows[p].target \in Target /\ ActiveTarget(rows[p].target)
    BY <1>1 DEF Held, ActiveTarget, Update
  <2> QED BY <1>1, <2>1 DEF OpOK
<1>3. (Working(p) => WorkingOK(p))'
  <2> SUFFICES ASSUME Working(p) PROVE WorkingOK(p)'
    BY DEF Working
  <2> DEFINE t == doc[p].target
  <2>1. /\ WorkingOK(p) /\ t \in Target /\ latest[t] = p
        /\ doc[p].restarted \in Nat /\ doc[p].restarted <= Len(Consumers[t])
        /\ Consumers[t] \in Seq(Consumer)
    BY OwnTarget
  <2>2. material'[t] = material[t]
    BY <2>1
  <2>3. PICK u \in Target : u = t
    BY <2>1
  <2>4. Len(Consumers[u]) \in Nat
    BY <2>1, <2>3
  <2>5. \A n \in Nat : n <= Len(Consumers[u]) /\ Loads(p, u, n) => Loads(p, u, n)'
    BY <2>2, <2>3, LoadsKept
  <2>6. (at[p] \in {"next", "restart", "health"} => Loads(p, doc[p].target, doc[p].restarted))'
    <3>1. at[p] \in {"next", "restart", "health"} => Loads(p, u, doc[p].restarted)
      BY <2>1, <2>3 DEF WorkingOK
    <3>2. PICK n \in Nat : n = doc[p].restarted
      BY <2>1
    <3>3. at[p] \in {"next", "restart", "health"} => Loads(p, u, n)'
      BY <2>1, <2>3, <2>5, <3>1, <3>2
    <3>4. doc'[p] = doc[p] /\ at'[p] = at[p] /\ doc'[p].target = u /\ doc'[p].restarted = n
      BY <2>3, <3>2
    <3> QED BY <3>3, <3>4 DEF Loads
  <2>7. (at[p] = "end" => (doc[p].state = "succeeded" =>
            Loads(p, doc[p].target, Len(Consumers[doc[p].target]))))'
    <3>1. at[p] = "end" /\ doc[p].state = "succeeded" => Loads(p, u, Len(Consumers[u]))'
      BY <2>1, <2>3, <2>4, <2>5 DEF WorkingOK
    <3>2. doc'[p] = doc[p] /\ at'[p] = at[p] /\ doc'[p].target = u
      BY <2>3
    <3> QED BY <3>1, <3>2 DEF Loads
  <2>8. (/\ Held(p) /\ rows[p].target = doc[p].target
         /\ at[p] = "apply" => doc[p].restarted = 0
         /\ at[p] = "restart" => ConsumersLeft(p)
         /\ at[p] = "raise" /\ previous[p] # Absent => material[doc[p].target] = p
         /\ at[p] = "rollback" => material[doc[p].target] = p /\ previous[p] # Absent
         /\ at[p] = "end" => doc[p].state \in EndStates)'
    BY <2>1, <2>2 DEF WorkingOK, Held, ConsumersLeft
  <2> QED BY <2>6, <2>7, <2>8 DEF WorkingOK
<1>4. (rows[p] # Absent /\ rows[p].state = "succeeded" /\ latest[rows[p].target] = p =>
          Loads(p, rows[p].target, Len(Consumers[rows[p].target])))'
  <2> SUFFICES ASSUME rows[p] # Absent, rows[p].state = "succeeded", latest'[rows[p].target] = p
               PROVE  Loads(p, rows[p].target, Len(Consumers[rows[p].target]))'
    OBVIOUS
  <2>1. PICK u \in Target : u = rows[p].target
    BY <1>1 DEF Update
  <2>2. latest[u] = p /\ material'[u] = material[u] /\ Len(Consumers[u]) \in Nat
    BY <2>1, SecretAssumption
  <2>3. Loads(p, u, Len(Consumers[u]))
    BY <1>1, <2>1, <2>2 DEF OpOK
  <2>4. Loads(p, u, Len(Consumers[u]))'
    BY <2>2, <2>3, LoadsKept
  <2> QED BY <2>1, <2>4 DEF Loads
<1> QED BY <1>1, <1>2, <1>3, <1>4 DEF OpOK, Working

\* The form of every step for one update.
LEMMA OwnStep ==
    ASSUME IInv, TypeOK', NEW o \in OpId,
           \A p \in OpId \ {o} : /\ rows'[p] = rows[p] /\ doc'[p] = doc[p]
                                 /\ at'[p] = at[p] /\ previous'[p] = previous[p],
           \A t \in Target : \/ latest'[t] = latest[t]
                             \/ latest'[t] = o /\ ~ActiveTarget(t),
           \A t \in Target : material'[t] # material[t] => latest[t] = o,
           \A c \in Consumer, t \in Target : loaded'[c][t] \in {loaded[c][t], material[t]},
           rows'[o] # Absent \/ UNCHANGED <<rows, latest>>,
           OpOK(o)'
    PROVE  IInv'
<1>1. \A p \in OpId : OpOK(p)'
  BY OtherUpdates
<1>2. ASSUME NEW t \in Target, latest'[t] # Absent PROVE rows'[latest'[t]] # Absent
  <2>1. latest[t] \in OpId \union {Absent}
    BY DEF IInv, TypeOK
  <2> QED BY <1>2, <2>1 DEF IInv
<1> QED BY <1>1, <1>2 DEF IInv

------------------------------------------------------------------------------
(* The steps of a thread                                                   *)

\* A thread that still works after its step.
LEMMA StillWorking ==
    ASSUME NEW o \in OpId, at'[o] \notin {"none", "claim"},
           at'[o] = "apply" => previous'[o] = Absent,
           doc'[o] # Absent, latest'[rows'[o].target] = o, WorkingOK(o)'
    PROVE  OpOK(o)'
BY DEF OpOK, WorkingOK, Held, Working, ActiveStates

LEMMA ClaimStep ==
    ASSUME IInv, NEW o \in OpId, Claim(o)
    PROVE  IInv'
<1> USE DEF Claim
<1>1. /\ doc[o] \in Update /\ doc[o] # Absent /\ doc[o].target \in Target /\ OpOK(o)
      /\ doc[o].state = "applying" /\ doc[o].restarted = 0 /\ previous[o] = Absent
  BY DEF IInv, TypeOK, OpOK, Update
<1>2. CASE ActiveTarget(doc[o].target)
  <2>1. TypeOK'
    BY <1>2 DEF IInv, TypeOK, outside
  <2>2. /\ at'[o] = "none" /\ UNCHANGED <<rows, latest, previous, material, loaded>>
        /\ \A p \in OpId \ {o} : doc'[p] = doc[p] /\ at'[p] = at[p]
    BY <1>2 DEF IInv, TypeOK, outside
  <2>3. OpOK(o)'
    BY <1>1, <2>2 DEF OpOK, Working, Held, Loads
  <2> QED BY <2>1, <2>2, <2>3, OwnStep
<1>3. CASE ~ActiveTarget(doc[o].target)
  <2>1. TypeOK'
    BY <1>1, <1>3 DEF IInv, TypeOK, outside
  <2>2. /\ at'[o] = "apply" /\ rows'[o] = doc[o] /\ latest'[doc[o].target] = o
        /\ UNCHANGED <<doc, previous, material, loaded>>
        /\ \A p \in OpId \ {o} : rows'[p] = rows[p] /\ at'[p] = at[p]
        /\ \A t \in Target \ {doc[o].target} : latest'[t] = latest[t]
    BY <1>1, <1>3 DEF IInv, TypeOK, outside
  <2>3. WorkingOK(o)'
    BY <1>1, <2>2 DEF WorkingOK, Held, ActiveStates
  <2>4. OpOK(o)'
    BY <1>1, <2>2, <2>3, StillWorking
  <2>5. \A t \in Target : latest'[t] = latest[t] \/ (latest'[t] = o /\ ~ActiveTarget(t))
    BY <1>3, <2>2
  <2> QED BY <1>1, <2>1, <2>2, <2>4, <2>5, OwnStep
<1> QED BY <1>2, <1>3

LEMMA ApplyStep ==
    ASSUME IInv, NEW o \in OpId, Apply(o)
    PROVE  IInv'
<1> USE DEF Apply, Go
<1>1. PICK t \in Target : t = doc[o].target
  BY OwnTarget DEF Working
<1>2. /\ WorkingOK(o) /\ OpOK(o) /\ doc[o] # Absent /\ rows[o] # Absent
      /\ latest[t] = o /\ rows[o].target = t /\ doc[o].restarted = 0 /\ previous[o] = Absent
  BY <1>1, OwnTarget DEF IInv, OpOK, Working, WorkingOK
<1>3. /\ material' \in {material, [material EXCEPT ![t] = o]}
      /\ previous' \in {previous, [previous EXCEPT ![o] = material[t]]}
      /\ \/ at' = [at EXCEPT ![o] = "next"] /\ material' = [material EXCEPT ![t] = o]
         \/ at' = [at EXCEPT ![o] = "raise"] /\ previous' = previous
  BY <1>1
<1>4. TypeOK'
  <2>1. material' \in [Target -> Material] /\ previous' \in [OpId -> Material \union {Absent}]
    BY <1>3 DEF IInv, TypeOK, Material
  <2> QED BY <1>3, <2>1 DEF IInv, TypeOK
<1>5. /\ at'[o] \in {"next", "raise"}
      /\ at'[o] = "next" => material'[t] = o
      /\ at'[o] = "raise" => previous'[o] = Absent
      /\ \A p \in OpId \ {o} : at'[p] = at[p] /\ previous'[p] = previous[p]
      /\ \A u \in Target \ {t} : material'[u] = material[u]
  BY <1>2, <1>3 DEF IInv, TypeOK
<1>6. WorkingOK(o)'
  <2>1. at'[o] = "next" => Loads(o, t, 0)'
    BY <1>5 DEF Loads
  <2>2. doc'[o] = doc[o] /\ rows'[o] = rows[o] /\ Held(o)
    BY <1>2 DEF WorkingOK
  <2> QED BY <1>1, <1>2, <1>5, <2>1, <2>2 DEF WorkingOK, Held, Loads
<1>7. OpOK(o)'
  BY <1>2, <1>5, <1>6, StillWorking
<1> QED BY <1>1, <1>2, <1>4, <1>5, <1>7, OwnStep

\* The steps that write neither material nor consumers, and save or keep the row.
LEMMA QuietStep ==
    ASSUME IInv, NEW o \in OpId, Working(o), NEW w \in {"next", "restart", "raise", "rollback", "end"},
           Go(o, w), NEW x, doc' = [doc EXCEPT ![o] = x],
           x \in Update, x.target = doc[o].target, x.restarted = doc[o].restarted,
           rows' = rows \/ (rows' = [rows EXCEPT ![o] = x] /\ x.state \in ActiveStates),
           w \in {"next", "restart"} => Loads(o, x.target, x.restarted),
           w = "restart" => ConsumersLeft(o),
           w = "raise" /\ previous[o] # Absent => material[x.target] = o,
           w = "rollback" => material[x.target] = o /\ previous[o] # Absent,
           w = "end" => /\ x.state \in EndStates
                        /\ x.state = "succeeded" => Loads(o, x.target, Len(Consumers[x.target])),
           UNCHANGED <<latest, approvals, previous, cancelled, marking, material, loaded>>
    PROVE  IInv'
<1>1. PICK t \in Target : t = doc[o].target
  BY OwnTarget
<1>2. /\ WorkingOK(o) /\ OpOK(o) /\ doc[o] # Absent /\ rows[o] # Absent
      /\ latest[t] = o /\ rows[o].target = t
      /\ doc[o].restarted \in Nat /\ doc[o].restarted <= Len(Consumers[t])
  BY <1>1, OwnTarget DEF IInv, OpOK, Working, WorkingOK
<1>3. x # Absent
  BY AbsentAssumption
<1>4. /\ at'[o] = w /\ doc'[o] = x /\ rows'[o] \in {rows[o], x}
      /\ rows' = rows \/ rows'[o] = x
      /\ \A p \in OpId \ {o} : rows'[p] = rows[p] /\ doc'[p] = doc[p] /\ at'[p] = at[p]
  BY DEF IInv, TypeOK, Go
<1>5. TypeOK'
  <2>1. doc' \in [OpId -> Update \union {Absent}] /\ rows' \in [OpId -> Update \union {Absent}]
    BY DEF IInv, TypeOK
  <2>2. \A p \in OpId : doc'[p] # Absent => doc'[p].restarted <= Len(Consumers[doc'[p].target])
    BY <1>1, <1>2, <1>4 DEF IInv, TypeOK
  <2>3. at' \in [OpId -> {"none", "claim", "apply", "next", "restart", "health", "raise",
                          "rollback", "end"}]
    BY DEF IInv, TypeOK, Go
  <2> QED BY <2>1, <2>2, <2>3 DEF IInv, TypeOK
<1>6. Held(o)' /\ rows'[o].target = t
  BY <1>1, <1>2, <1>3, <1>4 DEF Held, WorkingOK
<1>7. WorkingOK(o)'
  <2>1. (at[o] \in {"next", "restart", "health"} => Loads(o, doc[o].target, doc[o].restarted))'
    BY <1>4 DEF Loads
  <2>2. (at[o] = "restart" => ConsumersLeft(o))'
    BY <1>4 DEF ConsumersLeft
  <2>3. (at[o] = "end" => /\ doc[o].state \in EndStates
                          /\ doc[o].state = "succeeded" => Loads(o, doc[o].target, Len(Consumers[doc[o].target])))'
    BY <1>4 DEF Loads
  <2> QED BY <1>1, <1>4, <1>6, <2>1, <2>2, <2>3 DEF WorkingOK
<1>8. OpOK(o)'
  BY <1>2, <1>3, <1>4, <1>6, <1>7, StillWorking
<1>9. rows'[o] # Absent
  BY <1>2, <1>3, <1>4
<1> QED BY <1>4, <1>5, <1>8, <1>9, OwnStep

LEMMA CheckDeadlineStep ==
    ASSUME IInv, NEW o \in OpId, CheckDeadline(o)
    PROVE  IInv'
<1> USE DEF CheckDeadline
<1>1. Working(o) /\ UNCHANGED <<latest, approvals, previous, cancelled, marking, material, loaded>>
  BY DEF Working, outside
<1>2. PICK d \in Update : d = doc[o]
  BY <1>1, OwnTarget
<1>3. Loads(o, d.target, d.restarted)
  BY <1>1, <1>2, OwnTarget DEF WorkingOK
<1>4. CASE Save(o, [doc[o] EXCEPT !.state = "restarting"]) /\ Go(o, "restart")
  <2>1. PICK x : x = [d EXCEPT !.state = "restarting"]
    OBVIOUS
  <2>2. /\ x \in Update /\ x.state = "restarting"
        /\ x.target = d.target /\ x.restarted = d.restarted
    BY <2>1 DEF Update, ActiveStates
  <2>3. doc' = [doc EXCEPT ![o] = x] /\ rows' = [rows EXCEPT ![o] = x]
    BY <1>2, <1>4, <2>1 DEF Save
  <2> QED BY <1>1, <1>2, <1>3, <1>4, <2>2, <2>3, QuietStep DEF ActiveStates
<1>5. CASE Go(o, "raise") /\ UNCHANGED <<rows, doc>>
  <2>1. doc' = [doc EXCEPT ![o] = d]
    BY <1>2, <1>5 DEF IInv, TypeOK
  <2>2. material[d.target] = o
    BY <1>3 DEF Loads
  <2> QED BY <1>1, <1>2, <1>5, <2>1, <2>2, QuietStep
<1> QED BY <1>4, <1>5

LEMMA HealthStep ==
    ASSUME IInv, NEW o \in OpId, Health(o)
    PROVE  IInv'
<1> USE DEF Health
<1>1. Working(o) /\ UNCHANGED <<latest, approvals, previous, cancelled, marking, material, loaded>>
  BY DEF Working, outside
<1>2. PICK d \in Update : d = doc[o]
  BY <1>1, OwnTarget
<1>3. Loads(o, d.target, d.restarted)
  BY <1>1, <1>2, OwnTarget DEF WorkingOK
<1>4. material[d.target] = o
  BY <1>3 DEF Loads
<1>5. doc' = [doc EXCEPT ![o] = d] /\ rows' = rows
  BY <1>2 DEF IInv, TypeOK
<1>6. PICK w \in {"next", "raise"} : Go(o, w)
  OBVIOUS
<1> QED BY <1>1, <1>2, <1>3, <1>4, <1>5, <1>6, QuietStep

LEMMA SucceedStep ==
    ASSUME IInv, NEW o \in OpId, Succeed(o)
    PROVE  IInv'
<1> USE DEF Succeed
<1>1. Working(o) /\ UNCHANGED <<latest, approvals, previous, cancelled, marking, material, loaded>>
  BY DEF Working, outside
<1>2. PICK d \in Update : d = doc[o]
  BY <1>1, OwnTarget
<1>3. PICK x : x = [d EXCEPT !.state = "succeeded"]
  OBVIOUS
<1>4. /\ x \in Update /\ x.state = "succeeded"
      /\ x.target = d.target /\ x.restarted = d.restarted
  BY <1>3 DEF Update, EndStates
<1>5. doc' = [doc EXCEPT ![o] = x] /\ rows' = rows
  BY <1>2, <1>3 DEF IInv, TypeOK
<1>6. Loads(o, d.target, d.restarted)
  BY <1>1, <1>2, OwnTarget DEF WorkingOK
<1>7. d.restarted = Len(Consumers[d.target])
  <2>1. /\ d.restarted <= Len(Consumers[d.target]) /\ d.restarted \in Nat
        /\ Consumers[d.target] \in Seq(Consumer)
    BY <1>1, <1>2, OwnTarget
  <2> QED BY <1>2, <2>1 DEF ConsumersLeft
<1>8. Loads(o, x.target, Len(Consumers[x.target]))
  BY <1>4, <1>6, <1>7
<1>9. Go(o, "end") /\ x.target = doc[o].target /\ x.restarted = doc[o].restarted
  BY <1>2, <1>4
<1> HIDE DEF Succeed
<1> QED BY <1>1, <1>4, <1>5, <1>8, <1>9, QuietStep DEF EndStates

LEMMA RaiseStep ==
    ASSUME IInv, NEW o \in OpId, Raise(o)
    PROVE  IInv'
<1> USE DEF Raise
<1>1. Working(o) /\ UNCHANGED <<latest, approvals, previous, cancelled, marking, material, loaded>>
  BY DEF Working, outside
<1>2. PICK d \in Update : d = doc[o]
  BY <1>1, OwnTarget
<1>3. CASE previous[o] = Absent
  <2>1. PICK x : x = [d EXCEPT !.state = "failed"]
    OBVIOUS
  <2>2. /\ x \in Update /\ x.state = "failed"
        /\ x.target = d.target /\ x.restarted = d.restarted
    BY <2>1 DEF Update, EndStates
  <2>3. doc' = [doc EXCEPT ![o] = x] /\ rows' = rows
    BY <1>2, <1>3, <2>1 DEF IInv, TypeOK
  <2> QED BY <1>1, <1>2, <1>3, <2>2, <2>3, QuietStep DEF EndStates
<1>4. CASE previous[o] # Absent
  <2>1. PICK x : x = [d EXCEPT !.state = "rolling-back"]
    OBVIOUS
  <2>2. /\ x \in Update /\ x.state = "rolling-back"
        /\ x.target = d.target /\ x.restarted = d.restarted
    BY <2>1 DEF Update, ActiveStates
  <2>3. doc' = [doc EXCEPT ![o] = x] /\ rows' = [rows EXCEPT ![o] = x]
    BY <1>2, <1>4, <2>1 DEF Save, RollingBack
  <2>4. material[d.target] = o
    BY <1>1, <1>2, <1>4, OwnTarget DEF WorkingOK
  <2> QED BY <1>1, <1>2, <1>4, <2>2, <2>3, <2>4, QuietStep DEF ActiveStates
<1> QED BY <1>3, <1>4

\* A consumer restarts: it now runs with the material in force.
LEMMA RestartedStep ==
    ASSUME IInv, NEW o \in OpId, Restarted(o) \/ RestartFailed(o)
    PROVE  IInv'
<1> USE DEF Restarted, RestartFailed
<1>1. Working(o) /\ UNCHANGED <<latest, approvals, previous, cancelled, marking, material>>
  BY DEF Working
<1>2. PICK d \in Update, t \in Target : d = doc[o] /\ t = d.target
  BY <1>1, OwnTarget
<1>3. /\ WorkingOK(o) /\ rows[o] # Absent /\ latest[t] = o /\ rows[o].target = t
      /\ doc[o] # Absent /\ d.restarted \in Nat /\ d.restarted < Len(Consumers[t])
      /\ Loads(o, t, d.restarted) /\ Consumers[t] \in Seq(Consumer)
  BY <1>1, <1>2, OwnTarget DEF WorkingOK, ConsumersLeft
<1> DEFINE c == Consumers[t][d.restarted + 1]
<1>4. c \in Consumer /\ c = NextConsumer(o)
  BY <1>2, <1>3 DEF NextConsumer
<1> HIDE DEF c
<1>5. loaded' \in {loaded, [loaded EXCEPT ![c] = material]}
  BY <1>4 DEF Restart
<1>6. \A e \in Consumer, u \in Target : loaded'[e][u] \in {loaded[e][u], material[u]}
  BY <1>4, <1>5 DEF IInv, TypeOK
<1>7. Loads(o, t, d.restarted)'
  BY <1>1, <1>3, <1>6, LoadsKept
<1>8. loaded' \in [Consumer -> [Target -> Material]]
  BY <1>4, <1>5 DEF IInv, TypeOK
<1>9. CASE Restarted(o)
  <2>1. PICK x : x = [d EXCEPT !.state = "verifying", !.restarted = d.restarted + 1]
    OBVIOUS
  <2>2. /\ x \in Update /\ x.state = "verifying" /\ x.target = t
        /\ x.restarted = d.restarted + 1
    <3>1. d.restarted + 1 \in Nat
      BY <1>3
    <3> HIDE DEF Restarted, RestartFailed
    <3> QED BY <1>2, <2>1, <3>1 DEF Update, ActiveStates
  <2>3. /\ doc' = [doc EXCEPT ![o] = x] /\ rows' = [rows EXCEPT ![o] = x]
        /\ at' = [at EXCEPT ![o] = "health"] /\ loaded' = [loaded EXCEPT ![c] = material]
    BY <1>2, <1>4, <1>9, <2>1 DEF Save, Go, Count, Restart
  <2>4. x # Absent
    BY <2>2, AbsentAssumption
  <2>5. /\ at'[o] = "health" /\ doc'[o] = x /\ rows'[o] = x
        /\ \A p \in OpId \ {o} : rows'[p] = rows[p] /\ doc'[p] = doc[p] /\ at'[p] = at[p]
    BY <2>3 DEF IInv, TypeOK
  <2>6. TypeOK'
    <3>1. \A p \in OpId : doc'[p] # Absent => doc'[p].restarted <= Len(Consumers[doc'[p].target])
      BY <1>2, <1>3, <2>2, <2>5 DEF IInv, TypeOK
    <3> QED BY <1>1, <1>8, <2>2, <2>3, <3>1 DEF IInv, TypeOK
  <2>7. Loads(o, t, d.restarted + 1)'
    <3>1. loaded'[c][t] = o
      BY <1>3, <1>4, <2>3 DEF IInv, TypeOK, Loads
    <3>2. \A i \in 1..(d.restarted + 1) : i \in 1..d.restarted \/ i = d.restarted + 1
      BY <1>3
    <3> QED BY <1>7, <3>1, <3>2 DEF Loads, c
  <2>8. WorkingOK(o)'
    BY <2>2, <2>4, <2>5, <2>7 DEF WorkingOK, Held, ActiveStates, Loads
  <2>9. OpOK(o)'
    BY <1>1, <1>3, <2>2, <2>4, <2>5, <2>8, StillWorking
  <2> QED BY <1>1, <1>6, <2>4, <2>5, <2>6, <2>9, OwnStep
<1>10. CASE RestartFailed(o)
  <2>1. /\ UNCHANGED <<rows, doc>> /\ at'[o] = "raise"
        /\ \A p \in OpId \ {o} : at'[p] = at[p]
    BY <1>10 DEF IInv, TypeOK, Go
  <2>2. TypeOK'
    BY <1>1, <1>8, <1>10 DEF IInv, TypeOK, Go
  <2>3. material'[t] = o
    BY <1>7 DEF Loads
  <2>4. WorkingOK(o)'
    BY <1>2, <1>3, <2>1, <2>3 DEF WorkingOK, Held
  <2>5. OpOK(o)'
    BY <1>1, <1>2, <1>3, <2>1, <2>4, StillWorking
  <2> QED BY <1>1, <1>6, <2>1, <2>2, <2>5, OwnStep
<1> QED BY <1>9, <1>10

LEMMA RollbackStep ==
    ASSUME IInv, NEW o \in OpId, Rollback(o)
    PROVE  IInv'
<1> USE DEF Rollback
<1>1. Working(o) /\ UNCHANGED <<rows, latest, approvals, previous, cancelled, marking, loaded>>
  BY DEF Working
<1>2. PICK d \in Update, t \in Target : d = doc[o] /\ t = d.target
  BY <1>1, OwnTarget
<1>3. /\ WorkingOK(o) /\ rows[o] # Absent /\ latest[t] = o /\ rows[o].target = t
      /\ d.restarted \in Nat /\ d.restarted <= Len(Consumers[t])
  BY <1>1, <1>2, OwnTarget DEF WorkingOK
<1>4. PICK ok \in BOOLEAN :
          /\ Revert(o) \/ (~ok /\ UNCHANGED material)
          /\ doc' = [doc EXCEPT ![o].state = RollbackResult(o, ok)]
  OBVIOUS
<1>5. PICK s \in {"rolled-back", "recovery-required"} : s = RollbackResult(o, ok)
  BY DEF RollbackResult
<1>6. PICK x : x = [d EXCEPT !.state = s]
  OBVIOUS
<1>7. /\ x \in Update /\ x.state = s /\ x.target = t /\ x.restarted = d.restarted
  BY <1>2, <1>6 DEF Update, EndStates
<1>8. doc' = [doc EXCEPT ![o] = x] /\ at' = [at EXCEPT ![o] = "end"]
  BY <1>2, <1>4, <1>5, <1>6 DEF IInv, TypeOK, Go
<1>9. x # Absent
  BY <1>7, AbsentAssumption
<1>10. /\ doc'[o] = x /\ at'[o] = "end"
       /\ \A p \in OpId \ {o} : doc'[p] = doc[p] /\ at'[p] = at[p]
  BY <1>8 DEF IInv, TypeOK
<1>11. /\ material' \in [Target -> Material]
       /\ \A u \in Target \ {t} : material'[u] = material[u]
  <2>1. previous[o] \in Material
    BY <1>3 DEF IInv, TypeOK, WorkingOK
  <2> QED BY <1>2, <1>4, <2>1 DEF IInv, TypeOK, Revert
<1>12. TypeOK'
  <2>1. \A p \in OpId : doc'[p] # Absent => doc'[p].restarted <= Len(Consumers[doc'[p].target])
    <3>1. doc'[o].restarted <= Len(Consumers[doc'[o].target])
      BY <1>2, <1>3, <1>7, <1>10
    <3> HIDE DEF Rollback
    <3> QED BY <1>10, <3>1 DEF IInv, TypeOK
  <2> QED BY <1>1, <1>7, <1>8, <1>11, <2>1 DEF IInv, TypeOK
<1>13. WorkingOK(o)'
  BY <1>1, <1>2, <1>3, <1>7, <1>9, <1>10 DEF WorkingOK, Held, EndStates
<1>14. OpOK(o)'
  BY <1>1, <1>3, <1>9, <1>10, <1>13, StillWorking
<1> QED BY <1>1, <1>3, <1>10, <1>11, <1>12, <1>14, OwnStep

LEMMA EndStep ==
    ASSUME IInv, NEW o \in OpId, End(o)
    PROVE  IInv'
<1> USE DEF End
<1>1. Working(o) /\ UNCHANGED <<latest, approvals, marking, material, loaded>>
  BY DEF Working, outside
<1>2. PICK d \in Update, t \in Target : d = doc[o] /\ t = d.target
  BY <1>1, OwnTarget
<1>3. /\ latest[t] = o /\ d # Absent /\ d.state \in EndStates
      /\ d.state = "succeeded" => Loads(o, t, Len(Consumers[t]))
  BY <1>1, <1>2, OwnTarget DEF WorkingOK
<1>4. /\ rows' = [rows EXCEPT ![o] = d] /\ doc' = [doc EXCEPT ![o] = Absent]
      /\ at' = [at EXCEPT ![o] = "none"] /\ previous' = [previous EXCEPT ![o] = Absent]
      /\ cancelled' = cancelled \ {o}
  BY <1>2 DEF Go
<1>5. /\ rows'[o] = d /\ doc'[o] = Absent /\ at'[o] = "none" /\ previous'[o] = Absent
      /\ \A p \in OpId \ {o} : /\ rows'[p] = rows[p] /\ doc'[p] = doc[p]
                               /\ at'[p] = at[p] /\ previous'[p] = previous[p]
  BY <1>4 DEF IInv, TypeOK
<1>6. TypeOK'
  <2>1. \A p \in OpId : doc'[p] # Absent => doc'[p].restarted <= Len(Consumers[doc'[p].target])
    BY <1>5 DEF IInv, TypeOK
  <2> HIDE DEF End
  <2> QED BY <1>1, <1>4, <2>1 DEF IInv, TypeOK
<1>7. OpOK(o)'
  <2> HIDE DEF End
  <2> QED BY <1>1, <1>2, <1>3, <1>5 DEF OpOK, Working, Held, Loads, ActiveStates, EndStates
<1> HIDE DEF End
<1> QED BY <1>1, <1>3, <1>5, <1>6, <1>7, OwnStep

LEMMA ThreadStepInvariant ==
    ASSUME IInv, NEW o \in OpId, ThreadStep(o)
    PROVE  IInv'
BY ClaimStep, ApplyStep, CheckDeadlineStep, RestartedStep, HealthStep, SucceedStep,
   RaiseStep, RollbackStep, EndStep DEF ThreadStep

------------------------------------------------------------------------------
(* Requests, and the end of the process                                    *)

\* What nothing but the approvals, the cancellations and types depends on.
LEMMA FrameStep ==
    ASSUME IInv, TypeOK', UNCHANGED <<rows, latest, doc, at, previous, material, loaded>>
    PROVE  IInv'
<1>1. ASSUME NEW o \in OpId PROVE OpOK(o)'
  <2>1. OpOK(o)
    BY DEF IInv
  <2>2. (Working(o) => WorkingOK(o))'
    BY <2>1 DEF OpOK, Working, WorkingOK, Held, Loads, ConsumersLeft
  <2> QED BY <2>1, <2>2 DEF OpOK, Working, Held, Loads
<1> QED BY <1>1 DEF IInv

LEMMA RequestApprovalStep ==
    ASSUME IInv, NEW a \in ApprovalId, NEW t \in Target, NEW s \in SourceType,
           RequestApproval(a, t, s)
    PROVE  IInv'
<1> USE DEF RequestApproval
<1>1. CurrentState(t) \in ActiveStates \union EndStates \union {"unmanaged"}
  <2>1. ASSUME latest[t] # Absent PROVE rows[latest[t]] \in Update
    BY <2>1 DEF IInv, TypeOK
  <2> QED BY <2>1 DEF CurrentState, Update
<1>2. [target |-> t, source |-> s, seen |-> CurrentState(t)] \in Approval
  BY <1>1 DEF Approval
<1>3. UNCHANGED <<rows, latest, doc, at, previous, cancelled, marking, material, loaded>>
  BY DEF outside
<1>4. TypeOK'
  BY <1>2, <1>3 DEF IInv, TypeOK
<1> QED BY <1>3, <1>4, FrameStep

LEMMA CancelStep ==
    ASSUME IInv, NEW o \in OpId, CancelRead(o) \/ CancelMark(o)
    PROVE  IInv'
<1>1. UNCHANGED <<rows, latest, approvals, doc, at, previous, material, loaded>>
  BY DEF CancelRead, CancelMark, outside
<1>2. cancelled' \subseteq OpId /\ marking' \subseteq OpId
  BY DEF CancelRead, CancelMark, IInv, TypeOK
<1>3. TypeOK'
  BY <1>1, <1>2 DEF IInv, TypeOK
<1> QED BY <1>1, <1>3, FrameStep

LEMMA AuthorizeStep ==
    ASSUME IInv, NEW o \in OpId, NEW a \in ApprovalId, NEW confirmed \in BOOLEAN,
           Authorize(o, a, confirmed)
    PROVE  IInv'
<1>1. /\ at[o] = "none" /\ rows[o] = Absent
      /\ UNCHANGED <<rows, latest, previous, cancelled, marking, material, loaded>>
      /\ approvals' = [approvals EXCEPT ![a] = Used] /\ at' = [at EXCEPT ![o] = "claim"]
  BY DEF Authorize, outside
<1>2. PICK t \in Target : t = approvals[a].target
  BY DEF Authorize, IInv, TypeOK, Approval
<1>3. PICK d : d = [target |-> t, state |-> "applying", restarted |-> 0]
  OBVIOUS
<1>4. /\ d \in Update /\ d.target = t /\ d.state = "applying" /\ d.restarted = 0
      /\ doc' = [doc EXCEPT ![o] = d]
  BY <1>2, <1>3 DEF Authorize, Update, ActiveStates
<1>5. d # Absent
  BY <1>4, AbsentAssumption
<1>6. /\ at'[o] = "claim" /\ doc'[o] = d
      /\ \A p \in OpId \ {o} : doc'[p] = doc[p] /\ at'[p] = at[p]
  BY <1>1, <1>4 DEF IInv, TypeOK
<1>7. TypeOK'
  <2>1. Len(Consumers[t]) \in Nat
    BY SecretAssumption
  <2>2. \A p \in OpId : doc'[p] # Absent => doc'[p].restarted <= Len(Consumers[doc'[p].target])
    BY <1>4, <1>6, <2>1 DEF IInv, TypeOK
  <2> QED BY <1>1, <1>4, <2>2 DEF IInv, TypeOK
<1>8. OpOK(o)'
  <2>1. OpOK(o)
    BY DEF IInv
  <2> QED BY <1>1, <1>4, <1>5, <1>6, <2>1 DEF OpOK, Working, Held
<1> QED BY <1>1, <1>6, <1>7, <1>8, OwnStep

LEMMA ManagerRestartStep ==
    ASSUME IInv, ManagerRestart
    PROVE  IInv'
<1> USE DEF ManagerRestart
<1>1. ASSUME NEW o \in OpId
      PROVE  /\ rows'[o] \in Update \union {Absent}
             /\ rows[o] # Absent => rows'[o] # Absent
             /\ (rows'[o] = rows[o] /\ ~Held(o)) \/ rows'[o].state = "interrupted"
             /\ ~Held(o)'
  <2>1. CASE Held(o)
    <3>1. rows[o] \in Update /\ rows'[o] = [rows[o] EXCEPT !.state = "interrupted"]
      BY <2>1 DEF IInv, TypeOK, Held
    <3>2. rows'[o] \in Update /\ rows'[o].state = "interrupted"
      BY <3>1 DEF Update, EndStates
    <3> QED BY <3>2, AbsentAssumption DEF Held, ActiveStates
  <2>2. CASE ~Held(o)
    <3>1. rows'[o] = rows[o]
      BY <2>2 DEF Held
    <3> QED BY <2>2, <3>1 DEF IInv, TypeOK, Held
  <2> QED BY <2>1, <2>2
<1>2. UNCHANGED <<latest, approvals, material, loaded>>
  BY DEF outside
<1>3. TypeOK'
  <2>1. rows' \in [OpId -> Update \union {Absent}]
    BY <1>1
  <2> QED BY <1>2, <2>1 DEF IInv, TypeOK
<1>4. ASSUME NEW o \in OpId PROVE OpOK(o)'
  <2>1. OpOK(o) /\ at'[o] = "none" /\ previous'[o] = Absent
    BY DEF IInv
  <2>2. (rows[o] # Absent /\ rows[o].state = "succeeded" /\ latest[rows[o].target] = o =>
            Loads(o, rows[o].target, Len(Consumers[rows[o].target])))'
    BY <1>1, <1>2, <2>1 DEF OpOK, Loads
  <2> QED BY <1>1, <2>1, <2>2 DEF OpOK, Working
<1>5. ASSUME NEW t \in Target, latest'[t] # Absent PROVE rows'[latest'[t]] # Absent
  <2>1. latest'[t] = latest[t] /\ rows[latest[t]] # Absent /\ latest[t] \in OpId
    BY <1>2, <1>5 DEF IInv, TypeOK
  <2> QED BY <1>1, <2>1
<1> QED BY <1>3, <1>4, <1>5 DEF IInv

------------------------------------------------------------------------------
(* The theorems                                                            *)

\* The invariant above holds in every state: of request threads in any number,
\* whatever the adapter and the consumers do, across restarts.
THEOREM Invariance == Spec => []IInv
<1>1. IInv /\ [Next]_vars => IInv'
  <2> SUFFICES ASSUME IInv, [Next]_vars PROVE IInv'
    OBVIOUS
  <2>1. ASSUME NEW a \in ApprovalId, NEW t \in Target, NEW s \in SourceType,
               RequestApproval(a, t, s)
        PROVE  IInv'
    BY <2>1, RequestApprovalStep
  <2>2. ASSUME NEW o \in OpId, NEW a \in ApprovalId, NEW confirmed \in BOOLEAN,
               Authorize(o, a, confirmed)
        PROVE  IInv'
    BY <2>2, AuthorizeStep
  <2>3. ASSUME NEW o \in OpId, ThreadStep(o) \/ CancelRead(o) \/ CancelMark(o)
        PROVE  IInv'
    BY <2>3, ThreadStepInvariant, CancelStep
  <2>4. CASE ManagerRestart
    BY <2>4, ManagerRestartStep
  <2>5. CASE UNCHANGED vars
    BY <2>5, FrameStep DEF vars, IInv, TypeOK
  <2> QED BY <2>1, <2>2, <2>3, <2>4, <2>5 DEF Next
<1> QED BY InitInvariant, <1>1, PTL DEF Spec

\* Rows, approvals, documents and the state outside keep their types; a thread
\* never restarts more consumers than the target has.
THEOREM TypeCorrectness == Spec => []TypeOK
<1>1. IInv => TypeOK
  BY DEF IInv
<1> QED BY Invariance, <1>1, PTL

\* replace never runs twice for one target at a time, although the
\* authorization is not under the lock of the claim.
THEOREM ExclusiveUpdates == Spec => []OneUpdatePerTarget
<1>1. IInv => OneUpdatePerTarget
  BY DEF IInv, OpOK, OneUpdatePerTarget
<1> QED BY Invariance, <1>1, PTL

\* What replace records as succeeded is in force and loaded by every consumer
\* of the target until the target is replaced again.
THEOREM SuccessIsInForce == Spec => []SucceededIsLoaded
<1>1. IInv => SucceededIsLoaded
  <2> SUFFICES ASSUME IInv, NEW o \in OpId, rows[o] # Absent, rows[o].state = "succeeded",
                      latest[rows[o].target] = o
               PROVE  LET t == rows[o].target IN
                      /\ material[t] = o
                      /\ \A i \in DOMAIN Consumers[t] : loaded[Consumers[t][i]][t] = o
    BY DEF SucceededIsLoaded
  <2>1. PICK t \in Target : t = rows[o].target
    BY DEF IInv, TypeOK, Update
  <2>2. Loads(o, t, Len(Consumers[t]))
    BY <2>1 DEF IInv, OpOK
  <2>3. DOMAIN Consumers[t] = 1..Len(Consumers[t])
    BY SecretAssumption
  <2> QED BY <2>1, <2>2, <2>3 DEF Loads
<1> QED BY Invariance, <1>1, PTL

\* The except clause of replace restores the previous revision only over the
\* material that the same thread has put in place.
THEOREM OwnRollback == Spec => RollbackUndoesOwnWork
<1>1. IInv => \A o \in OpId : at[o] = "rollback" => material[doc[o].target] = o
  BY DEF IInv, OpOK, Working, WorkingOK
<1>2. ASSUME IInv
      PROVE  [\A o \in OpId : at[o] = "rollback" /\ at'[o] = "end" /\ material' # material =>
                 material[doc[o].target] = o]_vars
  BY <1>1, <1>2
<1> QED BY Invariance, <1>2, PTL DEF RollbackUndoesOwnWork
==============================================================================
