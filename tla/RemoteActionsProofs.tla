-------------------------- MODULE RemoteActionsProofs --------------------------
(***************************************************************************)
(* For every number of buttons, plans, operations and threads: types,       *)
(* PendingIsUnused, AnswersAgree and the promise SingleUse.                 *)
(*                                                                         *)
(* A plan has one Approve button and a button that executes has one thread, *)
(* so the approval of a plan is consumed by that thread alone; from then on *)
(* nothing that execute takes for an outage can happen to it.               *)
(***************************************************************************)
EXTENDS RemoteActions, TLAPS

------------------------------------------------------------------------------
(* The invariant                                                           *)

Button(t, action) == callbacks[t] # None /\ callbacks[t].action = action

\* No operation was created with t.
NotUsed(t) == \A o \in Operation : operations[o] # None => operations[o].by # t

CallbackOK(t) ==
    /\ callbacks[t] = None => NotUsed(t)
    /\ Button(t, "approve") \/ Button(t, "reject") =>
          callbacks[t].ref \in Plan /\ stage[callbacks[t].ref] # "absent"
    /\ callbacks[t] # None /\ callbacks[t].state = "pending" => NotUsed(t)
    /\ Button(t, "approve") /\ callbacks[t].state = "pending" => stage[callbacks[t].ref] # "consumed"
    /\ Button(t, "approve") /\ callbacks[t].answer = "done" => stage[callbacks[t].ref] = "consumed"
    /\ Button(t, "reject") /\ callbacks[t].answer = "done" => stage[callbacks[t].ref] = "revoked"
    /\ Button(t, "cancel") => callbacks[t].ref \in Operation /\ operations[callbacks[t].ref] # None
    /\ Button(t, "retry") => callbacks[t].ref \in Operation /\ operations[callbacks[t].ref] # None

\* Thread h releases its callback, or may have to.
Releases(h) ==
    \/ handler[h].at \notin {"create", "queued", "finish"}
    \/ handler[h].at = "finish" /\ handler[h].result \in Retryable

HandlerOK(h) ==
    LET t == handler[h].token IN
    /\ callbacks[t] # None /\ callbacks[t].state = "executing"
    /\ handler[h].at \in {"approve", "submit", "create"} => Button(t, "approve")
    /\ handler[h].at = "reject" => Button(t, "reject")
    /\ handler[h].at = "queued" => ~Button(t, "reject")
    /\ handler[h].at \in RecoveryKind => Button(t, handler[h].at)
    /\ Releases(h) \/ handler[h].at = "create" => NotUsed(t)
    /\ Button(t, "approve") =>
          /\ Releases(h) => stage[Ref(h)] # "consumed"
          /\ handler[h].at \in {"create", "queued"} => stage[Ref(h)] = "consumed"
          /\ handler[h].at = "create" => uses[Ref(h)] = 0
          /\ handler[h].at = "finish" /\ handler[h].result = "done" => stage[Ref(h)] = "consumed"
    /\ Button(t, "reject") /\ handler[h].at = "finish" /\ handler[h].result = "done" =>
          stage[Ref(h)] = "revoked"

\* A button executes in one thread.
OneThread ==
    \A g, h \in Handler : handler[g] # Idle /\ handler[h] # Idle
                          /\ handler[g].token = handler[h].token => g = h

\* A plan has one Approve button.
OneButton ==
    \A t, u \in Token : Button(t, "approve") /\ Button(u, "approve")
                        /\ callbacks[t].ref = callbacks[u].ref => t = u

IInv ==
    /\ TypeOK
    /\ \A t \in Token : CallbackOK(t)
    /\ \A h \in Handler : handler[h] # Idle => HandlerOK(h)
    /\ OneThread /\ OneButton
    /\ \A p \in Plan : /\ stage[p] # "consumed" => uses[p] = 0
                       /\ stage[p] # "absent" => plans[p] # None

LEMMA InitInvariant == Init => IInv
<1> SUFFICES ASSUME Init PROVE IInv
  OBVIOUS
<1>1. TypeOK
  BY RemoteAssumption DEF Init, TypeOK
<1>2. \A t \in Token : CallbackOK(t) /\ ~Button(t, "approve")
  BY DEF Init, CallbackOK, Button, NotUsed
<1> QED BY <1>1, <1>2 DEF IInv, Init, OneThread, OneButton

------------------------------------------------------------------------------
(* What a step leaves to the other buttons and threads                     *)

\* Every step of every thread keeps a decision that was taken.
StageKept ==
    \A p \in Plan : /\ stage[p] # "absent" => stage'[p] # "absent"
                    /\ stage[p] = "consumed" => stage'[p] = "consumed"
                    /\ stage[p] = "revoked" => stage'[p] = "revoked"

RowsKept == \A o \in Operation : operations[o] # None => operations'[o] # None

LEMMA CallbackFrame ==
    ASSUME NEW t \in Token, TypeOK, CallbackOK(t), StageKept, RowsKept, callbacks'[t] = callbacks[t],
           callbacks[t] = None \/ callbacks[t].state = "pending" => (NotUsed(t) => NotUsed(t)'),
           Button(t, "approve") /\ callbacks[t].state = "pending" /\ stage[callbacks[t].ref] # "consumed" =>
               stage'[callbacks[t].ref] # "consumed"
    PROVE  CallbackOK(t)'
<1>1. \A a : Button(t, a)' <=> Button(t, a)
  BY DEF Button
<1> QED BY <1>1 DEF CallbackOK, StageKept, RowsKept

LEMMA HandlerFrame ==
    ASSUME NEW h \in Handler, TypeOK, handler[h] # Idle, HandlerOK(h), CallbackOK(handler[h].token),
           StageKept, handler'[h] = handler[h],
           callbacks'[handler[h].token] = callbacks[handler[h].token],
           NotUsed(handler[h].token) => NotUsed(handler[h].token)',
           Button(handler[h].token, "approve") =>
               /\ stage[Ref(h)] # "consumed" => stage'[Ref(h)] # "consumed"
               /\ uses'[Ref(h)] = uses[Ref(h)]
    PROVE  HandlerOK(h)'
<1> DEFINE t == handler[h].token
<1>1. /\ t' = t /\ Ref(h)' = Ref(h) /\ (Releases(h)' <=> Releases(h))
      /\ \A a : Button(t, a)' <=> Button(t, a)
  BY DEF Button, Ref, Releases
<1>2. t \in Token
  BY DEF TypeOK, Executing
<1>3. Button(t, "approve") \/ Button(t, "reject") => Ref(h) \in Plan
  BY <1>2 DEF CallbackOK, Ref
<1>4. Button(t, "approve") =>
          /\ Releases(h) => stage'[Ref(h)] # "consumed"
          /\ handler[h].at \in {"create", "queued"} => stage'[Ref(h)] = "consumed"
          /\ handler[h].at = "create" => uses'[Ref(h)] = 0
          /\ handler[h].at = "finish" /\ handler[h].result = "done" => stage'[Ref(h)] = "consumed"
  BY <1>3 DEF HandlerOK, StageKept
<1>5. Button(t, "reject") /\ handler[h].at = "finish" /\ handler[h].result = "done" =>
          stage'[Ref(h)] = "revoked"
  BY <1>3 DEF HandlerOK, StageKept
<1> HIDE DEF t
<1> QED BY <1>1, <1>4, <1>5 DEF HandlerOK, t

\* What is known of a thread that executes a button.
LEMMA AtWork ==
    ASSUME IInv, NEW h \in Handler, handler[h] # Idle
    PROVE  /\ handler[h] \in Executing /\ handler[h].token \in Token
           /\ HandlerOK(h) /\ CallbackOK(handler[h].token)
           /\ callbacks[handler[h].token] \in Callback
           /\ callbacks[handler[h].token].state = "executing"
BY DEF IInv, TypeOK, Executing, HandlerOK

\* The form of every step of thread h.  Nobody else executes its button, and
\* no other button approves its plan.
LEMMA OwnStep ==
    ASSUME IInv, TypeOK', NEW h \in Handler, handler[h] # Idle,
           NEW t \in Token, t = handler[h].token,
           \A g \in Handler \ {h} : handler'[g] = handler[g],
           handler'[h] = Idle \/ (handler'[h].token = t /\ UNCHANGED callbacks),
           \A u \in Token \ {t} : /\ callbacks'[u] = callbacks[u]
                                  /\ NotUsed(u) => NotUsed(u)',
           callbacks'[t] # None, callbacks'[t].action = callbacks[t].action,
           callbacks'[t].ref = callbacks[t].ref,
           StageKept, RowsKept, UNCHANGED plans,
           \A p \in Plan : stage[p] = "absent" => stage'[p] = "absent",
           \A p \in Plan : stage'[p] = "consumed" =>
               stage[p] = "consumed" \/ (handler[h].at = "submit" /\ p = Ref(h)),
           \A p \in Plan : uses'[p] # uses[p] => handler[h].at = "create" /\ p = Ref(h),
           handler'[h] # Idle => HandlerOK(h)',
           handler'[h] = Idle => CallbackOK(t)'
    PROVE  IInv'
<1>1. HandlerOK(h) /\ CallbackOK(t) /\ callbacks[t] # None /\ callbacks[t].state = "executing"
  BY AtWork DEF HandlerOK
<1>2. handler[h].at \in {"submit", "create"} => Button(t, "approve") /\ Ref(h) = callbacks[t].ref
  BY <1>1 DEF HandlerOK, Ref
<1>3. ASSUME NEW u \in Token \ {t}, Button(u, "approve"), NEW p \in Plan, p = callbacks[u].ref
      PROVE  /\ stage[p] # "consumed" => stage'[p] # "consumed"
             /\ uses'[p] = uses[p]
  <2>1. handler[h].at \in {"submit", "create"} => p # Ref(h)
    BY <1>2, <1>3 DEF IInv, OneButton
  <2> QED BY <2>1
<1>4. ASSUME NEW u \in Token PROVE CallbackOK(u)'
  <2>1. CallbackOK(u)
    BY DEF IInv
  <2>2. CASE u = t
    <3>1. CASE handler'[h] = Idle
      BY <2>2, <3>1
    <3>2. CASE handler'[h] # Idle
      BY <1>1, <2>1, <2>2, <3>2, CallbackFrame DEF IInv
    <3> QED BY <3>1, <3>2
  <2>3. CASE u # t
    <3>1. Button(u, "approve") => callbacks[u].ref \in Plan
      BY <2>1 DEF CallbackOK
    <3>2. Button(u, "approve") /\ stage[callbacks[u].ref] # "consumed" =>
              stage'[callbacks[u].ref] # "consumed"
      BY <1>3, <2>3, <3>1
    <3> QED BY <2>1, <2>3, <3>2, CallbackFrame DEF IInv
  <2> QED BY <2>2, <2>3
<1>5. ASSUME NEW g \in Handler, handler'[g] # Idle PROVE HandlerOK(g)'
  <2>1. CASE g = h
    BY <1>5, <2>1
  <2>2. CASE g # h
    <3>1. handler'[g] = handler[g] /\ handler[g] # Idle
      BY <1>5, <2>2
    <3>2. /\ HandlerOK(g) /\ CallbackOK(handler[g].token) /\ handler[g].token \in Token \ {t}
      BY <2>2, <3>1, AtWork DEF IInv, OneThread
    <3>3. Button(handler[g].token, "approve") => Ref(g) \in Plan /\ Ref(g) = callbacks[handler[g].token].ref
      BY <3>2 DEF CallbackOK, Ref
    <3>4. Button(handler[g].token, "approve") =>
              /\ stage[Ref(g)] # "consumed" => stage'[Ref(g)] # "consumed"
              /\ uses'[Ref(g)] = uses[Ref(g)]
      BY <1>3, <3>2, <3>3
    <3>5. NotUsed(handler[g].token) => NotUsed(handler[g].token)'
      BY <3>1, <3>2 DEF NotUsed
    <3>6. callbacks'[handler[g].token] = callbacks[handler[g].token]
      BY <3>2
    <3> QED BY <3>1, <3>2, <3>4, <3>5, <3>6, HandlerFrame DEF IInv
  <2> QED BY <2>1, <2>2
<1>6. OneThread'
  BY DEF IInv, OneThread
<1>7. OneButton'
  <2>1. ASSUME NEW u \in Token, Button(u, "approve")'
        PROVE  Button(u, "approve") /\ callbacks'[u].ref = callbacks[u].ref
    BY <1>1, <2>1 DEF Button
  <2> QED BY <2>1 DEF IInv, OneButton
<1>8. ASSUME NEW p \in Plan
      PROVE  /\ stage'[p] # "consumed" => uses'[p] = 0
             /\ stage'[p] # "absent" => plans'[p] # None
  <2>1. handler[h].at = "create" => stage[Ref(h)] = "consumed"
    BY <1>1, <1>2 DEF HandlerOK
  <2>2. stage'[p] # "consumed" => stage[p] # "consumed" /\ uses'[p] = uses[p]
    BY <2>1 DEF StageKept
  <2> QED BY <2>2 DEF IInv
<1> QED BY <1>4, <1>5, <1>6, <1>7, <1>8 DEF IInv

------------------------------------------------------------------------------
(* The steps of a thread                                                   *)

LEMMA GotoFacts ==
    ASSUME IInv, NEW h \in Handler, handler[h] # Idle,
           NEW x \in {"submit", "create", "queued"}, Goto(h, x)
    PROVE  /\ handler' \in [Handler -> Executing \union {Idle}]
           /\ handler'[h] # Idle /\ handler'[h].at = x
           /\ handler'[h].token = handler[h].token
           /\ \A g \in Handler \ {h} : handler'[g] = handler[g]
<1>1. handler[h] \in Executing
  BY AtWork
<1>2. handler' = [handler EXCEPT ![h].at = x]
  BY DEF Goto
<1>3. handler'[h] = [handler[h] EXCEPT !.at = x] /\ \A g \in Handler \ {h} : handler'[g] = handler[g]
  BY <1>2 DEF IInv, TypeOK
<1>4. handler'[h] \in Executing /\ handler'[h].at = x /\ handler'[h].token = handler[h].token
  BY <1>1, <1>3 DEF Executing
<1>5. handler'[h] # Idle
  BY <1>4 DEF Idle
<1> QED BY <1>2, <1>3, <1>4, <1>5 DEF IInv, TypeOK

LEMMA ConcludeFacts ==
    ASSUME IInv, NEW h \in Handler, handler[h] # Idle,
           NEW r \in {"done", "unavailable", "refused", "broken"}, Conclude(h, r)
    PROVE  /\ handler' \in [Handler -> Executing \union {Idle}]
           /\ handler'[h] # Idle /\ handler'[h].at = "finish" /\ handler'[h].result = r
           /\ handler'[h].token = handler[h].token
           /\ \A g \in Handler \ {h} : handler'[g] = handler[g]
<1>1. handler[h] \in Executing
  BY AtWork
<1>2. handler' = [handler EXCEPT ![h].at = "finish", ![h].result = r]
  BY DEF Conclude
<1>3. /\ handler'[h] = [handler[h] EXCEPT !.at = "finish", !.result = r]
      /\ \A g \in Handler \ {h} : handler'[g] = handler[g]
  BY <1>2 DEF IInv, TypeOK
<1>4. /\ handler'[h] \in Executing /\ handler'[h].at = "finish" /\ handler'[h].result = r
      /\ handler'[h].token = handler[h].token
  BY <1>1, <1>3 DEF Executing, Answer
<1>5. handler'[h] # Idle
  BY <1>4 DEF Idle
<1> QED BY <1>2, <1>3, <1>4, <1>5 DEF IInv, TypeOK

\* A thread concludes: an outage is reported only while nothing has been
\* done, and success only when the plan is decided.
LEMMA ConcludeOK ==
    ASSUME IInv, NEW h \in Handler, handler[h] # Idle,
           NEW r \in {"done", "unavailable", "refused", "broken"}, Conclude(h, r), UNCHANGED callbacks,
           r = "unavailable" => Releases(h) /\ UNCHANGED <<stage, operations>>,
           r = "done" => /\ Button(handler[h].token, "approve") => stage'[Ref(h)] = "consumed"
                         /\ Button(handler[h].token, "reject") => stage'[Ref(h)] = "revoked"
    PROVE  HandlerOK(h)'
<1> DEFINE t == handler[h].token
<1>1. HandlerOK(h) /\ t \in Token
  BY AtWork
<1>2. handler'[h].at = "finish" /\ handler'[h].result = r /\ handler'[h].token = t
  BY ConcludeFacts
<1>3. /\ t' = t /\ Ref(h)' = Ref(h) /\ \A a : Button(t, a)' <=> Button(t, a)
  BY <1>2 DEF Button, Ref
<1>4. Releases(h)' <=> r = "unavailable"
  BY <1>2 DEF Releases, Retryable
<1>5. r = "unavailable" => NotUsed(t)' /\ (Button(t, "approve") => stage'[Ref(h)] # "consumed")
  BY <1>1, <1>3 DEF HandlerOK, NotUsed
<1> HIDE DEF t
<1>6. callbacks'[t] # None /\ callbacks'[t].state = "executing"
  BY <1>1 DEF HandlerOK, t
<1> QED BY <1>2, <1>3, <1>4, <1>5, <1>6 DEF HandlerOK, t, RecoveryKind

\* Reply, Refuse, Outage and Break: nothing else changes.
LEMMA ConcludeStep ==
    ASSUME IInv, NEW h \in Handler, handler[h] # Idle,
           NEW r \in {"done", "unavailable", "refused", "broken"}, Conclude(h, r),
           UNCHANGED <<stage, uses, plans, callbacks, operations, allowed, lab, now, bound>>,
           faults' \in Nat,
           r = "unavailable" => Releases(h),
           r = "done" => handler[h].at \in {"queued"} \union RecoveryKind
    PROVE  IInv'
<1>1. PICK t \in Token : t = handler[h].token
  BY AtWork
<1>2. HandlerOK(h) /\ callbacks[t] \in Callback /\ callbacks[t] # None
  BY <1>1, AtWork DEF HandlerOK
<1>3. handler[h].at \in {"queued"} \union RecoveryKind =>
          /\ Button(t, "approve") => stage[Ref(h)] = "consumed"
          /\ ~Button(t, "reject")
  BY <1>1, <1>2 DEF HandlerOK, Button, RecoveryKind
<1>4. HandlerOK(h)'
  BY <1>1, <1>3, ConcludeOK
<1>5. TypeOK'
  BY ConcludeFacts DEF IInv, TypeOK
<1>6. StageKept /\ RowsKept /\ \A u \in Token : NotUsed(u) => NotUsed(u)'
  BY DEF StageKept, RowsKept, NotUsed
<1> QED BY <1>1, <1>2, <1>4, <1>5, <1>6, ConcludeFacts, OwnStep

\* The plan of an Approve or Reject button.
LEMMA PlanOfButton ==
    ASSUME IInv, NEW h \in Handler, handler[h].at \in {"approve", "reject", "submit", "create"}
    PROVE  /\ handler[h] # Idle /\ HandlerOK(h) /\ Ref(h) \in Plan
           /\ stage[Ref(h)] # "absent" /\ plans[Ref(h)] \in PlanRow
           /\ handler[h].at # "reject" => Button(handler[h].token, "approve")
           /\ handler[h].at # "create" => NotUsed(handler[h].token)
<1>1. handler[h] # Idle
  BY DEF Idle
<1>2. HandlerOK(h) /\ CallbackOK(handler[h].token)
  BY <1>1, AtWork
<1>3. /\ Button(handler[h].token, "approve") \/ Button(handler[h].token, "reject")
      /\ handler[h].at # "reject" => Button(handler[h].token, "approve")
  BY <1>2 DEF HandlerOK
<1>4. Ref(h) \in Plan /\ stage[Ref(h)] # "absent"
  BY <1>2, <1>3 DEF CallbackOK, Ref
<1>5. plans[Ref(h)] \in PlanRow
  BY <1>4 DEF IInv, TypeOK
<1> QED BY <1>1, <1>2, <1>3, <1>4, <1>5 DEF HandlerOK, Releases

\* A step of h that moves the plan p of its button on.
LEMMA TransitionFacts ==
    ASSUME IInv, NEW p \in Plan, stage[p] \in {"pending", "approved"},
           NEW s \in {"approved", "revoked", "consumed"}, Transition(p, s)
    PROVE  /\ stage' \in [Plan -> {"absent", "pending", "approved", "revoked", "consumed"}]
           /\ stage'[p] = s /\ \A q \in Plan \ {p} : stage'[q] = stage[q]
           /\ StageKept /\ \A q \in Plan : stage[q] = "absent" => stage'[q] = "absent"
           /\ \A q \in Plan : stage'[q] = "consumed" => stage[q] = "consumed" \/ (s = "consumed" /\ q = p)
BY DEF IInv, TypeOK, Transition, StageKept

LEMMA ApproveStep ==
    ASSUME IInv, NEW h \in Handler, Approve(h)
    PROVE  IInv'
<1> USE DEF Approve, At
<1>1. PICK t \in Token, p \in Plan : t = handler[h].token /\ p = Ref(h)
  BY AtWork, PlanOfButton
<1>2. /\ handler[h] # Idle /\ HandlerOK(h) /\ Button(t, "approve") /\ NotUsed(t)
      /\ callbacks[t] # None /\ stage[p] # "consumed"
  BY <1>1, PlanOfButton DEF HandlerOK, Releases
<1>3. CASE Conclude(h, "refused") /\ UNCHANGED stage
  BY <1>2, <1>3, ConcludeStep DEF limits, IInv, TypeOK
<1>4. CASE /\ Goto(h, "submit")
           /\ UNCHANGED stage \/ (stage[p] = "pending" /\ Transition(p, "approved"))
  <2>1. /\ stage' \in [Plan -> {"absent", "pending", "approved", "revoked", "consumed"}]
        /\ StageKept /\ \A q \in Plan : stage[q] = "absent" => stage'[q] = "absent"
        /\ \A q \in Plan : stage'[q] = "consumed" => stage[q] = "consumed"
    <3>1. CASE UNCHANGED stage
      BY <3>1 DEF IInv, TypeOK, StageKept
    <3>2. CASE stage[p] = "pending" /\ Transition(p, "approved")
      BY <3>2, TransitionFacts
    <3> QED BY <1>4, <3>1, <3>2
  <2>2. TypeOK'
    BY <1>2, <1>4, <2>1, GotoFacts DEF IInv, TypeOK, limits
  <2>3. /\ handler'[h].at = "submit" /\ handler'[h].token = t /\ handler'[h] # Idle
        /\ \A g \in Handler \ {h} : handler'[g] = handler[g]
        /\ UNCHANGED <<uses, plans, callbacks, operations>>
    BY <1>1, <1>2, <1>4, GotoFacts
  <2>4. RowsKept /\ \A u \in Token : NotUsed(u) => NotUsed(u)'
    BY <2>3 DEF RowsKept, NotUsed
  <2>5. HandlerOK(h)'
    BY <1>1, <1>2, <2>1, <2>3, <2>4 DEF HandlerOK, Button, Ref, RecoveryKind
  <2> HIDE DEF Approve
  <2> QED BY <1>1, <1>2, <2>1, <2>2, <2>3, <2>4, <2>5, OwnStep
<1> QED BY <1>1, <1>3, <1>4

LEMMA RejectStep ==
    ASSUME IInv, NEW h \in Handler, Reject(h)
    PROVE  IInv'
<1> USE DEF Reject, At
<1>1. PICK t \in Token, p \in Plan : t = handler[h].token /\ p = Ref(h)
  BY AtWork, PlanOfButton
<1>2. /\ handler[h] # Idle /\ HandlerOK(h) /\ Button(t, "reject") /\ callbacks[t] # None
  BY <1>1, PlanOfButton DEF HandlerOK
<1>3. CASE stage[p] \notin Revocable
  <2>1. UNCHANGED stage /\ Conclude(h, "refused")
    BY <1>1, <1>3 DEF RevokeResult
  <2> QED BY <1>2, <2>1, ConcludeStep DEF limits, IInv, TypeOK
<1>4. CASE stage[p] \in Revocable
  <2>1. Transition(p, "revoked") /\ Conclude(h, "done")
    BY <1>1, <1>4 DEF RevokeResult
  <2>2. /\ stage' \in [Plan -> {"absent", "pending", "approved", "revoked", "consumed"}]
        /\ stage'[p] = "revoked"
        /\ StageKept /\ \A q \in Plan : stage[q] = "absent" => stage'[q] = "absent"
        /\ \A q \in Plan : stage'[q] = "consumed" => stage[q] = "consumed"
    BY <1>4, <2>1, TransitionFacts DEF Revocable
  <2>3. TypeOK'
    BY <1>2, <2>1, <2>2, ConcludeFacts DEF IInv, TypeOK, limits
  <2>4. /\ handler'[h].token = t /\ handler'[h] # Idle
        /\ \A g \in Handler \ {h} : handler'[g] = handler[g]
        /\ UNCHANGED <<uses, plans, callbacks, operations>>
    BY <1>1, <1>2, <2>1, ConcludeFacts
  <2>5. RowsKept /\ \A u \in Token : NotUsed(u) => NotUsed(u)'
    BY <2>4 DEF RowsKept, NotUsed
  <2>6. HandlerOK(h)'
    BY <1>1, <1>2, <2>1, <2>2, <2>4, ConcludeOK DEF Button
  <2> HIDE DEF Reject
  <2> QED BY <1>1, <1>2, <2>2, <2>3, <2>4, <2>5, <2>6, OwnStep
<1> QED BY <1>3, <1>4

LEMMA AuthorizeStep ==
    ASSUME IInv, NEW h \in Handler, Authorize(h)
    PROVE  IInv'
<1> USE DEF Authorize, At
<1>1. PICK t \in Token, p \in Plan : t = handler[h].token /\ p = Ref(h)
  BY AtWork, PlanOfButton
<1>2. /\ handler[h] # Idle /\ HandlerOK(h) /\ Button(t, "approve") /\ NotUsed(t)
      /\ callbacks[t] # None /\ stage[p] = "approved" /\ uses[p] = 0
      /\ Transition(p, "consumed") /\ Goto(h, "create")
  BY <1>1, PlanOfButton DEF HandlerOK, IInv
<1>3. /\ stage' \in [Plan -> {"absent", "pending", "approved", "revoked", "consumed"}]
      /\ stage'[p] = "consumed"
      /\ StageKept /\ \A q \in Plan : stage[q] = "absent" => stage'[q] = "absent"
      /\ \A q \in Plan : stage'[q] = "consumed" => stage[q] = "consumed" \/ q = p
  BY <1>2, TransitionFacts
<1>4. TypeOK'
  BY <1>2, <1>3, GotoFacts DEF IInv, TypeOK, limits
<1>5. /\ handler'[h].at = "create" /\ handler'[h].token = t /\ handler'[h] # Idle
      /\ \A g \in Handler \ {h} : handler'[g] = handler[g]
      /\ UNCHANGED <<uses, plans, callbacks, operations>>
  BY <1>1, <1>2, GotoFacts
<1>6. RowsKept /\ \A u \in Token : NotUsed(u) => NotUsed(u)'
  BY <1>5 DEF RowsKept, NotUsed
<1>7. HandlerOK(h)'
  BY <1>1, <1>2, <1>3, <1>5, <1>6 DEF HandlerOK, Button, Ref, Releases, RecoveryKind
<1>8. handler[h].at = "submit"
  OBVIOUS
<1> HIDE DEF Authorize
<1> QED BY <1>1, <1>2, <1>3, <1>4, <1>5, <1>6, <1>7, <1>8, OwnStep

\* The operation that thread h creates belongs to its button.
LEMMA NewOperation ==
    ASSUME IInv, NEW h \in Handler, handler[h] # Idle, NEW o \in Operation, operations[o] = None,
           NEW kind \in Kind, NEW t \in Token,
           operations' = [operations EXCEPT ![o] = [state |-> "queued", kind |-> kind, by |-> t]]
    PROVE  /\ operations' \in [Operation -> OperationRow \union {None}]
           /\ RowsKept /\ \A u \in Token \ {t} : NotUsed(u) => NotUsed(u)'
<1> DEFINE r == [state |-> "queued", kind |-> kind, by |-> t]
<1>1. r \in OperationRow /\ r.by = t
  BY DEF OperationRow, Active
<1>2. operations'[o] = r /\ \A q \in Operation \ {o} : operations'[q] = operations[q]
  BY DEF IInv, TypeOK
<1> HIDE DEF r
<1>3. operations' \in [Operation -> OperationRow \union {None}]
  BY <1>1 DEF IInv, TypeOK, r
<1> QED BY <1>1, <1>2, <1>3 DEF RowsKept, NotUsed

LEMMA CreateStep ==
    ASSUME IInv, NEW h \in Handler, NEW o \in Operation, Create(h, o)
    PROVE  IInv'
<1> USE DEF Create, At
<1>1. PICK t \in Token, p \in Plan : t = handler[h].token /\ p = Ref(h)
  BY AtWork, PlanOfButton
<1>2. /\ handler[h] # Idle /\ HandlerOK(h) /\ Button(t, "approve")
      /\ callbacks[t] # None /\ stage[p] = "consumed" /\ plans[p] \in PlanRow
      /\ Goto(h, "queued") /\ handler[h].at = "create"
  BY <1>1, PlanOfButton DEF HandlerOK, IInv
<1>3. PICK kind \in Kind : kind = plans[p].kind
  BY <1>2 DEF PlanRow
<1>4. /\ operations' \in [Operation -> OperationRow \union {None}]
      /\ RowsKept /\ \A u \in Token \ {t} : NotUsed(u) => NotUsed(u)'
  BY <1>1, <1>2, <1>3, NewOperation
<1>5. uses' \in [Plan -> Nat] /\ \A q \in Plan : uses'[q] # uses[q] => q = p
  BY <1>1 DEF IInv, TypeOK
<1>6. TypeOK'
  BY <1>2, <1>4, <1>5, GotoFacts DEF IInv, TypeOK, limits
<1>7. /\ handler'[h].at = "queued" /\ handler'[h].token = t /\ handler'[h] # Idle
      /\ \A g \in Handler \ {h} : handler'[g] = handler[g]
      /\ UNCHANGED <<stage, plans, callbacks>>
  BY <1>1, <1>2, GotoFacts
<1> HIDE DEF Create
<1>8. HandlerOK(h)'
  <2>1. ~Button(t, "reject")
    BY <1>2 DEF Button
  <2> QED BY <1>1, <1>2, <1>7, <2>1 DEF HandlerOK, Button, Ref, Releases, RecoveryKind
<1>9. StageKept
  BY <1>7 DEF StageKept
<1> QED BY <1>1, <1>2, <1>4, <1>5, <1>6, <1>7, <1>8, <1>9, OwnStep

\* The button of a recovery action.
LEMMA RecoveryButton ==
    ASSUME IInv, NEW h \in Handler, handler[h].at \in RecoveryKind
    PROVE  /\ handler[h] # Idle /\ HandlerOK(h) /\ NotUsed(handler[h].token)
           /\ callbacks[handler[h].token] # None
           /\ Button(handler[h].token, handler[h].at)
           /\ ~Button(handler[h].token, "approve") /\ ~Button(handler[h].token, "reject")
           /\ handler[h].at \in {"retry", "cancel"} =>
                  Ref(h) \in Operation /\ operations[Ref(h)] \in OperationRow
<1>1. handler[h] # Idle
  BY DEF Idle, RecoveryKind
<1>2. HandlerOK(h) /\ CallbackOK(handler[h].token)
  BY <1>1, AtWork
<1>3. Button(handler[h].token, handler[h].at) /\ NotUsed(handler[h].token)
  BY <1>2 DEF HandlerOK, Releases, RecoveryKind
<1>4. handler[h].at \in {"retry", "cancel"} =>
          Ref(h) \in Operation /\ operations[Ref(h)] \in OperationRow
  BY <1>2, <1>3 DEF CallbackOK, Ref, IInv, TypeOK
<1> QED BY <1>1, <1>2, <1>3, <1>4 DEF HandlerOK, Button, RecoveryKind

LEMMA RetryStep ==
    ASSUME IInv, NEW h \in Handler, NEW o \in Operation, Retry(h, o)
    PROVE  IInv'
<1> USE DEF Retry, At
<1>1. PICK t \in Token : t = handler[h].token
  BY AtWork, RecoveryButton DEF RecoveryKind
<1>2. /\ handler[h] # Idle /\ HandlerOK(h) /\ Button(t, "retry") /\ callbacks[t] # None
      /\ operations[Ref(h)] \in OperationRow /\ Goto(h, "queued") /\ handler[h].at = "retry"
  BY <1>1, RecoveryButton DEF RecoveryKind
<1>3. PICK kind \in Kind : kind = operations[Ref(h)].kind
  BY <1>2 DEF OperationRow
<1>4. /\ operations' \in [Operation -> OperationRow \union {None}]
      /\ RowsKept /\ \A u \in Token \ {t} : NotUsed(u) => NotUsed(u)'
  BY <1>1, <1>2, <1>3, NewOperation
<1>5. TypeOK'
  BY <1>2, <1>4, GotoFacts DEF IInv, TypeOK, limits
<1>6. /\ handler'[h].at = "queued" /\ handler'[h].token = t /\ handler'[h] # Idle
      /\ \A g \in Handler \ {h} : handler'[g] = handler[g]
      /\ UNCHANGED <<stage, uses, plans, callbacks>>
  BY <1>1, <1>2, GotoFacts
<1> HIDE DEF Retry
<1>7. HandlerOK(h)'
  BY <1>1, <1>2, <1>6 DEF HandlerOK, Button, Ref, Releases, RecoveryKind
<1>8. StageKept
  BY <1>6 DEF StageKept
<1> QED BY <1>1, <1>2, <1>4, <1>5, <1>6, <1>7, <1>8, OwnStep

\* The states of operations change, not whose they are.
LEMMA OperationStates ==
    ASSUME TypeOK, NEW o \in Operation, operations[o] \in OperationRow,
           NEW s \in Active \union {"failed", "ended"},
           operations' = [operations EXCEPT ![o].state = s]
    PROVE  /\ operations' \in [Operation -> OperationRow \union {None}]
           /\ RowsKept /\ \A u \in Token : NotUsed(u) => NotUsed(u)'
<1>1. /\ operations'[o] = [operations[o] EXCEPT !.state = s]
      /\ \A q \in Operation \ {o} : operations'[q] = operations[q]
  BY DEF TypeOK
<1>2. operations'[o] \in OperationRow /\ operations'[o].by = operations[o].by
  BY <1>1 DEF OperationRow
<1>3. operations'[o] # None /\ operations[o] # None
  BY <1>2, NoneAssumption
<1> QED BY <1>1, <1>2, <1>3 DEF TypeOK, RowsKept, NotUsed

LEMMA CancelStep ==
    ASSUME IInv, NEW h \in Handler, Cancel(h)
    PROVE  IInv'
<1> USE DEF Cancel, At
<1>1. PICK t \in Token, o \in Operation : t = handler[h].token /\ o = Ref(h)
  BY AtWork, RecoveryButton DEF RecoveryKind
<1>2. /\ handler[h] # Idle /\ HandlerOK(h) /\ callbacks[t] # None
      /\ ~Button(t, "approve") /\ ~Button(t, "reject")
      /\ operations[o] \in OperationRow /\ Conclude(h, "done") /\ handler[h].at = "cancel"
  BY <1>1, RecoveryButton DEF RecoveryKind
<1>3. PICK s \in Active \union {"failed", "ended"} :
          s = IF operations[o].state \in Active THEN "cancelling" ELSE operations[o].state
  BY <1>2 DEF OperationRow, Active
<1>4. operations' = [operations EXCEPT ![o].state = s]
  BY <1>1, <1>3
<1>5. /\ operations' \in [Operation -> OperationRow \union {None}]
      /\ RowsKept /\ \A u \in Token : NotUsed(u) => NotUsed(u)'
  BY <1>2, <1>4, OperationStates DEF IInv
<1>6. TypeOK'
  BY <1>2, <1>5, ConcludeFacts DEF IInv, TypeOK, limits
<1>7. /\ handler'[h].token = t /\ handler'[h] # Idle
      /\ \A g \in Handler \ {h} : handler'[g] = handler[g]
      /\ UNCHANGED <<stage, uses, plans, callbacks>>
  BY <1>1, <1>2, ConcludeFacts
<1>8. HandlerOK(h)'
  BY <1>1, <1>2, <1>7, ConcludeOK
<1>9. StageKept
  BY <1>7 DEF StageKept
<1> HIDE DEF Cancel
<1> QED BY <1>1, <1>2, <1>5, <1>6, <1>7, <1>8, <1>9, OwnStep

\* The callback is released or spent.
LEMMA FinishStep ==
    ASSUME IInv, NEW h \in Handler, Finish(h)
    PROVE  IInv'
<1> USE DEF Finish, At
<1>1. handler[h] # Idle
  BY DEF Idle
<1>2. PICK t \in Token, r \in Answer : t = handler[h].token /\ r = handler[h].result
  BY <1>1, AtWork DEF Executing
<1>3. /\ HandlerOK(h) /\ CallbackOK(t) /\ callbacks[t] \in Callback /\ callbacks[t] # None
      /\ callbacks[t].state = "executing"
  BY <1>1, <1>2, AtWork DEF HandlerOK
<1>4. /\ handler'[h] = Idle /\ \A g \in Handler \ {h} : handler'[g] = handler[g]
      /\ handler' \in [Handler -> Executing \union {Idle}]
      /\ UNCHANGED <<stage, uses, plans, operations, allowed, lab, now, bound>>
      /\ faults' \in Nat
  BY DEF IInv, TypeOK, Fault
<1>5. StageKept /\ RowsKept /\ \A u \in Token : NotUsed(u) <=> NotUsed(u)'
  BY <1>4 DEF StageKept, RowsKept, NotUsed
<1>6. CASE UNCHANGED callbacks
  <2>1. TypeOK'
    BY <1>4, <1>6 DEF IInv, TypeOK
  <2>2. CallbackOK(t)'
    BY <1>3, <1>4, <1>5, <1>6, CallbackFrame DEF IInv
  <2> HIDE DEF Finish
  <2> QED BY <1>1, <1>2, <1>3, <1>4, <1>5, <1>6, <2>1, <2>2, OwnStep
<1>7. CASE ~UNCHANGED callbacks
  <2>1. PICK s \in {"pending", "consumed"} : s = IF r \in Retryable THEN "pending" ELSE "consumed"
    OBVIOUS
  <2>2. callbacks' = [callbacks EXCEPT ![t].state = s, ![t].answer = r]
    BY <1>2, <1>7, <2>1
  <2> HIDE DEF Finish
  <2>3. /\ callbacks'[t] = [callbacks[t] EXCEPT !.state = s, !.answer = r]
        /\ \A u \in Token \ {t} : callbacks'[u] = callbacks[u]
    BY <2>2 DEF IInv, TypeOK
  <2>4. /\ callbacks'[t] \in Callback /\ callbacks'[t].state = s /\ callbacks'[t].answer = r
        /\ callbacks'[t].action = callbacks[t].action /\ callbacks'[t].ref = callbacks[t].ref
    BY <1>3, <2>3 DEF Callback
  <2>5. callbacks'[t] # None
    BY <2>4, NoneAssumption
  <2>6. TypeOK'
    BY <1>4, <2>2, <2>4 DEF IInv, TypeOK
  <2>7. \A a : Button(t, a)' <=> Button(t, a)
    BY <1>3, <2>4, <2>5 DEF Button
  <2>8. s = "pending" => NotUsed(t)' /\ (Button(t, "approve") => stage'[callbacks'[t].ref] # "consumed")
    BY <1>2, <1>3, <1>4, <1>5, <2>1, <2>4 DEF HandlerOK, Releases, Ref, Finish, At
  <2>9. r = "done" => /\ Button(t, "approve") => stage'[callbacks'[t].ref] = "consumed"
                      /\ Button(t, "reject") => stage'[callbacks'[t].ref] = "revoked"
    BY <1>2, <1>3, <1>4, <2>4 DEF HandlerOK, Ref, Finish, At
  <2>10. CallbackOK(t)'
    BY <1>3, <1>4, <2>4, <2>5, <2>7, <2>8, <2>9 DEF CallbackOK
  <2> QED BY <1>1, <1>2, <1>3, <1>4, <1>5, <2>3, <2>4, <2>5, <2>6, <2>10, OwnStep
<1> QED BY <1>6, <1>7

------------------------------------------------------------------------------
(* New buttons, presses, and the rest of the system                        *)

\* Steps that are not a thread's: buttons appear, threads disappear, and the
\* operations of others come and go.
LEMMA OutsideStep ==
    ASSUME IInv, TypeOK', UNCHANGED uses, StageKept, RowsKept,
           \A h \in Handler : handler'[h] \in {handler[h], Idle},
           \A t \in Token : callbacks[t] # None => callbacks'[t] = callbacks[t],
           \A t \in Token : NotUsed(t) => NotUsed(t)',
           \A p \in Plan : stage'[p] = "consumed" => stage[p] = "consumed",
           \A p \in Plan : stage'[p] # "absent" => plans'[p] # None,
           \A t \in Token : callbacks[t] = None /\ callbacks'[t] # None => CallbackOK(t)',
           OneButton'
    PROVE  IInv'
<1>1. ASSUME NEW t \in Token PROVE CallbackOK(t)'
  <2>1. CallbackOK(t)
    BY DEF IInv
  <2>2. CASE callbacks'[t] = callbacks[t]
    <3>1. Button(t, "approve") => callbacks[t].ref \in Plan
      BY <2>1 DEF CallbackOK
    <3> QED BY <2>1, <2>2, <3>1, CallbackFrame DEF IInv
  <2>3. CASE callbacks'[t] # callbacks[t]
    BY <2>3
  <2> QED BY <2>2, <2>3
<1>2. ASSUME NEW h \in Handler, handler'[h] # Idle PROVE HandlerOK(h)'
  <2>1. handler'[h] = handler[h] /\ handler[h] # Idle
    BY <1>2
  <2>2. HandlerOK(h) /\ CallbackOK(handler[h].token) /\ handler[h].token \in Token
    BY <2>1, AtWork
  <2>3. callbacks'[handler[h].token] = callbacks[handler[h].token]
    BY <2>2 DEF HandlerOK
  <2>4. Button(handler[h].token, "approve") => Ref(h) \in Plan
    BY <2>2 DEF CallbackOK, Ref
  <2>5. NotUsed(handler[h].token) => NotUsed(handler[h].token)'
    BY <2>1, <2>2 DEF NotUsed
  <2> QED BY <2>1, <2>2, <2>3, <2>4, <2>5, HandlerFrame DEF IInv
<1>3. OneThread'
  BY DEF IInv, OneThread
<1>4. \A p \in Plan : stage'[p] # "consumed" => uses'[p] = 0
  BY DEF IInv, StageKept
<1> QED BY <1>1, <1>2, <1>3, <1>4 DEF IInv

\* A button as issued.
LEMMA IssueFacts ==
    ASSUME IInv, NEW action \in {"approve", "reject"} \union RecoveryKind,
           NEW ref \in Plan \union Operation \union {None}
    PROVE  /\ Issue(action, ref) \in Callback /\ Issue(action, ref) # None
           /\ Issue(action, ref).action = action /\ Issue(action, ref).ref = ref
           /\ Issue(action, ref).state = "pending" /\ Issue(action, ref).answer # "done"
<1>1. Expiry \in 0..(MaxTime + Ttl) /\ allowed \in Identity
  BY RemoteAssumption DEF IInv, TypeOK, Expiry
<1>2. Issue(action, ref) \in Callback
  BY <1>1 DEF Callback, Issue, Answer
<1> QED BY <1>2, NoneAssumption DEF Issue

LEMMA LifecyclePlanStep ==
    ASSUME IInv, NEW p \in Plan, NEW kind \in Kind, LifecyclePlan(p, kind)
    PROVE  IInv'
<1> USE DEF LifecyclePlan
<1>1. PICK a \in Token, r \in Token :
          /\ a # r /\ callbacks[a] = None /\ callbacks[r] = None
          /\ callbacks' = [callbacks EXCEPT ![a] = Issue("approve", p), ![r] = Issue("reject", p)]
  OBVIOUS
<1>2. /\ stage[p] = "absent" /\ stage' = [stage EXCEPT ![p] = "pending"]
      /\ UNCHANGED <<uses, operations, handler, allowed, lab, now, bound, faults>>
  BY DEF limits
<1>3. PICK row : /\ row = [kind |-> kind, currentState |-> lab, expiresAt |-> Expiry, identity |-> allowed]
                 /\ plans' = [plans EXCEPT ![p] = row]
  OBVIOUS
<1> HIDE DEF LifecyclePlan
<1>4. row \in PlanRow
  <2>1. Expiry \in 0..(MaxTime + Ttl) /\ allowed \in Identity /\ lab \in LabState
    BY RemoteAssumption DEF IInv, TypeOK, Expiry
  <2> QED BY <1>3, <2>1 DEF PlanRow
<1>5. /\ Issue("approve", p) \in Callback /\ Issue("approve", p) # None
      /\ Issue("approve", p).action = "approve" /\ Issue("approve", p).ref = p
      /\ Issue("approve", p).answer # "done"
      /\ Issue("reject", p) \in Callback /\ Issue("reject", p) # None
      /\ Issue("reject", p).action = "reject" /\ Issue("reject", p).ref = p
      /\ Issue("reject", p).answer # "done"
  BY IssueFacts
<1>6. /\ callbacks'[a] = Issue("approve", p) /\ callbacks'[r] = Issue("reject", p)
      /\ \A t \in Token \ {a, r} : callbacks'[t] = callbacks[t]
  BY <1>1 DEF IInv, TypeOK
<1>7. TypeOK'
  <2>1. callbacks' \in [Token -> Callback \union {None}]
    BY <1>1, <1>5 DEF IInv, TypeOK
  <2>2. plans' \in [Plan -> PlanRow \union {None}]
    BY <1>3, <1>4 DEF IInv, TypeOK
  <2> QED BY <1>2, <2>1, <2>2 DEF IInv, TypeOK
<1>8. /\ stage'[p] = "pending" /\ \A q \in Plan \ {p} : stage'[q] = stage[q]
      /\ plans'[p] # None /\ \A q \in Plan \ {p} : plans'[q] = plans[q]
  BY <1>2, <1>3, <1>4, NoneAssumption DEF IInv, TypeOK
<1>9. StageKept /\ RowsKept /\ \A t \in Token : NotUsed(t) <=> NotUsed(t)'
  BY <1>2, <1>8 DEF StageKept, RowsKept, NotUsed
<1>10. CallbackOK(a)' /\ CallbackOK(r)'
  <2>1. NotUsed(a)' /\ NotUsed(r)'
    BY <1>1, <1>9 DEF IInv, CallbackOK
  <2>2. CallbackOK(a)'
    BY <1>5, <1>6, <1>8, <2>1 DEF CallbackOK, Button
  <2>3. CallbackOK(r)'
    BY <1>5, <1>6, <1>8, <2>1 DEF CallbackOK, Button
  <2> QED BY <2>2, <2>3
<1>11. OneButton'
  <2>1. ASSUME NEW t \in Token, Button(t, "approve")', t # a
        PROVE  Button(t, "approve") /\ callbacks'[t].ref = callbacks[t].ref /\ callbacks[t].ref # p
    <3>1. t # r
      BY <1>5, <1>6, <2>1 DEF Button
    <3>2. callbacks'[t] = callbacks[t] /\ Button(t, "approve")
      BY <1>6, <2>1, <3>1 DEF Button
    <3> QED BY <1>2, <3>2 DEF IInv, CallbackOK
  <2>2. callbacks'[a].ref = p
    BY <1>5, <1>6
  <2> QED BY <2>1, <2>2 DEF IInv, OneButton
<1>12. \A t \in Token : /\ callbacks[t] # None => callbacks'[t] = callbacks[t]
                        /\ callbacks[t] = None /\ callbacks'[t] # None => t \in {a, r}
  BY <1>1, <1>6
<1>13. \A q \in Plan : /\ stage'[q] = "consumed" => stage[q] = "consumed"
                       /\ stage'[q] # "absent" => plans'[q] # None
  BY <1>8 DEF IInv
<1> QED BY <1>2, <1>7, <1>9, <1>10, <1>11, <1>12, <1>13, OutsideStep

LEMMA RecoveryActionStep ==
    ASSUME IInv, NEW t \in Token, RecoveryAction(t)
    PROVE  IInv'
<1>1. PICK offer \in Offers : callbacks' = [callbacks EXCEPT ![t] = Issue(offer[1], offer[2])]
  BY DEF RecoveryAction
<1>2. PICK action \in RecoveryKind, ref \in Operation \union {None} :
          /\ offer[1] = action /\ offer[2] = ref
          /\ action \in {"cancel", "retry"} => ref \in Operation /\ operations[ref] # None
  BY DEF Offers, RecoveryKind, Is
<1>3. PICK c : c = Issue(action, ref)
  OBVIOUS
<1>4. /\ c \in Callback /\ c # None /\ c.action = action /\ c.ref = ref /\ c.answer # "done"
      /\ callbacks' = [callbacks EXCEPT ![t] = c]
  BY <1>1, <1>2, <1>3, IssueFacts
<1>5. callbacks[t] = None /\ UNCHANGED <<stage, uses, plans, operations, handler, allowed, lab, now, bound, faults>>
  BY DEF RecoveryAction, limits
<1>6. callbacks'[t] = c /\ \A u \in Token \ {t} : callbacks'[u] = callbacks[u]
  BY <1>4 DEF IInv, TypeOK
<1>7. TypeOK'
  BY <1>4, <1>5 DEF IInv, TypeOK
<1>8. StageKept /\ RowsKept /\ \A u \in Token : NotUsed(u) <=> NotUsed(u)'
  BY <1>5 DEF StageKept, RowsKept, NotUsed
<1>9. CallbackOK(t)' /\ ~Button(t, "approve")'
  <2>1. NotUsed(t)'
    BY <1>5, <1>8 DEF IInv, CallbackOK
  <2> QED BY <1>2, <1>4, <1>5, <1>6, <2>1 DEF CallbackOK, Button, RecoveryKind
<1>10. OneButton'
  BY <1>6, <1>9 DEF IInv, OneButton, Button
<1>11. \A u \in Token : /\ callbacks[u] # None => callbacks'[u] = callbacks[u]
                        /\ callbacks[u] = None /\ callbacks'[u] # None => u = t
  BY <1>5, <1>6
<1>12. \A q \in Plan : /\ stage'[q] = "consumed" => stage[q] = "consumed"
                       /\ stage'[q] # "absent" => plans'[q] # None
  BY <1>5 DEF IInv
<1> QED BY <1>5, <1>7, <1>8, <1>9, <1>10, <1>11, <1>12, OutsideStep

\* A callback is claimed by one thread, or has expired.
LEMMA PressStep ==
    ASSUME IInv, NEW h \in Handler, NEW t \in Token, Press(h, t)
    PROVE  IInv'
<1>1. /\ handler[h] = Idle /\ callbacks[t] \in Callback /\ callbacks[t] # None
      /\ callbacks[t].state = "pending" /\ CallbackOK(t)
      /\ UNCHANGED <<stage, uses, plans, operations, allowed, lab, now, bound, faults>>
  BY DEF Press, IInv, TypeOK, limits
<1>2. PICK s \in {"expired", "executing"} :
          /\ callbacks' = [callbacks EXCEPT ![t].state = s]
          /\ s = "expired" => UNCHANGED handler
          /\ s = "executing" => handler' = [handler EXCEPT ![h] =
                [at |-> callbacks[t].action, token |-> t, result |-> None]]
  BY DEF Press
<1>3. /\ callbacks'[t] = [callbacks[t] EXCEPT !.state = s]
      /\ \A u \in Token \ {t} : callbacks'[u] = callbacks[u]
  BY <1>2 DEF IInv, TypeOK
<1>4. /\ callbacks'[t] \in Callback /\ callbacks'[t].state = s
      /\ callbacks'[t].action = callbacks[t].action /\ callbacks'[t].ref = callbacks[t].ref
      /\ callbacks'[t].answer = callbacks[t].answer
  BY <1>1, <1>3 DEF Callback
<1>5. callbacks'[t] # None /\ \A a : Button(t, a)' <=> Button(t, a)
  BY <1>1, <1>4, NoneAssumption DEF Button
<1>6. StageKept /\ RowsKept /\ \A u \in Token : NotUsed(u) <=> NotUsed(u)'
  BY <1>1 DEF StageKept, RowsKept, NotUsed
<1>7. ASSUME NEW u \in Token PROVE CallbackOK(u)'
  <2>1. CASE u = t
    BY <1>1, <1>4, <1>5, <2>1 DEF CallbackOK
  <2>2. CASE u # t
    <3>1. CallbackOK(u) /\ callbacks'[u] = callbacks[u]
      BY <1>3, <2>2 DEF IInv
    <3> QED BY <1>1, <1>6, <3>1, CallbackFrame DEF IInv
  <2> QED BY <2>1, <2>2
<1>8. /\ \A g \in Handler \ {h} : handler'[g] = handler[g]
      /\ s = "expired" => handler'[h] = Idle
      /\ s = "executing" => /\ handler'[h] = [at |-> callbacks[t].action, token |-> t, result |-> None]
                            /\ handler'[h] \in Executing
  BY <1>1, <1>2 DEF IInv, TypeOK, Executing, Callback, Answer
<1>9. ASSUME NEW g \in Handler, g # h, handler'[g] # Idle
      PROVE  HandlerOK(g)' /\ handler'[g].token # t
  <2>1. handler'[g] = handler[g] /\ handler[g] # Idle
    BY <1>8, <1>9
  <2>2. HandlerOK(g) /\ CallbackOK(handler[g].token) /\ handler[g].token \in Token
    BY <2>1, AtWork
  <2>3. handler[g].token # t
    BY <1>1, <2>2 DEF HandlerOK
  <2>4. callbacks'[handler[g].token] = callbacks[handler[g].token]
    BY <1>3, <2>2, <2>3
  <2>5. NotUsed(handler[g].token) => NotUsed(handler[g].token)'
    BY <1>1, <2>1 DEF NotUsed
  <2> QED BY <1>1, <1>6, <2>1, <2>2, <2>3, <2>4, <2>5, HandlerFrame DEF IInv
<1>10. s = "executing" => HandlerOK(h)'
  <2> SUFFICES ASSUME s = "executing" PROVE HandlerOK(h)'
    OBVIOUS
  <2>1. handler'[h].at = callbacks[t].action /\ handler'[h].token = t /\ handler'[h].result = None
    BY <1>8
  <2>2. callbacks[t].action \in {"approve", "reject"} \union RecoveryKind /\ Button(t, callbacks[t].action)
    BY <1>1 DEF Callback, Button
  <2>3. NotUsed(t)' /\ (Button(t, "approve") => stage'[callbacks'[t].ref] # "consumed")
    BY <1>1, <1>4, <1>6 DEF CallbackOK
  <2> QED BY <1>4, <1>5, <2>1, <2>2, <2>3 DEF HandlerOK, Ref, Button, RecoveryKind
<1>11. TypeOK'
  <2>1. callbacks' \in [Token -> Callback \union {None}]
    BY <1>2, <1>4 DEF IInv, TypeOK
  <2>2. handler' \in [Handler -> Executing \union {Idle}]
    BY <1>2, <1>8 DEF IInv, TypeOK
  <2> QED BY <1>1, <2>1, <2>2 DEF IInv, TypeOK
<1>12. OneThread'
  BY <1>8, <1>9 DEF IInv, OneThread
<1>13. OneButton'
  <2>1. \A u \in Token : Button(u, "approve")' => Button(u, "approve") /\ callbacks'[u].ref = callbacks[u].ref
    BY <1>3, <1>4, <1>5 DEF Button
  <2> QED BY <2>1 DEF IInv, OneButton
<1>14. ASSUME NEW g \in Handler, handler'[g] # Idle PROVE HandlerOK(g)'
  BY <1>2, <1>8, <1>9, <1>10, <1>14
<1> QED BY <1>1, <1>7, <1>11, <1>12, <1>13, <1>14 DEF IInv

\* Work, Submit, Restart, Drift and Tick leave ledger and buttons alone.
LEMMA RestOfSystem ==
    ASSUME IInv, TypeOK', UNCHANGED <<stage, uses, plans, callbacks>>,
           \A h \in Handler : handler'[h] \in {handler[h], Idle},
           RowsKept, \A t \in Token : NotUsed(t) => NotUsed(t)'
    PROVE  IInv'
<1>1. StageKept
  BY DEF StageKept
<1>2. OneButton'
  BY DEF IInv, OneButton, Button
<1> QED BY <1>1, <1>2, OutsideStep DEF IInv

LEMMA SubmitStep ==
    ASSUME IInv, NEW o \in Operation, NEW kind \in Kind, Submit(o, kind)
    PROVE  IInv'
<1>1. PICK r : /\ r = [state |-> "queued", kind |-> kind, by |-> None]
               /\ operations' = [operations EXCEPT ![o] = r]
  BY DEF Submit
<1>2. r \in OperationRow /\ r.by = None
  BY <1>1 DEF OperationRow, Active
<1>3. /\ operations[o] = None
      /\ UNCHANGED <<stage, uses, plans, callbacks, handler, allowed, lab, now, bound, faults>>
  BY DEF Submit, limits
<1>4. operations'[o] = r /\ \A q \in Operation \ {o} : operations'[q] = operations[q]
  BY <1>1 DEF IInv, TypeOK
<1>5. TypeOK'
  BY <1>1, <1>2, <1>3 DEF IInv, TypeOK
<1>6. RowsKept /\ \A t \in Token : NotUsed(t) => NotUsed(t)'
  BY <1>2, <1>3, <1>4, RemoteAssumption DEF RowsKept, NotUsed
<1> QED BY <1>3, <1>5, <1>6, RestOfSystem

LEMMA WorkStep ==
    ASSUME IInv, NEW o \in Operation, Work(o)
    PROVE  IInv'
<1>1. operations[o] \in OperationRow
  BY DEF Work, Is, IInv, TypeOK
<1>2. PICK s \in Active \union {"failed", "ended"} : operations' = [operations EXCEPT ![o].state = s]
  BY DEF Work
<1>3. UNCHANGED <<stage, uses, plans, callbacks, handler, allowed, lab, now, bound, faults>>
  BY DEF Work, limits
<1>4. /\ operations' \in [Operation -> OperationRow \union {None}]
      /\ RowsKept /\ \A u \in Token : NotUsed(u) => NotUsed(u)'
  BY <1>1, <1>2, OperationStates DEF IInv
<1>5. TypeOK'
  BY <1>3, <1>4 DEF IInv, TypeOK
<1> QED BY <1>3, <1>4, <1>5, RestOfSystem

LEMMA RestartStep ==
    ASSUME IInv, Restart
    PROVE  IInv'
<1>1. /\ UNCHANGED <<stage, uses, plans, callbacks, lab, now, bound>>
      /\ allowed' \in Identity /\ faults' \in Nat
      /\ handler' = [h \in Handler |-> Idle]
      /\ operations' = [o \in Operation |->
            IF Is(o, Active) THEN [operations[o] EXCEPT !.state = "failed"] ELSE operations[o]]
  BY DEF Restart, Fault, IInv, TypeOK
<1>2. ASSUME NEW o \in Operation
      PROVE  /\ operations'[o] \in OperationRow \union {None}
             /\ operations[o] # None => operations'[o] # None
             /\ operations'[o] # None => operations[o] # None /\ operations'[o].by = operations[o].by
  <2>1. CASE Is(o, Active)
    <3>1. operations[o] \in OperationRow /\ operations'[o] = [operations[o] EXCEPT !.state = "failed"]
      BY <1>1, <2>1 DEF Is, IInv, TypeOK
    <3>2. operations'[o] \in OperationRow /\ operations'[o].by = operations[o].by
      BY <3>1 DEF OperationRow
    <3> QED BY <3>1, <3>2, NoneAssumption
  <2>2. CASE ~Is(o, Active)
    <3>1. operations'[o] = operations[o]
      BY <1>1, <2>2
    <3> QED BY <3>1 DEF IInv, TypeOK
  <2> QED BY <2>1, <2>2
<1>3. operations' \in [Operation -> OperationRow \union {None}]
  BY <1>1, <1>2
<1>4. TypeOK'
  BY <1>1, <1>3 DEF IInv, TypeOK
<1>5. RowsKept /\ \A t \in Token : NotUsed(t) => NotUsed(t)'
  BY <1>2 DEF RowsKept, NotUsed
<1> QED BY <1>1, <1>4, <1>5, RestOfSystem

LEMMA EnvironmentStep ==
    ASSUME IInv, Drift \/ Tick \/ UNCHANGED vars
    PROVE  IInv'
<1>1. UNCHANGED <<stage, uses, plans, callbacks, operations, handler, allowed, bound, faults>>
  BY DEF Drift, Tick, vars, limits
<1>2. lab' \in LabState /\ now' \in 0..MaxTime
  BY RemoteAssumption DEF Drift, Tick, vars, IInv, TypeOK
<1>3. TypeOK'
  BY <1>1, <1>2 DEF IInv, TypeOK
<1>4. RowsKept /\ \A t \in Token : NotUsed(t) => NotUsed(t)'
  BY <1>1 DEF RowsKept, NotUsed
<1> QED BY <1>1, <1>3, <1>4, RestOfSystem

LEMMA ShortSteps ==
    ASSUME IInv, NEW h \in Handler, Reply(h) \/ Refuse(h) \/ Outage(h) \/ Break(h)
    PROVE  IInv'
<1>1. handler[h] # Idle
  BY DEF Reply, Refuse, Outage, Break, Idle
<1>2. CASE Reply(h)
  BY <1>1, <1>2, ConcludeStep DEF Reply, Step, RecoveryKind, IInv, TypeOK
<1>3. CASE Refuse(h)
  BY <1>1, <1>3, ConcludeStep DEF Refuse, Step, IInv, TypeOK
<1>4. CASE Outage(h)
  BY <1>1, <1>4, ConcludeStep DEF Outage, Step, Releases, IInv, TypeOK
<1>5. CASE Break(h)
  BY <1>1, <1>5, ConcludeStep DEF Break, Step, Fault, IInv, TypeOK
<1> QED BY <1>2, <1>3, <1>4, <1>5

------------------------------------------------------------------------------
(* The theorems                                                            *)

\* The invariant above holds in every state: of threads in any number, through
\* outages, exceptions, restarts and changes of the linked chat.
THEOREM Invariance == Spec => []IInv
<1>1. IInv /\ [Next]_vars => IInv'
  <2> SUFFICES ASSUME IInv, [Next]_vars PROVE IInv'
    OBVIOUS
  <2>1. ASSUME NEW p \in Plan, NEW kind \in Kind, LifecyclePlan(p, kind) PROVE IInv'
    BY <2>1, LifecyclePlanStep
  <2>2. ASSUME NEW t \in Token, RecoveryAction(t) \/ \E h \in Handler : Press(h, t) PROVE IInv'
    BY <2>2, RecoveryActionStep, PressStep
  <2>3. ASSUME NEW h \in Handler,
               \/ Approve(h) \/ Reject(h) \/ Authorize(h) \/ Cancel(h)
               \/ \E o \in Operation : Create(h, o) \/ Retry(h, o)
               \/ Reply(h) \/ Refuse(h) \/ Outage(h) \/ Break(h) \/ Finish(h)
        PROVE  IInv'
    BY <2>3, ApproveStep, RejectStep, AuthorizeStep, CancelStep, CreateStep, RetryStep,
       ShortSteps, FinishStep
  <2>4. ASSUME NEW o \in Operation, Work(o) \/ \E kind \in Kind : Submit(o, kind) PROVE IInv'
    BY <2>4, WorkStep, SubmitStep
  <2>5. CASE Restart \/ Drift \/ Tick \/ UNCHANGED vars
    BY <2>5, RestartStep, EnvironmentStep
  <2> QED BY <2>1, <2>2, <2>3, <2>4, <2>5 DEF Next
<1> QED BY InitInvariant, <1>1, PTL DEF Spec

\* Plans, callbacks, operations and threads keep their types.
THEOREM TypeCorrectness == Spec => []TypeOK
<1>1. IInv => TypeOK
  BY DEF IInv
<1> QED BY Invariance, <1>1, PTL

\* execute gives a callback back only as long as nothing was started with it
\* and its approval was not consumed.
THEOREM ReleasedIsUnused == Spec => []PendingIsUnused
<1>1. IInv => PendingIsUnused
  BY DEF IInv, CallbackOK, NotUsed, Button, PendingIsUnused
<1> QED BY Invariance, <1>1, PTL

\* The chat never reads both that a plan was started and that it was rejected.
THEOREM ConsistentAnswers == Spec => []AnswersAgree
<1>1. IInv => AnswersAgree
  BY DEF IInv, CallbackOK, Button, AnswersAgree
<1> QED BY Invariance, <1>1, PTL

------------------------------------------------------------------------------
(* The approvals are those of the abstract specification                   *)

LEMMA StepRefines ==
    ASSUME IInv, [Next]_vars
    PROVE  [Approvals!Next]_<<stage, uses>>
<1> USE DEF Approvals!Next, Approvals!Request, Approvals!Approve, Approvals!Revoke,
            Approvals!Consume, Approvals!Start, Approvals!Move
<1>1. CASE UNCHANGED <<stage, uses>>
  BY <1>1
<1>2. ASSUME NEW p \in Plan, NEW kind \in Kind, LifecyclePlan(p, kind)
      PROVE  [Approvals!Next]_<<stage, uses>>
  BY <1>2 DEF LifecyclePlan
<1>3. ASSUME NEW h \in Handler, Approve(h) \/ Reject(h) \/ Authorize(h), ~UNCHANGED <<stage, uses>>
      PROVE  [Approvals!Next]_<<stage, uses>>
  <2>1. handler[h].at \in {"approve", "reject", "submit"} /\ handler[h] # Idle
    BY <1>3 DEF Approve, Reject, Authorize, At, Idle
  <2>2. Ref(h) \in Plan
    BY <2>1, PlanOfButton, AtWork DEF HandlerOK
  <2> QED BY <1>3, <2>2 DEF Approve, Reject, Authorize, Transition, Revocable
<1>4. ASSUME NEW h \in Handler, NEW o \in Operation, Create(h, o)
      PROVE  [Approvals!Next]_<<stage, uses>>
  <2>1. handler[h].at = "create" /\ handler[h] # Idle
    BY <1>4 DEF Create, At, Idle
  <2>2. Ref(h) \in Plan /\ stage[Ref(h)] = "consumed" /\ uses[Ref(h)] = 0
    BY <2>1, PlanOfButton, AtWork DEF HandlerOK
  <2>3. uses' = [uses EXCEPT ![Ref(h)] = 1] /\ UNCHANGED stage
    BY <1>4, <2>2 DEF Create
  <2> QED BY <2>2, <2>3
<1> QED BY <1>1, <1>2, <1>3, <1>4
        DEF Next, RecoveryAction, Press, Cancel, Retry, Reply, Refuse, Outage, Break, Finish,
            Step, Work, Submit, Restart, Drift, Tick, vars

\* However its buttons are pressed, an approval is decided once, consumed at
\* most once and never after it was revoked, and starts at most one operation.
THEOREM Refinement == Spec => SingleUse
<1>1. Init => Approvals!Init
  BY DEF Init, Approvals!Init
<1>2. IInv /\ [Next]_vars => [Approvals!Next]_<<stage, uses>>
  BY StepRefines
<1> QED BY <1>1, <1>2, Invariance, PTL DEF Spec, SingleUse, Approvals!Spec
==============================================================================
