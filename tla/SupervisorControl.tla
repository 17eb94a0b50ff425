-------------------------- MODULE SupervisorControl --------------------------
(***************************************************************************)
(* Who may decide what: the autonomy policy (supervisor/autonomy_policy.py) *)
(* and the private Telegram channel that changes it                        *)
(* (supervisor/fortify_supervisor.py).                                      *)
(*                                                                         *)
(* The policy is a file with a generation.  The monitor, a new process for  *)
(* every pass, and the listener each adopt it, attest in the store what     *)
(* they adopted, and act only while the attestations agree.  Either may     *)
(* find a lease expired and write the next generation.  The listener takes  *)
(* updates from Telegram and stores its offset after it handled one.        *)
(***************************************************************************)
EXTENDS Naturals, Sequences, FiniteSets

CONSTANTS
    Token,         \* confirmation tokens
    Wants,         \* Wants[t]: what the operator may ask for with t
    MaxGeneration, MaxTime, MaxUpdates, MaxCrashes,   \* bounds
    Nothing

Profile == {"manual", "assisted", "autonomous"}

ASSUME ControlAssumption ==
    /\ Wants \in [Token -> SUBSET Profile]
    /\ {MaxGeneration, MaxTime, MaxUpdates, MaxCrashes} \subseteq Nat

VARIABLES
    file,       \* the policy file
    disk,       \* external: "ok", "unreadable", or "readonly"
    adopted,    \* self.policy of each process; None if no monitor runs
    attested,   \* settings process_policy:<role>, renewed by every pass and round
    state,      \* setting autonomy_configuration_state
    paused, tokens, place, now,
    updates,    \* external: what Telegram holds for the bot, from the stored offset on
    crashes,    \* how often a process died
    applied,    \* history: how often the change of a token was applied
    ruling      \* history: the change that was answered last and those applied since

controlVars == <<file, disk, adopted, attested, state, paused, tokens,
                 place, now, updates, crashes, applied, ruling>>
outside == <<disk, now, updates, crashes>>
history == <<applied, ruling>>

Role == {"monitor", "listener"}
\* A lease ends at `until'; other profiles have none.  Policies with equal
\* fields have equal digests.
Policy == [generation : 0..MaxGeneration, until : 0..MaxTime + 1,
           profile : Profile]
\* The payload of a token; it is live until it is consumed or five minutes old.
Payload == [profile : Profile, until : 0..MaxTime + 1, live : BOOLEAN]
AtRest == [at |-> "idle", then |-> "idle", handling |-> FALSE, token |-> Nothing]

\* Nothing is no policy and no payload.
ASSUME NothingAssumption == Nothing \notin Policy \union Payload

ControlTypeOK ==
    /\ file \in Policy /\ \A p \in Role : adopted[p] \in Policy \union {Nothing}
    /\ \A p \in Role : attested[p] \in Policy \union {Nothing}
    /\ state \in {"active", "mismatch", "expired-lease", "restart-required"}
    /\ tokens \in [Token -> Payload \union {Nothing}]
    /\ now \in 0..MaxTime
    /\ \A p \in Role : place[p].token \in Token \union {Nothing}

\* migration_policy, or a first file of the same content.
ControlInit ==
    /\ file = [generation |-> 0, until |-> 0, profile |-> "assisted"]
    /\ disk = "ok" /\ state = "active"
    /\ adopted = [p \in Role |-> IF p = "listener" THEN file ELSE Nothing]
    /\ attested = [p \in Role |-> Nothing]
    /\ paused = FALSE /\ tokens = [t \in Token |-> Nothing]
    /\ place = [p \in Role |-> AtRest] /\ now = 0 /\ updates = <<>> /\ crashes = 0
    /\ applied = [t \in Token |-> 0] /\ ruling = {}

GoTo(p, at) == place' = [place EXCEPT ![p].at = at]
Call(p, then) == place' = [place EXCEPT ![p].at = "load", ![p].then = then]

\* The pass of a monitor ends, and with it the process.
End(p) ==
    /\ place' = [place EXCEPT ![p] = AtRest]
    /\ adopted' = [adopted EXCEPT ![p] = IF p = "monitor" THEN Nothing ELSE @]

\* SupervisorError: the pass or the round of the loop ends; in a command it is
\* answered and the update is done.
Raise(p) ==
    IF place[p].handling THEN place' = [place EXCEPT ![p] = [AtRest EXCEPT !.at = "offset"]]
                             /\ UNCHANGED adopted
    ELSE End(p)

Expired(policy) == policy.until # 0 /\ policy.until <= now

------------------------------------------------------------------------------
(* reload_policy and revert_expired_lease                                   *)

Follows(new, old) == new.generation > old.generation \/ new = old

\* load_policy accepts the file, expired or not.
Readable == disk # "unreadable"

\* An expired lease does not keep the operator from choosing a profile; the reload
\* after the change is not excused.
RecoveryAllowed(p) == place[p].handling /\ place[p].then # "answer"

Load(p) ==
    /\ place[p].at = "load"
    /\ \/ /\ Readable /\ Follows(file, adopted[p])
          /\ adopted' = [adopted EXCEPT ![p] = file]
          /\ GoTo(p, IF Expired(file) THEN "revert" ELSE "attest") /\ UNCHANGED state
       \/ /\ ~Readable \/ ~Follows(file, adopted[p])
          /\ state' = IF Readable THEN "mismatch" ELSE "restart-required"
          /\ Raise(p)
    /\ UNCHANGED <<file, attested, paused, tokens, outside, history>>

\* replace_policy installs whatever it is given: no comparison with the file.
Replace(p, policy) ==
    /\ policy.generation <= MaxGeneration
    /\ file' = policy /\ adopted' = [adopted EXCEPT ![p] = policy]

\* Mutation: the policy is written back as it is.
RevertedInName(p) == adopted[p]

Reverted(p) == [generation |-> adopted[p].generation + 1, until |-> 0, profile |-> "assisted"]

Revert(p) ==
    /\ place[p].at = "revert"
    /\ \/ /\ disk # "readonly"
          /\ Replace(p, Reverted(p)) /\ GoTo(p, "attest") /\ state' = "active"
       \/ /\ disk = "readonly"
          /\ state' = "expired-lease"
          /\ IF RecoveryAllowed(p) THEN GoTo(p, place[p].then) /\ UNCHANGED adopted ELSE Raise(p)
          /\ UNCHANGED file
    /\ UNCHANGED <<attested, paused, tokens, outside, history>>

Attest(p) ==
    /\ place[p].at = "attest"
    /\ attested' = [attested EXCEPT ![p] = adopted[p]] /\ state' = "active"
    /\ GoTo(p, place[p].then)
    /\ UNCHANGED <<file, adopted, paused, tokens, outside, history>>

\* Mutation: the attestations of the other processes are not read.
ConsistentAlone(p) == state \notin {"expired-lease", "restart-required"}

\* configuration_state
Consistent(p) ==
    /\ state \notin {"expired-lease", "restart-required"}
    /\ \A r \in Role : attested[r] \in {Nothing, adopted[p]}

\* require_consistent_policy, after its reload.
Check(p, at, then) ==
    /\ place[p].at = at
    /\ IF Consistent(p) \/ (RecoveryAllowed(p) /\ state = "expired-lease")
         THEN GoTo(p, then) /\ UNCHANGED <<adopted, state>>
         ELSE Raise(p) /\ state' = "mismatch"
    /\ UNCHANGED <<file, attested, paused, tokens, outside, history>>

------------------------------------------------------------------------------
(* The monitor: an unattended merge                                        *)

\* A new process: the constructor loads the file whatever was adopted before.
\* It audits and reverts as the reload does that follows.
PassBegins ==
    /\ place["monitor"].at = "idle" /\ Readable
    /\ adopted' = [adopted EXCEPT !["monitor"] = file]
    /\ Call("monitor", "check")
    /\ UNCHANGED <<file, attested, state, paused, tokens, outside, history>>

\* The gates of verify_autonomous_merge that concern the policy, as they are
\* tried last, before the merge.  A lease that just ended is reverted here too.
Verify ==
    /\ place["monitor"].at = "verify"
    /\ LET policy == adopted["monitor"] IN
       \/ /\ Expired(policy) /\ End("monitor")
          /\ \/ disk # "readonly" /\ policy.generation < MaxGeneration
                /\ file' = Reverted("monitor") /\ state' = "active"
             \/ disk = "readonly" /\ state' = "expired-lease" /\ UNCHANGED file
       \/ /\ ~Expired(policy)
          /\ IF policy.profile = "autonomous" /\ ~paused /\ Consistent("monitor")
               THEN GoTo("monitor", "merge") /\ UNCHANGED adopted
               ELSE End("monitor")
          /\ UNCHANGED <<file, state>>
    /\ UNCHANGED <<attested, paused, tokens, outside, history>>

MergeUnattended ==
    /\ place["monitor"].at = "merge" /\ End("monitor")
    /\ UNCHANGED <<file, attested, state, paused, tokens, outside, history>>

------------------------------------------------------------------------------
(* The listener                                                            *)

Poll ==
    /\ place["listener"].at = "idle" /\ Call("listener", "fetch")
    /\ UNCHANGED <<file, adopted, attested, state, paused, tokens, outside, history>>

\* Before /confirm is looked at, the operator is told that it was received; if
\* that cannot be sent, the update is handled again.  handle_command and
\* execute_callback both reload before the token is consumed: once is enough
\* here.  /hold needs no policy.
Fetch ==
    /\ place["listener"].at = "fetch"
    /\ \/ updates = <<>> /\ place' = [place EXCEPT !["listener"] = AtRest] /\ UNCHANGED paused
       \/ /\ updates # <<>> /\ Head(updates).command = "hold"
          /\ paused' = TRUE /\ GoTo("listener", "offset")
       \/ /\ updates # <<>> /\ Head(updates).command = "confirm"
          /\ \/ place' = [place EXCEPT !["listener"] =
                   [at |-> "load", handling |-> TRUE, token |-> Head(updates).token,
                    then |-> "consistent"]]
             \/ place' = [place EXCEPT !["listener"] = AtRest]
          /\ UNCHANGED paused
    /\ UNCHANGED <<file, adopted, attested, state, tokens, outside, history>>

\* The duration of a lease, at most one tick, is added when it is asked for.
Until(profile) == IF profile = "autonomous" THEN now + 1 ELSE 0

\* request_confirmation for /autonomy <profile>.
Ask(t, profile) ==
    /\ place["listener"].at = "fetch" /\ tokens[t] = Nothing
    /\ tokens' = [tokens EXCEPT ![t] = [live |-> TRUE, profile |-> profile,
                                                until |-> Until(profile)]]
    /\ UNCHANGED <<file, adopted, attested, state, paused, place, outside, history>>

\* Mutation: a consumed token is good.
UsableAgain(t) == tokens[t] # Nothing

Usable(t) == tokens[t] # Nothing /\ tokens[t].live

\* consume_callback_token: one conditional update.
Consume ==
    /\ place["listener"].at = "consume"
    /\ LET t == place["listener"].token IN
       IF Usable(t) THEN /\ tokens' = [tokens EXCEPT ![t].live = FALSE]
                         /\ Call("listener", "consumed") /\ UNCHANGED adopted
       ELSE Raise("listener") /\ UNCHANGED tokens
    /\ UNCHANGED <<file, attested, state, paused, outside, history>>

\* apply_autonomy_change.  A lease that ended while it waited is refused.
Apply ==
    /\ place["listener"].at = "apply"
    /\ LET t == place["listener"].token
           policy == [generation |-> adopted["listener"].generation + 1,
                      until |-> tokens[t].until, profile |-> tokens[t].profile] IN
       \/ /\ ~Expired(policy) /\ disk # "readonly"
          /\ Replace("listener", policy) /\ Call("listener", "answer")
          /\ applied' = [applied EXCEPT ![t] = @ + 1]
          /\ ruling' = ruling \union {policy}
       \/ /\ Expired(policy) \/ disk = "readonly"
          /\ Raise("listener") /\ UNCHANGED <<file, history>>
    /\ UNCHANGED <<attested, state, paused, tokens, outside>>

\* The answer may fail; the update is then handled again.
Answer ==
    /\ place["listener"].at = "answer"
    /\ \/ /\ GoTo("listener", "offset")
          /\ ruling' = {adopted["listener"]}
       \/ place' = [place EXCEPT !["listener"] = AtRest] /\ UNCHANGED ruling
    /\ UNCHANGED <<file, adopted, attested, state, paused, tokens, outside, applied>>

\* The offset is stored: Telegram forgets the update.
Offset ==
    /\ place["listener"].at = "offset"
    /\ updates' = Tail(updates)
    /\ place' = [place EXCEPT !["listener"] = [AtRest EXCEPT !.at = "fetch"]]
    /\ UNCHANGED <<file, disk, adopted, attested, state, paused, tokens, now, crashes, history>>

------------------------------------------------------------------------------
(* Time, the operator, and faults                                          *)

Send(update) ==
    /\ Len(updates) < MaxUpdates /\ updates' = Append(updates, update)
    /\ UNCHANGED <<file, disk, adopted, attested, state, paused, tokens,
                   place, now, crashes, history>>

SendHold == Send([command |-> "hold", token |-> Nothing])
SendConfirm(t) == tokens[t] # Nothing /\ Send([command |-> "confirm", token |-> t])

\* Tokens live for five minutes at most.
ExpireToken(t) ==
    /\ Usable(t) /\ tokens' = [tokens EXCEPT ![t].live = FALSE]
    /\ UNCHANGED <<file, adopted, attested, state, paused, place, outside, history>>
Tick ==
    /\ now < MaxTime /\ now' = now + 1
    /\ UNCHANGED <<file, disk, adopted, attested, state, paused, tokens,
                   place, updates, crashes, history>>

\* The file becomes unreadable or read-only, and is put in order again.
DiskChanges ==
    /\ disk' \in {"ok", "unreadable", "readonly"} \ {disk}
    /\ (disk' # "ok" => crashes < MaxCrashes)
    /\ crashes' = IF disk' = "ok" THEN crashes ELSE crashes + 1
    /\ UNCHANGED <<file, adopted, attested, state, paused, tokens,
                   place, now, updates, history>>

\* A listener that is started again loads the file as a new process does.
Crash(p) ==
    /\ place[p].at # "idle" \/ p = "listener"
    /\ crashes < MaxCrashes /\ crashes' = crashes + 1
    /\ place' = [place EXCEPT ![p] = AtRest]
    /\ adopted' = [adopted EXCEPT ![p] = IF p = "monitor" THEN Nothing ELSE file]
    /\ UNCHANGED <<file, disk, attested, state, paused, tokens,
                   now, updates, history>>

PolicyStep(p) ==
    \/ Load(p) \/ Revert(p) \/ Attest(p)
    \/ Check(p, "check", "verify") \/ Check(p, "consistent", "consume")
    \/ Check(p, "consumed", "apply")

Monitor == PassBegins \/ PolicyStep("monitor") \/ Verify \/ MergeUnattended
Listener ==
    \/ Poll \/ Fetch \/ PolicyStep("listener") \/ Consume \/ Apply
    \/ Answer \/ Offset

ControlNext ==
    \/ Monitor \/ Listener
    \/ SendHold \/ Tick \/ DiskChanges
    \/ \E t \in Token : ExpireToken(t) \/ SendConfirm(t) \/ \E profile \in Wants[t] : Ask(t, profile)
    \/ \E r \in Role : Crash(r)

ControlSpec == ControlInit /\ [][ControlNext]_controlVars
\* The monitor is started by a timer, the listener runs in a loop.
ControlFairSpec == ControlSpec /\ WF_controlVars(Monitor) /\ WF_controlVars(Listener)

------------------------------------------------------------------------------
(* Properties                                                              *)

\* A confirmed change is applied once, although Telegram delivers the update
\* again after a crash or a failed answer, and the operator may send it twice
\* (docs/operations/sdlc-supervisor.md: `is consumed once').
ConfirmedOnce == \A t \in Token : applied[t] <= 1

\* No merge is verified under a lease that had ended, and none under a policy
\* other than the change which the operator was told of last, or one confirmed
\* since, although the monitor adopted its policy earlier in its pass and although
\* a reversion may overwrite a change.
AnsweredChangeRules ==
    [][place["monitor"].at # "merge" /\ place'["monitor"].at = "merge" =>
          adopted["monitor"] \in ruling /\ adopted["monitor"].until > now]_controlVars

\* A lease on file that has ended is replaced, unless the file cannot be written.
LeaseEnds == Expired(file) ~> (~Expired(file) \/ disk # "ok")

Holds == \E n \in 1..Len(updates) : updates[n].command = "hold"

\* docs/operations/sdlc-supervisor.md: `/hold [...] takes effect immediately,
\* even when the autonomy lease or process attestations are invalid.'
HoldTakesEffect == Holds ~> (paused \/ ~Holds)
==============================================================================
