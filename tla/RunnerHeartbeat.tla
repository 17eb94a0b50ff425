--------------------------- MODULE RunnerHeartbeat ---------------------------
(***************************************************************************)
(* The evidence an issue runner leaves (manager/runner_heartbeat.py): the   *)
(* record of one issue, written under a lock by the run that started last,  *)
(* in a directory that it shares with the records of other issues.          *)
(*                                                                         *)
(* A run is an execution of scripts/fortify-issue-runner.sh: the script     *)
(* reports phases, its ticker reports activity, and either may be left over *)
(* when the other is gone.  Nothing here relies on runner.lock: the store   *)
(* promises to fence off a delayed writer by itself.                        *)
(***************************************************************************)
EXTENDS Naturals, FiniteSets

CONSTANTS
    Run,
    LastPhase,              \* PHASES are 1..LastPhase
    MaxRecords,             \* records that the clean-up keeps
    Scenario,               \* bounds: the runs that happen, the faults, the changes
                            \* of the policy, and the configuration of the monitor
    None

ASSUME HeartbeatAssumption ==
    /\ IsFiniteSet(Run)
    /\ {LastPhase, MaxRecords} \subseteq Nat \ {0}
    /\ Scenario \subseteq [runs : SUBSET Run, faults : Nat, policies : Nat,
                          mode : {"all", "failures", "no heartbeat_root"}]

VARIABLES
    record,    \* issue-<n>.json
    later,     \* how many records of other issues have a later last_activity_at
    run,       \* what each run knows: its generation, policy and phase
    runPolicy, \* the generation of the autonomy policy, whoever changes it
    newest,    \* history: the last run to start
    faults,    \* how many faults happened
    bound      \* the scenario

heartbeat == <<record, later, run, runPolicy, newest, bound>>

\* The terminal phases come after the others.  runner_health, as it is stored,
\* is the terminal phase or else active.
CompletedPhase == LastPhase + 1
Failed == LastPhase + 2
Terminals == {CompletedPhase, Failed}
Phase == 1..LastPhase \union Terminals
HeartbeatRecord == [writer : Run, generation : 1..Cardinality(Run), policy : Nat,
           phase : Phase, active : BOOLEAN]

HeartbeatTypeOK ==
    /\ record \in HeartbeatRecord \union {None} /\ later \in 0..MaxRecords - 1
    /\ runPolicy \in 0..bound.policies /\ faults \in 0..bound.faults
    /\ newest \in Run \union {None}

HeartbeatInit ==
    /\ record = None /\ later = 0
    /\ run = [r \in Run |-> [at |-> "new"]]
    /\ runPolicy = 0 /\ faults = 0 /\ newest = None /\ bound \in Scenario

Over == record.phase \in Terminals

\* _write_unlocked; the record is now the newest of all, so that the clean-up
\* which follows leaves it alone.
Write(document) == record' = document /\ later' = 0

\* With one more, the record is no longer among the newest MaxRecords.
Excess == later + 1 = MaxRecords

\* The run of another issue writes, and cleans up: it removes a record older
\* than the newest MaxRecords, and a terminal one that is too old or one of too many.
OthersWrite ==
    /\ record # None
    /\ \/ ~Excess /\ later' = later + 1 /\ UNCHANGED record
       \/ (Excess \/ Over) /\ record' = None /\ later' = 0
    /\ UNCHANGED <<run, runPolicy, newest, faults, bound>>

------------------------------------------------------------------------------
(* The runner                                                              *)

\* start: the generation after the one on record.  The script read the policy
\* a little earlier.
Start(r) ==
    /\ run[r].at = "new"
    /\ \E read \in 0..runPolicy :
        LET generation == IF record = None THEN 1 ELSE record.generation + 1 IN
        /\ Write([writer |-> r, generation |-> generation, policy |-> read,
                  phase |-> 1, active |-> TRUE])
        /\ run' = [run EXCEPT ![r] = [at |-> "working", policy |-> read,
                                      generation |-> generation, phase |-> 1]]
    /\ newest' = r
    /\ UNCHANGED <<runPolicy, faults, bound>>

\* Mutation: the writer is known by its generation alone.
OwnsByGeneration(r) == record # None /\ record.generation = run[r].generation /\ ~Over

\* Mutation: a terminal record can be updated.
OwnsForEver(r) == record # None /\ record.writer = r /\ record.generation = run[r].generation

\* What update demands before it writes.
Owns(r) ==
    record # None /\ record.writer = r /\ record.generation = run[r].generation /\ ~Over

\* update with a phase.
Update(phase) ==
    Write([record EXCEPT !.phase = phase, !.active = phase \notin Terminals])

EndRun(r, phase) ==
    run' = [run EXCEPT ![r] = [at |-> "gone", generation |-> @.generation, phase |-> phase]]

\* heartbeat_phase; a refused update ends the script, whose trap is refused too.
AdvanceRun(r) ==
    /\ run[r].at = "working" /\ run[r].phase < LastPhase
    /\ run[r].policy = runPolicy
    /\ IF Owns(r)
         THEN Update(run[r].phase + 1) /\ run' = [run EXCEPT ![r].phase = @ + 1]
         ELSE EndRun(r, run[r].phase) /\ UNCHANGED <<record, later>>
    /\ UNCHANGED <<runPolicy, newest, faults, bound>>

\* heartbeat_terminal, from the end of the script, from fail (also when the
\* policy has changed), or from the trap.
FinishRun(r, phase) ==
    /\ run[r].at = "working"
    /\ IF Owns(r) THEN Update(phase) /\ EndRun(r, phase)
       ELSE EndRun(r, run[r].phase) /\ UNCHANGED <<record, later>>
    /\ UNCHANGED <<runPolicy, newest, faults, bound>>

\* update without a phase: the ticker, or an update of it that was under way
\* when the ticker was killed, or the ticker of a script that was killed.
TickRun(r) ==
    /\ run[r].at \in {"working", "gone"} /\ Owns(r)
    /\ Write([record EXCEPT !.active = TRUE])
    /\ UNCHANGED <<run, runPolicy, newest, faults, bound>>

\* The script is killed.
Die(r) ==
    /\ run[r].at = "working" /\ EndRun(r, run[r].phase)
    /\ faults < bound.faults /\ faults' = faults + 1
    /\ UNCHANGED <<record, later, runPolicy, newest, bound>>

ChangePolicy ==
    /\ runPolicy < bound.policies /\ runPolicy' = runPolicy + 1
    /\ UNCHANGED <<record, later, run, newest, faults, bound>>

HeartbeatNext ==
    \/ ChangePolicy \/ OthersWrite
    \/ \E r \in bound.runs :
        \/ Start(r) \/ AdvanceRun(r) \/ TickRun(r) \/ Die(r)
        \/ \E phase \in Terminals : FinishRun(r, phase)

------------------------------------------------------------------------------
(* Properties                                                              *)

\* The record shows what the last run to start reported, whatever older runs
\* still write, and although a record that was cleaned up starts at generation
\* 1 again (docs/runner-heartbeats.md: `a delayed or stale process cannot
\* replace newer state').
EvidenceIsCurrent ==
    record # None => record.writer = newest /\ record.phase = run[newest].phase

\* A terminal record stays as it is until it is cleaned up or another run
\* starts: no late report of activity revives it.
TerminalIsFinal ==
    [][record # None /\ Over /\ record' \notin {record, None}
           => record'.writer # record.writer]_record
==============================================================================
