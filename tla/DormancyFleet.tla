---------------------------- MODULE DormancyFleet ----------------------------
(***************************************************************************)
(* The sweeps and the operator commands that share one dormancy state      *)
(* file: prober/src/main.rs reads the file once and plans from it, probes  *)
(* for minutes or hours with nothing held, and only then merges its        *)
(* outcomes into whatever the file holds by that time.  The hourly and the *)
(* daily sweep overlap, sweeps die half way and are re-run under the same  *)
(* --at, and an operator wakes, sleeps and prunes while they run.          *)
(*                                                                         *)
(* A merge is one step here; that merge_state makes it one is what module  *)
(* StateFile shows.                                                        *)
(***************************************************************************)
EXTENDS DormancyPolicy

CONSTANTS
  Sweeps,      \* the sweep jobs
  SpendOf,     \* SpendOf[s]: Cheap for the hourly cadence, Full for the daily
  ProfilePass, \* whether a full sweep's metrics hold the class profile pass
  MaxInstant   \* bound on the clock

ASSUME SweepsAssumption ==
  /\ SpendOf \in [Sweeps -> Spend]
  /\ ProfilePass \in BOOLEAN
  /\ MaxInstant \in Nat

VARIABLES
  clock,     \* the newest instant anything has been stamped with
  disk,      \* the state file
  sweep,     \* each sweep job: what it planned and which --at it runs under
  evidence   \* history: per endpoint, the verdict each --at last left applied

vars == <<clock, disk, sweep, evidence>>

Idle == [running |-> FALSE, at |-> None, probe |-> {}]

\* What a sweep or a prune is handed, the registry's urls or --only's, as far as
\* it names an endpoint of the model: {} is a list of others.
Lists == SUBSET Endpoints

NoEvidence == [t \in 1..MaxInstant |-> "none"]

Init ==
  /\ clock = None
  /\ disk = EmptyState
  /\ sweep = [s \in Sweeps |-> Idle]
  /\ evidence = [e \in Endpoints |-> NoEvidence]

(***************************************************************************)
(* read_state and plan_sweep.  A fresh sweep stamps a new instant; a       *)
(* re-run reuses one, under either job since nothing ties an --at to a     *)
(* cadence, which RunWriter::create refuses while it is still written.     *)
(***************************************************************************)
Plan(s, at, listed) ==
  /\ ~sweep[s].running
  /\ sweep' = [sweep EXCEPT ![s] =
       [running |-> TRUE, at |-> at,
        probe |-> PlanSweep(disk, listed, at, SpendOf[s])]]

Start(s) ==
  \E listed \in Lists :
    /\ clock < MaxInstant
    /\ clock' = clock + 1
    /\ Plan(s, clock + 1, listed)
    /\ UNCHANGED <<disk, evidence>>

Rerun(s) ==
  \E at \in 1..clock, listed \in Lists :
    /\ \A r \in Sweeps : sweep[r].running => sweep[r].at # at
    /\ Plan(s, at, listed)
    /\ UNCHANGED <<clock, disk, evidence>>

(***************************************************************************)
(* outcomes_from and merge_state: every planned endpoint has an outcome,   *)
(* and update runs on the file as it is now.  Only a sweep whose metrics   *)
(* hold the class profile pass can have run it.                            *)
(***************************************************************************)
Outcomes(s) ==
  [sweep[s].probe -> {o \in Outcome :
                         o.profiled => ProfilePass /\ SpendOf[s] = "Full"}]

Applied(e, outcomes, now) ==
  /\ e \in DOMAIN outcomes
  /\ ~Overtaken(ClearLapsed(disk.entry[e], Day(now)), now)

Lapses(e, now) == HoldEffect(disk.entry[e], Day(now)) = "LapsedAwake"

Witness(e, outcomes, now) ==
  LET kept == IF Lapses(e, now) THEN NoEvidence ELSE evidence[e] IN
  IF Applied(e, outcomes, now)
    THEN [kept EXCEPT ![now] = outcomes[e].verdict] ELSE kept

MergeOutcomes(s, outcomes) ==
  LET now == sweep[s].at IN
  /\ sweep[s].running
  /\ disk' = Update(disk, outcomes, now)
  /\ sweep' = [sweep EXCEPT ![s] = Idle]
  /\ evidence' = [e \in Endpoints |-> Witness(e, outcomes, now)]
  /\ UNCHANGED clock

Merge(s) == \E outcomes \in Outcomes(s) : MergeOutcomes(s, outcomes)

\* Killed, out of memory, or refused the lock: nothing reaches the file.
Die(s) ==
  /\ sweep[s].running
  /\ sweep' = [sweep EXCEPT ![s] = Idle]
  /\ UNCHANGED <<clock, disk, evidence>>

(***************************************************************************)
(* The dormancy binary.  Its instants are the operator's --at; the model   *)
(* stamps them with the clock.                                             *)
(***************************************************************************)
WakeCommand(e) ==
  \E pin \in BOOLEAN :
    /\ disk' = Wake(disk, e, clock, pin)
    /\ evidence' = [evidence EXCEPT ![e] = NoEvidence]
    /\ UNCHANGED <<clock, sweep>>

SleepCommand(e) ==
  /\ clock # None
  /\ disk' = Sleep(disk, e, clock)
  /\ UNCHANGED <<clock, sweep, evidence>>

PruneCommand ==
  \E listed \in Lists :
    /\ disk' = Prune(disk, listed)
    /\ evidence' = [e \in Endpoints |->
         IF disk'.entry[e] = NewEntry THEN NoEvidence ELSE evidence[e]]
    /\ UNCHANGED <<clock, sweep>>

Next ==
  \/ \E s \in Sweeps : Start(s) \/ Rerun(s) \/ Merge(s) \/ Die(s)
  \/ \E e \in Endpoints : WakeCommand(e) \/ SleepCommand(e)
  \/ PruneCommand

Spec == Init /\ [][Next]_vars

----------------------------------------------------------------------------
Sweep == [running : BOOLEAN, at : Instant, probe : SUBSET Endpoints]

\* Types of every variable.
TypeOK ==
  /\ clock \in 0..MaxInstant
  /\ disk \in State
  /\ sweep \in [Sweeps -> Sweep]
  /\ evidence \in [Endpoints -> [1..MaxInstant -> Verdict \cup {"none"}]]

(***************************************************************************)
(* A wake makes an endpoint immune from automatic relegation until its     *)
(* grace lapses: nothing, in any order of sweeps, late merges and          *)
(* commands, leaves an endpoint both awake by hand and dormant.            *)
(***************************************************************************)
WokenIsNeverDormant ==
  \A e \in Endpoints :
    disk.entry[e].hold \in {"awake", "pinned"} => disk.entry[e].since = None

(***************************************************************************)
(* What is written can be read back: State::parse refuses an entry that is *)
(* dormant and was never probed unless a person put it to sleep, and a     *)
(* file it refuses stops every later sweep and every later command.        *)
(***************************************************************************)
FileParses ==
  \A e \in Endpoints :
    LET entry == disk.entry[e] IN
    entry.since # None /\ entry.probed = None => entry.hold = "dormant"

(***************************************************************************)
(* strikes is the number of consecutive strike sweeps, counted by distinct *)
(* --at, since the endpoint last answered, was cheap or was woken: neither *)
(* a replay nor a late merge nor an operator's sleep miscounts it.         *)
(***************************************************************************)
Trailing(e) ==
  LET seen == {t \in 1..MaxInstant : evidence[e][t] # "none"}
  IN  {t \in seen : \A u \in seen : u >= t => evidence[e][u] = "strike"}

StrikesAreConsecutiveSweeps ==
  \A e \in Endpoints : disk.entry[e].strikes = Cardinality(Trailing(e))

(***************************************************************************)
(* The machine relegates nothing on the strength of fewer sweeps than the  *)
(* threshold: an entry a merge makes dormant has that many strikes behind  *)
(* it, each from an --at of its own.                                       *)
(***************************************************************************)
RelegationIsEarned ==
  [][\A e \in Endpoints :
       \/ disk'.entry[e].since \in {None, disk.entry[e].since}
       \/ disk'.entry[e].hold = "dormant"
       \/ Cardinality(Trailing(e)') >= StrikeLimit]_vars

(***************************************************************************)
(* A person's sleep outlasts every sweep that was already running: while   *)
(* the hold stands, no step changes what the file says of the endpoint's   *)
(* dormancy or its strikes, and only a wake takes the hold away.           *)
(***************************************************************************)
LeavesSleepersAlone ==
  \A e \in Endpoints :
    disk.entry[e].hold = "dormant" =>
      \/ disk'.entry[e] = disk.entry[e]
      \/ WakeCommand(e)

SleepStands == [][LeavesSleepersAlone]_vars

(***************************************************************************)
(* A merge never moves an endpoint's record back in time: a sweep that     *)
(* lands after a later one leaves the later one's record alone.            *)
(***************************************************************************)
RecordsMoveForward ==
  [][(\E s \in Sweeps : Merge(s)) =>
       /\ \A e \in Endpoints : disk.entry[e].probed <= disk'.entry[e].probed
       /\ disk.lastSweep <= disk'.lastSweep]_vars

(***************************************************************************)
(* Nothing a person put to sleep is asked anything by a sweep that plans   *)
(* after the sleep, a re-run of an --at from before it included.           *)
(***************************************************************************)
SleepersAreLeftAlone ==
  [][\A s \in Sweeps : ~sweep[s].running /\ sweep'[s].running =>
       \A e \in sweep'[s].probe : disk.entry[e].hold # "dormant"]_vars
=============================================================================
