--------------------------- MODULE DormancyProofs ---------------------------
(***************************************************************************)
(* Proofs about DormancyFleet and, at the end, DormancyRotation, for any   *)
(* registry, any set of sweep jobs, any thresholds and any schedule.  What *)
(* each rule of DormancyPolicy keeps of one entry is a lemma about that    *)
(* operator; the invariants follow action by action.                       *)
(***************************************************************************)
EXTENDS DormancyFleet, DormancyRotation, FiniteSetTheorems, WellFoundedInduction, TLAPS

(***************************************************************************)
(* What every entry of the file satisfies.  The second conjunct is the     *)
(* immunity of a wake; the third is what SleepStands needs of an entry a   *)
(* person put to sleep; the fourth is what State::parse asks.              *)
(***************************************************************************)
WellFormed(entry) ==
  /\ entry \in Entry
  /\ entry.hold \in {"awake", "pinned"} => entry.since = None
  /\ entry.hold = "dormant" => entry.since # None /\ entry.until = None
  /\ entry.since # None /\ entry.probed = None => entry.hold = "dormant"

Sound ==
  /\ TypeOK
  /\ \A e \in Endpoints : WellFormed(disk.entry[e])
  /\ \A s \in Sweeps : sweep[s].running => sweep[s].at # None

----------------------------------------------------------------------------
(***************************************************************************)
(* One lemma per rule.                                                     *)
(***************************************************************************)
LEMMA NewEntryWellFormed == WellFormed(NewEntry)
  BY DEF WellFormed, NewEntry, Entry, Instant, Hold, None

LEMMA ClearLapsedKeeps ==
  ASSUME NEW entry, WellFormed(entry), NEW today
  PROVE  /\ WellFormed(ClearLapsed(entry, today))
         /\ ClearLapsed(entry, today).probed = entry.probed
         /\ HoldEffect(ClearLapsed(entry, today), today) # "LapsedAwake"
         /\ entry.hold = "dormant" => ClearLapsed(entry, today) = entry
  BY DEF ClearLapsed, HoldEffect, WellFormed, Entry, Hold, Instant, None

LEMMA LiveUnlessLapsed ==
  ASSUME NEW entry \in Entry, NEW today, HoldEffect(entry, today) # "LapsedAwake",
         HoldEffect(entry, today) # "LiveAwake"
  PROVE  entry.hold \notin {"awake", "pinned"}
  BY DEF HoldEffect, Entry, Hold

LEMMA BaseType ==
  ASSUME NEW entry \in Entry, NEW now
  PROVE  Base(entry, now) \in Nat
  BY DEF Base, Entry

\* Rules E, F and G, on an entry already stamped with the sweep's instant.
LEMMA StrikeKeeps ==
  ASSUME NEW entry, WellFormed(entry), NEW now \in Nat \ {None}, NEW base \in Nat,
         entry.probed = now, HoldEffect(entry, Day(now)) # "LapsedAwake"
  PROVE  WellFormed(Strike(entry, base, now)) /\ Strike(entry, base, now).probed = now
  <1>1. entry \in Entry
    BY DEF WellFormed
  <1>2. CASE Relegates(entry, base + 1, now)
    <2>1. entry.hold \notin {"awake", "pinned"}
      BY <1>1, <1>2, LiveUnlessLapsed DEF Relegates
    <2>2. Strike(entry, base, now) = [entry EXCEPT !.strikes = base + 1, !.since = now]
      BY <1>1, <1>2 DEF Strike, Entry
    <2>3. [entry EXCEPT !.strikes = base + 1, !.since = now] \in Entry
      <3>1. base + 1 \in Nat /\ now \in Nat
        OBVIOUS
      <3> QED
        BY <1>1, <3>1 DEF Entry, Instant
    <2> QED
      BY <1>1, <2>1, <2>2, <2>3 DEF WellFormed, Entry, None
  <1>3. CASE ~Relegates(entry, base + 1, now)
    <2>1. Strike(entry, base, now) = [entry EXCEPT !.strikes = base + 1]
      BY <1>1, <1>3 DEF Strike, Entry
    <2> QED
      BY <1>1, <2>1 DEF WellFormed, Entry, Instant, None
  <1> QED
    BY <1>2, <1>3

LEMMA JudgeKeeps ==
  ASSUME NEW entry, WellFormed(entry), NEW now \in Nat \ {None}, NEW base \in Nat,
         entry.probed = now, entry.hold # "dormant",
         HoldEffect(entry, Day(now)) # "LapsedAwake", NEW verdict \in Verdict
  PROVE  /\ WellFormed(Judge(entry, verdict, base, now))
         /\ Judge(entry, verdict, base, now).probed = now
  <1>1. CASE verdict = "positive"
    BY <1>1 DEF Judge, WellFormed, Entry, Instant, None
  <1>2. CASE verdict = "strike"
    BY <1>2, StrikeKeeps DEF Judge
  <1>3. CASE verdict = "silent"
    BY <1>3 DEF Judge, WellFormed, Entry, Instant, None
  <1> QED
    BY <1>1, <1>2, <1>3 DEF Verdict

LEMMA DormantIsOvertaken ==
  ASSUME NEW entry, NEW now, entry.hold = "dormant"
  PROVE  Overtaken(entry, now)
  BY DEF Overtaken, HoldEffect

\* Rules H and C keep the entry; B, E, F and G judge a stamped one.
LEMMA ApplyOutcomeKeeps ==
  ASSUME NEW entry, WellFormed(entry), NEW now \in Nat \ {None}, NEW outcome \in Outcome,
         HoldEffect(entry, Day(now)) # "LapsedAwake"
  PROVE  /\ WellFormed(ApplyOutcome(entry, outcome, now))
         /\ entry.probed <= ApplyOutcome(entry, outcome, now).probed
         /\ entry.hold = "dormant" => ApplyOutcome(entry, outcome, now) = entry
  <1>1. CASE Overtaken(entry, now)
    BY <1>1 DEF ApplyOutcome, WellFormed, Entry, Instant
  <1>2. CASE ~Overtaken(entry, now)
    <2> DEFINE base == Base(entry, now)
               stamped == [entry EXCEPT !.before = base,
                                        !.probed = now,
                                        !.profiled = IF outcome.profiled THEN now ELSE @]
    <2>1. ApplyOutcome(entry, outcome, now) = Judge(stamped, outcome.verdict, base, now)
      BY <1>2 DEF ApplyOutcome
    <2>2. entry.hold # "dormant" /\ entry.probed <= now
      BY <1>2, DormantIsOvertaken DEF Overtaken, WellFormed, Entry, Instant
    <2>3. base \in Nat
      BY BaseType DEF WellFormed
    <2>4. /\ WellFormed(stamped) /\ stamped.probed = now
          /\ stamped.hold = entry.hold /\ stamped.until = entry.until
      BY <2>3 DEF WellFormed, Entry, Instant, None
    <2>5. HoldEffect(stamped, Day(now)) # "LapsedAwake"
      BY <2>4 DEF HoldEffect
    <2>6. outcome.verdict \in Verdict
      BY DEF Outcome
    <2> HIDE DEF base, stamped
    <2>7. /\ WellFormed(Judge(stamped, outcome.verdict, base, now))
          /\ Judge(stamped, outcome.verdict, base, now).probed = now
      BY <2>2, <2>3, <2>4, <2>5, <2>6, JudgeKeeps
    <2> QED
      BY <2>1, <2>2, <2>7
  <1> QED
    BY <1>1, <1>2

LEMMA WakeKeeps ==
  ASSUME NEW entry \in Entry, NEW now \in Nat, NEW pin \in BOOLEAN
  PROVE  WellFormed(Woken(entry, now, pin))
  <1> DEFINE hold == IF pin THEN "pinned" ELSE "awake"
             until == IF pin THEN None ELSE now + GraceDays * TicksPerDay
  <1>1. GraceDays * TicksPerDay \in Nat
    BY ThresholdsAssumption
  <1>2. until \in Instant /\ hold \in {"pinned", "awake"}
    BY <1>1 DEF Instant, None
  <1> HIDE DEF hold, until
  <1>3. WellFormed([entry EXCEPT !.hold = hold, !.until = until,
                                 !.strikes = 0, !.before = 0, !.since = None])
    BY <1>2 DEF WellFormed, Entry, Hold, Instant, None
  <1> QED
    BY <1>3 DEF hold, until, Woken

LEMMA SleepKeeps ==
  ASSUME NEW entry, WellFormed(entry), NEW now \in Nat \ {None}
  PROVE  /\ WellFormed(Asleep(entry, now))
         /\ entry.hold = "dormant" => Asleep(entry, now) = entry
  BY DEF Asleep, WellFormed, Entry, Hold, Instant, None

\* update, entry by entry.
LEMMA UpdateKeeps ==
  ASSUME NEW now \in Nat \ {None}, NEW outcomes,
         \A e \in DOMAIN outcomes : outcomes[e] \in Outcome,
         NEW e \in Endpoints, WellFormed(disk.entry[e])
  PROVE  /\ WellFormed(Update(disk, outcomes, now).entry[e])
         /\ disk.entry[e].probed <= Update(disk, outcomes, now).entry[e].probed
         /\ disk.entry[e].hold = "dormant" =>
              Update(disk, outcomes, now).entry[e] = disk.entry[e]
  <1> DEFINE cleared == ClearLapsed(disk.entry[e], Day(now))
             new == Update(disk, outcomes, now).entry[e]
  <1>1. /\ WellFormed(cleared) /\ cleared.probed = disk.entry[e].probed
        /\ HoldEffect(cleared, Day(now)) # "LapsedAwake"
        /\ disk.entry[e].hold = "dormant" => cleared = disk.entry[e]
    BY ClearLapsedKeeps
  <1>2. new = IF e \in DOMAIN outcomes THEN ApplyOutcome(cleared, outcomes[e], now)
                                       ELSE cleared
    BY DEF Update
  <1>3. cleared.probed <= cleared.probed
    BY <1>1 DEF WellFormed, Entry, Instant
  <1> HIDE DEF cleared, new
  <1>4. CASE e \in DOMAIN outcomes
    BY <1>1, <1>2, <1>4, ApplyOutcomeKeeps DEF new
  <1>5. CASE e \notin DOMAIN outcomes
    BY <1>1, <1>2, <1>3, <1>5 DEF new
  <1> QED
    BY <1>4, <1>5

LEMMA PlanIsListed ==
  ASSUME NEW state, NEW listed \in Lists, NEW now, NEW spend
  PROVE  PlanSweep(state, listed, now, spend) \in SUBSET Endpoints
  BY DEF PlanSweep, Lists

----------------------------------------------------------------------------
(***************************************************************************)
(* The invariant.                                                          *)
(***************************************************************************)
LEMMA SoundInit == Init => Sound
  <1> SUFFICES ASSUME Init PROVE Sound
    OBVIOUS
  <1>1. NewEntry \in Entry
    BY NewEntryWellFormed DEF WellFormed
  <1>2. clock \in 0..MaxInstant
    BY SweepsAssumption DEF Init, None
  <1>3. disk \in State
    BY <1>1 DEF Init, EmptyState, State, Instant, None
  <1>4. sweep \in [Sweeps -> Sweep] /\ \A s \in Sweeps : ~sweep[s].running
    BY DEF Init, Idle, Sweep, Instant, None
  <1>5. evidence \in [Endpoints -> [1..MaxInstant -> Verdict \cup {"none"}]]
    BY DEF Init, NoEvidence
  <1>6. \A e \in Endpoints : WellFormed(disk.entry[e])
    BY NewEntryWellFormed DEF Init, EmptyState
  <1> QED
    BY <1>2, <1>3, <1>4, <1>5, <1>6 DEF Sound, TypeOK

LEMMA PlanKeeps ==
  ASSUME Sound, NEW s \in Sweeps, NEW at \in Nat \ {None}, NEW listed \in Lists,
         Plan(s, at, listed)
  PROVE  /\ sweep' \in [Sweeps -> Sweep]
         /\ \A r \in Sweeps : sweep'[r].running => sweep'[r].at # None
  <1>1. PlanSweep(disk, listed, at, SpendOf[s]) \in SUBSET Endpoints
    BY PlanIsListed
  <1> QED
    BY <1>1 DEF Plan, Sound, TypeOK, Sweep, Instant

LEMMA MergeKeeps ==
  ASSUME Sound, NEW s \in Sweeps, NEW outcomes \in Outcomes(s), MergeOutcomes(s, outcomes)
  PROVE  Sound'
  <1> DEFINE now == sweep[s].at
  <1>1. now \in Nat \ {None}
    BY DEF MergeOutcomes, Sound, TypeOK, Sweep, Instant
  <1>2. \A e \in DOMAIN outcomes : outcomes[e] \in Outcome
    BY DEF Outcomes
  <1>3. disk' = Update(disk, outcomes, now)
    BY DEF MergeOutcomes
  <1>4. \A e \in Endpoints : WellFormed(disk'.entry[e])
    BY <1>1, <1>2, <1>3, UpdateKeeps DEF Sound
  <1>5. disk'.entry \in [Endpoints -> Entry]
    <2>1. disk'.entry = [e \in Endpoints |-> disk'.entry[e]]
      BY <1>3 DEF Update
    <2> QED
      BY <1>4, <2>1 DEF WellFormed
  <1>6. disk' \in State
    BY <1>1, <1>3, <1>5 DEF Update, State, Later, Instant, Sound, TypeOK
  <1>7. /\ sweep' \in [Sweeps -> Sweep]
        /\ \A r \in Sweeps : sweep'[r].running => sweep'[r].at # None
    BY DEF MergeOutcomes, Sound, TypeOK, Idle, Sweep, Instant, None
  <1>8. evidence' \in [Endpoints -> [1..MaxInstant -> Verdict \cup {"none"}]]
    <2>1. ASSUME NEW e \in Endpoints
          PROVE  Witness(e, outcomes, now) \in [1..MaxInstant -> Verdict \cup {"none"}]
      <3> DEFINE kept == IF Lapses(e, now) THEN NoEvidence ELSE evidence[e]
      <3>1. kept \in [1..MaxInstant -> Verdict \cup {"none"}]
        BY DEF NoEvidence, Sound, TypeOK
      <3>2. e \in DOMAIN outcomes => outcomes[e].verdict \in Verdict
        BY <1>2 DEF Outcome
      <3> QED
        BY <3>1, <3>2 DEF Witness, Applied
    <2> QED
      BY <2>1 DEF MergeOutcomes
  <1> QED
    BY <1>4, <1>6, <1>7, <1>8 DEF MergeOutcomes, Sound, TypeOK

LEMMA CommandsKeep ==
  ASSUME Sound, NEW e \in Endpoints, NEW new, WellFormed(new),
         disk' = [disk EXCEPT !.entry[e] = new]
  PROVE  disk' \in State /\ \A d \in Endpoints : WellFormed(disk'.entry[d])
  <1>1. new \in Entry
    BY DEF WellFormed
  <1> QED
    BY <1>1 DEF Sound, TypeOK, State

LEMMA SoundStep == Sound /\ [Next]_vars => Sound'
  <1> SUFFICES ASSUME Sound, [Next]_vars PROVE Sound'
    OBVIOUS
  <1>1. ASSUME NEW s \in Sweeps, Start(s) PROVE Sound'
    <2>1. PICK listed \in Lists : Plan(s, clock + 1, listed)
      BY <1>1 DEF Start
    <2>2. clock + 1 \in Nat \ {None} /\ clock' \in 0..MaxInstant
      BY <1>1, SweepsAssumption DEF Start, Sound, TypeOK, None
    <2> QED
      BY <1>1, <2>1, <2>2, PlanKeeps DEF Start, Sound, TypeOK
  <1>2. ASSUME NEW s \in Sweeps, Rerun(s) PROVE Sound'
    <2>1. PICK at \in 1..clock, listed \in Lists : Plan(s, at, listed)
      BY <1>2 DEF Rerun
    <2>2. at \in Nat \ {None}
      BY DEF Sound, TypeOK, None
    <2> QED
      BY <1>2, <2>1, <2>2, PlanKeeps DEF Rerun, Sound, TypeOK
  <1>3. ASSUME NEW s \in Sweeps, Merge(s) PROVE Sound'
    BY <1>3, MergeKeeps DEF Merge
  <1>4. ASSUME NEW s \in Sweeps, Die(s) PROVE Sound'
    BY <1>4 DEF Die, Sound, TypeOK, Idle, Sweep, Instant, None
  <1>5. ASSUME NEW e \in Endpoints, WakeCommand(e) PROVE Sound'
    <2>1. PICK pin \in BOOLEAN : disk' = Wake(disk, e, clock, pin)
      BY <1>5 DEF WakeCommand
    <2>2. disk.entry[e] \in Entry /\ clock \in Nat
      BY DEF Sound, TypeOK, State
    <2>3. disk' \in State /\ \A d \in Endpoints : WellFormed(disk'.entry[d])
      BY <2>1, <2>2, WakeKeeps, CommandsKeep DEF Wake, Sound, TypeOK, State
    <2> QED
      BY <1>5, <2>3 DEF WakeCommand, Sound, TypeOK, NoEvidence
  <1>6. ASSUME NEW e \in Endpoints, SleepCommand(e) PROVE Sound'
    <2>1. disk' = Sleep(disk, e, clock) /\ clock \in Nat \ {None}
      BY <1>6 DEF SleepCommand, Sound, TypeOK
    <2>2. disk' = [disk EXCEPT !.entry[e] = Asleep(disk.entry[e], clock)]
      BY <2>1 DEF Sleep, Sound, TypeOK, State
    <2>3. WellFormed(Asleep(disk.entry[e], clock))
      BY <2>1, SleepKeeps DEF Sound
    <2>4. disk' \in State /\ \A d \in Endpoints : WellFormed(disk'.entry[d])
      BY <2>2, <2>3, CommandsKeep
    <2> QED
      BY <1>6, <2>4 DEF SleepCommand, Sound, TypeOK
  <1>7. CASE PruneCommand
    <2>1. PICK listed \in Lists : disk' = Prune(disk, listed)
      BY <1>7 DEF PruneCommand
    <2>2. disk' = [disk EXCEPT !.entry = [e \in Endpoints |-> disk'.entry[e]]]
      BY <2>1 DEF Prune, Sound, TypeOK, State
    <2>3. \A e \in Endpoints : disk'.entry[e] \in {NewEntry, disk.entry[e]}
      BY <2>1 DEF Prune, Sound, TypeOK, State
    <2>4. \A e \in Endpoints : WellFormed(disk'.entry[e])
      BY <2>3, NewEntryWellFormed DEF Sound
    <2>5. disk' \in State
      BY <2>2, <2>4 DEF Sound, TypeOK, State, WellFormed
    <2> QED
      BY <1>7, <2>4, <2>5 DEF PruneCommand, Sound, TypeOK, NoEvidence
  <1>8. CASE UNCHANGED vars
    BY <1>8 DEF vars, Sound, TypeOK
  <1> QED
    BY <1>1, <1>2, <1>3, <1>4, <1>5, <1>6, <1>7, <1>8 DEF Next

LEMMA SpecSound == Spec => []Sound
  BY SoundInit, SoundStep, PTL DEF Spec
(***************************************************************************)
(* Every variable keeps its type.                                          *)
(***************************************************************************)
THEOREM TypeCorrect == Spec => []TypeOK
  BY SpecSound, PTL DEF Sound

(***************************************************************************)
(* No endpoint is ever both awake by hand and relegated.                   *)
(***************************************************************************)
THEOREM WakesStand == Spec => []WokenIsNeverDormant
  <1>1. Sound => WokenIsNeverDormant
    BY DEF Sound, WellFormed, WokenIsNeverDormant
  <1> QED
    BY <1>1, SpecSound, PTL

(***************************************************************************)
(* The file always reads back.                                             *)
(***************************************************************************)
THEOREM FileAlwaysParses == Spec => []FileParses
  <1>1. Sound => FileParses
    BY DEF Sound, WellFormed, FileParses
  <1> QED
    BY <1>1, SpecSound, PTL

----------------------------------------------------------------------------
(***************************************************************************)
(* What a step may do to one entry.                                        *)
(***************************************************************************)
LEMMA MergeOfOne ==
  ASSUME Sound, NEW s \in Sweeps, Merge(s), NEW e \in Endpoints
  PROVE  /\ disk.entry[e].probed <= disk'.entry[e].probed
         /\ disk.entry[e].hold = "dormant" => disk'.entry[e] = disk.entry[e]
  <1>1. PICK outcomes \in Outcomes(s) : MergeOutcomes(s, outcomes)
    BY DEF Merge
  <1>2. /\ sweep[s].at \in Nat \ {None} /\ disk' = Update(disk, outcomes, sweep[s].at)
        /\ \A d \in DOMAIN outcomes : outcomes[d] \in Outcome
    BY <1>1 DEF MergeOutcomes, Outcomes, Sound, TypeOK, Sweep, Instant
  <1> QED
    BY <1>2, UpdateKeeps DEF Sound

LEMMA SleepersMove ==
  ASSUME Sound, [Next]_vars, NEW e \in Endpoints, disk.entry[e].hold = "dormant"
  PROVE  disk'.entry[e] = disk.entry[e] \/ WakeCommand(e)
  <1>1. CASE \E s \in Sweeps : Start(s) \/ Rerun(s) \/ Die(s)
    BY <1>1 DEF Start, Rerun, Die
  <1>2. CASE \E s \in Sweeps : Merge(s)
    BY <1>2, MergeOfOne
  <1>3. ASSUME NEW d \in Endpoints, WakeCommand(d), d # e
        PROVE  disk'.entry[e] = disk.entry[e]
    BY <1>3 DEF WakeCommand, Wake, Sound, TypeOK, State
  <1>4. ASSUME NEW d \in Endpoints, SleepCommand(d)
        PROVE  disk'.entry[e] = disk.entry[e]
    <2>1. disk' = [disk EXCEPT !.entry[d] = Asleep(disk.entry[d], clock)]
      BY <1>4 DEF SleepCommand, Sleep, Sound, TypeOK, State
    <2>2. clock \in Nat \ {None}
      BY <1>4 DEF SleepCommand, Sound, TypeOK
    <2>3. d = e => Asleep(disk.entry[d], clock) = disk.entry[d]
      BY <2>2, SleepKeeps DEF Sound
    <2> QED
      BY <2>1, <2>3 DEF Sound, TypeOK, State
  <1>5. CASE PruneCommand
    BY <1>5 DEF PruneCommand, Prune, Sound, TypeOK, State
  <1>6. CASE UNCHANGED vars
    BY <1>6 DEF vars
  <1> QED
    BY <1>1, <1>2, <1>3, <1>4, <1>5, <1>6 DEF Next

(***************************************************************************)
(* While a person's sleep stands, only a wake changes the entry.           *)
(***************************************************************************)
THEOREM SleepAlwaysStands == Spec => SleepStands
  <1>1. Sound /\ [Next]_vars => LeavesSleepersAlone
    BY SleepersMove DEF LeavesSleepersAlone
  <1> QED
    BY <1>1, SpecSound, PTL DEF Spec, SleepStands

(***************************************************************************)
(* No merge moves a record back in time.                                   *)
(***************************************************************************)
THEOREM RecordsNeverGoBack == Spec => RecordsMoveForward
  <1>1. ASSUME Sound, NEW s \in Sweeps, Merge(s)
        PROVE  disk.lastSweep <= disk'.lastSweep
    BY <1>1 DEF Merge, MergeOutcomes, Update, Later, Sound, TypeOK, State, Sweep, Instant
  <1>2. Sound /\ [Next]_vars =>
          [(\E s \in Sweeps : Merge(s)) =>
             /\ \A e \in Endpoints : disk.entry[e].probed <= disk'.entry[e].probed
             /\ disk.lastSweep <= disk'.lastSweep]_vars
    BY <1>1, MergeOfOne
  <1> QED
    BY <1>2, SpecSound, PTL DEF Spec, RecordsMoveForward

LEMMA SleeperIsHeld ==
  ASSUME NEW state, NEW listed, NEW now, NEW spend, NEW e,
         state.entry[e].hold = "dormant"
  PROVE  Decide(state, listed, now, spend, e) = "OperatorHold"
  <1>1. HoldEffect(state.entry[e], Day(now)) = "Dormant"
    BY DEF HoldEffect
  <1> QED
    BY <1>1 DEF Decide

(***************************************************************************)
(* No sweep that plans after a sleep asks the sleeper anything.            *)
(***************************************************************************)
THEOREM SleepersAreNeverAsked == Spec => SleepersAreLeftAlone
  <1>1. ASSUME NEW s \in Sweeps, NEW at, NEW listed, Plan(s, at, listed), Sound,
               NEW r \in Sweeps, ~sweep[r].running, sweep'[r].running
        PROVE  \A e \in sweep'[r].probe : disk.entry[e].hold # "dormant"
    <2>1. sweep'[r].probe = PlanSweep(disk, listed, at, SpendOf[s])
      BY <1>1 DEF Plan, Sound, TypeOK
    <2> QED
      BY <2>1, SleeperIsHeld DEF PlanSweep
  <1>2. Sound /\ [Next]_vars =>
          [\A s \in Sweeps : ~sweep[s].running /\ sweep'[s].running =>
             \A e \in sweep'[s].probe : disk.entry[e].hold # "dormant"]_vars
    <2> SUFFICES ASSUME Sound, Next, NEW r \in Sweeps, ~sweep[r].running, sweep'[r].running
                 PROVE  \A e \in sweep'[r].probe : disk.entry[e].hold # "dormant"
      OBVIOUS
    <2>1. CASE \E s \in Sweeps : Start(s) \/ Rerun(s)
      BY <1>1, <2>1 DEF Start, Rerun
    <2>2. CASE \E s \in Sweeps : Merge(s) \/ Die(s)
      BY <2>2 DEF Merge, MergeOutcomes, Die, Idle, Sound, TypeOK
    <2>3. CASE (\E e \in Endpoints : WakeCommand(e) \/ SleepCommand(e)) \/ PruneCommand
      BY <2>3 DEF WakeCommand, SleepCommand, PruneCommand
    <2> QED
      BY <2>1, <2>2, <2>3 DEF Next
  <1> QED
    BY <1>2, SpecSound, PTL DEF Spec, SleepersAreLeftAlone

----------------------------------------------------------------------------
(***************************************************************************)
(* The count of strikes.  Both counters of an entry are the length of a    *)
(* run of strikes in the history: strikes of the run that ends the         *)
(* history, before of the run just before the newest --at.  The second is  *)
(* what lets a replay of that --at count again from where it began, and    *)
(* nothing being recorded after the newest --at is what makes a new one    *)
(* extend the first.                                                       *)
(***************************************************************************)
Record == [1..MaxInstant -> Verdict \cup {"none"}]

\* The instants of the strikes that end the part of a history before n.
RunBefore(record, n) ==
  {t \in 1..MaxInstant :
     /\ t < n
     /\ record[t] # "none"
     /\ \A u \in 1..MaxInstant :
          t <= u /\ u < n /\ record[u] # "none" => record[u] = "strike"}

WholeRun(record) == RunBefore(record, MaxInstant + 1)

Counts(entry, record) ==
  /\ \A t \in 1..MaxInstant : record[t] # "none" => t <= entry.probed
  /\ entry.strikes = Cardinality(WholeRun(record))
  /\ entry.before = Cardinality(RunBefore(record, entry.probed))

StrikesAreCounted ==
  /\ \A e \in Endpoints : Counts(disk.entry[e], evidence[e])
  /\ \A s \in Sweeps : sweep[s].running => sweep[s].at <= MaxInstant

LEMMA RunIsFinite ==
  ASSUME NEW record, NEW n
  PROVE  /\ IsFiniteSet(RunBefore(record, n))
         /\ Cardinality(RunBefore(record, n)) \in Nat
  <1>1. IsFiniteSet(1..MaxInstant)
    BY FS_Interval, SweepsAssumption
  <1>2. RunBefore(record, n) \subseteq 1..MaxInstant
    BY DEF RunBefore
  <1> QED
    BY <1>1, <1>2, FS_Subset, FS_CardinalityType

\* Nothing recorded, no run.
LEMMA NoRunOfNothing ==
  ASSUME NEW n
  PROVE  Cardinality(RunBefore(NoEvidence, n)) = 0
  <1>1. RunBefore(NoEvidence, n) = {}
    BY DEF RunBefore, NoEvidence
  <1> QED
    BY <1>1, FS_EmptySet

\* A run before n is one before any later instant, if nothing is recorded between.
LEMMA RunBeforeTheFirstUnused ==
  ASSUME NEW record, NEW n \in Nat, NEW m \in Nat, n <= m,
         \A t \in 1..MaxInstant : n <= t /\ t < m => record[t] = "none"
  PROVE  RunBefore(record, n) = RunBefore(record, m)
  <1>1. \A t \in 1..MaxInstant : record[t] # "none" => (t < n <=> t < m)
    BY SweepsAssumption
  <1> QED
    BY <1>1 DEF RunBefore

\* What is recorded at an instant leaves the run before it alone.
LEMMA RecordingKeepsTheRunBefore ==
  ASSUME NEW record \in Record, NEW now \in 1..MaxInstant, NEW verdict
  PROVE  RunBefore([record EXCEPT ![now] = verdict], now) = RunBefore(record, now)
  <1>1. \A t \in 1..MaxInstant : t < now => [record EXCEPT ![now] = verdict][t] = record[t]
    BY SweepsAssumption DEF Record
  <1> QED
    BY <1>1 DEF RunBefore

\* A strike recorded after everything else makes the run one longer.
LEMMA StrikeExtendsTheRun ==
  ASSUME NEW record \in Record, NEW now \in 1..MaxInstant,
         \A t \in 1..MaxInstant : record[t] # "none" => t <= now
  PROVE  Cardinality(WholeRun([record EXCEPT ![now] = "strike"])) =
           Cardinality(RunBefore(record, now)) + 1
  <1> DEFINE new == [record EXCEPT ![now] = "strike"]
  <1>1. \A t \in 1..MaxInstant : new[t] = IF t = now THEN "strike" ELSE record[t]
    BY DEF Record
  <1>2. \A t \in 1..MaxInstant : new[t] # "none" => t < now \/ t = now
    BY <1>1, SweepsAssumption
  <1> HIDE DEF new
  <1>3. \A t \in 1..MaxInstant : t < now => t # now /\ t < MaxInstant + 1
    BY SweepsAssumption
  <1>4. now < MaxInstant + 1 /\ ~(now < now)
    BY SweepsAssumption
  <1>5. ASSUME NEW t \in 1..MaxInstant
        PROVE  t \in WholeRun(new) <=> t \in RunBefore(record, now) \/ t = now
    <2>1. CASE t = now
      <3>1. \A u \in 1..MaxInstant : now <= u /\ new[u] # "none" => u = now
        BY <1>2, SweepsAssumption
      <3> QED
        BY <2>1, <1>1, <1>4, <3>1 DEF WholeRun, RunBefore
    <2>2. CASE t # now
      <3>1. t \in WholeRun(new) => t \in RunBefore(record, now)
        BY <1>1, <1>2, <1>3, <2>2 DEF WholeRun, RunBefore
      <3>2. t \in RunBefore(record, now) => t \in WholeRun(new)
        BY <1>1, <1>2, <1>3, <2>2 DEF WholeRun, RunBefore
      <3> QED
        BY <2>2, <3>1, <3>2
    <2> QED
      BY <2>1, <2>2
  <1>6. WholeRun(new) = RunBefore(record, now) \cup {now}
    BY <1>5 DEF WholeRun, RunBefore
  <1>7. now \notin RunBefore(record, now)
    BY <1>4 DEF RunBefore
  <1> QED
    BY <1>6, <1>7, RunIsFinite, FS_AddElement DEF new

\* Any other verdict recorded after everything else ends it.
LEMMA AnyOtherVerdictEndsTheRun ==
  ASSUME NEW record \in Record, NEW now \in 1..MaxInstant,
         \A t \in 1..MaxInstant : record[t] # "none" => t <= now,
         NEW verdict \in {"positive", "silent"}
  PROVE  Cardinality(WholeRun([record EXCEPT ![now] = verdict])) = 0
  <1> DEFINE new == [record EXCEPT ![now] = verdict]
  <1>1. \A t \in 1..MaxInstant : new[t] = IF t = now THEN verdict ELSE record[t]
    BY DEF Record
  <1>2. \A t \in 1..MaxInstant : new[t] # "none" => t <= now
    BY <1>1, SweepsAssumption
  <1>3. now < MaxInstant + 1
    BY SweepsAssumption
  <1>4. new[now] # "none" /\ new[now] # "strike"
    BY <1>1
  <1> HIDE DEF new
  <1>5. WholeRun(new) = {}
    BY <1>2, <1>3, <1>4 DEF WholeRun, RunBefore
  <1> QED
    BY <1>5, FS_EmptySet DEF new

----------------------------------------------------------------------------
(***************************************************************************)
(* One lemma per rule that counts.                                         *)
(***************************************************************************)
LEMMA NothingIsCountedOfTheNew ==
  ASSUME NEW entry, entry.strikes = 0, entry.before = 0
  PROVE  Counts(entry, NoEvidence)
  <1>1. \A t \in 1..MaxInstant : NoEvidence[t] = "none"
    BY DEF NoEvidence
  <1> QED
    BY <1>1, NoRunOfNothing DEF Counts, WholeRun

\* Rule A drops the history with the counters, or neither.
LEMMA ClearLapsedCounts ==
  ASSUME NEW entry \in Entry, NEW record, Counts(entry, record), NEW today
  PROVE  Counts(ClearLapsed(entry, today),
                IF HoldEffect(entry, today) = "LapsedAwake" THEN NoEvidence ELSE record)
  <1>1. CASE HoldEffect(entry, today) = "LapsedAwake"
    <2>1. ClearLapsed(entry, today).strikes = 0 /\ ClearLapsed(entry, today).before = 0
      BY <1>1 DEF ClearLapsed, Entry
    <2> QED
      BY <1>1, <2>1, NothingIsCountedOfTheNew
  <1>2. CASE HoldEffect(entry, today) # "LapsedAwake"
    BY <1>2 DEF ClearLapsed
  <1> QED
    BY <1>1, <1>2

\* Rule B counts from the run before the instant of the merge, whichever merge
\* of that instant this is.
LEMMA BaseIsTheRunBefore ==
  ASSUME NEW entry \in Entry, NEW record \in Record, Counts(entry, record),
         NEW now \in 1..MaxInstant, entry.probed <= now
  PROVE  Base(entry, now) = Cardinality(RunBefore(record, now))
  <1>1. CASE entry.probed = now
    BY <1>1 DEF Base, Counts
  <1>2. CASE entry.probed # now
    <2>1. \A t \in 1..MaxInstant : now <= t /\ t < MaxInstant + 1 => record[t] = "none"
      BY <1>2, SweepsAssumption DEF Counts, Entry, Instant
    <2>2. now \in Nat /\ MaxInstant + 1 \in Nat /\ now <= MaxInstant + 1
      BY SweepsAssumption
    <2>3. RunBefore(record, now) = WholeRun(record)
      BY <2>1, <2>2, RunBeforeTheFirstUnused DEF WholeRun
    <2> QED
      BY <1>2, <2>3 DEF Base, Counts
  <1> QED
    BY <1>1, <1>2

\* Rules E, F and G count what the history then shows.
LEMMA JudgeCounts ==
  ASSUME NEW entry \in Entry, NEW verdict \in Verdict, NEW base \in Nat, NEW now
  PROVE  /\ Judge(entry, verdict, base, now).strikes =
              IF verdict = "strike" THEN base + 1 ELSE 0
         /\ Judge(entry, verdict, base, now).before = entry.before
         /\ Judge(entry, verdict, base, now).probed = entry.probed
         /\ Judge(entry, verdict, base, now).since \in {None, entry.since}
              \/ Judge(entry, verdict, base, now).strikes >= StrikeLimit
  <1>1. CASE verdict = "positive"
    BY <1>1 DEF Judge, Entry
  <1>2. CASE verdict = "silent"
    BY <1>2 DEF Judge, Entry
  <1>3. CASE verdict = "strike"
    <2>1. Judge(entry, verdict, base, now) = Strike(entry, base, now)
      BY <1>3 DEF Judge
    <2>2. CASE Relegates(entry, base + 1, now)
      BY <1>3, <2>1, <2>2 DEF Strike, Entry, Relegates
    <2>3. CASE ~Relegates(entry, base + 1, now)
      BY <1>3, <2>1, <2>3 DEF Strike, Entry
    <2> QED
      BY <2>2, <2>3
  <1> QED
    BY <1>1, <1>2, <1>3 DEF Verdict

LEMMA ApplyOutcomeCounts ==
  ASSUME NEW entry \in Entry, NEW record \in Record, Counts(entry, record),
         NEW now \in 1..MaxInstant, NEW outcome \in Outcome
  PROVE  LET new == ApplyOutcome(entry, outcome, now) IN
         /\ Counts(new, IF Overtaken(entry, now) THEN record
                        ELSE [record EXCEPT ![now] = outcome.verdict])
         /\ new.since \in {None, entry.since} \/ new.strikes >= StrikeLimit
  <1> DEFINE base == Base(entry, now)
             stamped == [entry EXCEPT !.before = base,
                                      !.probed = now,
                                      !.profiled = IF outcome.profiled THEN now ELSE @]
             new == Judge(stamped, outcome.verdict, base, now)
             later == [record EXCEPT ![now] = outcome.verdict]
  <1>1. CASE Overtaken(entry, now)
    BY <1>1 DEF ApplyOutcome
  <1>2. CASE ~Overtaken(entry, now)
    <2>1. entry.probed <= now
      BY <1>2, SweepsAssumption DEF Overtaken, Entry, Instant
    <2>2. base = Cardinality(RunBefore(record, now)) /\ base \in Nat
      BY <2>1, BaseIsTheRunBefore, RunIsFinite
    <2>3. now \in Nat /\ outcome.verdict \in Verdict
      BY DEF Outcome
    <2>4. stamped \in Entry /\ stamped.before = base /\ stamped.probed = now
                            /\ stamped.since = entry.since
      BY <2>2, <2>3 DEF Entry, Instant
    <2> HIDE DEF base, stamped
    <2>5. /\ new.strikes = IF outcome.verdict = "strike" THEN base + 1 ELSE 0
          /\ new.before = base /\ new.probed = now
          /\ new.since \in {None, entry.since} \/ new.strikes >= StrikeLimit
      BY <2>2, <2>3, <2>4, JudgeCounts
    <2>6. \A t \in 1..MaxInstant : record[t] # "none" => t <= now
      BY <2>1, SweepsAssumption DEF Counts, Entry, Instant
    <2>7. \A t \in 1..MaxInstant : later[t] # "none" => t <= now
      BY <2>6, SweepsAssumption DEF Record
    <2>8. RunBefore(later, now) = RunBefore(record, now)
      BY RecordingKeepsTheRunBefore
    <2>9. Cardinality(WholeRun(later)) = IF outcome.verdict = "strike" THEN base + 1 ELSE 0
      <3>1. CASE outcome.verdict = "strike"
        BY <2>2, <2>6, <3>1, StrikeExtendsTheRun
      <3>2. CASE outcome.verdict # "strike"
        BY <2>3, <2>6, <3>2, AnyOtherVerdictEndsTheRun DEF Verdict
      <3> QED
        BY <3>1, <3>2
    <2> HIDE DEF new, later
    <2>10. Counts(new, later)
      BY <2>2, <2>5, <2>7, <2>8, <2>9 DEF Counts
    <2>11. ApplyOutcome(entry, outcome, now) = new
      BY <1>2 DEF ApplyOutcome, base, stamped, new
    <2> QED
      BY <1>2, <2>5, <2>10, <2>11 DEF later
  <1> QED
    BY <1>1, <1>2

LEMMA UpdateCounts ==
  ASSUME NEW now \in 1..MaxInstant, NEW outcomes,
         \A e \in DOMAIN outcomes : outcomes[e] \in Outcome,
         NEW e \in Endpoints, WellFormed(disk.entry[e]), evidence[e] \in Record,
         Counts(disk.entry[e], evidence[e])
  PROVE  LET new == Update(disk, outcomes, now).entry[e] IN
         /\ Counts(new, Witness(e, outcomes, now))
         /\ new.since \in {None, disk.entry[e].since} \/ new.strikes >= StrikeLimit
  <1> DEFINE cleared == ClearLapsed(disk.entry[e], Day(now))
             kept == IF Lapses(e, now) THEN NoEvidence ELSE evidence[e]
             new == Update(disk, outcomes, now).entry[e]
  <1>1. disk.entry[e] \in Entry /\ cleared \in Entry
    BY ClearLapsedKeeps DEF WellFormed
  <1>2. Counts(cleared, kept)
    BY <1>1, ClearLapsedCounts DEF Lapses
  <1>3. cleared.since = disk.entry[e].since
    BY <1>1 DEF ClearLapsed, Entry
  <1>4. kept \in Record
    BY DEF NoEvidence, Record
  <1>5. /\ new = IF e \in DOMAIN outcomes THEN ApplyOutcome(cleared, outcomes[e], now)
                                          ELSE cleared
        /\ Witness(e, outcomes, now) =
             IF e \in DOMAIN outcomes /\ ~Overtaken(cleared, now)
               THEN [kept EXCEPT ![now] = outcomes[e].verdict] ELSE kept
    BY DEF Update, Witness, Applied
  <1> HIDE DEF cleared, kept, new
  <1>6. CASE e \in DOMAIN outcomes
    <2>1. outcomes[e] \in Outcome
      BY <1>6
    <2>2. /\ Counts(ApplyOutcome(cleared, outcomes[e], now),
                    IF Overtaken(cleared, now) THEN kept
                    ELSE [kept EXCEPT ![now] = outcomes[e].verdict])
          /\ \/ ApplyOutcome(cleared, outcomes[e], now).since \in {None, cleared.since}
             \/ ApplyOutcome(cleared, outcomes[e], now).strikes >= StrikeLimit
      BY <1>1, <1>2, <1>4, <2>1, ApplyOutcomeCounts
    <2> QED
      BY <1>3, <1>5, <1>6, <2>2 DEF new
  <1>7. CASE e \notin DOMAIN outcomes
    BY <1>2, <1>3, <1>5, <1>7 DEF new
  <1> QED
    BY <1>6, <1>7

----------------------------------------------------------------------------
(***************************************************************************)
(* The invariant, and what a step that makes an entry dormant shows.       *)
(***************************************************************************)
LEMMA CountsInit == Init => StrikesAreCounted
  <1> SUFFICES ASSUME Init PROVE StrikesAreCounted
    OBVIOUS
  <1>1. Counts(NewEntry, NoEvidence)
    BY NothingIsCountedOfTheNew DEF NewEntry
  <1> QED
    BY <1>1 DEF Init, EmptyState, Idle, StrikesAreCounted

\* The disjunct of RelegationIsEarned that says what an endpoint was counted.
Earned(e) ==
  \/ disk'.entry[e].since \in {None, disk.entry[e].since}
  \/ disk'.entry[e].hold = "dormant"
  \/ disk'.entry[e].strikes >= StrikeLimit

LEMMA CountsStep ==
  ASSUME Sound, StrikesAreCounted, [Next]_vars
  PROVE  StrikesAreCounted' /\ \A e \in Endpoints : Earned(e)
  <1>1. evidence \in [Endpoints -> Record]
    BY DEF Sound, TypeOK, Record
  <1>2. ASSUME UNCHANGED <<disk, evidence>>
        PROVE  /\ \A e \in Endpoints : Counts(disk.entry[e], evidence[e])'
               /\ \A e \in Endpoints : Earned(e)
    BY <1>2 DEF StrikesAreCounted, Earned, Counts, RunBefore, WholeRun
  <1>3. ASSUME NEW s \in Sweeps, NEW at \in 1..MaxInstant, NEW listed, Plan(s, at, listed)
        PROVE  \A r \in Sweeps : sweep'[r].running => sweep'[r].at <= MaxInstant
    BY <1>3, SweepsAssumption DEF Plan, StrikesAreCounted, Sound, TypeOK
  <1>4. ASSUME NEW s \in Sweeps, Start(s)
        PROVE  StrikesAreCounted' /\ \A e \in Endpoints : Earned(e)
    <2>1. clock + 1 \in 1..MaxInstant
      BY <1>4, SweepsAssumption DEF Start, Sound, TypeOK
    <2> QED
      BY <1>2, <1>3, <1>4, <2>1 DEF Start, StrikesAreCounted
  <1>5. ASSUME NEW s \in Sweeps, Rerun(s)
        PROVE  StrikesAreCounted' /\ \A e \in Endpoints : Earned(e)
    <2>1. 1..clock \subseteq 1..MaxInstant
      BY SweepsAssumption DEF Sound, TypeOK
    <2> QED
      BY <1>2, <1>3, <1>5, <2>1 DEF Rerun, StrikesAreCounted
  <1>6. ASSUME NEW s \in Sweeps, NEW outcomes \in Outcomes(s), MergeOutcomes(s, outcomes)
        PROVE  StrikesAreCounted' /\ \A e \in Endpoints : Earned(e)
    <2> DEFINE now == sweep[s].at
    <2>1. now \in 1..MaxInstant
      BY <1>6, SweepsAssumption
         DEF MergeOutcomes, StrikesAreCounted, Sound, TypeOK, Sweep, Instant, None
    <2>2. \A e \in DOMAIN outcomes : outcomes[e] \in Outcome
      BY DEF Outcomes
    <2>3. /\ disk' = Update(disk, outcomes, now)
          /\ \A e \in Endpoints : evidence'[e] = Witness(e, outcomes, now)
      BY <1>6 DEF MergeOutcomes
    <2> HIDE DEF now
    <2>4. ASSUME NEW e \in Endpoints
          PROVE  /\ Counts(disk'.entry[e], evidence'[e])
                 /\ \/ disk'.entry[e].since \in {None, disk.entry[e].since}
                    \/ disk'.entry[e].strikes >= StrikeLimit
      BY <1>1, <2>1, <2>2, <2>3, UpdateCounts DEF Sound, StrikesAreCounted
    <2>5. \A r \in Sweeps : sweep'[r].running => sweep'[r].at <= MaxInstant
      BY <1>6 DEF MergeOutcomes, Idle, StrikesAreCounted, Sound, TypeOK
    <2> QED
      BY <2>4, <2>5 DEF StrikesAreCounted, Earned
  <1>7. ASSUME NEW s \in Sweeps, Die(s)
        PROVE  StrikesAreCounted' /\ \A e \in Endpoints : Earned(e)
    <2>1. \A r \in Sweeps : sweep'[r].running => sweep'[r].at <= MaxInstant
      BY <1>7 DEF Die, Idle, StrikesAreCounted, Sound, TypeOK
    <2> QED
      BY <1>2, <1>7, <2>1 DEF Die, StrikesAreCounted
  <1>8. ASSUME NEW d \in Endpoints, WakeCommand(d)
        PROVE  StrikesAreCounted' /\ \A e \in Endpoints : Earned(e)
    <2>1. PICK pin \in BOOLEAN : disk' = Wake(disk, d, clock, pin)
      BY <1>8 DEF WakeCommand
    <2>2. /\ disk'.entry[d] = Woken(disk.entry[d], clock, pin)
          /\ \A e \in Endpoints \ {d} : disk'.entry[e] = disk.entry[e]
      BY <2>1 DEF Wake, Sound, TypeOK, State
    <2>3. /\ disk'.entry[d].strikes = 0 /\ disk'.entry[d].before = 0
          /\ disk'.entry[d].since = None
      BY <2>2 DEF Woken, Sound, TypeOK, State, Entry
    <2>4. evidence'[d] = NoEvidence /\ \A e \in Endpoints \ {d} : evidence'[e] = evidence[e]
      BY <1>1, <1>8 DEF WakeCommand
    <2>5. \A e \in Endpoints : Counts(disk'.entry[e], evidence'[e])
      BY <2>2, <2>3, <2>4, NothingIsCountedOfTheNew DEF StrikesAreCounted
    <2> QED
      BY <1>8, <2>2, <2>3, <2>5 DEF WakeCommand, StrikesAreCounted, Earned
  <1>9. ASSUME NEW d \in Endpoints, SleepCommand(d)
        PROVE  StrikesAreCounted' /\ \A e \in Endpoints : Earned(e)
    <2>1. /\ disk'.entry[d] = Asleep(disk.entry[d], clock)
          /\ \A e \in Endpoints \ {d} : disk'.entry[e] = disk.entry[e]
      BY <1>9 DEF SleepCommand, Sleep, Sound, TypeOK, State
    <2>2. /\ disk'.entry[d].strikes = disk.entry[d].strikes
          /\ disk'.entry[d].before = disk.entry[d].before
          /\ disk'.entry[d].probed = disk.entry[d].probed
          /\ disk'.entry[d].hold = "dormant"
      BY <2>1 DEF Asleep, Sound, TypeOK, State, Entry
    <2>3. \A e \in Endpoints : Counts(disk'.entry[e], evidence[e])
      BY <2>1, <2>2 DEF StrikesAreCounted, Counts
    <2> QED
      BY <1>9, <2>1, <2>2, <2>3 DEF SleepCommand, StrikesAreCounted, Earned
  <1>10. CASE PruneCommand
    <2>1. \A e \in Endpoints : disk'.entry[e] \in {NewEntry, disk.entry[e]}
      BY <1>10 DEF PruneCommand, Prune, Sound, TypeOK, State
    <2>2. ASSUME NEW e \in Endpoints
          PROVE  Counts(disk'.entry[e], evidence'[e]) /\ Earned(e)
      <3>1. CASE disk'.entry[e] = NewEntry
        <4>1. evidence'[e] = NoEvidence
          BY <1>10, <3>1 DEF PruneCommand
        <4> QED
          BY <3>1, <4>1, NothingIsCountedOfTheNew DEF NewEntry, Earned
      <3>2. CASE disk'.entry[e] # NewEntry
        <4>1. evidence'[e] = evidence[e]
          BY <1>10, <3>2 DEF PruneCommand
        <4> QED
          BY <2>1, <3>2, <4>1 DEF StrikesAreCounted, Earned
      <3> QED
        BY <3>1, <3>2
    <2> QED
      BY <1>10, <2>2 DEF PruneCommand, StrikesAreCounted
  <1>11. CASE UNCHANGED vars
    BY <1>2, <1>11 DEF vars, StrikesAreCounted
  <1> QED
    BY <1>4, <1>5, <1>6, <1>7, <1>8, <1>9, <1>10, <1>11 DEF Next, Merge

LEMMA SpecCounts == Spec => [](Sound /\ StrikesAreCounted)
  <1>1. Init => Sound /\ StrikesAreCounted
    BY SoundInit, CountsInit
  <1>2. Sound /\ StrikesAreCounted /\ [Next]_vars => (Sound /\ StrikesAreCounted)'
    BY SoundStep, CountsStep
  <1> QED
    BY <1>1, <1>2, PTL DEF Spec

LEMMA TrailingIsTheWholeRun == \A e \in Endpoints : Trailing(e) = WholeRun(evidence[e])
  <1>1. \A t \in 1..MaxInstant : t < MaxInstant + 1
    BY SweepsAssumption
  <1>2. \A t, u \in 1..MaxInstant : u >= t <=> t <= u
    BY SweepsAssumption
  <1> QED
    BY <1>1, <1>2 DEF Trailing, WholeRun, RunBefore

(***************************************************************************)
(* strikes is the number of consecutive strike sweeps, however the merges  *)
(* of one --at repeat, land late or cross a person's commands.             *)
(***************************************************************************)
THEOREM StrikesAreNeverMiscounted == Spec => []StrikesAreConsecutiveSweeps
  <1>1. StrikesAreCounted => StrikesAreConsecutiveSweeps
    BY TrailingIsTheWholeRun DEF StrikesAreCounted, Counts, StrikesAreConsecutiveSweeps
  <1> QED
    BY <1>1, SpecCounts, PTL

(***************************************************************************)
(* No merge relegates on fewer sweeps than the threshold, and no prune or  *)
(* wake relegates at all.                                                  *)
(***************************************************************************)
THEOREM NothingIsRelegatedUnearned == Spec => RelegationIsEarned
  <1>1. ASSUME Sound, StrikesAreCounted, [Next]_vars, NEW e \in Endpoints
        PROVE  \/ disk'.entry[e].since \in {None, disk.entry[e].since}
               \/ disk'.entry[e].hold = "dormant"
               \/ Cardinality(Trailing(e)') >= StrikeLimit
    <2>1. StrikesAreCounted' /\ Earned(e)
      BY <1>1, CountsStep
    <2>2. disk'.entry[e].strikes = Cardinality(WholeRun(evidence'[e]))
      BY <2>1 DEF StrikesAreCounted, Counts
    <2>3. Trailing(e)' = WholeRun(evidence'[e])
      <3>1. \A t \in 1..MaxInstant : t < MaxInstant + 1
        BY SweepsAssumption
      <3>2. \A t, u \in 1..MaxInstant : u >= t <=> t <= u
        BY SweepsAssumption
      <3> QED
        BY <3>1, <3>2 DEF Trailing, WholeRun, RunBefore
    <2> QED
      BY <2>1, <2>2, <2>3 DEF Earned
  <1>2. Sound /\ StrikesAreCounted /\ [Next]_vars =>
          [\A e \in Endpoints :
             \/ disk'.entry[e].since \in {None, disk.entry[e].since}
             \/ disk'.entry[e].hold = "dormant"
             \/ Cardinality(Trailing(e)') >= StrikeLimit]_vars
    BY <1>1
  <1> QED
    BY <1>2, SpecCounts, PTL DEF Spec, RelegationIsEarned

----------------------------------------------------------------------------
(***************************************************************************)
(* Proofs about DormancyRotation, whose sweeps come one after another:     *)
(* what a slice leaves out is asked in its turn, and a re-run asks what    *)
(* the first run asked.                                                    *)
(***************************************************************************)
(***************************************************************************)
(* What holds of the file between sweeps.  Nothing is awake by hand here,  *)
(* nothing was probed after the newest --at, and what the machine          *)
(* relegated it has probed.                                                *)
(***************************************************************************)
Rotates(entry, at) ==
  /\ entry.hold \in {"none", "dormant"}
  /\ entry.probed <= at
  /\ entry.hold = "none" /\ entry.since # None => entry.probed # None

(***************************************************************************)
(* Why a re-run of the newest --at asks what the first run asked: what was *)
(* asked is marked, what it finds marked was asked, and when it finds      *)
(* nothing marked nothing was due.                                         *)
(***************************************************************************)
AskedIsMarked ==
  \A e \in asked.probe : /\ asked.at # None /\ file.entry[e].probed = asked.at
                         /\ file.entry[e].hold = "none"

MarkedWasAsked ==
  \A e \in Endpoints :
    asked.at # None /\ file.entry[e].probed = asked.at /\ file.entry[e].hold = "none" =>
      e \in asked.probe

NothingMarkedNothingDue ==
  asked.at # None /\ ~HasRun(file, Endpoints, asked.at) =>
    \A e \in Endpoints :
      file.entry[e].hold = "none" =>
        file.entry[e].since # None /\ ~IsDue(file.entry[e], Day(asked.at))

Rotation ==
  /\ RotationTypeOK
  /\ file.lastSweep = asked.at
  /\ \A e \in Endpoints : Rotates(file.entry[e], asked.at)
  /\ AskedIsMarked
  /\ MarkedWasAsked
  /\ NothingMarkedNothingDue
  /\ CannotStarve

----------------------------------------------------------------------------
(***************************************************************************)
(* Sets of instants and of endpoints.                                      *)
(***************************************************************************)
Less == OpToRel(<, Nat)

LEMMA HasSmallest ==
  ASSUME NEW S \in SUBSET Nat, S # {}
  PROVE  \E s \in S : \A t \in S : s <= t
  <1>1. IsWellFoundedOn(Less, Nat)
    BY NatLessThanWellFounded DEF Less
  <1>2. PICK s \in S : \A t \in S : ~(<<t, s>> \in Less)
    BY <1>1, WFMin
  <1>3. ASSUME NEW t \in S PROVE s <= t
    <2>1. s \in Nat /\ t \in Nat
      OBVIOUS
    <2>2. <<t, s>> \in Less <=> t < s
      BY <2>1 DEF Less, OpToRel
    <2> QED
      BY <1>2, <2>1, <2>2
  <1> QED
    BY <1>3

LEMMA DaysFollow ==
  ASSUME NEW a \in Nat, NEW b \in Nat, a <= b
  PROVE  Day(a) \in Nat /\ Day(b) \in Nat /\ Day(a) <= Day(b)
  BY ThresholdsAssumption DEF Day

LEMMA RationsAreFinite ==
  ASSUME NEW S, S \subseteq Endpoints
  PROVE  IsFiniteSet(S) /\ Cardinality(S) \in Nat /\ Cardinality(S) <= Cardinality(Endpoints)
  BY EndpointsAssumption, FS_Subset, FS_CardinalityType

\* The sort of the due set has a first member.
LEMMA SomethingIsFirst ==
  ASSUME NEW state \in State, NEW S, S \subseteq Endpoints, S # {}
  PROVE  \E m \in S : \A d \in S : ~Precedes(state, d, m)
  <1> DEFINE P == {state.entry[d].probed : d \in S}
  <1>1. \A d \in S : state.entry[d].probed \in Nat /\ d \in Nat
    BY EndpointsAssumption DEF State, Entry, Instant
  <1>2. P \in SUBSET Nat /\ P # {}
    BY <1>1
  <1>3. PICK p \in P : \A q \in P : p <= q
    BY <1>2, HasSmallest
  <1> DEFINE Q == {d \in S : state.entry[d].probed = p}
  <1>4. Q \in SUBSET Nat /\ Q # {}
    BY <1>1, <1>3
  <1>5. PICK m \in Q : \A d \in Q : m <= d
    BY <1>4, HasSmallest
  <1>6. m \in S /\ state.entry[m].probed = p /\ p \in Nat
    BY <1>1, <1>5
  <1>7. ASSUME NEW d \in S PROVE ~Precedes(state, d, m)
    <2>1. state.entry[d].probed \in Nat /\ p <= state.entry[d].probed /\ d \in Nat /\ m \in Nat
      BY <1>1, <1>3, <1>6
    <2>2. state.entry[d].probed = p => m <= d
      BY <1>5
    <2> QED
      BY <1>6, <2>1, <2>2 DEF Precedes
  <1> QED
    BY <1>6, <1>7

LEMMA PrecedesIsTransitive ==
  ASSUME NEW state \in State, NEW c \in Endpoints, NEW d \in Endpoints, NEW e \in Endpoints,
         Precedes(state, c, d), Precedes(state, d, e)
  PROVE  Precedes(state, c, e)
  <1>1. /\ state.entry[c].probed \in Nat /\ state.entry[d].probed \in Nat
        /\ state.entry[e].probed \in Nat /\ c \in Nat /\ d \in Nat /\ e \in Nat
    BY EndpointsAssumption DEF State, Entry, Instant
  <1> QED
    BY <1>1 DEF Precedes

----------------------------------------------------------------------------
(***************************************************************************)
(* The slice.                                                              *)
(***************************************************************************)
Due(state, today) ==
  {e \in Governed(state, Endpoints, today) : IsDue(state.entry[e], today)}

SliceOf(state, today) ==
  SliceSize(state, today, Cardinality(Governed(state, Endpoints, today)))

AheadAmong(state, S, e) == {d \in S : Precedes(state, d, e)}

LEMMA GovernedIsListed ==
  ASSUME NEW state, NEW today
  PROVE  /\ Governed(state, Endpoints, today) \subseteq Endpoints
         /\ Due(state, today) \subseteq Governed(state, Endpoints, today)
         /\ Admitted(state, Endpoints, today) =
              {e \in Due(state, today) :
                 Cardinality(AheadAmong(state, Due(state, today), e)) < SliceOf(state, today)}
  BY DEF Governed, Due, Admitted, SliceOf, AheadAmong

\* The ration is at least one endpoint, and the relegated endpoints' share of
\* the days that went by, or all of them.
LEMMA SliceIsAShare ==
  ASSUME NEW state \in State, NEW today \in Nat, NEW governed \in Nat \ {0}
  PROVE  LET slice == SliceSize(state, today, governed)
             gap   == today - Day(state.lastSweep)
         IN  /\ slice \in Nat \ {0}
             /\ \/ slice = governed
                \/ /\ CadenceDays * slice >= governed
                   /\ state.lastSweep # None => CadenceDays * slice >= governed * gap
  <1> DEFINE gap == IF state.lastSweep = None \/ today - Day(state.lastSweep) < 1
                      THEN 1
                      ELSE today - Day(state.lastSweep)
             product == governed * gap
             ceiling == (product + CadenceDays - 1) \div CadenceDays
  <1>1. CadenceDays \in Nat \ {0}
    BY ThresholdsAssumption
  <1>2. Day(state.lastSweep) \in Nat
    BY ThresholdsAssumption DEF State, Instant, Day
  <1>3. /\ gap \in Nat \ {0}
        /\ state.lastSweep # None => gap >= today - Day(state.lastSweep)
    BY <1>2
  <1> HIDE DEF gap
  <1>4. product \in Nat /\ product >= governed
    BY <1>3
  <1>5. state.lastSweep # None =>
          governed * gap >= governed * (today - Day(state.lastSweep))
    BY <1>2, <1>3
  <1> HIDE DEF product
  <1>6. ceiling \in Nat \ {0} /\ CadenceDays * ceiling >= product
    BY <1>1, <1>4
  <1> HIDE DEF ceiling
  <1>7. SliceSize(state, today, governed) =
          IF ceiling > governed THEN governed ELSE ceiling
    BY <1>6 DEF SliceSize, ceiling, product, gap
  <1>8. product = governed * gap
    BY DEF product
  <1> QED
    BY <1>1, <1>2, <1>4, <1>5, <1>6, <1>7, <1>8

\* When something is due, something is admitted.
LEMMA DueIsAnswered ==
  ASSUME NEW state \in State, NEW today \in Nat, Due(state, today) # {}
  PROVE  Admitted(state, Endpoints, today) # {}
  <1> DEFINE governed == Governed(state, Endpoints, today)
  <1>1. Due(state, today) \subseteq governed /\ governed \subseteq Endpoints
    BY GovernedIsListed
  <1>2. PICK m \in Due(state, today) : \A d \in Due(state, today) : ~Precedes(state, d, m)
    BY <1>1, SomethingIsFirst
  <1>3. AheadAmong(state, Due(state, today), m) = {}
    BY <1>2 DEF AheadAmong
  <1>4. Cardinality(governed) \in Nat \ {0}
    BY <1>1, RationsAreFinite, FS_EmptySet
  <1>5. SliceOf(state, today) \in Nat \ {0}
    BY <1>4, SliceIsAShare DEF SliceOf
  <1>6. Cardinality(AheadAmong(state, Due(state, today), m)) < SliceOf(state, today)
    BY <1>3, <1>5, FS_EmptySet
  <1> QED
    BY <1>2, <1>6, GovernedIsListed

(***************************************************************************)
(* A due endpoint that is left out has a whole slice ahead of it.  Were    *)
(* fewer admitted there, the first due one not among them would have fewer *)
(* than a slice ahead of it, and be admitted.                              *)
(***************************************************************************)
LEMMA WholeSliceIsAhead ==
  ASSUME NEW state \in State, NEW today \in Nat,
         NEW e \in Due(state, today), e \notin Admitted(state, Endpoints, today)
  PROVE  Cardinality(AheadAmong(state, Admitted(state, Endpoints, today), e))
           >= SliceOf(state, today)
  <1> DEFINE due == Due(state, today)
             slice == SliceOf(state, today)
             admitted == Admitted(state, Endpoints, today)
             D == AheadAmong(state, due, e)
             L == AheadAmong(state, admitted, e)
  <1>1. due \subseteq Endpoints
    BY GovernedIsListed
  <1>2. admitted = {d \in due : Cardinality(AheadAmong(state, due, d)) < slice}
    BY GovernedIsListed
  <1>3. slice \in Nat
    <2>1. Cardinality(Governed(state, Endpoints, today)) \in Nat \ {0}
      BY GovernedIsListed, RationsAreFinite, FS_EmptySet
    <2> QED
      BY <2>1, SliceIsAShare DEF SliceOf
  <1> HIDE DEF due, slice, admitted
  <1>4. D \subseteq Endpoints /\ L \subseteq D
    BY <1>1, <1>2 DEF AheadAmong
  <1>5. /\ IsFiniteSet(D) /\ IsFiniteSet(L)
        /\ Cardinality(D) \in Nat /\ Cardinality(L) \in Nat
    BY <1>4, RationsAreFinite
  <1>6. Cardinality(D) >= slice
    BY <1>2, <1>3, <1>5 DEF due, admitted
  <1>7. SUFFICES ASSUME Cardinality(L) < slice PROVE FALSE
    BY <1>3, <1>5 DEF admitted, slice
  <1>8. D \ L # {}
    <2>1. D # L
      BY <1>3, <1>5, <1>6, <1>7
    <2> QED
      BY <1>4, <2>1
  <1>9. D \ L \subseteq Endpoints
    BY <1>4
  <1>10. PICK m \in D \ L : \A d \in D \ L : ~Precedes(state, d, m)
    BY <1>8, <1>9, SomethingIsFirst
  <1>11. m \in due /\ Precedes(state, m, e) /\ e \in Endpoints /\ m \in Endpoints
    BY <1>1, <1>10 DEF AheadAmong, due
  <1>12. AheadAmong(state, due, m) \subseteq L
    <2> SUFFICES ASSUME NEW d \in due, Precedes(state, d, m) PROVE d \in L
      BY DEF AheadAmong
    <2>1. d \in D
      BY <1>1, <1>11, PrecedesIsTransitive DEF AheadAmong
    <2> QED
      BY <1>10, <2>1
  <1>13. Cardinality(AheadAmong(state, due, m)) <= Cardinality(L)
    BY <1>5, <1>12, FS_Subset
  <1>14. Cardinality(AheadAmong(state, due, m)) \in Nat
    BY <1>5, <1>12, FS_Subset, FS_CardinalityType
  <1>15. m \in admitted
    BY <1>2, <1>3, <1>5, <1>7, <1>11, <1>13, <1>14
  <1> QED
    BY <1>10, <1>11, <1>15 DEF AheadAmong
----------------------------------------------------------------------------
(***************************************************************************)
(* One sweep.                                                              *)
(***************************************************************************)
LEMMA NobodyIsAwake ==
  ASSUME NEW entry, entry.hold \in {"none", "dormant"}, NEW today
  PROVE  /\ HoldEffect(entry, today) \notin {"LiveAwake", "LapsedAwake"}
         /\ HoldEffect(entry, today) = "Dormant" <=> entry.hold = "dormant"
         /\ HoldEffect(entry, today) = "Unheld" <=> entry.hold = "none"
         /\ ClearLapsed(entry, today) = entry
  BY DEF HoldEffect, ClearLapsed

Unheld(state) == \A e \in Endpoints : state.entry[e].hold \in {"none", "dormant"}

LEMMA GovernedWhenUnheld ==
  ASSUME NEW state, Unheld(state), NEW today
  PROVE  Governed(state, Endpoints, today) =
           {e \in Endpoints : state.entry[e].since # None /\ state.entry[e].hold = "none"}
  <1>1. \A e \in Endpoints :
          HoldEffect(state.entry[e], today) \in {"Unheld", "LapsedAwake"}
            <=> state.entry[e].hold = "none"
    BY NobodyIsAwake DEF Unheld
  <1> QED
    BY <1>1 DEF Governed

LEMMA GovernedHere ==
  ASSUME Rotation, NEW today
  PROVE  Governed(file, Endpoints, today) =
           {e \in Endpoints : file.entry[e].since # None /\ file.entry[e].hold = "none"}
  BY GovernedWhenUnheld DEF Unheld, Rotation, Rotates

LEMMA DecidedHere ==
  ASSUME Rotation, NEW at, NEW e \in Endpoints
  PROVE  e \in PlanSweep(file, Endpoints, at, "Full") <=>
           /\ file.entry[e].hold = "none"
           /\ IF HasRun(file, Endpoints, at) THEN file.entry[e].probed = at
              ELSE \/ file.entry[e].since = None
                   \/ e \in Admitted(file, Endpoints, Day(at))
  <1>1. /\ HoldEffect(file.entry[e], Day(at)) # "LiveAwake"
        /\ HoldEffect(file.entry[e], Day(at)) = "Dormant" <=> file.entry[e].hold # "none"
    BY NobodyIsAwake DEF Rotation, Rotates
  <1>2. e \in PlanSweep(file, Endpoints, at, "Full") <=>
          Decide(file, Endpoints, at, "Full", e) = "Probe"
    BY DEF PlanSweep
  <1>3. CASE file.entry[e].hold # "none"
    BY <1>1, <1>2, <1>3 DEF Decide
  <1>4. CASE file.entry[e].hold = "none"
    BY <1>1, <1>2, <1>4 DEF Decide, ReplayDecision, FreshDecision
  <1> QED
    BY <1>3, <1>4

LEMMA JudgeMarks ==
  ASSUME NEW entry \in Entry, NEW verdict \in Verdict, NEW base \in Nat, NEW now \in Nat
  PROVE  /\ Judge(entry, verdict, base, now) \in Entry
         /\ Judge(entry, verdict, base, now).probed = entry.probed
         /\ Judge(entry, verdict, base, now).hold = entry.hold
  <1>1. CASE verdict = "positive"
    BY <1>1 DEF Judge, Entry, Instant, None
  <1>2. CASE verdict = "silent"
    BY <1>2 DEF Judge, Entry
  <1>3. CASE verdict = "strike"
    <2>1. PICK strikes \in Nat, since \in Nat :
            Strike(entry, base, now) = [entry EXCEPT !.strikes = strikes, !.since = since]
      <3>1. base + 1 \in Nat /\ entry.since \in Nat
        BY DEF Entry, Instant
      <3>2. CASE Relegates(entry, base + 1, now)
        BY <3>1, <3>2 DEF Strike, Entry
      <3>3. CASE ~Relegates(entry, base + 1, now)
        BY <3>1, <3>3 DEF Strike, Entry
      <3> QED
        BY <3>2, <3>3
    <2>2. Judge(entry, verdict, base, now) = [entry EXCEPT !.strikes = strikes, !.since = since]
      BY <1>3, <2>1 DEF Judge
    <2> QED
      BY <2>2 DEF Entry, Instant
  <1> QED
    BY <1>1, <1>2, <1>3 DEF Verdict

\* An outcome marks the entry with its --at, when nothing later is on record.
LEMMA OutcomeMarks ==
  ASSUME NEW entry \in Entry, NEW now \in Nat, NEW outcome \in Outcome,
         entry.hold = "none", entry.probed <= now
  PROVE  /\ ApplyOutcome(entry, outcome, now) \in Entry
         /\ ApplyOutcome(entry, outcome, now).probed = now
         /\ ApplyOutcome(entry, outcome, now).hold = "none"
  <1> DEFINE base == Base(entry, now)
             stamped == [entry EXCEPT !.before = base,
                                      !.probed = now,
                                      !.profiled = IF outcome.profiled THEN now ELSE @]
  <1>1. ~Overtaken(entry, now)
    BY DEF Overtaken, HoldEffect, Entry, Instant
  <1>2. ApplyOutcome(entry, outcome, now) = Judge(stamped, outcome.verdict, base, now)
    BY <1>1 DEF ApplyOutcome
  <1>3. base \in Nat
    BY DEF Base, Entry
  <1>4. stamped \in Entry /\ stamped.probed = now /\ stamped.hold = "none"
    BY <1>3 DEF Entry, Instant
  <1>5. outcome.verdict \in Verdict
    BY DEF Outcome
  <1> HIDE DEF base, stamped
  <1> QED
    BY <1>2, <1>3, <1>4, <1>5, JudgeMarks

LEMMA RunMarks ==
  ASSUME Rotation, NEW at \in Nat, asked.at <= at, Run(at)
  PROVE  /\ file' \in State /\ file'.lastSweep = at
         /\ asked'.at = at /\ asked'.probe = PlanSweep(file, Endpoints, at, "Full")
         /\ asked' \in [at : Instant, probe : SUBSET Endpoints]
         /\ \A e \in asked'.probe :
              file'.entry[e].probed = at /\ file'.entry[e].hold = "none"
         /\ \A e \in Endpoints \ asked'.probe : file'.entry[e] = file.entry[e]
  <1> DEFINE probe == PlanSweep(file, Endpoints, at, "Full")
  <1>1. PICK verdicts \in [probe -> Verdict] :
          /\ file' = Update(file, [e \in probe |-> [verdict |-> verdicts[e],
                                                    profiled |-> FALSE]], at)
          /\ asked' = [at |-> at, probe |-> probe]
    BY DEF Run
  <1>2. \A e \in probe : e \in Endpoints /\ file.entry[e].hold = "none"
    BY DecidedHere DEF PlanSweep
  <1> HIDE DEF probe
  <1> DEFINE outcomes == [e \in probe |-> [verdict |-> verdicts[e], profiled |-> FALSE]]
  <1>3. DOMAIN outcomes = probe /\ \A e \in probe : outcomes[e] \in Outcome
    BY DEF Outcome
  <1>4. file' = Update(file, outcomes, at)
    BY <1>1
  <1> HIDE DEF outcomes
  <1>5. file.entry \in [Endpoints -> Entry] /\ file.lastSweep = asked.at /\ asked.at \in Nat
    BY DEF Rotation, RotationTypeOK, State, Instant
  <1>6. ASSUME NEW e \in Endpoints
        PROVE  file'.entry[e] = IF e \in probe THEN ApplyOutcome(file.entry[e], outcomes[e], at)
                                               ELSE file.entry[e]
    <2>1. ClearLapsed(file.entry[e], Day(at)) = file.entry[e]
      BY NobodyIsAwake DEF Rotation, Rotates
    <2> QED
      BY <1>3, <1>4, <2>1 DEF Update
  <1>7. ASSUME NEW e \in probe
        PROVE  /\ file'.entry[e] \in Entry
               /\ file'.entry[e].probed = at /\ file'.entry[e].hold = "none"
    <2>1. file.entry[e] \in Entry /\ file.entry[e].hold = "none"
      BY <1>2, <1>5
    <2>2. file.entry[e].probed <= at
      BY <1>2, <1>5, <2>1 DEF Rotation, Rotates, Entry, Instant
    <2>3. /\ ApplyOutcome(file.entry[e], outcomes[e], at) \in Entry
          /\ ApplyOutcome(file.entry[e], outcomes[e], at).probed = at
          /\ ApplyOutcome(file.entry[e], outcomes[e], at).hold = "none"
      BY <1>3, <2>1, <2>2, OutcomeMarks
    <2> QED
      BY <1>2, <1>6, <2>3
  <1>8. file'.entry = [e \in Endpoints |-> file'.entry[e]]
    BY <1>4 DEF Update
  <1>9. file'.entry \in [Endpoints -> Entry]
    <2>1. \A e \in Endpoints : file'.entry[e] \in Entry
      BY <1>5, <1>6, <1>7
    <2> QED
      BY <1>8, <2>1
  <1>10. file'.lastSweep = at
    BY <1>4, <1>5 DEF Update, Later
  <1>11. file' \in State
    BY <1>4, <1>9, <1>10 DEF Update, State, Instant
  <1> QED
    BY <1>1, <1>2, <1>6, <1>7, <1>10, <1>11 DEF probe, Instant

LEMMA RunKeepsRotating ==
  ASSUME Rotation, NEW at \in Nat \ {None}, asked.at <= at, Run(at)
  PROVE  \A e \in Endpoints : Rotates(file'.entry[e], asked'.at)
  <1> SUFFICES ASSUME NEW e \in Endpoints PROVE Rotates(file'.entry[e], at)
    BY RunMarks
  <1>1. CASE e \in asked'.probe
    BY <1>1, RunMarks DEF Rotates
  <1>2. CASE e \notin asked'.probe
    <2>1. file'.entry[e] = file.entry[e] /\ file.entry[e].probed \in Nat /\ asked.at \in Nat
      BY <1>2, RunMarks DEF Rotation, RotationTypeOK, State, Entry, Instant
    <2> QED
      BY <2>1 DEF Rotation, Rotates
  <1> QED
    BY <1>1, <1>2

----------------------------------------------------------------------------
(***************************************************************************)
(* Re-runs.                                                                *)
(***************************************************************************)
LEMMA ReplayAsksNoFewer ==
  ASSUME Rotation
  PROVE  asked.probe \subseteq PlanSweep(file, Endpoints, asked.at, "Full")
  <1> SUFFICES ASSUME NEW e \in asked.probe
               PROVE  e \in PlanSweep(file, Endpoints, asked.at, "Full")
    OBVIOUS
  <1>1. e \in Endpoints /\ file.entry[e].probed = asked.at /\ file.entry[e].hold = "none"
    BY DEF Rotation, RotationTypeOK, AskedIsMarked
  <1>2. HasRun(file, Endpoints, asked.at)
    BY <1>1 DEF HasRun
  <1> QED
    BY <1>1, <1>2, DecidedHere

LEMMA ReplayAsksNoMore ==
  ASSUME Rotation, asked.at # None
  PROVE  PlanSweep(file, Endpoints, asked.at, "Full") \subseteq asked.probe
  <1> SUFFICES ASSUME NEW e \in PlanSweep(file, Endpoints, asked.at, "Full")
               PROVE  e \in asked.probe
    OBVIOUS
  <1>1. e \in Endpoints
    BY DEF PlanSweep
  <1>2. CASE HasRun(file, Endpoints, asked.at)
    BY <1>1, <1>2, DecidedHere DEF Rotation, MarkedWasAsked
  <1>3. CASE ~HasRun(file, Endpoints, asked.at)
    <2>1. file.entry[e].since # None /\ ~IsDue(file.entry[e], Day(asked.at))
      BY <1>1, <1>3, DecidedHere DEF Rotation, NothingMarkedNothingDue
    <2>2. e \in Admitted(file, Endpoints, Day(asked.at))
      BY <1>1, <1>3, <2>1, DecidedHere
    <2> QED
      BY <2>1, <2>2 DEF Admitted
  <1> QED
    BY <1>2, <1>3

LEMMA RunLeavesItsMarks ==
  ASSUME Rotation, NEW at \in Nat \ {None}, asked.at <= at, Run(at)
  PROVE  AskedIsMarked' /\ MarkedWasAsked' /\ NothingMarkedNothingDue'
  <1>0. AskedIsMarked'
    BY RunMarks DEF AskedIsMarked
  <1>1. MarkedWasAsked'
    <2> SUFFICES ASSUME NEW e \in Endpoints, file'.entry[e].probed = at,
                        file'.entry[e].hold = "none", e \notin asked'.probe
                 PROVE  FALSE
      BY RunMarks DEF MarkedWasAsked
    <2>1. file.entry[e].probed = at /\ file.entry[e].hold = "none"
      BY RunMarks
    <2>2. HasRun(file, Endpoints, at)
      BY <2>1 DEF HasRun
    <2> QED
      BY <2>1, <2>2, DecidedHere, RunMarks
  <1>2. NothingMarkedNothingDue'
    <2> SUFFICES ASSUME ~HasRun(file', Endpoints, at), NEW e \in Endpoints,
                        file'.entry[e].hold = "none"
                 PROVE  file'.entry[e].since # None /\ ~IsDue(file'.entry[e], Day(at))
      BY RunMarks DEF NothingMarkedNothingDue
    <2>1. asked'.probe = {}
      <3>1. asked'.probe \subseteq Endpoints
        BY RunMarks
      <3> QED
        BY <3>1, RunMarks DEF HasRun
    <2>2. \A d \in Endpoints : file'.entry[d] = file.entry[d]
      BY <2>1, RunMarks
    <2>3. ~HasRun(file, Endpoints, at)
      BY <2>2 DEF HasRun
    <2>4. PlanSweep(file, Endpoints, at, "Full") = {}
      BY <2>1, RunMarks
    <2>5. file.entry[e].hold = "none" /\ file.entry[e].since # None
      BY <2>2, <2>3, <2>4, DecidedHere
    <2>6. Admitted(file, Endpoints, Day(at)) = {}
      <3>1. \A d \in Admitted(file, Endpoints, Day(at)) :
              d \in Endpoints /\ file.entry[d].hold = "none"
        BY GovernedHere DEF Admitted
      <3> QED
        BY <2>3, <2>4, <3>1, DecidedHere
    <2>7. Due(file, Day(at)) = {}
      <3>1. file \in State /\ Day(at) \in Nat
        BY ThresholdsAssumption DEF Rotation, RotationTypeOK, Day
      <3> QED
        BY <2>6, <3>1, DueIsAnswered
    <2>8. ~IsDue(file.entry[e], Day(at))
      BY <2>5, <2>7, GovernedHere DEF Due
    <2> QED
      BY <2>2, <2>5, <2>8
  <1> QED
    BY <1>0, <1>1, <1>2

----------------------------------------------------------------------------
(***************************************************************************)
(* Waiting.                                                                *)
(***************************************************************************)
AheadIn(state, e) ==
  {d \in Endpoints : /\ state.entry[d].since # None
                     /\ state.entry[d].hold = "none"
                     /\ Precedes(state, d, e)}

LEMMA AheadIsCounted ==
  ASSUME NEW state \in State, NEW e \in Endpoints
  PROVE  /\ AheadIn(state, e) \subseteq Endpoints \ {e}
         /\ IsFiniteSet(AheadIn(state, e))
         /\ Cardinality(AheadIn(state, e)) \in Nat
         /\ Cardinality(Endpoints) \in Nat
         /\ Cardinality(AheadIn(state, e)) <= Cardinality(Endpoints) - 1
  <1>1. e \notin AheadIn(state, e)
    BY EndpointsAssumption DEF AheadIn, Precedes, State, Entry, Instant
  <1>2. AheadIn(state, e) \subseteq Endpoints \ {e}
    BY <1>1 DEF AheadIn
  <1>3. IsFiniteSet(Endpoints \ {e}) /\ Cardinality(Endpoints \ {e}) = Cardinality(Endpoints) - 1
    BY EndpointsAssumption, FS_RemoveElement
  <1>4. /\ IsFiniteSet(AheadIn(state, e))
        /\ Cardinality(AheadIn(state, e)) <= Cardinality(Endpoints \ {e})
    BY <1>2, <1>3, FS_Subset
  <1> QED
    BY <1>2, <1>3, <1>4, EndpointsAssumption, FS_CardinalityType

LEMMA AheadHere ==
  ASSUME Rotation, NEW e \in Endpoints
  PROVE  Ahead(e) = AheadIn(file, e)
  BY GovernedHere DEF Ahead, AheadIn

\* What is asked goes behind what is not, whoever else it relegates or clears.
LEMMA AskedGoBehind ==
  ASSUME Rotation, NEW at \in Nat \ {None}, asked.at <= at, Run(at),
         NEW e \in Endpoints \ asked'.probe, file.entry[e].probed < at
  PROVE  AheadIn(file', e) \subseteq AheadIn(file, e) \ asked'.probe
  <1> SUFFICES ASSUME NEW d \in AheadIn(file', e)
               PROVE  d \in AheadIn(file, e) /\ d \notin asked'.probe
    OBVIOUS
  <1>1. file'.entry[e] = file.entry[e] /\ file.entry[e].probed \in Nat
    BY RunMarks DEF Rotation, RotationTypeOK, State, Entry, Instant
  <1>2. d \in Endpoints /\ Precedes(file', d, e)
    BY DEF AheadIn
  <1>3. d \notin asked'.probe
    <2>1. d \in asked'.probe => file'.entry[d].probed = at
      BY RunMarks
    <2> QED
      BY <1>1, <1>2, <2>1 DEF Precedes
  <1>4. file'.entry[d] = file.entry[d]
    BY <1>2, <1>3, RunMarks
  <1> QED
    BY <1>1, <1>2, <1>3, <1>4 DEF AheadIn, Precedes

LEMMA AheadAfterRun ==
  ASSUME Rotation, NEW at \in Nat \ {None}, asked.at <= at, Run(at), NEW e \in Endpoints
  PROVE  /\ Ahead(e)' = AheadIn(file', e)
         /\ Governed(file', Endpoints, Day(asked'.at)) =
              {d \in Endpoints : file'.entry[d].since # None /\ file'.entry[d].hold = "none"}
  <1>1. Unheld(file')
    BY RunKeepsRotating DEF Unheld, Rotates
  <1>2. Governed(file', Endpoints, Day(asked'.at)) =
          {d \in Endpoints : file'.entry[d].since # None /\ file'.entry[d].hold = "none"}
    BY <1>1, GovernedWhenUnheld
  <1> QED
    BY <1>2 DEF Ahead, AheadIn

(***************************************************************************)
(* A sweep that leaves a due endpoint out works off a slice ahead of it.   *)
(***************************************************************************)
LEMMA SliceIsWorkedOff ==
  ASSUME Rotation, NEW at \in Nat \ {None}, asked.at < at, Run(at),
         NEW e \in Due(file, Day(at)), e \notin asked'.probe
  PROVE  LET governed == Cardinality(Governed(file, Endpoints, Day(at)))
             fewer    == Cardinality(AheadIn(file, e)) - Cardinality(AheadIn(file', e))
         IN  /\ e \in Endpoints
             /\ governed \in Nat /\ governed >= 2
             /\ fewer \in Nat /\ fewer >= 1
             /\ CadenceDays * fewer >= governed * (Day(at) - Day(asked.at))
  <1> DEFINE today == Day(at)
             G == Governed(file, Endpoints, today)
             governed == Cardinality(G)
             admitted == Admitted(file, Endpoints, today)
             slice == SliceOf(file, today)
             A == AheadIn(file, e)
             B == AheadIn(file', e)
             L == AheadAmong(file, admitted, e)
  <1>1. /\ today \in Nat /\ file \in State /\ asked.at \in Nat /\ asked.at <= at
        /\ file.lastSweep = asked.at
    BY ThresholdsAssumption DEF Rotation, RotationTypeOK, Day, Instant
  <1>2. /\ Due(file, today) \subseteq G /\ G \subseteq Endpoints
        /\ admitted \subseteq Due(file, today) /\ e \in G /\ e \in Endpoints
    BY GovernedIsListed
  <1>3. IsFiniteSet(G) /\ governed \in Nat
    BY <1>2, RationsAreFinite
  <1>4. governed # 0
    BY <1>2, <1>3, FS_EmptySet
  <1>5. file.entry[e].since # None /\ file.entry[e].hold = "none"
    BY <1>2, GovernedHere
  <1>6. file.entry[e].probed # None /\ file.entry[e].probed \in Nat
        /\ file.entry[e].probed <= asked.at
    BY <1>1, <1>2, <1>5 DEF Rotation, Rotates, State, Entry, Instant
  <1>7. asked.at # None /\ file.entry[e].probed < at
    BY <1>1, <1>6 DEF None
  <1>8. ~HasRun(file, Endpoints, at)
    BY <1>1 DEF HasRun, Rotation, Rotates, RotationTypeOK, State, Entry, Instant
  <1>9. admitted \subseteq asked'.probe
    <2>1. \A d \in admitted : d \in Endpoints /\ file.entry[d].hold = "none"
      BY <1>2, GovernedHere
    <2> QED
      BY <1>1, <1>8, <2>1, DecidedHere, RunMarks
  <1>10. e \notin admitted
    BY <1>9
  <1>11. Cardinality(L) >= slice
    BY <1>1, <1>10, WholeSliceIsAhead
  <1>12. /\ slice \in Nat \ {0}
         /\ slice = governed \/ CadenceDays * slice >= governed * (today - Day(asked.at))
    BY <1>1, <1>3, <1>4, <1>7, SliceIsAShare DEF SliceOf
  <1>13. L \subseteq A /\ A \subseteq G \ {e}
    <2>1. A \subseteq G /\ A \subseteq Endpoints \ {e}
      BY <1>1, <1>2, GovernedHere, AheadIsCounted DEF AheadIn
    <2>2. L \subseteq A
      BY <1>2, GovernedHere DEF AheadAmong, AheadIn
    <2> QED
      BY <2>1, <2>2
  <1>14. B \subseteq A \ L
    <2>1. B \subseteq A \ asked'.probe
      BY <1>1, <1>2, <1>7, AskedGoBehind
    <2>2. L \subseteq asked'.probe
      BY <1>9 DEF AheadAmong
    <2> QED
      BY <2>1, <2>2
  <1> HIDE DEF today, G, governed, admitted, slice, A, B, L
  <1>15. IsFiniteSet(A) /\ IsFiniteSet(L) /\ Cardinality(A) \in Nat /\ Cardinality(L) \in Nat
    <2>1. IsFiniteSet(A) /\ Cardinality(A) \in Nat
      BY <1>1, <1>2, AheadIsCounted DEF A
    <2> QED
      BY <1>13, <2>1, FS_Subset, FS_CardinalityType
  <1>16. Cardinality(A) <= governed - 1
    <2>1. IsFiniteSet(G \ {e}) /\ Cardinality(G \ {e}) = governed - 1
      BY <1>2, <1>3, FS_RemoveElement DEF governed
    <2> QED
      BY <1>13, <2>1, FS_Subset
  <1>17. Cardinality(L) <= Cardinality(A)
    BY <1>13, <1>15, FS_Subset
  <1>18. /\ Cardinality(B) \in Nat
         /\ Cardinality(B) <= Cardinality(A) - Cardinality(L)
    <2>1. IsFiniteSet(A \ L) /\ Cardinality(A \ L) = Cardinality(A) - Cardinality(L)
      <3>1. A \cap L = L
        BY <1>13
      <3> QED
        BY <1>15, <3>1, FS_Difference
    <2> QED
      BY <1>14, <2>1, FS_Subset, FS_CardinalityType
  <1>19. slice # governed /\ governed >= 2
    BY <1>3, <1>11, <1>12, <1>15, <1>16, <1>17
  <1>20. Cardinality(A) - Cardinality(B) >= slice
    BY <1>11, <1>12, <1>15, <1>17, <1>18
  <1>21. CadenceDays * (Cardinality(A) - Cardinality(B)) >= CadenceDays * slice
    BY <1>12, <1>15, <1>18, <1>20, ThresholdsAssumption
  <1>22. today - Day(asked.at) \in Int
    BY <1>1, ThresholdsAssumption DEF Day
  <1>23. CadenceDays * (Cardinality(A) - Cardinality(B)) >= governed * (today - Day(asked.at))
    BY <1>3, <1>12, <1>15, <1>18, <1>19, <1>21, <1>22, ThresholdsAssumption
  <1> QED
    BY <1>2, <1>3, <1>12, <1>15, <1>18, <1>19, <1>20, <1>23
       DEF today, G, governed, A, B

(***************************************************************************)
(* The wait of one endpoint, as CannotStarve bounds it.                    *)
(***************************************************************************)
Waits(state, at, e) ==
  2 * (Day(at) - Day(state.entry[e].probed) - (CadenceDays - 1))
    <= CadenceDays * (Cardinality(Endpoints) - 1 - Cardinality(AheadIn(state, e)))

LEMMA WaitsHere ==
  ASSUME Rotation, NEW e \in Endpoints,
         file.entry[e].since # None, file.entry[e].hold = "none"
  PROVE  Waits(file, asked.at, e)
  BY GovernedHere, AheadHere DEF Rotation, CannotStarve, Waits, DaysSince

\* Nobody waits longer than the bound who was asked within a cadence.
LEMMA RecentlyAskedWaits ==
  ASSUME NEW state \in State, NEW at \in Nat, NEW e \in Endpoints,
         Day(at) - Day(state.entry[e].probed) <= CadenceDays - 1
  PROVE  Waits(state, at, e)
  <1>1. PICK c \in Nat, n \in Int :
          /\ c = CadenceDays
          /\ n = Cardinality(Endpoints) - 1 - Cardinality(AheadIn(state, e)) /\ n >= 0
    <2>1. PICK all \in Nat, a \in Nat :
            /\ all = Cardinality(Endpoints) /\ a = Cardinality(AheadIn(state, e))
            /\ a <= all - 1
      BY AheadIsCounted
    <2>2. all - 1 - a \in Int /\ all - 1 - a >= 0
      BY <2>1
    <2> QED
      BY <2>1, <2>2, ThresholdsAssumption
  <1>2. c * n >= 0
    BY <1>1
  <1>3. PICK d \in Int : d = Day(at) - Day(state.entry[e].probed)
    BY ThresholdsAssumption DEF State, Entry, Instant, Day
  <1> QED
    BY <1>1, <1>2, <1>3 DEF Waits

\* Being ahead of fewer never shortens the bound.
LEMMA FewerAheadWaits ==
  ASSUME NEW state \in State, NEW later \in State, NEW at \in Nat, NEW now \in Nat,
         NEW e \in Endpoints, later.entry[e] = state.entry[e], Waits(state, at, e),
         NEW gap \in Int, gap = Day(now) - Day(at),
         NEW fewer \in Int,
         fewer = Cardinality(AheadIn(state, e)) - Cardinality(AheadIn(later, e)),
         2 * gap <= CadenceDays * fewer
  PROVE  Waits(later, now, e)
  <1>1. PICK c \in Nat, n \in Int, m \in Int :
          /\ c = CadenceDays
          /\ n = Cardinality(Endpoints) - 1 - Cardinality(AheadIn(state, e))
          /\ m = Cardinality(Endpoints) - 1 - Cardinality(AheadIn(later, e))
          /\ m = n + fewer
    <2>1. PICK all \in Nat, a \in Nat, b \in Nat :
            /\ all = Cardinality(Endpoints) /\ a = Cardinality(AheadIn(state, e))
            /\ b = Cardinality(AheadIn(later, e))
      BY AheadIsCounted
    <2>2. /\ all - 1 - a \in Int /\ all - 1 - b \in Int
          /\ all - 1 - b = (all - 1 - a) + (a - b)
      BY <2>1
    <2> QED
      BY <2>1, <2>2, ThresholdsAssumption
  <1>2. c * m = c * n + c * fewer
    BY <1>1
  <1>3. PICK d \in Int, b \in Int :
          /\ d = Day(at) - Day(state.entry[e].probed)
          /\ b = Day(now) - Day(state.entry[e].probed)
          /\ b = d + gap
    BY ThresholdsAssumption DEF State, Entry, Instant, Day
  <1>4. 2 * (d - (c - 1)) <= c * n
    BY <1>1, <1>3 DEF Waits
  <1>5. 2 * (b - (c - 1)) <= c * m
    BY <1>1, <1>2, <1>3, <1>4
  <1> QED
    BY <1>1, <1>3, <1>5 DEF Waits

LEMMA RunCannotStarve ==
  ASSUME Rotation, NEW at \in Nat \ {None}, asked.at <= at, Run(at)
  PROVE  CannotStarve'
  <1> SUFFICES ASSUME NEW e \in Endpoints,
                      file'.entry[e].since # None, file'.entry[e].hold = "none"
               PROVE  Waits(file', at, e)
    <2>1. asked'.at = at
      BY RunMarks
    <2>2. \A d \in Governed(file', Endpoints, Day(asked'.at)) :
            /\ d \in Endpoints
            /\ file'.entry[d].since # None /\ file'.entry[d].hold = "none"
            /\ Ahead(d)' = AheadIn(file', d)
      BY AheadAfterRun, GovernedIsListed
    <2> QED
      BY <2>1, <2>2 DEF CannotStarve, Waits, DaysSince
  <1>1. /\ file \in State /\ file' \in State /\ asked.at \in Nat /\ asked'.at = at
    BY RunMarks DEF Rotation, RotationTypeOK, Instant
  <1>2. Day(at) \in Nat /\ Day(asked.at) \in Nat /\ Day(asked.at) <= Day(at)
    BY <1>1, DaysFollow
  <1>3. CASE file'.entry[e].probed = at
    BY <1>1, <1>2, <1>3, RecentlyAskedWaits, ThresholdsAssumption
  <1>4. CASE file'.entry[e].probed # at
    <2>1. e \notin asked'.probe /\ file'.entry[e] = file.entry[e]
      BY <1>4, RunMarks
    <2>2. /\ file.entry[e].probed \in Nat /\ file.entry[e].probed # None
          /\ file.entry[e].probed <= asked.at /\ file.entry[e].probed < at
      <3>1. /\ file.entry[e].probed \in Nat /\ file.entry[e].probed <= asked.at
            /\ file.entry[e].probed # None
        BY <1>1, <2>1 DEF Rotation, Rotates, State, Entry, Instant
      <3> QED
        BY <1>1, <1>4, <2>1, <3>1
    <2>3. Waits(file, asked.at, e)
      BY <2>1, WaitsHere
    <2>4. PICK a \in Nat, b \in Nat : /\ a = Cardinality(AheadIn(file, e))
                                      /\ b = Cardinality(AheadIn(file', e))
                                      /\ b <= a
      <3>1. AheadIn(file', e) \subseteq AheadIn(file, e)
        BY <2>1, <2>2, AskedGoBehind
      <3> QED
        BY <1>1, <3>1, AheadIsCounted, FS_Subset
    <2>5. CASE asked.at = at
      <3>1. Day(at) - Day(asked.at) = 0 /\ a - b \in Int
        BY <1>2, <2>5
      <3>2. CadenceDays * (a - b) >= 0
        BY <2>4, ThresholdsAssumption
      <3>3. 2 * (Day(at) - Day(asked.at)) <= CadenceDays * (a - b)
        BY <3>1, <3>2
      <3> QED
        BY <1>1, <2>1, <2>3, <2>4, <3>1, <3>3, FewerAheadWaits
    <2>6. CASE asked.at # at /\ ~IsDue(file.entry[e], Day(at))
      <3>1. Day(at) - Day(file.entry[e].probed) <= CadenceDays - 1
        BY <1>2, <2>2, <2>6, ThresholdsAssumption DEF IsDue, Day
      <3> QED
        BY <1>1, <2>1, <3>1, RecentlyAskedWaits
    <2>7. CASE asked.at # at /\ IsDue(file.entry[e], Day(at))
      <3>1. e \in Due(file, Day(at)) /\ asked.at < at
        BY <1>1, <2>1, <2>7, GovernedHere DEF Due
      <3>2. PICK governed \in Nat :
              /\ governed >= 2
              /\ CadenceDays * (a - b) >= governed * (Day(at) - Day(asked.at))
        BY <2>1, <2>4, <3>1, SliceIsWorkedOff
      <3>3. PICK gap \in Nat : gap = Day(at) - Day(asked.at)
        BY <1>2
      <3>4. 2 * gap <= governed * gap
        BY <3>2
      <3>5. CadenceDays * (a - b) \in Int
        BY <2>4, ThresholdsAssumption
      <3>6. 2 * gap <= CadenceDays * (a - b)
        BY <3>2, <3>3, <3>4, <3>5
      <3>7. gap \in Int /\ a - b \in Int
        BY <2>4
      <3> QED
        BY <1>1, <2>1, <2>3, <2>4, <3>3, <3>6, <3>7, FewerAheadWaits
    <2> QED
      BY <2>5, <2>6, <2>7
  <1> QED
    BY <1>3, <1>4

----------------------------------------------------------------------------
(***************************************************************************)
(* The invariant.                                                          *)
(***************************************************************************)
LEMMA InitRotates == RotationInit => Rotation
  <1> SUFFICES ASSUME RotationInit PROVE Rotation
    OBVIOUS
  <1>1. /\ asked.at = None /\ asked.probe = {} /\ asked = [at |-> None, probe |-> {}]
        /\ file.lastSweep = None
        /\ \A e \in Endpoints : file.entry[e] = NewEntry
    BY DEF RotationInit, EmptyState
  <1>2. NewEntry \in Entry
    BY DEF NewEntry, Entry, Instant, Hold, None
  <1>3. RotationTypeOK
    BY <1>2 DEF RotationInit, EmptyState, RotationTypeOK, State, Instant, None
  <1>4. \A e \in Endpoints : Rotates(file.entry[e], asked.at)
    BY <1>1 DEF Rotates, NewEntry, None
  <1>5. CannotStarve
    BY <1>1 DEF CannotStarve, Governed, NewEntry
  <1> QED
    BY <1>1, <1>3, <1>4, <1>5 DEF Rotation, AskedIsMarked, MarkedWasAsked, NothingMarkedNothingDue

LEMMA RunKeepsRotation ==
  ASSUME Rotation, NEW at \in Nat \ {None}, asked.at <= at, Run(at)
  PROVE  Rotation'
  <1>1. RotationTypeOK'
    BY RunMarks DEF RotationTypeOK
  <1> QED
    BY <1>1, RunMarks, RunKeepsRotating, RunLeavesItsMarks, RunCannotStarve DEF Rotation

\* A person's sleep takes one endpoint out of the rotation and changes no other.
LEMMA SleepKeepsRotation ==
  ASSUME Rotation, NEW e \in Sleepers, PutToSleep(e)
  PROVE  Rotation'
  <1>1. /\ e \in Endpoints /\ file \in State /\ asked.at \in Nat \ {None}
        /\ asked \in [at : Instant, probe : SUBSET Endpoints]
    BY RotationAssumption DEF PutToSleep, Rotation, RotationTypeOK, Instant
  <1>2. file' = [file EXCEPT !.entry[e] = Asleep(file.entry[e], asked.at)]
    BY <1>1 DEF PutToSleep, Sleep, State
  <1>3. /\ Asleep(file.entry[e], asked.at) \in Entry
        /\ Asleep(file.entry[e], asked.at).hold = "dormant"
        /\ Asleep(file.entry[e], asked.at).probed = file.entry[e].probed
    <2>1. file.entry[e] \in Entry
      BY <1>1 DEF State
    <2> QED
      BY <1>1, <2>1 DEF Asleep, Entry, Hold, Instant, None
  <1>4. /\ file' \in State /\ file'.lastSweep = file.lastSweep
        /\ file'.entry[e].hold = "dormant" /\ file'.entry[e].probed = file.entry[e].probed
        /\ \A d \in Endpoints \ {e} : file'.entry[d] = file.entry[d]
    BY <1>1, <1>2, <1>3 DEF State
  <1>5. /\ asked'.at = asked.at /\ asked'.probe = asked.probe \ {e}
        /\ asked' \in [at : Instant, probe : SUBSET Endpoints]
    BY <1>1 DEF PutToSleep
  <1>6. RotationTypeOK' /\ file'.lastSweep = asked'.at
    BY <1>4, <1>5 DEF RotationTypeOK, Rotation
  <1>7. \A d \in Endpoints : Rotates(file'.entry[d], asked'.at)
    <2>1. Rotates(file'.entry[e], asked'.at)
      BY <1>1, <1>4, <1>5 DEF Rotation, Rotates
    <2> QED
      BY <1>4, <1>5, <2>1 DEF Rotation
  <1>8. AskedIsMarked' /\ MarkedWasAsked'
    <2>1. asked'.probe \subseteq Endpoints \ {e}
      BY <1>1, <1>5
    <2>2. AskedIsMarked'
      BY <1>4, <1>5, <2>1 DEF Rotation, AskedIsMarked
    <2> QED
      BY <1>4, <1>5, <2>2 DEF Rotation, MarkedWasAsked
  <1>9. NothingMarkedNothingDue'
    <2>1. HasRun(file', Endpoints, asked'.at) <=> HasRun(file, Endpoints, asked.at)
      BY <1>1, <1>4, <1>5 DEF HasRun
    <2> QED
      BY <1>4, <1>5, <2>1 DEF Rotation, NothingMarkedNothingDue
  <1>10. CannotStarve'
    <2>1. Unheld(file')
      BY <1>7 DEF Unheld, Rotates
    <2>2. Governed(file', Endpoints, Day(asked'.at)) =
            {d \in Endpoints : file'.entry[d].since # None /\ file'.entry[d].hold = "none"}
      BY <2>1, GovernedWhenUnheld
    <2>3. \A d \in Endpoints : Ahead(d)' = AheadIn(file', d)
      BY <2>2 DEF Ahead, AheadIn
    <2> SUFFICES ASSUME NEW d \in Endpoints,
                        file'.entry[d].since # None, file'.entry[d].hold = "none"
                 PROVE  Waits(file', asked.at, d)
      BY <1>5, <2>2, <2>3 DEF CannotStarve, Waits, DaysSince
    <2>4. d # e /\ file'.entry[d] = file.entry[d]
      BY <1>4
    <2>5. Waits(file, asked.at, d)
      BY <2>4, WaitsHere
    <2>6. AheadIn(file', d) \subseteq AheadIn(file, d)
      BY <1>1, <1>4, <2>4 DEF AheadIn, Precedes
    <2>7. PICK a \in Nat, b \in Nat : /\ a = Cardinality(AheadIn(file, d))
                                      /\ b = Cardinality(AheadIn(file', d))
                                      /\ b <= a
      BY <1>1, <1>4, <2>6, AheadIsCounted, FS_Subset
    <2>8. Day(asked.at) \in Nat
      BY <1>1, DaysFollow
    <2>9. Day(asked.at) - Day(asked.at) = 0 /\ 0 \in Int /\ a - b \in Int
      BY <2>8
    <2>10. 2 * 0 <= CadenceDays * (a - b)
      BY <2>7, ThresholdsAssumption
    <2> QED
      BY <1>1, <1>4, <2>4, <2>5, <2>7, <2>9, <2>10, FewerAheadWaits
  <1> QED
    BY <1>6, <1>7, <1>8, <1>9, <1>10 DEF Rotation

LEMMA SweepIsLater ==
  ASSUME Rotation, FullSweep
  PROVE  \E at \in Nat \ {None} : asked.at < at /\ asked.at <= at /\ Run(at)
  <1>1. PICK gap \in 1..(MaxGap * TicksPerDay) : Run(asked.at + gap)
    BY DEF FullSweep
  <1>2. MaxGap * TicksPerDay \in Nat
    BY RotationAssumption, ThresholdsAssumption
  <1>3. gap \in Nat \ {0} /\ asked.at \in Nat
    BY <1>2 DEF Rotation, RotationTypeOK, Instant
  <1>4. /\ asked.at + gap \in Nat \ {None}
        /\ asked.at < asked.at + gap /\ asked.at <= asked.at + gap
    BY <1>3 DEF None
  <1> QED
    BY <1>1, <1>4

LEMMA StepRotates == Rotation /\ [RotationNext]_rotationVars => Rotation'
  <1> SUFFICES ASSUME Rotation, [RotationNext]_rotationVars PROVE Rotation'
    OBVIOUS
  <1>1. CASE FullSweep
    BY <1>1, SweepIsLater, RunKeepsRotation
  <1>2. CASE Replay
    <2>1. asked.at \in Nat \ {None} /\ asked.at <= asked.at /\ Run(asked.at)
      BY <1>2 DEF Replay, Rotation, RotationTypeOK, Instant
    <2> QED
      BY <2>1, RunKeepsRotation
  <1>3. ASSUME NEW e \in Sleepers, PutToSleep(e) PROVE Rotation'
    BY <1>3, SleepKeepsRotation
  <1>4. CASE UNCHANGED rotationVars
    <2>1. file' = file /\ asked' = asked
      BY <1>4 DEF rotationVars
    <2> QED
      BY <2>1 DEF Rotation, RotationTypeOK, AskedIsMarked, MarkedWasAsked,
                  NothingMarkedNothingDue, CannotStarve,
                  Ahead, DaysSince
  <1> QED
    BY <1>1, <1>2, <1>3, <1>4 DEF RotationNext

LEMMA SpecRotation == RotationSpec => []Rotation
  BY InitRotates, StepRotates, PTL DEF RotationSpec

(***************************************************************************)
(* Nothing in the rotation waits longer than its place in it costs,        *)
(* whatever the registry, the cadence and the days the schedule missed.    *)
(***************************************************************************)
THEOREM NothingStarves == RotationSpec => []CannotStarve
  BY SpecRotation, PTL DEF Rotation

(***************************************************************************)
(* Every sweep works off its days' share of what is ahead of a due         *)
(* endpoint that it leaves out.                                            *)
(***************************************************************************)
THEOREM EverySliceKeepsPace == RotationSpec => SlicesKeepPace
  <1>1. ASSUME Rotation, FullSweep, NEW e \in Governed(file, Endpoints, Day(asked'.at)),
               IsDue(file.entry[e], Day(asked'.at)), e \notin asked'.probe
        PROVE  KeepsPace(e)
    <2>1. PICK at \in Nat \ {None} : asked.at < at /\ asked.at <= at /\ Run(at)
      BY <1>1, SweepIsLater
    <2>2. asked'.at = at
      BY <1>1, <2>1, RunMarks
    <2>3. e \in Due(file, Day(at))
      BY <1>1, <2>2 DEF Due
    <2>4. e \in Endpoints
      BY <2>3, GovernedIsListed
    <2>5. Ahead(e) = AheadIn(file, e) /\ Ahead(e)' = AheadIn(file', e)
      BY <1>1, <2>1, <2>4, AheadHere, AheadAfterRun
    <2> QED
      BY <1>1, <2>1, <2>2, <2>3, <2>5, SliceIsWorkedOff DEF KeepsPace
  <1>2. Rotation /\ [RotationNext]_rotationVars =>
          [FullSweep => \A e \in Governed(file, Endpoints, Day(asked'.at)) :
                      \/ ~IsDue(file.entry[e], Day(asked'.at))
                      \/ e \in asked'.probe
                      \/ KeepsPace(e)]_rotationVars
    BY <1>1
  <1> QED
    BY <1>2, SpecRotation, PTL DEF RotationSpec, SlicesKeepPace

(***************************************************************************)
(* A re-run of the newest --at asks exactly what the first run asked, but  *)
(* for what an operator has put to sleep since.                            *)
(***************************************************************************)
THEOREM ReplaysAskTheSame == RotationSpec => ReplayAsksTheSame
  <1>1. ASSUME Rotation, RotationNext, asked'.at = asked.at
        PROVE  asked'.probe = {e \in asked.probe : file'.entry[e].hold # "dormant"}
    <2>1. CASE FullSweep
      <3>1. PICK at \in Nat \ {None} : asked.at < at /\ asked.at <= at /\ Run(at)
        BY <1>1, <2>1, SweepIsLater
      <3>2. asked'.at = at /\ asked.at \in Nat
        BY <1>1, <3>1, RunMarks DEF Rotation, RotationTypeOK, Instant
      <3> QED
        BY <1>1, <3>1, <3>2
    <2>2. CASE Replay
      <3>1. asked.at \in Nat \ {None} /\ asked.at <= asked.at /\ Run(asked.at)
        BY <1>1, <2>2 DEF Replay, Rotation, RotationTypeOK, Instant
      <3>2. asked'.probe = PlanSweep(file, Endpoints, asked.at, "Full")
        BY <1>1, <3>1, RunMarks
      <3>3. asked'.probe = asked.probe
        BY <1>1, <3>1, <3>2, ReplayAsksNoMore, ReplayAsksNoFewer
      <3>4. \A e \in asked'.probe : file'.entry[e].hold = "none"
        BY <1>1, <3>1, RunMarks
      <3> QED
        BY <3>3, <3>4
    <2>3. ASSUME NEW e \in Sleepers, PutToSleep(e)
          PROVE  asked'.probe = {d \in asked.probe : file'.entry[d].hold # "dormant"}
      <3>1. Rotation'
        BY <1>1, <2>3, SleepKeepsRotation
      <3>2. \A d \in asked'.probe : file'.entry[d].hold = "none"
        BY <3>1 DEF Rotation, AskedIsMarked
      <3>3. asked'.probe = asked.probe \ {e}
        BY <1>1, <2>3 DEF PutToSleep, Rotation, RotationTypeOK
      <3>4. file'.entry[e].hold = "dormant"
        <4>1. e \in Endpoints /\ file \in State
          BY <1>1, RotationAssumption DEF Rotation, RotationTypeOK
        <4> QED
          BY <2>3, <4>1 DEF PutToSleep, Sleep, Asleep, State, Entry
      <3> QED
        BY <3>2, <3>3, <3>4
    <2> QED
      BY <1>1, <2>1, <2>2, <2>3 DEF RotationNext
  <1>2. Rotation /\ [RotationNext]_rotationVars =>
          [asked'.at = asked.at =>
             asked'.probe = {e \in asked.probe : file'.entry[e].hold # "dormant"}]_rotationVars
    BY <1>1
  <1> QED
    BY <1>2, SpecRotation, PTL DEF RotationSpec, ReplayAsksTheSame
=============================================================================
