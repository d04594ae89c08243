--------------------------- MODULE DormancyPolicy ---------------------------
(***************************************************************************)
(* The dormancy policy of prober/src/dormancy.rs as pure operators over    *)
(* the state file's contents: what a sweep probes (PlanSweep), what a      *)
(* finished sweep writes back (Update), and the operator commands Wake,    *)
(* Sleep and Prune.                                                        *)
(*                                                                         *)
(* An instant is a natural number, None (0) standing for an absent field,  *)
(* and TicksPerDay instants make one calendar day: the policy compares     *)
(* instants for equality and order and subtracts whole days, nothing else. *)
(* An endpoint is a natural number too, because plan_sweep breaks ties on  *)
(* the url's order.  A missing entry and an entry whose every field has    *)
(* its default are one value: no rule tells them apart.  last_cost_ms,     *)
(* last_triples, last_classes, lapsed_hold, updated_at and the reasons of  *)
(* holds are written but never read by a rule of this file.                *)
(***************************************************************************)
EXTENDS Integers, FiniteSets

CONSTANTS
  Endpoints,    \* every url a registry has ever listed
  TicksPerDay,  \* instants in one calendar day
  StrikeLimit,  \* Thresholds.strikes
  CadenceDays,  \* Thresholds.cadence_days
  GraceDays     \* Thresholds.grace_days

ASSUME EndpointsAssumption == IsFiniteSet(Endpoints) /\ Endpoints \subseteq Nat
ASSUME ThresholdsAssumption ==
  /\ TicksPerDay \in Nat \ {0}
  /\ StrikeLimit \in Nat \ {0}
  /\ CadenceDays \in Nat \ {0}
  /\ GraceDays \in Nat \ {0}

None == 0
Instant == Nat
Day(t) == t \div TicksPerDay

(***************************************************************************)
(* Hold: an awake hold carries the instant its grace runs to, a pin is an  *)
(* awake hold without one, a dormant hold has no expiry.                   *)
(***************************************************************************)
Hold == {"none", "awake", "pinned", "dormant"}

Entry == [strikes : Nat, before : Nat, probed : Instant, profiled : Instant,
          since : Instant, hold : Hold, until : Instant]

NewEntry == [strikes |-> 0, before |-> 0, probed |-> None, profiled |-> None,
             since |-> None, hold |-> "none", until |-> None]

(***************************************************************************)
(* The file: one entry per endpoint and last_sweep_at, the divisor of the  *)
(* slice.                                                                  *)
(***************************************************************************)
State == [entry : [Endpoints -> Entry], lastSweep : Instant]
EmptyState == [entry |-> [e \in Endpoints |-> NewEntry], lastSweep |-> None]

Later(a, b) == IF a < b THEN b ELSE a

(***************************************************************************)
(* What one sweep measured of one endpoint, as far as a rule asks: a       *)
(* positive verdict, a strike (cost above the threshold, or the liveness   *)
(* gate), or a cheap silence; and whether the class profile pass ran.      *)
(***************************************************************************)
Verdict == {"positive", "strike", "silent"}
Outcome == [verdict : Verdict, profiled : BOOLEAN]

HoldEffect(entry, today) ==
  CASE entry.hold = "none"    -> "Unheld"
    [] entry.hold = "dormant" -> "Dormant"
    [] entry.hold = "pinned"  -> "LiveAwake"
    [] entry.hold = "awake"   ->
         IF Day(entry.until) >= today THEN "LiveAwake" ELSE "LapsedAwake"

----------------------------------------------------------------------------
(***************************************************************************)
(* plan_sweep.                                                             *)
(***************************************************************************)
Spend == {"Cheap", "Full"}

\* MUTANT: an --at is never recognised as one that has run.
HasNeverRun(state, listed, now) == FALSE

HasRun(state, listed, now) == \E e \in listed : state.entry[e].probed = now

Governed(state, listed, today) ==
  {e \in listed : /\ state.entry[e].since # None
                  /\ HoldEffect(state.entry[e], today) \in {"Unheld", "LapsedAwake"}}

IsDue(entry, today) ==
  entry.probed = None \/ today - Day(entry.probed) >= CadenceDays

\* MUTANT: the share is rounded down, and nothing keeps it above zero.
SliceSizeRoundedDown(state, today, governed) ==
  IF state.lastSweep = None THEN governed \div CadenceDays
  ELSE (governed * (today - Day(state.lastSweep))) \div CadenceDays

\* MUTANT: the share is that of one day, whatever days went by.
SliceSizeOfOneDay(state, today, governed) ==
  (governed + CadenceDays - 1) \div CadenceDays

\* slice_size: ceil(governed * gap / cadence), clamped to 1..governed.
SliceSize(state, today, governed) ==
  LET gap == IF state.lastSweep = None \/ today - Day(state.lastSweep) < 1
               THEN 1
               ELSE today - Day(state.lastSweep)
      ceiling == (governed * gap + CadenceDays - 1) \div CadenceDays
  IN  CASE governed = 0       -> 0
        [] ceiling > governed -> governed
        [] OTHER              -> ceiling

\* The sort of the due set: oldest probe first, then the url.
Precedes(state, d, e) ==
  \/ state.entry[d].probed < state.entry[e].probed
  \/ state.entry[d].probed = state.entry[e].probed /\ d < e

\* The oldest slice of the due set.
Admitted(state, listed, today) ==
  LET governed == Governed(state, listed, today)
      due      == {e \in governed : IsDue(state.entry[e], today)}
      slice    == SliceSize(state, today, Cardinality(governed))
  IN  {e \in due : Cardinality({d \in due : Precedes(state, d, e)}) < slice}

\* Rule 3: a re-run asks what the first run asked.
ReplayDecision(state, now, e) ==
  IF state.entry[e].probed = now THEN "Probe" ELSE "NotInThisSweep"

\* Rules 4 to 6, when this --at has not run.
FreshDecision(state, listed, now, e) ==
  IF \/ HoldEffect(state.entry[e], Day(now)) = "LiveAwake"
     \/ state.entry[e].since = None
     \/ e \in Admitted(state, listed, Day(now))
    THEN "Probe" ELSE "Automatic"

\* MUTANT: the replay rules come before the operator's hold.
DecideReplayFirst(state, listed, now, spend, e) ==
  IF spend = "Full" /\ HasRun(state, listed, now) THEN ReplayDecision(state, now, e)
  ELSE IF HoldEffect(state.entry[e], Day(now)) = "Dormant" THEN "OperatorHold"
  ELSE IF spend = "Cheap" THEN "Probe"
  ELSE FreshDecision(state, listed, now, e)

\* The order of the rules: a person's sleep, then the spend, then a replay.
Decide(state, listed, now, spend, e) ==
  IF HoldEffect(state.entry[e], Day(now)) = "Dormant" THEN "OperatorHold"
  ELSE IF spend = "Cheap" THEN "Probe"
  ELSE IF HasRun(state, listed, now) THEN ReplayDecision(state, now, e)
  ELSE FreshDecision(state, listed, now, e)

PlanSweep(state, listed, now, spend) ==
  {e \in listed : Decide(state, listed, now, spend, e) = "Probe"}

----------------------------------------------------------------------------
(***************************************************************************)
(* update.                                                                 *)
(***************************************************************************)
\* MUTANT: the lapse forgets one of the two counters.
ClearLapsedKeepingBefore(entry, today) ==
  IF HoldEffect(entry, today) = "LapsedAwake"
    THEN [entry EXCEPT !.hold = "none", !.until = None, !.strikes = 0]
    ELSE entry

\* Rule A, over every entry of the file.
ClearLapsed(entry, today) ==
  IF HoldEffect(entry, today) = "LapsedAwake"
    THEN [entry EXCEPT !.hold = "none", !.until = None, !.strikes = 0, !.before = 0]
    ELSE entry

\* MUTANT: a replay strikes again.
BaseOfEveryMerge(entry, now) == entry.strikes

\* MUTANT: a replay takes the replayed sweep's strike back first.
BaseTakingOneBack(entry, now) ==
  IF entry.probed = now THEN entry.strikes - 1 ELSE entry.strikes

\* Rule B: a replay recomputes from what the replayed sweep inherited.
Base(entry, now) == IF entry.probed = now THEN entry.before ELSE entry.strikes

\* MUTANT: a wake is immune from being skipped only.
RelegatesTheWoken(entry, strikes, now) ==
  strikes >= StrikeLimit /\ entry.since = None

\* Rule F: relegation, which a live wake suppresses.
Relegates(entry, strikes, now) ==
  /\ strikes >= StrikeLimit
  /\ entry.since = None
  /\ HoldEffect(entry, Day(now)) # "LiveAwake"

Strike(entry, base, now) ==
  [entry EXCEPT !.strikes = base + 1,
                !.since = IF Relegates(entry, base + 1, now) THEN now ELSE @]

\* Rules E, F and G.
Judge(entry, verdict, base, now) ==
  CASE verdict = "positive" -> [entry EXCEPT !.strikes = 0, !.since = None]
    [] verdict = "strike"   -> Strike(entry, base, now)
    [] verdict = "silent"   -> [entry EXCEPT !.strikes = 0]

\* MUTANT: an outcome promotes an endpoint put to sleep during the sweep.
OvertakenBySweepsOnly(entry, now) == now < entry.probed

\* MUTANT: a late sweep is applied like any other.
OvertakenBySleepOnly(entry, now) == HoldEffect(entry, Day(now)) = "Dormant"

\* Rules H and C: an outcome a person's sleep, or a later sweep, has overtaken.
Overtaken(entry, now) ==
  HoldEffect(entry, Day(now)) = "Dormant" \/ now < entry.probed

ApplyOutcome(entry, outcome, now) ==
  IF Overtaken(entry, now)
    THEN entry
    ELSE LET base == Base(entry, now) IN
         Judge([entry EXCEPT !.before = base,
                             !.probed = now,
                             !.profiled = IF outcome.profiled THEN now ELSE @],
               outcome.verdict, base, now)

\* outcomes is a function from the probed endpoints, rule D being its domain.
Update(state, outcomes, now) ==
  [entry |-> [e \in Endpoints |->
      LET cleared == ClearLapsed(state.entry[e], Day(now)) IN
      IF e \in DOMAIN outcomes THEN ApplyOutcome(cleared, outcomes[e], now)
                               ELSE cleared],
   lastSweep |-> Later(state.lastSweep, now)]

----------------------------------------------------------------------------
(***************************************************************************)
(* The operator commands.                                                  *)
(***************************************************************************)
\* MUTANT: the wake leaves the relegation on record.
WokenStillDormant(entry, now, pin) ==
  [entry EXCEPT !.hold = IF pin THEN "pinned" ELSE "awake",
                !.until = IF pin THEN None ELSE now + GraceDays * TicksPerDay,
                !.strikes = 0, !.before = 0]

Woken(entry, now, pin) ==
  [entry EXCEPT !.hold = IF pin THEN "pinned" ELSE "awake",
                !.until = IF pin THEN None ELSE now + GraceDays * TicksPerDay,
                !.strikes = 0, !.before = 0, !.since = None]

Wake(state, e, now, pin) == [state EXCEPT !.entry[e] = Woken(@, now, pin)]

Asleep(entry, now) ==
  [entry EXCEPT !.hold = "dormant", !.until = None,
                !.since = IF @ = None THEN now ELSE @]

Sleep(state, e, now) == [state EXCEPT !.entry[e] = Asleep(@, now)]

Prune(state, listed) ==
  [state EXCEPT !.entry = [e \in Endpoints |->
     IF state.entry[e].hold = "none" /\ e \notin listed
       THEN NewEntry ELSE state.entry[e]]]
=============================================================================
