-------------------------- MODULE DormancyRotation --------------------------
(***************************************************************************)
(* One full sweep after another over a whole registry, without the hourly  *)
(* sweeps of DormancyFleet: how plan_sweep rations its relegated endpoints *)
(* from the days that went by (slice_size) and what a re-run of the newest *)
(* --at asks.                                                              *)
(***************************************************************************)
EXTENDS DormancyPolicy

CONSTANTS
  Sleepers,    \* the endpoints an operator may put to sleep
  MaxGap,      \* most days between two sweeps, missed ones included
  LastInstant  \* bound on the clock

ASSUME RotationAssumption ==
  /\ Sleepers \subseteq Endpoints
  /\ MaxGap \in Nat \ {0}
  /\ LastInstant \in Nat

VARIABLES
  file,   \* the state file
  asked   \* history: the sweep run last, its --at and what it asked

rotationVars == <<file, asked>>

RotationInit == file = EmptyState /\ asked = [at |-> None, probe |-> {}]

\* What a probe may answer.  A relegated endpoint that still fails counts as
\* silent here: the rotation reads dormant_since and never the strikes.
Verdicts(e) ==
  {"positive", IF file.entry[e].since = None THEN "strike" ELSE "silent"}

\* plan_sweep, the probing and update of one sweep nothing else overlaps.
Run(at) ==
  LET probe == PlanSweep(file, Endpoints, at, "Full") IN
  \E verdicts \in {v \in [probe -> Verdict] : \A e \in probe : v[e] \in Verdicts(e)} :
    /\ file' = Update(file, [e \in probe |-> [verdict |-> verdicts[e],
                                              profiled |-> FALSE]], at)
    /\ asked' = [at |-> at, probe |-> probe]

FullSweep == \E gap \in 1..(MaxGap * TicksPerDay) :
               asked.at + gap <= LastInstant /\ Run(asked.at + gap)

Replay == asked.at # None /\ Run(asked.at)

\* An operator takes one out of the rotation for good.
PutToSleep(e) ==
  /\ file.entry[e].hold = "none"
  /\ asked.at # None
  /\ file' = Sleep(file, e, asked.at)
  /\ asked' = [asked EXCEPT !.probe = @ \ {e}]

RotationNext == FullSweep \/ Replay \/ \E e \in Sleepers : PutToSleep(e)

RotationSpec == RotationInit /\ [][RotationNext]_rotationVars

----------------------------------------------------------------------------
\* Types of every variable.
RotationTypeOK ==
  /\ file \in State
  /\ asked \in [at : Instant, probe : SUBSET Endpoints]

\* The relegated endpoints that are asked before e when both are due.
Ahead(e) == {d \in Governed(file, Endpoints, Day(asked.at)) : Precedes(file, d, e)}

DaysSince(instant) == Day(asked.at) - Day(instant)

(***************************************************************************)
(* A due endpoint that is left out of a slice cannot starve: it sorts      *)
(* ahead of everything asked since, so when a sweep has run, nothing in    *)
(* the rotation was last asked longer ago than a cadence, less a day, and  *)
(* half a cadence for each endpoint that may have been ahead of it and no  *)
(* longer is, whatever days the schedule missed.                           *)
(***************************************************************************)
CannotStarve ==
  \A e \in Governed(file, Endpoints, Day(asked.at)) :
    2 * (DaysSince(file.entry[e].probed) - (CadenceDays - 1))
      <= CadenceDays * (Cardinality(Endpoints) - 1 - Cardinality(Ahead(e)))

(***************************************************************************)
(* What a sweep works off keeps pace with the days that went by: a due     *)
(* endpoint it leaves out has at least one endpoint fewer ahead of it      *)
(* afterwards, and at least the relegated endpoints' share of those days   *)
(* (slice_size: weekly sweeps take all 57, daily sweeps take 9).           *)
(***************************************************************************)
KeepsPace(e) ==
  LET fewer == Cardinality(Ahead(e)) - Cardinality(Ahead(e)') IN
  /\ fewer >= 1
  /\ CadenceDays * fewer >=
       Cardinality(Governed(file, Endpoints, Day(asked'.at)))
         * (Day(asked'.at) - Day(asked.at))

SlicesKeepPace ==
  [][FullSweep => \A e \in Governed(file, Endpoints, Day(asked'.at)) :
                    \/ ~IsDue(file.entry[e], Day(asked'.at))
                    \/ e \in asked'.probe
                    \/ KeepsPace(e)]_rotationVars

(***************************************************************************)
(* Re-running an --at asks exactly the endpoints the first run asked, less *)
(* those put to sleep since: the ones it asked are asked again, whatever   *)
(* they answered, and the due ones it left out are not admitted now.       *)
(***************************************************************************)
ReplayAsksTheSame ==
  [][asked'.at = asked.at =>
       asked'.probe = {e \in asked.probe : file'.entry[e].hold # "dormant"}]_rotationVars
=============================================================================
