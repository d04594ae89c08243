------------------------------ MODULE Profile ------------------------------
(***************************************************************************)
(* The class profile (prober/src/profile.rs): whether a pass is worth      *)
(* repeating, and how far a class's query is cut down before it is given   *)
(* up.  A count is a number or None; a day is the number of a date.        *)
(***************************************************************************)
EXTENDS Options, Naturals, Sequences, SequencesExt

CONSTANTS VolumeTolerance,     \* percent by which the triples may move
          MaxProfileAgeDays    \* how long a profile stands, in days

NothingSeen == [triples |-> None, classes |-> None, profiledAt |-> None]

(***************************************************************************)
(* The second gate: what is known of the last pass against what this sweep *)
(* counted.  A date that cannot be read counts as old.                     *)
(***************************************************************************)
MovedBeyondTolerance(then, now) ==
  IF then = 0 THEN now # 0
  ELSE (IF now > then THEN now - then ELSE then - now) * 100 > VolumeTolerance * then

OlderThanMaxAge(when, day) == day > when + MaxProfileAgeDays

WorthReprofiling(last, triples, classes, day) ==
  IF None \in {last.triples, last.classes, last.profiledAt} THEN TRUE
  ELSE IF None \in {triples, classes} THEN OlderThanMaxAge(last.profiledAt, day)
  ELSE \/ classes # last.classes
       \/ MovedBeyondTolerance(last.triples, triples)
       \/ OlderThanMaxAge(last.profiledAt, day)

(***************************************************************************)
(* The rungs for one class, from the configured sampling to the smallest   *)
(* sample; only the last is not a draw.  One that is not of the ladder is  *)
(* tried alone.                                                            *)
(***************************************************************************)
Exact == [slug |-> "exact", prefix |-> None]
HashPrefix(p) == [slug |-> "sha256-prefix", prefix |-> p]
FirstN == [slug |-> "first-n", prefix |-> None]
Ladder == <<Exact, HashPrefix("0"), HashPrefix("00"), FirstN>>

Configured(samplePrefix) == IF samplePrefix = None THEN Exact ELSE HashPrefix(samplePrefix)

LadderFrom(start) ==
  IF start # FirstN /\ Contains(Ladder, start)
  THEN SubSeq(Ladder, SelectInSeq(Ladder, LAMBDA rung : rung = start), Len(Ladder))
  ELSE <<start>>

\* Too much work, and not the wrong question.
WorthASmallerSample(status) == status = None \/ status \in 500..599

(***************************************************************************)
(* What a pass has so far: the classes profiled, and those it gave up.     *)
(***************************************************************************)
NothingProfiled == [profiles |-> <<>>, unreached |-> <<>>]

IsProfiled(outcome, class) == \E i \in DOMAIN outcome.profiles : outcome.profiles[i].class = class

NameUnreached(outcome, classes) ==
  [outcome EXCEPT !.unreached =
     FoldLeft(LAMBDA named, class :
                IF IsProfiled(outcome, class) \/ Contains(named, class) THEN named
                ELSE Append(named, class),
              @, classes)]
=============================================================================
