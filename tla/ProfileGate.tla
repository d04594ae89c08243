---------------------------- MODULE ProfileGate ----------------------------
(***************************************************************************)
(* The profile gate from night to night, for one endpoint: what a sweep    *)
(* counts, what it profiles, and what the state file remembers of both     *)
(* (main.rs, outcomes_from and ContentMemory; dormancy.rs, update).        *)
(***************************************************************************)
EXTENDS Metrics, Profile

CONSTANTS Contents,   \* what the endpoint may hold: a number of triples and of classes
          Every, HashOfEndpoint, LastDay

VARIABLES day,        \* the night of the next sweep
          holds,      \* what the endpoint holds
          memory,     \* the endpoint's entry in the state file, as LastSeen
          profiled,   \* what the last sweep that profiled it counted
          swept       \* what the last sweep counted, and what it said of class-profiles

vars == <<day, holds, memory, profiled, swept>>

Init == /\ day = 0 /\ holds \in Contents /\ memory = NothingSeen /\ profiled = NothingSeen
        /\ swept = [triples |-> None, classes |-> None, says |-> "nothing"]

\* The endpoint's own life between two sweeps.
Change == /\ day < LastDay /\ holds' \in Contents \ {holds} /\ UNCHANGED <<day, memory, profiled, swept>>

Night == ProfileNight(NewRotation(Every, day), HashOfEndpoint)

\* A count that was not read leaves the one remembered.
Counted(now, before) == IF now = None THEN before ELSE now

Remember(triples, classes, ran) ==
  memory' = [triples |-> Counted(triples, memory.triples),
             classes |-> Counted(classes, memory.classes),
             profiledAt |-> IF ran THEN day ELSE memory.profiledAt]

(***************************************************************************)
(* A nightly sweep at the highest ceiling: it counts the endpoint, or      *)
(* cannot, and on the endpoint's own night comes to the gate.  A pass that *)
(* was asked for has run, for the state file, even where its enumeration   *)
(* was not answered or the endpoint's budget ended before it.              *)
(***************************************************************************)
Sweep ==
  /\ day < LastDay /\ day' = day + 1 /\ UNCHANGED holds
  /\ \E triples \in {holds.triples, None}, classes \in {holds.classes, None} :
       LET worth == WorthReprofiling(memory, triples, classes, day)
           Says(what) == swept' = [triples |-> triples, classes |-> classes, says |-> what]
       IN \/ /\ ~Night
             /\ Says("cadence") /\ Remember(triples, classes, FALSE) /\ UNCHANGED profiled
          \/ /\ Night /\ ~worth
             /\ Says("unchanged") /\ Remember(triples, classes, FALSE) /\ UNCHANGED profiled
          \/ /\ Night /\ worth
             /\ Says("profiles") /\ Remember(triples, classes, TRUE)
             /\ profiled' = [triples |-> triples, classes |-> classes, profiledAt |-> day]
          \/ /\ Night /\ worth
             /\ Says("enumeration-failed") \/ Says("nothing")
             /\ Remember(triples, classes, TRUE) /\ UNCHANGED profiled

\* A night without a sweep.
Miss == day < LastDay /\ day' = day + 1 /\ UNCHANGED <<holds, memory, profiled, swept>>

Next == Change \/ Sweep \/ Miss

Spec == Init /\ [][Next]_vars

(***************************************************************************)
(* "What the last sweep that profiled this endpoint saw of its size"       *)
(* (profile.rs:99) is what the gate compares with: a pass is declined as   *)
(* unchanged only of an endpoint with as many classes as that sweep        *)
(* counted.                                                                *)
(***************************************************************************)
UnchangedSinceTheLastPass ==
  [][/\ day' > day /\ swept'.says = "unchanged"
     /\ None \notin {swept'.triples, swept'.classes, profiled.triples, profiled.classes}
     => swept'.classes = profiled.classes]_vars
=============================================================================
