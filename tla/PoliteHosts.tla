---------------------------- MODULE PoliteHosts ----------------------------
(***************************************************************************)
(* What servers see of a sweep, as prober/src/politeness.rs promises it:   *)
(* one request at a time to each host, and at least the minimum gap        *)
(* between the end of one and the start of the next.                       *)
(***************************************************************************)
EXTENDS Naturals

CONSTANTS Hosts, MinGap

VARIABLES
  busy,   \* the hosts with a request in flight
  owed    \* what is left of the pause each is owed since its last one

vars == <<busy, owed>>

Init == busy = {} /\ owed = [h \in Hosts |-> 0]

Begin(h) ==
  /\ h \notin busy
  /\ owed[h] = 0
  /\ busy' = busy \cup {h}
  /\ UNCHANGED owed

End(h) ==
  /\ h \in busy
  /\ busy' = busy \ {h}
  /\ owed' = [owed EXCEPT ![h] = MinGap]

Tick ==
  /\ owed' = [h \in Hosts |-> IF owed[h] > 0 THEN owed[h] - 1 ELSE 0]
  /\ UNCHANGED busy

Next == (\E h \in Hosts : Begin(h) \/ End(h)) \/ Tick

Spec == Init /\ [][Next]_vars
=============================================================================
