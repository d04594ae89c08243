---------------------------- MODULE Publication ----------------------------
(***************************************************************************)
(* What a sweep promises of the file it writes (prober/src/lib.rs,         *)
(* run_sweep): one chunk for every endpoint it was given, never revised,   *)
(* those of endpoints it failed on after all the others, and then an end.  *)
(* Only a write that fails may end it sooner.                              *)
(***************************************************************************)
CONSTANT Planned  \* the endpoints the sweep was given

VARIABLES chunk,  \* for each endpoint: none, whole, failed
          state   \* open, closed, abandoned

vars == <<chunk, state>>

Init == chunk = [e \in Planned |-> "none"] /\ state = "open"

Whole(e) == /\ state = "open" /\ chunk[e] = "none" /\ \A other \in Planned : chunk[other] # "failed"
            /\ chunk' = [chunk EXCEPT ![e] = "whole"] /\ UNCHANGED state

Failed(e) == /\ state = "open" /\ chunk[e] = "none"
             /\ chunk' = [chunk EXCEPT ![e] = "failed"] /\ UNCHANGED state

Close == /\ state = "open" /\ \A e \in Planned : chunk[e] # "none"
         /\ state' = "closed" /\ UNCHANGED chunk

Abandon == state = "open" /\ state' = "abandoned" /\ UNCHANGED chunk

Next == (\E e \in Planned : Whole(e) \/ Failed(e)) \/ Close \/ Abandon

Safety == Init /\ [][Next]_vars
Spec == Safety /\ WF_vars(Next)
=============================================================================
