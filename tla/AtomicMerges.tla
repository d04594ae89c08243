---------------------------- MODULE AtomicMerges ----------------------------
(***************************************************************************)
(* What merge_state of prober/src/state_file.rs promises its callers: each *)
(* call applies its change to the file in one step or not at all, no       *)
(* change is ever undone, and the answer says which of the two happened.   *)
(***************************************************************************)
CONSTANT Writers   \* the calls of merge_state

VARIABLES
  merges,   \* the calls whose change the file holds
  answer    \* what each call has returned

vars == <<merges, answer>>

Answers == {"none", "written", "unreleased", "refused"}

Init == merges = {} /\ answer = [w \in Writers |-> "none"]

Commit(w) ==
  /\ answer[w] = "none"
  /\ w \notin merges
  /\ merges' = merges \cup {w}
  /\ UNCHANGED answer

\* An Err that names the lock left behind still means the change is written.
Return(w) ==
  /\ answer[w] = "none"
  /\ \E a \in IF w \in merges THEN {"written", "unreleased"} ELSE {"refused"} :
       answer' = [answer EXCEPT ![w] = a]
  /\ UNCHANGED merges

Next == \E w \in Writers : Commit(w) \/ Return(w)

Spec == Init /\ [][Next]_vars
=============================================================================
