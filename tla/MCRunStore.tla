----------------------------- MODULE MCRunStore -----------------------------
(* Instances of RunStore small enough to explore. *)
EXTENDS RunStore

CONSTANTS a, b, avail

Says(reading, sampled, slow) ==
  [row |-> [m \in Metrics |-> reading], sampled |-> sampled, slow |-> slow, dormant |-> FALSE]
Dormant == [Silent EXCEPT !.dormant = TRUE]

\* One endpoint's chunk in each kind of sweep.
Nightly == Says("up", Metrics, TRUE)
Hourly == Says("skipped", {}, FALSE)
Down == Says("failed", {}, FALSE)
Plain == Says("down", {}, FALSE)

Both(x, y) == [e \in Endpoints |-> IF e = a THEN x ELSE y]
MCContents ==
  {Both(Nightly, Down), Both(Hourly, Plain), Both(Down, Dormant)}

\* A copy of the vendor's description that the next sweep does not renew.
Copying == Says("up", {}, TRUE)
CopyContents == {Both(Copying, Copying), Both(Plain, Plain)}
=============================================================================
