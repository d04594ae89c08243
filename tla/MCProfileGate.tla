--------------------------- MODULE MCProfileGate ---------------------------
(* An endpoint with one profile night in three and a class that may appear. *)
EXTENDS ProfileGate

MCContents == {[triples |-> 100, classes |-> 1], [triples |-> 100, classes |-> 2]}
=============================================================================
