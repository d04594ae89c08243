------------------------------ MODULE Options ------------------------------
(* An Option that is None, in the modules that measure one endpoint.       *)
EXTENDS Naturals

CONSTANT None

ASSUME NoneAssumption == None \notin Nat
=============================================================================
