------------------------------- MODULE Lists -------------------------------
(***************************************************************************)
(* What iter().filter().collect() leaves of a list: its members at some    *)
(* positions, in their order.                                              *)
(***************************************************************************)
EXTENDS Naturals, Sequences, FiniteSets

IsList(list) == list \in Seq({list[i] : i \in DOMAIN list})

\* The k-th of the positions.
Position(positions, k) ==
  CHOOSE i \in positions : Cardinality({j \in positions : j <= i}) = k

Kept(list, positions) ==
  [k \in 1..Cardinality(positions) |-> list[Position(positions, k)]]
=============================================================================
