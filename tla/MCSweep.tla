------------------------------ MODULE MCSweep ------------------------------
(* Five endpoints of three hosts, one of which has three of them.          *)
EXTENDS Sweep, TLC

CONSTANTS a1, a2, a3, b1, c1, a, b, c

MCEndpoints == <<a1, b1, a2, c1, a3>>
MCHostKey == (a1 :> a) @@ (a2 :> a) @@ (a3 :> a) @@ (b1 :> b) @@ (c1 :> c)
=============================================================================
