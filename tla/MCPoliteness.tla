---------------------------- MODULE MCPoliteness ----------------------------
(***************************************************************************)
(* Two hosts with a task each, redirects within and between them, and a    *)
(* third host no endpoint of the registry is on.                           *)
(***************************************************************************)
EXTENDS Politeness, TLC

CONSTANTS A, B, C, a1, a2, b1, c1, ta, tb

HostOfUrl == (a1 :> A) @@ (a2 :> A) @@ (b1 :> B) @@ (c1 :> C)
EndpointOf == (ta :> a1) @@ (tb :> b1)
=============================================================================
