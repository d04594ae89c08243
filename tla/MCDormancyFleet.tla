--------------------------- MODULE MCDormancyFleet ---------------------------
(***************************************************************************)
(* Small instances of DormancyFleet: an hourly and a daily sweep, and the  *)
(* operator, over one endpoint and four instants on two days.              *)
(***************************************************************************)
EXTENDS DormancyFleet, TLC

CONSTANTS Hourly, Daily

BothSweeps == {Hourly, Daily}
BothSpends == (Hourly :> "Cheap") @@ (Daily :> "Full")
=============================================================================
