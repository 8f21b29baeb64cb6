----------------------------- MODULE MCStarterBuyer -----------------------------
(***************************************************************************)
(* Two runs of a starter, one of them with two purchases, and a recovery.  *)
(***************************************************************************)
EXTENDS StarterBuyer, TLC

CONSTANTS b1, b2

PlanTwoAndOne == b1 :> 2 @@ b2 :> 1
=============================================================================
