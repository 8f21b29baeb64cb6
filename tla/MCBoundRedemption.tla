--------------------------- MODULE MCBoundRedemption ---------------------------
(***************************************************************************)
(* A small merchant: one settlement with two genuine proofs, another one   *)
(* with a forged signature and a challenge of another merchant.            *)
(***************************************************************************)
EXTENDS BoundRedemption, TLC

CONSTANTS t1, p1, p2, p3, p4

RaceTxOf == p1 :> t1 @@ p2 :> t1 @@ p3 :> t1 @@ p4 :> t1
=============================================================================
