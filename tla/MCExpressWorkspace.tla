--------------------------- MODULE MCExpressWorkspace ---------------------------
(***************************************************************************)
(* A small instance: four operations for four purchases, and two mandates  *)
(* outside, of which the first can be exhausted.                           *)
(***************************************************************************)
EXTENDS ExpressWorkspace, TLC

CONSTANTS x1, x2, x3, x4, m1, m2

TwoMandates == (x1 :> m1) @@ (x2 :> m1) @@ (x3 :> m1) @@ (x4 :> m2)

\* Operations are alike, and so are the payments of the first mandate.
Alike == Permutations(Operations) \cup Permutations({x1, x2, x3})
=============================================================================
