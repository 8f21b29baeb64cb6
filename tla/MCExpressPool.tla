---------------------------- MODULE MCExpressPool ----------------------------
(***************************************************************************)
(* A small demo: three workspaces and two creates at a time, five requests *)
(* to create one, four of them from one address.                           *)
(***************************************************************************)
EXTENDS ExpressPool, TLC

CONSTANTS c1, c2, c3, c4, c5, o1, o2

SharedAddress == [c \in Creates |-> IF c = c4 THEN o2 ELSE o1]

\* Of the four requests of one address, three differ in nothing.
Interchangeable == Permutations({c1, c2, c5})
=============================================================================
