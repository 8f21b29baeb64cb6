---------------------------- MODULE MCWalletPurchase ----------------------------
(***************************************************************************)
(* Small instances.  Servers: two attempts repeat one call on different    *)
(* servers while a third, on the first of them, buys something else; the   *)
(* other runs have two attempts with a call and a URL each.                *)
(***************************************************************************)
EXTENDS WalletPurchase, TLC

CONSTANTS a1, a2, a3, r1, s1, s2, c1, c2, c3, u1, u2

\* a1 and a2 repeat one call; a3 buys something else.
RepeatedCall == (a1 :> c1) @@ (a2 :> c1) @@ (a3 :> c2)
TwoCalls == (a1 :> c1) @@ (a2 :> c2)

TwoUrls == (c1 :> u1) @@ (c2 :> u2)

OneServer == [k \in Tasks |-> s1]
\* The second attempt runs elsewhere.
Apart == [k \in Tasks |-> IF k = a2 THEN s2 ELSE s1]
=============================================================================
