---- MODULE MCCoinsCache ----
(* A transaction with an output, a nullifier, and a line of two anchors. *)
EXTENDS CoinsCache, TLC

CONSTANTS e, r1, r2

Tree == (e :> e) @@ (r1 :> e) @@ (r2 :> r1)
====
