---- MODULE MCFlush ----
(* A chain of two blocks with a fork, in files of two blocks. *)
EXTENDS Flush, TLC

CONSTANTS g, a1, a2, c2

TreeOf  == (a1 :> g) @@ (a2 :> a1) @@ (c2 :> a1)
Chains  == (g :> {}) @@ (a1 :> {a1}) @@ (a2 :> {a1, a2}) @@ (c2 :> {a1, c2})
Heights == (g :> 0) @@ (a1 :> 1) @@ (a2 :> 2) @@ (c2 :> 2)
====
