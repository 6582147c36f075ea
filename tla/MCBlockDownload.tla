---- MODULE MCBlockDownload ----
(* A chain of two blocks, a rival one that starts with a bad block, a peer *)
(* that is prompt and one that is not.                                     *)
EXTENDS BlockDownload, TLC

CONSTANTS g, a1, a2, x1, x2, h, f

TreeOf  == (a1 :> g) @@ (a2 :> a1) @@ (x1 :> g) @@ (x2 :> x1)
Chains  == (g :> {}) @@ (a1 :> {a1}) @@ (a2 :> {a1, a2}) @@ (x1 :> {x1}) @@ (x2 :> {x1, x2})
Heights == (g :> 0) @@ (a1 :> 1) @@ (a2 :> 2) @@ (x1 :> 1) @@ (x2 :> 2)
Tip     == (h :> a2)
Sent    == (h :> {a1, a2}) @@ (f :> {a1, x1, x2})
====
