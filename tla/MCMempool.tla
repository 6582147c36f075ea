----------------------------- MODULE MCMempool -----------------------------
(***************************************************************************)
(* Two branches above Genesis.  On the first, b1 has a coinbase c1 and     *)
(* moves the anchor, b2 mines p, and b3 mines the shielded y and moves the *)
(* anchor again.  On the second, d1 mines the nonstandard q, which spends  *)
(* what p spends, and d2 and d3 above it are refused, d3 without blame.    *)
(*                                                                         *)
(* r spends an output of p and one of x, and x may not be mined above      *)
(* height 2; s spends the coinbase, at height 3 at the earliest; y and z   *)
(* reveal the same nullifier, y not below height 3, z with b1's root.      *)
(***************************************************************************)
EXTENDS Mempool

CONSTANTS g, c1, p, q, r, s, x, y, z,          \* transactions
          b1, b2, b3, d1, d2, d3, R0, R1, R3,      \* blocks and roots
          g0, g1, k1, p0, x0, nf               \* outputs and a nullifier

MCTxs == {g, c1, p, q, r, s, x, y, z}
MCOuts == {g0, g1, k1, p0, x0, nf}
MCMaker == [o \in MCOuts |-> CASE o \in {g0, g1} -> g [] o = k1 -> c1 [] o = p0 -> p
                               [] o = x0 -> x [] o = nf -> None]
MCIns == [t \in MCTxs |-> CASE t \in {p, q} -> <<g0>> [] t = x -> <<g1>> [] t = r -> <<p0, x0>>
                            [] t = s -> <<k1>> [] t \in {y, z} -> <<nf>> [] OTHER -> << >>]
MCEarliest == [t \in MCTxs |-> IF t = y THEN 3 ELSE 0]
MCLatest == [t \in MCTxs |-> IF t = x THEN 2 ELSE 9]
MCAnchor == [t \in MCTxs |-> CASE t = y -> R0 [] t = z -> R1 [] OTHER -> None]

MCBlocks == {b1, b2, b3, d1, d2, d3}
MCParent == [b \in MCBlocks |-> CASE b \in {b1, d1} -> Genesis [] b = b2 -> b1 [] b = b3 -> b2 [] b \in {d2, d3} -> d1]
MCChain == [b \in MCBlocks \cup {Genesis} |->
             CASE b = Genesis -> {} [] b = b1 -> {b1} [] b = b2 -> {b1, b2} [] b = b3 -> {b1, b2, b3}
               [] b = d1 -> {d1} [] b \in {d2, d3} -> {d1, b}]
MCHeight == [b \in MCBlocks \cup {Genesis} |-> Cardinality(MCChain[b])]
MCVtx == [b \in MCBlocks \cup {Genesis} |->
             CASE b = Genesis -> <<g>> [] b = b1 -> <<c1>> [] b = b2 -> <<p>> [] b = b3 -> <<y>>
               [] b = d1 -> <<q>> [] b \in {d2, d3} -> << >>]
MCRoot == [b \in MCBlocks \cup {Genesis} |-> CASE b \in {b1, b2} -> R1 [] b = b3 -> R3 [] OTHER -> R0]
=============================================================================
