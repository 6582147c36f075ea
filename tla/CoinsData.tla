----------------------------- MODULE CoinsData -----------------------------
(* What the chain state is made of. *)

CONSTANTS
    Txids,          \* transactions
    Outputs,        \* output positions
    Nullifiers,     \* nullifiers of shielded notes
    Roots,          \* anchors: roots of the note commitment tree
    EmptyRoot,      \* the root of the empty tree
    Prev,           \* the root the tree was grown from
    Blocks,         \* block hashes
    NullBlock,      \* the null hash, of a block
    NullRoot        \* the null hash, of a root

\* A tree is grown from another one, and the empty tree from none.
ASSUME RootAssumption ==
    /\ EmptyRoot \in Roots
    /\ Prev \in [Roots -> Roots]
    /\ \A r \in Roots \ {EmptyRoot} : Prev[r] # r

ASSUME NullAssumption == NullRoot \notin Roots /\ NullBlock \notin Blocks

\* The coins of a transaction: its unspent outputs.  Without any they are pruned.
Coins  == SUBSET Outputs
Pruned == {}
=============================================================================
