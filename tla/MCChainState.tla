---------------------------- MODULE MCChainState ----------------------------
(***************************************************************************)
(* Small block trees for ChainState.  The main branch is a1-a2-a3-a4; the  *)
(* branches b2-b3-b4 and c2 leave it at a1, and d1-d2-d3 at the genesis    *)
(* block.  A configuration takes a part of the tree.                       *)
(***************************************************************************)
EXTENDS ChainState

ParentOf == [g |-> NoBlock, a1 |-> "g", a2 |-> "a1", a3 |-> "a2", a4 |-> "a3",
             b2 |-> "a1", b3 |-> "b2", b4 |-> "b3", c2 |-> "a1",
             d1 |-> "g", d2 |-> "d1", d3 |-> "d2"]

BranchOf == [g  |-> {"g"},
             a1 |-> {"g", "a1"},
             a2 |-> {"g", "a1", "a2"},
             a3 |-> {"g", "a1", "a2", "a3"},
             a4 |-> {"g", "a1", "a2", "a3", "a4"},
             b2 |-> {"g", "a1", "b2"},
             b3 |-> {"g", "a1", "b2", "b3"},
             b4 |-> {"g", "a1", "b2", "b3", "b4"},
             c2 |-> {"g", "a1", "c2"},
             d1 |-> {"g", "d1"},
             d2 |-> {"g", "d1", "d2"},
             d3 |-> {"g", "d1", "d2", "d3"}]

FullTree     == {"g", "a1", "a2", "a3", "a4", "b2", "b3", "c2"}
ReorgTree    == {"g", "a1", "a2", "a3", "a4", "b2", "b3", "b4"}
OperatorTree == {"g", "a1", "a2", "d1", "d2", "d3"}

Parent == [b \in Blocks |-> ParentOf[b]]
Branch == [b \in Blocks |-> BranchOf[b]]
Height == [b \in Blocks |-> Cardinality(BranchOf[b]) - 1]

\* every block is one unit of work, but b3 is three: it beats a4, and a2, b2
\* and c2 tie
Work == [b \in Blocks |-> Cardinality(BranchOf[b]) +
                          (IF b \in {"b3", "b4"} THEN 2 ELSE 0)]

\* a3 carries a notarisation of b2, a block of the other branch
CrossNotary == [b \in Blocks |-> IF b = "a3" THEN "b2" ELSE NoBlock]

\* a4 notarises a1; b3, which is lower, notarises b2
ReorgNotary == [b \in Blocks |-> CASE b = "a4" -> "a1" [] b = "b3" -> "b2"
                                   [] OTHER -> NoBlock]

\* a2 notarises its parent a1, and so does d2, on the other branch
RivalNotary == [b \in Blocks |-> IF b \in {"a2", "d2"} THEN "a1" ELSE NoBlock]
=============================================================================
