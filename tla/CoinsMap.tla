------------------------------ MODULE CoinsMap ------------------------------
(***************************************************************************)
(* What the layers of coins views promise: the chain state is one map from *)
(* transactions to their unspent outputs, with the spent nullifiers, the   *)
(* note commitment anchors, the best anchor and the best block, and it     *)
(* changes in transactions.  A block is applied to a pending copy, which   *)
(* is committed or dropped as a whole; the committed state is stored as a  *)
(* whole; a crash falls back to what was stored.                           *)
(***************************************************************************)

EXTENDS CoinsData

VARIABLES
    stored,         \* what the database holds
    committed,      \* what pcoinsTip shows
    pending,        \* what the view of the block being applied shows
    open            \* whether there is such a view

mapVars == <<stored, committed, pending, open>>

State == [coins : [Txids -> Coins], nullifiers : SUBSET Nullifiers,
          anchors : SUBSET Roots, anchor : Roots, block : Blocks \cup {NullBlock}]

EmptyState == [coins |-> [t \in Txids |-> {}], nullifiers |-> {},
               anchors |-> {EmptyRoot}, anchor |-> EmptyRoot, block |-> NullBlock]

MapInit ==
    /\ stored = EmptyState /\ committed = EmptyState /\ pending = EmptyState
    /\ open = FALSE

-----------------------------------------------------------------------------
(* The pending copy. *)

Begin ==
    /\ ~open
    /\ open' = TRUE
    /\ UNCHANGED <<stored, committed, pending>>

Change(s) == pending' = s /\ open /\ UNCHANGED <<stored, committed, open>>

PutCoins(t, v)        == Change([pending EXCEPT !.coins[t] = v])
PutNullifiers(ns)     == Change([pending EXCEPT !.nullifiers = @ \cup ns])
RemoveNullifiers(ns)  == Change([pending EXCEPT !.nullifiers = @ \ ns])
PutBlock(b)           == Change([pending EXCEPT !.block = b])

Push(r) ==
    /\ r # EmptyRoot /\ Prev[r] = pending.anchor
    /\ Change([pending EXCEPT !.anchors = @ \cup {r}, !.anchor = r])

Pop ==
    /\ pending.anchor # EmptyRoot
    /\ Change([pending EXCEPT !.anchors = @ \ {pending.anchor},
                              !.anchor = Prev[pending.anchor]])

Commit ==
    /\ open
    /\ committed' = pending /\ open' = FALSE
    /\ UNCHANGED <<stored, pending>>

Drop ==
    /\ open
    /\ pending' = committed /\ open' = FALSE
    /\ UNCHANGED <<stored, committed>>

\* the first block: the genesis block, whose coins nobody may spend
CommitGenesis(b) ==
    /\ ~open
    /\ committed.block = NullBlock
    /\ committed' = [committed EXCEPT !.block = b]
    /\ pending' = committed'
    /\ UNCHANGED <<stored, open>>

-----------------------------------------------------------------------------
(* The stored copy. *)

Store ==
    /\ ~open
    /\ stored' = committed
    /\ UNCHANGED <<committed, pending, open>>

Fallback ==
    /\ committed' = stored /\ pending' = stored /\ open' = FALSE
    /\ UNCHANGED stored

MapNext ==
    \/ Begin \/ Commit \/ Drop \/ Store \/ Fallback \/ Pop
    \/ \E t \in Txids, v \in Coins : PutCoins(t, v)
    \/ \E ns \in SUBSET Nullifiers : PutNullifiers(ns) \/ RemoveNullifiers(ns)
    \/ \E r \in Roots : Push(r)
    \/ \E b \in Blocks : PutBlock(b) \/ CommitGenesis(b)

MapSpec == MapInit /\ [][MapNext]_mapVars

-----------------------------------------------------------------------------
(***************************************************************************)
(* The anchors of a state are a single line: the best anchor is there and  *)
(* is the last of it, every anchor's predecessor is there, and no two have *)
(* the same one.                                                           *)
(***************************************************************************)
Line(s) ==
    /\ s.anchor \in s.anchors
    /\ EmptyRoot \in s.anchors
    /\ \A r \in s.anchors \ {EmptyRoot} : /\ Prev[r] \in s.anchors
                                          /\ Prev[r] # s.anchor
    /\ \A r, q \in s.anchors \ {EmptyRoot} : Prev[r] = Prev[q] => r = q

\* The tree of the best anchor can be looked up in every copy of the chain
\* state, which ConnectBlock and DisconnectTip assert, and the anchors of a
\* copy are those of one chain of blocks.
AnchorsInLine == Line(stored) /\ Line(committed) /\ Line(pending)
=============================================================================
