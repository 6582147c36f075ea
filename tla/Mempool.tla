------------------------------- MODULE Mempool -------------------------------
(***************************************************************************)
(* The memory pool (txmempool.cpp: CTxMemPool), the orphan transactions    *)
(* and the filter of recent rejects beside it (main.cpp), as transactions  *)
(* arrive and the chain moves.                                             *)
(*                                                                         *)
(* A nullifier is an output that no transaction makes and that is unspent  *)
(* until it is revealed, so that next stands for mapNextTx and for the     *)
(* maps of nullifiers.  cs_main is held from the first block that a reorg  *)
(* disconnects to the end of the step (moving); which moves the chain      *)
(* makes is ChainState's matter.  Fees, priorities, scripts, stakes,       *)
(* branch ids, imported coins, the address and spent indexes and orphans   *)
(* that are too large to keep are left out, and so are                     *)
(* komodo_validate_interest, which refuses and evicts transactions with an *)
(* old lock time on the KMD chain, and setMisbehaving, by which further    *)
(* orphans of a peer wait after one was punished.  The initial download is *)
(* over.                                                                   *)
(***************************************************************************)
EXTENDS Integers, FiniteSets, Sequences, SequencesExt

CONSTANTS
    Txs, Coinbases, NonStandard,    \* transactions; those that policy refuses
    Shielded,                       \* transactions that spend notes
    Outs, Maker,                    \* outputs and nullifiers; the maker of an output
    Ins,                            \* the outputs and nullifiers a transaction spends, in order
    Earliest, Latest,               \* the heights at which it may be mined
    Anchor,                         \* the root its proofs refer to, or None
    Blocks, Genesis, Parent, Chain, Height, Vtx, Root,   \* a tree of blocks, as in Flush
    FailsCheck, FailsConnect,       \* blocks that CheckBlock, or the rest of ConnectBlock, refuses
    Unblamed,                       \* those it refuses without saying that the block is invalid
    Maturity,                       \* CoinbaseMaturity
    CC,                             \* ASSETCHAINS_CC # 0: the chain has crypto-condition contracts
    Peers, MaxOrphans,
    Relayed, Submitted,             \* the transactions that peers, and the operator, send
    None

AllBlocks == Blocks \cup {Genesis}

ASSUME MempoolAssumption ==
    /\ Coinbases \subseteq Txs /\ NonStandard \subseteq Txs /\ Shielded \subseteq Txs
    /\ Maker \in [Outs -> Txs \cup {None}]
    /\ IsFiniteSet(Txs) /\ Ins \in [Txs -> Seq(Outs)]
    /\ Earliest \in [Txs -> Nat] /\ Latest \in [Txs -> Nat]
    /\ Parent \in [Blocks -> AllBlocks] /\ Genesis \notin Blocks
    /\ Chain[Genesis] = {} /\ \A b \in Blocks : Chain[b] = {b} \cup Chain[Parent[b]]
    /\ Height[Genesis] = 0 /\ \A b \in Blocks : Height[b] = Height[Parent[b]] + 1
    /\ Height \in [AllBlocks -> Nat] /\ Vtx \in [AllBlocks -> Seq(Txs)]
    /\ FailsCheck \cup FailsConnect \subseteq Blocks /\ Unblamed \subseteq FailsCheck \cup FailsConnect
    /\ Maturity \in Nat /\ MaxOrphans \in Nat /\ CC \in BOOLEAN
    /\ Relayed \cup Submitted \subseteq Txs
    /\ None \notin Txs \cup Peers \cup AllBlocks

\* What the checks of transactions and blocks that are not modelled guarantee: a
\* transaction without inputs is a coinbase, or refused; the coinbase of a block is its
\* first transaction and names its height; the commitment trees only grow.
ASSUME ConsensusAssumption ==
    /\ \A t \in Txs : Ins[t] = << >> => t \in Coinbases \cup NonStandard
    /\ \A t \in Range(Vtx[Genesis]) : Ins[t] = << >>
    /\ \A b \in Blocks \ (FailsCheck \cup FailsConnect) :
           /\ \A i \in DOMAIN Vtx[b] : Ins[Vtx[b][i]] = << >> =>
                  i = 1 /\ \A c \in Chain[Parent[b]] \cup {Genesis} : Vtx[b][i] \notin Range(Vtx[c])
           /\ Root[b] # Root[Parent[b]] =>
                  Root[b] \notin {Root[c] : c \in Chain[Parent[b]] \cup {Genesis}} \cup {None}

VARIABLES
    tip, coins,     \* the chain, and the outputs and nullifiers that are unspent on it
    moving,         \* the reorg under way: "down" disconnects, "up" connects again
    unswept,        \* a reorg ended early since removeForReorg last ran (history)
    pool, tmp,      \* mempool and tmpmempool
    orphans,        \* mapOrphanTransactions: the peer it came from
    byPrev,         \* mapOrphanTransactionsByPrev
    rejects, rejectsTip     \* recentRejects, and the tip it belongs to

vars == <<tip, coins, moving, unswept, pool, tmp, orphans, byPrev, rejects, rejectsTip>>

Inputs(t) == Range(Ins[t])
Made(s)   == {o \in Outs : Maker[o] \in s}
Spent(s)  == UNION {Inputs(t) : t \in s}

\* the anchors of the chain up to b
Roots(b) == {Root[c] : c \in Chain[b] \cup {Genesis}}

\* A pool holds transactions, for each output the one that spends it, and those whose
\* entry says that they spend a coinbase.
Pools == [txs : SUBSET Txs, next : [Outs -> Txs \cup {None}], spendsCoinbase : SUBSET Txs]
EmptyPool == [txs |-> {}, next |-> [o \in Outs |-> None], spendsCoinbase |-> {}]

\* The type invariant.  mapNextTx and the nullifier maps point at transactions that the
\* pool owns: an entry that outlives its transaction would be a dangling pointer.
TypeOK ==
    /\ tip \in AllBlocks /\ coins \subseteq Outs /\ moving \in {"no", "down", "up"} /\ unswept \in BOOLEAN
    /\ pool \in Pools /\ tmp \in Pools
    /\ \A o \in Outs : pool.next[o] \in pool.txs \cup {None}
    /\ orphans \in [Txs -> Peers \cup {None}]
    /\ byPrev \in [Txs -> SUBSET Txs]
    /\ rejects \subseteq Txs /\ rejectsTip \in AllBlocks \cup {None}

Init ==
    /\ tip = Genesis
    /\ coins = {o \in Outs : Maker[o] \in Range(Vtx[Genesis]) \cup {None}}
    /\ moving = "no" /\ unswept = FALSE
    /\ pool = EmptyPool /\ tmp = EmptyPool
    /\ orphans = [t \in Txs |-> None] /\ byPrev = [t \in Txs |-> {}]
    /\ rejects = {} /\ rejectsTip = None

-----------------------------------------------------------------------------
(* CTxMemPool. *)

\* An entry for t, unless there is one
addUnchecked(P, t, spendsCoinbase) ==
    [txs  |-> P.txs \cup {t},
     next |-> [o \in Outs |-> IF o \in Inputs(t) THEN t ELSE P.next[o]],
     spendsCoinbase |-> IF spendsCoinbase /\ t \notin P.txs THEN P.spendsCoinbase \cup {t} ELSE P.spendsCoinbase]

\* one after the other, except those to skip; those in marked as spending a coinbase
AddEach(P, seq, skip, marked) ==
    FoldLeft(LAMBDA Q, t : IF t \in skip THEN Q ELSE addUnchecked(Q, t, t \in marked), P, seq)

\* mutant: the marks of a transaction outlive it
RemoveAll_KeepsMarks(P, gone) ==
    [P EXCEPT !.txs = @ \ gone, !.spendsCoinbase = @ \ gone]

\* the transactions that go, and the marks of their inputs, whoever these name
RemoveAll(P, gone) ==
    [txs  |-> P.txs \ gone,
     next |-> [o \in Outs |-> IF o \in Spent(gone) THEN None ELSE P.next[o]],
     spendsCoinbase |-> P.spendsCoinbase \ gone]

\* The transactions of the pool that spend the outputs of s, and so on
Children(P, s) == {P.next[o] : o \in Made(s)} \ {None}
WithDescendants(P, s) ==
    {t \in P.txs : \A c \in SUBSET P.txs : (s \subseteq c /\ Children(P, c) \cap P.txs \subseteq c) => t \in c}

\* remove, alone or with its descendants.  Those of a transaction that is not in
\* the pool go too.
removeAlone(P, t) == RemoveAll(P, {t} \cap P.txs)
remove(P, t) ==
    RemoveAll(P, WithDescendants(P, IF t \in P.txs THEN {t} ELSE Children(P, {t}) \cap P.txs))

\* mutant: only the transaction itself conflicts, not what depends on it
removeConflicts_Alone(P, t) ==
    FoldLeft(LAMBDA Q, o : IF Q.next[o] \in {None, t} THEN Q ELSE removeAlone(Q, Q.next[o]), P, Ins[t])

removeConflicts(P, t) ==
    FoldLeft(LAMBDA Q, o : IF Q.next[o] \in {None, t} THEN Q ELSE remove(Q, Q.next[o]), P, Ins[t])

removeEach(P, s) == FoldLeft(remove, P, SetToSeq(s))

removeForBlock(P, vtx) == FoldLeft(LAMBDA Q, t : removeConflicts(removeAlone(Q, t), t), P, vtx)

removeExpired(P, height) == removeEach(P, {t \in P.txs : height > Latest[t]})

removeWithAnchor(P, root) == removeEach(P, {t \in P.txs : Anchor[t] = root})

\* A transaction of the pool or one with an unspent output is there to be spent.
HaveCoins(P, C, t) == t \in P.txs \/ Made({t}) \cap C # {}

\* mutant: what is no longer final stays
removeForReorg_KeepsEarly(P, C, height) ==
    removeEach(P, {t \in P.spendsCoinbase :
        \E o \in Inputs(t) : Maker[o] # None /\ ~HaveCoins(P, C, Maker[o])})

\* What is no longer final, or spends a coinbase that is gone.  A coinbase that is
\* not mature is a reason only if it is time-locked as well, and none is: by default
\* ASSETCHAINS_TIMELOCKGTE is the largest amount there is.
removeForReorg(P, C, height) ==
    removeEach(P, {t \in P.txs :
        \/ Earliest[t] > height
        \/ t \in P.spendsCoinbase /\ \E o \in Inputs(t) : Maker[o] # None /\ ~HaveCoins(P, C, Maker[o])})

-----------------------------------------------------------------------------
(* AcceptToMemoryPool. *)

Immature(t, height) == \E o \in Inputs(t) :
    \E b \in AllBlocks : /\ Maker[o] \in Coinbases \cap Range(Vtx[b])
                         /\ height - Height[b] < Maturity

\* Refused whatever the inputs are: chainHeight is the height of chainActive.
\* mutant: a conflict with the pool is no reason
Refused_NotConflict(P, C, chainHeight, t) ==
    \/ t \in Coinbases \cup NonStandard
    \/ Earliest[t] > chainHeight + 1 \/ chainHeight + 1 > Latest[t]
    \/ HaveCoins(P, C, t)

Refused(P, C, chainHeight, t) ==
    \/ t \in Coinbases \cup NonStandard
    \/ Earliest[t] > chainHeight + 1 \/ chainHeight + 1 > Latest[t]
    \/ \E o \in Inputs(t) : P.next[o] # None
    \/ HaveCoins(P, C, t)

\* Some input comes from a transaction that is not known, or has no output left
MissingInputs(P, C, t) == \E o \in Inputs(t) : Maker[o] # None /\ ~HaveCoins(P, C, Maker[o])

\* The inputs and the anchor, by the coins and the best block of pcoinsTip
Invalid(P, C, best, t) ==
    \/ \E o \in Inputs(t) : o \notin C /\ Maker[o] \notin P.txs
    \/ Anchor[t] \notin Roots(best) \cup {None}
    \/ Immature(t, Height[best] + 1)

Verdict(P, C, best, chainHeight, t) ==
    CASE Refused(P, C, chainHeight, t) -> "no"
      [] ~Refused(P, C, chainHeight, t) /\ MissingInputs(P, C, t) -> "missing"
      [] OTHER -> IF Invalid(P, C, best, t) THEN "no" ELSE "ok"

Accept(P, t) == addUnchecked(P, t, \E o \in Inputs(t) : Maker[o] \in Coinbases)

AcceptToMemoryPool(P, C, best, chainHeight, t) ==
    IF Verdict(P, C, best, chainHeight, t) = "ok" THEN Accept(P, t) ELSE P

\* sendrawtransaction
SendRawTransaction(t) ==
    /\ moving = "no"
    /\ pool' = AcceptToMemoryPool(pool, coins, tip, Height[tip], t)
    /\ UNCHANGED <<tip, coins, moving, unswept, tmp, orphans, byPrev, rejects, rejectsTip>>

-----------------------------------------------------------------------------
(* The tx message, and orphans. *)

Parents(t) == {Maker[o] : o \in Inputs(t)} \ {None}

\* mutant: only the first parent forgets the orphan
EraseOrphans_OneParent(O, B, s) ==
    /\ orphans' = [t \in Txs |-> IF t \in s THEN None ELSE O[t]]
    /\ byPrev' = [p \in Txs |-> B[p] \ {t \in s : O[t] # None /\ p = Maker[Head(Ins[t])]}]

\* EraseOrphanTx, for each of s
EraseOrphans(O, B, s) ==
    /\ orphans' = [t \in Txs |-> IF t \in s THEN None ELSE O[t]]
    /\ byPrev' = [p \in Txs |-> B[p] \ {t \in s : O[t] # None /\ p \in Parents(t)}]

\* What comes of the orphans that wait for t and, in turn, for those that t frees: w has
\* the pool, the orphans to erase, the rejects, and the accepted ones still to visit.
\* An orphan is erased only at the end, so one with two parents may be met again.
FreeOrphan(w, o) ==
    LET verdict == Verdict(w.pool, coins, tip, Height[tip], o) IN
    CASE verdict = "ok"      -> [w EXCEPT !.pool = Accept(@, o), !.erase = @ \cup {o}, !.work = Append(@, o)]
      [] verdict = "no"      -> [w EXCEPT !.erase = @ \cup {o}, !.rejects = @ \cup {o}]
      [] verdict = "missing" -> w

FreeEach(w, s) == FoldLeft(FreeOrphan, w, SetToSeq(s))

\* one turn of the loop over vWorkQueue
FreeRound(w) ==
    IF w.work = << >> THEN w
    ELSE FreeEach([w EXCEPT !.work = Tail(@)], byPrev[Head(w.work)])

\* the loop: a transaction is accepted, and so visited, at most once
FreeOrphans(w) == FoldLeft(LAMBDA v, i : FreeRound(v), w, [i \in 1..Cardinality(Txs) |-> i])

\* the filter, which AlreadyHave empties when the tip has changed
Rejects == IF rejectsTip = tip THEN rejects ELSE {}

AlreadyHave(t) == t \in Rejects \/ t \in pool.txs \/ orphans[t] # None \/ Made({t}) \cap coins # {}

TxAccepted(t) ==
    LET w == FreeOrphans([pool |-> Accept(pool, t), erase |-> {}, rejects |-> Rejects, work |-> <<t>>])
    IN /\ pool' = w.pool
       /\ rejects' = w.rejects
       /\ EraseOrphans(orphans, byPrev, w.erase)

\* AddOrphanTx, and LimitOrphanTxSize, which evicts at random
TxOrphan(p, t) ==
    LET O == [orphans EXCEPT ![t] = p]
        B == [q \in Txs |-> IF q \in Parents(t) THEN byPrev[q] \cup {t} ELSE byPrev[q]]
        held == {u \in Txs : O[u] # None}
    IN /\ \E out \in SUBSET held :
            /\ Cardinality(out) = IF Cardinality(held) > MaxOrphans THEN Cardinality(held) - MaxOrphans ELSE 0
            /\ EraseOrphans(O, B, out)
       /\ rejects' = Rejects
       /\ UNCHANGED pool

\* The whole handler: the transaction is accepted, kept as an orphan, or rejected.
Tx(p, t) ==
    LET verdict == IF AlreadyHave(t) THEN "no" ELSE Verdict(pool, coins, tip, Height[tip], t) IN
    /\ moving = "no"
    /\ \/ verdict = "ok" /\ TxAccepted(t)
       \/ verdict = "missing" /\ t \notin Shielded /\ TxOrphan(p, t)
       \/ /\ verdict = "no" \/ (verdict = "missing" /\ t \in Shielded)
          /\ rejects' = Rejects \cup {t}
          /\ UNCHANGED <<pool, orphans, byPrev>>
    /\ rejectsTip' = tip
    /\ UNCHANGED <<tip, coins, moving, unswept, tmp>>

\* EraseOrphansFor: the peer is gone
FinalizeNode(p) ==
    /\ moving = "no"
    /\ EraseOrphans(orphans, byPrev, {t \in Txs : orphans[t] = p})
    /\ UNCHANGED <<tip, coins, moving, unswept, pool, tmp, rejects, rejectsTip>>

-----------------------------------------------------------------------------
(* The chain moves. *)

\* CheckBlock on a chain with contracts: the pool steps aside for the transactions of
\* the block, and comes back if the block passes.
SteppedAside(b) ==
    LET plain == pool.txs \ Shielded
        skip  == Coinbases \cup Shielded
    IN [pool |-> AddEach(RemoveAll(pool, plain), Vtx[b], skip, {}),
        tmp  |-> RemoveAll(AddEach(tmp, SetToSeq(plain), {}, pool.spendsCoinbase), Range(Vtx[b]) \ skip)]

CheckBlock(b) ==
    IF ~CC THEN [pool |-> pool, tmp |-> tmp]
    ELSE LET aside == SteppedAside(b) IN
         IF b \in FailsCheck THEN aside
         ELSE [pool |-> AddEach(aside.pool, SetToSeq(aside.tmp.txs), {}, aside.tmp.spendsCoinbase),
               tmp  |-> EmptyPool]

\* ConnectBlock: no transaction overwrites one with unspent outputs, and each, in turn,
\* spends what is there and is mature.  What else it checks is in FailsConnect.
Connectable(b) ==
    /\ b \notin FailsCheck \cup FailsConnect
    /\ Made(Range(Vtx[b])) \cap coins = {}
    /\ \A i \in DOMAIN Vtx[b] :
           LET before == {Vtx[b][j] : j \in 1..(i - 1)} IN
           /\ Inputs(Vtx[b][i]) \subseteq (coins \cup Made(before)) \ Spent(before)
           /\ ~Immature(Vtx[b][i], Height[b])

\* The block joins the chain, or is refused.  A failure that blames no rule ends the
\* step at once, without removeForReorg, even after blocks were disconnected.
ConnectTip(b) ==
    LET checked == CheckBlock(b) IN
    /\ Parent[b] = tip
    /\ tmp' = checked.tmp
    /\ \/ /\ Connectable(b)
          /\ coins' = (coins \cup Made(Range(Vtx[b]))) \ Spent(Range(Vtx[b]))
          /\ pool' = removeExpired(removeForBlock(checked.pool, Vtx[b]), Height[b])
          /\ tip' = b
          /\ moving' = IF moving = "no" THEN "no" ELSE "up"
          /\ UNCHANGED unswept
       \/ /\ ~Connectable(b)
          /\ pool' = checked.pool
          /\ moving' = IF b \in Unblamed THEN "no" ELSE moving
          /\ unswept' = IF b \in Unblamed /\ moving # "no" THEN TRUE ELSE unswept
          /\ UNCHANGED <<coins, tip>>
    /\ UNCHANGED <<orphans, byPrev, rejects, rejectsTip>>

\* A transaction of the disconnected block is taken back, or else its descendants go.
\* AcceptToMemoryPool sees the coins without the block, but the height with it.
Resurrect(P, C, t) ==
    IF Verdict(P, C, Parent[tip], Height[tip], t) = "ok" THEN Accept(P, t) ELSE remove(P, t)

ResurrectEach(P, C, vtx) == FoldLeft(LAMBDA Q, t : Resurrect(Q, C, t), P, vtx)

\* mutant: the anchor counts as gone with every block
AnchorGone_Always(P, b) == removeWithAnchor(P, Root[b])

\* The anchor of b is gone, unless the block below has the same.
AnchorGone(P, b) == IF Root[b] # Root[Parent[b]] THEN removeWithAnchor(P, Root[b]) ELSE P

DisconnectTip ==
    /\ tip # Genesis /\ moving # "up"
    /\ LET block == Range(Vtx[tip])
           C == (coins \ Made(block)) \cup (Spent(block) \ Made(block))
       IN /\ coins' = C
          /\ pool' = AnchorGone(ResurrectEach(pool, C, Vtx[tip]), tip)
    /\ tip' = Parent[tip]
    /\ moving' = "down"
    /\ UNCHANGED <<unswept, tmp, orphans, byPrev, rejects, rejectsTip>>

\* DisconnectTip fails after other blocks were disconnected, because the next one is
\* notarised or cannot be read: ActivateBestChainStep returns without removeForReorg.
DisconnectRefused ==
    /\ moving = "down"
    /\ moving' = "no" /\ unswept' = TRUE
    /\ UNCHANGED <<tip, coins, pool, tmp, orphans, byPrev, rejects, rejectsTip>>

\* The end of ActivateBestChainStep, or of InvalidateBlock, which runs removeForReorg
\* even if it disconnected nothing.
EndStep ==
    /\ pool' = removeForReorg(pool, coins, Height[tip] + 1)
    /\ moving' = "no" /\ unswept' = FALSE
    /\ UNCHANGED <<tip, coins, tmp, orphans, byPrev, rejects, rejectsTip>>

Next ==
    \/ \E t \in Submitted : SendRawTransaction(t)
    \/ \E p \in Peers, t \in Relayed : Tx(p, t)
    \/ \E p \in Peers : FinalizeNode(p)
    \/ \E b \in Blocks : ConnectTip(b)
    \/ DisconnectTip \/ DisconnectRefused \/ EndStep

Spec == Init /\ [][Next]_vars

-----------------------------------------------------------------------------
(* Properties. *)

\* Every input of a transaction of the pool is marked as spent by it, and every mark
\* is one of those: no two conflict, and removal, which finds conflicts and descendants
\* by the marks alone, misses none.
PoolAgrees ==
    \A o \in Outs : {t \in pool.txs : o \in Inputs(t)} = {pool.next[o]} \ {None}

\* Whenever the chain is at rest, "every mempool transaction's inputs refer to
\* available coins, or other mempool tx's", no nullifier of the pool is spent, and
\* every anchor is one of the chain's.
InputsAvailable ==
    moving = "no" => \A t \in pool.txs :
        /\ \A o \in Inputs(t) : o \in coins \/ Maker[o] \in pool.txs
        /\ Anchor[t] \in Roots(tip) \cup {None}

\* Whenever the chain is at rest, the pool holds no transaction that expired below the
\* tip, and none that is not final, except after a reorganisation that ended early: what
\* that one left is there until removeForReorg runs again, and not longer.
InTime ==
    moving = "no" => \A t \in pool.txs : /\ Height[tip] <= Latest[t]
                                       /\ ~unswept => Earliest[t] <= Height[tip] + 1

\* The index of orphans by parent is exact, and their number bounded.
OrphansAgree ==
    /\ \A p \in Txs : byPrev[p] = {t \in Txs : orphans[t] # None /\ p \in Parents(t)}
    /\ Cardinality({t \in Txs : orphans[t] # None}) <= MaxOrphans

\* No transaction is lost, whatever the chain does: one that is in the pool or mined
\* leaves both only if policy keeps it out, if it is too early or too late at the tip
\* before or after, or if an input or its anchor is gone.
Held == pool.txs \cup UNION {Range(Vtx[b]) : b \in Chain[tip]}
LosesNothing ==
    \A t \in Held \ Held' :
       \/ t \in Coinbases \cup NonStandard
       \/ Earliest[t] > Height[tip'] + 1 \/ Height[tip] >= Latest[t] \/ Height[tip'] > Latest[t]
       \/ \E o \in Inputs(t) : o \notin coins' /\ Maker[o] \notin pool'.txs
       \/ Anchor[t] \notin Roots(tip') \cup {None}
NothingLost == [][LosesNothing]_vars

\* No transaction of the pool spends a coinbase that is not mature for the next block.
MatureSpends == moving = "no" => \A t \in pool.txs : ~Immature(t, Height[tip] + 1)
=============================================================================
