----------------------------- MODULE ChainState -----------------------------
(***************************************************************************)
(* The block tree and the activation of the best chain of a node           *)
(* (main.cpp), with the delayed-proof-of-work finality of komodo.cpp and   *)
(* komodo_notary.cpp.                                                      *)
(*                                                                         *)
(* A block is a member of Blocks; its place in the tree and its work are   *)
(* fixed by its header, so they are constants.  What the node learns of    *)
(* it is state: whether it is in mapBlockIndex, its nStatus bits, its      *)
(* nSequenceId, and its membership of setBlockIndexCandidates and          *)
(* mapBlocksUnlinked.  chainActive is given by its tip.                    *)
(*                                                                         *)
(* Threads: a block thread runs ProcessNewBlock, an rpc thread runs        *)
(* invalidateblock or reconsiderblock; both then run ActivateBestChain,    *)
(* which holds cs_main for one ActivateBestChainStep at a time.  csMain is *)
(* the work its holder is in the middle of, or NoJob: each DisconnectTip   *)
(* and ConnectTip is one step, every other critical section is atomic.     *)
(***************************************************************************)
EXTENDS Checkpoints, FiniteSetsExt

CONSTANTS
    Blocks,                 \* the blocks that exist
    Genesis,
    NoBlock,                \* a null CBlockIndex pointer or a null hash
    pprev,                  \* the parent of a block
    nHeight,
    nChainWork,
    Chain,                  \* the blocks from genesis to a block, inclusive
    BadContext,             \* blocks that fail ContextualCheckBlock
    BadConnect,             \* blocks that ConnectBlock finds invalid
    FutureBlocks,           \* blocks stamped more than a minute ahead
    Notarises,              \* the block that a block's notarisation names
    MAX_REORG_LENGTH,
    BLOCK_DOWNLOAD_WINDOW,
    ASSETCHAINS_CC,         \* whether the chain has -ac_cc
    BlockThreads,           \* threads that call ProcessNewBlock
    RpcThreads,             \* threads that serve the operator's calls
    NoJob,
    MaxOperatorCalls        \* bound on the operator's calls

VARIABLES
    mapBlockIndex,          \* the blocks whose header is known
    nValid,                 \* nStatus & BLOCK_VALID_MASK
    haveData,               \* blocks with BLOCK_HAVE_DATA (and nTx > 0)
    failedValid,            \* blocks with BLOCK_FAILED_VALID
    failedChild,            \* blocks with BLOCK_FAILED_CHILD
    nSequenceId,            \* 0 until nChainTx is set
    nBlockSequenceId,
    setBlockIndexCandidates,
    mapBlocksUnlinked,      \* the second members of its pairs
    tip,                    \* chainActive.Tip()
    NPOINTS,                \* komodo_state: the notarised checkpoints
    NPOINTS_last_index,
    last,                   \* komodo_state: the last notarised block
    act,                    \* where each thread is in ActivateBestChain
    csMain,
    future,                 \* the blocks that are still from the future
    shutdown,               \* StartShutdown was called
    operatorCalls

index     == <<mapBlockIndex, nValid, haveData, nSequenceId, nBlockSequenceId>>
failures  == <<failedValid, failedChild>>
notary    == <<NPOINTS, NPOINTS_last_index, last>>
vars == <<index, failures, setBlockIndexCandidates, mapBlocksUnlinked, tip,
          notary, act, csMain, future, shutdown, operatorCalls>>

Threads == BlockThreads \cup RpcThreads

ASSUME TreeAssumption ==
    /\ IsFiniteSet(Blocks) /\ Genesis \in Blocks /\ NoBlock \notin Blocks
    /\ pprev \in [Blocks -> Blocks \cup {NoBlock}]
    /\ \A b \in Blocks : pprev[b] = NoBlock <=> b = Genesis
    /\ nHeight \in [Blocks -> Nat] /\ nChainWork \in [Blocks -> Nat]
    /\ nHeight[Genesis] = 0
    /\ \A b \in Blocks \ {Genesis} : /\ nHeight[b] = nHeight[pprev[b]] + 1
                                     /\ nChainWork[b] > nChainWork[pprev[b]]

ASSUME ChainAssumption ==
    /\ Chain \in [Blocks -> SUBSET Blocks]
    /\ Chain[Genesis] = {Genesis}
    /\ \A b \in Blocks \ {Genesis} : Chain[b] = {b} \cup Chain[pprev[b]]
    /\ \A b \in Blocks : Genesis \in Chain[b]
    /\ \A b \in Blocks : \A x \in Chain[b] : /\ Chain[x] \subseteq Chain[b]
                                             /\ nHeight[x] <= nHeight[b]
    /\ \A b \in Blocks : \A x, y \in Chain[b] :
           nHeight[x] <= nHeight[y] => x \in Chain[y]

ASSUME InputAssumption ==
    /\ BadContext \subseteq Blocks \ {Genesis}
    /\ BadConnect \subseteq Blocks \ {Genesis}
    /\ FutureBlocks \subseteq Blocks \ {Genesis}
    /\ Notarises \in [Blocks -> Blocks \cup {NoBlock}]
    /\ MAX_REORG_LENGTH \in Nat \ {0} /\ BLOCK_DOWNLOAD_WINDOW \in Nat
    /\ ASSETCHAINS_CC \in BOOLEAN
    /\ BlockThreads \cap RpcThreads = {}
    /\ MaxOperatorCalls \in Nat

-----------------------------------------------------------------------------
(* BlockStatus (chain.h) and the order of the candidates.                  *)

BLOCK_VALID_TREE         == 2
BLOCK_VALID_TRANSACTIONS == 3
BLOCK_VALID_SCRIPTS      == 5
BLOCK_VALID_CONTEXT      == 6

\* the validity bits after nStatus |= BLOCK_VALID_CONTEXT
OrContext(v) == IF v % 2 = 0 THEN BLOCK_VALID_CONTEXT ELSE 7

failed == failedValid \cup failedChild

\* CBlockIndex::RaiseValidity: nothing happens to a block marked failed
RaiseValidity(v, up, isFailed) == IF v < up /\ ~isFailed THEN up ELSE v

\* nChainTx != 0: it is set in the step that assigns the sequence id
Linked(b) == nSequenceId[b] # 0

\* CBlockIndex::IsValid, for blocks of the index
IsValid(b, up) == b \notin failed /\ nValid[b] >= up

\* CBlockIndexWorkComparator: x sorts strictly after y (is the better one)
BetterBy(seq, x, y) ==
    \/ nChainWork[x] > nChainWork[y]
    \/ nChainWork[x] = nChainWork[y] /\ seq[x] < seq[y]

Better(x, y) == BetterBy(nSequenceId, x, y)

\* chainActive.FindFork
FindFork(b) == CHOOSE x \in Chain[b] \cap Chain[tip] :
                  \A y \in Chain[b] \cap Chain[tip] : nHeight[y] <= nHeight[x]

\* komodo_notarized_height: 0 until a notarisation has been seen
NotarizedHeight == IF last = NoBlock THEN 0 ELSE nHeight[last]

-----------------------------------------------------------------------------
(* Headers: AcceptBlockHeader.                                             *)

\* what komodo_checkpoint looks up, for the current tip
Checkpoint == NotarizedData(NPOINTS, NPOINTS_last_index, nHeight[tip], NoBlock)

\* komodo_checkpoint: a new header may not be below the notarised height, or
\* beside the notarised block; the notarised block is always in the index
komodo_checkpoint(b) ==
    LET np == Checkpoint
    IN  np # NoBlock /\ nHeight[np.block] <= nHeight[tip] =>
            nHeight[b] > nHeight[np.block] \/ b = np.block

\* AcceptBlockHeader on an unknown header, up to the look-up of the checkpoint
HeaderReachesCheckpoint(b) ==
    /\ b \notin mapBlockIndex
    /\ pprev[b] \in mapBlockIndex \ failed
    /\ ~(nHeight[b] = 1 /\ nHeight[tip] > 1)

\* the look-up moves the cached index of NPOINTS, whatever it finds
TouchCheckpoints == NPOINTS_last_index' =
                        LastIndexAfter(NPOINTS, NPOINTS_last_index, nHeight[tip])

\* AcceptBlockHeader returns true for an unknown header: AddToBlockIndex
AddHeader(b) ==
    /\ HeaderReachesCheckpoint(b) /\ komodo_checkpoint(b)
    /\ TouchCheckpoints
    /\ mapBlockIndex' = mapBlockIndex \cup {b}
    /\ UNCHANGED failures

\* AcceptBlockHeader returns true for a known header: a failed block is
\* refused, but a chain with ASSETCHAINS_CC clears the failure of that block
KnownHeader(b) ==
    /\ b \in mapBlockIndex
    /\ b \in failed => ASSETCHAINS_CC
    /\ failedValid' = failedValid \ {b}
    /\ failedChild' = failedChild \ {b}
    /\ UNCHANGED <<mapBlockIndex, NPOINTS_last_index>>

\* AcceptBlockHeader refuses a known failed header, but hands its index entry
\* out: AcceptBlock goes on with it when the block is from the future
FutureHeader(b) ==
    /\ b \in mapBlockIndex \cap failed \cap future /\ ~ASSETCHAINS_CC
    /\ UNCHANGED <<mapBlockIndex, failures, NPOINTS_last_index>>

\* AcceptBlockHeader refuses the header because of the notarised checkpoint
RefuseHeader(b) ==
    /\ csMain = NoJob
    /\ HeaderReachesCheckpoint(b) /\ ~komodo_checkpoint(b)
    /\ TouchCheckpoints
    /\ UNCHANGED <<index, failures, setBlockIndexCandidates, mapBlocksUnlinked,
                   tip, NPOINTS, last, act, csMain, future, shutdown,
                   operatorCalls>>

\* a header of a "headers" message
NewHeader(b) ==
    /\ csMain = NoJob
    /\ \/ AddHeader(b) /\ nValid' = [nValid EXCEPT ![b] = BLOCK_VALID_TREE]
       \/ KnownHeader(b) /\ UNCHANGED nValid
    /\ UNCHANGED <<haveData, nSequenceId, nBlockSequenceId,
                   setBlockIndexCandidates, mapBlocksUnlinked, tip, NPOINTS,
                   last, act, csMain, future, shutdown, operatorCalls>>

-----------------------------------------------------------------------------
(* Blocks: ProcessNewBlock and AcceptBlock.                                *)

\* AcceptBlock returns true without storing the block: it is a duplicate, or
\* it was not asked for and has no more work than the tip or is too far ahead
SkipsBlock(b, fRequested) ==
    \/ b \in haveData
    \/ /\ ~fRequested
       /\ \/ nChainWork[b] <= nChainWork[tip]
          \/ nHeight[b] > nHeight[tip] + BLOCK_DOWNLOAD_WINDOW

\* mutant: the waiting descendants are not looked at
NewlyLinkedAlone(b) == {b}

\* the blocks that ReceivedBlockTransactions links when b's data completes
\* their chain: b and the waiting descendants that it reaches
NewlyLinked(b) ==
    {x \in {b} \cup mapBlocksUnlinked :
        b \in Chain[x] /\ Chain[x] \ Chain[b] \subseteq mapBlocksUnlinked}

\* the sequence ids the breadth-first walk may give them: level by level, in
\* any order within a level
LinkOrders(S) ==
    LET Level(x) == {y \in S : nHeight[y] = nHeight[x]}
        ties == {tie \in [S -> 1..Max({Cardinality(Level(x)) : x \in S})] :
                    \A x \in S : \A y \in Level(x) \ {x} : tie[x] # tie[y]}
        Before(tie, x) == {y \in S : \/ nHeight[y] < nHeight[x]
                                     \/ y \in Level(x) /\ tie[y] < tie[x]}
    IN  {[x \in S |-> nBlockSequenceId + Cardinality(Before(tie, x))] :
            tie \in ties}

\* mutant: only the received block becomes a candidate
LinkBlocksFirstOnly(b) ==
    LET S == NewlyLinked(b)
    IN  \E order \in LinkOrders(S) :
            LET seq == [x \in Blocks |-> IF x \in S THEN order[x]
                                                    ELSE nSequenceId[x]]
            IN  /\ nSequenceId' = seq
                /\ nBlockSequenceId' = nBlockSequenceId + Cardinality(S)
                /\ setBlockIndexCandidates' = setBlockIndexCandidates \cup
                       {x \in {b} : ~BetterBy(seq, tip, x)}
                /\ mapBlocksUnlinked' = mapBlocksUnlinked \ S

\* mutant: the linked blocks stay in mapBlocksUnlinked
LinkBlocksKeepsWaiting(b) ==
    LET S == NewlyLinked(b)
    IN  \E order \in LinkOrders(S) :
            LET seq == [x \in Blocks |-> IF x \in S THEN order[x]
                                                    ELSE nSequenceId[x]]
            IN  /\ nSequenceId' = seq
                /\ nBlockSequenceId' = nBlockSequenceId + Cardinality(S)
                /\ setBlockIndexCandidates' = setBlockIndexCandidates \cup
                       {x \in S : ~BetterBy(seq, tip, x)}
                /\ UNCHANGED mapBlocksUnlinked

\* ReceivedBlockTransactions: b's data completes its chain
LinkBlocks(b) ==
    LET S == NewlyLinked(b)
    IN  \E order \in LinkOrders(S) :
            LET seq == [x \in Blocks |-> IF x \in S THEN order[x]
                                                    ELSE nSequenceId[x]]
            IN  /\ nSequenceId' = seq
                /\ nBlockSequenceId' = nBlockSequenceId + Cardinality(S)
                /\ setBlockIndexCandidates' = setBlockIndexCandidates \cup
                       {x \in S : ~BetterBy(seq, tip, x)}
                /\ mapBlocksUnlinked' = mapBlocksUnlinked \ S

\* ReceivedBlockTransactions: some ancestor's data is missing; the block is
\* remembered unless its parent is marked failed
AwaitParent(b) ==
    /\ mapBlocksUnlinked' = IF pprev[b] \in failed THEN mapBlocksUnlinked
                            ELSE mapBlocksUnlinked \cup {b}
    /\ UNCHANGED <<nSequenceId, nBlockSequenceId, setBlockIndexCandidates>>

\* mutant: the parent's data is enough, its chain is not asked for
StoreBlockParentData(b) ==
    /\ haveData' = haveData \cup {b}
    /\ nValid' = [nValid EXCEPT ![b] = BLOCK_VALID_CONTEXT]
    /\ IF pprev[b] \in haveData THEN LinkBlocks(b) ELSE AwaitParent(b)

\* AcceptBlock stores the block; a block from the future is stored even if it
\* fails ContextualCheckBlock, without BLOCK_VALID_CONTEXT
StoreBlock(b) ==
    /\ haveData' = haveData \cup {b}
    /\ nValid' = [nValid EXCEPT ![b] =
                     RaiseValidity(IF b \in BadContext THEN BLOCK_VALID_TREE
                                   ELSE OrContext(BLOCK_VALID_TREE),
                                   BLOCK_VALID_TRANSACTIONS, b \in failed')]
    /\ IF Linked(pprev[b]) THEN LinkBlocks(b) ELSE AwaitParent(b)

\* the rest of ProcessNewBlock: ActivateBestChain, unless from the future
ThenActivate(t, b) ==
    act' = [act EXCEPT ![t] = IF b \in future THEN @ ELSE "active"]

\* ProcessNewBlock returns after AcceptBlock did not store the block
SkipBlock(t, b) ==
    /\ csMain = NoJob /\ act[t] # "active"
    /\ AddHeader(b) \/ KnownHeader(b)
    /\ \E fRequested \in BOOLEAN : SkipsBlock(b, fRequested)
    /\ nValid' = [nValid EXCEPT ![b] = RaiseValidity(@, BLOCK_VALID_TREE, FALSE)]
    /\ ThenActivate(t, b)
    /\ UNCHANGED <<haveData, nSequenceId, nBlockSequenceId,
                   setBlockIndexCandidates, mapBlocksUnlinked, tip, NPOINTS,
                   last, csMain, future, shutdown, operatorCalls>>

\* AcceptBlock finds the block invalid: marked, not stored, no activation
RejectBlock(t, b) ==
    /\ csMain = NoJob /\ act[t] # "active"
    /\ b \in BadContext \ future
    /\ \/ /\ HeaderReachesCheckpoint(b) /\ komodo_checkpoint(b)
          /\ TouchCheckpoints
       \/ /\ b \in mapBlockIndex \ haveData
          /\ b \in failed => ASSETCHAINS_CC
          /\ UNCHANGED NPOINTS_last_index
    /\ mapBlockIndex' = mapBlockIndex \cup {b}
    /\ nValid' = [nValid EXCEPT ![b] = RaiseValidity(@, BLOCK_VALID_TREE, FALSE)]
    /\ failedValid' = failedValid \cup {b}
    /\ failedChild' = failedChild \ {b}
    /\ UNCHANGED <<haveData, nSequenceId, nBlockSequenceId,
                   setBlockIndexCandidates, mapBlocksUnlinked, tip, NPOINTS,
                   last, act, csMain, future, shutdown, operatorCalls>>

\* AcceptBlock stores the block and ProcessNewBlock activates the best chain
AcceptBlock(t, b) ==
    /\ csMain = NoJob /\ act[t] # "active"
    /\ b \in BadContext => b \in future
    /\ AddHeader(b) \/ KnownHeader(b) \/ FutureHeader(b)
    /\ \E fRequested \in BOOLEAN : ~SkipsBlock(b, fRequested)
    /\ StoreBlock(b)
    /\ ThenActivate(t, b)
    /\ UNCHANGED <<tip, NPOINTS, last, csMain, future, shutdown, operatorCalls>>

\* the clock reaches a block's timestamp
TimePasses(b) ==
    /\ b \in future
    /\ future' = future \ {b}
    /\ UNCHANGED <<index, failures, setBlockIndexCandidates, mapBlocksUnlinked,
                   tip, notary, act, csMain, shutdown, operatorCalls>>

-----------------------------------------------------------------------------
(* ActivateBestChain: one ActivateBestChainStep per hold of cs_main.       *)

\* the blocks of b's chain that are not on the active chain
PathFromActive(b) == Chain[b] \ Chain[tip]

UsableCandidates ==
    {c \in setBlockIndexCandidates : PathFromActive(c) \cap failed = {}}

\* FindMostWorkChain returns the best candidate with no failed block on its
\* path, or null
FindMostWorkChain(most) ==
    \/ most = NoBlock /\ UsableCandidates = {}
    \/ /\ most \in UsableCandidates
       /\ \A c \in UsableCandidates \ {most} : Better(most, c)

\* the candidates that it looks at and drops on the way
DroppedCandidates(most) ==
    {c \in setBlockIndexCandidates \ UsableCandidates :
        most = NoBlock \/ Better(c, most)}

\* the blocks from the highest failed block of a dropped candidate's path up
FailedPath(c) ==
    {x \in PathFromActive(c) :
        \A f \in PathFromActive(c) \cap failed : nHeight[f] <= nHeight[x]}

PurgedBlocks(most) == UNION {FailedPath(c) : c \in DroppedCandidates(most)}

\* FindMostWorkChain's marks: the rest of a failed path descends from a failure
MarkFailedPaths(most) ==
    failedChild' = failedChild \cup (PurgedBlocks(most) \ failed)

PurgedCandidates(most) == setBlockIndexCandidates \ PurgedBlocks(most)

\* mutant: a fork one block below the notarised one is let through
ForksBelowNotarisedByTwo(t, most) ==
    /\ t \notin RpcThreads
    /\ nHeight[tip] > NotarizedHeight
    /\ nHeight[FindFork(most)] + 1 < NotarizedHeight

\* ActivateBestChainStep's refusal of a reorganisation below the notarised
\* height; the operator's calls skip it
ForksBelowNotarised(t, most) ==
    /\ t \notin RpcThreads
    /\ nHeight[tip] > NotarizedHeight
    /\ nHeight[FindFork(most)] < NotarizedHeight

TooLongReorg(most) == nHeight[tip] - nHeight[FindFork(most)] > MAX_REORG_LENGTH

\* InvalidateBlock's last loop: every valid linked block that is not worse
\* than the tip becomes a candidate again
Readmitted(bad, newTip) ==
    {x \in mapBlockIndex : /\ x \notin bad
                           /\ nValid[x] >= BLOCK_VALID_TRANSACTIONS
                           /\ Linked(x)
                           /\ ~Better(newTip, x)}

\* ActivateBestChain takes cs_main for another step
Activating(t) == csMain = NoJob /\ act[t] = "active"

\* the loop ends at once when the node is shutting down
StopActivating(t) ==
    /\ Activating(t) /\ shutdown
    /\ act' = [act EXCEPT ![t] = "idle"]
    /\ UNCHANGED <<index, failures, setBlockIndexCandidates, mapBlocksUnlinked,
                   tip, notary, csMain, future, shutdown, operatorCalls>>

\* there is nothing better than the tip
NothingToActivate(t) ==
    \E most \in {NoBlock, tip} :
        /\ Activating(t) /\ ~shutdown
        /\ FindMostWorkChain(most)
        /\ MarkFailedPaths(most)
        /\ setBlockIndexCandidates' = PurgedCandidates(most)
        /\ act' = [act EXCEPT ![t] = "idle"]
        /\ UNCHANGED <<index, failedValid, mapBlocksUnlinked, tip, notary,
                       csMain, future, shutdown, operatorCalls>>

\* ActivateBestChainStep is called to make `most' the tip
BetterChain(t, most) ==
    /\ Activating(t) /\ ~shutdown
    /\ most # tip
    /\ FindMostWorkChain(most)
    /\ MarkFailedPaths(most)

\* the best chain forks off below the notarised height: its tip is marked
\* invalid by InvalidateBlock, and ActivateBestChain returns false
RefuseReorg(t) ==
    \E most \in setBlockIndexCandidates :
        /\ BetterChain(t, most)
        /\ ForksBelowNotarised(t, most)
        /\ failedValid' = failedValid \cup {most}
        /\ setBlockIndexCandidates' = (PurgedCandidates(most) \ {most}) \cup
               Readmitted(failed \cup PurgedBlocks(most) \cup {most}, tip)
        /\ act' = [act EXCEPT ![t] = "failed"]
        /\ UNCHANGED <<index, mapBlocksUnlinked, tip, notary, csMain, future,
                       shutdown, operatorCalls>>

\* the reorganisation is longer than the node allows: it shuts down
ShutDown(t) ==
    \E most \in setBlockIndexCandidates :
        /\ BetterChain(t, most)
        /\ ~ForksBelowNotarised(t, most) /\ TooLongReorg(most)
        /\ setBlockIndexCandidates' = PurgedCandidates(most)
        /\ shutdown' = TRUE
        /\ act' = [act EXCEPT ![t] = "failed"]
        /\ UNCHANGED <<index, failedValid, mapBlocksUnlinked, tip, notary,
                       csMain, future, operatorCalls>>

\* ActivateBestChainStep starts towards the best chain and keeps cs_main
BeginStep(t) ==
    \E most \in setBlockIndexCandidates :
        /\ BetterChain(t, most)
        /\ ~ForksBelowNotarised(t, most) /\ ~TooLongReorg(most)
        /\ setBlockIndexCandidates' = PurgedCandidates(most)
        /\ csMain' = [op |-> "step", thread |-> t, block |-> most, old |-> tip]
        /\ UNCHANGED <<index, failedValid, mapBlocksUnlinked, tip, notary, act,
                       future, shutdown, operatorCalls>>

Stepping(t) == csMain # NoJob /\ csMain.op = "step" /\ csMain.thread = t

\* ActivateBestChain returns: cs_main is released
Return(t, result) ==
    /\ csMain' = NoJob
    /\ act' = [act EXCEPT ![t] = result]

\* mutant: the notarised block is not looked at
DisconnectAlways == TRUE

\* DisconnectTip never disconnects the last notarised block
DisconnectAllowed == tip # last

\* DisconnectTip, while the tip is not an ancestor of the chain aimed at
StepDisconnect(t) ==
    /\ Stepping(t) /\ tip \notin Chain[csMain.block]
    /\ DisconnectAllowed
    /\ tip' = pprev[tip]
    /\ UNCHANGED <<index, failures, setBlockIndexCandidates, mapBlocksUnlinked,
                   notary, act, csMain, future, shutdown, operatorCalls>>

\* DisconnectTip refuses: the step and ActivateBestChain return false
StepRefused(t) ==
    /\ Stepping(t) /\ tip \notin Chain[csMain.block]
    /\ ~DisconnectAllowed
    /\ Return(t, "failed")
    /\ UNCHANGED <<index, failures, setBlockIndexCandidates, mapBlocksUnlinked,
                   tip, notary, future, shutdown, operatorCalls>>

\* x is the block that ActivateBestChainStep connects next
ConnectsNext(t, x) ==
    /\ Stepping(t) /\ tip \in Chain[csMain.block]
    /\ x \in Chain[csMain.block] /\ pprev[x] = tip

\* mutant: ContextualCheckBlock is not repeated
BreaksRuleOnConnect(x) == x \in BadConnect

\* ConnectBlock finds that the block breaks a rule; one stored without
\* BLOCK_VALID_CONTEXT goes through ContextualCheckBlock first
BreaksRule(x) == \/ x \in BadConnect
                 \/ nValid[x] # BLOCK_VALID_CONTEXT /\ x \in BadContext

\* komodo_connectblock accepts the notarisation that x carries
AcceptsNotarisation(x) ==
    /\ Notarises[x] \in mapBlockIndex
    /\ nHeight[Notarises[x]] > NotarizedHeight
    /\ nHeight[Notarises[x]] < nHeight[x]

\* komodo_notarized_update and komodo_state::AddCheckpoint
UpdateNotarised(x) ==
    IF AcceptsNotarisation(x)
    THEN /\ last' = Notarises[x]
         /\ NPOINTS' = Append(NPOINTS, [nHeight |-> nHeight[x],
                                        block |-> Notarises[x]])
         /\ UNCHANGED NPOINTS_last_index
    ELSE UNCHANGED notary

\* mutant: PruneBlockIndexCandidates is not called
StepConnectNoPrune(t) ==
    \E x \in Blocks :
        /\ ConnectsNext(t, x)
        /\ x \notin future /\ ~BreaksRule(x)
        /\ tip' = x
        /\ UpdateNotarised(x)
        /\ IF x = csMain.block THEN Return(t, "idle")
           ELSE IF nChainWork[x] > nChainWork[csMain.old]
           THEN Return(t, "active")
           ELSE UNCHANGED <<act, csMain>>
        /\ UNCHANGED <<index, failures, setBlockIndexCandidates,
                       mapBlocksUnlinked, future, shutdown, operatorCalls>>

\* ConnectTip succeeds and PruneBlockIndexCandidates follows; the step goes on
\* until it improves on the tip it started from or reaches its goal, and
\* ActivateBestChain takes another step unless the goal is reached
StepConnect(t) ==
    \E x \in Blocks :
        /\ ConnectsNext(t, x)
        /\ x \notin future /\ ~BreaksRule(x)
        /\ tip' = x
        /\ UpdateNotarised(x)
        /\ setBlockIndexCandidates' =
               {c \in setBlockIndexCandidates : ~Better(x, c)}
        /\ IF x = csMain.block THEN Return(t, "idle")
           ELSE IF nChainWork[x] > nChainWork[csMain.old]
           THEN Return(t, "active")
           ELSE UNCHANGED <<act, csMain>>
        /\ UNCHANGED <<index, failures, mapBlocksUnlinked, future, shutdown,
                       operatorCalls>>

\* mutant: InvalidBlockFound is not called
StepInvalidUnmarked(t) ==
    \E x \in Blocks :
        /\ ConnectsNext(t, x)
        /\ x \notin future /\ BreaksRule(x)
        /\ Return(t, "active")
        /\ UNCHANGED <<index, failures, setBlockIndexCandidates,
                       mapBlocksUnlinked, tip, notary, future, shutdown,
                       operatorCalls>>

\* ConnectTip fails: InvalidBlockFound, and ActivateBestChain tries again
StepInvalid(t) ==
    \E x \in Blocks :
        /\ ConnectsNext(t, x)
        /\ x \notin future /\ BreaksRule(x)
        /\ failedValid' = failedValid \cup {x}
        /\ setBlockIndexCandidates' = setBlockIndexCandidates \ {x}
        /\ Return(t, "active")
        /\ UNCHANGED <<index, failedChild, mapBlocksUnlinked, tip, notary,
                       future, shutdown, operatorCalls>>

\* ConnectBlock returns false for a block from the future without a verdict
StepFromFuture(t) ==
    \E x \in future :
        /\ ConnectsNext(t, x)
        /\ Return(t, "failed")
        /\ UNCHANGED <<index, failures, setBlockIndexCandidates,
                       mapBlocksUnlinked, tip, notary, future, shutdown,
                       operatorCalls>>

-----------------------------------------------------------------------------
(* The operator's calls: invalidateblock and reconsiderblock.              *)

OperatorCall(t) ==
    /\ csMain = NoJob /\ act[t] # "active"
    /\ operatorCalls < MaxOperatorCalls
    /\ operatorCalls' = operatorCalls + 1

\* InvalidateBlock marks the block and takes it out of the candidates
Invalidate(t, b) ==
    /\ OperatorCall(t)
    /\ b \in mapBlockIndex \ {Genesis}
    /\ failedValid' = failedValid \cup {b}
    /\ setBlockIndexCandidates' = setBlockIndexCandidates \ {b}
    /\ csMain' = [op |-> "invalidate", thread |-> t, block |-> b, old |-> tip]
    /\ UNCHANGED <<index, failedChild, mapBlocksUnlinked, tip, notary, act,
                   future, shutdown>>

Invalidating(t) ==
    csMain # NoJob /\ csMain.op = "invalidate" /\ csMain.thread = t

\* InvalidateBlock marks and disconnects the tip while the block is active; if
\* DisconnectTip refuses it returns at once, and the call ends with an error
InvalidateWalk(t) ==
    /\ Invalidating(t) /\ csMain.block \in Chain[tip]
    /\ failedChild' = failedChild \cup {tip}
    /\ setBlockIndexCandidates' = setBlockIndexCandidates \ {tip}
    /\ IF DisconnectAllowed
       THEN tip' = pprev[tip] /\ UNCHANGED <<act, csMain>>
       ELSE UNCHANGED tip /\ Return(t, "failed")
    /\ UNCHANGED <<index, failedValid, mapBlocksUnlinked, notary, future,
                   shutdown, operatorCalls>>

\* InvalidateBlock readmits candidates; invalidateblock then activates
InvalidateFinish(t) ==
    /\ Invalidating(t) /\ csMain.block \notin Chain[tip]
    /\ setBlockIndexCandidates' =
           setBlockIndexCandidates \cup Readmitted(failed, tip)
    /\ Return(t, "active")
    /\ UNCHANGED <<index, failures, mapBlocksUnlinked, tip, notary, future,
                   shutdown, operatorCalls>>

\* the block's descendants (itself included) that ReconsiderBlock resets
Reset(b) == {x \in mapBlockIndex : /\ b \in Chain[x]
                                   /\ ~IsValid(x, BLOCK_VALID_TRANSACTIONS)}

\* ReconsiderBlock: the failure is cleared on the block, its descendants and
\* its ancestors; those of the former that beat the tip become candidates
Reconsider(t, b) ==
    /\ OperatorCall(t)
    /\ b \in mapBlockIndex
    /\ failedValid' = failedValid \ (Reset(b) \cup Chain[b])
    /\ failedChild' = failedChild \ (Reset(b) \cup Chain[b])
    /\ setBlockIndexCandidates' = setBlockIndexCandidates \cup
           {x \in Reset(b) : /\ nValid[x] >= BLOCK_VALID_TRANSACTIONS
                             /\ Linked(x)
                             /\ Better(x, tip)}
    /\ act' = [act EXCEPT ![t] = "active"]
    /\ UNCHANGED <<index, mapBlocksUnlinked, tip, notary, csMain, future,
                   shutdown>>

-----------------------------------------------------------------------------
\* the genesis block is stored, linked and active
Init ==
    /\ mapBlockIndex = {Genesis}
    /\ nValid = [b \in Blocks |-> IF b = Genesis THEN BLOCK_VALID_CONTEXT ELSE 0]
    /\ haveData = {Genesis}
    /\ failedValid = {} /\ failedChild = {}
    /\ nSequenceId = [b \in Blocks |-> IF b = Genesis THEN 1 ELSE 0]
    /\ nBlockSequenceId = 2
    /\ setBlockIndexCandidates = {Genesis}
    /\ mapBlocksUnlinked = {}
    /\ tip = Genesis
    /\ NPOINTS = <<>> /\ NPOINTS_last_index = 0 /\ last = NoBlock
    /\ act = [t \in Threads |-> "idle"]
    /\ csMain = NoJob
    /\ future = FutureBlocks
    /\ shutdown = FALSE
    /\ operatorCalls = 0

\* ActivateBestChain and InvalidateBlock, run by thread t
ThreadStep(t) ==
    \/ StopActivating(t) \/ NothingToActivate(t) \/ RefuseReorg(t) \/ ShutDown(t)
    \/ BeginStep(t) \/ StepDisconnect(t) \/ StepRefused(t)
    \/ StepConnect(t) \/ StepInvalid(t) \/ StepFromFuture(t)
    \/ InvalidateWalk(t) \/ InvalidateFinish(t)

Next ==
    \/ \E b \in Blocks : NewHeader(b) \/ RefuseHeader(b) \/ TimePasses(b)
    \/ \E t \in BlockThreads, b \in Blocks :
           SkipBlock(t, b) \/ RejectBlock(t, b) \/ AcceptBlock(t, b)
    \/ \E t \in RpcThreads, b \in Blocks : Invalidate(t, b) \/ Reconsider(t, b)
    \/ \E t \in Threads : ThreadStep(t)

\* a thread inside ActivateBestChain or InvalidateBlock keeps running
Fairness == \A t \in Threads : WF_vars(ThreadStep(t))

Spec == Init /\ [][Next]_vars /\ Fairness

-----------------------------------------------------------------------------
Checkpoint_Type == [nHeight : Nat, block : Blocks]

\* a null pointer is no checkpoint
ASSUME NullAssumption == NoBlock \notin Checkpoint_Type

Job == [op : {"step", "invalidate"}, thread : Threads, block : Blocks,
        old : Blocks]

\* The types, with the facts that tie them together: what is stored, failed,
\* waiting or a candidate is in the index, and the holder of cs_main is a
\* thread inside the call that took it.
TypeOK ==
    /\ mapBlockIndex \subseteq Blocks
    /\ nValid \in [Blocks -> 0..7]
    /\ haveData \subseteq mapBlockIndex
    /\ failedValid \subseteq mapBlockIndex /\ failedChild \subseteq mapBlockIndex
    /\ nSequenceId \in [Blocks -> Nat] /\ nBlockSequenceId \in Nat
    /\ setBlockIndexCandidates \subseteq mapBlockIndex
    /\ mapBlocksUnlinked \subseteq haveData
    /\ tip \in mapBlockIndex
    /\ NPOINTS \in Seq(Checkpoint_Type) /\ NPOINTS_last_index \in Nat
    /\ last \in Blocks \cup {NoBlock}
    /\ act \in [Threads -> {"idle", "active", "failed"}]
    /\ csMain \in Job \cup {NoJob}
    /\ future \subseteq Blocks
    /\ shutdown \in BOOLEAN
    /\ operatorCalls \in 0..MaxOperatorCalls
    /\ csMain # NoJob => /\ csMain.op = "step" <=> act[csMain.thread] = "active"
                         /\ csMain.op = "invalidate" => csMain.block # Genesis

\* CheckBlockIndex: nChainTx is set exactly when the block and all its
\* ancestors have their data, in whatever order the data arrived.
LinkedExactly ==
    \A b \in mapBlockIndex : Linked(b) <=> Chain[b] \subseteq haveData

\* nChainTx is set only when the block and all its ancestors have their data,
\* and sequence ids are unique and grow along every chain: the candidate order
\* never depends on the address of a block index.
LinkedSoundly ==
    /\ \A b \in mapBlockIndex : Linked(b) => Chain[b] \subseteq haveData
    /\ \A b, c \in mapBlockIndex :
           b # c /\ Linked(b) /\ Linked(c) =>
               /\ nSequenceId[b] # nSequenceId[c]
               /\ b \in Chain[c] => nSequenceId[b] < nSequenceId[c]

\* CheckBlockIndex: a candidate is linked and not worse than the tip, through
\* every disconnection and connection of a reorganisation.
CandidatesSound ==
    \A c \in setBlockIndexCandidates : Linked(c) /\ ~Better(tip, c)

\* CheckBlockIndex: a block waits in mapBlocksUnlinked only while some
\* ancestor's data is missing.
UnlinkedSound ==
    \A b \in mapBlocksUnlinked : ~Linked(b) /\ ~(Chain[b] \subseteq haveData)

\* Every active block has its data, was linked and is not one that breaks a
\* rule, whichever way the reorganisations went.
ActiveChainValid ==
    \A b \in Chain[tip] : Linked(b) /\ b \in haveData /\ b \notin BadConnect \cup BadContext

\* Finality: once the last notarised block is on the active chain it stays
\* there through every reorganisation, whole or half-way, and every operator
\* call, until another block is notarised.  (A notarisation may name a block
\* of another branch, which the node need not be on.)
NotarisedKept ==
    [][last' = last => (last \in Chain[tip] => last \in Chain[tip'])]_vars

\* A reorganisation that the network asks for is refused for finality before
\* anything is disconnected: the check of the fork's height in
\* ActivateBestChainStep spares DisconnectTip from meeting the notarised
\* block half-way down, wherever that block is.
RefusedWhole ==
    \A t \in BlockThreads :
        Stepping(t) /\ tip \notin Chain[csMain.block] /\ ~DisconnectAllowed =>
            tip = csMain.old

\* b could be the tip: it is linked, and no block of its chain breaks a rule or
\* is marked failed (as a chain that was refused for finality is)
Activable(b) ==
    /\ b \in mapBlockIndex /\ Linked(b)
    /\ Chain[b] \cap (failed \cup BadConnect \cup BadContext) = {}

NothingBetter == \A b \in Blocks : Activable(b) => ~Better(b, tip)

\* "The result is either failure or an activated best chain": when
\* ActivateBestChain returns true no activable block beats the tip.
ActivatesBest ==
    [][\A t \in Threads :
          act[t] = "active" /\ act'[t] = "idle" /\ ~shutdown' =>
              NothingBetter']_vars

\* Every ActivateBestChain and InvalidateBlock comes to an end.
ActivationEnds ==
    \A t \in Threads : (act[t] = "active") ~> (act[t] # "active")

\* komodo_checkpoint gets "the most recent (highest)" checkpoint: of those that
\* blocks below the tip's height carried, none is higher than the one it finds.
HighestCheckpoint ==
    \A i \in 1..Len(NPOINTS) :
        NPOINTS[i].nHeight < nHeight[tip] =>
            /\ Checkpoint # NoBlock
            /\ nHeight[Checkpoint.block] >= nHeight[NPOINTS[i].block]

-----------------------------------------------------------------------------
(* What the assertions of CheckBlockIndex and the comments say besides.    *)

Released == csMain = NoJob

\* CheckBlockIndex: SCRIPTS valid implies all parents are SCRIPTS valid.
ScriptsValidDownwards ==
    \A b \in mapBlockIndex : \A x \in Chain[b] :
        nValid[b] >= BLOCK_VALID_SCRIPTS => nValid[x] >= BLOCK_VALID_SCRIPTS

\* CheckBlockIndex: a linked block that sorts at least as good as the tip and
\* has no invalid ancestor is a candidate.
CandidatesComplete ==
    Released =>
        \A b \in mapBlockIndex :
            Linked(b) /\ Chain[b] \cap failedValid = {} /\ ~Better(tip, b) =>
                b \in setBlockIndexCandidates

\* CheckBlockIndex: a block with data, a never-received ancestor and no invalid
\* ancestor is in mapBlocksUnlinked.
UnlinkedComplete ==
    Released =>
        \A b \in haveData :
            ~(Chain[b] \subseteq haveData) /\ Chain[b] \cap failedValid = {} =>
                b \in mapBlocksUnlinked

\* FindMostWorkChain: all blocks of the active chain are valid.
ActiveChainNotFailed == Released => Chain[tip] \cap failed = {}
=============================================================================
