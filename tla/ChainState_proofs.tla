-------------------------- MODULE ChainState_proofs --------------------------
(***************************************************************************)
(* The types of the block tree, the finality of notarised blocks, the      *)
(* search of the checkpoints, linking, the candidates and what the         *)
(* activation of the best chain achieves, for any block tree, any set of   *)
(* threads and any inputs.                                                 *)
(***************************************************************************)
EXTENDS ChainState, FiniteSetTheorems, WellFoundedInduction, TLAPS

-----------------------------------------------------------------------------
(* The inductive invariant of the types: headers arrive parents first, so  *)
(* the index is closed under ancestors; the job of cs_main is about a      *)
(* block of the index.                                                     *)

IndexClosed == \A b \in mapBlockIndex : Chain[b] \subseteq mapBlockIndex

JobKnown == csMain # NoJob => csMain.block \in mapBlockIndex

TInv == TypeOK /\ IndexClosed /\ JobKnown

-----------------------------------------------------------------------------
(* Facts about the tree and the checkpoints                                *)

\* A block is on its own chain, and its parent is one below it.
LEMMA ChainFacts ==
    \A b \in Blocks :
        /\ Chain[b] \subseteq Blocks /\ b \in Chain[b]
        /\ b # Genesis => pprev[b] \in Blocks /\ pprev[b] \in Chain[b]
<1>1. \A b \in Blocks : Chain[b] \subseteq Blocks /\ b \in Chain[b]
  BY ChainAssumption, TreeAssumption
<1>2. \A b \in Blocks : b # Genesis => pprev[b] \in Blocks
  BY TreeAssumption
<1> QED  BY <1>1, <1>2, ChainAssumption

\* Heights grow strictly along a chain.
LEMMA StrictHeight ==
    ASSUME NEW b \in Blocks, NEW x \in Chain[b], x # b
    PROVE  /\ b # Genesis /\ x \in Chain[pprev[b]] /\ x \in Blocks
           /\ nHeight[x] < nHeight[b]
<1>1. b # Genesis /\ x \in Chain[pprev[b]] /\ pprev[b] \in Blocks
  BY ChainAssumption, TreeAssumption
<1>2. x \in Blocks
  BY ChainFacts
<1>3. nHeight[x] <= nHeight[pprev[b]] /\ nHeight[b] = nHeight[pprev[b]] + 1
  BY <1>1, ChainAssumption, TreeAssumption
<1>4. nHeight[x] \in Nat /\ nHeight[pprev[b]] \in Nat
  BY <1>1, <1>2, TreeAssumption
<1> QED  BY <1>1, <1>2, <1>3, <1>4

\* Of two blocks of a chain one is an ancestor of the other.
LEMMA Comparable ==
    ASSUME NEW b \in Blocks, NEW x \in Chain[b], NEW y \in Chain[b]
    PROVE  x \in Chain[y] \/ y \in Chain[x]
<1>1. x \in Blocks /\ y \in Blocks
  BY ChainFacts
<1>2. nHeight[x] \in Nat /\ nHeight[y] \in Nat
  BY <1>1, TreeAssumption
<1>3. nHeight[x] <= nHeight[y] \/ nHeight[y] <= nHeight[x]
  BY <1>2
<1> QED  BY <1>3, ChainAssumption

\* Work grows strictly along a chain.
LEMMA WorkGrows ==
    ASSUME NEW b \in Blocks, NEW x \in Chain[b], x # b
    PROVE  nChainWork[x] < nChainWork[b]
<1> DEFINE Wrong(c) == \E y \in Chain[c] : y # c /\ ~(nChainWork[y] < nChainWork[c])
           T == {nHeight[c] : c \in {d \in Blocks : Wrong(d)}}
<1> SUFFICES ASSUME Wrong(b) PROVE FALSE
  OBVIOUS
<1>1. T \subseteq Nat /\ T # {}
  BY TreeAssumption
<1>2. PICK h \in T : \A y \in T : ~(<<y, h>> \in OpToRel(<, Nat))
  <2> HIDE DEF T
  <2> QED  BY <1>1, NatLessThanWellFounded, WFMin, Zenon
<1>3. \A y \in T : ~(y < h)
  <2> HIDE DEF T
  <2> QED  BY <1>1, <1>2 DEF OpToRel
<1>4. PICK c \in Blocks : Wrong(c) /\ h = nHeight[c]
  OBVIOUS
<1>5. PICK y \in Chain[c] : y # c /\ ~(nChainWork[y] < nChainWork[c])
  BY <1>4
<1>6. c # Genesis /\ y \in Chain[pprev[c]] /\ y \in Blocks /\ pprev[c] \in Blocks
  BY <1>5, StrictHeight, ChainFacts
<1>7. /\ nChainWork[pprev[c]] < nChainWork[c] /\ nHeight[pprev[c]] < nHeight[c]
      /\ nChainWork[pprev[c]] \in Nat /\ nChainWork[c] \in Nat
      /\ nChainWork[y] \in Nat
  BY <1>6, TreeAssumption
<1>8. Wrong(pprev[c])
  BY <1>5, <1>6, <1>7
<1>9. nHeight[pprev[c]] \in T
  BY <1>6, <1>8
<1> QED  BY <1>3, <1>4, <1>7, <1>9

\* FindFork is the highest common block.
LEMMA ForkFacts ==
    ASSUME NEW b \in Blocks, tip \in Blocks
    PROVE  /\ FindFork(b) \in Chain[tip] \cap Chain[b]
           /\ \A y \in Chain[b] \cap Chain[tip] : nHeight[y] <= nHeight[FindFork(b)]
<1> DEFINE C == Chain[b] \cap Chain[tip]
           n == nHeight[tip]
           T == {n - nHeight[y] : y \in C}
<1>1. n \in Nat /\ \A y \in C : y \in Blocks /\ nHeight[y] \in Nat /\ nHeight[y] <= n
  <2>1. C \subseteq Blocks
    BY ChainFacts
  <2> QED  BY <2>1, TreeAssumption, ChainAssumption
<1>2. C # {}
  BY ChainAssumption
<1> HIDE DEF C, n
<1>3. T \subseteq Nat /\ T # {}
  BY <1>1, <1>2
<1>4. PICK h \in T : \A y \in T : ~(<<y, h>> \in OpToRel(<, Nat))
  <2> HIDE DEF T
  <2> QED  BY <1>3, NatLessThanWellFounded, WFMin, Zenon
<1>5. \A y \in T : ~(y < h)
  <2> HIDE DEF T
  <2> QED  BY <1>3, <1>4 DEF OpToRel
<1>6. PICK x \in C : h = n - nHeight[x]
  OBVIOUS
<1>7. ASSUME NEW y \in C PROVE nHeight[y] <= nHeight[x]
  <2>1. ~(n - nHeight[y] < n - nHeight[x])
    BY <1>5, <1>6
  <2> QED  BY <1>1, <2>1
<1> QED  BY <1>7 DEF FindFork, C

\* The search of the checkpoints stops at an index of the vector.
LEMMA FirstAtOrAboveType ==
    ASSUME NEW points, NEW start \in Nat, NEW h, Len(points) \in Nat
    PROVE  FirstAtOrAbove(points, start, h) \in Nat
<1> DEFINE R == {i \in start..(Len(points) - 1) :
                    \A j \in start..i : points[j + 1].nHeight < h}
<1>1. IsFiniteSet(start..(Len(points) - 1))
  BY FS_Interval
<1>2. IsFiniteSet(R)
  <2>1. R \subseteq start..(Len(points) - 1)
    OBVIOUS
  <2> HIDE DEF R
  <2> QED  BY <1>1, <2>1, FS_Subset
<1>3. Cardinality(R) \in Nat
  BY <1>2, FS_CardinalityType
<1> QED  BY <1>3 DEF FirstAtOrAbove

\* NPOINTS_last_index never becomes negative.
LEMMA LastIndexType ==
    ASSUME NEW points, NEW idx \in Nat, NEW h, Len(points) \in Nat
    PROVE  LastIndexAfter(points, idx, h) \in Nat
<1>1. FoundAt(points, idx, h) \in Nat
  BY FirstAtOrAboveType DEF FoundAt
<1> QED  BY <1>1 DEF LastIndexAfter, CacheApplies

\* The sequence ids handed out are numbers.
LEMMA LinkOrderType ==
    ASSUME NEW S, S \subseteq Blocks, nBlockSequenceId \in Nat,
           NEW order \in LinkOrders(S)
    PROVE  order \in [S -> Nat]
<1> DEFINE Level(x) == {y \in S : nHeight[y] = nHeight[x]}
           Before(tie, x) == {y \in S : \/ nHeight[y] < nHeight[x]
                                        \/ y \in Level(x) /\ tie[y] < tie[x]}
<1>1. PICK tie : order = [x \in S |-> nBlockSequenceId + Cardinality(Before(tie, x))]
  BY DEF LinkOrders
<1>2. ASSUME NEW x \in S PROVE Cardinality(Before(tie, x)) \in Nat
  <2>1. Before(tie, x) \subseteq Blocks
    OBVIOUS
  <2> HIDE DEF Before
  <2> QED  BY <2>1, TreeAssumption, FS_Subset, FS_CardinalityType
<1> HIDE DEF Before
<1> QED  BY <1>1, <1>2

-----------------------------------------------------------------------------
(* Each operation preserves the types                                      *)

\* What AcceptBlockHeader leaves behind when it returns true.
LEMMA HeaderTypes ==
    ASSUME TInv, NEW b \in Blocks,
           AddHeader(b) \/ KnownHeader(b) \/ FutureHeader(b)
    PROVE  /\ b \in mapBlockIndex' /\ mapBlockIndex' \subseteq Blocks
           /\ mapBlockIndex \subseteq mapBlockIndex'
           /\ failedValid' \subseteq mapBlockIndex'
           /\ failedChild' \subseteq mapBlockIndex'
           /\ NPOINTS_last_index' \in Nat
           /\ IndexClosed'
<1>1. CASE AddHeader(b)
  <2>1. NPOINTS_last_index' \in Nat
    BY <1>1, LastIndexType DEF AddHeader, TouchCheckpoints, TInv, TypeOK
  <2>2. b # Genesis /\ pprev[b] \in mapBlockIndex
    BY <1>1, TreeAssumption DEF AddHeader, HeaderReachesCheckpoint, TInv, TypeOK
  <2>3. Chain[b] \subseteq mapBlockIndex \cup {b}
    BY <2>2, ChainAssumption DEF TInv, IndexClosed
  <2> QED
    BY <1>1, <2>1, <2>3 DEF AddHeader, TInv, TypeOK, IndexClosed, failures
<1>2. CASE KnownHeader(b)
  BY <1>2 DEF KnownHeader, TInv, TypeOK, IndexClosed
<1>3. CASE FutureHeader(b)
  BY <1>3 DEF FutureHeader, TInv, TypeOK, IndexClosed, failures
<1> QED  BY <1>1, <1>2, <1>3

\* A block's new validity is one of BLOCK_VALID_MASK.
LEMMA ValidityTypes ==
    /\ \A v \in 0..7 : RaiseValidity(v, BLOCK_VALID_TREE, FALSE) \in 0..7
    /\ \A b, isFailed :
           RaiseValidity(IF b \in BadContext THEN BLOCK_VALID_TREE
                         ELSE OrContext(BLOCK_VALID_TREE),
                         BLOCK_VALID_TRANSACTIONS, isFailed) \in 0..7
  BY DEF RaiseValidity, OrContext, BLOCK_VALID_TREE, BLOCK_VALID_CONTEXT,
         BLOCK_VALID_TRANSACTIONS

\* ReceivedBlockTransactions numbers the blocks it links, and only blocks with
\* data become candidates or wait.
LEMMA StoreTypes ==
    ASSUME TInv, NEW b \in Blocks, b \in mapBlockIndex',
           mapBlockIndex \subseteq mapBlockIndex', StoreBlock(b)
    PROVE  /\ nValid' \in [Blocks -> 0..7]
           /\ haveData' \subseteq mapBlockIndex'
           /\ nSequenceId' \in [Blocks -> Nat] /\ nBlockSequenceId' \in Nat
           /\ setBlockIndexCandidates' \subseteq mapBlockIndex'
           /\ mapBlocksUnlinked' \subseteq haveData'
<1>1. nValid' \in [Blocks -> 0..7]
  BY ValidityTypes DEF StoreBlock, TInv, TypeOK
<1>2. haveData' = haveData \cup {b} /\ haveData' \subseteq mapBlockIndex'
  BY DEF StoreBlock, TInv, TypeOK
<1>3. CASE LinkBlocks(b)
  <2> DEFINE S == NewlyLinked(b)
  <2>1. S \subseteq Blocks /\ S \subseteq mapBlockIndex'
    BY DEF NewlyLinked, TInv, TypeOK
  <2>2. Cardinality(S) \in Nat
    BY <2>1, TreeAssumption, FS_Subset, FS_CardinalityType
  <2>3. PICK order \in LinkOrders(S) :
            LET seq == [x \in Blocks |-> IF x \in S THEN order[x]
                                                    ELSE nSequenceId[x]]
            IN  /\ nSequenceId' = seq
                /\ nBlockSequenceId' = nBlockSequenceId + Cardinality(S)
                /\ setBlockIndexCandidates' = setBlockIndexCandidates \cup
                       {x \in S : ~BetterBy(seq, tip, x)}
                /\ mapBlocksUnlinked' = mapBlocksUnlinked \ S
    BY <1>3 DEF LinkBlocks
  <2> HIDE DEF S
  <2>4. order \in [S -> Nat]
    BY <2>1, LinkOrderType DEF TInv, TypeOK
  <2>5. nSequenceId' \in [Blocks -> Nat] /\ nBlockSequenceId' \in Nat
    BY <2>2, <2>3, <2>4 DEF TInv, TypeOK
  <2>6. setBlockIndexCandidates' \subseteq mapBlockIndex'
    BY <2>1, <2>3 DEF TInv, TypeOK
  <2> QED  BY <1>1, <1>2, <2>3, <2>5, <2>6 DEF TInv, TypeOK
<1>4. CASE AwaitParent(b)
  BY <1>1, <1>2, <1>4 DEF AwaitParent, TInv, TypeOK
<1> QED  BY <1>3, <1>4 DEF StoreBlock

\* The blocks that FindMostWorkChain marks and drops are of the index.
LEMMA PurgeTypes ==
    ASSUME TInv, NEW most
    PROVE  PurgedBlocks(most) \subseteq mapBlockIndex
  BY DEF PurgedBlocks, DroppedCandidates, FailedPath, PathFromActive, TInv,
         TypeOK, IndexClosed

\* The block a step connects is of the index, and its parent is the tip.
LEMMA ConnectTypes ==
    ASSUME TInv, NEW t \in Threads, NEW x, ConnectsNext(t, x)
    PROVE  /\ x \in mapBlockIndex /\ x \in Blocks
           /\ act[t] = "active" /\ csMain \in Job
  BY ChainFacts DEF ConnectsNext, Stepping, TInv, TypeOK, IndexClosed, JobKnown,
                    Job

\* The tip that DisconnectTip leaves is of the index.
LEMMA DisconnectTypes ==
    ASSUME TInv, tip # Genesis
    PROVE  pprev[tip] \in mapBlockIndex
  BY ChainFacts DEF TInv, TypeOK, IndexClosed

-----------------------------------------------------------------------------
(* Type correctness                                                        *)

LEMMA TypeInit ==
    Init => TInv
<1> SUFFICES ASSUME Init PROVE TInv
  OBVIOUS
<1>1. /\ nValid \in [Blocks -> 0..7] /\ nSequenceId \in [Blocks -> Nat]
      /\ nBlockSequenceId \in Nat
  BY DEF Init, BLOCK_VALID_CONTEXT
<1>2. NPOINTS \in Seq(Checkpoint_Type) /\ NPOINTS_last_index \in Nat
  BY DEF Init
<1>3. act \in [Threads -> {"idle", "active", "failed"}]
  BY DEF Init
<1>4. shutdown \in BOOLEAN /\ operatorCalls \in 0..MaxOperatorCalls
  <2>1. shutdown \in BOOLEAN
    BY DEF Init
  <2>2. operatorCalls = 0 /\ MaxOperatorCalls \in Nat
    BY InputAssumption, Zenon DEF Init
  <2> QED  BY <2>1, <2>2
<1>5. /\ mapBlockIndex \subseteq Blocks /\ tip \in mapBlockIndex
      /\ haveData \subseteq mapBlockIndex
      /\ failedValid \subseteq mapBlockIndex /\ failedChild \subseteq mapBlockIndex
      /\ setBlockIndexCandidates \subseteq mapBlockIndex
      /\ mapBlocksUnlinked \subseteq haveData
      /\ future \subseteq Blocks
  BY TreeAssumption, InputAssumption DEF Init
<1>6. IndexClosed
  BY ChainAssumption DEF Init, IndexClosed
<1> QED
  BY <1>1, <1>2, <1>3, <1>4, <1>5, <1>6 DEF Init, TInv, TypeOK, JobKnown

\* The network's and the clock's actions keep the types.
LEMMA NetworkTypes ==
    ASSUME TInv, NEW b \in Blocks,
           \/ NewHeader(b) \/ RefuseHeader(b) \/ TimePasses(b)
           \/ \E t \in BlockThreads :
                  SkipBlock(t, b) \/ RejectBlock(t, b) \/ AcceptBlock(t, b)
    PROVE  TInv'
<1> USE DEF TInv, TypeOK, JobKnown
<1>1. CASE NewHeader(b)
  <2>1. nValid' = [nValid EXCEPT ![b] = 2] \/ nValid' = nValid
    BY <1>1 DEF NewHeader, BLOCK_VALID_TREE
  <2>2. nValid' \in [Blocks -> 0..7]
    <3>1. nValid \in [Blocks -> 0..7]
      OBVIOUS
    <3>2. 2 \in 0..7
      OBVIOUS
    <3> HIDE DEF TInv
    <3> QED  BY <2>1, <3>1, <3>2
  <2>3. AddHeader(b) \/ KnownHeader(b)
    BY <1>1 DEF NewHeader
  <2> QED  BY <1>1, <2>2, <2>3, HeaderTypes DEF NewHeader
<1>2. CASE RefuseHeader(b)
  <2>1. NPOINTS_last_index' \in Nat
    BY <1>2, LastIndexType DEF RefuseHeader, TouchCheckpoints
  <2> QED  BY <1>2, <2>1 DEF RefuseHeader, index, failures, IndexClosed
<1>3. CASE TimePasses(b)
  BY <1>3 DEF TimePasses, index, failures, notary, IndexClosed
<1>4. ASSUME NEW t \in BlockThreads, SkipBlock(t, b) PROVE TInv'
  <2>1. nValid' \in [Blocks -> 0..7]
    BY <1>4, ValidityTypes DEF SkipBlock
  <2>2. act' \in [Threads -> {"idle", "active", "failed"}]
    BY <1>4 DEF SkipBlock, ThenActivate, Threads
  <2> QED  BY <1>4, <2>1, <2>2, HeaderTypes DEF SkipBlock
<1>5. ASSUME NEW t \in BlockThreads, RejectBlock(t, b) PROVE TInv'
  <2>1. nValid' \in [Blocks -> 0..7]
    BY <1>5, ValidityTypes DEF RejectBlock
  <2>2. NPOINTS_last_index' \in Nat
    BY <1>5, LastIndexType DEF RejectBlock, TouchCheckpoints
  <2>3. IndexClosed'
    <3>1. b \in mapBlockIndex \/ (b # Genesis /\ pprev[b] \in mapBlockIndex)
      BY <1>5, TreeAssumption DEF RejectBlock, HeaderReachesCheckpoint
    <3>2. Chain[b] \subseteq mapBlockIndex \cup {b}
      BY <3>1, ChainAssumption DEF IndexClosed
    <3> QED  BY <1>5, <3>2 DEF RejectBlock, IndexClosed
  <2> QED  BY <1>5, <2>1, <2>2, <2>3 DEF RejectBlock
<1>6. ASSUME NEW t \in BlockThreads, AcceptBlock(t, b) PROVE TInv'
  <2>1. act' \in [Threads -> {"idle", "active", "failed"}]
    BY <1>6 DEF AcceptBlock, ThenActivate, Threads
  <2>2. /\ b \in mapBlockIndex' /\ mapBlockIndex' \subseteq Blocks
        /\ mapBlockIndex \subseteq mapBlockIndex'
        /\ failedValid' \subseteq mapBlockIndex'
        /\ failedChild' \subseteq mapBlockIndex'
        /\ NPOINTS_last_index' \in Nat
        /\ IndexClosed'
    BY <1>6, HeaderTypes DEF AcceptBlock
  <2>3. /\ nValid' \in [Blocks -> 0..7]
        /\ haveData' \subseteq mapBlockIndex'
        /\ nSequenceId' \in [Blocks -> Nat] /\ nBlockSequenceId' \in Nat
        /\ setBlockIndexCandidates' \subseteq mapBlockIndex'
        /\ mapBlocksUnlinked' \subseteq haveData'
    BY <1>6, <2>2, StoreTypes DEF AcceptBlock
  <2> QED  BY <1>6, <2>1, <2>2, <2>3 DEF AcceptBlock
<1> QED  BY <1>1, <1>2, <1>3, <1>4, <1>5, <1>6

\* The steps of ActivateBestChain keep the types.
LEMMA ActivationTypes ==
    ASSUME TInv, NEW t \in Threads, ThreadStep(t)
    PROVE  TInv'
<1> USE DEF TInv, TypeOK, JobKnown, IndexClosed, index, failures, notary
<1>1. CASE StopActivating(t)
  BY <1>1 DEF StopActivating, Activating
<1>2. CASE NothingToActivate(t)
  BY <1>2, PurgeTypes DEF NothingToActivate, Activating, MarkFailedPaths,
                          PurgedCandidates
<1>3. CASE RefuseReorg(t)
  BY <1>3, PurgeTypes DEF RefuseReorg, BetterChain, Activating, MarkFailedPaths,
                          PurgedCandidates, Readmitted
<1>4. CASE ShutDown(t)
  BY <1>4, PurgeTypes DEF ShutDown, BetterChain, Activating, MarkFailedPaths,
                          PurgedCandidates
<1>5. CASE BeginStep(t)
  BY <1>5, PurgeTypes DEF BeginStep, BetterChain, Activating, MarkFailedPaths,
                          PurgedCandidates, Job
<1>6. CASE StepDisconnect(t)
  <2>1. tip # Genesis
    BY <1>6, ChainAssumption DEF StepDisconnect, Stepping, Job
  <2> QED  BY <1>6, <2>1, DisconnectTypes DEF StepDisconnect
<1>7. CASE StepRefused(t)
  BY <1>7 DEF StepRefused, Return
<1>8. CASE StepConnect(t)
  <2>1. PICK x \in Blocks :
            /\ ConnectsNext(t, x)
            /\ tip' = x
            /\ UpdateNotarised(x)
            /\ setBlockIndexCandidates' \subseteq setBlockIndexCandidates
            /\ Return(t, "idle") \/ Return(t, "active") \/ UNCHANGED <<act, csMain>>
            /\ UNCHANGED <<index, failures, mapBlocksUnlinked, future,
                           shutdown, operatorCalls>>
    BY <1>8 DEF StepConnect
  <2>2. /\ NPOINTS' \in Seq(Checkpoint_Type) /\ NPOINTS_last_index' \in Nat
        /\ last' \in Blocks \cup {NoBlock}
    <3>1. CASE AcceptsNotarisation(x)
      <4>1. [nHeight |-> nHeight[x], block |-> Notarises[x]] \in Checkpoint_Type
        BY <3>1, TreeAssumption DEF AcceptsNotarisation, Checkpoint_Type
      <4>2. /\ NPOINTS' = Append(NPOINTS, [nHeight |-> nHeight[x],
                                           block |-> Notarises[x]])
            /\ NPOINTS_last_index' = NPOINTS_last_index
            /\ last' = Notarises[x]
        BY <2>1, <3>1 DEF UpdateNotarised
      <4>3. NPOINTS' \in Seq(Checkpoint_Type)
        BY <4>1, <4>2
      <4> QED  BY <3>1, <4>2, <4>3 DEF AcceptsNotarisation
    <3>2. CASE ~AcceptsNotarisation(x)
      BY <2>1, <3>2 DEF UpdateNotarised
    <3> QED  BY <3>1, <3>2
  <2>3. /\ act' \in [Threads -> {"idle", "active", "failed"}]
        /\ csMain' \in Job \cup {NoJob} /\ (JobKnown)'
        /\ csMain' # NoJob => csMain' = csMain /\ act' = act
    BY <2>1 DEF Return
  <2> HIDE DEF JobKnown
  <2> QED  BY <2>1, <2>2, <2>3, ConnectTypes
<1>9. CASE StepInvalid(t)
  BY <1>9, ConnectTypes DEF StepInvalid, Return
<1>10. CASE StepFromFuture(t)
  BY <1>10 DEF StepFromFuture, Return
<1>11. CASE InvalidateWalk(t)
  <2>1. tip # Genesis
    BY <1>11, ChainAssumption DEF InvalidateWalk, Invalidating, Job
  <2> QED  BY <1>11, <2>1, DisconnectTypes DEF InvalidateWalk, Return
<1>12. CASE InvalidateFinish(t)
  BY <1>12 DEF InvalidateFinish, Return, Readmitted
<1> QED
  BY <1>1, <1>2, <1>3, <1>4, <1>5, <1>6, <1>7, <1>8, <1>9, <1>10, <1>11, <1>12
     DEF ThreadStep

\* The operator's calls keep the types.
LEMMA OperatorTypes ==
    ASSUME TInv, NEW t \in RpcThreads, NEW b \in Blocks,
           Invalidate(t, b) \/ Reconsider(t, b)
    PROVE  TInv'
<1> USE DEF TInv, TypeOK, JobKnown, IndexClosed, index, failures, notary
<1>1. operatorCalls' \in 0..MaxOperatorCalls
  BY InputAssumption DEF Invalidate, Reconsider, OperatorCall
<1>2. CASE Invalidate(t, b)
  BY <1>1, <1>2 DEF Invalidate, OperatorCall, Job, Threads
<1>3. CASE Reconsider(t, b)
  BY <1>1, <1>3 DEF Reconsider, OperatorCall, Threads, Reset
<1> QED  BY <1>2, <1>3

LEMMA TypeNext ==
    TInv /\ [Next]_vars => TInv'
<1> SUFFICES ASSUME TInv, [Next]_vars PROVE TInv'
  OBVIOUS
<1>1. CASE UNCHANGED vars
  BY <1>1 DEF vars, index, failures, notary, TInv, TypeOK, IndexClosed, JobKnown
<1>2. CASE Next
  BY <1>2, NetworkTypes, ActivationTypes, OperatorTypes DEF Next
<1> QED  BY <1>1, <1>2

\* The types hold in every reachable state: what is stored, failed, waiting or
\* a candidate is in mapBlockIndex, and the holder of cs_main is the thread
\* whose call took it.
THEOREM TypeCorrect ==
    Spec => []TypeOK
<1>1. Spec => []TInv
  BY TypeInit, TypeNext, PTL DEF Spec
<1>2. TInv => TypeOK
  BY DEF TInv
<1> QED  BY <1>1, <1>2, PTL

-----------------------------------------------------------------------------
(* Finality.  DisconnectTip stops at the last notarised block, and only    *)
(* there could an active one be left behind.  A block thread does not even *)
(* get that far: if the notarised block is active and below the tip, the   *)
(* fork that ActivateBestChainStep lets through is not below it, so the    *)
(* chain aimed at holds it and no disconnection comes to it.               *)

\* what the height check leaves true while a block thread disconnects
ForkChecked ==
    csMain # NoJob /\ csMain.op = "step" /\ csMain.thread \in BlockThreads =>
        tip \in Chain[csMain.block] \/ last \notin Chain[tip]
            \/ last \in Chain[csMain.block] \/ (tip = csMain.old /\ tip = last)

NInv == TInv /\ ForkChecked

\* Only the connection of a block moves the last notarised block, and only
\* DisconnectTip and ConnectTip move the tip.
LEMMA TipMovers ==
    ASSUME TInv, [Next]_vars
    PROVE  \/ tip' = tip /\ last' = last
           \/ \E t \in Threads : \/ StepDisconnect(t) \/ StepConnect(t)
                                 \/ InvalidateWalk(t)
<1> USE DEF notary
<1>1. CASE UNCHANGED vars
  BY <1>1 DEF vars
<1>2. ASSUME NEW b \in Blocks,
             \/ NewHeader(b) \/ RefuseHeader(b) \/ TimePasses(b)
             \/ \E t \in BlockThreads :
                  SkipBlock(t, b) \/ RejectBlock(t, b) \/ AcceptBlock(t, b)
      PROVE  tip' = tip /\ last' = last
  BY <1>2 DEF NewHeader, RefuseHeader, TimePasses, SkipBlock, RejectBlock,
              AcceptBlock
<1>3. ASSUME NEW t \in RpcThreads, NEW b \in Blocks,
             Invalidate(t, b) \/ Reconsider(t, b)
      PROVE  tip' = tip /\ last' = last
  BY <1>3 DEF Invalidate, Reconsider
<1>4. ASSUME NEW t \in Threads, ThreadStep(t)
      PROVE  \/ tip' = tip /\ last' = last
             \/ StepDisconnect(t) \/ StepConnect(t) \/ InvalidateWalk(t)
  BY <1>4 DEF ThreadStep, StopActivating, NothingToActivate, RefuseReorg,
              ShutDown, BeginStep, StepRefused, StepInvalid, StepFromFuture,
              InvalidateFinish
<1> QED  BY <1>1, <1>2, <1>3, <1>4 DEF Next

\* The tip's parent is the tip below it, unless the tip is the genesis block.
LEMMA DisconnectChain ==
    ASSUME TInv, tip # Genesis, tip' = pprev[tip]
    PROVE  tip \in Blocks /\ Chain[tip] = {tip} \cup Chain[tip']
  BY ChainAssumption DEF TInv, TypeOK

\* Nothing but a notarisation takes an active notarised block off the chain.
LEMMA KeptNext ==
    ASSUME TInv, [Next]_vars, last' = last, last \in Chain[tip]
    PROVE  last \in Chain[tip']
<1>1. CASE tip' = tip
  BY <1>1
<1>2. ASSUME NEW t \in Threads, StepDisconnect(t) PROVE last \in Chain[tip']
  <2>1. tip # Genesis
    BY <1>2, ChainAssumption DEF StepDisconnect, Stepping, Job, TInv, TypeOK
  <2>2. tip' = pprev[tip] /\ tip # last
    BY <1>2 DEF StepDisconnect, DisconnectAllowed
  <2> QED  BY <2>1, <2>2, DisconnectChain
<1>3. ASSUME NEW t \in Threads, InvalidateWalk(t) PROVE last \in Chain[tip']
  <2>1. tip # Genesis
    BY <1>3, ChainAssumption DEF InvalidateWalk, Invalidating, Job, TInv, TypeOK
  <2>2. tip' = tip \/ (tip' = pprev[tip] /\ tip # last)
    BY <1>3 DEF InvalidateWalk, DisconnectAllowed
  <2> QED  BY <2>1, <2>2, DisconnectChain
<1>4. ASSUME NEW t \in Threads, StepConnect(t) PROVE last \in Chain[tip']
  <2>1. PICK x \in Blocks : pprev[x] = tip /\ tip' = x
    BY <1>4 DEF StepConnect, ConnectsNext
  <2>2. Chain[x] = {x} \cup Chain[tip]
    BY <2>1, ChainAssumption, TreeAssumption DEF TInv, TypeOK
  <2> QED  BY <2>1, <2>2
<1> QED  BY <1>1, <1>2, <1>3, <1>4, TipMovers

\* dPoW finality: once the last notarised block is active, no reorganisation,
\* whole or half-way, and no operator call takes it off the active chain.
THEOREM NotarisedStays ==
    Spec => NotarisedKept
<1>1. TInv /\ [Next]_vars =>
          [last' = last => (last \in Chain[tip] => last \in Chain[tip'])]_vars
  BY KeptNext
<1> QED  BY <1>1, TypeInit, TypeNext, PTL DEF Spec, NotarisedKept

\* The check of the fork's height: an active notarised block below the tip is
\* on the chain that the step aims at.
LEMMA BeginChecked ==
    ASSUME TInv, NEW t \in BlockThreads, NEW most \in Blocks,
           ~ForksBelowNotarised(t, most), last \in Chain[tip], tip # last
    PROVE  last \in Chain[most]
<1> DEFINE fork == FindFork(most)
<1>1. tip \in Blocks /\ last \in Blocks /\ t \notin RpcThreads
  BY ChainFacts, InputAssumption DEF TInv, TypeOK
<1>2. fork \in Chain[tip] /\ fork \in Chain[most] /\ fork \in Blocks
  BY <1>1, ForkFacts, ChainFacts
<1>3. NotarizedHeight = nHeight[last]
  BY <1>1, TreeAssumption DEF NotarizedHeight
<1>4. nHeight[last] < nHeight[tip]
  BY <1>1, StrictHeight
<1>5. nHeight[last] \in Nat /\ nHeight[tip] \in Nat /\ nHeight[fork] \in Nat
  BY <1>1, <1>2, TreeAssumption
<1> HIDE DEF fork
<1>6. nHeight[last] <= nHeight[fork]
  BY <1>1, <1>3, <1>4, <1>5 DEF ForksBelowNotarised, fork
<1>7. last \in Chain[fork]
  BY <1>1, <1>2, <1>6, ChainAssumption
<1> QED  BY <1>2, <1>7, ChainAssumption

\* cs_main changes hands in a few actions; its holder moves the tip.
LEMMA JobMovers ==
    ASSUME TInv, [Next]_vars
    PROVE  \/ csMain' = NoJob \/ (csMain'.op = "invalidate" /\ csMain' # NoJob)
           \/ csMain' = csMain /\ tip' = tip /\ last' = last
           \/ \E t \in Threads : BeginStep(t) \/ StepDisconnect(t) \/ StepConnect(t)
<1> USE DEF notary
<1>1. CASE UNCHANGED vars
  BY <1>1 DEF vars
<1>2. ASSUME NEW b \in Blocks,
             \/ NewHeader(b) \/ RefuseHeader(b) \/ TimePasses(b)
             \/ \E t \in BlockThreads :
                  SkipBlock(t, b) \/ RejectBlock(t, b) \/ AcceptBlock(t, b)
      PROVE  csMain' = csMain /\ tip' = tip /\ last' = last
  BY <1>2 DEF NewHeader, RefuseHeader, TimePasses, SkipBlock, RejectBlock,
              AcceptBlock
<1>3. ASSUME NEW t \in RpcThreads, NEW b \in Blocks,
             Invalidate(t, b) \/ Reconsider(t, b)
      PROVE  csMain' = NoJob \/ csMain'.op = "invalidate"
  BY <1>3 DEF Invalidate, Reconsider, OperatorCall
<1>4. ASSUME NEW t \in Threads, ThreadStep(t)
      PROVE  \/ csMain' = NoJob \/ csMain'.op = "invalidate"
             \/ BeginStep(t) \/ StepDisconnect(t) \/ StepConnect(t)
  BY <1>4 DEF ThreadStep, StopActivating, NothingToActivate, RefuseReorg,
              ShutDown, StepRefused, StepInvalid, StepFromFuture, InvalidateWalk,
              InvalidateFinish, BetterChain, Activating, Return, Invalidating
<1> QED  BY <1>1, <1>2, <1>3, <1>4 DEF Next

LEMMA ForkCheckedNext ==
    ASSUME NInv, [Next]_vars
    PROVE  ForkChecked'
<1>1. TInv /\ TypeOK /\ tip \in Blocks
  BY DEF NInv, TInv, TypeOK
<1>2. CASE csMain' = NoJob \/ csMain'.op = "invalidate"
  BY <1>2 DEF ForkChecked
<1>3. CASE csMain' = csMain /\ tip' = tip /\ last' = last
  BY <1>3 DEF NInv, ForkChecked
<1>4. ASSUME NEW t \in Threads, BeginStep(t) PROVE ForkChecked'
  <2>1. PICK most \in setBlockIndexCandidates :
            /\ ~ForksBelowNotarised(t, most)
            /\ csMain' = [op |-> "step", thread |-> t, block |-> most, old |-> tip]
            /\ tip' = tip /\ last' = last
    BY <1>4 DEF BeginStep, notary
  <2>2. most \in Blocks
    BY <1>1 DEF TypeOK
  <2>3. csMain'.thread = t /\ csMain'.block = most /\ csMain'.old = tip
    BY <2>1
  <2> QED  BY <1>1, <2>1, <2>2, <2>3, BeginChecked DEF ForkChecked
<1>5. ASSUME NEW t \in Threads, StepDisconnect(t) PROVE ForkChecked'
  <2>1. /\ csMain' = csMain /\ last' = last /\ tip' = pprev[tip] /\ tip # last
        /\ tip \notin Chain[csMain.block]
    BY <1>5 DEF StepDisconnect, DisconnectAllowed, notary
  <2>2. tip # Genesis
    BY <1>1, <1>5, ChainAssumption DEF StepDisconnect, Stepping, Job, TypeOK
  <2>3. Chain[tip'] \subseteq Chain[tip]
    BY <1>1, <2>1, <2>2, DisconnectChain
  <2> QED  BY <2>1, <2>3 DEF NInv, ForkChecked
<1>6. ASSUME NEW t \in Threads, StepConnect(t) PROVE ForkChecked'
  <2>1. PICK x \in Blocks : /\ x \in Chain[csMain.block] /\ tip' = x
                            /\ csMain' = NoJob \/ csMain' = csMain
    BY <1>6 DEF StepConnect, ConnectsNext, Return
  <2> QED  BY <2>1 DEF ForkChecked
<1> QED  BY <1>1, <1>2, <1>3, <1>4, <1>5, <1>6, JobMovers

\* A reorganisation that the network asks for is refused for finality whole or
\* not at all: DisconnectTip meets the notarised block only as the tip that the
\* step started from, whatever block a notarisation names.
THEOREM RefusedBeforeAnything ==
    Spec => []RefusedWhole
<1>1. Init => NInv
  BY TypeInit DEF NInv, Init, ForkChecked
<1>2. NInv /\ [Next]_vars => NInv'
  BY TypeNext, ForkCheckedNext DEF NInv
<1>3. NInv => RefusedWhole
  <2> SUFFICES ASSUME NInv, NEW t \in BlockThreads, Stepping(t),
                      tip \notin Chain[csMain.block], tip = last
               PROVE  tip = csMain.old
    BY DEF RefusedWhole, DisconnectAllowed
  <2>1. tip \in Chain[tip]
    BY ChainFacts DEF NInv, TInv, TypeOK
  <2> QED  BY <2>1 DEF NInv, ForkChecked, Stepping
<1> QED  BY <1>1, <1>2, <1>3, PTL DEF Spec

-----------------------------------------------------------------------------
(* The checkpoints.  The search looks for the first one that was carried   *)
(* at or above a height, from the cached index or, if that misses, from    *)
(* the start.  If the vector is sorted by the height at which they were    *)
(* carried, both stop at the same place.  The notarised heights always     *)
(* increase along it.                                                      *)

Sorted(points) ==
    \A i, j \in 1..Len(points) : i <= j => points[i].nHeight <= points[j].nHeight

\* The search stops behind the run of those below h.
LEMMA RunFacts ==
    ASSUME NEW points, NEW start \in Nat, NEW h, Len(points) \in Nat, start <= Len(points)
    PROVE  LET k == FirstAtOrAbove(points, start, h)
           IN  /\ k \in start..Len(points)
               /\ \A j \in start..(k - 1) : points[j + 1].nHeight < h
               /\ k < Len(points) => ~(points[k + 1].nHeight < h)
<1> DEFINE n == Len(points)
           stops == {i \in start..(n - 1) : ~(points[i + 1].nHeight < h)}
           R == {i \in start..(n - 1) : \A j \in start..i : points[j + 1].nHeight < h}
<1>1. PICK k \in start..n : /\ \A j \in start..(k - 1) : points[j + 1].nHeight < h
                            /\ k < n => ~(points[k + 1].nHeight < h)
  <2>1. CASE stops = {}
    <3>1. n \in Nat /\ n \in start..n
      OBVIOUS
    <3>2. \A j \in start..(n - 1) : points[j + 1].nHeight < h
      BY <2>1
    <3> QED  BY <3>1, <3>2
  <2>2. CASE stops # {}
    <3>1. stops \subseteq Nat
      OBVIOUS
    <3>2. PICK k \in stops : \A y \in stops : ~(<<y, k>> \in OpToRel(<, Nat))
      <4> HIDE DEF stops
      <4> QED  BY <2>2, <3>1, NatLessThanWellFounded, WFMin, Zenon
    <3>3. \A y \in stops : ~(y < k)
      <4> HIDE DEF stops
      <4> QED  BY <3>1, <3>2 DEF OpToRel
    <3>4. k \in start..n /\ ~(points[k + 1].nHeight < h)
      OBVIOUS
    <3>5. \A j \in start..(k - 1) : points[j + 1].nHeight < h
      BY <3>3, <3>4
    <3> QED  BY <3>4, <3>5
  <2> QED  BY <2>1, <2>2
<1> HIDE DEF n
<1>2. R = start..(k - 1)
  <2>1. ASSUME NEW i \in R PROVE i \in start..(k - 1)
    <3> SUFFICES ASSUME i >= k PROVE FALSE
      OBVIOUS
    <3>1. k \in start..i /\ k < n
      BY n \in Nat DEF n
    <3> QED  BY <1>1, <3>1
  <2>2. ASSUME NEW i \in start..(k - 1) PROVE i \in R
    <3>1. i \in start..(n - 1) /\ \A j \in start..i : j \in start..(k - 1)
      BY n \in Nat DEF n
    <3> QED  BY <1>1, <3>1
  <2> HIDE DEF R
  <2> QED  BY <2>1, <2>2
<1>3. Cardinality(start..(k - 1)) = k - start
  <2>1. start \in Int /\ k - 1 \in Int /\ k >= start
    BY n \in Nat DEF n
  <2>2. Cardinality(start..(k - 1)) = IF start > k - 1 THEN 0 ELSE (k - 1) - start + 1
    BY <2>1, FS_Interval
  <2> QED  BY <2>1, <2>2
<1>4. FirstAtOrAbove(points, start, h) = k
  <2>1. FirstAtOrAbove(points, start, h) = start + Cardinality(R)
    BY DEF FirstAtOrAbove, n
  <2> HIDE DEF R
  <2> QED  BY <1>2, <1>3, <2>1
<1> QED  BY <1>1, <1>4 DEF n

\* In a sorted vector the search stops behind the last one below h, whatever
\* index is cached.
LEMMA SearchExact ==
    ASSUME NEW points \in Seq(Checkpoint_Type), Sorted(points), NEW idx \in Nat, NEW h \in Nat
    PROVE  LET k == FoundAt(points, idx, h)
           IN  /\ k \in 0..Len(points)
               /\ \A i \in 1..Len(points) : points[i].nHeight < h <=> i <= k
<1> DEFINE n == Len(points)
           k == FoundAt(points, idx, h)
<1>1. n \in Nat /\ \A i \in 1..n : points[i].nHeight \in Nat
  <2>1. n \in Nat /\ \A i \in 1..n : points[i] \in Checkpoint_Type
    OBVIOUS
  <2> QED  BY <2>1 DEF Checkpoint_Type
<1>2. /\ k \in 0..n
      /\ k > 0 => points[k].nHeight < h
      /\ k < n => ~(points[k + 1].nHeight < h)
  <2>1. CASE CacheHits(points, idx, h)
    <3>1. /\ k = FirstAtOrAbove(points, idx, h) /\ idx > 0 /\ idx < n
          /\ points[idx].nHeight < h
      BY <2>1 DEF FoundAt, CacheHits, CacheApplies
    <3>2. /\ k \in idx..n /\ \A j \in idx..(k - 1) : points[j + 1].nHeight < h
          /\ k < n => ~(points[k + 1].nHeight < h)
      BY <1>1, <3>1, RunFacts
    <3> HIDE DEF k, n
    <3>3. CASE k = idx
      BY <1>1, <3>1, <3>2, <3>3
    <3>4. CASE k > idx
      <4>1. k - 1 \in idx..(k - 1) /\ (k - 1) + 1 = k
        BY <1>1, <3>2, <3>4
      <4>2. points[(k - 1) + 1].nHeight < h
        BY <3>2, <4>1
      <4>3. points[k].nHeight < h
        BY <4>1, <4>2
      <4> QED  BY <1>1, <3>1, <3>2, <4>3
    <3> QED  BY <1>1, <3>2, <3>3, <3>4
  <2>2. CASE ~CacheHits(points, idx, h)
    <3>1. k = FirstAtOrAbove(points, 0, h)
      BY <2>2 DEF FoundAt
    <3>2. /\ k \in 0..n /\ \A j \in 0..(k - 1) : points[j + 1].nHeight < h
          /\ k < n => ~(points[k + 1].nHeight < h)
      BY <1>1, <3>1, RunFacts
    <3> HIDE DEF k, n
    <3>3. ASSUME k > 0 PROVE points[k].nHeight < h
      <4>1. k - 1 \in 0..(k - 1) /\ (k - 1) + 1 = k
        BY <1>1, <3>2, <3>3
      <4>2. points[(k - 1) + 1].nHeight < h
        BY <3>2, <4>1
      <4> QED  BY <4>1, <4>2
    <3> QED  BY <3>2, <3>3
  <2> QED  BY <2>1, <2>2
<1> HIDE DEF k
<1>3. ASSUME NEW i \in 1..n, i <= k PROVE points[i].nHeight < h
  <2>1. k \in 1..n /\ k > 0
    BY <1>1, <1>2, <1>3
  <2>2. points[i].nHeight <= points[k].nHeight /\ points[i].nHeight \in Nat /\ points[k].nHeight \in Nat
    BY <1>1, <1>3, <2>1 DEF Sorted
  <2> QED  BY <1>2, <2>1, <2>2
<1>4. ASSUME NEW i \in 1..n, ~(i <= k) PROVE ~(points[i].nHeight < h)
  <2>1. k + 1 \in 1..n /\ k < n /\ k + 1 <= i
    BY <1>1, <1>2, <1>4
  <2>2. points[k + 1].nHeight <= points[i].nHeight /\ points[i].nHeight \in Nat /\ points[k + 1].nHeight \in Nat
    BY <1>1, <2>1 DEF Sorted
  <2> QED  BY <1>2, <2>1, <2>2
<1> QED  BY <1>2, <1>3, <1>4 DEF k

\* The notarised heights increase along the vector, which ends with `last'.
PointsAdvance ==
    /\ NPOINTS # << >> => last = NPOINTS[Len(NPOINTS)].block
    /\ \A i, j \in 1..Len(NPOINTS) :
          i <= j => nHeight[NPOINTS[i].block] <= nHeight[NPOINTS[j].block]

PInv == TInv /\ PointsAdvance

LEMMA PointMovers ==
    ASSUME TInv, [Next]_vars
    PROVE  \/ NPOINTS' = NPOINTS /\ last' = last
           \/ \E x \in Blocks : UpdateNotarised(x) /\ AcceptsNotarisation(x)
<1> USE DEF notary
<1>1. CASE UNCHANGED vars
  BY <1>1 DEF vars
<1>2. ASSUME NEW b \in Blocks,
             \/ NewHeader(b) \/ RefuseHeader(b) \/ TimePasses(b)
             \/ \E t \in BlockThreads :
                  SkipBlock(t, b) \/ RejectBlock(t, b) \/ AcceptBlock(t, b)
      PROVE  NPOINTS' = NPOINTS /\ last' = last
  BY <1>2 DEF NewHeader, RefuseHeader, TimePasses, SkipBlock, RejectBlock,
              AcceptBlock
<1>3. ASSUME NEW t \in RpcThreads, NEW b \in Blocks,
             Invalidate(t, b) \/ Reconsider(t, b)
      PROVE  NPOINTS' = NPOINTS /\ last' = last
  BY <1>3 DEF Invalidate, Reconsider
<1>4. ASSUME NEW t \in Threads, ThreadStep(t)
      PROVE  (NPOINTS' = NPOINTS /\ last' = last) \/ StepConnect(t)
  BY <1>4 DEF ThreadStep, StopActivating, NothingToActivate, RefuseReorg,
              ShutDown, BeginStep, StepDisconnect, StepRefused, StepInvalid,
              StepFromFuture, InvalidateWalk, InvalidateFinish
<1>5. ASSUME NEW t \in Threads, StepConnect(t)
      PROVE  \/ NPOINTS' = NPOINTS /\ last' = last
             \/ \E x \in Blocks : UpdateNotarised(x) /\ AcceptsNotarisation(x)
  BY <1>5 DEF StepConnect, UpdateNotarised
<1> QED  BY <1>1, <1>2, <1>3, <1>4, <1>5 DEF Next

LEMMA PointsNext ==
    ASSUME PInv, [Next]_vars
    PROVE  PInv'
<1> DEFINE n == Len(NPOINTS)
<1>1. TInv'
  BY TypeNext DEF PInv
<1>2. NPOINTS \in Seq(Checkpoint_Type) /\ n \in Nat /\ \A i \in 1..n : NPOINTS[i].block \in Blocks
  <2>1. NPOINTS \in Seq(Checkpoint_Type)
    BY DEF PInv, TInv, TypeOK
  <2>2. n \in Nat /\ \A i \in 1..n : NPOINTS[i] \in Checkpoint_Type
    BY <2>1
  <2> QED  BY <2>1, <2>2 DEF Checkpoint_Type
<1>3. CASE NPOINTS' = NPOINTS /\ last' = last
  BY <1>1, <1>3 DEF PInv, PointsAdvance
<1>4. ASSUME NEW x \in Blocks, UpdateNotarised(x), AcceptsNotarisation(x)
      PROVE  PInv'
  <2> DEFINE new == [nHeight |-> nHeight[x], block |-> Notarises[x]]
  <2>1. last' = Notarises[x] /\ NPOINTS' = Append(NPOINTS, new)
    BY <1>4 DEF UpdateNotarised
  <2>2. Notarises[x] \in Blocks /\ nHeight[Notarises[x]] > NotarizedHeight /\ new \in Checkpoint_Type
    BY <1>4, TreeAssumption DEF AcceptsNotarisation, PInv, TInv, TypeOK, Checkpoint_Type
  <2>3. new.block = Notarises[x] /\ new.nHeight = nHeight[x]
    OBVIOUS
  <2> HIDE DEF new
  <2>4. /\ NPOINTS' \in Seq(Checkpoint_Type) /\ Len(NPOINTS') = n + 1 /\ NPOINTS'[n + 1] = new
        /\ \A i \in 1..n : NPOINTS'[i] = NPOINTS[i]
    BY <1>2, <2>1, <2>2
  <2> HIDE DEF n
  <2>5. \A i \in 1..(n + 1) : i \in 1..n \/ i = n + 1
    BY <1>2 DEF n
  <2>6. ASSUME NEW i \in 1..n PROVE nHeight[NPOINTS[i].block] < nHeight[new.block]
    <3>1. n \in 1..n /\ NPOINTS # << >> /\ i <= n
      BY <1>2 DEF n
    <3>2. last = NPOINTS[n].block /\ nHeight[NPOINTS[i].block] <= nHeight[NPOINTS[n].block]
      BY <3>1 DEF PInv, PointsAdvance, n
    <3>3. last # NoBlock /\ nHeight[last] \in Nat /\ nHeight[NPOINTS[i].block] \in Nat /\ nHeight[Notarises[x]] \in Nat
      BY <1>2, <2>2, <3>1, <3>2, TreeAssumption
    <3>4. nHeight[last] < nHeight[Notarises[x]]
      BY <2>2, <3>3 DEF NotarizedHeight
    <3> QED  BY <2>3, <3>2, <3>3, <3>4
  <2>7. PointsAdvance'
    <3>1. last' = NPOINTS'[Len(NPOINTS')].block
      BY <2>1, <2>3, <2>4
    <3>2. ASSUME NEW i \in 1..(n + 1), NEW j \in 1..(n + 1), i <= j
          PROVE  nHeight[NPOINTS'[i].block] <= nHeight[NPOINTS'[j].block]
      <4>1. CASE j \in 1..n
        <5>1. i \in 1..n
          BY <1>2, <3>2, <4>1
        <5> QED  BY <2>4, <3>2, <4>1, <5>1 DEF PInv, PointsAdvance, n
      <4>2. CASE j = n + 1
        <5>1. \A b \in Blocks : nHeight[b] \in Nat
          BY TreeAssumption
        <5> QED  BY <1>2, <2>2, <2>3, <2>4, <2>5, <2>6, <4>2, <5>1
      <4> QED  BY <2>5, <4>1, <4>2
    <3> QED  BY <2>4, <3>1, <3>2 DEF PointsAdvance
  <2> QED  BY <1>1, <2>7 DEF PInv
<1> QED  BY <1>3, <1>4, PointMovers DEF PInv

LEMMA PointsInit ==
    ASSUME Init
    PROVE  PInv
<1>1. NPOINTS = << >> /\ 1..Len(NPOINTS) = {}
  BY DEF Init
<1>2. TInv
  BY TypeInit
<1> QED  BY <1>1, <1>2 DEF PInv, PointsAdvance

LEMMA SearchHighest ==
    ASSUME PInv, Sorted(NPOINTS)
    PROVE  HighestCheckpoint
<1> DEFINE n == Len(NPOINTS)
           k == FoundAt(NPOINTS, NPOINTS_last_index, nHeight[tip])
<1>1. NPOINTS \in Seq(Checkpoint_Type) /\ n \in Nat /\ NPOINTS_last_index \in Nat /\ nHeight[tip] \in Nat
  BY TreeAssumption DEF PInv, TInv, TypeOK
<1>2. k \in 0..n /\ \A i \in 1..n : NPOINTS[i].nHeight < nHeight[tip] <=> i <= k
  BY <1>1, SearchExact
<1>3. Checkpoint = IF k = 0 THEN NoBlock ELSE NPOINTS[k]
  BY DEF Checkpoint, NotarizedData
<1> HIDE DEF k
<1> SUFFICES ASSUME NEW i \in 1..n, NPOINTS[i].nHeight < nHeight[tip]
             PROVE  Checkpoint # NoBlock /\ nHeight[Checkpoint.block] >= nHeight[NPOINTS[i].block]
  BY DEF HighestCheckpoint
<1>4. i <= k /\ k # 0 /\ k \in 1..n
  BY <1>1, <1>2
<1>5. Checkpoint = NPOINTS[k] /\ NPOINTS[k] \in Checkpoint_Type /\ NPOINTS[i] \in Checkpoint_Type
  BY <1>1, <1>3, <1>4
<1>6. nHeight[NPOINTS[i].block] <= nHeight[NPOINTS[k].block]
  BY <1>4 DEF PInv, PointsAdvance
<1>7. nHeight[NPOINTS[i].block] \in Nat /\ nHeight[NPOINTS[k].block] \in Nat
  BY <1>5, TreeAssumption DEF Checkpoint_Type
<1> QED  BY <1>5, <1>6, <1>7, NullAssumption

\* As long as no reorganisation has left NPOINTS unsorted, komodo_checkpoint
\* finds the highest checkpoint below the tip, whatever NPOINTS_last_index was
\* left at by the searches before.
THEOREM SortedSearchHighest == Spec => [](Sorted(NPOINTS) => HighestCheckpoint)
<1>1. Init => PInv
  BY PointsInit
<1>2. PInv /\ [Next]_vars => PInv'
  BY PointsNext
<1>3. PInv => (Sorted(NPOINTS) => HighestCheckpoint)
  BY SearchHighest
<1> QED  BY <1>1, <1>2, <1>3, PTL DEF Spec

-----------------------------------------------------------------------------
(* Linking: nChainTx and the sequence ids.  A block is linked with its     *)
(* whole chain below it, waits in mapBlocksUnlinked only until then, and   *)
(* its sequence id is below nBlockSequenceId, so that the ids handed out   *)
(* next are new.                                                           *)

LinkedClosed ==
    \A b \in Blocks : Linked(b) => /\ b \in haveData
                                   /\ \A c \in Chain[b] : Linked(c)

SequenceOrdered ==
    \A b, c \in Blocks :
        b # c /\ Linked(b) /\ Linked(c) =>
            /\ nSequenceId[b] # nSequenceId[c]
            /\ b \in Chain[c] => nSequenceId[b] < nSequenceId[c]

LInv ==
    /\ TInv
    /\ Linked(Genesis)
    /\ LinkedClosed
    /\ SequenceOrdered
    /\ \A b \in Blocks : nSequenceId[b] < nBlockSequenceId
    /\ \A b \in mapBlocksUnlinked : ~Linked(b)

\* The sequence ids handed out are new, distinct, and grow with the height.
LEMMA LinkOrderFacts ==
    ASSUME NEW S, S \subseteq Blocks, nBlockSequenceId \in Nat,
           NEW order \in LinkOrders(S)
    PROVE  /\ \A x \in S : /\ order[x] \in Nat
                           /\ nBlockSequenceId <= order[x]
                           /\ order[x] < nBlockSequenceId + Cardinality(S)
           /\ \A x, y \in S : nHeight[x] < nHeight[y] => order[x] < order[y]
           /\ \A x, y \in S : x # y => order[x] # order[y]
<1> DEFINE Level(x) == {y \in S : nHeight[y] = nHeight[x]}
           top == Max({Cardinality(Level(x)) : x \in S})
           Before(tie, x) == {y \in S : \/ nHeight[y] < nHeight[x]
                                        \/ y \in Level(x) /\ tie[y] < tie[x]}
<1>1. PICK tie \in [S -> 1..top] :
          /\ \A x \in S : \A y \in Level(x) \ {x} : tie[x] # tie[y]
          /\ order = [x \in S |-> nBlockSequenceId + Cardinality(Before(tie, x))]
  BY DEF LinkOrders
<1>2. /\ \A x \in S : tie[x] \in Int
      /\ \A x \in S : nHeight[x] \in Nat
  <2> HIDE DEF top
  <2>1. 1..top \subseteq Int
    OBVIOUS
  <2> QED  BY <1>1, <2>1, TreeAssumption
<1>3. IsFiniteSet(S)
  BY TreeAssumption, FS_Subset
<1> DEFINE Less(y, x) == \/ nHeight[y] < nHeight[x]
                         \/ nHeight[y] = nHeight[x] /\ tie[y] < tie[x]
<1>4. \A x, y \in S : y \in Before(tie, x) <=> Less(y, x)
  OBVIOUS
<1>5. ASSUME NEW x \in S
      PROVE  /\ IsFiniteSet(Before(tie, x)) /\ Cardinality(Before(tie, x)) \in Nat
             /\ Cardinality(Before(tie, x)) < Cardinality(S)
  <2>1. Before(tie, x) \in SUBSET S
    OBVIOUS
  <2>2. Before(tie, x) # S
    BY <1>2, <1>4
  <2> HIDE DEF Before
  <2>3. /\ IsFiniteSet(Before(tie, x))
        /\ Cardinality(Before(tie, x)) <= Cardinality(S)
        /\ Cardinality(Before(tie, x)) # Cardinality(S)
    BY <1>3, <2>1, <2>2, FS_Subset
  <2>4. Cardinality(Before(tie, x)) \in Nat /\ Cardinality(S) \in Nat
    BY <1>3, <2>3, FS_CardinalityType
  <2> QED  BY <2>3, <2>4
<1>6. ASSUME NEW x \in S, NEW y \in S, Less(x, y)
      PROVE  Cardinality(Before(tie, x)) < Cardinality(Before(tie, y))
  <2>1. Before(tie, x) \in SUBSET Before(tie, y)
    BY <1>2, <1>6
  <2>2. Before(tie, x) # Before(tie, y)
    <3>1. ~Less(x, x)
      BY <1>2
    <3> HIDE DEF Less, Before
    <3> QED  BY <1>4, <1>6, <3>1
  <2> HIDE DEF Before
  <2>3. /\ Cardinality(Before(tie, x)) <= Cardinality(Before(tie, y))
        /\ Cardinality(Before(tie, x)) # Cardinality(Before(tie, y))
    BY <1>5, <2>1, <2>2, FS_Subset
  <2>4. /\ Cardinality(Before(tie, x)) \in Nat
        /\ Cardinality(Before(tie, y)) \in Nat
    BY <1>5
  <2> QED  BY <2>3, <2>4
<1>7. \A x, y \in S : x # y => Less(x, y) \/ Less(y, x)
  BY <1>1, <1>2
<1>8. \A x \in S : order[x] = nBlockSequenceId + Cardinality(Before(tie, x))
  BY <1>1
<1>9. Cardinality(S) \in Nat
  BY <1>3, FS_CardinalityType
<1>10. \A x, y \in S : nHeight[x] < nHeight[y] => Less(x, y)
  OBVIOUS
<1> HIDE DEF Before, Less
<1>11. \A x, y \in S : Less(x, y) => order[x] < order[y]
  BY <1>5, <1>6, <1>8
<1>12. \A x \in S : /\ order[x] \in Nat /\ nBlockSequenceId <= order[x]
                     /\ order[x] < nBlockSequenceId + Cardinality(S)
  BY <1>5, <1>8, <1>9
<1> QED  BY <1>7, <1>10, <1>11, <1>12

\* ReceivedBlockTransactions links b with the waiting descendants it reaches:
\* none of them was linked, and what is below them is linked with them.
LEMMA NewlyLinkedFacts ==
    ASSUME LInv, NEW b \in Blocks, b \notin haveData, Linked(pprev[b])
    PROVE  /\ b # Genesis /\ pprev[b] \in Blocks
           /\ NewlyLinked(b) \subseteq Blocks /\ b \in NewlyLinked(b)
           /\ NewlyLinked(b) \subseteq haveData \cup {b}
           /\ \A x \in NewlyLinked(b) :
                  /\ ~Linked(x)
                  /\ \A c \in Chain[x] : c \in NewlyLinked(b) \/ Linked(c)
<1>1. b # Genesis
  BY DEF LInv, LinkedClosed
<1>2. pprev[b] \in Blocks /\ b \in Chain[b]
  BY <1>1, ChainFacts
<1>3. ~Linked(b)
  BY DEF LInv, LinkedClosed
<1>4. /\ NewlyLinked(b) \subseteq Blocks
      /\ NewlyLinked(b) \subseteq haveData \cup {b}
      /\ b \in NewlyLinked(b)
  BY <1>2 DEF NewlyLinked, LInv, TInv, TypeOK
<1>5. ASSUME NEW x \in NewlyLinked(b), NEW c \in Chain[x]
      PROVE  c \in NewlyLinked(b) \/ Linked(c)
  <2>1. b \in Chain[x] /\ Chain[x] \ Chain[b] \subseteq mapBlocksUnlinked
    BY <1>5 DEF NewlyLinked
  <2>2. x \in Blocks /\ c \in Blocks
    BY <1>4, <1>5, ChainFacts
  <2>3. CASE c \in Chain[b]
    <3>1. c = b \/ c \in Chain[pprev[b]]
      BY <1>1, <2>3, ChainAssumption
    <3> QED  BY <1>2, <1>4, <3>1 DEF LInv, LinkedClosed
  <2>4. CASE c \notin Chain[b]
    <3>1. b \in Chain[c] /\ c \in mapBlocksUnlinked
      BY <2>1, <2>2, <2>4, Comparable
    <3>2. Chain[c] \subseteq Chain[x]
      BY <2>2, ChainAssumption
    <3> QED  BY <2>1, <3>1, <3>2 DEF NewlyLinked
  <2> QED  BY <2>3, <2>4
<1>6. \A x \in NewlyLinked(b) : ~Linked(x)
  BY <1>3 DEF NewlyLinked, LInv
<1> QED  BY <1>1, <1>2, <1>4, <1>5, <1>6

\* Only ReceivedBlockTransactions links blocks and stores their data.
LEMMA LinkMovers ==
    ASSUME [Next]_vars
    PROVE  \/ UNCHANGED <<haveData, nSequenceId, nBlockSequenceId,
                          mapBlocksUnlinked>>
           \/ \E t \in BlockThreads, b \in Blocks : AcceptBlock(t, b)
<1> USE DEF index
<1>1. CASE UNCHANGED vars
  BY <1>1 DEF vars
<1>2. ASSUME NEW b \in Blocks,
             \/ NewHeader(b) \/ RefuseHeader(b) \/ TimePasses(b)
             \/ \E t \in BlockThreads : SkipBlock(t, b) \/ RejectBlock(t, b)
      PROVE  UNCHANGED <<haveData, nSequenceId, nBlockSequenceId,
                         mapBlocksUnlinked>>
  BY <1>2 DEF NewHeader, RefuseHeader, TimePasses, SkipBlock, RejectBlock
<1>3. ASSUME NEW t \in RpcThreads, NEW b \in Blocks,
             Invalidate(t, b) \/ Reconsider(t, b)
      PROVE  UNCHANGED <<haveData, nSequenceId, nBlockSequenceId,
                         mapBlocksUnlinked>>
  BY <1>3 DEF Invalidate, Reconsider
<1>4. ASSUME NEW t \in Threads, ThreadStep(t)
      PROVE  UNCHANGED <<haveData, nSequenceId, nBlockSequenceId,
                         mapBlocksUnlinked>>
  BY <1>4 DEF ThreadStep, StopActivating, NothingToActivate, RefuseReorg,
              ShutDown, BeginStep, StepDisconnect, StepRefused, StepConnect,
              StepInvalid, StepFromFuture, InvalidateWalk, InvalidateFinish
<1> QED  BY <1>1, <1>2, <1>3, <1>4 DEF Next

\* What ReceivedBlockTransactions does when it links blocks.
LEMMA LinkBlocksFacts ==
    ASSUME LInv, NEW b \in Blocks, b \notin haveData, Linked(pprev[b]),
           haveData' = haveData \cup {b}, LinkBlocks(b)
    PROVE  /\ \A x \in Blocks : x \notin NewlyLinked(b) =>
                  nSequenceId'[x] = nSequenceId[x]
           /\ \A x \in NewlyLinked(b) : /\ nSequenceId'[x] # 0
                                        /\ nBlockSequenceId <= nSequenceId'[x]
                                        /\ nSequenceId'[x] < nBlockSequenceId'
                                        /\ nSequenceId'[x] \in Nat
           /\ \A x, y \in NewlyLinked(b) :
                  nHeight[x] < nHeight[y] => nSequenceId'[x] < nSequenceId'[y]
           /\ \A x, y \in NewlyLinked(b) :
                  x # y => nSequenceId'[x] # nSequenceId'[y]
           /\ nBlockSequenceId <= nBlockSequenceId'
           /\ mapBlocksUnlinked' = mapBlocksUnlinked \ NewlyLinked(b)
           /\ setBlockIndexCandidates' = setBlockIndexCandidates \cup
                  {x \in NewlyLinked(b) : ~BetterBy(nSequenceId', tip, x)}
<1> DEFINE S == NewlyLinked(b)
<1>1. S \subseteq Blocks
  BY NewlyLinkedFacts
<1>2. PICK order \in LinkOrders(S) :
          /\ nSequenceId' = [x \in Blocks |-> IF x \in S THEN order[x]
                                                         ELSE nSequenceId[x]]
          /\ nBlockSequenceId' = nBlockSequenceId + Cardinality(S)
          /\ setBlockIndexCandidates' = setBlockIndexCandidates \cup
                 {x \in S : ~BetterBy(nSequenceId', tip, x)}
          /\ mapBlocksUnlinked' = mapBlocksUnlinked \ S
  BY DEF LinkBlocks
<1>3. /\ nBlockSequenceId \in Nat /\ nBlockSequenceId # 0
      /\ Genesis \in Blocks /\ nSequenceId[Genesis] \in Nat
      /\ Cardinality(S) \in Nat
  <2>1. Cardinality(S) \in Nat
    BY <1>1, TreeAssumption, FS_Subset, FS_CardinalityType
  <2> HIDE DEF S
  <2> QED  BY <2>1, TreeAssumption DEF LInv, TInv, TypeOK
<1> HIDE DEF S
<1>4. /\ \A x \in S : /\ order[x] \in Nat
                      /\ nBlockSequenceId <= order[x]
                      /\ order[x] < nBlockSequenceId + Cardinality(S)
      /\ \A x, y \in S : nHeight[x] < nHeight[y] => order[x] < order[y]
      /\ \A x, y \in S : x # y => order[x] # order[y]
  BY <1>1, <1>3, LinkOrderFacts
<1>5. /\ \A x \in Blocks : x \notin S => nSequenceId'[x] = nSequenceId[x]
      /\ \A x \in S : nSequenceId'[x] = order[x]
  BY <1>1, <1>2
<1> QED  BY <1>2, <1>3, <1>4, <1>5 DEF S

\* Storing a block keeps the links sound, whether or not it completes a chain.
LEMMA StoreLinks ==
    ASSUME LInv, NEW b \in Blocks, b \notin haveData, StoreBlock(b), TInv'
    PROVE  LInv'
<1> USE DEF Linked
<1>1. haveData' = haveData \cup {b} /\ ~Linked(b)
  BY DEF StoreBlock, LInv, LinkedClosed
<1>2. CASE Linked(pprev[b]) /\ LinkBlocks(b)
  <2> DEFINE S == NewlyLinked(b)
  <2>1. /\ S \subseteq Blocks /\ S \subseteq haveData'
        /\ \A x \in S : ~Linked(x) /\ \A c \in Chain[x] : c \in S \/ Linked(c)
    BY <1>1, <1>2, NewlyLinkedFacts
  <2>2. /\ \A x \in Blocks : x \notin S => nSequenceId'[x] = nSequenceId[x]
        /\ \A x \in S : /\ nSequenceId'[x] # 0
                        /\ nBlockSequenceId <= nSequenceId'[x]
                        /\ nSequenceId'[x] < nBlockSequenceId'
                        /\ nSequenceId'[x] \in Nat
        /\ \A x, y \in S :
               nHeight[x] < nHeight[y] => nSequenceId'[x] < nSequenceId'[y]
        /\ \A x, y \in S : x # y => nSequenceId'[x] # nSequenceId'[y]
        /\ nBlockSequenceId <= nBlockSequenceId'
        /\ mapBlocksUnlinked' = mapBlocksUnlinked \ S
    BY <1>1, <1>2, LinkBlocksFacts
  <2> HIDE DEF S
  <2>3. \A x \in Blocks : Linked(x)' <=> x \in S \/ Linked(x)
    BY <2>1, <2>2
  <2>4. LinkedClosed'
    <3> SUFFICES ASSUME NEW x \in Blocks, Linked(x)'
                 PROVE  x \in haveData' /\ \A c \in Chain[x] : Linked(c)'
      BY DEF LinkedClosed
    <3>1. Chain[x] \subseteq Blocks
      BY ChainFacts
    <3> QED  BY <1>1, <2>1, <2>3, <3>1 DEF LInv, LinkedClosed
  <2>5. /\ nBlockSequenceId \in Nat /\ nBlockSequenceId' \in Nat
        /\ \A x \in Blocks : /\ nSequenceId[x] \in Nat /\ nSequenceId'[x] \in Nat
                             /\ nSequenceId[x] < nBlockSequenceId
    BY DEF LInv, TInv, TypeOK
  <2>6. \A x \in Blocks : nSequenceId'[x] < nBlockSequenceId'
    BY <2>2, <2>5
  <2>7. ASSUME NEW x \in Blocks, NEW y \in Blocks, x # y, Linked(x)', Linked(y)'
        PROVE  /\ nSequenceId'[x] # nSequenceId'[y]
               /\ x \in Chain[y] => nSequenceId'[x] < nSequenceId'[y]
    <3>1. CASE x \in S /\ y \in S
      BY <2>2, <2>7, <3>1, StrictHeight
    <3>2. CASE x \in S /\ y \notin S
      <4>1. Linked(y) /\ x \notin Chain[y]
        BY <2>1, <2>3, <2>7, <3>2 DEF LInv, LinkedClosed
      <4> QED  BY <2>2, <2>5, <3>2, <4>1
    <3>3. CASE x \notin S /\ y \in S
      BY <2>2, <2>5, <3>3
    <3>4. CASE x \notin S /\ y \notin S
      BY <2>2, <2>3, <2>7, <3>4 DEF LInv, SequenceOrdered
    <3> QED  BY <3>1, <3>2, <3>3, <3>4
  <2>8. SequenceOrdered'
    BY <2>7 DEF SequenceOrdered
  <2>9. \A x \in mapBlocksUnlinked' : ~Linked(x)'
    <3>1. mapBlocksUnlinked \subseteq Blocks
      BY DEF LInv, TInv, TypeOK
    <3> QED  BY <2>2, <2>3, <3>1 DEF LInv
  <2>10. Linked(Genesis)'
    BY <2>3, TreeAssumption DEF LInv
  <2> QED  BY <2>4, <2>6, <2>8, <2>9, <2>10 DEF LInv
<1>3. CASE AwaitParent(b)
  <2>1. /\ mapBlocksUnlinked' \subseteq mapBlocksUnlinked \cup {b}
        /\ UNCHANGED <<nSequenceId, nBlockSequenceId>>
    BY <1>3 DEF AwaitParent
  <2> QED  BY <1>1, <2>1 DEF LInv, LinkedClosed, SequenceOrdered
<1> QED  BY <1>2, <1>3 DEF StoreBlock

LEMMA LinkInit ==
    Init => LInv
<1> SUFFICES ASSUME Init PROVE LInv
  OBVIOUS
<1>1. /\ Genesis \in Blocks /\ Chain[Genesis] = {Genesis} /\ Linked(Genesis)
      /\ haveData = {Genesis} /\ mapBlocksUnlinked = {}
      /\ \A b \in Blocks : nSequenceId[b] < nBlockSequenceId
      /\ \A b \in Blocks : Linked(b) => b = Genesis
  BY TreeAssumption, ChainAssumption DEF Init, Linked
<1> QED  BY <1>1, TypeInit DEF LInv, LinkedClosed, SequenceOrdered

LEMMA LinkNext ==
    LInv /\ [Next]_vars => LInv'
<1> SUFFICES ASSUME LInv, [Next]_vars PROVE LInv'
  OBVIOUS
<1>1. TInv'
  BY TypeNext DEF LInv
<1>2. CASE UNCHANGED <<haveData, nSequenceId, nBlockSequenceId, mapBlocksUnlinked>>
  BY <1>1, <1>2 DEF LInv, LinkedClosed, SequenceOrdered, Linked
<1>3. ASSUME NEW t \in BlockThreads, NEW b \in Blocks, AcceptBlock(t, b)
      PROVE  LInv'
  <2>1. b \notin haveData /\ StoreBlock(b)
    BY <1>3 DEF AcceptBlock, SkipsBlock
  <2> QED  BY <1>1, <2>1, StoreLinks
<1> QED  BY <1>2, <1>3, LinkMovers

\* ReceivedBlockTransactions, in whatever order the data of a tree arrives and
\* whatever the operator does in between: nChainTx is set only over a complete
\* chain, and no two linked blocks share a sequence id, so the candidates are
\* totally ordered without looking at addresses.
THEOREM LinksSound ==
    Spec => []LinkedSoundly
<1>1. LInv => LinkedSoundly
  <2> SUFFICES ASSUME LInv PROVE LinkedSoundly
    OBVIOUS
  <2>1. mapBlockIndex \subseteq Blocks
    BY DEF LInv, TInv, TypeOK
  <2>2. ASSUME NEW b \in mapBlockIndex, Linked(b)
        PROVE  Chain[b] \subseteq haveData
    BY <2>1, <2>2, ChainFacts DEF LInv, LinkedClosed
  <2> QED  BY <2>1, <2>2 DEF LinkedSoundly, LInv, SequenceOrdered
<1> QED  BY <1>1, LinkInit, LinkNext, PTL DEF Spec

-----------------------------------------------------------------------------
(* The candidates and the active chain.  The tip is linked, and so is the  *)
(* block a step aims at, so ConnectTip only ever meets linked blocks; a    *)
(* block has BLOCK_VALID_CONTEXT only if it passes ContextualCheckBlock.   *)

JobLinked == csMain # NoJob /\ csMain.op = "step" => Linked(csMain.block)

ContextChecked ==
    \A b \in Blocks : nValid[b] = BLOCK_VALID_CONTEXT => b \notin BadContext

CInv ==
    /\ LInv
    /\ Linked(tip)
    /\ CandidatesSound
    /\ JobLinked

VInv ==
    /\ CInv
    /\ ContextChecked
    /\ Chain[tip] \cap (BadConnect \cup BadContext) = {}

\* CBlockIndexWorkComparator orders the blocks: a strict order, in which two
\* blocks that are not ordered compare alike with every third one.
LEMMA BetterOrder ==
    ASSUME NEW seq \in [Blocks -> Nat], NEW x \in Blocks, NEW y \in Blocks,
           NEW z \in Blocks
    PROVE  /\ ~BetterBy(seq, x, x)
           /\ BetterBy(seq, x, y) => ~BetterBy(seq, y, x)
           /\ BetterBy(seq, x, y) /\ BetterBy(seq, y, z) => BetterBy(seq, x, z)
           /\ BetterBy(seq, x, z) => BetterBy(seq, x, y) \/ BetterBy(seq, y, z)
           /\ pprev[x] = y => BetterBy(seq, x, y)
<1>1. /\ nChainWork[x] \in Nat /\ nChainWork[y] \in Nat /\ nChainWork[z] \in Nat
      /\ seq[x] \in Nat /\ seq[y] \in Nat /\ seq[z] \in Nat
  BY TreeAssumption
<1>2. pprev[x] = y => nChainWork[x] > nChainWork[y]
  BY TreeAssumption
<1> QED  BY <1>1, <1>2 DEF BetterBy

\* Storing a block adds candidates that are linked and not worse than the tip.
LEMMA StoreCandidates ==
    ASSUME CInv, NEW b \in Blocks, b \notin haveData, StoreBlock(b), LInv',
           tip' = tip
    PROVE  CandidatesSound' /\ \A x \in Blocks : Linked(x) => Linked(x)'
<1> USE DEF Linked
<1>1. /\ tip \in Blocks /\ setBlockIndexCandidates \subseteq Blocks
      /\ haveData' = haveData \cup {b}
  BY DEF CInv, LInv, TInv, TypeOK, StoreBlock
<1>2. CASE Linked(pprev[b]) /\ LinkBlocks(b)
  <2> DEFINE S == NewlyLinked(b)
  <2>1. \A x \in S : ~Linked(x)
    BY <1>2, NewlyLinkedFacts DEF CInv
  <2>2. /\ \A x \in Blocks : x \notin S => nSequenceId'[x] = nSequenceId[x]
        /\ \A x \in S : nSequenceId'[x] # 0
        /\ setBlockIndexCandidates' = setBlockIndexCandidates \cup
               {x \in S : ~BetterBy(nSequenceId', tip, x)}
    BY <1>1, <1>2, LinkBlocksFacts DEF CInv
  <2> HIDE DEF S
  <2>3. \A x \in Blocks : Linked(x) => nSequenceId'[x] = nSequenceId[x]
    BY <2>1, <2>2
  <2>4. ASSUME NEW c \in setBlockIndexCandidates
        PROVE  Linked(c)' /\ ~BetterBy(nSequenceId', tip, c)
    BY <1>1, <2>3 DEF CInv, CandidatesSound, Better, BetterBy
  <2> QED  BY <2>2, <2>3, <2>4 DEF CandidatesSound, Better
<1>3. CASE AwaitParent(b)
  BY <1>3 DEF AwaitParent, CInv, CandidatesSound, Better, BetterBy
<1> QED  BY <1>2, <1>3 DEF StoreBlock

\* DisconnectTip leaves a tip with less work: no candidate becomes worse.
LEMMA DisconnectCandidates ==
    ASSUME CInv, tip # Genesis, tip' = pprev[tip], nSequenceId' = nSequenceId,
           setBlockIndexCandidates' \subseteq setBlockIndexCandidates
    PROVE  CandidatesSound' /\ Linked(tip)'
<1>1. /\ tip \in Blocks /\ pprev[tip] \in Blocks /\ pprev[tip] \in Chain[tip]
      /\ setBlockIndexCandidates \subseteq Blocks
      /\ nSequenceId \in [Blocks -> Nat]
  BY ChainFacts DEF CInv, LInv, TInv, TypeOK
<1>2. Linked(tip)'
  BY <1>1 DEF CInv, LInv, LinkedClosed, Linked
<1>3. ASSUME NEW c \in setBlockIndexCandidates
      PROVE  ~Better(pprev[tip], c)
  <2>1. ~Better(tip, c) /\ c \in Blocks
    BY <1>1 DEF CInv, CandidatesSound
  <2> QED  BY <1>1, <2>1, BetterOrder DEF Better
<1> QED
  BY <1>2, <1>3 DEF CInv, CandidatesSound, Linked, Better, BetterBy

\* The block a step connects is linked.
LEMMA ConnectLinked ==
    ASSUME CInv, NEW t \in Threads, NEW x, ConnectsNext(t, x)
    PROVE  x \in Blocks /\ Linked(x)
<1>1. x \in Chain[csMain.block] /\ Linked(csMain.block) /\ csMain \in Job
  BY ConnectTypes DEF ConnectsNext, Stepping, CInv, LInv, JobLinked
<1> QED  BY <1>1, ConnectTypes DEF Job, CInv, LInv, LinkedClosed

\* The network's and the clock's actions keep the candidates sound.
LEMMA NetworkCandidates ==
    ASSUME CInv, LInv', NEW b \in Blocks,
           \/ NewHeader(b) \/ RefuseHeader(b) \/ TimePasses(b)
           \/ \E t \in BlockThreads :
                  SkipBlock(t, b) \/ RejectBlock(t, b) \/ AcceptBlock(t, b)
    PROVE  CInv'
<1>1. ASSUME \/ NewHeader(b) \/ RefuseHeader(b) \/ TimePasses(b)
             \/ \E t \in BlockThreads : SkipBlock(t, b) \/ RejectBlock(t, b)
      PROVE  UNCHANGED <<nSequenceId, setBlockIndexCandidates, tip, csMain>>
  BY <1>1 DEF NewHeader, RefuseHeader, TimePasses, SkipBlock, RejectBlock, index
<1>2. CASE UNCHANGED <<nSequenceId, setBlockIndexCandidates, tip, csMain>>
  BY <1>2 DEF CInv, CandidatesSound, JobLinked, Linked, Better, BetterBy
<1>3. ASSUME NEW t \in BlockThreads, AcceptBlock(t, b) PROVE CInv'
  <2>1. /\ b \notin haveData /\ StoreBlock(b)
        /\ tip' = tip /\ csMain' = csMain /\ csMain = NoJob
    BY <1>3 DEF AcceptBlock, SkipsBlock
  <2>2. CandidatesSound' /\ \A x \in Blocks : Linked(x) => Linked(x)'
    BY <2>1, StoreCandidates
  <2> QED  BY <2>1, <2>2 DEF CInv, JobLinked, LInv, TInv, TypeOK, Linked
<1> QED  BY <1>1, <1>2, <1>3

\* ActivateBestChain and InvalidateBlock keep the candidates sound.
LEMMA ActivationCandidates ==
    ASSUME CInv, LInv', NEW t \in Threads, ThreadStep(t)
    PROVE  CInv'
<1> USE DEF index
<1>1. nSequenceId' = nSequenceId
  BY DEF ThreadStep, StopActivating, NothingToActivate, RefuseReorg,
         ShutDown, BeginStep, StepDisconnect, StepRefused, StepConnect,
         StepInvalid, StepFromFuture, InvalidateWalk, InvalidateFinish
<1>2. ASSUME tip' = tip, JobLinked',
             \A c \in setBlockIndexCandidates' :
                 \/ c \in setBlockIndexCandidates
                 \/ Linked(c) /\ ~Better(tip, c)
      PROVE  CInv'
  BY <1>1, <1>2 DEF CInv, CandidatesSound, Linked, Better, BetterBy
<1>3. csMain' \in {csMain, NoJob} => JobLinked'
  BY <1>1 DEF CInv, JobLinked, Linked
<1>4. CASE StopActivating(t)
  BY <1>2, <1>3, <1>4 DEF StopActivating
<1>5. CASE NothingToActivate(t)
  BY <1>2, <1>3, <1>5 DEF NothingToActivate, PurgedCandidates
<1>6. CASE RefuseReorg(t)
  BY <1>2, <1>3, <1>6 DEF RefuseReorg, PurgedCandidates, Readmitted
<1>7. CASE ShutDown(t)
  BY <1>2, <1>3, <1>7 DEF ShutDown, PurgedCandidates
<1>8. CASE BeginStep(t)
  <2>1. PICK most \in setBlockIndexCandidates :
            /\ csMain' = [op |-> "step", thread |-> t, block |-> most, old |-> tip]
            /\ setBlockIndexCandidates' = PurgedCandidates(most)
            /\ tip' = tip
    BY <1>8 DEF BeginStep
  <2>2. JobLinked'
    BY <1>1, <2>1 DEF CInv, CandidatesSound, JobLinked, Linked
  <2> QED  BY <1>2, <2>1, <2>2 DEF PurgedCandidates
<1>9. CASE StepDisconnect(t)
  <2>1. tip # Genesis
    BY <1>9, ChainAssumption
       DEF StepDisconnect, Stepping, Job, CInv, LInv, TInv, TypeOK
  <2> QED
    BY <1>1, <1>3, <1>9, <2>1, DisconnectCandidates DEF StepDisconnect, CInv
<1>10. CASE StepRefused(t)
  BY <1>2, <1>3, <1>10 DEF StepRefused, Return
<1>11. CASE StepConnect(t)
  <2>1. PICK x \in Blocks :
            /\ ConnectsNext(t, x) /\ tip' = x
            /\ setBlockIndexCandidates' =
                   {c \in setBlockIndexCandidates : ~Better(x, c)}
            /\ csMain' \in {csMain, NoJob}
    BY <1>11 DEF StepConnect, Return
  <2>2. Linked(x)
    BY <2>1, ConnectLinked
  <2> QED
    BY <1>1, <1>3, <2>1, <2>2 DEF CInv, CandidatesSound, Linked, Better, BetterBy
<1>12. CASE StepInvalid(t)
  BY <1>2, <1>3, <1>12 DEF StepInvalid, Return
<1>13. CASE StepFromFuture(t)
  BY <1>2, <1>3, <1>13 DEF StepFromFuture, Return
<1>14. CASE InvalidateWalk(t)
  <2>1. tip # Genesis
    BY <1>14, ChainAssumption
       DEF InvalidateWalk, Invalidating, Job, CInv, LInv, TInv, TypeOK
  <2>2. /\ setBlockIndexCandidates' \subseteq setBlockIndexCandidates
        /\ csMain' \in {csMain, NoJob}
        /\ tip' = tip \/ tip' = pprev[tip]
    BY <1>14 DEF InvalidateWalk, Return
  <2> QED  BY <1>1, <1>2, <1>3, <2>1, <2>2, DisconnectCandidates DEF CInv
<1>15. CASE InvalidateFinish(t)
  BY <1>2, <1>3, <1>15 DEF InvalidateFinish, Return, Readmitted
<1> QED
  BY <1>4, <1>5, <1>6, <1>7, <1>8, <1>9, <1>10, <1>11, <1>12, <1>13, <1>14, <1>15
     DEF ThreadStep

\* The operator's calls keep the candidates sound.
LEMMA OperatorCandidates ==
    ASSUME CInv, LInv', NEW t \in RpcThreads, NEW b \in Blocks,
           Invalidate(t, b) \/ Reconsider(t, b)
    PROVE  CInv'
<1>1. nSequenceId' = nSequenceId /\ tip' = tip
  BY DEF Invalidate, Reconsider, index
<1>2. JobLinked'
  BY <1>1 DEF Invalidate, Reconsider, CInv, JobLinked, Linked
<1>3. ASSUME NEW c \in setBlockIndexCandidates'
      PROVE  Linked(c) /\ ~Better(tip, c)
  <2>1. CASE c \in setBlockIndexCandidates
    BY <2>1 DEF CInv, CandidatesSound
  <2>2. CASE c \notin setBlockIndexCandidates
    <3>1. c \in Reset(b) /\ Linked(c) /\ Better(c, tip)
      BY <1>3, <2>2 DEF Invalidate, Reconsider
    <3>2. c \in Blocks /\ tip \in Blocks /\ nSequenceId \in [Blocks -> Nat]
      BY <3>1 DEF Reset, CInv, LInv, TInv, TypeOK
    <3> QED  BY <3>1, <3>2, BetterOrder DEF Better
  <2> QED  BY <2>1, <2>2
<1> QED
  BY <1>1, <1>2, <1>3 DEF CInv, CandidatesSound, Linked, Better, BetterBy

LEMMA CandidatesInit ==
    Init => CInv
<1> SUFFICES ASSUME Init PROVE CInv
  OBVIOUS
<1>1. LInv /\ Linked(Genesis)
  BY LinkInit DEF LInv
<1>2. Genesis \in Blocks /\ nSequenceId \in [Blocks -> Nat]
  BY <1>1, TreeAssumption DEF LInv, TInv, TypeOK
<1>3. ~Better(Genesis, Genesis)
  BY <1>2, BetterOrder DEF Better
<1> QED  BY <1>1, <1>3 DEF Init, CInv, CandidatesSound, JobLinked

LEMMA CandidatesNext ==
    CInv /\ [Next]_vars => CInv'
<1> SUFFICES ASSUME CInv, [Next]_vars PROVE CInv'
  OBVIOUS
<1>1. LInv'
  BY LinkNext DEF CInv
<1>2. CASE UNCHANGED vars
  BY <1>1, <1>2 DEF vars, index, CInv, CandidatesSound, JobLinked, Linked,
                    Better, BetterBy
<1>3. CASE Next
  BY <1>1, <1>3, NetworkCandidates, ActivationCandidates, OperatorCandidates
     DEF Next
<1> QED  BY <1>2, <1>3

\* CheckBlockIndex's assertion about setBlockIndexCandidates, at every step of
\* every reorganisation and of every call of the operator.
THEOREM CandidatesAlwaysSound ==
    Spec => []CandidatesSound
<1>1. CInv => CandidatesSound
  BY DEF CInv
<1> QED  BY <1>1, CandidatesInit, CandidatesNext, PTL DEF Spec

\* Only a block that passes ContextualCheckBlock gets BLOCK_VALID_CONTEXT.
LEMMA ContextNext ==
    ASSUME TInv, ContextChecked, [Next]_vars
    PROVE  ContextChecked'
<1> USE DEF index, ContextChecked
<1>1. ASSUME nValid' = nValid PROVE ContextChecked'
  BY <1>1
<1>2. ASSUME NEW b \in Blocks, NEW v, nValid' = [nValid EXCEPT ![b] = v],
             v = BLOCK_VALID_CONTEXT => b \notin BadContext
      PROVE  ContextChecked'
  BY <1>2 DEF TInv, TypeOK
<1>3. \A b \in Blocks :
          RaiseValidity(nValid[b], BLOCK_VALID_TREE, FALSE) = BLOCK_VALID_CONTEXT
              => b \notin BadContext
  BY DEF RaiseValidity, BLOCK_VALID_TREE, BLOCK_VALID_CONTEXT
<1>4. \A b \in BadContext : \A isFailed :
          RaiseValidity(BLOCK_VALID_TREE, BLOCK_VALID_TRANSACTIONS, isFailed)
              # BLOCK_VALID_CONTEXT
  BY DEF RaiseValidity, BLOCK_VALID_TREE, BLOCK_VALID_CONTEXT,
         BLOCK_VALID_TRANSACTIONS
<1>5. ASSUME NEW b \in Blocks, NewHeader(b) PROVE ContextChecked'
  <2>1. BLOCK_VALID_TREE # BLOCK_VALID_CONTEXT
    BY DEF BLOCK_VALID_TREE, BLOCK_VALID_CONTEXT
  <2> QED  BY <1>1, <1>2, <1>5, <2>1 DEF NewHeader
<1>6. ASSUME NEW b \in Blocks, RefuseHeader(b) \/ TimePasses(b)
      PROVE  ContextChecked'
  BY <1>1, <1>6 DEF RefuseHeader, TimePasses
<1>7. ASSUME NEW t \in BlockThreads, NEW b \in Blocks,
             SkipBlock(t, b) \/ RejectBlock(t, b)
      PROVE  ContextChecked'
  <2>1. nValid' = [nValid EXCEPT ![b] = RaiseValidity(nValid[b], BLOCK_VALID_TREE, FALSE)]
    BY <1>7 DEF SkipBlock, RejectBlock
  <2> QED  BY <1>2, <1>3, <2>1
<1>8. ASSUME NEW t \in BlockThreads, NEW b \in Blocks, AcceptBlock(t, b)
      PROVE  ContextChecked'
  <2> DEFINE v == RaiseValidity(IF b \in BadContext THEN BLOCK_VALID_TREE
                                ELSE OrContext(BLOCK_VALID_TREE),
                                BLOCK_VALID_TRANSACTIONS, b \in failed')
  <2>1. nValid' = [nValid EXCEPT ![b] = v]
    BY <1>8 DEF AcceptBlock, StoreBlock
  <2>2. v = BLOCK_VALID_CONTEXT => b \notin BadContext
    BY <1>4
  <2> HIDE DEF v
  <2> QED  BY <1>2, <2>1, <2>2
<1>9. ASSUME NEW t \in RpcThreads, NEW b \in Blocks,
             Invalidate(t, b) \/ Reconsider(t, b)
      PROVE  ContextChecked'
  BY <1>1, <1>9 DEF Invalidate, Reconsider
<1>10. ASSUME NEW t \in Threads, ThreadStep(t) PROVE nValid' = nValid
  BY <1>10 DEF ThreadStep, StopActivating, NothingToActivate, RefuseReorg,
               ShutDown, BeginStep, StepDisconnect, StepRefused, StepConnect,
               StepInvalid, StepFromFuture, InvalidateWalk, InvalidateFinish
<1>11. CASE UNCHANGED vars
  BY <1>1, <1>11 DEF vars
<1> QED
  BY <1>1, <1>5, <1>6, <1>7, <1>8, <1>9, <1>10, <1>11 DEF Next

LEMMA ValidInit ==
    Init => VInv
<1> SUFFICES ASSUME Init PROVE VInv
  OBVIOUS
<1>1. ContextChecked
  BY TreeAssumption, InputAssumption DEF Init, ContextChecked, BLOCK_VALID_CONTEXT
<1>2. Chain[tip] \cap (BadConnect \cup BadContext) = {}
  BY ChainAssumption, InputAssumption DEF Init
<1> QED  BY <1>1, <1>2, CandidatesInit DEF VInv

LEMMA ValidNext ==
    VInv /\ [Next]_vars => VInv'
<1> SUFFICES ASSUME VInv, [Next]_vars PROVE VInv'
  OBVIOUS
<1>1. CInv' /\ ContextChecked' /\ TInv /\ tip \in Blocks
  BY CandidatesNext, ContextNext DEF VInv, CInv, LInv, TInv, TypeOK
<1>2. CASE tip' = tip
  BY <1>1, <1>2 DEF VInv
<1>3. ASSUME tip # Genesis, tip' = pprev[tip] PROVE VInv'
  <2>1. Chain[tip'] \subseteq Chain[tip]
    BY <1>1, <1>3, ChainAssumption
  <2> QED  BY <1>1, <2>1 DEF VInv
<1>4. ASSUME NEW t \in Threads, StepDisconnect(t) PROVE VInv'
  <2>1. tip # Genesis
    BY <1>1, <1>4, ChainAssumption
       DEF StepDisconnect, Stepping, Job, TInv, TypeOK
  <2> QED  BY <1>3, <1>4, <2>1 DEF StepDisconnect
<1>5. ASSUME NEW t \in Threads, InvalidateWalk(t) PROVE VInv'
  <2>1. tip # Genesis
    BY <1>1, <1>5, ChainAssumption
       DEF InvalidateWalk, Invalidating, Job, TInv, TypeOK
  <2> QED  BY <1>2, <1>3, <1>5, <2>1 DEF InvalidateWalk
<1>6. ASSUME NEW t \in Threads, StepConnect(t) PROVE VInv'
  <2>1. PICK x \in Blocks : ConnectsNext(t, x) /\ ~BreaksRule(x) /\ tip' = x
    BY <1>6 DEF StepConnect
  <2>2. x \notin BadConnect \cup BadContext
    BY <2>1 DEF BreaksRule, VInv, ContextChecked
  <2>3. Chain[x] = {x} \cup Chain[tip]
    BY <1>1, <2>1, ChainAssumption, TreeAssumption DEF ConnectsNext
  <2> QED  BY <1>1, <2>1, <2>2, <2>3 DEF VInv
<1> QED  BY <1>1, <1>2, <1>4, <1>5, <1>6, TipMovers

\* ConnectBlock lets no block onto the active chain that breaks a rule, even
\* one that was stored unchecked because it came from the future; and every
\* active block has its data and was linked.
THEOREM ActiveChainAlwaysValid ==
    Spec => []ActiveChainValid
<1>1. VInv => ActiveChainValid
  <2> SUFFICES ASSUME VInv, NEW b \in Chain[tip]
               PROVE  Linked(b) /\ b \in haveData /\ b \notin BadConnect \cup BadContext
    BY DEF ActiveChainValid
  <2>1. tip \in Blocks /\ b \in Blocks
    BY ChainFacts DEF VInv, CInv, LInv, TInv, TypeOK
  <2> QED  BY <2>1 DEF VInv, CInv, LInv, LinkedClosed
<1> QED  BY <1>1, ValidInit, ValidNext, PTL DEF Spec

-----------------------------------------------------------------------------
(* Without the operator: nChainTx is set exactly over complete chains.     *)
(* A block that arrives before its parent is remembered unless the parent  *)
(* is marked failed; without invalidateblock the only failed block that is *)
(* not linked yet is one that AcceptBlock refused, whose data will never   *)
(* be accepted, so nothing that should be linked later is forgotten.       *)

OnlySteps == csMain # NoJob => csMain.op = "step"

FailedKnown ==
    \A b \in failed : Linked(b) \/ b \in BadContext \ (future \cup haveData)

\* an ancestor's data was refused for good
Refused(b) == \E c \in Chain[b] \cap BadContext : c \notin future \cup haveData

DataAccounted ==
    \A b \in haveData : Linked(b) \/ b \in mapBlocksUnlinked \/ Refused(b)

UInv == CInv /\ OnlySteps /\ FailedKnown /\ DataAccounted /\ UnlinkedSound

\* With all of its chain's data a block is linked.
LEMMA CompleteLinked ==
    ASSUME UInv, NEW b \in Blocks, Chain[b] \subseteq haveData
    PROVE  Linked(b)
<1>1. b \in haveData
  BY ChainFacts
<1> QED  BY <1>1 DEF UInv, DataAccounted, UnlinkedSound, Refused

\* The block that completes a waiting block's chain links it.
LEMMA StoreUnlinked ==
    ASSUME UInv, NEW b \in Blocks, b \notin haveData, StoreBlock(b),
           b \in BadContext => b \in future, CInv'
    PROVE  UnlinkedSound'
<1> SUFFICES ASSUME NEW x \in mapBlocksUnlinked', Chain[x] \subseteq haveData'
             PROVE  FALSE
  BY DEF UnlinkedSound, CInv, LInv
<1>1. /\ haveData' = haveData \cup {b} /\ x \in Blocks /\ haveData \subseteq Blocks
      /\ mapBlocksUnlinked \subseteq haveData
  BY DEF StoreBlock, CInv, LInv, TInv, TypeOK, UInv
<1>2. ~Linked(b) /\ b # Genesis /\ pprev[b] \in Blocks /\ b \in Chain[b]
  <2>1. ~Linked(b) /\ b # Genesis
    BY DEF UInv, CInv, LInv, LinkedClosed
  <2> QED  BY <2>1, ChainFacts
<1>3. b \in Chain[x]
  <2>1. x = b \/ x \in mapBlocksUnlinked
    BY DEF StoreBlock, LinkBlocks, AwaitParent
  <2>2. CASE x \in mapBlocksUnlinked
    BY <1>1, <2>2 DEF UInv, UnlinkedSound
  <2> QED  BY <1>2, <2>1, <2>2
<1>4. CASE Linked(pprev[b]) /\ LinkBlocks(b)
  <2>1. x \in mapBlocksUnlinked \ NewlyLinked(b)
    BY <1>1, <1>4, LinkBlocksFacts DEF UInv, CInv
  <2>2. ASSUME NEW c \in Chain[x] \ Chain[b] PROVE c \in mapBlocksUnlinked
    <3>1. c \in haveData /\ c \in Blocks /\ b \in Chain[c]
      BY <1>1, <1>2, <1>3, <2>2, ChainFacts, Comparable
    <3>2. ~Linked(c)
      BY <1>2, <3>1 DEF UInv, CInv, LInv, LinkedClosed
    <3>3. ~Refused(c)
      <4>1. Chain[c] \subseteq haveData \cup {b}
        BY <1>1, <2>2, ChainAssumption
      <4> QED  BY <4>1 DEF Refused
    <3> QED  BY <3>1, <3>2, <3>3 DEF UInv, DataAccounted
  <2> QED  BY <1>3, <2>1, <2>2 DEF NewlyLinked
<1>5. CASE ~Linked(pprev[b])
  <2>1. Chain[pprev[b]] \subseteq Chain[b] /\ Chain[b] \subseteq Chain[x]
    BY <1>1, <1>2, <1>3, ChainAssumption
  <2>2. b \notin Chain[pprev[b]]
    <3>1. \A y \in Chain[pprev[b]] : nHeight[y] <= nHeight[pprev[b]]
      BY <1>2, ChainAssumption
    <3>2. nHeight[b] = nHeight[pprev[b]] + 1 /\ nHeight[pprev[b]] \in Nat
      BY <1>2, TreeAssumption
    <3> QED  BY <3>1, <3>2
  <2>3. Chain[pprev[b]] \subseteq haveData
    BY <1>1, <2>1, <2>2
  <2> QED  BY <1>2, <1>5, <2>3, CompleteLinked
<1> QED  BY <1>4, <1>5 DEF StoreBlock

\* No stored block is forgotten while its chain may still be completed.
LEMMA StoreAccounted ==
    ASSUME UInv, NEW b \in Blocks, b \notin haveData, StoreBlock(b),
           b \in BadContext => b \in future, CInv', future' = future
    PROVE  DataAccounted'
<1> SUFFICES ASSUME NEW x \in haveData'
             PROVE  Linked(x)' \/ x \in mapBlocksUnlinked' \/ Refused(x)'
  BY DEF DataAccounted
<1>1. haveData' = haveData \cup {b} /\ x \in Blocks /\ haveData \subseteq Blocks
  BY DEF StoreBlock, CInv, LInv, TInv, TypeOK, UInv
<1>2. Refused(x) => Refused(x)'
  BY <1>1 DEF Refused
<1>3. CASE Linked(pprev[b]) /\ LinkBlocks(b)
  <2>1. b \in NewlyLinked(b)
    BY <1>3, NewlyLinkedFacts DEF UInv, CInv
  <2>2. /\ \A y \in Blocks : y \notin NewlyLinked(b) =>
               nSequenceId'[y] = nSequenceId[y]
        /\ \A y \in NewlyLinked(b) : nSequenceId'[y] # 0
        /\ mapBlocksUnlinked' = mapBlocksUnlinked \ NewlyLinked(b)
    BY <1>1, <1>3, LinkBlocksFacts DEF UInv, CInv
  <2> QED  BY <1>1, <1>2, <2>1, <2>2 DEF UInv, DataAccounted, Linked
<1>4. CASE ~Linked(pprev[b]) /\ AwaitParent(b)
  <2>1. CASE x # b
    BY <1>1, <1>2, <1>4, <2>1 DEF AwaitParent, UInv, DataAccounted, Linked
  <2>2. CASE x = b /\ pprev[b] \notin failed
    BY <1>4, <2>2 DEF AwaitParent
  <2>3. CASE x = b /\ pprev[b] \in failed
    <3>1. b # Genesis
      BY DEF UInv, CInv, LInv, LinkedClosed
    <3>2. pprev[b] \in BadContext \ (future \cup haveData)
      BY <1>4, <2>3 DEF UInv, FailedKnown
    <3>3. pprev[b] \in Chain[b] /\ pprev[b] # b
      <4>1. nHeight[b] = nHeight[pprev[b]] + 1 /\ nHeight[b] \in Nat
        BY <3>1, ChainFacts, TreeAssumption
      <4>2. nHeight[b] # nHeight[b] + 1
        BY <4>1
      <4> QED  BY <3>1, <4>1, <4>2, ChainFacts
    <3> QED  BY <1>1, <2>3, <3>2, <3>3 DEF Refused
  <2> QED  BY <2>1, <2>2, <2>3
<1> QED  BY <1>3, <1>4 DEF StoreBlock

\* While nothing is stored and the clock only advances, what is accounted for
\* stays so.
LEMMA AccountedStays ==
    ASSUME UInv, UNCHANGED <<haveData, nSequenceId, mapBlocksUnlinked>>,
           future' \subseteq future
    PROVE  DataAccounted' /\ UnlinkedSound'
  BY DEF UInv, DataAccounted, UnlinkedSound, Refused, Linked

\* A step of ActivateBestChain marks only linked blocks as failed.
LEMMA StepFailures ==
    ASSUME CInv, OnlySteps, NEW t \in Threads, ThreadStep(t)
    PROVE  /\ OnlySteps' /\ future' = future
           /\ \A x \in failed' : x \in failed \/ (x \in Blocks /\ Linked(x))
<1> USE DEF failures, OnlySteps
<1>1. ASSUME NEW most PROVE \A x \in PurgedBlocks(most) : x \in Blocks /\ Linked(x)
  <2> SUFFICES ASSUME NEW c \in setBlockIndexCandidates, NEW x \in Chain[c]
               PROVE  x \in Blocks /\ Linked(x)
    BY DEF PurgedBlocks, DroppedCandidates, FailedPath, PathFromActive
  <2>1. c \in Blocks /\ Linked(c)
    BY DEF CInv, CandidatesSound, LInv, TInv, TypeOK
  <2> QED  BY <2>1, ChainFacts DEF CInv, LInv, LinkedClosed
<1>2. \A x \in setBlockIndexCandidates : x \in Blocks /\ Linked(x)
  BY DEF CInv, CandidatesSound, LInv, TInv, TypeOK
<1>3. CASE StopActivating(t)
  BY <1>3 DEF StopActivating, failed
<1>4. CASE NothingToActivate(t)
  BY <1>1, <1>4 DEF NothingToActivate, MarkFailedPaths, failed
<1>5. CASE RefuseReorg(t)
  BY <1>1, <1>2, <1>5 DEF RefuseReorg, BetterChain, MarkFailedPaths, failed
<1>6. CASE ShutDown(t)
  BY <1>1, <1>6 DEF ShutDown, BetterChain, MarkFailedPaths, failed
<1>7. CASE BeginStep(t)
  BY <1>1, <1>7 DEF BeginStep, BetterChain, MarkFailedPaths, failed
<1>8. CASE StepDisconnect(t)
  BY <1>8 DEF StepDisconnect, failed
<1>9. CASE StepRefused(t)
  BY <1>9 DEF StepRefused, Return, failed
<1>10. CASE StepConnect(t)
  BY <1>10 DEF StepConnect, Return, failed
<1>11. CASE StepInvalid(t)
  BY <1>11, ConnectLinked DEF StepInvalid, Return, failed
<1>12. CASE StepFromFuture(t)
  BY <1>12 DEF StepFromFuture, Return, failed
<1>13. ~InvalidateWalk(t) /\ ~InvalidateFinish(t)
  BY DEF InvalidateWalk, InvalidateFinish, Invalidating
<1> QED
  BY <1>3, <1>4, <1>5, <1>6, <1>7, <1>8, <1>9, <1>10, <1>11, <1>12, <1>13
     DEF ThreadStep

\* The operator's calls are what MaxOperatorCalls allows.
LEMMA NoCalls ==
    ASSUME MaxOperatorCalls = 0, TypeOK, NEW t, NEW b
    PROVE  ~Invalidate(t, b) /\ ~Reconsider(t, b)
  BY DEF Invalidate, Reconsider, OperatorCall, TypeOK

LEMMA UnlinkedNext ==
    ASSUME MaxOperatorCalls = 0, UInv, [Next]_vars
    PROVE  UInv'
<1> USE DEF index, failures
<1>1. CInv' /\ TypeOK
  BY CandidatesNext DEF UInv, CInv, LInv, TInv
<1>2. ASSUME OnlySteps', UNCHANGED <<haveData, nSequenceId, mapBlocksUnlinked>>,
             future' \subseteq future,
             \A x \in failed' : \/ x \in failed \/ Linked(x)
                                \/ x \in BadContext \ (future \cup haveData)
      PROVE  UInv'
  <2>1. FailedKnown'
    BY <1>2 DEF UInv, FailedKnown, Linked
  <2> QED  BY <1>1, <1>2, <2>1, AccountedStays DEF UInv
<1>3. CASE UNCHANGED vars
  BY <1>2, <1>3 DEF vars, UInv, OnlySteps, failed
<1>4. ASSUME NEW b \in Blocks, NewHeader(b) \/ RefuseHeader(b) \/ TimePasses(b)
      PROVE  UInv'
  BY <1>2, <1>4 DEF NewHeader, AddHeader, KnownHeader, RefuseHeader, TimePasses,
                    UInv, OnlySteps, failed
<1>5. ASSUME NEW t \in BlockThreads, NEW b \in Blocks, SkipBlock(t, b)
      PROVE  UInv'
  BY <1>2, <1>5 DEF SkipBlock, AddHeader, KnownHeader, UInv, OnlySteps, failed
<1>6. ASSUME NEW t \in BlockThreads, NEW b \in Blocks, RejectBlock(t, b)
      PROVE  UInv'
  <2>1. b \in BadContext \ (future \cup haveData)
    BY <1>1, <1>6 DEF RejectBlock, HeaderReachesCheckpoint, TypeOK
  <2> QED  BY <1>2, <1>6, <2>1 DEF RejectBlock, UInv, OnlySteps, failed
<1>7. ASSUME NEW t \in BlockThreads, NEW b \in Blocks, AcceptBlock(t, b)
      PROVE  UInv'
  <2>1. /\ b \notin haveData /\ StoreBlock(b)
        /\ b \in BadContext => b \in future
        /\ future' = future /\ csMain' = csMain /\ haveData' = haveData \cup {b}
        /\ tip' = tip
        /\ failed' \subseteq failed
    BY <1>7 DEF AcceptBlock, SkipsBlock, AddHeader, KnownHeader, FutureHeader,
                StoreBlock, failed
  <2>2. UnlinkedSound' /\ DataAccounted'
    BY <1>1, <2>1, StoreUnlinked, StoreAccounted
  <2>3. \A x \in Blocks : Linked(x) => Linked(x)'
    BY <1>1, <2>1, StoreCandidates DEF UInv, CInv
  <2>4. FailedKnown'
    <3>1. failed \subseteq Blocks
      BY <1>1 DEF TypeOK, failed
    <3> QED  BY <2>1, <2>3, <3>1 DEF UInv, FailedKnown
  <2> QED  BY <1>1, <2>1, <2>2, <2>4 DEF UInv, OnlySteps
<1>8. ASSUME NEW t \in Threads, ThreadStep(t) PROVE UInv'
  <2>1. /\ OnlySteps' /\ future' = future
        /\ \A x \in failed' : x \in failed \/ (x \in Blocks /\ Linked(x))
    BY <1>8, StepFailures DEF UInv
  <2>2. UNCHANGED <<haveData, nSequenceId, mapBlocksUnlinked>>
    BY <1>8 DEF ThreadStep, StopActivating, NothingToActivate, RefuseReorg,
                ShutDown, BeginStep, StepDisconnect, StepRefused, StepConnect,
                StepInvalid, StepFromFuture, InvalidateWalk, InvalidateFinish
  <2> QED  BY <1>2, <2>1, <2>2
<1> QED
  BY <1>1, <1>3, <1>4, <1>5, <1>6, <1>7, <1>8, NoCalls DEF Next

LEMMA UnlinkedInit ==
    Init => UInv
<1> SUFFICES ASSUME Init PROVE UInv
  OBVIOUS
<1>1. CInv /\ Linked(Genesis)
  BY CandidatesInit, LinkInit DEF LInv
<1> QED
  BY <1>1 DEF Init, UInv, OnlySteps, FailedKnown, DataAccounted, UnlinkedSound,
              failed

\* CheckBlockIndex's assertions about nChainTx and mapBlocksUnlinked, on a node
\* whose operator does not call invalidateblock or reconsiderblock: whatever
\* the order in which blocks, headers and invalid blocks arrive, a block is
\* linked exactly when its chain is complete.
THEOREM LinksExact ==
    ASSUME MaxOperatorCalls = 0
    PROVE  Spec => []LinkedExactly
<1>1. UInv /\ [Next]_vars => UInv'
  BY UnlinkedNext
<1>2. UInv => LinkedExactly
  <2> SUFFICES ASSUME UInv, NEW b \in mapBlockIndex
               PROVE  Linked(b) <=> Chain[b] \subseteq haveData
    BY DEF LinkedExactly
  <2>1. b \in Blocks
    BY DEF UInv, CInv, LInv, TInv, TypeOK
  <2>2. Linked(b) => Chain[b] \subseteq haveData
    BY <2>1, ChainFacts DEF UInv, CInv, LInv, LinkedClosed
  <2> QED  BY <2>1, <2>2, CompleteLinked
<1> QED  BY <1>1, <1>2, UnlinkedInit, PTL DEF Spec

\* On such a node a block waits in mapBlocksUnlinked only while some of its
\* chain's data is missing: the walk of ReceivedBlockTransactions reaches
\* every waiting block whose chain has become complete.
THEOREM WaitingSound ==
    ASSUME MaxOperatorCalls = 0
    PROVE  Spec => []UnlinkedSound
<1>1. UInv /\ [Next]_vars => UInv'
  BY UnlinkedNext
<1>2. UInv => UnlinkedSound
  BY DEF UInv
<1> QED  BY <1>1, <1>2, UnlinkedInit, PTL DEF Spec

-----------------------------------------------------------------------------
(* Without the operator: ActivateBestChain ends at the best chain.  Blocks *)
(* that lost to the tip are no longer candidates, and a reorganisation may *)
(* stop half-way at a tip they would beat; what saves it is that some      *)
(* candidate whose whole chain is clean is at least as good as each of     *)
(* them.  A mark set on the way spares them: it falls on a block that      *)
(* breaks a rule, above a failed one, or on a reorganisation refused for   *)
(* finality, and then every clean block is readmitted.  On a chain with    *)
(* ASSETCHAINS_CC a header sent again clears a mark without making a       *)
(* candidate of the block, so the argument is for chains without it.       *)

BadBlocks == BadConnect \cup BadContext

Clean(c) == /\ c \in mapBlockIndex /\ Linked(c)
            /\ Chain[c] \cap (failed \cup BadBlocks) = {}

DataValid ==
    \A b \in haveData \ BadContext : nValid[b] >= BLOCK_VALID_TRANSACTIONS

TipClean == Chain[tip] \cap failed = {}

JobClean == csMain # NoJob => Chain[csMain.block] \cap failed = {}

Witnessed ==
    \A b \in Blocks :
        Clean(b) /\ ~Better(tip, b) =>
            \E c \in setBlockIndexCandidates : Clean(c) /\ ~Better(b, c)

JobBest ==
    csMain # NoJob =>
        \A c \in setBlockIndexCandidates :
            Clean(c) => c = csMain.block \/ Better(csMain.block, c)

BInv ==
    /\ VInv /\ OnlySteps /\ DataValid
    /\ TipClean /\ JobClean
    /\ Witnessed /\ JobBest

\* What FindMostWorkChain marks and drops lies above a failed block.
LEMMA PurgedFacts ==
    ASSUME TInv, NEW most, NEW x \in PurgedBlocks(most)
    PROVE  x \in Blocks /\ \E f \in failed : f \in Chain[x]
<1>1. PICK c \in setBlockIndexCandidates \ UsableCandidates : x \in FailedPath(c)
  BY DEF PurgedBlocks, DroppedCandidates
<1>2. PICK f \in PathFromActive(c) : f \in failed
  BY <1>1 DEF UsableCandidates
<1>3. /\ c \in Blocks /\ x \in Chain[c] /\ f \in Chain[c]
      /\ nHeight[f] <= nHeight[x]
  BY <1>1, <1>2 DEF FailedPath, PathFromActive, TInv, TypeOK
<1>4. f \in Chain[x] /\ x \in Blocks
  BY <1>3, ChainAssumption, ChainFacts
<1> QED  BY <1>2, <1>4

\* FindMostWorkChain leaves clean candidates alone.
LEMMA PurgeSparesClean ==
    ASSUME TInv, NEW most, NEW c \in Blocks, Clean(c)
    PROVE  Chain[c] \cap PurgedBlocks(most) = {} /\ c \notin PurgedBlocks(most)
<1>1. ASSUME NEW x \in Chain[c], x \in PurgedBlocks(most) PROVE FALSE
  <2>1. PICK f \in failed : f \in Chain[x]
    BY <1>1, PurgedFacts
  <2>2. f \in Chain[c]
    BY <1>1, <2>1, ChainAssumption
  <2> QED  BY <2>1, <2>2 DEF Clean
<1> QED  BY <1>1, ChainFacts

\* The tip is one of the blocks that ActivateBestChain must not lose.
LEMMA TipIsClean ==
    ASSUME BInv
    PROVE  tip \in Blocks /\ Clean(tip)
  BY DEF BInv, VInv, CInv, LInv, TInv, TypeOK, Clean, TipClean, BadBlocks

\* A candidate other than the tip is not on the active chain.
LEMMA CandidateOffChain ==
    ASSUME CInv, NEW most \in setBlockIndexCandidates, most # tip
    PROVE  most \in Blocks /\ most \notin Chain[tip]
<1>1. most \in Blocks /\ tip \in Blocks /\ ~Better(tip, most)
  BY DEF CInv, LInv, TInv, TypeOK, CandidatesSound
<1>2. ASSUME most \in Chain[tip] PROVE FALSE
  <2>1. nChainWork[most] < nChainWork[tip]
    BY <1>1, <1>2, WorkGrows
  <2>2. nChainWork[most] \in Nat /\ nChainWork[tip] \in Nat
    BY <1>1, TreeAssumption
  <2> QED  BY <1>1, <2>1, <2>2 DEF Better, BetterBy
<1> QED  BY <1>1, <1>2

\* No mark is cleared, and none falls on the active chain.
LEMMA MarksOffChain ==
    ASSUME MaxOperatorCalls = 0, ~ASSETCHAINS_CC, BInv, [Next]_vars
    PROVE  failed \subseteq failed' /\ Chain[tip] \cap failed' = {}
<1> USE DEF failures
<1>1. TInv /\ TypeOK /\ CInv /\ tip \in Blocks /\ Clean(tip)
  BY TipIsClean DEF BInv, VInv, CInv, LInv, TInv
<1>2. /\ Chain[tip] \cap failed = {} /\ Chain[tip] \cap BadBlocks = {}
      /\ \A most : Chain[tip] \cap PurgedBlocks(most) = {}
  BY <1>1, PurgeSparesClean DEF Clean
<1>3. ASSUME failed' = failed
      PROVE  failed \subseteq failed' /\ Chain[tip] \cap failed' = {}
  BY <1>2, <1>3
<1>4. CASE UNCHANGED vars
  BY <1>3, <1>4 DEF vars, failed
<1>5. ASSUME NEW b \in Blocks, NewHeader(b) \/ RefuseHeader(b) \/ TimePasses(b)
      PROVE  failed' = failed
  BY <1>5 DEF NewHeader, AddHeader, KnownHeader, RefuseHeader, TimePasses, failed
<1>6. ASSUME NEW t \in BlockThreads, NEW b \in Blocks,
             SkipBlock(t, b) \/ AcceptBlock(t, b)
      PROVE  failed' = failed
  BY <1>6 DEF SkipBlock, AcceptBlock, AddHeader, KnownHeader, FutureHeader, failed
<1>7. ASSUME NEW t \in BlockThreads, NEW b \in Blocks, RejectBlock(t, b)
      PROVE  failed \subseteq failed' /\ Chain[tip] \cap failed' = {}
  <2>1. failed' = failed \cup {b} /\ b \in BadBlocks
    BY <1>7 DEF RejectBlock, failed, BadBlocks
  <2> QED  BY <1>2, <2>1
<1>8. ASSUME NEW t \in Threads, ThreadStep(t)
      PROVE  failed \subseteq failed' /\ Chain[tip] \cap failed' = {}
  <2>1. CASE NothingToActivate(t) \/ ShutDown(t) \/ BeginStep(t)
    <3>1. PICK most : failed' = failed \cup PurgedBlocks(most)
      BY <2>1 DEF NothingToActivate, ShutDown, BeginStep, BetterChain,
                  MarkFailedPaths, failed
    <3> QED  BY <1>2, <3>1
  <2>2. CASE RefuseReorg(t)
    <3>1. PICK most \in setBlockIndexCandidates :
              failed' = failed \cup PurgedBlocks(most) \cup {most} /\ most # tip
      BY <2>2 DEF RefuseReorg, BetterChain, MarkFailedPaths, failed
    <3>2. most \notin Chain[tip]
      BY <1>1, <3>1, CandidateOffChain
    <3> QED  BY <1>2, <3>1, <3>2
  <2>3. CASE StepInvalid(t)
    <3>1. PICK x \in Blocks : BreaksRule(x) /\ failed' = failed \cup {x}
      BY <2>3 DEF StepInvalid, failed
    <3>2. x \in BadBlocks
      BY <3>1 DEF BreaksRule, BadBlocks
    <3> QED  BY <1>2, <3>1, <3>2
  <2>4. CASE \/ StopActivating(t) \/ StepDisconnect(t) \/ StepRefused(t)
             \/ StepConnect(t) \/ StepFromFuture(t)
    BY <1>3, <2>4 DEF StopActivating, StepDisconnect, StepRefused, StepConnect,
                      StepFromFuture, failed
  <2>5. ~InvalidateWalk(t) /\ ~InvalidateFinish(t)
    BY DEF InvalidateWalk, InvalidateFinish, Invalidating, BInv, OnlySteps
  <2> QED  BY <1>8, <2>1, <2>2, <2>3, <2>4, <2>5 DEF ThreadStep
<1> QED  BY <1>1, <1>3, <1>4, <1>5, <1>6, <1>7, <1>8, NoCalls DEF Next

\* The tip and the block that a step aims at stay free of marks.
LEMMA CleanNext ==
    ASSUME MaxOperatorCalls = 0, ~ASSETCHAINS_CC, BInv, [Next]_vars, OnlySteps'
    PROVE  TipClean' /\ JobClean'
<1> USE DEF failures
<1>1. /\ TInv /\ TypeOK /\ CInv /\ tip \in Blocks
      /\ Chain[tip] \cap failed' = {}
      /\ csMain \in Job \cup {NoJob}
  BY MarksOffChain, TipIsClean DEF BInv, VInv, CInv, LInv, TInv, TypeOK
<1>2. ASSUME Chain[tip'] \subseteq Chain[tip] PROVE TipClean'
  BY <1>1, <1>2 DEF TipClean
<1>3. CASE csMain' = NoJob /\ tip' = tip
  BY <1>2, <1>3 DEF JobClean
<1>4. CASE csMain' = csMain /\ tip' = tip /\ failed' = failed
  BY <1>2, <1>4 DEF JobClean, BInv
<1>5. ASSUME NEW t \in Threads, StepDisconnect(t) PROVE TipClean' /\ JobClean'
  <2>1. tip # Genesis
    BY <1>1, <1>5, ChainAssumption DEF StepDisconnect, Stepping, Job
  <2>2. tip' = pprev[tip] /\ csMain' = csMain /\ failed' = failed
    BY <1>5 DEF StepDisconnect, failed
  <2>3. Chain[tip'] \subseteq Chain[tip]
    BY <1>1, <2>1, <2>2, DisconnectChain
  <2> QED  BY <1>2, <2>2, <2>3 DEF JobClean, BInv
<1>6. ASSUME NEW t \in Threads, StepConnect(t) PROVE TipClean' /\ JobClean'
  <2>1. PICK x \in Blocks :
            /\ x \in Chain[csMain.block] /\ csMain # NoJob /\ tip' = x
            /\ csMain' = csMain \/ csMain' = NoJob
            /\ failed' = failed
    BY <1>6 DEF StepConnect, ConnectsNext, Stepping, Return, failed
  <2>2. Chain[x] \subseteq Chain[csMain.block]
    BY <1>1, <2>1, ChainAssumption DEF Job
  <2> QED  BY <2>1, <2>2 DEF TipClean, JobClean, BInv
<1>7. ASSUME NEW t \in Threads, BeginStep(t) PROVE TipClean' /\ JobClean'
  <2>1. PICK most \in setBlockIndexCandidates :
            /\ FindMostWorkChain(most) /\ csMain'.block = most
            /\ failed' = failed \cup PurgedBlocks(most) /\ tip' = tip
    BY <1>7 DEF BeginStep, BetterChain, MarkFailedPaths, failed
  <2>2. most \in Blocks /\ most # NoBlock
    BY <1>1, TreeAssumption DEF TInv, TypeOK
  <2>3. PathFromActive(most) \cap failed = {}
    BY <2>1, <2>2 DEF FindMostWorkChain, UsableCandidates
  <2>4. Chain[most] \cap failed = {}
    BY <2>3 DEF PathFromActive, BInv, TipClean
  <2>5. ASSUME NEW x \in Chain[most], x \in PurgedBlocks(most) PROVE FALSE
    <3>1. PICK f \in failed : f \in Chain[x]
      BY <1>1, <2>5, PurgedFacts
    <3>2. f \in Chain[most]
      BY <2>2, <3>1, ChainAssumption
    <3> QED  BY <2>4, <3>2
  <2> QED  BY <1>2, <2>1, <2>4, <2>5 DEF JobClean
<1>8. ASSUME NEW b \in Blocks,
             \/ NewHeader(b) \/ RefuseHeader(b)
             \/ \E t \in BlockThreads :
                  SkipBlock(t, b) \/ RejectBlock(t, b) \/ AcceptBlock(t, b)
      PROVE  csMain' = NoJob /\ tip' = tip
  BY <1>8 DEF NewHeader, RefuseHeader, SkipBlock, RejectBlock, AcceptBlock
<1>9. ASSUME NEW b \in Blocks, TimePasses(b)
      PROVE  csMain' = csMain /\ tip' = tip /\ failed' = failed
  BY <1>9 DEF TimePasses, failed
<1>10. CASE UNCHANGED vars
  BY <1>4, <1>10 DEF vars, failed
<1>11. ASSUME NEW t \in Threads, ThreadStep(t)
       PROVE  \/ csMain' = NoJob /\ tip' = tip
              \/ StepDisconnect(t) \/ StepConnect(t) \/ BeginStep(t)
  <2>1. ~InvalidateWalk(t) /\ ~InvalidateFinish(t)
    BY DEF InvalidateWalk, InvalidateFinish, Invalidating, BInv, OnlySteps
  <2> QED
    BY <1>11, <2>1
       DEF ThreadStep, StopActivating, NothingToActivate, RefuseReorg, ShutDown,
           StepRefused, StepInvalid, StepFromFuture, BetterChain, Activating, Return
<1> QED
  BY <1>1, <1>3, <1>4, <1>5, <1>6, <1>7, <1>8, <1>9, <1>10, <1>11, NoCalls DEF Next

\* A stored block that passes ContextualCheckBlock is valid enough to become a
\* candidate again.
LEMMA DataValidNext ==
    ASSUME TInv, DataValid, [Next]_vars
    PROVE  DataValid'
<1> USE DEF index, DataValid
<1>1. ASSUME nValid' = nValid, haveData' = haveData PROVE DataValid'
  BY <1>1
<1>2. ASSUME NEW b \in Blocks, haveData' = haveData,
             \/ nValid' = [nValid EXCEPT ![b] = RaiseValidity(@, BLOCK_VALID_TREE, FALSE)]
             \/ nValid' = [nValid EXCEPT ![b] = BLOCK_VALID_TREE] /\ b \notin haveData
      PROVE  DataValid'
  <2>1. nValid \in [Blocks -> 0..7] /\ haveData \subseteq Blocks
    BY DEF TInv, TypeOK
  <2>2. RaiseValidity(nValid[b], 2, FALSE) >= nValid[b]
    BY <2>1 DEF RaiseValidity
  <2>3. \/ nValid' = [nValid EXCEPT ![b] = RaiseValidity(nValid[b], 2, FALSE)]
        \/ nValid' = [nValid EXCEPT ![b] = 2] /\ b \notin haveData
    BY <1>2 DEF BLOCK_VALID_TREE
  <2>4. ASSUME NEW x \in haveData PROVE nValid'[x] >= nValid[x]
    <3>1. nValid[x] \in Int /\ nValid[x] >= nValid[x]
      BY <2>1
    <3>2. CASE x = b
      BY <2>1, <2>2, <2>3, <3>2
    <3>3. CASE x # b
      <4>1. nValid'[x] = nValid[x]
        BY <2>1, <2>3, <3>3
      <4> QED  BY <3>1, <4>1
    <3> QED  BY <3>2, <3>3
  <2>5. ASSUME NEW x \in haveData PROVE nValid'[x] \in Int /\ nValid[x] \in Int
    BY <2>1, <2>3 DEF RaiseValidity
  <2>6. ASSUME NEW x \in haveData, nValid[x] >= 3 PROVE nValid'[x] >= 3
    BY <2>4, <2>5, <2>6
  <2> QED  BY <1>2, <2>6 DEF BLOCK_VALID_TRANSACTIONS
<1>3. ASSUME NEW b \in Blocks, NewHeader(b) PROVE DataValid'
  BY <1>1, <1>2, <1>3 DEF NewHeader, AddHeader, HeaderReachesCheckpoint, TInv, TypeOK
<1>4. ASSUME NEW b \in Blocks, RefuseHeader(b) \/ TimePasses(b)
      PROVE  DataValid'
  BY <1>1, <1>4 DEF RefuseHeader, TimePasses
<1>5. ASSUME NEW t \in BlockThreads, NEW b \in Blocks,
             SkipBlock(t, b) \/ RejectBlock(t, b)
      PROVE  DataValid'
  BY <1>2, <1>5 DEF SkipBlock, RejectBlock
<1>6. ASSUME NEW t \in BlockThreads, NEW b \in Blocks, AcceptBlock(t, b)
      PROVE  DataValid'
  <2> DEFINE v == RaiseValidity(IF b \in BadContext THEN BLOCK_VALID_TREE
                                ELSE OrContext(BLOCK_VALID_TREE),
                                BLOCK_VALID_TRANSACTIONS, b \in failed')
  <2>1. nValid' = [nValid EXCEPT ![b] = v] /\ haveData' = haveData \cup {b}
    BY <1>6 DEF AcceptBlock, StoreBlock
  <2>2. b \notin BadContext => v = 6
    BY DEF RaiseValidity, OrContext, BLOCK_VALID_TREE, BLOCK_VALID_CONTEXT,
           BLOCK_VALID_TRANSACTIONS
  <2> HIDE DEF v
  <2> QED  BY <2>1, <2>2 DEF TInv, TypeOK, BLOCK_VALID_TRANSACTIONS
<1>7. ASSUME NEW t \in RpcThreads, NEW b \in Blocks,
             Invalidate(t, b) \/ Reconsider(t, b)
      PROVE  DataValid'
  BY <1>1, <1>7 DEF Invalidate, Reconsider
<1>8. ASSUME NEW t \in Threads, ThreadStep(t)
      PROVE  nValid' = nValid /\ haveData' = haveData
  BY <1>8 DEF ThreadStep, StopActivating, NothingToActivate, RefuseReorg,
              ShutDown, BeginStep, StepDisconnect, StepRefused, StepConnect,
              StepInvalid, StepFromFuture, InvalidateWalk, InvalidateFinish
<1>9. CASE UNCHANGED vars
  BY <1>1, <1>9 DEF vars
<1> QED
  BY <1>1, <1>3, <1>4, <1>5, <1>6, <1>7, <1>8, <1>9 DEF Next

\* While the tip and the ids stay, every clean candidate that stays is still
\* a witness.
LEMMA WitnessStays ==
    ASSUME BInv, UNCHANGED <<nSequenceId, tip>>, failed \subseteq failed',
           \A c \in setBlockIndexCandidates :
               Clean(c) => Clean(c)' /\ c \in setBlockIndexCandidates'
    PROVE  Witnessed'
<1> SUFFICES ASSUME NEW b \in Blocks, Clean(b)', ~Better(tip, b)
             PROVE  \E c \in setBlockIndexCandidates' : Clean(c)' /\ ~Better(b, c)
  BY DEF Witnessed, Better, BetterBy
<1>0. Clean(b)
  BY DEF Clean, Linked, BInv, VInv, CInv, LInv, LinkedClosed, TInv, TypeOK
<1>1. PICK c \in setBlockIndexCandidates : Clean(c) /\ ~Better(b, c)
  BY <1>0 DEF BInv, Witnessed
<1> QED  BY <1>1

\* FindMostWorkChain, and the steps that only mark blocks that break a rule,
\* leave the witnesses alone.
LEMMA PurgeWitness ==
    ASSUME BInv, NEW most, UNCHANGED <<mapBlockIndex, nSequenceId, tip>>,
           failed \subseteq failed',
           failed' \subseteq failed \cup PurgedBlocks(most) \cup BadBlocks,
           setBlockIndexCandidates \ (PurgedBlocks(most) \cup BadBlocks)
               \subseteq setBlockIndexCandidates'
    PROVE  Witnessed'
<1> SUFFICES ASSUME NEW c \in setBlockIndexCandidates, Clean(c)
             PROVE  Clean(c)' /\ c \in setBlockIndexCandidates'
  BY WitnessStays
<1>1. TInv /\ c \in Blocks
  BY DEF BInv, VInv, CInv, LInv, TInv, TypeOK
<1>2. Chain[c] \cap PurgedBlocks(most) = {} /\ c \notin PurgedBlocks(most)
  BY <1>1, PurgeSparesClean
<1>3. c \in Chain[c]
  BY <1>1, ChainFacts
<1> QED  BY <1>2, <1>3 DEF Clean, Linked

\* A refused reorganisation readmits every block that is not marked.
LEMMA RefuseWitness ==
    ASSUME BInv, NEW t \in Threads, RefuseReorg(t)
    PROVE  Witnessed'
<1>1. PICK most \in setBlockIndexCandidates :
          /\ failed' = failed \cup PurgedBlocks(most) \cup {most}
          /\ Readmitted(failed \cup PurgedBlocks(most) \cup {most}, tip)
                 \subseteq setBlockIndexCandidates'
          /\ UNCHANGED <<index, tip>>
  BY DEF RefuseReorg, BetterChain, MarkFailedPaths, failed, notary
<1>2. nSequenceId' = nSequenceId /\ mapBlockIndex' = mapBlockIndex
  BY <1>1 DEF index
<1> SUFFICES ASSUME NEW b \in Blocks, Clean(b)', ~Better(tip, b)
             PROVE  \E c \in setBlockIndexCandidates' : Clean(c)' /\ ~Better(b, c)
  BY <1>1, <1>2 DEF Witnessed, Better, BetterBy
<1>3. Linked(b) /\ Chain[b] \cap (failed' \cup BadBlocks) = {}
  BY <1>2 DEF Clean, Linked
<1>4. TypeOK /\ b \in haveData /\ b \in mapBlockIndex /\ b \in Chain[b]
  BY <1>3, ChainFacts DEF BInv, VInv, CInv, LInv, TInv, TypeOK, LinkedClosed
<1>5. nValid[b] >= BLOCK_VALID_TRANSACTIONS
  BY <1>3, <1>4 DEF BInv, DataValid, BadBlocks
<1>6. b \in setBlockIndexCandidates'
  BY <1>1, <1>3, <1>4, <1>5 DEF Readmitted
<1>7. ~Better(b, b)
  BY BetterOrder DEF Better, BInv, VInv, CInv, LInv, TInv, TypeOK
<1> QED  BY <1>6, <1>7

\* After DisconnectTip the old tip's witness serves the blocks it had beaten.
LEMMA DisconnectWitness ==
    ASSUME BInv, tip # Genesis, tip' = pprev[tip],
           UNCHANGED <<index, failures, setBlockIndexCandidates>>
    PROVE  Witnessed'
<1>1. nSequenceId' = nSequenceId /\ mapBlockIndex' = mapBlockIndex /\ failed' = failed
  BY DEF index, failures, failed
<1>2. /\ tip \in Blocks /\ Clean(tip) /\ nSequenceId \in [Blocks -> Nat]
      /\ setBlockIndexCandidates \subseteq Blocks
  BY TipIsClean DEF BInv, VInv, CInv, LInv, TInv, TypeOK
<1> SUFFICES ASSUME NEW b \in Blocks, Clean(b)
             PROVE  \E c \in setBlockIndexCandidates : Clean(c) /\ ~Better(b, c)
  BY <1>1 DEF Witnessed, Linked, Better, BetterBy, Clean
<1>3. CASE ~Better(tip, b)
  BY <1>3 DEF BInv, Witnessed
<1>4. CASE Better(tip, b)
  <2>1. ~Better(tip, tip)
    BY <1>2, BetterOrder DEF Better
  <2>2. PICK c \in setBlockIndexCandidates : Clean(c) /\ ~Better(tip, c)
    BY <1>2, <2>1 DEF BInv, Witnessed
  <2>3. ~Better(b, c)
    BY <1>2, <1>4, <2>2, BetterOrder DEF Better
  <2> QED  BY <2>2, <2>3
<1> QED  BY <1>3, <1>4

\* What ConnectTip prunes is not the witness of a block that beats the new tip.
LEMMA ConnectWitness ==
    ASSUME BInv, NEW x \in Blocks, pprev[x] = tip, tip' = x,
           setBlockIndexCandidates' =
               {c \in setBlockIndexCandidates : ~Better(x, c)},
           UNCHANGED <<index, failures>>
    PROVE  Witnessed'
<1>1. nSequenceId' = nSequenceId /\ mapBlockIndex' = mapBlockIndex /\ failed' = failed
  BY DEF index, failures, failed
<1>2. /\ tip \in Blocks /\ nSequenceId \in [Blocks -> Nat]
      /\ setBlockIndexCandidates \subseteq Blocks
  BY DEF BInv, VInv, CInv, LInv, TInv, TypeOK
<1> SUFFICES ASSUME NEW b \in Blocks, Clean(b), ~Better(x, b)
             PROVE  \E c \in setBlockIndexCandidates' : Clean(c) /\ ~Better(b, c)
  BY <1>1 DEF Witnessed, Linked, Better, BetterBy, Clean
<1>3. ~Better(tip, b)
  BY <1>2, BetterOrder DEF Better
<1>4. PICK c \in setBlockIndexCandidates : Clean(c) /\ ~Better(b, c)
  BY <1>3 DEF BInv, Witnessed
<1>5. ~Better(x, c)
  BY <1>2, <1>4, BetterOrder DEF Better
<1> QED  BY <1>4, <1>5

\* Storing a block: what it links and what is not worse than the tip becomes a
\* candidate, and the earlier witnesses stay.
LEMMA StoreWitness ==
    ASSUME BInv, CInv', NEW b \in Blocks, b \notin haveData, StoreBlock(b),
           tip' = tip, failed' = failed,
           mapBlockIndex \subseteq mapBlockIndex'
    PROVE  Witnessed'
<1> USE DEF Linked
<1>1. /\ tip \in Blocks /\ setBlockIndexCandidates \subseteq Blocks
      /\ haveData' = haveData \cup {b} /\ CInv /\ LInv /\ TypeOK
      /\ nSequenceId' \in [Blocks -> Nat]
  BY DEF BInv, VInv, CInv, LInv, TInv, TypeOK, StoreBlock
<1> SUFFICES ASSUME NEW x \in Blocks, Clean(x)',
                    ~BetterBy(nSequenceId', tip, x)
             PROVE  \E c \in setBlockIndexCandidates' :
                        Clean(c)' /\ ~BetterBy(nSequenceId', x, c)
  BY DEF Witnessed, Better
<1>2. ASSUME Linked(x), setBlockIndexCandidates \subseteq setBlockIndexCandidates',
             \A y \in Blocks : Linked(y) => nSequenceId'[y] = nSequenceId[y]
      PROVE  \E c \in setBlockIndexCandidates' :
                 Clean(c)' /\ ~BetterBy(nSequenceId', x, c)
  <2>1. ~Better(tip, x)
    BY <1>1, <1>2 DEF Better, BetterBy, CInv
  <2>0. Clean(x)
    BY <1>1, <1>2 DEF Clean, LInv, LinkedClosed, TypeOK
  <2>2. PICK c \in setBlockIndexCandidates : Clean(c) /\ ~Better(x, c)
    BY <2>0, <2>1 DEF BInv, Witnessed
  <2>3. Linked(c) /\ c \in Blocks
    BY <1>1, <2>2 DEF Clean
  <2>4. ~BetterBy(nSequenceId', x, c)
    BY <1>2, <2>2, <2>3 DEF Better, BetterBy
  <2>5. Clean(c)'
    BY <1>2, <2>2, <2>3 DEF Clean
  <2> QED  BY <1>2, <2>2, <2>4, <2>5
<1>3. CASE Linked(pprev[b]) /\ LinkBlocks(b)
  <2> DEFINE S == NewlyLinked(b)
  <2>1. \A y \in S : ~Linked(y)
    BY <1>1, <1>3, NewlyLinkedFacts
  <2>2. /\ \A y \in Blocks : y \notin S => nSequenceId'[y] = nSequenceId[y]
        /\ setBlockIndexCandidates' = setBlockIndexCandidates \cup
               {y \in S : ~BetterBy(nSequenceId', tip, y)}
    BY <1>1, <1>3, LinkBlocksFacts
  <2> HIDE DEF S
  <2>3. CASE x \notin S
    <3>1. Linked(x)
      BY <2>2, <2>3 DEF Clean
    <3> QED  BY <1>2, <2>1, <2>2, <3>1
  <2>4. CASE x \in S
    <3>1. x \in setBlockIndexCandidates'
      BY <2>2, <2>4
    <3>2. ~BetterBy(nSequenceId', x, x)
      BY <1>1, BetterOrder
    <3> QED  BY <3>1, <3>2
  <2> QED  BY <2>3, <2>4
<1>4. CASE AwaitParent(b)
  <2>1. Linked(x)
    BY <1>4 DEF AwaitParent, Clean
  <2> QED  BY <1>2, <1>4, <2>1 DEF AwaitParent
<1> QED  BY <1>3, <1>4 DEF StoreBlock

\* The network's and the clock's actions keep the witnesses.
LEMMA NetworkWitness ==
    ASSUME ~ASSETCHAINS_CC, BInv, CInv', NEW b \in Blocks,
           \/ NewHeader(b) \/ RefuseHeader(b) \/ TimePasses(b)
           \/ \E t \in BlockThreads :
                  SkipBlock(t, b) \/ RejectBlock(t, b) \/ AcceptBlock(t, b)
    PROVE  Witnessed' /\ JobBest'
<1> USE DEF index, failures, notary
<1>1. CASE TimePasses(b)
  <2>1. UNCHANGED <<index, failures, setBlockIndexCandidates, tip, csMain>>
    BY <1>1 DEF TimePasses
  <2> QED  BY <2>1 DEF BInv, Witnessed, JobBest, Clean, Linked, Better,
                       BetterBy, failed
<1>2. CASE ~TimePasses(b)
  <2>1. csMain = NoJob /\ csMain' = NoJob /\ tip' = tip
    BY <1>2 DEF NewHeader, RefuseHeader, SkipBlock, RejectBlock, AcceptBlock
  <2>2. JobBest'
    BY <2>1 DEF JobBest
  <2>3. ASSUME NEW t \in BlockThreads, AcceptBlock(t, b) PROVE Witnessed'
    <3>1. /\ b \notin haveData /\ StoreBlock(b)
          /\ failed' = failed /\ mapBlockIndex \subseteq mapBlockIndex'
      BY <2>3 DEF AcceptBlock, SkipsBlock, AddHeader, KnownHeader, FutureHeader,
                  failed
    <3> QED  BY <2>1, <3>1, StoreWitness
  <2>4. ASSUME UNCHANGED <<nSequenceId, setBlockIndexCandidates>>,
               mapBlockIndex \subseteq mapBlockIndex',
               failed \subseteq failed', failed' \subseteq failed \cup BadBlocks
        PROVE  Witnessed'
    BY <2>1, <2>4, WitnessStays DEF Clean, Linked
  <2>5. ASSUME NewHeader(b) \/ RefuseHeader(b) \/ \E t \in BlockThreads : SkipBlock(t, b)
        PROVE  Witnessed'
    BY <2>4, <2>5 DEF NewHeader, RefuseHeader, SkipBlock, AddHeader, KnownHeader,
                      failed
  <2>6. ASSUME NEW t \in BlockThreads, RejectBlock(t, b) PROVE Witnessed'
    BY <2>4, <2>6 DEF RejectBlock, failed, BadBlocks
  <2> QED  BY <1>2, <2>2, <2>3, <2>5, <2>6
<1> QED  BY <1>1, <1>2

\* ActivateBestChain keeps the witnesses, and aims at the best of them.
LEMMA ActivationWitness ==
    ASSUME BInv, NEW t \in Threads, ThreadStep(t)
    PROVE  Witnessed' /\ JobBest'
<1> USE DEF index, failures, notary
<1>1. /\ TInv /\ tip \in Blocks /\ csMain \in Job \cup {NoJob}
  BY DEF BInv, VInv, CInv, LInv, TInv, TypeOK
<1>2. csMain' = NoJob => JobBest'
  BY DEF JobBest
<1>3. ASSUME csMain' = csMain,
             UNCHANGED <<mapBlockIndex, nSequenceId, failedValid, failedChild>>,
             setBlockIndexCandidates' \subseteq setBlockIndexCandidates
      PROVE  JobBest'
  BY <1>3 DEF BInv, JobBest, Clean, Linked, Better, BetterBy, failed
<1>4. CASE StopActivating(t)
  <2>1. UNCHANGED <<index, failures, setBlockIndexCandidates, tip, csMain>>
    BY <1>4 DEF StopActivating
  <2> QED  BY <1>3, <2>1, WitnessStays DEF Clean, Linked, failed
<1>5. CASE NothingToActivate(t) \/ ShutDown(t)
  <2>1. PICK most :
            /\ failed' = failed \cup PurgedBlocks(most)
            /\ setBlockIndexCandidates' = setBlockIndexCandidates \ PurgedBlocks(most)
            /\ UNCHANGED <<index, tip>> /\ csMain' = NoJob
    BY <1>5 DEF NothingToActivate, ShutDown, BetterChain, Activating,
                MarkFailedPaths, PurgedCandidates, failed
  <2>2. Witnessed'
    BY <2>1, PurgeWitness
  <2> QED  BY <1>2, <2>1, <2>2
<1>6. CASE RefuseReorg(t)
  <2>1. csMain' = NoJob
    BY <1>6 DEF RefuseReorg, BetterChain, Activating
  <2> QED  BY <1>2, <1>6, <2>1, RefuseWitness
<1>7. CASE BeginStep(t)
  <2>1. PICK most \in setBlockIndexCandidates :
            /\ FindMostWorkChain(most)
            /\ failed' = failed \cup PurgedBlocks(most)
            /\ setBlockIndexCandidates' = setBlockIndexCandidates \ PurgedBlocks(most)
            /\ UNCHANGED <<index, tip>> /\ csMain'.block = most
    BY <1>7 DEF BeginStep, BetterChain, MarkFailedPaths, PurgedCandidates, failed
  <2>2. Witnessed'
    BY <2>1, PurgeWitness
  <2>3. ASSUME NEW c \in setBlockIndexCandidates, Clean(c)
        PROVE  c = most \/ Better(most, c)
    <3>1. c \in UsableCandidates
      BY <2>3 DEF UsableCandidates, PathFromActive, Clean
    <3>2. most # NoBlock
      BY <2>1, <1>1, TreeAssumption DEF TInv, TypeOK
    <3> QED  BY <2>1, <3>1, <3>2 DEF FindMostWorkChain
  <2>4. ASSUME NEW c \in setBlockIndexCandidates', Clean(c)'
        PROVE  c \in setBlockIndexCandidates /\ Clean(c)
    BY <2>1, <2>4 DEF Clean, Linked
  <2> QED  BY <2>1, <2>2, <2>3, <2>4 DEF JobBest, Better, BetterBy
<1>8. CASE StepDisconnect(t)
  <2>1. tip # Genesis
    BY <1>1, <1>8, ChainAssumption DEF StepDisconnect, Stepping, Job
  <2>2. /\ tip' = pprev[tip] /\ csMain' = csMain
        /\ UNCHANGED <<index, failures, setBlockIndexCandidates>>
    BY <1>8 DEF StepDisconnect
  <2> QED  BY <1>3, <2>1, <2>2, DisconnectWitness
<1>9. CASE StepRefused(t) \/ StepFromFuture(t)
  <2>1. /\ UNCHANGED <<index, failures, setBlockIndexCandidates, tip>>
        /\ csMain' = NoJob
    BY <1>9 DEF StepRefused, StepFromFuture, Return
  <2> QED  BY <1>2, <2>1, WitnessStays DEF Clean, Linked, failed
<1>10. CASE StepConnect(t)
  <2>1. PICK x \in Blocks :
            /\ pprev[x] = tip /\ tip' = x
            /\ setBlockIndexCandidates' =
                   {c \in setBlockIndexCandidates : ~Better(x, c)}
            /\ csMain' \in {csMain, NoJob}
            /\ UNCHANGED <<index, failures>>
    BY <1>10 DEF StepConnect, ConnectsNext, Return
  <2>2. Witnessed'
    BY <2>1, ConnectWitness
  <2> QED  BY <1>2, <1>3, <2>1, <2>2
<1>11. CASE StepInvalid(t)
  <2>1. PICK x \in Blocks :
            /\ BreaksRule(x) /\ failed' = failed \cup {x}
            /\ setBlockIndexCandidates' = setBlockIndexCandidates \ {x}
            /\ UNCHANGED <<index, tip>> /\ csMain' = NoJob
    BY <1>11 DEF StepInvalid, Return, failed
  <2>2. x \in BadBlocks
    BY <2>1 DEF BreaksRule, BadBlocks
  <2>3. Witnessed'
    BY <2>1, <2>2, PurgeWitness
  <2> QED  BY <1>2, <2>1, <2>3
<1>12. ~InvalidateWalk(t) /\ ~InvalidateFinish(t)
  BY DEF InvalidateWalk, InvalidateFinish, Invalidating, BInv, OnlySteps
<1> QED
  BY <1>4, <1>5, <1>6, <1>7, <1>8, <1>9, <1>10, <1>11, <1>12 DEF ThreadStep

LEMMA BestInit ==
    Init => BInv
<1> SUFFICES ASSUME Init PROVE BInv
  OBVIOUS
<1>1. VInv /\ OnlySteps
  BY ValidInit DEF Init, OnlySteps
<1>2. failed = {} /\ TipClean /\ JobClean /\ JobBest
  BY DEF Init, failed, TipClean, JobClean, JobBest
<1>3. DataValid
  BY TreeAssumption DEF Init, DataValid, BLOCK_VALID_CONTEXT, BLOCK_VALID_TRANSACTIONS
<1>4. /\ Genesis \in Blocks /\ nSequenceId \in [Blocks -> Nat]
      /\ Clean(Genesis) /\ setBlockIndexCandidates = {Genesis}
  BY <1>1, TreeAssumption, ChainAssumption, InputAssumption
     DEF Init, Clean, BadBlocks, failed, VInv, CInv, LInv, TInv, TypeOK
<1>5. Witnessed
  <2> SUFFICES ASSUME NEW b \in Blocks, Linked(b) PROVE ~Better(b, Genesis)
    BY <1>4 DEF Witnessed, Clean
  <2>1. b = Genesis
    BY DEF Init, Linked
  <2> QED  BY <1>4, <2>1, BetterOrder DEF Better
<1> QED  BY <1>1, <1>2, <1>3, <1>5 DEF BInv

LEMMA BestNext ==
    ASSUME MaxOperatorCalls = 0, ~ASSETCHAINS_CC, BInv, [Next]_vars
    PROVE  BInv'
<1>1. VInv' /\ CInv' /\ TInv /\ TypeOK
  BY ValidNext DEF BInv, VInv, CInv, LInv, TInv
<1>5. DataValid'
  BY <1>1, DataValidNext DEF BInv
<1>6. ASSUME Witnessed', JobBest', OnlySteps' PROVE BInv'
  BY <1>1, <1>5, <1>6, CleanNext DEF BInv
<1>7. CASE UNCHANGED vars
  <2>1. UNCHANGED <<index, failures, setBlockIndexCandidates, tip, csMain>>
    BY <1>7 DEF vars
  <2>2. Witnessed'
    BY <2>1, WitnessStays DEF index, failures, Clean, Linked, failed
  <2>3. JobBest' /\ OnlySteps'
    BY <2>1 DEF index, failures, BInv, JobBest, OnlySteps, Clean, Linked, Better,
                BetterBy, failed
  <2> QED  BY <1>6, <2>2, <2>3
<1>8. ASSUME NEW b \in Blocks,
             \/ NewHeader(b) \/ RefuseHeader(b) \/ TimePasses(b)
             \/ \E t \in BlockThreads :
                    SkipBlock(t, b) \/ RejectBlock(t, b) \/ AcceptBlock(t, b)
      PROVE  BInv'
  <2>1. OnlySteps'
    BY <1>8 DEF NewHeader, RefuseHeader, TimePasses, SkipBlock, RejectBlock,
                AcceptBlock, BInv, OnlySteps
  <2>2. Witnessed' /\ JobBest'
    BY <1>1, <1>8, NetworkWitness
  <2> QED  BY <1>6, <2>1, <2>2
<1>9. ASSUME NEW t \in Threads, ThreadStep(t) PROVE BInv'
  <2>1. OnlySteps'
    BY <1>1, <1>9, StepFailures DEF BInv, VInv
  <2>2. Witnessed' /\ JobBest'
    BY <1>9, ActivationWitness
  <2> QED  BY <1>6, <2>1, <2>2
<1> QED  BY <1>1, <1>7, <1>8, <1>9, NoCalls DEF Next

\* ActivateBestChain returns true when it finds nothing better than the tip,
\* when it reaches its goal, or when the node shuts down.
LEMMA IdleMovers ==
    ASSUME TypeOK, [Next]_vars, NEW t \in Threads, act[t] = "active",
           act'[t] = "idle"
    PROVE  \/ StopActivating(t) \/ NothingToActivate(t)
           \/ StepConnect(t) /\ tip' = csMain.block
<1> USE DEF TypeOK, Threads
<1>1. ASSUME NEW b \in Blocks,
             \/ NewHeader(b) \/ RefuseHeader(b) \/ TimePasses(b)
             \/ \E u \in BlockThreads : RejectBlock(u, b)
      PROVE  act' = act
  BY <1>1 DEF NewHeader, RefuseHeader, TimePasses, RejectBlock
<1>2. ASSUME NEW u \in BlockThreads, NEW b \in Blocks,
             SkipBlock(u, b) \/ AcceptBlock(u, b)
      PROVE  act'[t] \in {act[t], "active"}
  BY <1>2 DEF SkipBlock, AcceptBlock, ThenActivate
<1>3. ASSUME NEW u \in RpcThreads, NEW b \in Blocks,
             Invalidate(u, b) \/ Reconsider(u, b)
      PROVE  act'[t] \in {act[t], "active"}
  BY <1>3 DEF Invalidate, Reconsider
<1>4. ASSUME NEW u \in Threads, ThreadStep(u)
      PROVE  \/ act'[t] \in {act[t], "active", "failed"}
             \/ u = t /\ \/ StopActivating(t) \/ NothingToActivate(t)
                         \/ StepConnect(t) /\ tip' = csMain.block
  <2>1. CASE StopActivating(u)
    BY <2>1 DEF StopActivating
  <2>2. CASE NothingToActivate(u)
    <3>1. act' = [act EXCEPT ![u] = "idle"]
      BY <2>2 DEF NothingToActivate
    <3> QED  BY <2>2, <3>1
  <2>3. CASE RefuseReorg(u) \/ ShutDown(u) \/ BeginStep(u) \/ StepDisconnect(u)
    BY <2>3 DEF RefuseReorg, ShutDown, BeginStep, StepDisconnect
  <2>4. CASE StepRefused(u) \/ StepInvalid(u) \/ StepFromFuture(u)
    BY <2>4 DEF StepRefused, StepInvalid, StepFromFuture, Return
  <2>5. CASE InvalidateWalk(u) \/ InvalidateFinish(u)
    BY <2>5 DEF InvalidateWalk, InvalidateFinish, Return
  <2>6. CASE StepConnect(u)
    <3>1. PICK x \in Blocks :
              /\ tip' = x
              /\ \/ x = csMain.block /\ act' = [act EXCEPT ![u] = "idle"]
                 \/ act' = [act EXCEPT ![u] = "active"]
                 \/ act' = act
      BY <2>6 DEF StepConnect, Return
    <3> QED  BY <2>6, <3>1
  <2> QED  BY <1>4, <2>1, <2>2, <2>3, <2>4, <2>5, <2>6 DEF ThreadStep
<1>5. CASE UNCHANGED vars
  BY <1>5 DEF vars
<1> QED  BY <1>1, <1>2, <1>3, <1>4, <1>5 DEF Next

\* When ActivateBestChain returns true, no block that could be the tip beats it.
LEMMA ReturnsBest ==
    ASSUME BInv, [Next]_vars,
           NEW t \in Threads, act[t] = "active", act'[t] = "idle", ~shutdown'
    PROVE  NothingBetter'
<1> USE DEF index, failures, notary
<1>1. /\ TInv /\ TypeOK /\ tip \in Blocks
      /\ setBlockIndexCandidates \subseteq Blocks
      /\ nSequenceId \in [Blocks -> Nat] /\ NoBlock \notin Blocks
  BY TreeAssumption DEF BInv, VInv, CInv, LInv, TInv, TypeOK
<1>2. \A c \in setBlockIndexCandidates : Clean(c) => c \in UsableCandidates
  BY DEF UsableCandidates, PathFromActive, Clean
<1>3. CASE NothingToActivate(t)
  <2>1. PICK most \in {NoBlock, tip} : FindMostWorkChain(most)
    BY <1>3 DEF NothingToActivate
  <2>2. UNCHANGED <<mapBlockIndex, nSequenceId, tip>> /\ failed \subseteq failed'
    BY <1>3 DEF NothingToActivate, MarkFailedPaths, failed
  <2> SUFFICES ASSUME NEW b \in Blocks, Clean(b), Better(b, tip)
               PROVE  FALSE
    BY <2>2 DEF NothingBetter, Activable, Clean, Linked, Better, BetterBy, BadBlocks
  <2>3. ~Better(tip, b)
    BY <1>1, BetterOrder DEF Better
  <2>4. PICK c \in setBlockIndexCandidates : Clean(c) /\ ~Better(b, c)
    BY <2>3 DEF BInv, Witnessed
  <2>5. c \in UsableCandidates
    BY <1>2, <2>4
  <2>6. most = tip /\ (c = tip \/ Better(tip, c))
    <3>1. most \in UsableCandidates /\ \A d \in UsableCandidates \ {most} : Better(most, d)
      BY <2>1, <2>5 DEF FindMostWorkChain
    <3>2. most # NoBlock
      BY <1>1, <3>1 DEF UsableCandidates
    <3> QED  BY <2>5, <3>1, <3>2
  <2> QED  BY <1>1, <2>4, <2>6, BetterOrder DEF Better
<1>4. CASE StepConnect(t) /\ tip' = csMain.block
  <2>1. PICK x \in Blocks :
            /\ pprev[x] = tip /\ tip' = x /\ x = csMain.block /\ csMain # NoJob
            /\ UNCHANGED <<mapBlockIndex, nSequenceId>> /\ failed' = failed
    BY <1>4 DEF StepConnect, ConnectsNext, Stepping, failed
  <2> SUFFICES ASSUME NEW b \in Blocks, Clean(b), Better(b, x)
               PROVE  FALSE
    BY <2>1 DEF NothingBetter, Activable, Clean, Linked, Better, BetterBy, BadBlocks
  <2>4. Better(x, tip) /\ ~Better(tip, b)
    BY <1>1, <2>1, BetterOrder DEF Better
  <2>5. PICK c \in setBlockIndexCandidates : Clean(c) /\ ~Better(b, c)
    BY <2>4 DEF BInv, Witnessed
  <2>6. c = x \/ Better(x, c)
    BY <2>1, <2>5 DEF BInv, JobBest
  <2> QED  BY <1>1, <2>5, <2>6, BetterOrder DEF Better
<1>5. CASE StopActivating(t)
  BY <1>5 DEF StopActivating
<1> QED  BY <1>1, <1>3, <1>4, <1>5, IdleMovers

\* "The result is either failure or an activated best chain": on a node whose
\* operator does not interfere and whose chain has no ASSETCHAINS_CC, whatever
\* the trees, the invalid blocks, the blocks from the future, the branch that a
\* notarisation names and the reorganisations that stop half-way or are refused
\* for finality, ActivateBestChain returns true only when no linked block whose
\* chain breaks no rule and carries no mark beats the tip.
THEOREM ActivationReturnsBest ==
    ASSUME MaxOperatorCalls = 0, ~ASSETCHAINS_CC
    PROVE  Spec => ActivatesBest
<1>1. BInv /\ [Next]_vars => BInv'
  BY BestNext
<1>2. BInv /\ [Next]_vars =>
          [\A t \in Threads :
              act[t] = "active" /\ act'[t] = "idle" /\ ~shutdown' =>
                  NothingBetter']_vars
  BY ReturnsBest
<1> QED  BY <1>1, <1>2, BestInit, PTL DEF Spec, ActivatesBest
=============================================================================
