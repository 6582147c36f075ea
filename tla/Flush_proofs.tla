----------------------------- MODULE Flush_proofs -----------------------------
(* Whenever the process dies, the disk holds a chain state that can be loaded. *)
EXTENDS Flush, FiniteSets, FiniteSetTheorems, TLAPS

\* An entry as far as the proof needs it: the undo position is set with the flag,
\* and only a block whose data is there has undo data.
ProofEntry == [known : BOOLEAN, data : BOOLEAN, undo : BOOLEAN,
               file : Files, pos : Nat, undoPos : Nat]

EntryOK(e) == /\ e \in ProofEntry
              /\ e.undo <=> e.undoPos # 0
              /\ e.undo => e.data
              /\ e.data => e.known

ProofInfo == [size : Nat, undoSize : Nat, heightLast : Nat]

\* What an index may do to an entry, if nothing is pruned
Grows(e, f) == /\ e.known => f.known
               /\ ~havePruned => (e.data => f.data) /\ (e.undo => f.undo)

\* An index that holds the chain of block b
Holds(ix, b) ==
    /\ ix[Genesis].known
    /\ \A c \in Chain[b] : /\ ix[c].known
                           /\ ~havePruned => ix[c].data /\ ix[c].undo

\* The inductive invariant.
Types ==
    /\ index \in [AllBlocks -> ProofEntry] /\ diskIndex \in [AllBlocks -> ProofEntry]
    /\ info \in [Files -> ProofInfo] /\ diskInfo \in [Files -> ProofInfo]
    /\ dirty \subseteq AllBlocks
    /\ best \in AllBlocks /\ tip \in AllBlocks /\ diskBest \in AllBlocks
    /\ phase \in Phases /\ havePruned \in BOOLEAN

\* Outside the dirty set memory and disk agree, and disk lags behind memory.
Lags ==
    \A b \in AllBlocks : /\ EntryOK(index[b]) /\ EntryOK(diskIndex[b])
                         /\ b \notin dirty => index[b] = diskIndex[b]
                         /\ Grows(diskIndex[b], index[b])

ChainsHeld == Holds(index, best) /\ Holds(index, tip) /\ Holds(diskIndex, diskBest)

\* The coins are written after the index, with nothing in between.
Ordered ==
    /\ phase \in {"unlink", "coins"} => dirty = {}
    /\ pruning # {} => havePruned

IInv == Types /\ Lags /\ ChainsHeld /\ Ordered

LEMMA ChainFacts ==
    /\ Chain[Genesis] = {}
    /\ \A b \in AllBlocks : Chain[b] \subseteq AllBlocks
    /\ \A b \in Blocks : /\ Parent[b] \in AllBlocks /\ b \in AllBlocks /\ b \in Chain[b]
                         /\ Chain[b] = {b} \cup Chain[Parent[b]]
    /\ Genesis \in AllBlocks
BY TreeAssumption DEF AllBlocks

LEMMA EntryTypes ==
    /\ NoEntry \in ProofEntry /\ HeaderOnly \in ProofEntry /\ NoInfo \in ProofInfo
    /\ EntryOK(NoEntry) /\ EntryOK(HeaderOnly) /\ HeaderOnly.known
BY FileAssumption DEF NoEntry, HeaderOnly, ProofEntry, EntryOK, NoInfo, ProofInfo

LEMMA InitInv == Init => IInv
<1> SUFFICES ASSUME Init PROVE IInv
  OBVIOUS
<1> DEFINE first == [known |-> TRUE, data |-> TRUE, undo |-> FALSE, file |-> 0, pos |-> 1, undoPos |-> 0]
<1>1. first \in ProofEntry /\ EntryOK(first) /\ first.known
  BY FileAssumption DEF ProofEntry, EntryOK
<1>2. index = [b \in AllBlocks |-> IF b = Genesis THEN first ELSE NoEntry]
  BY DEF Init
<1> HIDE DEF first
<1>3. \A b \in AllBlocks : EntryOK(index[b])
  BY <1>1, <1>2, EntryTypes
<1>4. Types
  <2> DEFINE one == [size |-> 1, undoSize |-> 0, heightLast |-> 0]
  <2>1. one \in ProofInfo
    BY DEF ProofInfo
  <2>2. info = [f \in Files |-> IF f = 0 THEN one ELSE NoInfo] /\ diskInfo = info
    BY DEF Init
  <2> HIDE DEF one
  <2>3. info \in [Files -> ProofInfo] /\ diskInfo \in [Files -> ProofInfo]
    BY <2>1, <2>2, EntryTypes
  <2>4. index \in [AllBlocks -> ProofEntry]
    BY <1>1, <1>2, EntryTypes
  <2>5. /\ diskIndex = index /\ dirty = {} /\ phase = "idle" /\ havePruned = FALSE
        /\ best = Genesis /\ tip = Genesis /\ diskBest = Genesis
    BY DEF Init
  <2> QED
    BY <2>3, <2>4, <2>5, ChainFacts DEF Types, Phases
<1>5. Lags
  BY <1>3 DEF Init, Lags, Grows
<1>6. index[Genesis].known
  BY <1>1, <1>2, ChainFacts
<1>7. ChainsHeld
  BY <1>6, ChainFacts DEF Init, ChainsHeld, Holds
<1> QED
  BY <1>4, <1>5, <1>7 DEF Init, IInv, Ordered

\* A step that changes one entry of the index to a larger one, and marks it
LEMMA EntryStep ==
    ASSUME IInv, NEW b \in AllBlocks, NEW e, EntryOK(e), Grows(index[b], e),
           index' = [index EXCEPT ![b] = e], dirty' = dirty \cup {b}, phase = "idle",
           info' \in [Files -> ProofInfo],
           UNCHANGED <<phase, diskIndex, diskInfo, diskBest, havePruned, tip, pruning>>,
           best' \in AllBlocks, Holds(index', best')
    PROVE  IInv'
<1>1. e \in ProofEntry
  BY DEF EntryOK
<1>2. Types'
  BY <1>1 DEF IInv, Types
<1>3. Lags'
  <2> SUFFICES ASSUME NEW c \in AllBlocks
               PROVE  /\ EntryOK(index'[c]) /\ EntryOK(diskIndex[c])
                      /\ c \notin dirty' => index'[c] = diskIndex[c]
                      /\ Grows(diskIndex[c], index'[c])
    BY DEF Lags, Grows, EntryOK
  <2>1. index'[c] = IF c = b THEN e ELSE index[c]
    BY DEF IInv, Types
  <2>2. EntryOK(index[c]) /\ EntryOK(diskIndex[c]) /\ Grows(diskIndex[c], index[c])
        /\ (c \notin dirty => index[c] = diskIndex[c])
    BY DEF IInv, Lags
  <2> QED
    BY <2>1, <2>2 DEF Grows
<1>4. Holds(index', tip)
  <2>1. \A c \in AllBlocks : Grows(index[c], index'[c])
    BY DEF IInv, Types, Grows
  <2> QED
    BY <2>1, ChainFacts DEF IInv, Types, ChainsHeld, Holds, Grows
<1>5. ChainsHeld'
  BY <1>4 DEF IInv, ChainsHeld, Holds
<1>6. Ordered'
  BY DEF IInv, Ordered
<1> QED
  BY <1>2, <1>3, <1>5, <1>6 DEF IInv

LEMMA AcceptHeaderInv == ASSUME IInv, NEW b \in Blocks, AcceptHeader(b) PROVE IInv'
<1>0. b \in AllBlocks
  BY ChainFacts
<1>1. EntryOK(index[b]) /\ ~index[b].known
  BY <1>0 DEF IInv, Lags, AcceptHeader
<1>2. Grows(index[b], HeaderOnly)
  BY <1>1 DEF Grows, EntryOK
<1>3. index' = [index EXCEPT ![b] = HeaderOnly]
  BY DEF AcceptHeader
<1>4. Holds(index', best')
  <2>1. \A c \in AllBlocks : Grows(index[c], index'[c])
    BY <1>2, <1>3 DEF IInv, Types, Grows
  <2> QED
    BY <2>1, ChainFacts DEF IInv, Types, ChainsHeld, Holds, Grows, AcceptHeader
<1> QED
  BY <1>0, <1>2, <1>3, <1>4, EntryTypes, EntryStep
     DEF AcceptHeader, flushVars, diskVars, indexVars, IInv, Types

LEMMA AcceptBlockInv ==
    ASSUME IInv, NEW b \in Blocks, NEW f \in Files, AcceptBlock(b, f) PROVE IInv'
<1> DEFINE p == info[f].size + 1
<1> DEFINE e == [known |-> TRUE, data |-> TRUE, undo |-> FALSE, file |-> f, pos |-> p, undoPos |-> 0]
<1>0. b \in AllBlocks
  BY ChainFacts
<1>1. /\ info[f] \in ProofInfo /\ p \in Nat /\ info[f].undoSize \in Nat
      /\ info[f].heightLast \in Nat /\ Height[b] \in Nat
  BY <1>0, TreeAssumption DEF IInv, Types, ProofInfo
<1>2. EntryOK(e)
  BY <1>1 DEF EntryOK, ProofEntry
<1>3. EntryOK(index[b]) /\ ~index[b].data
  BY <1>0 DEF IInv, Lags, AcceptBlock
<1>4. Grows(index[b], e)
  BY <1>3 DEF Grows, EntryOK
<1>5. index' = [index EXCEPT ![b] = e]
  BY DEF AcceptBlock
<1>6. info' \in [Files -> ProofInfo]
  <2> DEFINE h == IF Height[b] > info[f].heightLast THEN Height[b] ELSE info[f].heightLast
  <2> DEFINE i == [size |-> p, undoSize |-> info[f].undoSize, heightLast |-> h]
  <2>1. h \in Nat
    BY <1>1
  <2>2. i \in ProofInfo
    BY <1>1, <2>1 DEF ProofInfo
  <2>3. info' = [info EXCEPT ![f] = i]
    BY DEF AcceptBlock, IInv, Types
  <2> HIDE DEF i
  <2> QED
    BY <2>2, <2>3 DEF IInv, Types
<1> HIDE DEF e, p
<1>7. Holds(index', best')
  <2>1. \A c \in AllBlocks : Grows(index[c], index'[c])
    BY <1>4, <1>5 DEF IInv, Types, Grows
  <2> QED
    BY <2>1, ChainFacts DEF IInv, Types, ChainsHeld, Holds, Grows, AcceptBlock
<1> QED
  BY <1>0, <1>2, <1>4, <1>5, <1>6, <1>7, EntryStep
     DEF AcceptBlock, flushVars, diskVars, indexVars, IInv, Types

LEMMA ConnectTipInv == ASSUME IInv, NEW b \in Blocks, ConnectTip(b) PROVE IInv'
<1>0. /\ b \in AllBlocks /\ Parent[b] = tip /\ best = tip /\ phase = "idle" /\ best' = b
      /\ UNCHANGED <<phase, pruning, diskIndex, diskInfo, diskBest, havePruned, tip>>
      /\ EntryOK(index[b]) /\ index[b].data /\ index[b].known
  BY ChainFacts DEF ConnectTip, IInv, Lags, EntryOK, flushVars, indexVars
<1>1. CASE index[b].undoPos # 0
  <2>1. index' = index /\ dirty' = dirty /\ info' = info
    BY <1>1 DEF ConnectTip
  <2>2. Holds(index, b)
    BY <1>0, <1>1, ChainFacts DEF IInv, ChainsHeld, Holds, EntryOK
  <2>3. Types' /\ Lags' /\ Ordered'
    BY <1>0, <2>1 DEF IInv, Types, Lags, Ordered, Grows, EntryOK
  <2>4. ChainsHeld'
    BY <1>0, <2>1, <2>2 DEF IInv, ChainsHeld, Holds
  <2> QED
    BY <2>3, <2>4 DEF IInv
<1>2. CASE index[b].undoPos = 0
  <2> DEFINE f == index[b].file
  <2> DEFINE p == info[f].undoSize + 1
  <2> DEFINE e == WithUndo(index[b], p)
  <2>1. index' = [index EXCEPT ![b] = e] /\ dirty' = dirty \cup {b}
    BY <1>0, <1>2 DEF ConnectTip, IInv, Types
  <2>2. f \in Files /\ p \in Nat \ {0} /\ info[f] \in ProofInfo
    BY <1>0 DEF EntryOK, ProofEntry, IInv, Types, ProofInfo
  <2>3. EntryOK(e) /\ e.known /\ e.data /\ e.undo
    BY <1>0, <2>2 DEF EntryOK, ProofEntry, WithUndo
  <2>4. info' \in [Files -> ProofInfo]
    <3>1. [info[f] EXCEPT !.undoSize = p] \in ProofInfo
      BY <2>2 DEF ProofInfo
    <3>2. info' = [info EXCEPT ![f] = [info[f] EXCEPT !.undoSize = p]]
      BY <1>2, <2>2 DEF ConnectTip, IInv, Types
    <3> QED
      BY <3>1, <3>2, <2>2 DEF IInv, Types
  <2> HIDE DEF e, p, f
  <2>5. Grows(index[b], e)
    BY <2>3 DEF Grows
  <2>6. Holds(index', b)
    <3>1. \A c \in AllBlocks : index'[c] = IF c = b THEN e ELSE index[c]
      BY <2>1 DEF IInv, Types
    <3> QED
      BY <3>1, <1>0, <2>3, ChainFacts DEF IInv, ChainsHeld, Holds
  <2> QED
    BY <1>0, <2>1, <2>3, <2>4, <2>5, <2>6, EntryStep DEF Holds
<1> QED
  BY <1>1, <1>2

LEMMA DisconnectTipInv == ASSUME IInv, DisconnectTip PROVE IInv'
<1>1. /\ tip \in Blocks /\ best' = Parent[tip]
      /\ UNCHANGED <<index, dirty, info, tip, phase, pruning, diskIndex, diskInfo, diskBest, havePruned>>
  BY DEF DisconnectTip, IInv, Types, AllBlocks, flushVars, diskVars, indexVars
<1>2. best' \in AllBlocks /\ Chain[best'] \subseteq Chain[tip]
  BY <1>1, ChainFacts
<1>3. Types' /\ Lags' /\ Ordered'
  BY <1>1, <1>2 DEF IInv, Types, Lags, Ordered, Grows, EntryOK
<1>4. Holds(index, best')
  BY <1>2 DEF IInv, ChainsHeld, Holds
<1>5. ChainsHeld'
  BY <1>1, <1>4 DEF IInv, ChainsHeld, Holds
<1> QED
  BY <1>3, <1>5 DEF IInv

LEMMA UpdateTipInv == ASSUME IInv, UpdateTip PROVE IInv'
<1>1. /\ tip' = best
      /\ UNCHANGED <<index, dirty, info, best, phase, pruning, diskIndex, diskInfo, diskBest, havePruned>>
  BY DEF UpdateTip, flushVars, diskVars, indexVars
<1> QED
  BY <1>1 DEF IInv, Types, Lags, Ordered, Grows, EntryOK, ChainsHeld, Holds

LEMMA StartFlushInv ==
    ASSUME IInv, NEW files \in SUBSET Files, NEW all \in BOOLEAN, StartFlush(files, all) PROVE IInv'
<1>0. /\ phase' = "sync" /\ havePruned' = (havePruned \/ files # {}) /\ pruning' = files
      /\ UNCHANGED <<best, tip, diskIndex, diskInfo, diskBest>>
      /\ dirty' = dirty \cup {b \in AllBlocks : index[b].known /\ index[b].file \in files}
      /\ index' = [b \in AllBlocks |->
                     IF index[b].known /\ index[b].file \in files THEN HeaderOnly ELSE index[b]]
      /\ info' = [f \in Files |-> IF f \in files THEN NoInfo ELSE info[f]]
  BY DEF StartFlush, FindFilesToPrune
<1>1. /\ havePruned \in BOOLEAN /\ havePruned' \in BOOLEAN /\ (havePruned => havePruned')
      /\ (~havePruned' => files = {})
  BY <1>0 DEF IInv, Types
<1>2. Types'
  <2>1. index' \in [AllBlocks -> ProofEntry]
    BY <1>0, EntryTypes DEF IInv, Types
  <2>2. info' \in [Files -> ProofInfo]
    BY <1>0, EntryTypes DEF IInv, Types
  <2> QED
    BY <1>0, <1>1, <2>1, <2>2 DEF IInv, Types, Phases
<1>3. \A b \in AllBlocks : EntryOK(index'[b]) /\ (index[b].known => index'[b].known)
                           /\ (~havePruned' => index'[b] = index[b])
  BY <1>0, <1>1, EntryTypes DEF IInv, Lags
<1>4. Lags'
  <2> SUFFICES ASSUME NEW b \in AllBlocks
               PROVE  /\ EntryOK(index'[b]) /\ EntryOK(diskIndex[b])
                      /\ b \notin dirty' => index'[b] = diskIndex[b]
                      /\ diskIndex[b].known => index'[b].known
                      /\ ~havePruned' => /\ diskIndex[b].data => index'[b].data
                                         /\ diskIndex[b].undo => index'[b].undo
    BY <1>0 DEF Lags, Grows, EntryOK
  <2>1. b \notin dirty' => b \notin dirty /\ index'[b] = index[b]
    BY <1>0
  <2> QED
    BY <1>1, <1>3, <2>1 DEF IInv, Lags, Grows
<1>5. ChainsHeld'
  <2>1. Holds(index, best) /\ Holds(index, tip) /\ Holds(diskIndex, diskBest)
        /\ best \in AllBlocks /\ tip \in AllBlocks
    BY DEF IInv, ChainsHeld, Types
  <2>2. /\ index'[Genesis].known /\ diskIndex[Genesis].known
        /\ \A c \in Chain[best] \cup Chain[tip] :
             index'[c].known /\ (~havePruned' => index'[c].data /\ index'[c].undo)
    BY <2>1, <1>1, <1>3, ChainFacts DEF Holds
  <2>3. \A c \in Chain[diskBest] :
             diskIndex[c].known /\ (~havePruned' => diskIndex[c].data /\ diskIndex[c].undo)
    BY <2>1, <1>1 DEF Holds
  <2> QED
    BY <1>0, <2>2, <2>3 DEF ChainsHeld, Holds
<1>6. Ordered'
  BY <1>0 DEF Ordered
<1> QED
  BY <1>2, <1>4, <1>5, <1>6 DEF IInv

LEMMA SyncFilesInv == ASSUME IInv, SyncFiles PROVE IInv'
<1>1. /\ phase' = "index"
      /\ UNCHANGED <<index, dirty, info, best, tip, pruning, diskIndex, diskInfo, diskBest, havePruned>>
  BY DEF SyncFiles, memVars, indexVars
<1> QED
  BY <1>1 DEF IInv, Types, Lags, Ordered, Grows, EntryOK, ChainsHeld, Holds, Phases

LEMMA WriteIndexInv == ASSUME IInv, WriteIndex PROVE IInv'
<1>0. /\ diskIndex' = [b \in AllBlocks |-> IF b \in dirty THEN index[b] ELSE diskIndex[b]]
      /\ diskInfo' = [f \in Files |-> IF f \in dirtyInfo THEN info[f] ELSE diskInfo[f]]
      /\ dirty' = {}
      /\ UNCHANGED <<index, info, best, tip, pruning, havePruned, diskBest>>
  BY DEF WriteIndex
<1>1. phase' \in Phases
  BY DEF WriteIndex, Proceed, Phases
<1>2. \A b \in AllBlocks : diskIndex'[b] = index[b]
  BY <1>0 DEF IInv, Lags
<1>3. Types'
  BY <1>0, <1>1 DEF IInv, Types
<1>4. Lags'
  BY <1>0, <1>2 DEF IInv, Lags, Grows, EntryOK
<1>5. ChainsHeld'
  <2>1. \A b \in AllBlocks : Grows(diskIndex[b], diskIndex'[b])
    BY <1>2 DEF IInv, Lags
  <2>2. Holds(diskIndex', diskBest)
    BY <2>1, ChainFacts DEF IInv, Types, ChainsHeld, Holds, Grows
  <2> QED
    BY <1>0, <2>2 DEF IInv, ChainsHeld, Holds
<1> QED
  BY <1>0, <1>3, <1>4, <1>5 DEF IInv, Ordered

LEMMA UnlinkInv == ASSUME IInv, UnlinkPrunedFiles PROVE IInv'
<1>1. /\ phase' \in Phases /\ pruning' = {} /\ dirty = {}
      /\ UNCHANGED <<index, dirty, info, best, tip, diskIndex, diskInfo, diskBest, havePruned>>
  BY DEF UnlinkPrunedFiles, Proceed, Phases, memVars, indexVars, IInv, Ordered
<1> QED
  BY <1>1 DEF IInv, Types, Lags, Ordered, Grows, EntryOK, ChainsHeld, Holds

LEMMA FlushCoinsInv == ASSUME IInv, FlushCoins PROVE IInv'
<1>1. /\ phase' = "idle" /\ dirty = {} /\ diskBest' = best
      /\ UNCHANGED <<index, dirty, info, best, tip, pruning, diskIndex, diskInfo, havePruned>>
  BY DEF FlushCoins, Proceed, memVars, indexVars, IInv, Ordered
<1>2. \A b \in AllBlocks : diskIndex[b] = index[b]
  BY <1>1 DEF IInv, Lags
<1>3. Holds(diskIndex, best)
  BY <1>2, ChainFacts DEF IInv, Types, ChainsHeld, Holds
<1>4. ChainsHeld'
  BY <1>1, <1>3 DEF IInv, ChainsHeld, Holds
<1> QED
  BY <1>1, <1>4 DEF IInv, Types, Lags, Ordered, Grows, EntryOK, Phases

LEMMA CrashInv == ASSUME IInv, Crash PROVE IInv'
<1>1. /\ phase' = "idle" /\ pruning' = {} /\ dirty' = {} /\ index' = diskIndex /\ info' = diskInfo
      /\ best' = diskBest /\ tip' = diskBest
      /\ UNCHANGED <<diskIndex, diskInfo, diskBest, havePruned>>
  BY DEF Crash, diskVars, indexVars
<1> QED
  BY <1>1 DEF IInv, Types, Lags, Ordered, Grows, EntryOK, ChainsHeld, Holds, Phases

\* Every step of the node, and every crash, keeps the invariant.
LEMMA InvNext == IInv /\ [Next]_vars => IInv'
<1> SUFFICES ASSUME IInv, [Next]_vars PROVE IInv'
  OBVIOUS
<1>1. CASE UNCHANGED vars
  BY <1>1 DEF vars, memVars, flushVars, diskVars, indexVars, IInv, Types, Lags, Ordered,
              Grows, EntryOK, ChainsHeld, Holds
<1>2. CASE Next
  BY <1>2, AcceptHeaderInv, AcceptBlockInv, ConnectTipInv, DisconnectTipInv, UpdateTipInv,
     StartFlushInv, SyncFilesInv, WriteIndexInv, UnlinkInv, FlushCoinsInv, CrashInv DEF Next
<1> QED
  BY <1>1, <1>2

LEMMA Invariance == Spec => []IInv
  BY InitInv, InvNext, PTL DEF Spec

\* LoadBlockIndexDB finds the best block of the coins database, and every block
\* below it, in the block index, for every tree of blocks and every split into files.
THEOREM Loadable == Spec => []BestBlockLoadable
<1>1. IInv => BestBlockLoadable
  <2> SUFFICES ASSUME IInv, NEW b \in Chain[diskBest] \cup {diskBest} PROVE diskIndex[b].known
    BY DEF BestBlockLoadable
  <2>1. diskBest \in AllBlocks /\ Holds(diskIndex, diskBest)
    BY DEF IInv, Types, ChainsHeld
  <2>2. diskBest = Genesis \/ diskBest \in Chain[diskBest]
    BY <2>1, ChainFacts DEF AllBlocks
  <2> QED
    BY <2>1, <2>2 DEF Holds
<1> QED
  BY <1>1, Invariance, PTL

\* As long as no file was pruned, the index that is loaded has the data and the undo
\* data of every block between the genesis block and the best block.
THEOREM ChainDisconnectable == Spec => []Disconnectable
<1>1. IInv => Disconnectable
  BY DEF IInv, ChainsHeld, Holds, Disconnectable
<1> QED
  BY <1>1, Invariance, PTL

-----------------------------------------------------------------------------
(* What the files hold.  An index, its file infos and its last file number *)
(* are laid out when every entry points into a written part of its file    *)
(* that holds the block, and every undo record of a file belongs to an     *)
(* entry: so a file has room for the undo data of all of its blocks.       *)

DataAt(ix, inf, lf) ==
    \A b \in AllBlocks :
        ix[b].data => /\ ix[b].file <= lf
                      /\ 1 <= ix[b].pos /\ ix[b].pos <= inf[ix[b].file].size
                      /\ blk[ix[b].file][ix[b].pos].block = b

UndoAt(ix, inf) ==
    \A b \in AllBlocks :
        ix[b].undo => /\ ix[b].undoPos <= inf[ix[b].file].undoSize
                      /\ rev[ix[b].file][ix[b].undoPos].block = b

UndoOwned(ix, inf) ==
    \A f \in Files : \A i \in 1..inf[f].undoSize :
        \E b \in AllBlocks : ix[b].undo /\ ix[b].file = f /\ ix[b].undoPos = i

LaidOut(ix, inf, lf) == DataAt(ix, inf, lf) /\ UndoAt(ix, inf) /\ UndoOwned(ix, inf)

\* Memory is ahead of the disk in every file that may still be written.
InfoLags ==
    \A f \in Files :
        /\ f \notin dirtyInfo => info[f] = diskInfo[f]
        /\ \/ f < lastFile /\ info[f].size = 0
           \/ /\ diskInfo[f].size <= info[f].size
              /\ diskInfo[f].undoSize <= info[f].undoSize

\* A file is synced when the node moves on to the next, and before the index
\* that refers to it is written.
DataSynced ==
    \A b \in AllBlocks :
        /\ diskIndex[b].data => blk[diskIndex[b].file][diskIndex[b].pos].synced
        /\ index[b].data /\ (phase = "index" \/ index[b].file # lastFile) =>
               blk[index[b].file][index[b].pos].synced

\* The index forgets a file before the file is deleted.
Forgotten ==
    /\ \A b \in AllBlocks : index[b].data => index[b].file \notin pruning
    /\ phase \in {"idle", "coins"} => pruning = {}

DInv ==
    /\ IInv /\ TypeOK
    /\ LaidOut(index, info, lastFile)
    /\ LaidOut(diskIndex, diskInfo, diskLastFile)
    /\ InfoLags /\ DataSynced /\ Forgotten

Contents == [Files -> [Positions -> Slot]]

LEMMA FileTypes ==
    /\ Positions \subseteq Nat /\ Files \subseteq Nat /\ BlocksPerFile \in Nat
    /\ NoInfo \in FileInfo /\ NoEntry \in Entry /\ HeaderOnly \in Entry
    /\ EmptyFile \in [Positions -> Slot]
<1>1. /\ Positions \subseteq Nat /\ Files \subseteq Nat /\ BlocksPerFile \in Nat
      /\ 0 \in 0..BlocksPerFile /\ 0 \in Files
  BY FileAssumption DEF Positions
<1>2. NoInfo \in FileInfo /\ NoEntry \in Entry /\ HeaderOnly \in Entry
  BY <1>1 DEF NoInfo, FileInfo, NoEntry, Entry, HeaderOnly
<1>3. [block |-> NoBlock, synced |-> TRUE] \in Slot
  BY DEF Slot
<1>4. EmptyFile \in [Positions -> Slot]
  BY <1>3 DEF EmptyFile
<1> QED
  BY <1>1, <1>2, <1>4

\* Syncing a file moves no record.
LEMMA SyncedFacts ==
    ASSUME NEW files \in Contents, NEW f \in Files
    PROVE  /\ Synced(files, f) \in Contents
           /\ \A g \in Files, q \in Positions :
                  /\ Synced(files, f)[g][q].block = files[g][q].block
                  /\ files[g][q].synced => Synced(files, f)[g][q].synced
                  /\ g = f => Synced(files, f)[g][q].synced
<1> DEFINE S == Synced(files, f)
           line == [p \in Positions |-> [files[f][p] EXCEPT !.synced = TRUE]]
<1>1. S = [files EXCEPT ![f] = line]
  BY DEF Synced, Contents
<1>2. \A p \in Positions : files[f][p] \in Slot
  BY DEF Contents
<1>3. \A p \in Positions : /\ line[p] \in Slot /\ line[p].block = files[f][p].block
                           /\ line[p].synced
  BY <1>2 DEF Slot
<1>4. line \in [Positions -> Slot]
  BY <1>3
<1> HIDE DEF line, S
<1>5. S \in Contents
  BY <1>1, <1>4 DEF Contents
<1>6. ASSUME NEW g \in Files, NEW q \in Positions
      PROVE  /\ S[g][q].block = files[g][q].block
             /\ files[g][q].synced => S[g][q].synced
             /\ g = f => S[g][q].synced
  <2>1. CASE g = f
    BY <1>1, <1>3, <2>1 DEF Contents
  <2>2. CASE g # f
    BY <1>1, <2>2 DEF Contents
  <2> QED
    BY <2>1, <2>2
<1> QED
  BY <1>5, <1>6 DEF S

\* Writing a record leaves the others where they are.
Write(files, f, p, s) == [files EXCEPT ![f][p] = s]

LEMMA WriteFacts ==
    ASSUME NEW files \in Contents, NEW f \in Files, NEW p \in Positions, NEW s \in Slot
    PROVE  /\ Write(files, f, p, s) \in Contents
           /\ \A g \in Files, q \in Positions :
                  Write(files, f, p, s)[g][q] = IF g = f /\ q = p THEN s ELSE files[g][q]
<1> DEFINE line == [files[f] EXCEPT ![p] = s]
           W == Write(files, f, p, s)
<1>1. W = [files EXCEPT ![f] = line]
  BY DEF Contents, Write
<1>2. line \in [Positions -> Slot] /\ \A q \in Positions : line[q] = IF q = p THEN s ELSE files[f][q]
  BY DEF Contents
<1> HIDE DEF line, W
<1>3. W \in Contents
  BY <1>1, <1>2 DEF Contents
<1>4. \A g \in Files, q \in Positions : W[g][q] = IF g = f /\ q = p THEN s ELSE files[g][q]
  BY <1>1, <1>2 DEF Contents
<1> QED
  BY <1>3, <1>4 DEF W

\* The position of an entry with data is a place of its file, and so is the
\* position of its undo data.
LEMMA EntryPlaces ==
    ASSUME DInv, NEW b \in AllBlocks
    PROVE  /\ index[b] \in Entry /\ index[b].file \in Files
           /\ diskIndex[b] \in Entry /\ diskIndex[b].file \in Files
           /\ index[b].data => index[b].pos \in Positions
           /\ diskIndex[b].data => diskIndex[b].pos \in Positions
           /\ index[b].undo => index[b].undoPos \in Positions /\ index[b].data
           /\ diskIndex[b].undo => diskIndex[b].undoPos \in Positions /\ diskIndex[b].data
           /\ ~index[b].undo <=> index[b].undoPos = 0
           /\ index[b].data => index[b].known
<1>1. /\ index[b] \in Entry /\ diskIndex[b] \in Entry
      /\ EntryOK(index[b]) /\ EntryOK(diskIndex[b])
  BY DEF DInv, IInv, Lags, TypeOK
<1>2. /\ index[b].pos \in 0..BlocksPerFile /\ diskIndex[b].pos \in 0..BlocksPerFile
      /\ index[b].undoPos \in 0..BlocksPerFile /\ diskIndex[b].undoPos \in 0..BlocksPerFile
      /\ index[b].file \in Files /\ diskIndex[b].file \in Files
  BY <1>1 DEF Entry
<1>3. /\ index[b].data => 1 <= index[b].pos
      /\ diskIndex[b].data => 1 <= diskIndex[b].pos
  BY DEF DInv, LaidOut, DataAt
<1> QED
  BY <1>1, <1>2, <1>3, FileTypes DEF EntryOK, Positions

\* The file infos count what fits into a file.
LEMMA InfoPlaces ==
    ASSUME DInv, NEW f \in Files
    PROVE  /\ info[f] \in FileInfo /\ diskInfo[f] \in FileInfo
           /\ info[f].size \in 0..BlocksPerFile /\ info[f].undoSize \in 0..BlocksPerFile
           /\ diskInfo[f].size \in 0..BlocksPerFile
           /\ diskInfo[f].undoSize \in 0..BlocksPerFile
           /\ info[f].heightLast \in Nat
<1>1. info[f] \in FileInfo /\ diskInfo[f] \in FileInfo
  BY DEF DInv, TypeOK
<1> QED
  BY <1>1 DEF FileInfo

\* A file with a block that was never connected has room for its undo data:
\* each undo record in it belongs to another block, in a place of its own.
LEMMA UndoFits ==
    ASSUME DInv, NEW b \in AllBlocks, index[b].data, ~index[b].undo
    PROVE  info[index[b].file].undoSize + 1 <= info[index[b].file].size
<1> DEFINE f == index[b].file
           n == info[f].undoSize
           m == info[f].size
           Owner(i) == CHOOSE c \in AllBlocks :
                           index[c].undo /\ index[c].file = f /\ index[c].undoPos = i
           Block(i) == IF i = n + 1 THEN b ELSE Owner(i)
           g == [i \in 1..(n + 1) |-> index[Block(i)].pos]
<1>1. f \in Files /\ n \in Nat /\ m \in Nat
  <2>1. f \in Files
    BY EntryPlaces
  <2>2. info[f].size \in 0..BlocksPerFile /\ info[f].undoSize \in 0..BlocksPerFile
    BY <2>1, InfoPlaces
  <2> QED
    BY <2>1, <2>2, FileTypes
<1>2. \A i \in 1..n : /\ Owner(i) \in AllBlocks /\ index[Owner(i)].undo
                      /\ index[Owner(i)].file = f /\ index[Owner(i)].undoPos = i
  BY <1>1 DEF DInv, LaidOut, UndoOwned
<1>3. \A i \in 1..n : index[Owner(i)].data /\ Owner(i) # b
  BY <1>2, EntryPlaces
<1>4. f = index[b].file /\ n = info[f].undoSize /\ m = info[f].size
  OBVIOUS
<1> HIDE DEF f, n, m, Owner
<1>5. \A i \in 1..(n + 1) : /\ Block(i) \in AllBlocks /\ index[Block(i)].data
                            /\ index[Block(i)].file = f
  BY <1>1, <1>2, <1>3, <1>4
<1>6. \A i, j \in 1..(n + 1) : i # j => Block(i) # Block(j)
  BY <1>1, <1>2, <1>3
<1> HIDE DEF Block
<1>7. ASSUME NEW i \in 1..(n + 1)
      PROVE  /\ index[Block(i)].pos \in 1..m
             /\ blk[f][index[Block(i)].pos].block = Block(i)
  <2>1. /\ 1 <= index[Block(i)].pos /\ index[Block(i)].pos <= m
        /\ blk[f][index[Block(i)].pos].block = Block(i)
    BY <1>4, <1>5 DEF DInv, LaidOut, DataAt
  <2>2. index[Block(i)].pos \in Nat
    BY <1>5, EntryPlaces, FileTypes
  <2> QED
    BY <1>1, <2>1, <2>2
<1>8. g \in [1..(n + 1) -> 1..m]
  BY <1>7
<1>9. \A i, j \in 1..(n + 1) : i # j => g[i] # g[j]
  BY <1>6, <1>7
<1> HIDE DEF g
<1>10. ~(m < n + 1)
  <2> SUFFICES ASSUME m < n + 1 PROVE FALSE
    OBVIOUS
  <2>1. /\ IsFiniteSet(1..m) /\ Cardinality(1..m) = m
        /\ IsFiniteSet(1..(n + 1)) /\ Cardinality(1..(n + 1)) = n + 1
    BY <1>1, FS_Interval
  <2> QED
    BY <1>8, <1>9, <2>1, FS_PigeonHole
<1> QED
  BY <1>1, <1>4, <1>10

LEMMA DInvInit == Init => DInv
<1> SUFFICES ASSUME Init PROVE DInv
  OBVIOUS
<1> DEFINE first == [known |-> TRUE, data |-> TRUE, undo |-> FALSE, file |-> 0, pos |-> 1, undoPos |-> 0]
           one == [size |-> 1, undoSize |-> 0, heightLast |-> 0]
           at0 == [block |-> Genesis, synced |-> TRUE]
           file0 == [EmptyFile EXCEPT ![1] = at0]
<1>1. 1 \in Positions /\ 0 \in Files /\ Genesis \in AllBlocks
  BY FileAssumption DEF Positions, AllBlocks
<1>2. /\ index = [b \in AllBlocks |-> IF b = Genesis THEN first ELSE NoEntry]
      /\ info = [f \in Files |-> IF f = 0 THEN one ELSE NoInfo]
      /\ blk = [f \in Files |-> IF f = 0 THEN file0 ELSE EmptyFile]
      /\ rev = [f \in Files |-> EmptyFile]
      /\ diskIndex = index /\ diskInfo = info /\ lastFile = 0 /\ diskLastFile = 0
      /\ dirty = {} /\ dirtyInfo = {} /\ pruning = {} /\ phase = "idle" /\ full = FALSE
      /\ best = Genesis /\ tip = Genesis /\ diskBest = Genesis /\ havePruned = FALSE
  BY DEF Init
<1>3. /\ first \in Entry /\ first.data /\ ~first.undo /\ first.file = 0 /\ first.pos = 1
      /\ one \in FileInfo /\ one.size = 1 /\ one.undoSize = 0
  <2>1. 0 \in 0..BlocksPerFile /\ 1 \in 0..BlocksPerFile
    BY FileAssumption
  <2>2. first \in Entry
    BY <1>1, <2>1 DEF Entry
  <2>3. one \in FileInfo
    BY <2>1 DEF FileInfo
  <2> QED
    BY <2>2, <2>3
<1>4. at0 \in Slot /\ at0.block = Genesis /\ at0.synced
  BY <1>1 DEF Slot
<1> HIDE DEF at0
<1>5. file0 \in [Positions -> Slot] /\ file0[1] = at0
  <2>1. EmptyFile \in [Positions -> Slot]
    BY FileTypes
  <2> QED
    BY <1>1, <1>4, <2>1
<1>6. ~NoEntry.data /\ ~NoEntry.undo /\ NoInfo.size = 0 /\ NoInfo.undoSize = 0
  BY DEF NoEntry, NoInfo
<1> HIDE DEF first, one, file0
<1>7. TypeOK
  BY <1>1, <1>2, <1>3, <1>5, FileTypes DEF TypeOK, Phases
<1>8. \A b \in AllBlocks : /\ ~index[b].undo
                           /\ index[b].data => b = Genesis /\ index[b] = first
  BY <1>2, <1>3, <1>6
<1>9. \A f \in Files : info[f].undoSize = 0
  BY <1>2, <1>3, <1>6
<1>10. info[0].size = 1 /\ blk[0][1] = at0
  BY <1>1, <1>2, <1>3, <1>5
<1>11. DataAt(index, info, lastFile)
  BY <1>2, <1>3, <1>4, <1>8, <1>10 DEF DataAt
<1>12. UndoAt(index, info) /\ UndoOwned(index, info)
  BY <1>8, <1>9 DEF UndoAt, UndoOwned
<1>13. InfoLags
  <2>1. \A f \in Files : info[f] = diskInfo[f] /\ info[f].size \in Nat /\ info[f].undoSize \in Nat
    BY <1>2, <1>3, <1>6
  <2> QED
    BY <2>1 DEF InfoLags
<1>14. DataSynced /\ Forgotten
  BY <1>2, <1>3, <1>4, <1>8, <1>10 DEF DataSynced, Forgotten
<1> QED
  BY <1>2, <1>7, <1>11, <1>12, <1>13, <1>14, InitInv DEF DInv, LaidOut

\* A step that touches neither the files nor the two indexes
LEMMA FilesUnchanged ==
    ASSUME DInv, IInv', TypeOK',
           UNCHANGED <<index, info, dirtyInfo, lastFile, blk, rev,
                       diskIndex, diskInfo, diskLastFile, pruning>>,
           phase' = phase \/ (phase' # "index" /\ pruning = {})
    PROVE  DInv'
<1>1. LaidOut(index, info, lastFile)' /\ LaidOut(diskIndex, diskInfo, diskLastFile)'
  BY DEF DInv, LaidOut, DataAt, UndoAt, UndoOwned
<1>2. InfoLags'
  BY DEF DInv, InfoLags
<1>3. DataSynced' /\ Forgotten'
  BY DEF DInv, DataSynced, Forgotten
<1> QED
  BY <1>1, <1>2, <1>3 DEF DInv

LEMMA DAcceptHeader == ASSUME DInv, IInv', NEW b \in Blocks, AcceptHeader(b) PROVE DInv'
<1>1. /\ index' = [index EXCEPT ![b] = HeaderOnly] /\ dirty' = dirty \cup {b}
      /\ UNCHANGED <<info, dirtyInfo, lastFile, best, tip, phase, full, pruning, blk, rev,
                     diskIndex, diskInfo, diskLastFile, havePruned, diskBest>>
      /\ ~index[b].known /\ b \in AllBlocks
  BY DEF AcceptHeader, flushVars, diskVars, indexVars, AllBlocks
<1>2. index \in [AllBlocks -> Entry] /\ TypeOK
  BY DEF DInv, TypeOK
<1>3. TypeOK'
  BY <1>1, <1>2, FileTypes DEF TypeOK
<1>4. ~index[b].data /\ ~index[b].undo
  BY <1>1, EntryPlaces
<1>5. ~HeaderOnly.data /\ ~HeaderOnly.undo
  BY DEF HeaderOnly
<1>6. \A c \in AllBlocks : /\ index'[c].data => index'[c] = index[c]
                           /\ index'[c].undo => index'[c] = index[c]
                           /\ index[c].undo => index'[c] = index[c]
  BY <1>1, <1>2, <1>4, <1>5
<1>7. LaidOut(index, info, lastFile)'
  BY <1>1, <1>6 DEF DInv, LaidOut, DataAt, UndoAt, UndoOwned
<1>8. LaidOut(diskIndex, diskInfo, diskLastFile)'
  BY <1>1 DEF DInv, LaidOut, DataAt, UndoAt, UndoOwned
<1>9. InfoLags' /\ DataSynced' /\ Forgotten'
  BY <1>1, <1>6 DEF DInv, InfoLags, DataSynced, Forgotten
<1> QED
  BY <1>3, <1>7, <1>8, <1>9 DEF DInv

LEMMA DAcceptBlock ==
    ASSUME DInv, IInv', NEW b \in Blocks, NEW f \in Files, AcceptBlock(b, f) PROVE DInv'
<1> DEFINE p == info[f].size + 1
           e == [known |-> TRUE, data |-> TRUE, undo |-> FALSE, file |-> f, pos |-> p, undoPos |-> 0]
           h == IF Height[b] > info[f].heightLast THEN Height[b] ELSE info[f].heightLast
           i == [size |-> p, undoSize |-> info[f].undoSize, heightLast |-> h]
           files == IF f # lastFile THEN Synced(blk, lastFile) ELSE blk
           new == [block |-> b, synced |-> FALSE]
<1>1. /\ b \in AllBlocks /\ index[b].known /\ ~index[b].data /\ Room(f)
      /\ phase = "idle" /\ phase' = "idle" /\ lastFile' = f /\ dirtyInfo' = dirtyInfo \cup {f}
      /\ dirty' = dirty \cup {b} /\ index' = [index EXCEPT ![b] = e]
      /\ blk' = [files EXCEPT ![f][p] = new]
      /\ rev' = IF f # lastFile THEN Synced(rev, lastFile) ELSE rev
      /\ UNCHANGED <<best, tip, full, pruning, diskIndex, diskInfo, diskLastFile, havePruned, diskBest>>
  BY DEF AcceptBlock, FindBlockPos, flushVars, indexVars, AllBlocks
<1>2. /\ info \in [Files -> FileInfo] /\ index \in [AllBlocks -> Entry] /\ lastFile \in Files
      /\ blk \in Contents /\ rev \in Contents /\ TypeOK
  BY DEF DInv, TypeOK, Contents
<1>3. info' = [info EXCEPT ![f] = i]
  BY <1>2 DEF AcceptBlock
<1>4. /\ f \in Nat /\ lastFile \in Nat /\ lastFile <= f /\ BlocksPerFile \in Nat
      /\ info[f].size \in 0..BlocksPerFile /\ info[f].undoSize \in 0..BlocksPerFile
      /\ info[f].size < BlocksPerFile /\ info[f].heightLast \in Nat /\ Height[b] \in Nat
  <2>1. Height[b] \in Nat
    BY <1>1, TreeAssumption
  <2>2. f >= lastFile /\ info[f].size < BlocksPerFile
    BY <1>1 DEF Room
  <2> QED
    BY <1>2, <2>1, <2>2, FileTypes, InfoPlaces
<1>5. /\ p \in Nat /\ p \in Positions /\ p \in 0..BlocksPerFile /\ p = info[f].size + 1
      /\ h \in Nat
  BY <1>4 DEF Positions
<1> HIDE DEF p, h
<1>6. /\ e \in Entry /\ e.data /\ ~e.undo /\ e.file = f /\ e.pos = p
      /\ i \in FileInfo /\ i.size = p /\ i.undoSize = info[f].undoSize
      /\ new \in Slot /\ new.block = b
  BY <1>1, <1>4, <1>5 DEF Entry, FileInfo, Slot
<1> HIDE DEF e, i, new
<1>7. /\ files \in Contents
      /\ \A g \in Files, q \in Positions :
            /\ files[g][q].block = blk[g][q].block
            /\ blk[g][q].synced => files[g][q].synced
            /\ f # lastFile /\ g = lastFile => files[g][q].synced
  BY <1>2, SyncedFacts
<1> HIDE DEF files
<1>8. /\ blk' \in Contents
      /\ \A g \in Files, q \in Positions :
             blk'[g][q] = IF g = f /\ q = p THEN new ELSE files[g][q]
  <2>1. blk' = Write(files, f, p, new)
    BY <1>1 DEF Write
  <2>2. files \in Contents /\ p \in Positions /\ new \in Slot
    BY <1>5, <1>6, <1>7
  <2> QED
    BY <2>1, <2>2, WriteFacts
<1>9. /\ rev' \in Contents
      /\ \A g \in Files, q \in Positions : rev'[g][q].block = rev[g][q].block
  BY <1>1, <1>2, SyncedFacts
<1>10. \A c \in AllBlocks : index'[c] = IF c = b THEN e ELSE index[c]
  BY <1>1, <1>2
<1>11. \A g \in Files : /\ info'[g] = IF g = f THEN i ELSE info[g]
                        /\ info'[g].undoSize = info[g].undoSize
  BY <1>2, <1>3, <1>6
<1>12. TypeOK'
  <2>1. index' \in [AllBlocks -> Entry] /\ info' \in [Files -> FileInfo]
    BY <1>1, <1>2, <1>3, <1>6
  <2> QED
    BY <1>1, <1>2, <1>8, <1>9, <2>1 DEF TypeOK, Contents
<1>13. ~index[b].undo
  BY <1>1, EntryPlaces
<1>14. \A g \in Files : info[g].size \in Nat /\ diskInfo[g].size \in Nat
  BY <1>4, InfoPlaces
<1>15. ASSUME NEW c \in AllBlocks, index[c].data
       PROVE  /\ index[c].file \in Files /\ index[c].pos \in Positions
              /\ index[c].file # f \/ index[c].pos # p
              /\ index[c].file <= lastFile /\ 1 <= index[c].pos
              /\ index[c].pos <= info[index[c].file].size
              /\ blk[index[c].file][index[c].pos].block = c
  <2>1. index[c].file \in Files /\ index[c].pos \in Positions
    BY <1>15, EntryPlaces
  <2>2. /\ index[c].file <= lastFile /\ 1 <= index[c].pos
        /\ index[c].pos <= info[index[c].file].size
        /\ blk[index[c].file][index[c].pos].block = c
    BY <1>15 DEF DInv, LaidOut, DataAt
  <2> QED
    BY <1>5, <1>14, <2>1, <2>2, FileTypes
<1>16. ASSUME NEW c \in AllBlocks, diskIndex[c].data
       PROVE  /\ diskIndex[c].file \in Files /\ diskIndex[c].pos \in Positions
              /\ diskIndex[c].file # f \/ diskIndex[c].pos # p
  <2>1. diskIndex[c].file \in Files /\ diskIndex[c].pos \in Positions
    BY <1>16, EntryPlaces
  <2>2. diskIndex[c].pos <= diskInfo[diskIndex[c].file].size
    BY <1>16 DEF DInv, LaidOut, DataAt
  <2>3. diskInfo[f].size <= info[f].size
    BY <1>4 DEF DInv, InfoLags
  <2>4. /\ diskIndex[c].pos \in Nat /\ diskInfo[f].size \in Nat /\ info[f].size \in Nat
    BY <1>14, <2>1, FileTypes
  <2> QED
    BY <1>5, <2>1, <2>2, <2>3, <2>4
<1>17. DataAt(index, info, lastFile)'
  <2> SUFFICES ASSUME NEW c \in AllBlocks, index'[c].data
               PROVE  /\ index'[c].file <= f
                      /\ 1 <= index'[c].pos /\ index'[c].pos <= info'[index'[c].file].size
                      /\ blk'[index'[c].file][index'[c].pos].block = c
    BY <1>1 DEF DataAt
  <2>1. CASE c = b
    BY <1>4, <1>5, <1>6, <1>8, <1>10, <1>11, <2>1
  <2>2. CASE c # b
    <3>1. index'[c] = index[c] /\ index[c].data
      BY <1>10, <2>2
    <3> DEFINE k == index[c].file
    <3>0. /\ k \in Files /\ index[c].pos \in Positions
          /\ k <= lastFile /\ index[c].pos <= info[k].size
      BY <3>1, <1>15
    <3>2. k \in Nat /\ k <= f
      <4>1. k \in Nat
        BY <3>0, FileTypes
      <4> HIDE DEF k
      <4> QED
        BY <4>1, <3>0, <1>4
    <3>3. index[c].pos <= info'[k].size
      <4>1. index[c].pos \in Nat /\ info[k].size \in Nat
        BY <3>0, <1>14, FileTypes
      <4>2. info[k].size <= info'[k].size
        <5>1. CASE k = f
          BY <5>1, <4>1, <1>5, <1>6, <1>11
        <5>2. CASE k # f
          BY <5>2, <4>1, <3>0, <1>11
        <5> QED
          BY <5>1, <5>2
      <4>3. info'[k].size \in Nat
        BY <3>0, <1>5, <1>6, <1>11, <4>1
      <4> QED
        BY <4>1, <4>2, <4>3, <3>0
    <3>4. blk'[index[c].file][index[c].pos].block = c
      BY <3>1, <1>7, <1>8, <1>15
    <3> QED
      BY <3>1, <3>2, <3>3, <3>4, <1>15
  <2> QED
    BY <2>1, <2>2
<1>18. UndoAt(index, info)' /\ UndoOwned(index, info)'
  <2>1. \A c \in AllBlocks : index'[c].undo <=> index[c].undo
    BY <1>6, <1>10, <1>13
  <2>2. \A c \in AllBlocks : index[c].undo => index'[c] = index[c]
    BY <1>10, <1>13
  <2>3. ASSUME NEW c \in AllBlocks, index[c].undo
        PROVE  /\ index[c].undoPos <= info'[index[c].file].undoSize
               /\ rev'[index[c].file][index[c].undoPos].block = c
    <3>1. index[c].file \in Files /\ index[c].undoPos \in Positions
      BY <2>3, EntryPlaces
    <3>2. /\ index[c].undoPos <= info[index[c].file].undoSize
          /\ rev[index[c].file][index[c].undoPos].block = c
      BY <2>3 DEF DInv, LaidOut, UndoAt
    <3> QED
      BY <3>1, <3>2, <1>9, <1>11
  <2>4. UndoAt(index, info)'
    BY <2>1, <2>2, <2>3 DEF UndoAt
  <2>5. UndoOwned(index, info)'
    BY <2>1, <2>2, <1>11 DEF DInv, LaidOut, UndoOwned
  <2> QED
    BY <2>4, <2>5
<1>19. LaidOut(diskIndex, diskInfo, diskLastFile)'
  <2>1. DataAt(diskIndex, diskInfo, diskLastFile)'
    BY <1>1, <1>7, <1>8, <1>16 DEF DInv, LaidOut, DataAt
  <2>2. UndoAt(diskIndex, diskInfo)'
    BY <1>1, <1>9, EntryPlaces DEF DInv, LaidOut, UndoAt
  <2>3. UndoOwned(diskIndex, diskInfo)'
    BY <1>1 DEF DInv, LaidOut, UndoOwned
  <2> QED
    BY <2>1, <2>2, <2>3 DEF LaidOut
<1>20. InfoLags'
  <2> SUFFICES ASSUME NEW g \in Files
               PROVE  /\ g \notin dirtyInfo' => info'[g] = diskInfo[g]
                      /\ \/ g < f /\ info'[g].size = 0
                         \/ /\ diskInfo[g].size <= info'[g].size
                            /\ diskInfo[g].undoSize <= info'[g].undoSize
    BY <1>1 DEF InfoLags
  <2>1. /\ g \notin dirtyInfo => info[g] = diskInfo[g]
        /\ \/ g < lastFile /\ info[g].size = 0
           \/ /\ diskInfo[g].size <= info[g].size
              /\ diskInfo[g].undoSize <= info[g].undoSize
    BY DEF DInv, InfoLags
  <2>2. g \in Nat /\ info[g].size \in Nat /\ diskInfo[g].size \in Nat
    BY <1>14, FileTypes
  <2>3. CASE g = f
    <3>1. info'[g].size = p
      BY <2>3, <1>6, <1>11
    <3> QED
      BY <1>1, <1>4, <1>5, <1>11, <2>1, <2>2, <2>3, <3>1
  <2>4. CASE g # f
    BY <1>1, <1>4, <1>11, <2>1, <2>2, <2>4
  <2> QED
    BY <2>3, <2>4
<1>21. DataSynced'
  <2> SUFFICES ASSUME NEW c \in AllBlocks
               PROVE  /\ diskIndex[c].data => blk'[diskIndex[c].file][diskIndex[c].pos].synced
                      /\ index'[c].data /\ index'[c].file # f =>
                             blk'[index'[c].file][index'[c].pos].synced
    BY <1>1 DEF DataSynced
  <2>1. ASSUME diskIndex[c].data
        PROVE  blk'[diskIndex[c].file][diskIndex[c].pos].synced
    <3>1. blk[diskIndex[c].file][diskIndex[c].pos].synced
      BY <2>1 DEF DInv, DataSynced
    <3> QED
      BY <2>1, <3>1, <1>7, <1>8, <1>16
  <2>2. ASSUME index'[c].data, index'[c].file # f
        PROVE  blk'[index'[c].file][index'[c].pos].synced
    <3>1. index'[c] = index[c]
      BY <2>2, <1>6, <1>10
    <3>2. index[c].file # lastFile => blk[index[c].file][index[c].pos].synced
      BY <2>2, <3>1 DEF DInv, DataSynced
    <3>3. index[c].file = lastFile => f # lastFile
      BY <2>2, <3>1
    <3> QED
      BY <2>2, <3>1, <3>2, <3>3, <1>7, <1>8, <1>15
  <2> QED
    BY <2>1, <2>2
<1>22. Forgotten'
  BY <1>1 DEF DInv, Forgotten
<1> QED
  BY <1>12, <1>17, <1>18, <1>19, <1>20, <1>21, <1>22 DEF DInv, LaidOut

\* The undo data of a block that was never connected goes behind the last record.
LEMMA DWriteUndo ==
    ASSUME DInv, IInv', NEW b \in Blocks, ConnectTip(b), index[b].undoPos = 0 PROVE DInv'
<1> DEFINE f == index[b].file
           p == info[f].undoSize + 1
           e == WithUndo(index[b], p)
           i == [info[f] EXCEPT !.undoSize = p]
           new == [block |-> b, synced |-> FALSE]
<1>1. /\ b \in AllBlocks /\ index[b].data /\ phase = "idle" /\ phase' = "idle" /\ best' = b
      /\ rev' = [rev EXCEPT ![f][p] = new]
      /\ info' = [info EXCEPT ![f].undoSize = p]
      /\ dirtyInfo' = dirtyInfo \cup {f}
      /\ index' = [index EXCEPT ![b] = WithUndo(@, p)]
      /\ dirty' = dirty \cup {b}
      /\ UNCHANGED <<lastFile, tip, full, pruning, blk, diskIndex, diskInfo, diskLastFile,
                     havePruned, diskBest>>
  BY DEF ConnectTip, flushVars, indexVars, AllBlocks
<1>2. /\ info \in [Files -> FileInfo] /\ index \in [AllBlocks -> Entry]
      /\ rev \in Contents /\ TypeOK
  BY DEF DInv, TypeOK, Contents
<1>3. index[b] \in Entry /\ f \in Files /\ ~index[b].undo
  BY <1>1, EntryPlaces
<1>4. p <= info[f].size
  BY <1>1, <1>3, UndoFits
<1>5. /\ info[f] \in FileInfo /\ info[f].size \in 0..BlocksPerFile
      /\ info[f].undoSize \in 0..BlocksPerFile /\ BlocksPerFile \in Nat
  BY <1>3, InfoPlaces, FileTypes
<1>6. p \in Positions /\ p \in 0..BlocksPerFile /\ p \in Nat /\ p = info[f].undoSize + 1
  BY <1>4, <1>5 DEF Positions
<1>7. /\ e \in Entry /\ e.data = index[b].data /\ e.file = f /\ e.pos = index[b].pos
      /\ e.undo /\ e.undoPos = p
  BY <1>3, <1>6 DEF Entry, WithUndo
<1>8. index' = [index EXCEPT ![b] = e] /\ info' = [info EXCEPT ![f] = i]
  BY <1>1, <1>2, <1>3
<1>9. i \in FileInfo /\ i.size = info[f].size /\ i.undoSize = p
  BY <1>5, <1>6 DEF FileInfo
<1>10. new \in Slot /\ new.block = b
  BY <1>1 DEF Slot
<1>11. rev' = Write(rev, f, p, new)
  BY <1>1 DEF Write
<1> HIDE DEF f, p, e, i, new
<1>12. /\ rev' \in Contents
       /\ \A g \in Files, q \in Positions :
              rev'[g][q] = IF g = f /\ q = p THEN new ELSE rev[g][q]
  <2>1. rev \in Contents /\ f \in Files /\ p \in Positions /\ new \in Slot
    BY <1>2, <1>3, <1>6, <1>10
  <2> QED
    BY <2>1, <1>11, WriteFacts
<1>13. \A c \in AllBlocks : /\ index'[c] = IF c = b THEN e ELSE index[c]
                            /\ index'[c].data = index[c].data
                            /\ index'[c].file = index[c].file /\ index'[c].pos = index[c].pos
  <2>1. \A c \in AllBlocks : index'[c] = IF c = b THEN e ELSE index[c]
    BY <1>2, <1>8
  <2>2. index[b].file = f
    BY DEF f
  <2> QED
    BY <1>7, <2>1, <2>2
<1>14. \A g \in Files : /\ info'[g] = IF g = f THEN i ELSE info[g]
                        /\ info'[g].size = info[g].size
                        /\ info'[g].undoSize = IF g = f THEN p ELSE info[g].undoSize
  BY <1>2, <1>8, <1>9
<1>15. \A g \in Files : info[g].undoSize \in Nat /\ diskInfo[g].undoSize \in Nat
  BY <1>5, InfoPlaces
<1>16. TypeOK'
  <2>1. index' \in [AllBlocks -> Entry] /\ info' \in [Files -> FileInfo]
    BY <1>2, <1>3, <1>7, <1>8, <1>9
  <2> QED
    BY <1>1, <1>2, <1>3, <1>12, <2>1 DEF TypeOK, Contents
<1>17. DataAt(index, info, lastFile)'
  BY <1>1, <1>13, <1>14, EntryPlaces DEF DInv, LaidOut, DataAt
<1>18. UndoAt(index, info)'
  <2> SUFFICES ASSUME NEW c \in AllBlocks, index'[c].undo
               PROVE  /\ index'[c].undoPos <= info'[index'[c].file].undoSize
                      /\ rev'[index'[c].file][index'[c].undoPos].block = c
    BY DEF UndoAt
  <2>1. CASE c = b
    BY <2>1, <1>3, <1>6, <1>7, <1>10, <1>12, <1>13, <1>14
  <2>2. CASE c # b
    <3> DEFINE k == index[c].file
               q == index[c].undoPos
    <3>1. index'[c] = index[c] /\ index[c].undo
      BY <2>2, <1>13
    <3>2. k \in Files /\ q \in Positions
      BY <3>1, EntryPlaces
    <3>3. q <= info[k].undoSize /\ rev[k][q].block = c
      BY <3>1 DEF DInv, LaidOut, UndoAt
    <3> HIDE DEF k, q
    <3>4. q \in Nat /\ info[k].undoSize \in Nat
      BY <3>2, <1>15, FileTypes
    <3>5. k = f => q < p
      BY <3>3, <3>4, <1>6
    <3>6. rev'[k][q].block = c
      BY <3>2, <3>3, <3>4, <3>5, <1>6, <1>12
    <3>7. q <= info'[k].undoSize
      BY <3>2, <3>3, <3>4, <3>5, <1>6, <1>14
    <3> QED
      BY <3>1, <3>6, <3>7 DEF k, q
  <2> QED
    BY <2>1, <2>2
<1>19. UndoOwned(index, info)'
  <2> SUFFICES ASSUME NEW g \in Files, NEW j \in 1..info'[g].undoSize
               PROVE  \E c \in AllBlocks : index'[c].undo /\ index'[c].file = g /\ index'[c].undoPos = j
    BY DEF UndoOwned
  <2>1. CASE g = f /\ j = p
    BY <2>1, <1>1, <1>7, <1>13
  <2>2. CASE ~(g = f /\ j = p)
    <3>1. j \in 1..info[g].undoSize
      BY <2>2, <1>6, <1>14, <1>15
    <3>2. PICK c \in AllBlocks : index[c].undo /\ index[c].file = g /\ index[c].undoPos = j
      BY <3>1 DEF DInv, LaidOut, UndoOwned
    <3>3. index'[c] = index[c]
      BY <3>2, <1>3, <1>13
    <3> QED
      BY <3>2, <3>3
  <2> QED
    BY <2>1, <2>2
<1>20. LaidOut(diskIndex, diskInfo, diskLastFile)'
  <2>1. DataAt(diskIndex, diskInfo, diskLastFile)' /\ UndoOwned(diskIndex, diskInfo)'
    BY <1>1 DEF DInv, LaidOut, DataAt, UndoOwned
  <2>2. UndoAt(diskIndex, diskInfo)'
    <3> SUFFICES ASSUME NEW c \in AllBlocks, diskIndex[c].undo
                 PROVE  /\ diskIndex[c].undoPos <= diskInfo[diskIndex[c].file].undoSize
                        /\ rev'[diskIndex[c].file][diskIndex[c].undoPos].block = c
      BY <1>1 DEF UndoAt
    <3> DEFINE k == diskIndex[c].file
               q == diskIndex[c].undoPos
    <3>1. k \in Files /\ q \in Positions
      BY EntryPlaces
    <3>2. q <= diskInfo[k].undoSize /\ rev[k][q].block = c
      BY DEF DInv, LaidOut, UndoAt
    <3>3. info[f].size # 0
      BY <1>4, <1>5, <1>6
    <3>4. diskInfo[f].undoSize <= info[f].undoSize
      BY <1>3, <3>3 DEF DInv, InfoLags
    <3>5. q \in Nat /\ diskInfo[f].undoSize \in Nat /\ info[f].undoSize \in Nat
      BY <3>1, <1>3, <1>15, FileTypes
    <3>6. k = f => q < p
      BY <3>2, <3>4, <3>5, <1>6
    <3> HIDE DEF k, q
    <3>7. rev'[k][q].block = c
      BY <3>1, <3>2, <3>5, <3>6, <1>6, <1>12
    <3> QED
      BY <3>2, <3>7 DEF k, q
  <2> QED
    BY <2>1, <2>2 DEF LaidOut
<1>21. InfoLags'
  <2> SUFFICES ASSUME NEW g \in Files
               PROVE  /\ g \notin dirtyInfo' => info'[g] = diskInfo[g]
                      /\ \/ g < lastFile /\ info'[g].size = 0
                         \/ /\ diskInfo[g].size <= info'[g].size
                            /\ diskInfo[g].undoSize <= info'[g].undoSize
    BY <1>1 DEF InfoLags
  <2>1. /\ g \notin dirtyInfo => info[g] = diskInfo[g]
        /\ \/ g < lastFile /\ info[g].size = 0
           \/ /\ diskInfo[g].size <= info[g].size
              /\ diskInfo[g].undoSize <= info[g].undoSize
    BY DEF DInv, InfoLags
  <2>2. info[g].undoSize \in Nat /\ diskInfo[g].undoSize \in Nat
    BY <1>15
  <2>3. CASE g = f
    BY <1>1, <1>6, <1>14, <2>1, <2>2, <2>3
  <2>4. CASE g # f
    BY <1>1, <1>14, <2>1, <2>4
  <2> QED
    BY <2>3, <2>4
<1>22. DataSynced' /\ Forgotten'
  BY <1>1, <1>13 DEF DInv, DataSynced, Forgotten
<1> QED
  BY <1>16, <1>17, <1>18, <1>19, <1>20, <1>21, <1>22 DEF DInv, LaidOut

LEMMA DConnectTip == ASSUME DInv, IInv', NEW b \in Blocks, ConnectTip(b) PROVE DInv'
<1>1. CASE index[b].undoPos # 0
  <2>1. /\ best' = b /\ b \in AllBlocks
        /\ UNCHANGED <<index, dirty, info, dirtyInfo, lastFile, tip, phase, full, pruning, blk, rev,
                       diskIndex, diskInfo, diskLastFile, havePruned, diskBest>>
    BY <1>1 DEF ConnectTip, flushVars, indexVars, AllBlocks
  <2>2. TypeOK'
    BY <2>1 DEF DInv, TypeOK
  <2> QED
    BY <2>1, <2>2, FilesUnchanged
<1>2. CASE index[b].undoPos = 0
  BY <1>2, DWriteUndo
<1> QED
  BY <1>1, <1>2

LEMMA DMoveTip == ASSUME DInv, IInv', DisconnectTip \/ UpdateTip PROVE DInv'
<1>1. UNCHANGED <<index, dirty, info, dirtyInfo, lastFile, phase, full, pruning, blk, rev,
                  diskIndex, diskInfo, diskLastFile, havePruned, diskBest>>
  BY DEF DisconnectTip, UpdateTip, flushVars, diskVars, indexVars
<1>2. TypeOK'
  BY <1>1 DEF DInv, TypeOK, IInv, Types
<1> QED
  BY <1>1, <1>2, FilesUnchanged

LEMMA DFlushCoins == ASSUME DInv, IInv', FlushCoins PROVE DInv'
<1>1. /\ UNCHANGED <<index, dirty, info, dirtyInfo, lastFile, best, tip, pruning, blk, rev,
                     diskIndex, diskInfo, diskLastFile, havePruned>>
      /\ phase = "coins" /\ phase' = "idle" /\ full' = FALSE
  BY DEF FlushCoins, Proceed, memVars, indexVars, DInv, TypeOK
<1>2. TypeOK'
  BY <1>1 DEF DInv, TypeOK, IInv, Types
<1>3. pruning = {}
  BY <1>1 DEF DInv, Forgotten
<1> QED
  BY <1>1, <1>2, <1>3, FilesUnchanged

LEMMA DStartFlush ==
    ASSUME DInv, IInv', NEW files \in SUBSET Files, NEW all \in BOOLEAN, StartFlush(files, all)
    PROVE  DInv'
<1>1. /\ phase' = "sync" /\ pruning' = files /\ full' = all
      /\ UNCHANGED <<lastFile, best, tip, blk, rev, diskIndex, diskInfo, diskLastFile, diskBest>>
      /\ dirty' = dirty \cup {b \in AllBlocks : index[b].known /\ index[b].file \in files}
      /\ index' = [b \in AllBlocks |->
                     IF index[b].known /\ index[b].file \in files THEN HeaderOnly ELSE index[b]]
      /\ info' = [f \in Files |-> IF f \in files THEN NoInfo ELSE info[f]]
      /\ dirtyInfo' = dirtyInfo \cup files
      /\ files \subseteq Prunable
      /\ phase = "idle"
  BY DEF StartFlush, FindFilesToPrune
<1>2. havePruned' \in BOOLEAN
  BY DEF IInv, Types
<1>3. /\ index \in [AllBlocks -> Entry] /\ info \in [Files -> FileInfo] /\ TypeOK
  BY DEF DInv, TypeOK
<1>4. TypeOK'
  <2>1. index' \in [AllBlocks -> Entry] /\ info' \in [Files -> FileInfo]
    BY <1>1, <1>3, FileTypes
  <2> QED
    BY <1>1, <1>2, <1>3, <2>1 DEF TypeOK, Phases
<1>5. ~HeaderOnly.data /\ ~HeaderOnly.undo /\ NoInfo.size = 0 /\ NoInfo.undoSize = 0
  BY DEF HeaderOnly, NoInfo
<1>6. \A c \in AllBlocks :
         /\ index'[c].data => index'[c] = index[c] /\ index[c].file \notin files
         /\ index'[c].undo => index'[c] = index[c] /\ index[c].file \notin files
         /\ index[c].file \notin files => index'[c] = index[c]
  <2> TAKE c \in AllBlocks
  <2>1. /\ index[c].data => index[c].known
        /\ index[c].undo => index[c].data
    BY EntryPlaces
  <2>2. index'[c] = IF index[c].known /\ index[c].file \in files THEN HeaderOnly ELSE index[c]
    BY <1>1
  <2> QED
    BY <2>1, <2>2, <1>5
<1>7. \A g \in Files : info'[g] = IF g \in files THEN NoInfo ELSE info[g]
  BY <1>1
<1>8. DataAt(index, info, lastFile)' /\ UndoAt(index, info)'
  BY <1>1, <1>6, <1>7, EntryPlaces DEF DInv, LaidOut, DataAt, UndoAt
<1>9. UndoOwned(index, info)'
  <2> SUFFICES ASSUME NEW g \in Files, NEW j \in 1..info'[g].undoSize
               PROVE  \E c \in AllBlocks : index'[c].undo /\ index'[c].file = g /\ index'[c].undoPos = j
    BY DEF UndoOwned
  <2>1. g \notin files
    BY <1>5, <1>7
  <2>2. info'[g] = info[g]
    BY <2>1, <1>7
  <2>3. PICK c \in AllBlocks : index[c].undo /\ index[c].file = g /\ index[c].undoPos = j
    BY <2>2 DEF DInv, LaidOut, UndoOwned
  <2> QED
    BY <2>1, <2>3, <1>6
<1>10. LaidOut(diskIndex, diskInfo, diskLastFile)'
  BY <1>1 DEF DInv, LaidOut, DataAt, UndoAt, UndoOwned
<1>11. InfoLags'
  BY <1>1, <1>5, <1>7 DEF DInv, InfoLags, Prunable
<1>12. DataSynced'
  BY <1>1, <1>6 DEF DInv, DataSynced
<1>13. Forgotten'
  BY <1>1, <1>6 DEF Forgotten
<1> QED
  BY <1>4, <1>8, <1>9, <1>10, <1>11, <1>12, <1>13 DEF DInv, LaidOut

LEMMA DSyncFiles == ASSUME DInv, IInv', SyncFiles PROVE DInv'
<1>1. /\ blk' = Synced(blk, lastFile) /\ rev' = Synced(rev, lastFile) /\ phase' = "index"
      /\ UNCHANGED <<index, dirty, info, dirtyInfo, lastFile, best, tip, full, pruning,
                     diskIndex, diskInfo, diskLastFile, havePruned, diskBest>>
  BY DEF SyncFiles, FlushBlockFile, memVars, indexVars
<1>2. blk \in Contents /\ rev \in Contents /\ lastFile \in Files
  BY DEF DInv, TypeOK, Contents
<1>3. /\ blk' \in Contents /\ rev' \in Contents
      /\ \A g \in Files, q \in Positions :
            /\ blk'[g][q].block = blk[g][q].block /\ rev'[g][q].block = rev[g][q].block
            /\ blk[g][q].synced => blk'[g][q].synced
            /\ g = lastFile => blk'[g][q].synced
  BY <1>1, <1>2, SyncedFacts
<1>4. TypeOK'
  BY <1>1, <1>3 DEF DInv, TypeOK, Phases, Contents
<1>5. LaidOut(index, info, lastFile)'
  <2>1. DataAt(index, info, lastFile)'
    BY <1>1, <1>3, EntryPlaces DEF DInv, LaidOut, DataAt
  <2>2. UndoAt(index, info)' /\ UndoOwned(index, info)'
    BY <1>1, <1>3, EntryPlaces DEF DInv, LaidOut, UndoAt, UndoOwned
  <2> QED
    BY <2>1, <2>2 DEF LaidOut
<1>6. LaidOut(diskIndex, diskInfo, diskLastFile)'
  <2>1. DataAt(diskIndex, diskInfo, diskLastFile)'
    BY <1>1, <1>3, EntryPlaces DEF DInv, LaidOut, DataAt
  <2>2. UndoAt(diskIndex, diskInfo)' /\ UndoOwned(diskIndex, diskInfo)'
    BY <1>1, <1>3, EntryPlaces DEF DInv, LaidOut, UndoAt, UndoOwned
  <2> QED
    BY <2>1, <2>2 DEF LaidOut
<1>7. InfoLags'
  BY <1>1 DEF DInv, InfoLags
<1>8. DataSynced'
  BY <1>1, <1>3, EntryPlaces DEF DInv, DataSynced
<1>9. Forgotten'
  BY <1>1 DEF DInv, Forgotten
<1> QED
  BY <1>4, <1>5, <1>6, <1>7, <1>8, <1>9 DEF DInv

LEMMA DWriteIndex == ASSUME DInv, IInv', WriteIndex PROVE DInv'
<1>1. /\ diskIndex' = [b \in AllBlocks |-> IF b \in dirty THEN index[b] ELSE diskIndex[b]]
      /\ diskInfo' = [f \in Files |-> IF f \in dirtyInfo THEN info[f] ELSE diskInfo[f]]
      /\ diskLastFile' = lastFile /\ dirty' = {} /\ dirtyInfo' = {}
      /\ UNCHANGED <<index, info, lastFile, best, tip, pruning, blk, rev, havePruned, diskBest>>
      /\ phase = "index" /\ phase' # "index"
      /\ phase' \in {"idle", "coins"} => pruning = {}
      /\ phase' \in Phases /\ full' \in BOOLEAN
  BY DEF WriteIndex, Proceed, Phases, DInv, TypeOK
<1>2. /\ index \in [AllBlocks -> Entry] /\ info \in [Files -> FileInfo] /\ TypeOK
  BY DEF DInv, TypeOK
<1>3. diskIndex' = index
  BY <1>1, <1>2 DEF DInv, IInv, Lags
<1>4. diskInfo' = info
  BY <1>1, <1>2 DEF DInv, InfoLags
<1>5. TypeOK'
  BY <1>1, <1>2, <1>3, <1>4 DEF TypeOK
<1>6. LaidOut(index, info, lastFile)' /\ LaidOut(diskIndex, diskInfo, diskLastFile)'
  BY <1>1, <1>3, <1>4 DEF DInv, LaidOut, DataAt, UndoAt, UndoOwned
<1>7. InfoLags'
  <2>1. \A f \in Files : info[f].size \in Nat /\ info[f].undoSize \in Nat
    <3>1. \A f \in Files : info[f].size \in 0..BlocksPerFile /\ info[f].undoSize \in 0..BlocksPerFile
      BY InfoPlaces
    <3> QED
      BY <3>1, FileTypes
  <2> QED
    BY <1>1, <1>4, <2>1 DEF InfoLags
<1>8. DataSynced' /\ Forgotten'
  BY <1>1, <1>3 DEF DInv, DataSynced, Forgotten
<1> QED
  BY <1>5, <1>6, <1>7, <1>8 DEF DInv

LEMMA DUnlink == ASSUME DInv, IInv', UnlinkPrunedFiles PROVE DInv'
<1>1. /\ blk' = [f \in Files |-> IF f \in pruning THEN EmptyFile ELSE blk[f]]
      /\ rev' = [f \in Files |-> IF f \in pruning THEN EmptyFile ELSE rev[f]]
      /\ pruning' = {} /\ phase = "unlink" /\ phase' \in {"idle", "coins"} /\ full' \in BOOLEAN
      /\ UNCHANGED <<index, dirty, info, dirtyInfo, lastFile, best, tip,
                     diskIndex, diskInfo, diskLastFile, havePruned, diskBest>>
  BY DEF UnlinkPrunedFiles, Proceed, memVars, indexVars, DInv, TypeOK
<1>2. TypeOK'
  <2>1. blk' \in [Files -> [Positions -> Slot]] /\ rev' \in [Files -> [Positions -> Slot]]
    BY <1>1, FileTypes DEF DInv, TypeOK
  <2> QED
    BY <1>1, <2>1 DEF DInv, TypeOK, Phases
<1>3. \A b \in AllBlocks : diskIndex[b] = index[b]
  BY <1>1 DEF DInv, IInv, Ordered, Lags
<1>4. \A b \in AllBlocks :
         index[b].data => /\ index[b].file \in Files
                          /\ blk'[index[b].file] = blk[index[b].file]
                          /\ rev'[index[b].file] = rev[index[b].file]
  BY <1>1, EntryPlaces DEF DInv, Forgotten
<1>5. \A b \in AllBlocks : index[b].undo => index[b].data
  BY EntryPlaces
<1>6. LaidOut(index, info, lastFile)'
  <2>1. DataAt(index, info, lastFile)'
    BY <1>1, <1>4 DEF DInv, LaidOut, DataAt
  <2>2. UndoAt(index, info)'
    BY <1>1, <1>4, <1>5 DEF DInv, LaidOut, UndoAt
  <2>3. UndoOwned(index, info)'
    BY <1>1 DEF DInv, LaidOut, UndoOwned
  <2> QED
    BY <2>1, <2>2, <2>3 DEF LaidOut
<1>7. LaidOut(diskIndex, diskInfo, diskLastFile)'
  <2>1. DataAt(diskIndex, diskInfo, diskLastFile)'
    BY <1>1, <1>3, <1>4 DEF DInv, LaidOut, DataAt
  <2>2. UndoAt(diskIndex, diskInfo)'
    BY <1>1, <1>3, <1>4, <1>5 DEF DInv, LaidOut, UndoAt
  <2>3. UndoOwned(diskIndex, diskInfo)'
    BY <1>1 DEF DInv, LaidOut, UndoOwned
  <2> QED
    BY <2>1, <2>2, <2>3 DEF LaidOut
<1>8. InfoLags'
  BY <1>1 DEF DInv, InfoLags
<1>9. DataSynced'
  BY <1>1, <1>3, <1>4 DEF DInv, DataSynced
<1>10. Forgotten'
  BY <1>1 DEF Forgotten
<1> QED
  BY <1>2, <1>6, <1>7, <1>8, <1>9, <1>10 DEF DInv

LEMMA DCrash == ASSUME DInv, IInv', Crash PROVE DInv'
<1>1. /\ index' = diskIndex /\ dirty' = {} /\ info' = diskInfo /\ dirtyInfo' = {}
      /\ lastFile' = diskLastFile /\ best' = diskBest /\ tip' = diskBest
      /\ phase' = "idle" /\ full' = FALSE /\ pruning' = {}
      /\ UNCHANGED <<blk, rev, diskIndex, diskInfo, diskLastFile, havePruned, diskBest>>
  BY DEF Crash, diskVars, indexVars
<1>2. TypeOK'
  BY <1>1 DEF DInv, TypeOK, Phases
<1>3. LaidOut(index, info, lastFile)' /\ LaidOut(diskIndex, diskInfo, diskLastFile)'
  BY <1>1 DEF DInv, LaidOut, DataAt, UndoAt, UndoOwned
<1>4. InfoLags'
  <2>1. \A f \in Files : diskInfo[f].size \in Nat /\ diskInfo[f].undoSize \in Nat
    <3>1. \A f \in Files : diskInfo[f].size \in 0..BlocksPerFile /\ diskInfo[f].undoSize \in 0..BlocksPerFile
      BY InfoPlaces
    <3> QED
      BY <3>1, FileTypes
  <2> QED
    BY <1>1, <2>1 DEF InfoLags
<1>5. DataSynced' /\ Forgotten'
  BY <1>1 DEF DInv, DataSynced, Forgotten
<1> QED
  BY <1>2, <1>3, <1>4, <1>5 DEF DInv

LEMMA DInvNext == DInv /\ [Next]_vars => DInv'
<1> SUFFICES ASSUME DInv, [Next]_vars PROVE DInv'
  OBVIOUS
<1>1. IInv'
  BY InvNext DEF DInv
<1>2. CASE UNCHANGED vars
  <2>1. UNCHANGED <<index, dirty, info, dirtyInfo, lastFile, best, tip, phase, full, pruning,
                    blk, rev, diskIndex, diskInfo, diskLastFile, havePruned, diskBest>>
    BY <1>2 DEF vars, memVars, flushVars, diskVars, indexVars
  <2>2. TypeOK'
    BY <2>1 DEF DInv, TypeOK
  <2> QED
    BY <1>1, <2>1, <2>2, FilesUnchanged
<1>3. CASE Next
  BY <1>1, <1>3, DAcceptHeader, DAcceptBlock, DConnectTip, DMoveTip, DStartFlush, DSyncFiles,
     DWriteIndex, DUnlink, DFlushCoins, DCrash DEF Next
<1> QED
  BY <1>2, <1>3

LEMMA DInvariance == Spec => []DInv
  BY DInvInit, DInvNext, PTL DEF Spec

\* No block and no undo record is ever placed outside of its file: a file that took a
\* block has room for its undo data as well.
THEOREM TypesKept == Spec => []TypeOK
<1>1. DInv => TypeOK
  BY DEF DInv
<1> QED
  BY <1>1, DInvariance, PTL

\* Whenever the process dies, the block data that the index on disk refers to is in
\* its file and synced, and the undo data of every index is in its file.
THEOREM FilesBacked == Spec => []DataBacked
<1>1. DInv => DataBacked
  <2> SUFFICES ASSUME DInv, NEW b \in AllBlocks
               PROVE  /\ diskIndex[b].data =>
                           blk[diskIndex[b].file][diskIndex[b].pos] = [block |-> b, synced |-> TRUE]
                      /\ diskIndex[b].undo => rev[diskIndex[b].file][diskIndex[b].undoPos].block = b
                      /\ index[b].undo => rev[index[b].file][index[b].undoPos].block = b
    BY DEF DataBacked
  <2>1. ASSUME diskIndex[b].data
        PROVE  blk[diskIndex[b].file][diskIndex[b].pos] = [block |-> b, synced |-> TRUE]
    <3> DEFINE s == blk[diskIndex[b].file][diskIndex[b].pos]
    <3>1. diskIndex[b].file \in Files /\ diskIndex[b].pos \in Positions
      BY <2>1, EntryPlaces
    <3>2. s \in Slot
      BY <3>1 DEF DInv, TypeOK
    <3>3. s.block = b /\ s.synced
      BY <2>1 DEF DInv, LaidOut, DataAt, DataSynced
    <3>4. s.synced = TRUE
      BY <3>2, <3>3 DEF Slot
    <3> HIDE DEF s
    <3> QED
      BY <3>2, <3>3, <3>4 DEF Slot, s
  <2>2. /\ diskIndex[b].undo => rev[diskIndex[b].file][diskIndex[b].undoPos].block = b
        /\ index[b].undo => rev[index[b].file][index[b].undoPos].block = b
    BY DEF DInv, LaidOut, UndoAt
  <2> QED
    BY <2>1, <2>2
<1> QED
  BY <1>1, DInvariance, PTL
=============================================================================
