------------------------------- MODULE Flush -------------------------------
(***************************************************************************)
(* What reaches the disk, and in which order: the block and undo files,    *)
(* the block index database and the coins database (FlushStateToDisk,      *)
(* FindBlockPos, FindUndoPos, the pruning code and LoadBlockIndexDB in     *)
(* main.cpp, CBlockTreeDB in txdb.cpp).  The process may die between any   *)
(* two writes; it then starts again from what the disk holds.              *)
(*                                                                         *)
(* Everything here runs under cs_main, so a handler is one action; only    *)
(* FlushStateToDisk, which writes to several places, takes a step for each *)
(* of them.  The coins database is written in one batch (see CoinsCache)   *)
(* and is represented by its best block.                                   *)
(***************************************************************************)
EXTENDS Integers

CONSTANTS
    Blocks,         \* blocks, without the genesis block
    Genesis,
    Parent,         \* the block each one builds on
    Chain,          \* each block with those below it, without the genesis block
    Height,         \* height of each block
    Files,          \* numbers of block files, from 0
    BlocksPerFile,  \* what fits into a file (MAX_BLOCKFILE_SIZE)
    Keep,           \* MIN_BLOCKS_TO_KEEP
    NoBlock         \* what a file holds where nothing was written

AllBlocks == Blocks \cup {Genesis}

ASSUME TreeAssumption ==
    /\ Genesis \notin Blocks
    /\ Parent \in [Blocks -> AllBlocks]
    /\ Chain \in [AllBlocks -> SUBSET Blocks]
    /\ Chain[Genesis] = {}
    /\ \A b \in Blocks : Chain[b] = {b} \cup Chain[Parent[b]]
    /\ Height \in [AllBlocks -> Nat]

ASSUME FileAssumption == 0 \in Files /\ BlocksPerFile \in Nat \ {0} /\ Files \subseteq Nat

VARIABLES
    index,          \* mapBlockIndex
    dirty,          \* setDirtyBlockIndex
    info,           \* vinfoBlockFile
    dirtyInfo,      \* setDirtyFileInfo
    lastFile,       \* nLastBlockFile
    best,           \* pcoinsTip->GetBestBlock()
    tip,            \* chainActive.Tip()
    phase,          \* the next write of FlushStateToDisk
    full,           \* fDoFullFlush
    pruning,        \* setFilesToPrune
    blk, rev,       \* the block and undo files
    diskIndex, diskInfo, diskLastFile,  \* the block index database
    havePruned,     \* the flag prunedblockfiles of the block index database
    diskBest        \* the best block in the coins database

memVars   == <<index, dirty, info, dirtyInfo, lastFile, best, tip>>
flushVars == <<phase, full, pruning>>
indexVars == <<diskIndex, diskInfo, diskLastFile, havePruned>>
diskVars  == <<blk, rev, indexVars, diskBest>>
vars      == <<memVars, flushVars, diskVars>>

Positions == 1..BlocksPerFile

\* An entry of the block index: what is known of a block, and where its data is.
Entry == [known : BOOLEAN, data : BOOLEAN, undo : BOOLEAN,
          file : Files, pos : 0..BlocksPerFile, undoPos : 0..BlocksPerFile]
NoEntry == [known |-> FALSE, data |-> FALSE, undo |-> FALSE, file |-> 0, pos |-> 0, undoPos |-> 0]
HeaderOnly == [known |-> TRUE, data |-> FALSE, undo |-> FALSE, file |-> 0, pos |-> 0, undoPos |-> 0]

WithUndo(e, p) == [known |-> e.known, data |-> e.data, undo |-> TRUE,
                   file |-> e.file, pos |-> e.pos, undoPos |-> p]

\* CBlockFileInfo: how far a file is filled, and the highest block in it.
FileInfo == [size : 0..BlocksPerFile, undoSize : 0..BlocksPerFile, heightLast : Nat]
NoInfo == [size |-> 0, undoSize |-> 0, heightLast |-> 0]

\* A place in a file: whose record is there, and whether it was synced.
Slot == [block : AllBlocks \cup {NoBlock}, synced : BOOLEAN]
EmptyFile == [p \in Positions |-> [block |-> NoBlock, synced |-> TRUE]]

Phases == {"idle", "sync", "index", "unlink", "coins"}

TypeOK ==
    /\ index \in [AllBlocks -> Entry] /\ diskIndex \in [AllBlocks -> Entry]
    /\ dirty \subseteq AllBlocks
    /\ info \in [Files -> FileInfo] /\ diskInfo \in [Files -> FileInfo]
    /\ dirtyInfo \subseteq Files
    /\ lastFile \in Files /\ diskLastFile \in Files
    /\ best \in AllBlocks /\ tip \in AllBlocks /\ diskBest \in AllBlocks
    /\ havePruned \in BOOLEAN
    /\ phase \in Phases /\ full \in BOOLEAN /\ pruning \subseteq Files
    /\ blk \in [Files -> [Positions -> Slot]] /\ rev \in [Files -> [Positions -> Slot]]

\* The state that InitBlockIndex leaves: the genesis block is connected and flushed.
Init ==
    LET first == [known |-> TRUE, data |-> TRUE, undo |-> FALSE, file |-> 0, pos |-> 1, undoPos |-> 0]
        one   == [size |-> 1, undoSize |-> 0, heightLast |-> 0]
        at0   == [block |-> Genesis, synced |-> TRUE]
    IN /\ index = [b \in AllBlocks |-> IF b = Genesis THEN first ELSE NoEntry]
       /\ info = [f \in Files |-> IF f = 0 THEN one ELSE NoInfo]
       /\ diskIndex = index /\ diskInfo = info
       /\ dirty = {} /\ dirtyInfo = {}
       /\ lastFile = 0 /\ diskLastFile = 0
       /\ best = Genesis /\ tip = Genesis /\ diskBest = Genesis
       /\ havePruned = FALSE
       /\ phase = "idle" /\ full = FALSE /\ pruning = {}
       /\ blk = [f \in Files |-> IF f = 0 THEN [EmptyFile EXCEPT ![1] = at0] ELSE EmptyFile]
       /\ rev = [f \in Files |-> EmptyFile]

-----------------------------------------------------------------------------
(* Receiving blocks. *)

\* AddToBlockIndex for a header whose parent is known
AcceptHeader(b) ==
    /\ phase = "idle" /\ best = tip
    /\ ~index[b].known /\ index[Parent[b]].known
    /\ index' = [index EXCEPT ![b] = HeaderOnly]
    /\ dirty' = dirty \cup {b}
    /\ UNCHANGED <<info, dirtyInfo, lastFile, best, tip, flushVars, diskVars>>

Synced(files, f) == [files EXCEPT ![f] = [p \in Positions |-> [@[p] EXCEPT !.synced = TRUE]]]

\* mutant: nothing is synced
FlushBlockFile_NoSync(f) == UNCHANGED <<blk, rev>>

\* FlushBlockFile: the last block file and its undo file are synced.
FlushBlockFile(f) == blk' = Synced(blk, f) /\ rev' = Synced(rev, f)

\* mutant: a file takes one block too many
Room_OneMore(f) == f >= lastFile /\ info[f].size <= BlocksPerFile

\* FindBlockPos: the last file, or the next one with room.
Room(f) == f >= lastFile /\ info[f].size < BlocksPerFile
FindBlockPos(f) == Room(f) /\ \A g \in Files : Room(g) => f <= g

\* AcceptBlock for a block whose data is not there (never was, or was pruned)
AcceptBlock(b, f) ==
    LET p == info[f].size + 1
        leaving == f # lastFile
        files == IF leaving THEN Synced(blk, lastFile) ELSE blk
    IN /\ phase = "idle" /\ best = tip
       /\ index[b].known /\ ~index[b].data
       /\ FindBlockPos(f)
       /\ blk' = [files EXCEPT ![f][p] = [block |-> b, synced |-> FALSE]]
       /\ rev' = IF leaving THEN Synced(rev, lastFile) ELSE rev
       /\ lastFile' = f
       /\ info' = [info EXCEPT ![f] = [size |-> p, undoSize |-> @.undoSize,
                                       heightLast |-> IF Height[b] > @.heightLast
                                                      THEN Height[b] ELSE @.heightLast]]
       /\ dirtyInfo' = dirtyInfo \cup {f}
       /\ index' = [index EXCEPT ![b] = [known |-> TRUE, data |-> TRUE, undo |-> FALSE,
                                         file |-> f, pos |-> p, undoPos |-> 0]]
       /\ dirty' = dirty \cup {b}
       /\ UNCHANGED <<best, tip, flushVars, indexVars, diskBest>>

-----------------------------------------------------------------------------
(* Connecting and disconnecting. *)

\* mutant: the entry of a connected block is not dirty
ConnectTip_NotDirty(b) ==
    LET f == index[b].file
        p == info[f].undoSize + 1
    IN /\ phase = "idle" /\ best = tip
       /\ Parent[b] = tip
       /\ index[b].data
       /\ best' = b
       /\ IF index[b].undoPos = 0
          THEN /\ rev' = [rev EXCEPT ![f][p] = [block |-> b, synced |-> FALSE]]
               /\ info' = [info EXCEPT ![f].undoSize = p]
               /\ dirtyInfo' = dirtyInfo \cup {f}
               /\ index' = [index EXCEPT ![b] = WithUndo(@, p)]
          ELSE UNCHANGED <<rev, info, dirtyInfo, index>>
       /\ UNCHANGED <<dirty, lastFile, tip, flushVars, blk, indexVars, diskBest>>

\* ConnectBlock writes the undo data next to the block, unless it was connected
\* before, and the view is flushed into pcoinsTip.
ConnectTip(b) ==
    LET f == index[b].file
        p == info[f].undoSize + 1
    IN /\ phase = "idle" /\ best = tip
       /\ Parent[b] = tip
       /\ index[b].data
       /\ best' = b
       /\ IF index[b].undoPos = 0
          THEN /\ rev' = [rev EXCEPT ![f][p] = [block |-> b, synced |-> FALSE]]
               /\ info' = [info EXCEPT ![f].undoSize = p]
               /\ dirtyInfo' = dirtyInfo \cup {f}
               /\ index' = [index EXCEPT ![b] = WithUndo(@, p)]
               /\ dirty' = dirty \cup {b}
          ELSE UNCHANGED <<rev, info, dirtyInfo, index, dirty>>
       /\ UNCHANGED <<lastFile, tip, flushVars, blk, indexVars, diskBest>>

\* DisconnectBlock reads the block and its undo data.
DisconnectTip ==
    /\ phase = "idle" /\ best = tip
    /\ tip # Genesis
    /\ index[tip].data /\ index[tip].undo
    /\ best' = Parent[tip]
    /\ UNCHANGED <<index, dirty, info, dirtyInfo, lastFile, tip, flushVars, diskVars>>

\* UpdateTip, after the FlushStateToDisk of ConnectTip or DisconnectTip
UpdateTip ==
    /\ phase = "idle" /\ best # tip
    /\ tip' = best
    /\ UNCHANGED <<index, dirty, info, dirtyInfo, lastFile, best, flushVars, diskVars>>

-----------------------------------------------------------------------------
(* FlushStateToDisk. *)

Prunable == {f \in Files : /\ f < lastFile /\ info[f].size # 0
                           /\ info[f].heightLast <= Height[tip] - Keep}

\* FindFilesToPrune takes files in order until the target is met, and
\* PruneOneBlockFile forgets the data of every block in them; a header without
\* data is in file 0 as far as it can tell.
FindFilesToPrune(files) ==
    /\ files \subseteq Prunable
    /\ \A f \in files, g \in Prunable : g < f => g \in files
    /\ index' = [b \in AllBlocks |->
                   IF index[b].known /\ index[b].file \in files THEN HeaderOnly ELSE index[b]]
    /\ dirty' = dirty \cup {b \in AllBlocks : index[b].known /\ index[b].file \in files}
    /\ info' = [f \in Files |-> IF f \in files THEN NoInfo ELSE info[f]]
    /\ dirtyInfo' = dirtyInfo \cup files
    /\ pruning' = files

\* A full flush or, once in a while, the write of the block index only.  Within
\* ConnectTip and DisconnectTip only a cache over its limit makes a flush; a
\* flush that deletes files is always full.
StartFlush(files, all) ==
    /\ phase = "idle"
    /\ best # tip \/ files # {} => all
    /\ FindFilesToPrune(files)
    /\ full' = all
    /\ phase' = "sync"
    /\ havePruned' = (havePruned \/ files # {})
    /\ UNCHANGED <<lastFile, best, tip, blk, rev, diskIndex, diskInfo, diskLastFile, diskBest>>

\* mutant: a full flush writes the coins before the block index
SyncFiles_CoinsFirst ==
    /\ phase = "sync"
    /\ FlushBlockFile(lastFile)
    /\ phase' = "index"
    /\ diskBest' = IF full THEN best ELSE diskBest
    /\ UNCHANGED <<memVars, full, pruning, indexVars>>

SyncFiles ==
    /\ phase = "sync"
    /\ FlushBlockFile(lastFile)
    /\ phase' = "index"
    /\ UNCHANGED <<memVars, full, pruning, indexVars, diskBest>>

\* after the write of phase p; the locals of FlushStateToDisk end with it
Proceed(p) ==
    /\ phase' = IF p = "index" /\ pruning # {} THEN "unlink"
                ELSE IF p # "coins" /\ full THEN "coins" ELSE "idle"
    /\ full' = (full /\ phase' # "idle")

\* WriteBatchSync: one batch with the dirty entries and file infos
WriteIndex ==
    /\ phase = "index"
    /\ diskIndex' = [b \in AllBlocks |-> IF b \in dirty THEN index[b] ELSE diskIndex[b]]
    /\ diskInfo' = [f \in Files |-> IF f \in dirtyInfo THEN info[f] ELSE diskInfo[f]]
    /\ diskLastFile' = lastFile
    /\ dirty' = {} /\ dirtyInfo' = {}
    /\ Proceed("index")
    /\ UNCHANGED <<index, info, lastFile, best, tip, pruning, blk, rev, havePruned, diskBest>>

UnlinkPrunedFiles ==
    /\ phase = "unlink"
    /\ blk' = [f \in Files |-> IF f \in pruning THEN EmptyFile ELSE blk[f]]
    /\ rev' = [f \in Files |-> IF f \in pruning THEN EmptyFile ELSE rev[f]]
    /\ pruning' = {}
    /\ Proceed("unlink")
    /\ UNCHANGED <<memVars, indexVars, diskBest>>

\* pcoinsTip->Flush()
FlushCoins ==
    /\ phase = "coins"
    /\ diskBest' = best
    /\ Proceed("coins")
    /\ UNCHANGED <<memVars, pruning, blk, rev, indexVars>>

\* The process dies, and LoadBlockIndexDB loads what there is.
Crash ==
    /\ index' = diskIndex /\ dirty' = {}
    /\ info' = diskInfo /\ dirtyInfo' = {}
    /\ lastFile' = diskLastFile
    /\ best' = diskBest /\ tip' = diskBest
    /\ phase' = "idle" /\ full' = FALSE /\ pruning' = {}
    /\ UNCHANGED diskVars

Next ==
    \/ \E b \in Blocks : AcceptHeader(b) \/ ConnectTip(b) \/ \E f \in Files : AcceptBlock(b, f)
    \/ DisconnectTip \/ UpdateTip
    \/ \E files \in SUBSET Files, all \in BOOLEAN : StartFlush(files, all)
    \/ SyncFiles \/ WriteIndex \/ UnlinkPrunedFiles \/ FlushCoins \/ Crash

Spec == Init /\ [][Next]_vars

\* The write of the batch fails: the sets of dirty entries are empty already, and
\* AbortNode asks for the shutdown, which flushes once more.
WriteIndexFails ==
    /\ phase = "index"
    /\ dirty' = {} /\ dirtyInfo' = {}
    /\ phase' = "idle" /\ full' = FALSE /\ pruning' = {}
    /\ UNCHANGED <<index, info, lastFile, best, tip, diskVars>>

SpecWithFailedWrite == Init /\ [][Next \/ WriteIndexFails]_vars

-----------------------------------------------------------------------------
(* Properties. *)

\* LoadBlockIndexDB finds the best block of the coins database in the block index,
\* with every block below it, whenever the process died: the index is written
\* before the coins, and the coins only if the index was.
BestBlockLoadable == \A b \in Chain[diskBest] \cup {diskBest} : diskIndex[b].known

\* What the index on disk says is in a block file is there, and synced: a file is
\* synced before the index that refers to it is written, not overwritten after a
\* restart, and deleted only when the index has forgotten it.  Undo data, which
\* DisconnectBlock reads, is there too, as far as the file was written.
DataBacked ==
    \A b \in AllBlocks :
        /\ diskIndex[b].data =>
             blk[diskIndex[b].file][diskIndex[b].pos] = [block |-> b, synced |-> TRUE]
        /\ diskIndex[b].undo => rev[diskIndex[b].file][diskIndex[b].undoPos].block = b
        /\ index[b].undo => rev[index[b].file][index[b].undoPos].block = b

\* After a restart the chain of the coins database can be verified and
\* disconnected again: unless files were pruned, the index on disk has the data
\* and the undo data of every block of it.
Disconnectable ==
    ~havePruned => \A b \in Chain[diskBest] : diskIndex[b].data /\ diskIndex[b].undo
=============================================================================
