# KmdClassic in TLA+

A verification project for KmdClassic, a Komodo full node derived from Zcash and
Bitcoin Core. Paths are relative to the repository root; the C++ code is in `src/`.

A node keeps a tree of block headers, connects the best valid branch of it,
checks the transactions of a block against the set of unspent coins, relays
transactions through a memory pool, and follows the notarisations of the dPoW
notaries, which limit how far the chain may be reorganised. RPC calls start
long operations that a worker thread carries out.

## 1. Inventory

| Component | Source | State | Operations | Hard behaviour |
|---|---|---|---|---|
| Script-check queue | `checkqueue.h` | queue, nTodo, nIdle, nTotal, fAllOk | Loop, Add, Wait, CCheckQueueControl | worker threads, two condition variables, state that outlives a session |
| Block tree and chain activation | `main.cpp`, `chain.h`, `rpc/blockchain.cpp` | mapBlockIndex, nStatus, nSequenceId, setBlockIndexCandidates, mapBlocksUnlinked, chainActive | AcceptBlockHeader, AcceptBlock, ReceivedBlockTransactions, ActivateBestChain, InvalidateBlock, ReconsiderBlock | data in any order, cs_main released inside a reorganisation, invalid blocks found late, operator calls |
| Notarised checkpoints | `komodo_structs.cpp`, `komodo_notary.cpp`, `komodo_bitcoind.cpp`, `komodo.cpp` | NPOINTS, NPOINTS_last_index, last | AddCheckpoint, NotarizedData, komodo_checkpoint, komodo_connectblock | a cached linear search over a vector that reorganisations leave unsorted |
| Asynchronous RPC operations | `asyncrpcqueue.cpp`, `asyncrpcoperation.cpp`, `wallet/asyncrpcoperation_*.cpp` | operation map, id queue, closed_, finish_, state_ | addWorker, addOperation, run, main, cancel, popOperationForId, closeAndWait, finishAndWait | atomics read and written outside the lock, shutdown racing work |
| Coins cache | `coins.cpp`, `txdb.cpp` | layers of entries with DIRTY and FRESH, anchors, nullifiers | FetchCoins, ModifyCoins, PushAnchor, PopAnchor, SetNullifiers, BatchWrite, Flush | a flag wrong by one layer loses or resurrects a coin |
| Flushing and start-up | `main.cpp`, `txdb.cpp`, `init.cpp` | block files, index and coins databases | FlushStateToDisk, LoadBlockIndexDB, reindex | crash between two writes |
| Memory pool, orphans | `txmempool.cpp`, `main.cpp` | mapTx, mapNextTx, mapOrphanTransactions | AcceptToMemoryPool, remove, removeForBlock, AddOrphanTx | consistency with a moving tip, limits |
| Block download, messages | `main.cpp`, `net.cpp` | mapBlocksInFlight, per-peer queues, stalling times | FindNextBlocksToDownload, MarkBlockAs..., SendMessages | stalling peers, timeouts racing blocks |
| Scheduler, HTTP work queue | `scheduler.cpp`, `httpserver.cpp` | task queues, stop flags, thread counts | serviceQueue, stop, Enqueue, Run, Interrupt, WaitExit | lost wake-ups, leaving before a thread has started |
| Address manager, wallet, miner, consensus rules, contracts, cross-chain proofs, shielded protocol, transport, RPC, interfaces, bundled libraries | see `PROJECT.json` | | | mostly pure functions, I/O or third-party code |

How they interact. A message thread gives headers and blocks to the block tree
(`ProcessNewBlock`), an RPC thread gives it `invalidateblock` and
`reconsiderblock`; each then runs `ActivateBestChain`, which connects and
disconnects blocks one at a time under `cs_main`. `ConnectBlock` opens a session
of the script-check queue for each block, reads and writes the coins through a
cache layered on the tip's, and tells the notarisation state what the block
notarises; that state in turn refuses headers, reorganisations and
disconnections. `FlushStateToDisk` follows. `SendMessages` asks peers for the
blocks that the tree misses, and the memory pool gives up what a connected block
mines or excludes and takes back what a disconnected one had. RPC threads put operations in the
asynchronous queue and collect their results; `Shutdown` closes it.

What makes the parts correct: a session's verdict is that of its own checks; a
block is linked exactly when its chain is complete; the candidates are always
activable and the best one is activated; a notarised block is not left again; an
operation (a payment) is carried out at most once, and after shutdown none is
half-way; the caches show the same coins as one flat map; every crash leaves a
disk that the next start accepts; a block is asked of one peer at a time and the
node catches up whatever its other peers do; the pool holds only what can be
mined on the tip, and loses nothing else.

## 2. Modules

| Module | Models | Used by |
|---|---|---|
| `CheckQueue` | `checkqueue.h` | `MCCheckQueue`, `CheckQueue_proofs` |
| `Checkpoints` | the search of `komodo_state`, as operators | `ChainState` |
| `ChainState` | block tree, activation, dPoW finality; composes `Checkpoints` | `MCChainState`, `ChainState_proofs` |
| `AsyncRPCQueue` | asynchronous operations | `MCAsyncRPCQueue`, `AsyncRPCQueue_proofs` |
| `CoinsData` | transactions, nullifiers and anchors, as constants | `CoinsMap`, `CoinsCache` |
| `CoinsMap` | abstract: the chain state is one map that changes in transactions | `CoinsCache`, `CoinsMap_proofs` |
| `CoinsCache` | the view of a block, `pcoinsTip` and the coins database; implements `CoinsMap` | `MCCoinsCache`, `CoinsCache_proofs` |
| `Flush` | block files, block index and coins on disk, with crashes | `MCFlush`, `Flush_proofs` |
| `BlockDownload` | which block is asked of which peer | `MCBlockDownload`, `BlockDownload_proofs` |
| `Mempool` | memory pool, orphans and recent rejects under a moving chain | `MCMempool`, `Mempool_proofs` |

**CheckQueue.** Each section under `mutex` is one action, the execution of a
batch outside it another. `queue`, `nIdle`, `nTotal`, `fAllOk`, `nTodo` are the
fields of `CCheckQueue`; `vChecks` and `fOk` the locals of `Loop`; `control` the
holder of `ControlMutex`; `pc` says where a thread is. The stack is a set from
which a thread takes any `nNow` checks. `added` and `fRet` are history. At shutdown
`threadGroup.interrupt_all()` makes `cond.wait` throw in every thread of the group
(`Interrupt`, once for each thread): a worker ends; a master (the message handler,
ThreadImport, a miner) leaves Wait, its destructor enters Loop once more, and then its
thread ends. Neither takes `nTotal` and `nIdle` down.

**ChainState.** A block's place, height and work are constants, fixed by its
header (`pprev`, `nHeight`, `nChainWork`, `Chain`). What the node learns of it is
state: `nValid` (the level in `nStatus`), `haveData`, `failedValid`,
`failedChild`, `nSequenceId` (nonzero exactly when `nChainTx` is), membership of
the candidates and the waiting blocks. `tip` stands for `chainActive`. `csMain` is the
work its holder is in the middle of. The contents of a block are the verdicts of
its checks: `BadContext`, `BadConnect`, `FutureBlocks`, `Notarises`. A notarisation may
name any block that the index has at that height, also one of another branch, as in
`komodo_validate_chain`; nothing is assumed of the notaries.

| Action | Code |
|---|---|
| NewHeader, RefuseHeader | AcceptBlockHeader, komodo_checkpoint |
| SkipBlock, RejectBlock, AcceptBlock | ProcessNewBlock, AcceptBlock, ReceivedBlockTransactions |
| TimePasses | the clock reaches a block's time |
| NothingToActivate, RefuseReorg, ShutDown, BeginStep | FindMostWorkChain and the start of ActivateBestChainStep |
| StepDisconnect, StepRefused | DisconnectTip |
| StepConnect, StepInvalid, StepFromFuture | ConnectTip, ConnectBlock, InvalidBlockFound, PruneBlockIndexCandidates |
| Invalidate, InvalidateWalk, InvalidateFinish | InvalidateBlock, then invalidateblock's ActivateBestChain |
| Reconsider | ReconsiderBlock |

**AsyncRPCQueue.** Sections under `lock_` are actions, except
`cancelAllOperations`, which holds `lock_` over several steps while the workers
change `state_`; `cancel` is a test and a set. Several loads of `closed_` and
`finish_` in one section are one load: both flags only rise, and every outcome of
the separate loads is that of a single one. `runs` counts the entries into
`main_impl`; `reported` is what `z_getoperationresult` said. The destructor's
`closeAndWait` after a `closeAndWait` does nothing and is left out; after
`finishAndWait` it is modelled.

**CoinsCache.** Three layers: the database, `pcoinsTip`, and the view that
ConnectTip or DisconnectTip opens over it. An entry of a cache carries its value
and its DIRTY and FRESH flags; a coin, a nullifier and an anchor that is not
cached is read from the layer below and, as in `FetchCoins`, remembered.
`CoinsMap` has no caches and no flags: a stored, a committed and a pending copy
of the chain state, changed by Begin, Put..., Push, Pop, Commit, Drop, Store and
Fallback. The refinement mapping takes each copy to what the layer shows.

**Flush.** `index`, `info`, `lastFile` and the two dirty sets are what the code
keeps in memory, `diskIndex`, `diskInfo`, `diskLastFile`, `havePruned` what the
block index database holds, `blk` and `rev` the records in the files with whether
they were synced, `best` and `diskBest` the best block of `pcoinsTip` and of the
coins database. `FlushStateToDisk` is a step for each thing it writes (`phase`):
sync the files, write the index batch, unlink pruned files, write the coins. The
fault model: the process dies between any two steps (`Crash`, with the start that
follows), and in the run `flush_failed_write` the write of the index may fail.

**BlockDownload.** One `link` state for each peer (its CNodeState exists from
InitializeNode to FinalizeNode), and the fields of CNodeState as functions of the
peer. The handlers of `inv`, `headers` and `block`, and `SendMessages`, are one
action each, under `cs_main`. `asked` holds, for a prompt peer, where each answer that
it owes starts. A `headers` message has up to `MaxHeaders` headers; a full one is
followed by another getheaders under the two conditions of the handler
(`MoreHeaders`: `hasNewHeaders` during the initial download, and `sendhdrsreq`, which
starts with whatever was in memory, `Garbage`). FindNextBlocksToDownload is a definition per idea: where
the walk starts, how far it goes, what is missing on it, what of that is in the
window, who holds the window up. `Place` is the iterator that `mapBlocksInFlight` keeps
into the list of a peer. The fault model: peers are silent, late, send
what nobody asked for, spoilt blocks and headers of a bad branch, and leave at
any moment; a prompt peer keeps to the protocol. A headers message that meets a
header marked failed goes on or not, depending on a variable that the code does
not initialize, and is a choice in the model. The worst offence scores `DoS100`, less
than the default of -banscore (101), so that a peer stays after its first bad block;
on a chain with contracts a header that comes again loses the mark of a failed block
(`Marked`).

**Mempool.** `pool` is `mapTx` with `mapNextTx`, `tmp` the `tmpmempool` of
CheckBlock. A nullifier is an output that nobody makes. A transaction is what the
rules see of it: inputs, heights at which it may be mined, anchor. `Refused`,
`MissingInputs` and `Invalid` are the tests of AcceptToMemoryPool in their order;
each of the `remove...` is the function of that name. ConnectTip and DisconnectTip
are the parts of these functions that touch the pool; between the first block a
reorganisation disconnects and the end of the step, `moving` keeps everything else out,
as `cs_main` does. A step ends with `removeForReorg` (`EndStep`) or early, without it,
when ConnectTip fails and blames nobody (`Unblamed`) or DisconnectTip is refused
(`DisconnectRefused`); the history variable `unswept` says that this happened since
`removeForReorg` last ran. A `tx` message that frees orphans is a single step, in which
`FreeRound` is one turn of the loop over `vWorkQueue`. The loop makes as many turns as
there are transactions, which is enough: a transaction enters the queue when the pool
accepts it, and then it is refused. `Connectable` is what ConnectBlock asks of the coins:
nothing overwritten (BIP30), each transaction in turn finds its inputs, and they are
mature. What other code forbids is in `ConsensusAssumption`: only coinbases, or what
policy refuses anyway, have no inputs (`main.cpp:1534`); a block has one coinbase, first
(`main.cpp:5327`), and its height is in it (`main.cpp:5585`), so it is on the chain once;
and a block that changes the commitment tree gives it a root that is new to the chain.

## 3. Runs

Passing runs; the last column says why the bound is enough to reach the cases.

| Run | Shows | Bounds |
|---|---|---|
| `check_queue` | `nTodo` is exact, `nIdle` and `nTotal` exceed the threads they count by exactly the number of interruptions; Wait returns the verdict of its session; nothing leaks to the next one; every session closes | two workers, two masters, three checks (one failing), batches of two: a thread with several checks, threads sharing the work, sessions after one another, spurious waits, every thread interrupted once |
| `chain_network` | blocks are linked exactly when their chain is complete, waiting blocks are waiting, an activation ends on the best chain it may take | eight blocks on three branches, one failing early and one late, ties of work, a notarisation that names a block of another branch, a limit of two blocks for reorganisations, which is exceeded, two threads |
| `chain_operator` | the notarised block stays once the node is on it (`NotarisedKept`), a reorganisation that finality forbids is refused before anything is disconnected (`RefusedWhole`), links and candidates are sound at every step, an unchecked block does not become active | two branches, each with a notarisation of the same block of the first, so that the node may be on it or not; two operator calls, an invalid block from the future, failed headers reconsidered (`ASSETCHAINS_CC`) |
| `async_rpc` | an operation is carried out once at most, none is half-way after the joins, finishing loses none, no worker sleeps through shutdown, operations settle | two workers, two operations: one queued while the other is held, cancelled, reported or run; close, finish, finish then close |
| `coins_cache` | the layers implement `CoinsMap`; the flags are honest; the assertion in BatchWrite holds; the tree of the best anchor is always found | a transaction, a nullifier and a line of two anchors: entries do not interact with each other, so one of each kind meets every combination of flags in the three layers |
| `flush` | at every moment the disk is one that LoadBlockIndexDB can start from, and the index does not point at records that are not there | three blocks with a fork, three files of two blocks: files fill, are left, pruned and reused, with crashes in between, any number of times |
| `block_download` | the maps, lists and counters of blocks in flight agree; a stored block is not asked for; the window starts at stored blocks; the node reaches the tip of the honest peer, or its header download has stopped (see below) | the honest chain of two blocks, a rival one through a bad block, one prompt and one faulty peer that knows part of both, one header in a message, so that each header is asked for separately, two bad blocks to a ban, a window of one block and two requests for each peer, so that stalling, a full window and a full peer occur |
| `mempool` | no conflicts and no stale marks; inputs, anchors and heights fit the tip whenever the chain is at rest, except that a reorganisation that ended early leaves what is not final until the next sweep; orphans are indexed exactly; nothing minable is lost | two branches of three blocks and one, a transaction with two parents, one that expires, one that is early, a coinbase spend, a nullifier revealed twice, anchors that come and go, a refused block that is blamed and one that is not, two peers, one place for orphans |

Named bounds: `MaxOperatorCalls` limits the operator; `MAX_REORG_LENGTH`,
`BLOCK_DOWNLOAD_WINDOW`, `Window`, `InTransit`, `MaxHeaders`, `BanScore`, `DoS100`, `MaxOrphans`, `Maturity`,
`BlocksPerFile` and `Keep` are the code's constants with small values; scores stop
at `BanScore`, from where the code disconnects. The checkpoints grow only with
accepted notarisations, whose heights rise, so they need no bound.

`CHECK_DEADLOCK FALSE` is set where the program may be idle: when every block of
the instance has arrived, and when the RPC queue is closed, nothing more happens.

Fairness. In `CheckQueue` a thread that may take the mutex eventually takes it,
and a master leaves through the destructor of its control object (it may do so
without adding anything more). In `ChainState` a thread inside
ActivateBestChain or InvalidateBlock keeps running; no arrival, operator call or
passing of time is fair. In `AsyncRPCQueue` workers and the stopping thread keep
running and `main_impl` returns; nobody has to add, collect or stop, and
spurious wake-ups are not relied upon. In `BlockDownload` ThreadMessageHandler polls
every peer, ThreadSocketHandler finalizes disconnected ones, a timeout of a peer
that does not answer runs out, and the prompt peer connects, announces its tip and
answers each getheaders; of the faulty peer nothing is assumed. `GetsSynced` is stated
for prompt peers that the node prefers (outbound ones): of others it may not ask
anything while an outbound peer is connected. It has a second disjunct, `Stuck`, which
TLC reaches: during the initial download the best header may be on a branch that
another peer announced and whose blocks never come, while the answer to a getheaders
from there ends with a header that is known. `hasNewHeaders` is then false and the
handler asks for no more (`main.cpp:8136`). With messages of 160 headers this takes a
fork that much below the tip; the property says that nothing else keeps the node from
the tip.

### Disagreements found

These runs end in a counterexample; each checks what a comment of the repository
says.

| Run | What the code does |
|---|---|
| `flush_failed_write` | FlushStateToDisk empties the dirty sets before a write that fails; the flush at shutdown then writes an index without the new blocks, and the coins with the new best block (`main.cpp:4003`) |
| `chain_checkpoint` | NPOINTS keeps the entries of disconnected blocks, so that after a reorganisation it is not sorted; the search stops at a stale entry and misses the highest checkpoint below the tip (`komodo_structs.cpp:394`) |
| `mempool_reorg` | removeForReorg evicts an immature spend only if its coinbase is time-locked as well, so after a reorganisation to a lower tip the pool keeps what cannot be mined (`txmempool.cpp:411`) |
| `mempool_contracts` | on a chain with contracts CheckBlock puts the block's transactions beside the pool's; a conflicting transaction survives the block that spends its input (`main.cpp:5436`) |

Met while modelling, true of the models, and without a run of their own:

* AcceptBlock sets BLOCK_VALID_CONTEXT, above SCRIPTS, on a block whose parents may
  be headers; CheckBlockIndex asserts that SCRIPTS implies SCRIPTS for the parents.
* After a step that met an invalid block `cs_main` is released while a block as good
  as the tip is not a candidate; the next step repairs it.
* invalidateblock on a notarised block marks the tip failed, is refused by
  DisconnectTip and returns: failed blocks stay active.
* Data that arrives while the parent is failed is not remembered, and after
  reconsiderblock the block is never linked. reconsiderblock of a header clears its
  ancestors' failure without making them candidates (`main.cpp:4797`), and leaves
  BLOCK_FAILED_CHILD on other branches below them.
* A notarisation that was signed for one branch and mined on another makes a block that
  is not on the active chain the last notarised one; the node then refuses every
  reorganisation that forks below its height, also to the branch of that block, and
  marks it failed. On a chain with contracts a header that comes again clears such a
  mark without making the block a candidate (`main.cpp:5621`).
* An interrupted master raises `nIdle` and `nTotal` a second time when its destructor
  enters Loop again (`checkqueue.h:117`, `222`).
* An operation carried out between cancel's test and its store ends as CANCELLED
  (`asyncrpcoperation.cpp:81`); z_getoperationresult may return an operation as
  cancelled that a worker then carries out.
* Undo data that goes to an earlier file than the last is not synced before the index
  that refers to it is written (`main.cpp:3995`): `DataBacked` asks only that it was
  written.
* FinalizeNode does not lower nQueuedValidatedHeaders (`main.cpp:398`), so it only
  exceeds what is in flight, and the timeouts computed from it grow.
* When ConnectTip fails without blaming the block, or DisconnectTip is refused after
  other blocks were disconnected, ActivateBestChainStep returns before removeForReorg
  (`main.cpp:4612`, `4555`), and the pool keeps transactions that are not final until
  the next reorganisation or invalidateblock.

## 4. Proofs

Each `_proofs` module extends the component's module; TLAPS checks every leaf.

* `CheckQueue_proofs`: `TypeCorrect`, `TodoCounts`, `CountersExact`, `WaitIsExact`,
  `SessionsAreIsolated`, for any finite sets of threads and checks and any batch
  size. `CountersExact` counts the drift: each interruption raises both counters above
  the threads they count by one, also when a master comes back (`InterruptCounts`). `ResultExact` alone is not inductive: the invariant adds who owns a batch
  (`BatchOwners`), to which session the pending checks belong (`Sessions`,
  `PendingAdded`), and that a failure is in `fAllOk` or in the `fOk` of a thread
  that still has to fold it in (`Verdicts`, `AfterWait`). `NoLostWakeup` is the safety
  half of `SessionCloses`: a sleeping master always has a worker with a batch that no
  interruption reaches. It follows from `Awaited`, that a master sleeps only over an empty
  queue with `nTodo` not zero, and from `TodoCounts`.
* `ChainState_proofs`, for any tree, threads and notarisations. `TypeCorrect`,
  `NotarisedStays` (`NotarisedKept`) and `RefusedBeforeAnything` (`RefusedWhole`): `TInv` adds to the types that the index contains the chain
  of each of its blocks (so that a disconnected tip has a parent in it) and that the
  block the holder of `cs_main` aims at is known. `NotarisedStays` then follows because
  DisconnectTip never removes the last notarised block and connecting blocks keeps the
  chain below. For `RefusedBeforeAnything` the invariant (`ForkChecked`) says that, while
  a step of a network thread disconnects, a notarised block on the active chain is also
  on the chain that the step aims at, or is the very tip that the step started from: the
  test of the fork's height (`BeginChecked`) has seen to that, whichever block is
  notarised.
  + `LinksSound` (`LInv`): the linked blocks are closed under parents, their ids are
    below the next one, and what waits is not linked.
  + `CandidatesAlwaysSound` (`CInv`): the tip and the block that a step aims at are
    linked; a candidate survives a change of tip only if PruneBlockIndexCandidates finds
    it no worse, which rests on the comparator being a strict order (`BetterOrder`).
  + `ActiveChainAlwaysValid` (`VInv`): a block that reached BLOCK_VALID_CONTEXT passed
    the checks in context, and only such blocks are connected.
  + `LinksExact` and `WaitingSound` (`UInv`): every block with data is linked, waiting,
    or has an ancestor whose data was refused for good, and a failed block is linked or
    one of those. They assume `MaxOperatorCalls = 0`: invalidateblock marks a header
    failed, data that arrives above it is not remembered, and the block is never linked
    (section 3).
  + `ActivationReturnsBest` (`BInv`): for every block that could be activated there is a
    candidate, not failed, that is at least as good (`Witnessed`), and the block a step
    aims at beats all such candidates (`JobBest`). Candidates are lost only to failures,
    so each mark must spare the clean blocks: it falls on a block that breaks a rule, or
    above a failed one, or on a reorganisation refused for finality, and then every clean
    block is readmitted (`TipClean`, `JobClean`, `CleanNext`). Same assumption on the
    operator, who fails blocks without reason, and no `ASSETCHAINS_CC`, where a header that
    comes again clears a mark without making the block a candidate.
  + `SortedSearchHighest`: while NPOINTS is sorted, komodo_checkpoint finds the highest
    checkpoint below the tip. `SearchExact` says so of the search, whatever the cached
    index: the index only decides where it starts. `PInv` adds that the notarised heights
    rise along NPOINTS (`PointsAdvance`) and that each entry was carried by a block
    (`PointsCarried`). After a reorganisation NPOINTS need not be sorted, and
    `HighestCheckpoint` is false (run `chain_checkpoint`).

  Assumptions: `TreeAssumption`, `ChainAssumption`, `InputAssumption`, `NullAssumption`
  (`NoBlock` is no checkpoint), evaluated by
  TLC on every instance. `ChainAssumption` lists the consequences of the definition of `Chain`
  that would need induction over the tree.
* `AsyncRPCQueue_proofs`: `TypeCorrect`, `CarriedOutOnce`, `ClosedIsSettled`,
  `FinishLosesNothing`, for any workers and operations. `IInv` follows an operation
  from the queue to a worker (`QueueInv`, `HeldInv`), relates its state to where it
  has been (`StateInv`), and says that what is READY waits for a worker or, in a
  closed queue, for cancelAllOperations (`ReadyInv`). `NobodySleepsThroughStop` and
  `NobodySleepsOverWork` are the safety halves of `StopEnds` and `OperationsSettle`: the
  flag is set before the workers are notified (`FlagFirst`), so none sleeps when they are
  joined, and while ids are queued some worker is awake, since notify_one wakes one in
  the section that queues the id and an awake worker sleeps only over an empty queue.
* `CoinsCache_proofs`: `Refinement` (the specification implements `CoinsMap`),
  `TypeCorrect`, `HonestFlags`, `AssertHolds`, `AnchorFound`, for any transactions,
  nullifiers and anchors. `IInv` is what the flags promise, that a closed view is
  empty, that what is not cached carries no flags, and that the view's entries are
  backed by entries of `pcoinsTip` unless they are fresh. Lemmas say what one entry
  becomes in a flush (`CoinsWrittenShows`, ...); each action then keeps `IInv` and is
  a step of the map or a stutter. `AnchorFound` goes through the abstraction:
  `CoinsMap_proofs` proves that the anchors of every copy form one line
  (`MapAnchorsInLine`), and the refinement carries it down.
* `Flush_proofs`, for any tree and files. `Loadable` and `ChainDisconnectable`: outside
  the dirty set memory and disk agree and the disk lags behind (`Lags`), the chains of
  the three best blocks are held by the index they belong to (`ChainsHeld`), and nothing
  is dirty from the write of the index to the write of the coins (`Ordered`); a flush
  can therefore store the coins' best block without any test. `TypesKept` and
  `FilesBacked` need in addition where the records are (`LaidOut`: two blocks never
  share a place, and the info of a file counts what is in it), that the info on disk
  lags behind (`InfoLags`), that what the index on disk refers to was synced, and in
  memory what is not in the last file or is about to be written (`DataSynced`), and that
  a file to be unlinked is forgotten by the index (`Forgotten`). That undo data has room
  in the file of its block is a pigeonhole argument (`UndoFits`).
* `BlockDownload_proofs`, for any tree, peers and limits. `StoredNotAsked`
  (`NotAskedTwice`) and `WindowSound` (`WindowAboveStored`): the invariant adds that only
  known blocks are stored, so that `inv` asks for none of them, and that the chain of
  the tip is stored, where a window may start. That a highest block exists among those
  that a walk considers follows from the well-foundedness of the natural numbers
  (`HighestIn`). `TypesKept` and `FlightConsistent` (`FlightAgrees`): `FlightInv` says for
  each peer that its list has no hash twice (`PeerFlight`) and that the map names only
  peers with a CNodeState (`AskedOfNodes`); `Removed` and `Added` say what one entry does
  to the list and its counters. `ChainAssumption` states for chains what would need
  induction over the tree; TLC evaluates it.
* `Mempool_proofs`, for any transactions, outputs, peers and tree of blocks. `TypeCorrect`
  and `OrphansExact` hold on every chain; `MarksExact` (`PoolAgrees`) and
  `InputsStayAvailable` (`InputsAvailable`) and `AlwaysInTime` (`InTime`) assume a chain
  without contracts (`~CC`): the run `mempool_contracts` shows that they fail otherwise. The invariants: each mark
  names a transaction of the pool that has the input (`Marks`); each transaction of
  the pool owns the marks of its inputs (`Owns`); inputs, anchors and expiry fit the chain
  at every moment of a reorganisation (`CInv`), and not only at rest; what is not final
  may be there until removeForReorg, also when a step ended before it (`Final`). `Shrinks` says what every removal keeps:
  the descendants found by the marks are all there are (`Descendants`), so nothing stays
  whose input is gone. The loops of the code are folds. A fold is a recursive function
  on sets of positions, and its theory is built here without a theorem on
  operators: the function exists (`FoldExists`, by steps up to the length), so its value
  is the last of a row of intermediate pools (`FoldSteps`, and a lemma `...Unrolled` for
  each loop), along which facts are carried by `StepTo`. In `BlockFacts` the fact at
  position k is that the first k transactions conflict with nothing that is left; in
  `ResurrectFacts`, that the outputs of the transactions after k are still owed.
  + `NoTransactionLost` (`NothingLost`, assuming `~CC`): the invariant ties the coins to the
    chain. They are what the blocks made and did not spend, each block of the chain was
    sound when it was connected (`SoundBlock`: its transactions are new, find their inputs
    before them and share none), and nothing in the pool is mined (`NInv`). A transaction
    then leaves the pool with a reason: it conflicts with the block that joins, it has
    expired, or it descends from one that left, whose output is gone. When a block leaves
    the chain its transactions come back in order: none conflicts with the pool or with
    those before it (`Returns`), so that one that AcceptToMemoryPool refuses is refused by
    policy, height or anchor (`Barred`), or misses the output of one that was refused
    (`RefusedWhy`, `ResurrectWhy`).

Only model-checked: liveness (`SessionCloses`, `ActivationEnds`, `StopEnds`,
`OperationsSettle`, `GetsSynced`), since fairness and ENABLED are out of the prover's
reach. `MatureSpends` is false (run `mempool_reorg`).

## 5. Left out of the models

* Chain: `pindexBestHeader` and `pindexBestInvalid` (reporting), `setDirtyBlockIndex` and
  disk errors (with the flush), static checkpoints, pruning (`fMissingData`),
  `KOMODO_REWIND`, the regtest simulation of dPoW, the initial-download path of
  `komodo_validate_chain`, the verification of notaries' own blocks, `CorruptionPossible`
  verdicts, adaptive proof of work, the special window around the Sapling
  activation, and invalidation of the genesis block. The order of linking within
  one level of the tree is any order.
* Notarisation: how it is recognised in a block's transactions, MoM data, the
  event file.
* Asynchronous operations: what `main_impl` does to the wallet, error texts, clocks.
* Coins: Sapling's copy of the code for Sprout's anchors and nullifiers, memory use,
  statistics.
* Flushing: `-reindex`, VerifyDB, the temporary block files (AcceptBlock does not use
  them), failed writes of block files, the optional indexes, wallet and fee
  estimates.
* Block download: whitelisted peers, blocks that ConnectBlock refuses, BLOCK_FAILED_CHILD,
  locators that skip blocks (a locator holds every block below its first one, as the
  code's does for the last eleven), a getheaders that the other node does not answer
  because it is in its own initial download, and the messages that do not touch blocks
  in flight.
* Memory pool: fees and priorities, branch ids, stakes, imported coins, the address
  and spent indexes, orphans that are too large, komodo_validate_interest, which on the
  KMD chain refuses and evicts transactions with an old lock time
  (`txmempool.cpp:516`, `main.cpp:1883`), and setMisbehaving, by which further orphans
  of a peer wait once one was punished (`main.cpp:8022`).

Not modelled at all, for the reasons `PROJECT.json` gives: the scheduler and the HTTP
work queue (next in the plan), the address manager, the wallet, the miner, consensus
rules and script, the crypto-conditions contracts, cross-chain proofs, the shielded
protocol, transport, RPC and interfaces, and bundled libraries. Most of the
repository's lines are there: contracts (`src/cc`), wallet RPC, bundled libraries.

## 6. Plan

1. *Done*: script-check queue, block tree with activation and finality,
   asynchronous RPC operations, coins cache with its abstract map, flushing with
   crashes, block download, memory pool with orphans.
2. *Done*: proofs of the invariants and action properties of all these modules, and of
   the safety halves of the liveness of the two thread pools.
3. `ThreadPools`: the scheduler and the HTTP work queue.
4. The composition of `Flush` and `ChainState`: a restart in the middle of a
   reorganisation.
