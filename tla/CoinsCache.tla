----------------------------- MODULE CoinsCache -----------------------------
(***************************************************************************)
(* The layers of coins views (coins.cpp, txdb.cpp): the database, the      *)
(* cache pcoinsTip in front of it, and the view that ConnectTip and        *)
(* DisconnectTip put in front of pcoinsTip while they apply a block.  An   *)
(* entry of a cache says whether it may differ from the layer below        *)
(* (DIRTY) and whether the layer below has nothing there (FRESH); a flush  *)
(* writes the dirty entries one layer down and may drop a fresh one.       *)
(*                                                                         *)
(* The caches are used under cs_main, so a call is one action; a           *)
(* CCoinsModifier is destroyed before the next call.  Sprout and Sapling   *)
(* have a copy each of the same code for anchors; one is modelled.         *)
(***************************************************************************)
EXTENDS CoinsData

VARIABLES
    viewCoins, tipCoins,                \* cacheCoins of the two caches
    viewNullifiers, tipNullifiers,      \* cacheSproutNullifiers, ...
    viewAnchors, tipAnchors,            \* cacheSproutAnchors
    viewBlock, tipBlock,                \* hashBlock
    viewAnchor, tipAnchor,              \* hashSproutAnchor
    dbCoins, dbNullifiers, dbAnchors, dbBlock, dbAnchor,
    open                                \* whether the view exists

viewVars == <<viewCoins, viewNullifiers, viewAnchors, viewBlock, viewAnchor, open>>
tipVars  == <<tipCoins, tipNullifiers, tipAnchors, tipBlock, tipAnchor>>
dbVars   == <<dbCoins, dbNullifiers, dbAnchors, dbBlock, dbAnchor>>
vars     == <<viewVars, tipVars, dbVars>>

coinVars   == <<viewCoins, tipCoins>>
markVars   == <<viewNullifiers, tipNullifiers>>
anchorVars == <<viewAnchors, tipAnchors>>
hashVars   == <<viewBlock, tipBlock, viewAnchor, tipAnchor>>

\* The coins of a transaction in a cache; one that is not cached has no entry.
CoinsEntry == [cached : BOOLEAN, coins : Coins, dirty : BOOLEAN, fresh : BOOLEAN]
NoCoins == [cached |-> FALSE, coins |-> Pruned, dirty |-> FALSE, fresh |-> FALSE]

\* A nullifier or an anchor in a cache, entered or taken out.
MarkEntry == [cached : BOOLEAN, entered : BOOLEAN, dirty : BOOLEAN]
NoMark == [cached |-> FALSE, entered |-> FALSE, dirty |-> FALSE]

NoCoinsAtAll == [t \in Txids |-> NoCoins]
NoNullifiers == [n \in Nullifiers |-> NoMark]
NoAnchors    == [r \in Roots |-> NoMark]

TypeOK ==
    /\ viewCoins \in [Txids -> CoinsEntry] /\ tipCoins \in [Txids -> CoinsEntry]
    /\ viewNullifiers \in [Nullifiers -> MarkEntry]
    /\ tipNullifiers \in [Nullifiers -> MarkEntry]
    /\ viewAnchors \in [Roots -> MarkEntry] /\ tipAnchors \in [Roots -> MarkEntry]
    /\ viewBlock \in Blocks \cup {NullBlock} /\ tipBlock \in Blocks \cup {NullBlock}
    /\ viewAnchor \in Roots \cup {NullRoot} /\ tipAnchor \in Roots \cup {NullRoot}
    /\ dbCoins \in [Txids -> Coins]
    /\ dbNullifiers \in SUBSET Nullifiers /\ dbAnchors \in SUBSET Roots
    /\ dbBlock \in Blocks \cup {NullBlock} /\ dbAnchor \in Roots
    /\ open \in BOOLEAN

Init ==
    /\ viewCoins = NoCoinsAtAll /\ tipCoins = NoCoinsAtAll
    /\ viewNullifiers = NoNullifiers /\ tipNullifiers = NoNullifiers
    /\ viewAnchors = NoAnchors /\ tipAnchors = NoAnchors
    /\ viewBlock = NullBlock /\ tipBlock = NullBlock
    /\ viewAnchor = NullRoot /\ tipAnchor = NullRoot
    /\ dbCoins = [t \in Txids |-> Pruned]
    /\ dbNullifiers = {} /\ dbAnchors = {}
    /\ dbBlock = NullBlock /\ dbAnchor = EmptyRoot
    /\ open = FALSE

-----------------------------------------------------------------------------
(* Reading through the layers.  A miss asks the layer below, which may     *)
(* fill its own cache on the way.                                          *)

\* pcoinsTip's entry once it has been asked for t
TipFetchCoins(t) ==
    IF tipCoins[t].cached \/ dbCoins[t] = Pruned
    THEN tipCoins[t]
    ELSE [cached |-> TRUE, coins |-> dbCoins[t], dirty |-> FALSE, fresh |-> FALSE]

\* the view's entry once it has been asked for t
FetchCoins(t) ==
    IF viewCoins[t].cached \/ ~TipFetchCoins(t).cached
    THEN viewCoins[t]
    ELSE [cached |-> TRUE, coins |-> TipFetchCoins(t).coins, dirty |-> FALSE,
          fresh |-> TipFetchCoins(t).coins = Pruned]

TipGetCoins(t) ==
    /\ tipCoins' = [tipCoins EXCEPT ![t] = TipFetchCoins(t)]
    /\ UNCHANGED <<viewVars, tipNullifiers, tipAnchors, tipBlock, tipAnchor, dbVars>>

GetCoins(t) ==
    /\ open
    /\ ~viewCoins[t].cached
    /\ tipCoins' = [tipCoins EXCEPT ![t] = TipFetchCoins(t)]
    /\ viewCoins' = [viewCoins EXCEPT ![t] = FetchCoins(t)]
    /\ UNCHANGED <<markVars, anchorVars, hashVars, dbVars, open>>

TipFetchNullifier(n) ==
    IF tipNullifiers[n].cached
    THEN tipNullifiers[n]
    ELSE [cached |-> TRUE, entered |-> n \in dbNullifiers, dirty |-> FALSE]

TipGetNullifier(n) ==
    /\ tipNullifiers' = [tipNullifiers EXCEPT ![n] = TipFetchNullifier(n)]
    /\ UNCHANGED <<viewVars, tipCoins, tipAnchors, tipBlock, tipAnchor, dbVars>>

\* A negative answer is cached as well.
GetNullifier(n) ==
    /\ open
    /\ ~viewNullifiers[n].cached
    /\ tipNullifiers' = [tipNullifiers EXCEPT ![n] = TipFetchNullifier(n)]
    /\ viewNullifiers' =
         [viewNullifiers EXCEPT ![n] = [cached |-> TRUE, dirty |-> FALSE,
                                        entered |-> TipFetchNullifier(n).entered]]
    /\ UNCHANGED <<coinVars, anchorVars, hashVars, dbVars, open>>

TipFetchAnchor(r) ==
    IF tipAnchors[r].cached \/ ~(r = EmptyRoot \/ r \in dbAnchors)
    THEN tipAnchors[r]
    ELSE [cached |-> TRUE, entered |-> TRUE, dirty |-> FALSE]

FetchAnchor(r) ==
    IF viewAnchors[r].cached \/ ~TipFetchAnchor(r).entered
    THEN viewAnchors[r]
    ELSE [cached |-> TRUE, entered |-> TRUE, dirty |-> FALSE]

TipGetAnchorAt(r) ==
    /\ tipAnchors' = [tipAnchors EXCEPT ![r] = TipFetchAnchor(r)]
    /\ UNCHANGED <<viewVars, tipCoins, tipNullifiers, tipBlock, tipAnchor, dbVars>>

GetAnchorAt(r) ==
    /\ open
    /\ ~viewAnchors[r].cached
    /\ tipAnchors' = [tipAnchors EXCEPT ![r] = TipFetchAnchor(r)]
    /\ viewAnchors' = [viewAnchors EXCEPT ![r] = FetchAnchor(r)]
    /\ UNCHANGED <<coinVars, markVars, hashVars, dbVars, open>>

\* A null hash stands for "not asked yet".
TipBestBlock  == IF tipBlock = NullBlock THEN dbBlock ELSE tipBlock
TipBestAnchor == IF tipAnchor = NullRoot THEN dbAnchor ELSE tipAnchor
BestBlock     == IF viewBlock = NullBlock THEN TipBestBlock ELSE viewBlock
BestAnchor    == IF viewAnchor = NullRoot THEN TipBestAnchor ELSE viewAnchor

-----------------------------------------------------------------------------
(* Applying a block in a view. *)

\* ConnectTip or DisconnectTip makes the view; ConnectBlock and DisconnectBlock
\* ask it for the best block and the best anchor before they change it.
OpenView ==
    /\ ~open
    /\ TipBestBlock # NullBlock
    /\ open' = TRUE
    /\ viewCoins' = NoCoinsAtAll /\ viewNullifiers' = NoNullifiers
    /\ viewAnchors' = NoAnchors
    /\ viewBlock' = TipBestBlock /\ tipBlock' = TipBestBlock
    /\ viewAnchor' = TipBestAnchor /\ tipAnchor' = TipBestAnchor
    /\ UNCHANGED <<tipCoins, tipNullifiers, tipAnchors, dbVars>>

\* mutant: an entry that was read before is not marked as dirty when it is changed
ModifyCoins_NotDirty(t, v) ==
    LET old == viewCoins[t]
        entry == IF old.cached
                 THEN old
                 ELSE [cached |-> TRUE, coins |-> TipFetchCoins(t).coins, dirty |-> TRUE,
                       fresh |-> TipFetchCoins(t).coins = Pruned]
    IN /\ open
       /\ tipCoins' = IF old.cached THEN tipCoins
                      ELSE [tipCoins EXCEPT ![t] = TipFetchCoins(t)]
       /\ viewCoins' = [viewCoins EXCEPT ![t] = IF entry.fresh /\ v = Pruned
                                                THEN NoCoins
                                                ELSE [entry EXCEPT !.coins = v]]
       /\ UNCHANGED <<markVars, anchorVars, hashVars, dbVars, open>>

\* ModifyCoins, the change to v, and the end of the CCoinsModifier: the entry is
\* dirty whatever the change is, and a fresh one that ends up pruned is erased.
ModifyCoins(t, v) ==
    LET old == viewCoins[t]
        entry == IF old.cached
                 THEN [old EXCEPT !.dirty = TRUE]
                 ELSE [cached |-> TRUE, coins |-> TipFetchCoins(t).coins, dirty |-> TRUE,
                       fresh |-> TipFetchCoins(t).coins = Pruned]
    IN /\ open
       /\ tipCoins' = IF old.cached THEN tipCoins
                      ELSE [tipCoins EXCEPT ![t] = TipFetchCoins(t)]
       /\ viewCoins' = [viewCoins EXCEPT ![t] = IF entry.fresh /\ v = Pruned
                                                THEN NoCoins
                                                ELSE [entry EXCEPT !.coins = v]]
       /\ UNCHANGED <<markVars, anchorVars, hashVars, dbVars, open>>

\* The nullifiers of a transaction are set, or taken back when it is undone.
SetNullifiers(ns, spent) ==
    /\ open
    /\ viewNullifiers' =
         [n \in Nullifiers |-> IF n \in ns
                               THEN [cached |-> TRUE, entered |-> spent, dirty |-> TRUE]
                               ELSE viewNullifiers[n]]
    /\ UNCHANGED <<coinVars, tipNullifiers, anchorVars, hashVars, dbVars, open>>

\* A block with shielded outputs grew the tree to r.  (Without any, the root is
\* the current one and nothing happens.)
PushAnchor(r) ==
    /\ open
    /\ r # EmptyRoot /\ Prev[r] = BestAnchor
    /\ viewAnchors' =
         [viewAnchors EXCEPT ![r] = [cached |-> TRUE, entered |-> TRUE, dirty |-> TRUE]]
    /\ viewAnchor' = r
    /\ UNCHANGED <<coinVars, markVars, tipAnchors, viewBlock, tipBlock, tipAnchor, dbVars, open>>

\* The block that grew the tree is undone: its root is brought into the view and
\* marked as gone, and the best anchor is the one before.
PopAnchor ==
    LET current == BestAnchor IN
    /\ open
    /\ current # EmptyRoot
    /\ tipAnchors' = IF viewAnchors[current].cached THEN tipAnchors
                     ELSE [tipAnchors EXCEPT ![current] = TipFetchAnchor(current)]
    /\ viewAnchors' =
         [viewAnchors EXCEPT ![current] = [cached |-> TRUE, entered |-> FALSE, dirty |-> TRUE]]
    /\ viewAnchor' = Prev[current]
    /\ UNCHANGED <<coinVars, markVars, viewBlock, tipBlock, tipAnchor, dbVars, open>>

SetBestBlock(b) ==
    /\ open
    /\ viewBlock' = b
    /\ UNCHANGED <<coinVars, markVars, anchorVars, tipBlock, viewAnchor, tipAnchor, dbVars, open>>

-----------------------------------------------------------------------------
(* Flushing. *)

\* mutant: pruned coins are erased from pcoinsTip whether or not they are fresh there
CoinsWritten_EraseAny(c, p) ==
    CASE ~c.dirty -> p
      [] c.dirty /\ c.coins = Pruned -> NoCoins
      [] c.dirty /\ c.coins # Pruned ->
           [cached |-> TRUE, coins |-> c.coins, dirty |-> TRUE, fresh |-> ~p.cached \/ p.fresh]

\* what pcoinsTip's BatchWrite makes of the view's entry c and its own entry p
CoinsWritten(c, p) ==
    CASE ~c.dirty -> p
      [] c.dirty /\ ~p.cached /\ c.coins = Pruned -> p
      [] c.dirty /\ ~p.cached /\ c.coins # Pruned ->
           [cached |-> TRUE, coins |-> c.coins, dirty |-> TRUE, fresh |-> TRUE]
      [] c.dirty /\ p.cached /\ p.fresh /\ c.coins = Pruned -> NoCoins
      [] c.dirty /\ p.cached /\ ~(p.fresh /\ c.coins = Pruned) ->
           [p EXCEPT !.coins = c.coins, !.dirty = TRUE]

\* mutant: an entry that pcoinsTip has already is not written
MarkWritten_KeepOld(c, p) ==
    IF c.dirty /\ ~p.cached
    THEN [cached |-> TRUE, entered |-> c.entered, dirty |-> TRUE]
    ELSE p

MarkWritten(c, p) ==
    CASE ~c.dirty -> p
      [] c.dirty /\ ~p.cached -> [cached |-> TRUE, entered |-> c.entered, dirty |-> TRUE]
      [] c.dirty /\ p.cached /\ p.entered # c.entered ->
           [p EXCEPT !.entered = c.entered, !.dirty = TRUE]
      [] c.dirty /\ p.cached /\ p.entered = c.entered -> p

ClearView ==
    /\ viewCoins' = NoCoinsAtAll /\ viewNullifiers' = NoNullifiers
    /\ viewAnchors' = NoAnchors
    /\ viewBlock' = NullBlock /\ viewAnchor' = NullRoot
    /\ open' = FALSE

\* view.Flush(): BatchWrite into pcoinsTip; the view's scope ends there.
FlushView ==
    /\ open
    /\ tipCoins' = [t \in Txids |-> CoinsWritten(viewCoins[t], tipCoins[t])]
    /\ tipNullifiers' =
         [n \in Nullifiers |-> MarkWritten(viewNullifiers[n], tipNullifiers[n])]
    /\ tipAnchors' = [r \in Roots |-> MarkWritten(viewAnchors[r], tipAnchors[r])]
    /\ tipBlock' = viewBlock /\ tipAnchor' = viewAnchor
    /\ ClearView
    /\ UNCHANGED dbVars

\* The block failed, or the view was only for a check.
CloseView ==
    /\ open
    /\ ClearView
    /\ UNCHANGED <<tipVars, dbVars>>

\* The genesis block: ConnectBlock only sets the best block, and the view is
\* flushed without having asked for the best anchor.
ConnectGenesis(b) ==
    /\ ~open
    /\ TipBestBlock = NullBlock
    /\ tipBlock' = b /\ tipAnchor' = NullRoot
    /\ UNCHANGED <<viewVars, tipCoins, tipNullifiers, tipAnchors, dbVars>>

\* mutant: pcoinsTip is flushed while a view is in front of it
FlushTip_UnderView ==
    /\ dbCoins' = [t \in Txids |-> IF tipCoins[t].dirty THEN tipCoins[t].coins ELSE dbCoins[t]]
    /\ dbNullifiers' = {n \in Nullifiers : IF tipNullifiers[n].dirty
                                           THEN tipNullifiers[n].entered
                                           ELSE n \in dbNullifiers}
    /\ dbAnchors' = {r \in Roots : IF tipAnchors[r].dirty
                                   THEN tipAnchors[r].entered /\ r # EmptyRoot
                                   ELSE r \in dbAnchors}
    /\ dbBlock' = TipBestBlock /\ dbAnchor' = TipBestAnchor
    /\ tipCoins' = NoCoinsAtAll /\ tipNullifiers' = NoNullifiers /\ tipAnchors' = NoAnchors
    /\ UNCHANGED <<viewVars, tipBlock, tipAnchor>>

\* pcoinsTip->Flush() in FlushStateToDisk, never inside a view's scope: one batch
\* of the database takes the dirty entries and the hashes that are not null.
FlushTip ==
    /\ ~open
    /\ dbCoins' = [t \in Txids |-> IF tipCoins[t].dirty THEN tipCoins[t].coins ELSE dbCoins[t]]
    /\ dbNullifiers' = {n \in Nullifiers : IF tipNullifiers[n].dirty
                                           THEN tipNullifiers[n].entered
                                           ELSE n \in dbNullifiers}
    /\ dbAnchors' = {r \in Roots : IF tipAnchors[r].dirty
                                   THEN tipAnchors[r].entered /\ r # EmptyRoot
                                   ELSE r \in dbAnchors}
    /\ dbBlock' = TipBestBlock /\ dbAnchor' = TipBestAnchor
    /\ tipCoins' = NoCoinsAtAll /\ tipNullifiers' = NoNullifiers /\ tipAnchors' = NoAnchors
    /\ UNCHANGED <<viewVars, tipBlock, tipAnchor>>

\* The process dies and starts again: the caches are gone.
Crash ==
    /\ ClearView
    /\ tipCoins' = NoCoinsAtAll /\ tipNullifiers' = NoNullifiers /\ tipAnchors' = NoAnchors
    /\ tipBlock' = NullBlock /\ tipAnchor' = NullRoot
    /\ UNCHANGED dbVars

Read ==
    \/ \E t \in Txids : TipGetCoins(t) \/ GetCoins(t)
    \/ \E n \in Nullifiers : TipGetNullifier(n) \/ GetNullifier(n)
    \/ \E r \in Roots : TipGetAnchorAt(r) \/ GetAnchorAt(r)

Write ==
    \/ \E t \in Txids, v \in Coins : ModifyCoins(t, v)
    \/ \E ns \in SUBSET Nullifiers, spent \in BOOLEAN : SetNullifiers(ns, spent)
    \/ \E r \in Roots : PushAnchor(r)
    \/ PopAnchor
    \/ \E b \in Blocks : SetBestBlock(b) \/ ConnectGenesis(b)

Next == Read \/ Write \/ OpenView \/ FlushView \/ CloseView \/ FlushTip \/ Crash

Spec == Init /\ [][Next]_vars

-----------------------------------------------------------------------------
(* What each layer shows. *)

DbState == [coins |-> dbCoins, nullifiers |-> dbNullifiers,
            anchors |-> dbAnchors \cup {EmptyRoot}, anchor |-> dbAnchor, block |-> dbBlock]

TipSees(t)    == IF tipCoins[t].cached THEN tipCoins[t].coins ELSE dbCoins[t]
TipSpent(n)   == IF tipNullifiers[n].cached THEN tipNullifiers[n].entered ELSE n \in dbNullifiers
TipEntered(r) == IF tipAnchors[r].cached THEN tipAnchors[r].entered
                 ELSE r = EmptyRoot \/ r \in dbAnchors

TipState == [coins |-> [t \in Txids |-> TipSees(t)],
             nullifiers |-> {n \in Nullifiers : TipSpent(n)},
             anchors |-> {r \in Roots : TipEntered(r)},
             anchor |-> TipBestAnchor, block |-> TipBestBlock]

ViewSees(t)    == IF viewCoins[t].cached THEN viewCoins[t].coins ELSE TipSees(t)
ViewSpent(n)   == IF viewNullifiers[n].cached THEN viewNullifiers[n].entered ELSE TipSpent(n)
ViewEntered(r) == IF viewAnchors[r].cached THEN viewAnchors[r].entered ELSE TipEntered(r)

ViewState == [coins |-> [t \in Txids |-> ViewSees(t)],
              nullifiers |-> {n \in Nullifiers : ViewSpent(n)},
              anchors |-> {r \in Roots : ViewEntered(r)},
              anchor |-> BestAnchor, block |-> BestBlock]

\* The layers implement one map that changes in transactions: whatever was
\* cached, flagged, erased or flushed on the way, a flush of the view commits
\* exactly what the view showed, a flush of pcoinsTip stores exactly what
\* pcoinsTip showed, reading changes nothing, and a crash falls back to the
\* last state that was stored (coins.cpp, CCoinsViewDB::BatchWrite).
Map == INSTANCE CoinsMap WITH stored <- DbState, committed <- TipState,
                              pending <- ViewState

ImplementsMap == Map!MapSpec

\* What the flags of the view's and of pcoinsTip's entries promise: an entry that
\* is not dirty agrees with the layer below, and below a fresh one there is
\* nothing.
FlagsHonest ==
    /\ \A t \in Txids :
         /\ tipCoins[t].cached /\ ~tipCoins[t].dirty => tipCoins[t].coins = dbCoins[t]
         /\ tipCoins[t].fresh => dbCoins[t] = Pruned
         /\ viewCoins[t].cached /\ ~viewCoins[t].dirty => viewCoins[t].coins = TipSees(t)
         /\ viewCoins[t].fresh => TipSees(t) = Pruned
    /\ \A n \in Nullifiers :
         /\ tipNullifiers[n].cached /\ ~tipNullifiers[n].dirty =>
              (tipNullifiers[n].entered <=> n \in dbNullifiers)
         /\ viewNullifiers[n].cached /\ ~viewNullifiers[n].dirty =>
              (viewNullifiers[n].entered <=> TipSpent(n))
    /\ \A r \in Roots :
         /\ tipAnchors[r].cached /\ ~tipAnchors[r].dirty =>
              (tipAnchors[r].entered <=> (r = EmptyRoot \/ r \in dbAnchors))
         /\ viewAnchors[r].cached /\ ~viewAnchors[r].dirty =>
              (viewAnchors[r].entered <=> TipEntered(r))

\* The assertion of BatchWrite: coins the view has changed and pcoinsTip has no
\* entry for are fresh.  It counts on pcoinsTip keeping every entry a view was
\* filled from until the view is gone.
BatchWriteAsserts ==
    \A t \in Txids : viewCoins[t].cached /\ ~viewCoins[t].fresh => tipCoins[t].cached

\* The tree of the best anchor is found when a block is undone
\* (BringBestAnchorIntoCache) or connected (ConnectBlock).
BestAnchorFound == open => ViewEntered(BestAnchor)
=============================================================================
