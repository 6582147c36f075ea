-------------------------- MODULE CoinsCache_proofs --------------------------
(* The layers of coins views implement the map of CoinsMap. *)
EXTENDS CoinsCache, TLAPS

\* The inductive invariant, one part for each kind of entry.

CoinsInv ==
    /\ viewCoins \in [Txids -> CoinsEntry] /\ tipCoins \in [Txids -> CoinsEntry]
    /\ dbCoins \in [Txids -> Coins]
    /\ \A t \in Txids :
         /\ ~tipCoins[t].cached => tipCoins[t] = NoCoins
         /\ ~viewCoins[t].cached => viewCoins[t] = NoCoins
         /\ tipCoins[t].cached /\ ~tipCoins[t].dirty => tipCoins[t].coins = dbCoins[t]
         /\ tipCoins[t].fresh => dbCoins[t] = Pruned
         /\ viewCoins[t].cached /\ ~viewCoins[t].dirty => viewCoins[t].coins = TipSees(t)
         /\ viewCoins[t].fresh => TipSees(t) = Pruned
         /\ viewCoins[t].cached /\ ~viewCoins[t].fresh => tipCoins[t].cached

NullifiersInv ==
    /\ viewNullifiers \in [Nullifiers -> MarkEntry]
    /\ tipNullifiers \in [Nullifiers -> MarkEntry]
    /\ dbNullifiers \in SUBSET Nullifiers
    /\ \A n \in Nullifiers :
         /\ ~tipNullifiers[n].cached => tipNullifiers[n] = NoMark
         /\ ~viewNullifiers[n].cached => viewNullifiers[n] = NoMark
         /\ tipNullifiers[n].cached /\ ~tipNullifiers[n].dirty =>
              (tipNullifiers[n].entered <=> n \in dbNullifiers)
         /\ viewNullifiers[n].cached /\ ~viewNullifiers[n].dirty =>
              (viewNullifiers[n].entered <=> TipSpent(n))

AnchorsInv ==
    /\ viewAnchors \in [Roots -> MarkEntry]
    /\ tipAnchors \in [Roots -> MarkEntry]
    /\ dbAnchors \in SUBSET Roots
    /\ viewAnchors[EmptyRoot].cached => viewAnchors[EmptyRoot].entered
    /\ tipAnchors[EmptyRoot].cached => tipAnchors[EmptyRoot].entered
    /\ \A r \in Roots :
         /\ ~tipAnchors[r].cached => tipAnchors[r] = NoMark
         /\ ~viewAnchors[r].cached => viewAnchors[r] = NoMark
         /\ tipAnchors[r].cached /\ ~tipAnchors[r].dirty =>
              (tipAnchors[r].entered <=> (r = EmptyRoot \/ r \in dbAnchors))
         /\ viewAnchors[r].cached /\ ~viewAnchors[r].dirty =>
              (viewAnchors[r].entered <=> TipEntered(r))

HashInv ==
    /\ viewBlock \in Blocks \cup {NullBlock} /\ tipBlock \in Blocks \cup {NullBlock}
    /\ dbBlock \in Blocks \cup {NullBlock}
    /\ viewAnchor \in Roots \cup {NullRoot} /\ tipAnchor \in Roots \cup {NullRoot}
    /\ dbAnchor \in Roots
    /\ open \in BOOLEAN
    /\ open => viewBlock # NullBlock /\ viewAnchor # NullRoot
    /\ tipBlock = NullBlock => tipAnchor = NullRoot

ViewInv ==
    ~open => /\ viewCoins = NoCoinsAtAll /\ viewNullifiers = NoNullifiers
             /\ viewAnchors = NoAnchors
             /\ viewBlock = NullBlock /\ viewAnchor = NullRoot

IInv == CoinsInv /\ NullifiersInv /\ AnchorsInv /\ HashInv /\ ViewInv

-----------------------------------------------------------------------------
(* What one entry becomes. *)

\* A flush of the view's entry c into pcoinsTip's entry p, above a database that
\* holds d: pcoinsTip then shows what the view showed, with honest flags.
LEMMA CoinsWrittenShows ==
    ASSUME NEW c \in CoinsEntry, NEW p \in CoinsEntry, NEW d \in Coins,
           ~c.cached => c = NoCoins, ~p.cached => p = NoCoins,
           p.cached /\ ~p.dirty => p.coins = d,
           p.fresh => d = Pruned,
           c.cached /\ ~c.dirty => c.coins = (IF p.cached THEN p.coins ELSE d),
           c.fresh => (IF p.cached THEN p.coins ELSE d) = Pruned,
           c.cached /\ ~c.fresh => p.cached,
           NEW w, w = CoinsWritten(c, p)
    PROVE  /\ w \in CoinsEntry
           /\ (IF w.cached THEN w.coins ELSE d) =
                (IF c.cached THEN c.coins ELSE IF p.cached THEN p.coins ELSE d)
           /\ ~w.cached => w = NoCoins
           /\ w.cached /\ ~w.dirty => w.coins = d
           /\ w.fresh => d = Pruned
<1> NoCoins \in CoinsEntry /\ ~NoCoins.cached /\ ~NoCoins.dirty /\ ~NoCoins.fresh
  BY DEF NoCoins, CoinsEntry, Coins, Pruned
<1>1. CASE ~c.dirty
  <2>1. w = p
    BY <1>1 DEF CoinsWritten
  <2> QED
    BY <1>1, <2>1
<1>2. CASE c.dirty /\ ~p.cached /\ c.coins = Pruned
  <2>1. w = p
    BY <1>2 DEF CoinsWritten
  <2> QED
    BY <1>2, <2>1
<1>3. CASE c.dirty /\ ~p.cached /\ c.coins # Pruned
  <2>1. w = [cached |-> TRUE, coins |-> c.coins, dirty |-> TRUE, fresh |-> TRUE]
    BY <1>3 DEF CoinsWritten
  <2>2. c.cached /\ c.fresh
    BY <1>3
  <2>3. d = Pruned
    BY <1>3, <2>2
  <2>4. w \in CoinsEntry /\ w.cached /\ w.dirty /\ w.coins = c.coins
    BY <2>1 DEF CoinsEntry
  <2> QED
    BY <2>2, <2>3, <2>4
<1>4. CASE c.dirty /\ p.cached /\ p.fresh /\ c.coins = Pruned
  <2>1. w = NoCoins
    BY <1>4 DEF CoinsWritten
  <2>2. c.cached
    BY <1>4
  <2> QED
    BY <1>4, <2>1, <2>2
<1>5. CASE c.dirty /\ p.cached /\ ~(p.fresh /\ c.coins = Pruned)
  <2>1. w = [p EXCEPT !.coins = c.coins, !.dirty = TRUE]
    BY <1>5 DEF CoinsWritten
  <2>2. w \in CoinsEntry /\ w.cached /\ w.dirty /\ w.coins = c.coins /\ w.fresh = p.fresh
    BY <1>5, <2>1 DEF CoinsEntry
  <2>3. c.cached
    BY <1>5
  <2> QED
    BY <2>2, <2>3
<1> QED
  BY <1>1, <1>2, <1>3, <1>4, <1>5 DEF CoinsEntry

LEMMA MarkWrittenShows ==
    ASSUME NEW c \in MarkEntry, NEW p \in MarkEntry, NEW d \in BOOLEAN,
           ~c.cached => c = NoMark, ~p.cached => p = NoMark,
           p.cached /\ ~p.dirty => (p.entered <=> d),
           c.cached /\ ~c.dirty => (c.entered <=> (IF p.cached THEN p.entered ELSE d)),
           NEW w, w = MarkWritten(c, p)
    PROVE  /\ w \in MarkEntry
           /\ (IF w.cached THEN w.entered ELSE d) <=>
                (IF c.cached THEN c.entered ELSE IF p.cached THEN p.entered ELSE d)
           /\ ~w.cached => w = NoMark
           /\ w.cached /\ ~w.dirty => (w.entered <=> d)
           /\ w.cached => w.entered = (IF c.dirty THEN c.entered ELSE p.entered)
<1> NoMark \in MarkEntry /\ ~NoMark.cached /\ ~NoMark.dirty
  BY DEF NoMark, MarkEntry
<1>1. CASE ~c.dirty
  <2>1. w = p
    BY <1>1 DEF MarkWritten
  <2> QED
    BY <1>1, <2>1 DEF MarkEntry
<1>2. CASE c.dirty /\ ~p.cached
  <2>1. w = [cached |-> TRUE, entered |-> c.entered, dirty |-> TRUE]
    BY <1>2 DEF MarkWritten
  <2>2. w \in MarkEntry /\ w.cached /\ w.dirty /\ w.entered = c.entered
    BY <2>1 DEF MarkEntry
  <2>3. c.cached
    BY <1>2
  <2> QED
    BY <1>2, <2>2, <2>3 DEF MarkEntry
<1>3. CASE c.dirty /\ p.cached /\ p.entered # c.entered
  <2>1. w = [p EXCEPT !.entered = c.entered, !.dirty = TRUE]
    BY <1>3 DEF MarkWritten
  <2>2. w \in MarkEntry /\ w.cached /\ w.dirty /\ w.entered = c.entered
    BY <1>3, <2>1 DEF MarkEntry
  <2>3. c.cached
    BY <1>3
  <2> QED
    BY <1>3, <2>2, <2>3 DEF MarkEntry
<1>4. CASE c.dirty /\ p.cached /\ p.entered = c.entered
  <2>1. w = p
    BY <1>4 DEF MarkWritten
  <2>2. c.cached
    BY <1>4
  <2> QED
    BY <1>4, <2>1, <2>2 DEF MarkEntry
<1> QED
  BY <1>1, <1>2, <1>3, <1>4 DEF MarkEntry

-----------------------------------------------------------------------------
(* The coins: what each kind of step does to the invariant and to what the *)
(* layers show.                                                            *)

ShowsSameCoins == \A u \in Txids : TipSees(u)' = TipSees(u) /\ ViewSees(u)' = ViewSees(u)

LEMMA NoCoinsType == NoCoins \in CoinsEntry /\ ~NoCoins.cached /\ ~NoCoins.dirty /\ ~NoCoins.fresh
BY DEF NoCoins, CoinsEntry, Coins, Pruned

LEMMA CoinsKept ==
    ASSUME CoinsInv, UNCHANGED <<viewCoins, tipCoins, dbCoins>>
    PROVE  CoinsInv' /\ ShowsSameCoins
BY DEF CoinsInv, ShowsSameCoins, TipSees, ViewSees

\* pcoinsTip's entry after a read shows what was shown before.
LEMMA TipFetchShows ==
    ASSUME CoinsInv, NEW t \in Txids, NEW f, f = TipFetchCoins(t)
    PROVE  /\ f \in CoinsEntry
           /\ ~f.cached => f = NoCoins
           /\ f.cached /\ ~f.dirty => f.coins = dbCoins[t]
           /\ f.fresh => dbCoins[t] = Pruned
           /\ (IF f.cached THEN f.coins ELSE dbCoins[t]) = TipSees(t)
           /\ f.coins = TipSees(t)
           /\ tipCoins[t].cached => f.cached
<1>0. /\ tipCoins[t] \in CoinsEntry /\ dbCoins[t] \in Coins
      /\ ~tipCoins[t].cached => tipCoins[t] = NoCoins
  BY DEF CoinsInv
<1>1. CASE tipCoins[t].cached \/ dbCoins[t] = Pruned
  <2>1. f = tipCoins[t]
    BY <1>1 DEF TipFetchCoins
  <2>2. NoCoins.coins = Pruned
    BY DEF NoCoins
  <2> QED
    BY <1>0, <1>1, <2>1, <2>2 DEF CoinsInv, TipSees
<1>2. CASE ~(tipCoins[t].cached \/ dbCoins[t] = Pruned)
  <2>1. f = [cached |-> TRUE, coins |-> dbCoins[t], dirty |-> FALSE, fresh |-> FALSE]
    BY <1>2 DEF TipFetchCoins
  <2>2. f \in CoinsEntry /\ f.cached /\ ~f.fresh /\ f.coins = dbCoins[t]
    BY <1>0, <2>1 DEF CoinsEntry
  <2> QED
    BY <1>0, <1>2, <2>2 DEF TipSees
<1> QED
  BY <1>1, <1>2

\* An entry filled from the layer below is fresh just when there is nothing there.
LEMMA FilledEntry ==
    ASSUME NEW x \in Coins, NEW d \in BOOLEAN, NEW g,
           g = [cached |-> TRUE, coins |-> x, dirty |-> d, fresh |-> x = Pruned]
    PROVE  g \in CoinsEntry /\ g.cached /\ g.coins = x /\ g.dirty = d /\ (g.fresh <=> x = Pruned)
<1>1. CASE x = Pruned
  <2>1. (x = Pruned) = TRUE
    BY <1>1
  <2>2. g = [cached |-> TRUE, coins |-> x, dirty |-> d, fresh |-> TRUE]
    BY <2>1
  <2> QED
    BY <1>1, <2>2 DEF CoinsEntry
<1>2. CASE x # Pruned
  <2>1. (x = Pruned) = FALSE
    BY <1>2
  <2>2. g = [cached |-> TRUE, coins |-> x, dirty |-> d, fresh |-> FALSE]
    BY <2>1
  <2> QED
    BY <1>2, <2>2 DEF CoinsEntry
<1> QED
  BY <1>1, <1>2

LEMMA CoinsReadTip ==
    ASSUME CoinsInv, NEW t \in Txids, UNCHANGED <<viewCoins, dbCoins>>,
           tipCoins' = [tipCoins EXCEPT ![t] = TipFetchCoins(t)]
    PROVE  CoinsInv' /\ ShowsSameCoins
<1> DEFINE f == TipFetchCoins(t)
<1>1. /\ f \in CoinsEntry
      /\ ~f.cached => f = NoCoins
      /\ f.cached /\ ~f.dirty => f.coins = dbCoins[t]
      /\ f.fresh => dbCoins[t] = Pruned
      /\ (IF f.cached THEN f.coins ELSE dbCoins[t]) = TipSees(t)
      /\ tipCoins[t].cached => f.cached
  BY TipFetchShows
<1> HIDE DEF f
<1>2. tipCoins' = [tipCoins EXCEPT ![t] = f]
  BY DEF f
<1>3. tipCoins' \in [Txids -> CoinsEntry]
  BY <1>1, <1>2 DEF CoinsInv
<1>4. \A u \in Txids : TipSees(u)' = TipSees(u)
  BY <1>1, <1>2 DEF CoinsInv, TipSees
<1>5. ShowsSameCoins
  BY <1>4 DEF ShowsSameCoins, ViewSees
<1>6. \A u \in Txids : tipCoins[u].cached => tipCoins'[u].cached
  BY <1>1, <1>2 DEF CoinsInv
<1>7. \A u \in Txids :
         /\ ~tipCoins'[u].cached => tipCoins'[u] = NoCoins
         /\ tipCoins'[u].cached /\ ~tipCoins'[u].dirty => tipCoins'[u].coins = dbCoins[u]
         /\ tipCoins'[u].fresh => dbCoins[u] = Pruned
  BY <1>1, <1>2 DEF CoinsInv
<1> QED
  BY <1>3, <1>4, <1>5, <1>6, <1>7 DEF CoinsInv

LEMMA CoinsRead ==
    ASSUME CoinsInv, NEW t \in Txids, UNCHANGED dbCoins, ~viewCoins[t].cached,
           tipCoins' = [tipCoins EXCEPT ![t] = TipFetchCoins(t)],
           viewCoins' = [viewCoins EXCEPT ![t] = FetchCoins(t)]
    PROVE  CoinsInv' /\ ShowsSameCoins
<1> DEFINE f == TipFetchCoins(t)
<1> DEFINE g == FetchCoins(t)
<1>1. /\ f \in CoinsEntry
      /\ ~f.cached => f = NoCoins
      /\ f.cached /\ ~f.dirty => f.coins = dbCoins[t]
      /\ f.fresh => dbCoins[t] = Pruned
      /\ (IF f.cached THEN f.coins ELSE dbCoins[t]) = TipSees(t)
      /\ f.coins = TipSees(t)
      /\ tipCoins[t].cached => f.cached
  BY TipFetchShows
<1>2. /\ g \in CoinsEntry
      /\ ~g.cached => g = NoCoins
      /\ g.cached => f.cached /\ g.coins = f.coins
      /\ g.fresh => TipSees(t) = Pruned
  <2>1. CASE f.cached
    <3>1. g = [cached |-> TRUE, coins |-> f.coins, dirty |-> FALSE, fresh |-> f.coins = Pruned]
      BY <2>1 DEF FetchCoins
    <3>2. f.coins \in Coins
      BY <1>1 DEF CoinsEntry
    <3>3. g \in CoinsEntry /\ g.cached /\ g.coins = f.coins /\ (g.fresh <=> f.coins = Pruned)
      BY <3>1, <3>2, FilledEntry
    <3> QED
      BY <1>1, <2>1, <3>3
  <2>2. CASE ~f.cached
    <3>1. g = NoCoins
      BY <2>2 DEF FetchCoins, CoinsInv
    <3> QED
      BY <3>1, NoCoinsType
  <2> QED
    BY <2>1, <2>2
<1> HIDE DEF f, g
<1>3. tipCoins' = [tipCoins EXCEPT ![t] = f] /\ viewCoins' = [viewCoins EXCEPT ![t] = g]
  BY DEF f, g
<1>4. tipCoins' \in [Txids -> CoinsEntry] /\ viewCoins' \in [Txids -> CoinsEntry]
  BY <1>1, <1>2, <1>3 DEF CoinsInv
<1>5. \A u \in Txids : TipSees(u)' = TipSees(u)
  BY <1>1, <1>3 DEF CoinsInv, TipSees
<1>6. \A u \in Txids : ViewSees(u)' = ViewSees(u)
  BY <1>1, <1>2, <1>3, <1>5 DEF CoinsInv, ViewSees
<1>7. \A u \in Txids : tipCoins[u].cached => tipCoins'[u].cached
  BY <1>1, <1>3 DEF CoinsInv
<1>8. \A u \in Txids :
         /\ ~tipCoins'[u].cached => tipCoins'[u] = NoCoins
         /\ tipCoins'[u].cached /\ ~tipCoins'[u].dirty => tipCoins'[u].coins = dbCoins[u]
         /\ tipCoins'[u].fresh => dbCoins[u] = Pruned
  BY <1>1, <1>3 DEF CoinsInv
<1>9. \A u \in Txids :
         /\ ~viewCoins'[u].cached => viewCoins'[u] = NoCoins
         /\ viewCoins'[u].cached /\ ~viewCoins'[u].dirty => viewCoins'[u].coins = TipSees(u)
         /\ viewCoins'[u].fresh => TipSees(u) = Pruned
         /\ viewCoins'[u].cached /\ ~viewCoins'[u].fresh => tipCoins'[u].cached
  <2> SUFFICES ASSUME NEW u \in Txids
               PROVE /\ ~viewCoins'[u].cached => viewCoins'[u] = NoCoins
                     /\ viewCoins'[u].cached /\ ~viewCoins'[u].dirty => viewCoins'[u].coins = TipSees(u)
                     /\ viewCoins'[u].fresh => TipSees(u) = Pruned
                     /\ viewCoins'[u].cached /\ ~viewCoins'[u].fresh => tipCoins'[u].cached
    OBVIOUS
  <2>1. CASE u = t
    <3>1. viewCoins'[t] = g /\ tipCoins'[t] = f
      BY <1>3 DEF CoinsInv
    <3> QED
      BY <2>1, <3>1, <1>1, <1>2
  <2>2. CASE u # t
    <3>1. viewCoins'[u] = viewCoins[u]
      BY <2>2, <1>3 DEF CoinsInv
    <3> QED
      BY <3>1, <1>7 DEF CoinsInv
  <2> QED
    BY <2>1, <2>2
<1> QED
  BY <1>4, <1>5, <1>6, <1>8, <1>9 DEF CoinsInv, ShowsSameCoins

LEMMA CoinsModified ==
    ASSUME CoinsInv, NEW t \in Txids, NEW v \in Coins, ModifyCoins(t, v)
    PROVE  /\ CoinsInv'
           /\ \A u \in Txids : /\ TipSees(u)' = TipSees(u)
                               /\ ViewSees(u)' = IF u = t THEN v ELSE ViewSees(u)
<1> DEFINE f == IF viewCoins[t].cached THEN tipCoins[t] ELSE TipFetchCoins(t)
<1> DEFINE entry == IF viewCoins[t].cached
                    THEN [viewCoins[t] EXCEPT !.dirty = TRUE]
                    ELSE [cached |-> TRUE, coins |-> TipFetchCoins(t).coins, dirty |-> TRUE,
                          fresh |-> TipFetchCoins(t).coins = Pruned]
<1> DEFINE g == IF entry.fresh /\ v = Pruned THEN NoCoins ELSE [entry EXCEPT !.coins = v]
<1>0. viewCoins[t] \in CoinsEntry /\ tipCoins[t] \in CoinsEntry
  BY DEF CoinsInv
<1>1. /\ f \in CoinsEntry
      /\ ~f.cached => f = NoCoins
      /\ f.cached /\ ~f.dirty => f.coins = dbCoins[t]
      /\ f.fresh => dbCoins[t] = Pruned
      /\ (IF f.cached THEN f.coins ELSE dbCoins[t]) = TipSees(t)
      /\ tipCoins[t].cached => f.cached
      /\ ~viewCoins[t].cached => f.coins = TipSees(t)
  <2>1. CASE viewCoins[t].cached
    BY <2>1 DEF CoinsInv, TipSees
  <2>2. CASE ~viewCoins[t].cached
    BY <2>2, TipFetchShows
  <2> QED
    BY <2>1, <2>2
<1>2. /\ entry \in CoinsEntry /\ entry.cached /\ entry.dirty
      /\ entry.fresh => TipSees(t) = Pruned
      /\ ~entry.fresh => f.cached
  <2>1. CASE viewCoins[t].cached
    <3>1. entry = [viewCoins[t] EXCEPT !.dirty = TRUE]
      BY <2>1
    <3>2. entry \in CoinsEntry /\ entry.cached /\ entry.dirty /\ entry.fresh = viewCoins[t].fresh
      BY <1>0, <2>1, <3>1 DEF CoinsEntry
    <3> HIDE DEF entry
    <3> QED
      BY <2>1, <3>2 DEF CoinsInv
  <2>2. CASE ~viewCoins[t].cached
    <3>1. entry = [cached |-> TRUE, coins |-> f.coins, dirty |-> TRUE, fresh |-> f.coins = Pruned]
      BY <2>2
    <3>2. f.coins \in Coins
      BY <1>1 DEF CoinsEntry
    <3> HIDE DEF f, entry
    <3>3. entry \in CoinsEntry /\ entry.cached /\ entry.dirty = TRUE /\ (entry.fresh <=> f.coins = Pruned)
      BY <3>1, <3>2, FilledEntry
    <3>4. ~f.cached => f.coins = Pruned
      BY <1>1 DEF NoCoins
    <3> QED
      BY <1>1, <2>2, <3>3, <3>4
  <2> QED
    BY <2>1, <2>2
<1>3. /\ tipCoins' = [tipCoins EXCEPT ![t] = f]
      /\ viewCoins' = [viewCoins EXCEPT ![t] = g]
      /\ dbCoins' = dbCoins
  BY DEF ModifyCoins, dbVars, CoinsInv
<1> HIDE DEF f, entry
<1>4. /\ g \in CoinsEntry
      /\ ~g.cached => g = NoCoins /\ v = Pruned /\ TipSees(t) = Pruned
      /\ g.cached => g.dirty /\ g.coins = v
      /\ g.fresh => TipSees(t) = Pruned
      /\ g.cached /\ ~g.fresh => f.cached
  <2>1. CASE entry.fresh /\ v = Pruned
    <3>1. g = NoCoins
      BY <2>1
    <3> QED
      BY <2>1, <3>1, <1>2, NoCoinsType
  <2>2. CASE ~(entry.fresh /\ v = Pruned)
    <3>1. g = [entry EXCEPT !.coins = v]
      BY <2>2
    <3>2. g \in CoinsEntry /\ g.cached /\ g.dirty /\ g.coins = v /\ g.fresh = entry.fresh
      BY <1>2, <3>1 DEF CoinsEntry
    <3> HIDE DEF g
    <3> QED
      BY <1>2, <3>2
  <2> QED
    BY <2>1, <2>2
<1> HIDE DEF g
<1>5. tipCoins' \in [Txids -> CoinsEntry] /\ viewCoins' \in [Txids -> CoinsEntry]
  BY <1>1, <1>3, <1>4 DEF CoinsInv
<1>6. \A u \in Txids : TipSees(u)' = TipSees(u)
  BY <1>1, <1>3 DEF CoinsInv, TipSees
<1>7. \A u \in Txids : ViewSees(u)' = IF u = t THEN v ELSE ViewSees(u)
  BY <1>3, <1>4, <1>6 DEF CoinsInv, ViewSees
<1>8. \A u \in Txids : tipCoins[u].cached => tipCoins'[u].cached
  BY <1>1, <1>3 DEF CoinsInv
<1>9. \A u \in Txids :
         /\ ~tipCoins'[u].cached => tipCoins'[u] = NoCoins
         /\ tipCoins'[u].cached /\ ~tipCoins'[u].dirty => tipCoins'[u].coins = dbCoins[u]
         /\ tipCoins'[u].fresh => dbCoins[u] = Pruned
  BY <1>1, <1>3 DEF CoinsInv
<1>10. ASSUME NEW u \in Txids
       PROVE /\ ~viewCoins'[u].cached => viewCoins'[u] = NoCoins
             /\ viewCoins'[u].cached /\ ~viewCoins'[u].dirty => viewCoins'[u].coins = TipSees(u)
             /\ viewCoins'[u].fresh => TipSees(u) = Pruned
             /\ viewCoins'[u].cached /\ ~viewCoins'[u].fresh => tipCoins'[u].cached
  <2>1. CASE u = t
    <3>1. viewCoins'[t] = g /\ tipCoins'[t] = f
      BY <1>3 DEF CoinsInv
    <3> QED
      BY <2>1, <3>1, <1>1, <1>4
  <2>2. CASE u # t
    <3>1. viewCoins'[u] = viewCoins[u]
      BY <2>2, <1>3 DEF CoinsInv
    <3> QED
      BY <3>1, <1>8 DEF CoinsInv
  <2> QED
    BY <2>1, <2>2
<1> QED
  BY <1>3, <1>5, <1>6, <1>7, <1>9, <1>10 DEF CoinsInv

LEMMA CoinsFlushed ==
    ASSUME CoinsInv, UNCHANGED dbCoins, viewCoins' = NoCoinsAtAll,
           tipCoins' = [t \in Txids |-> CoinsWritten(viewCoins[t], tipCoins[t])]
    PROVE  /\ CoinsInv'
           /\ \A u \in Txids : TipSees(u)' = ViewSees(u) /\ ViewSees(u)' = ViewSees(u)
<1>1. ASSUME NEW u \in Txids
      PROVE /\ tipCoins'[u] \in CoinsEntry
            /\ (IF tipCoins'[u].cached THEN tipCoins'[u].coins ELSE dbCoins[u]) = ViewSees(u)
            /\ ~tipCoins'[u].cached => tipCoins'[u] = NoCoins
            /\ tipCoins'[u].cached /\ ~tipCoins'[u].dirty => tipCoins'[u].coins = dbCoins[u]
            /\ tipCoins'[u].fresh => dbCoins[u] = Pruned
  <2> DEFINE c == viewCoins[u]
  <2> DEFINE p == tipCoins[u]
  <2> DEFINE d == dbCoins[u]
  <2> DEFINE w == tipCoins'[u]
  <2>1. w = CoinsWritten(c, p)
    OBVIOUS
  <2>2. /\ c \in CoinsEntry /\ p \in CoinsEntry /\ d \in Coins
        /\ ~c.cached => c = NoCoins
        /\ ~p.cached => p = NoCoins
        /\ p.cached /\ ~p.dirty => p.coins = d
        /\ p.fresh => d = Pruned
        /\ c.cached /\ ~c.dirty => c.coins = (IF p.cached THEN p.coins ELSE d)
        /\ c.fresh => (IF p.cached THEN p.coins ELSE d) = Pruned
        /\ c.cached /\ ~c.fresh => p.cached
    BY DEF CoinsInv, TipSees
  <2>3. ViewSees(u) = (IF c.cached THEN c.coins ELSE IF p.cached THEN p.coins ELSE d)
    BY DEF ViewSees, TipSees
  <2> HIDE DEF c, p, d, w
  <2>4. /\ w \in CoinsEntry
        /\ (IF w.cached THEN w.coins ELSE d) = ViewSees(u)
        /\ ~w.cached => w = NoCoins
        /\ w.cached /\ ~w.dirty => w.coins = d
        /\ w.fresh => d = Pruned
    BY <2>1, <2>2, <2>3, CoinsWrittenShows
  <2> QED
    BY <2>4 DEF w, d
<1>2. tipCoins' \in [Txids -> CoinsEntry]
  BY <1>1
<1>3. viewCoins' \in [Txids -> CoinsEntry] /\ \A u \in Txids : viewCoins'[u] = NoCoins
  BY NoCoinsType DEF NoCoinsAtAll
<1>4. \A u \in Txids : TipSees(u)' = ViewSees(u)
  BY <1>1 DEF TipSees
<1>5. \A u \in Txids : ViewSees(u)' = TipSees(u)'
  BY <1>3, NoCoinsType DEF ViewSees
<1> QED
  BY <1>1, <1>2, <1>3, <1>4, <1>5, NoCoinsType DEF CoinsInv

LEMMA CoinsStored ==
    ASSUME CoinsInv, viewCoins = NoCoinsAtAll, UNCHANGED viewCoins, tipCoins' = NoCoinsAtAll,
           dbCoins' = [t \in Txids |-> IF tipCoins[t].dirty THEN tipCoins[t].coins ELSE dbCoins[t]]
    PROVE  CoinsInv' /\ ShowsSameCoins /\ dbCoins' = [t \in Txids |-> TipSees(t)]
<1>1. \A u \in Txids : viewCoins[u] = NoCoins /\ tipCoins'[u] = NoCoins /\ viewCoins'[u] = NoCoins
  BY DEF NoCoinsAtAll
<1>2. tipCoins' \in [Txids -> CoinsEntry]
  BY NoCoinsType DEF NoCoinsAtAll
<1>3. ASSUME NEW u \in Txids PROVE dbCoins'[u] = TipSees(u) /\ dbCoins'[u] \in Coins
  <2>1. tipCoins[u] \in CoinsEntry /\ dbCoins[u] \in Coins /\ tipCoins[u].coins \in Coins
    BY DEF CoinsInv, CoinsEntry
  <2>2. tipCoins[u].dirty => tipCoins[u].cached
    BY NoCoinsType DEF CoinsInv
  <2> QED
    BY <2>1, <2>2 DEF CoinsInv, TipSees
<1>4. \A u \in Txids : TipSees(u)' = TipSees(u)
  BY <1>1, <1>3, NoCoinsType DEF TipSees
<1>5. \A u \in Txids : ViewSees(u)' = ViewSees(u)
  BY <1>1, <1>4, NoCoinsType DEF ViewSees
<1> QED
  BY <1>1, <1>2, <1>3, <1>4, <1>5, NoCoinsType DEF CoinsInv, ShowsSameCoins

LEMMA CoinsDropped ==
    ASSUME CoinsInv, UNCHANGED dbCoins, viewCoins' = NoCoinsAtAll,
           tipCoins' = tipCoins \/ tipCoins' = NoCoinsAtAll
    PROVE  /\ CoinsInv'
           /\ \A u \in Txids : ViewSees(u)' = TipSees(u)'
           /\ tipCoins' = tipCoins => \A u \in Txids : TipSees(u)' = TipSees(u)
           /\ tipCoins' = NoCoinsAtAll => \A u \in Txids : TipSees(u)' = dbCoins[u]
<1>1. viewCoins' \in [Txids -> CoinsEntry] /\ \A u \in Txids : viewCoins'[u] = NoCoins
  BY NoCoinsType DEF NoCoinsAtAll
<1>2. \A u \in Txids : ViewSees(u)' = TipSees(u)'
  BY <1>1, NoCoinsType DEF ViewSees
<1>3. tipCoins' = tipCoins => \A u \in Txids : TipSees(u)' = TipSees(u)
  BY DEF TipSees
<1>4. tipCoins' = NoCoinsAtAll => \A u \in Txids : TipSees(u)' = dbCoins[u]
  BY NoCoinsType DEF TipSees, NoCoinsAtAll
<1>5. tipCoins' \in [Txids -> CoinsEntry]
  BY NoCoinsType DEF NoCoinsAtAll, CoinsInv
<1>6. \A u \in Txids :
         /\ ~tipCoins'[u].cached => tipCoins'[u] = NoCoins
         /\ tipCoins'[u].cached /\ ~tipCoins'[u].dirty => tipCoins'[u].coins = dbCoins[u]
         /\ tipCoins'[u].fresh => dbCoins[u] = Pruned
  BY NoCoinsType DEF CoinsInv, NoCoinsAtAll
<1> QED
  BY <1>1, <1>2, <1>3, <1>4, <1>5, <1>6, NoCoinsType DEF CoinsInv

-----------------------------------------------------------------------------
(* The nullifiers. *)

ShowsSameNullifiers ==
    \A m \in Nullifiers : (TipSpent(m)' <=> TipSpent(m)) /\ (ViewSpent(m)' <=> ViewSpent(m))

LEMMA NoMarkType == NoMark \in MarkEntry /\ ~NoMark.cached /\ ~NoMark.dirty
BY DEF NoMark, MarkEntry

LEMMA MarkType ==
    ASSUME NEW a \in BOOLEAN, NEW b \in BOOLEAN, NEW g,
           g = [cached |-> TRUE, entered |-> a, dirty |-> b]
    PROVE  g \in MarkEntry /\ g.cached /\ (g.entered <=> a) /\ (g.dirty <=> b)
BY DEF MarkEntry

LEMMA NullifiersKept ==
    ASSUME NullifiersInv, UNCHANGED <<viewNullifiers, tipNullifiers, dbNullifiers>>
    PROVE  NullifiersInv' /\ ShowsSameNullifiers
BY DEF NullifiersInv, ShowsSameNullifiers, TipSpent, ViewSpent

LEMMA TipFetchNullifierShows ==
    ASSUME NullifiersInv, NEW n \in Nullifiers, NEW f, f = TipFetchNullifier(n)
    PROVE  /\ f \in MarkEntry /\ f.cached
           /\ ~f.dirty => (f.entered <=> n \in dbNullifiers)
           /\ f.entered <=> TipSpent(n)
<1>1. CASE tipNullifiers[n].cached
  <2>1. f = tipNullifiers[n]
    BY <1>1 DEF TipFetchNullifier
  <2> QED
    BY <1>1, <2>1 DEF NullifiersInv, TipSpent
<1>2. CASE ~tipNullifiers[n].cached
  <2>1. f = [cached |-> TRUE, entered |-> n \in dbNullifiers, dirty |-> FALSE]
    BY <1>2 DEF TipFetchNullifier
  <2>2. (n \in dbNullifiers) \in BOOLEAN
    OBVIOUS
  <2>3. f \in MarkEntry /\ f.cached /\ (f.entered <=> n \in dbNullifiers)
    BY <2>1, <2>2, MarkType
  <2> QED
    BY <1>2, <2>3 DEF TipSpent
<1> QED
  BY <1>1, <1>2

LEMMA NullifiersReadTip ==
    ASSUME NullifiersInv, NEW n \in Nullifiers, UNCHANGED <<viewNullifiers, dbNullifiers>>,
           tipNullifiers' = [tipNullifiers EXCEPT ![n] = TipFetchNullifier(n)]
    PROVE  NullifiersInv' /\ ShowsSameNullifiers
<1> DEFINE f == TipFetchNullifier(n)
<1>1. /\ f \in MarkEntry /\ f.cached
      /\ ~f.dirty => (f.entered <=> n \in dbNullifiers)
      /\ f.entered <=> TipSpent(n)
  BY TipFetchNullifierShows
<1>2. tipNullifiers' = [tipNullifiers EXCEPT ![n] = f]
  OBVIOUS
<1> HIDE DEF f
<1>3. tipNullifiers' \in [Nullifiers -> MarkEntry]
  BY <1>1, <1>2 DEF NullifiersInv
<1>4. \A m \in Nullifiers : TipSpent(m)' <=> TipSpent(m)
  BY <1>1, <1>2 DEF NullifiersInv, TipSpent
<1>5. \A m \in Nullifiers : ViewSpent(m)' <=> ViewSpent(m)
  BY <1>4 DEF ViewSpent
<1>6. \A m \in Nullifiers :
         /\ ~tipNullifiers'[m].cached => tipNullifiers'[m] = NoMark
         /\ tipNullifiers'[m].cached /\ ~tipNullifiers'[m].dirty =>
              (tipNullifiers'[m].entered <=> m \in dbNullifiers)
  BY <1>1, <1>2 DEF NullifiersInv
<1> QED
  BY <1>3, <1>4, <1>5, <1>6 DEF NullifiersInv, ShowsSameNullifiers

LEMMA NullifiersRead ==
    ASSUME NullifiersInv, NEW n \in Nullifiers, UNCHANGED dbNullifiers,
           ~viewNullifiers[n].cached,
           tipNullifiers' = [tipNullifiers EXCEPT ![n] = TipFetchNullifier(n)],
           viewNullifiers' =
             [viewNullifiers EXCEPT ![n] = [cached |-> TRUE, dirty |-> FALSE,
                                            entered |-> TipFetchNullifier(n).entered]]
    PROVE  NullifiersInv' /\ ShowsSameNullifiers
<1> DEFINE f == TipFetchNullifier(n)
<1> DEFINE g == [cached |-> TRUE, dirty |-> FALSE, entered |-> f.entered]
<1>1. /\ f \in MarkEntry /\ f.cached
      /\ ~f.dirty => (f.entered <=> n \in dbNullifiers)
      /\ f.entered <=> TipSpent(n)
  BY TipFetchNullifierShows
<1>2. /\ tipNullifiers' = [tipNullifiers EXCEPT ![n] = f]
      /\ viewNullifiers' = [viewNullifiers EXCEPT ![n] = g]
  OBVIOUS
<1> HIDE DEF f
<1>3. g \in MarkEntry /\ g.cached /\ (g.entered <=> f.entered)
  BY <1>1 DEF MarkEntry
<1> HIDE DEF g
<1>4. /\ tipNullifiers' \in [Nullifiers -> MarkEntry]
      /\ viewNullifiers' \in [Nullifiers -> MarkEntry]
  BY <1>1, <1>2, <1>3 DEF NullifiersInv
<1>5. \A m \in Nullifiers : TipSpent(m)' <=> TipSpent(m)
  BY <1>1, <1>2 DEF NullifiersInv, TipSpent
<1>6. \A m \in Nullifiers : ViewSpent(m)' <=> ViewSpent(m)
  BY <1>1, <1>2, <1>3, <1>5 DEF NullifiersInv, ViewSpent
<1>7. \A m \in Nullifiers :
         /\ ~tipNullifiers'[m].cached => tipNullifiers'[m] = NoMark
         /\ tipNullifiers'[m].cached /\ ~tipNullifiers'[m].dirty =>
              (tipNullifiers'[m].entered <=> m \in dbNullifiers)
  BY <1>1, <1>2 DEF NullifiersInv
<1>8. \A m \in Nullifiers :
         /\ ~viewNullifiers'[m].cached => viewNullifiers'[m] = NoMark
         /\ viewNullifiers'[m].cached /\ ~viewNullifiers'[m].dirty =>
              (viewNullifiers'[m].entered <=> TipSpent(m))
  BY <1>1, <1>2, <1>3 DEF NullifiersInv
<1> QED
  BY <1>4, <1>5, <1>6, <1>7, <1>8 DEF NullifiersInv, ShowsSameNullifiers

LEMMA NullifiersSet ==
    ASSUME NullifiersInv, NEW ns \in SUBSET Nullifiers, NEW spent \in BOOLEAN,
           UNCHANGED <<tipNullifiers, dbNullifiers>>,
           viewNullifiers' =
             [n \in Nullifiers |-> IF n \in ns
                                   THEN [cached |-> TRUE, entered |-> spent, dirty |-> TRUE]
                                   ELSE viewNullifiers[n]]
    PROVE  /\ NullifiersInv'
           /\ \A m \in Nullifiers : /\ TipSpent(m)' <=> TipSpent(m)
                                    /\ ViewSpent(m)' <=> IF m \in ns THEN spent ELSE ViewSpent(m)
<1> DEFINE g == [cached |-> TRUE, entered |-> spent, dirty |-> TRUE]
<1>1. g \in MarkEntry /\ g.cached /\ (g.entered <=> spent) /\ g.dirty
  BY MarkType
<1>2. viewNullifiers' = [n \in Nullifiers |-> IF n \in ns THEN g ELSE viewNullifiers[n]]
  OBVIOUS
<1> HIDE DEF g
<1>3. viewNullifiers' \in [Nullifiers -> MarkEntry]
  BY <1>1, <1>2 DEF NullifiersInv
<1>4. \A m \in Nullifiers : TipSpent(m)' <=> TipSpent(m)
  BY DEF TipSpent
<1>5. \A m \in Nullifiers : ViewSpent(m)' <=> IF m \in ns THEN spent ELSE ViewSpent(m)
  BY <1>1, <1>2, <1>4 DEF ViewSpent
<1>6. \A m \in Nullifiers :
         /\ ~viewNullifiers'[m].cached => viewNullifiers'[m] = NoMark
         /\ viewNullifiers'[m].cached /\ ~viewNullifiers'[m].dirty =>
              (viewNullifiers'[m].entered <=> TipSpent(m))
  BY <1>1, <1>2 DEF NullifiersInv
<1> QED
  BY <1>3, <1>4, <1>5, <1>6 DEF NullifiersInv

LEMMA NullifiersFlushed ==
    ASSUME NullifiersInv, UNCHANGED dbNullifiers, viewNullifiers' = NoNullifiers,
           tipNullifiers' =
             [n \in Nullifiers |-> MarkWritten(viewNullifiers[n], tipNullifiers[n])]
    PROVE  /\ NullifiersInv'
           /\ \A m \in Nullifiers : /\ TipSpent(m)' <=> ViewSpent(m)
                                    /\ ViewSpent(m)' <=> ViewSpent(m)
<1>1. ASSUME NEW m \in Nullifiers
      PROVE /\ tipNullifiers'[m] \in MarkEntry
            /\ (IF tipNullifiers'[m].cached THEN tipNullifiers'[m].entered
                ELSE m \in dbNullifiers) <=> ViewSpent(m)
            /\ ~tipNullifiers'[m].cached => tipNullifiers'[m] = NoMark
            /\ tipNullifiers'[m].cached /\ ~tipNullifiers'[m].dirty =>
                 (tipNullifiers'[m].entered <=> m \in dbNullifiers)
  <2> DEFINE c == viewNullifiers[m]
  <2> DEFINE p == tipNullifiers[m]
  <2> DEFINE d == m \in dbNullifiers
  <2> DEFINE w == tipNullifiers'[m]
  <2>1. w = MarkWritten(c, p)
    OBVIOUS
  <2>2. /\ c \in MarkEntry /\ p \in MarkEntry /\ d \in BOOLEAN
        /\ ~c.cached => c = NoMark
        /\ ~p.cached => p = NoMark
        /\ p.cached /\ ~p.dirty => (p.entered <=> d)
        /\ c.cached /\ ~c.dirty => (c.entered <=> (IF p.cached THEN p.entered ELSE d))
    BY DEF NullifiersInv, TipSpent
  <2>3. ViewSpent(m) <=> (IF c.cached THEN c.entered ELSE IF p.cached THEN p.entered ELSE d)
    BY DEF ViewSpent, TipSpent
  <2> HIDE DEF c, p, d, w
  <2>4. /\ w \in MarkEntry
        /\ (IF w.cached THEN w.entered ELSE d) <=> ViewSpent(m)
        /\ ~w.cached => w = NoMark
        /\ w.cached /\ ~w.dirty => (w.entered <=> d)
    BY <2>1, <2>2, <2>3, MarkWrittenShows
  <2> QED
    BY <2>4 DEF w, d
<1>2. tipNullifiers' \in [Nullifiers -> MarkEntry]
  BY <1>1
<1>3. /\ viewNullifiers' \in [Nullifiers -> MarkEntry]
      /\ \A m \in Nullifiers : viewNullifiers'[m] = NoMark
  BY NoMarkType DEF NoNullifiers
<1>4. \A m \in Nullifiers : TipSpent(m)' <=> ViewSpent(m)
  BY <1>1 DEF TipSpent
<1>5. \A m \in Nullifiers : ViewSpent(m)' <=> TipSpent(m)'
  BY <1>3, NoMarkType DEF ViewSpent
<1> QED
  BY <1>1, <1>2, <1>3, <1>4, <1>5, NoMarkType DEF NullifiersInv

LEMMA NullifiersStored ==
    ASSUME NullifiersInv, viewNullifiers = NoNullifiers, UNCHANGED viewNullifiers,
           tipNullifiers' = NoNullifiers,
           dbNullifiers' = {n \in Nullifiers : IF tipNullifiers[n].dirty
                                               THEN tipNullifiers[n].entered
                                               ELSE n \in dbNullifiers}
    PROVE  /\ NullifiersInv' /\ ShowsSameNullifiers
           /\ dbNullifiers' = {n \in Nullifiers : TipSpent(n)}
<1>1. \A m \in Nullifiers : /\ viewNullifiers[m] = NoMark /\ tipNullifiers'[m] = NoMark
                            /\ viewNullifiers'[m] = NoMark
  BY DEF NoNullifiers
<1>2. tipNullifiers' \in [Nullifiers -> MarkEntry]
  BY NoMarkType DEF NoNullifiers
<1>3. ASSUME NEW m \in Nullifiers PROVE m \in dbNullifiers' <=> TipSpent(m)
  <2>1. tipNullifiers[m].dirty => tipNullifiers[m].cached
    BY NoMarkType DEF NullifiersInv
  <2> QED
    BY <2>1 DEF NullifiersInv, TipSpent
<1>4. \A m \in Nullifiers : TipSpent(m)' <=> TipSpent(m)
  BY <1>1, <1>3, NoMarkType DEF TipSpent
<1>5. \A m \in Nullifiers : ViewSpent(m)' <=> ViewSpent(m)
  BY <1>1, <1>4, NoMarkType DEF ViewSpent
<1> QED
  BY <1>1, <1>2, <1>3, <1>4, <1>5, NoMarkType DEF NullifiersInv, ShowsSameNullifiers

LEMMA NullifiersDropped ==
    ASSUME NullifiersInv, UNCHANGED dbNullifiers, viewNullifiers' = NoNullifiers,
           tipNullifiers' = tipNullifiers \/ tipNullifiers' = NoNullifiers
    PROVE  /\ NullifiersInv'
           /\ \A m \in Nullifiers : ViewSpent(m)' <=> TipSpent(m)'
           /\ tipNullifiers' = tipNullifiers => \A m \in Nullifiers : TipSpent(m)' <=> TipSpent(m)
           /\ tipNullifiers' = NoNullifiers =>
                \A m \in Nullifiers : TipSpent(m)' <=> m \in dbNullifiers
<1>1. /\ viewNullifiers' \in [Nullifiers -> MarkEntry]
      /\ \A m \in Nullifiers : viewNullifiers'[m] = NoMark
  BY NoMarkType DEF NoNullifiers
<1>2. \A m \in Nullifiers : ViewSpent(m)' <=> TipSpent(m)'
  BY <1>1, NoMarkType DEF ViewSpent
<1>3. tipNullifiers' = tipNullifiers => \A m \in Nullifiers : TipSpent(m)' <=> TipSpent(m)
  BY DEF TipSpent
<1>4. tipNullifiers' = NoNullifiers =>
        \A m \in Nullifiers : TipSpent(m)' <=> m \in dbNullifiers
  BY NoMarkType DEF TipSpent, NoNullifiers
<1>5. tipNullifiers' \in [Nullifiers -> MarkEntry]
  BY NoMarkType DEF NoNullifiers, NullifiersInv
<1>6. \A m \in Nullifiers :
         /\ ~tipNullifiers'[m].cached => tipNullifiers'[m] = NoMark
         /\ tipNullifiers'[m].cached /\ ~tipNullifiers'[m].dirty =>
              (tipNullifiers'[m].entered <=> m \in dbNullifiers)
  BY NoMarkType DEF NullifiersInv, NoNullifiers
<1> QED
  BY <1>1, <1>2, <1>3, <1>4, <1>5, <1>6, NoMarkType DEF NullifiersInv

-----------------------------------------------------------------------------
(* The anchors. *)

ShowsSameAnchors ==
    \A q \in Roots : (TipEntered(q)' <=> TipEntered(q)) /\ (ViewEntered(q)' <=> ViewEntered(q))

\* what the database says of an anchor
DbEntered(r) == r = EmptyRoot \/ r \in dbAnchors

LEMMA AnchorsKept ==
    ASSUME AnchorsInv, UNCHANGED <<viewAnchors, tipAnchors, dbAnchors>>
    PROVE  AnchorsInv' /\ ShowsSameAnchors
BY DEF AnchorsInv, ShowsSameAnchors, TipEntered, ViewEntered

LEMMA TipFetchAnchorShows ==
    ASSUME AnchorsInv, NEW r \in Roots, NEW f, f = TipFetchAnchor(r)
    PROVE  /\ f \in MarkEntry
           /\ ~f.cached => f = NoMark
           /\ f.cached /\ ~f.dirty => (f.entered <=> DbEntered(r))
           /\ (IF f.cached THEN f.entered ELSE DbEntered(r)) <=> TipEntered(r)
           /\ f.entered <=> TipEntered(r)
           /\ r = EmptyRoot /\ f.cached => f.entered
<1>1. CASE tipAnchors[r].cached \/ ~DbEntered(r)
  <2>1. f = tipAnchors[r]
    BY <1>1 DEF TipFetchAnchor, DbEntered
  <2>2. ~NoMark.entered
    BY DEF NoMark
  <2> QED
    BY <1>1, <2>1, <2>2 DEF AnchorsInv, TipEntered, DbEntered
<1>2. CASE ~tipAnchors[r].cached /\ DbEntered(r)
  <2>1. f = [cached |-> TRUE, entered |-> TRUE, dirty |-> FALSE]
    BY <1>2 DEF TipFetchAnchor, DbEntered
  <2>2. f \in MarkEntry /\ f.cached /\ f.entered
    BY <2>1, MarkType
  <2> QED
    BY <1>2, <2>2 DEF TipEntered, DbEntered
<1> QED
  BY <1>1, <1>2

LEMMA AnchorsReadTip ==
    ASSUME AnchorsInv, NEW r \in Roots, UNCHANGED <<viewAnchors, dbAnchors>>,
           tipAnchors' = [tipAnchors EXCEPT ![r] = TipFetchAnchor(r)]
    PROVE  AnchorsInv' /\ ShowsSameAnchors
<1> DEFINE f == TipFetchAnchor(r)
<1>1. /\ f \in MarkEntry
      /\ ~f.cached => f = NoMark
      /\ f.cached /\ ~f.dirty => (f.entered <=> DbEntered(r))
      /\ (IF f.cached THEN f.entered ELSE DbEntered(r)) <=> TipEntered(r)
      /\ r = EmptyRoot /\ f.cached => f.entered
  BY TipFetchAnchorShows
<1>2. tipAnchors' = [tipAnchors EXCEPT ![r] = f]
  OBVIOUS
<1> HIDE DEF f
<1>3. tipAnchors' \in [Roots -> MarkEntry]
  BY <1>1, <1>2 DEF AnchorsInv
<1>4. \A q \in Roots : TipEntered(q)' <=> TipEntered(q)
  BY <1>1, <1>2 DEF AnchorsInv, TipEntered, DbEntered
<1>5. \A q \in Roots : ViewEntered(q)' <=> ViewEntered(q)
  BY <1>4 DEF ViewEntered
<1>6. \A q \in Roots :
         /\ ~tipAnchors'[q].cached => tipAnchors'[q] = NoMark
         /\ tipAnchors'[q].cached /\ ~tipAnchors'[q].dirty =>
              (tipAnchors'[q].entered <=> (q = EmptyRoot \/ q \in dbAnchors))
  BY <1>1, <1>2 DEF AnchorsInv, DbEntered
<1>7. tipAnchors'[EmptyRoot].cached => tipAnchors'[EmptyRoot].entered
  BY <1>1, <1>2, RootAssumption DEF AnchorsInv
<1> QED
  BY <1>3, <1>4, <1>5, <1>6, <1>7 DEF AnchorsInv, ShowsSameAnchors

LEMMA AnchorsRead ==
    ASSUME AnchorsInv, NEW r \in Roots, UNCHANGED dbAnchors, ~viewAnchors[r].cached,
           tipAnchors' = [tipAnchors EXCEPT ![r] = TipFetchAnchor(r)],
           viewAnchors' = [viewAnchors EXCEPT ![r] = FetchAnchor(r)]
    PROVE  AnchorsInv' /\ ShowsSameAnchors
<1> DEFINE f == TipFetchAnchor(r)
<1> DEFINE g == FetchAnchor(r)
<1>1. /\ f \in MarkEntry
      /\ ~f.cached => f = NoMark
      /\ f.cached /\ ~f.dirty => (f.entered <=> DbEntered(r))
      /\ (IF f.cached THEN f.entered ELSE DbEntered(r)) <=> TipEntered(r)
      /\ f.entered <=> TipEntered(r)
      /\ r = EmptyRoot /\ f.cached => f.entered
  BY TipFetchAnchorShows
<1>2. /\ tipAnchors' = [tipAnchors EXCEPT ![r] = f]
      /\ viewAnchors' = [viewAnchors EXCEPT ![r] = g]
  OBVIOUS
<1>3. /\ g \in MarkEntry
      /\ ~g.cached => g = NoMark
      /\ g.cached => g.entered /\ TipEntered(r)
  <2>1. CASE f.entered
    <3>1. g = [cached |-> TRUE, entered |-> TRUE, dirty |-> FALSE]
      BY <2>1 DEF FetchAnchor
    <3> QED
      BY <1>1, <2>1, <3>1, MarkType
  <2>2. CASE ~f.entered
    <3>1. g = NoMark
      BY <2>2 DEF FetchAnchor, AnchorsInv
    <3> QED
      BY <3>1, NoMarkType
  <2> QED
    BY <2>1, <2>2
<1> HIDE DEF f, g
<1>4. tipAnchors' \in [Roots -> MarkEntry] /\ viewAnchors' \in [Roots -> MarkEntry]
  BY <1>1, <1>2, <1>3 DEF AnchorsInv
<1>5. \A q \in Roots : TipEntered(q)' <=> TipEntered(q)
  BY <1>1, <1>2 DEF AnchorsInv, TipEntered, DbEntered
<1>6. \A q \in Roots : ViewEntered(q)' <=> ViewEntered(q)
  BY <1>2, <1>3, <1>5 DEF AnchorsInv, ViewEntered
<1>7. \A q \in Roots :
         /\ ~tipAnchors'[q].cached => tipAnchors'[q] = NoMark
         /\ tipAnchors'[q].cached /\ ~tipAnchors'[q].dirty =>
              (tipAnchors'[q].entered <=> (q = EmptyRoot \/ q \in dbAnchors))
  BY <1>1, <1>2 DEF AnchorsInv, DbEntered
<1>8. \A q \in Roots :
         /\ ~viewAnchors'[q].cached => viewAnchors'[q] = NoMark
         /\ viewAnchors'[q].cached /\ ~viewAnchors'[q].dirty =>
              (viewAnchors'[q].entered <=> TipEntered(q))
  BY <1>2, <1>3 DEF AnchorsInv
<1>9. /\ tipAnchors'[EmptyRoot].cached => tipAnchors'[EmptyRoot].entered
      /\ viewAnchors'[EmptyRoot].cached => viewAnchors'[EmptyRoot].entered
  BY <1>1, <1>2, <1>3, RootAssumption DEF AnchorsInv
<1> QED
  BY <1>4, <1>5, <1>6, <1>7, <1>8, <1>9 DEF AnchorsInv, ShowsSameAnchors

\* A root is entered in the view, or marked as gone after it was brought in.
LEMMA AnchorsMarked ==
    ASSUME AnchorsInv, NEW r \in Roots, NEW in \in BOOLEAN, r # EmptyRoot, UNCHANGED dbAnchors,
           \/ tipAnchors' = tipAnchors
           \/ tipAnchors' = [tipAnchors EXCEPT ![r] = TipFetchAnchor(r)],
           viewAnchors' =
             [viewAnchors EXCEPT ![r] = [cached |-> TRUE, entered |-> in, dirty |-> TRUE]]
    PROVE  /\ AnchorsInv'
           /\ \A q \in Roots : /\ TipEntered(q)' <=> TipEntered(q)
                               /\ ViewEntered(q)' <=> IF q = r THEN in ELSE ViewEntered(q)
<1> DEFINE f == IF tipAnchors' = tipAnchors THEN tipAnchors[r] ELSE TipFetchAnchor(r)
<1> DEFINE g == [cached |-> TRUE, entered |-> in, dirty |-> TRUE]
<1>1. /\ f \in MarkEntry
      /\ ~f.cached => f = NoMark
      /\ f.cached /\ ~f.dirty => (f.entered <=> DbEntered(r))
      /\ (IF f.cached THEN f.entered ELSE DbEntered(r)) <=> TipEntered(r)
  <2>1. CASE tipAnchors' = tipAnchors
    BY <2>1 DEF AnchorsInv, TipEntered, DbEntered
  <2>2. CASE tipAnchors' # tipAnchors
    BY <2>2, TipFetchAnchorShows
  <2> QED
    BY <2>1, <2>2
<1>2. /\ tipAnchors' = [tipAnchors EXCEPT ![r] = f]
      /\ viewAnchors' = [viewAnchors EXCEPT ![r] = g]
  BY DEF AnchorsInv
<1>3. g \in MarkEntry /\ g.cached /\ (g.entered <=> in) /\ g.dirty
  BY MarkType
<1> HIDE DEF f, g
<1>4. tipAnchors' \in [Roots -> MarkEntry] /\ viewAnchors' \in [Roots -> MarkEntry]
  BY <1>1, <1>2, <1>3 DEF AnchorsInv
<1>5. \A q \in Roots : TipEntered(q)' <=> TipEntered(q)
  BY <1>1, <1>2 DEF AnchorsInv, TipEntered, DbEntered
<1>6. \A q \in Roots : ViewEntered(q)' <=> IF q = r THEN in ELSE ViewEntered(q)
  BY <1>2, <1>3, <1>5 DEF AnchorsInv, ViewEntered
<1>7. \A q \in Roots :
         /\ ~tipAnchors'[q].cached => tipAnchors'[q] = NoMark
         /\ tipAnchors'[q].cached /\ ~tipAnchors'[q].dirty =>
              (tipAnchors'[q].entered <=> (q = EmptyRoot \/ q \in dbAnchors))
  BY <1>1, <1>2 DEF AnchorsInv, DbEntered
<1>8. \A q \in Roots :
         /\ ~viewAnchors'[q].cached => viewAnchors'[q] = NoMark
         /\ viewAnchors'[q].cached /\ ~viewAnchors'[q].dirty =>
              (viewAnchors'[q].entered <=> TipEntered(q))
  BY <1>2, <1>3 DEF AnchorsInv
<1>9. /\ tipAnchors'[EmptyRoot].cached => tipAnchors'[EmptyRoot].entered
      /\ viewAnchors'[EmptyRoot].cached => viewAnchors'[EmptyRoot].entered
  BY <1>2, RootAssumption DEF AnchorsInv
<1> QED
  BY <1>4, <1>5, <1>6, <1>7, <1>8, <1>9 DEF AnchorsInv

LEMMA AnchorsFlushed ==
    ASSUME AnchorsInv, UNCHANGED dbAnchors, viewAnchors' = NoAnchors,
           tipAnchors' = [r \in Roots |-> MarkWritten(viewAnchors[r], tipAnchors[r])]
    PROVE  /\ AnchorsInv'
           /\ \A q \in Roots : /\ TipEntered(q)' <=> ViewEntered(q)
                               /\ ViewEntered(q)' <=> ViewEntered(q)
<1>1. ASSUME NEW q \in Roots
      PROVE /\ tipAnchors'[q] \in MarkEntry
            /\ (IF tipAnchors'[q].cached THEN tipAnchors'[q].entered
                ELSE DbEntered(q)) <=> ViewEntered(q)
            /\ ~tipAnchors'[q].cached => tipAnchors'[q] = NoMark
            /\ tipAnchors'[q].cached /\ ~tipAnchors'[q].dirty =>
                 (tipAnchors'[q].entered <=> DbEntered(q))
  <2> DEFINE c == viewAnchors[q]
  <2> DEFINE p == tipAnchors[q]
  <2> DEFINE d == DbEntered(q)
  <2> DEFINE w == tipAnchors'[q]
  <2>1. w = MarkWritten(c, p)
    OBVIOUS
  <2>2. /\ c \in MarkEntry /\ p \in MarkEntry /\ d \in BOOLEAN
        /\ ~c.cached => c = NoMark
        /\ ~p.cached => p = NoMark
        /\ p.cached /\ ~p.dirty => (p.entered <=> d)
        /\ c.cached /\ ~c.dirty => (c.entered <=> (IF p.cached THEN p.entered ELSE d))
    BY DEF AnchorsInv, TipEntered, DbEntered
  <2>3. ViewEntered(q) <=> (IF c.cached THEN c.entered ELSE IF p.cached THEN p.entered ELSE d)
    BY DEF ViewEntered, TipEntered, DbEntered
  <2> HIDE DEF c, p, d, w
  <2>4. /\ w \in MarkEntry
        /\ (IF w.cached THEN w.entered ELSE d) <=> ViewEntered(q)
        /\ ~w.cached => w = NoMark
        /\ w.cached /\ ~w.dirty => (w.entered <=> d)
    BY <2>1, <2>2, <2>3, MarkWrittenShows
  <2> QED
    BY <2>4 DEF w, d
<1>2. tipAnchors' \in [Roots -> MarkEntry]
  BY <1>1
<1>3. viewAnchors' \in [Roots -> MarkEntry] /\ \A q \in Roots : viewAnchors'[q] = NoMark
  BY NoMarkType DEF NoAnchors
<1>4. \A q \in Roots : TipEntered(q)' <=> ViewEntered(q)
  BY <1>1 DEF TipEntered, DbEntered
<1>5. \A q \in Roots : ViewEntered(q)' <=> TipEntered(q)'
  BY <1>3, NoMarkType DEF ViewEntered
<1>6. ViewEntered(EmptyRoot)
  BY RootAssumption DEF AnchorsInv, ViewEntered, TipEntered
<1>7. tipAnchors'[EmptyRoot].cached => tipAnchors'[EmptyRoot].entered
  BY <1>1, <1>6, RootAssumption
<1>8. viewAnchors'[EmptyRoot].cached => viewAnchors'[EmptyRoot].entered
  BY <1>3, RootAssumption, NoMarkType
<1> QED
  BY <1>1, <1>2, <1>3, <1>4, <1>5, <1>7, <1>8, NoMarkType DEF AnchorsInv, DbEntered

LEMMA AnchorsStored ==
    ASSUME AnchorsInv, viewAnchors = NoAnchors, UNCHANGED viewAnchors, tipAnchors' = NoAnchors,
           dbAnchors' = {r \in Roots : IF tipAnchors[r].dirty
                                       THEN tipAnchors[r].entered /\ r # EmptyRoot
                                       ELSE r \in dbAnchors}
    PROVE  /\ AnchorsInv' /\ ShowsSameAnchors
           /\ dbAnchors' \cup {EmptyRoot} = {r \in Roots : TipEntered(r)}
<1>1. \A q \in Roots : /\ viewAnchors[q] = NoMark /\ tipAnchors'[q] = NoMark
                       /\ viewAnchors'[q] = NoMark
  BY DEF NoAnchors
<1>2. tipAnchors' \in [Roots -> MarkEntry]
  BY NoMarkType DEF NoAnchors
<1>3. ASSUME NEW q \in Roots PROVE (q = EmptyRoot \/ q \in dbAnchors') <=> TipEntered(q)
  <2>1. tipAnchors[q].dirty => tipAnchors[q].cached
    BY NoMarkType DEF AnchorsInv
  <2>2. CASE q = EmptyRoot
    BY <2>2 DEF AnchorsInv, TipEntered
  <2>3. CASE q # EmptyRoot
    BY <2>1, <2>3 DEF AnchorsInv, TipEntered
  <2> QED
    BY <2>2, <2>3
<1>4. \A q \in Roots : TipEntered(q)' <=> TipEntered(q)
  BY <1>1, <1>3, NoMarkType DEF TipEntered
<1>5. \A q \in Roots : ViewEntered(q)' <=> ViewEntered(q)
  BY <1>1, <1>4, NoMarkType DEF ViewEntered
<1>6. dbAnchors' \cup {EmptyRoot} = {r \in Roots : TipEntered(r)}
  BY <1>3, RootAssumption
<1>7. dbAnchors' \in SUBSET Roots
  OBVIOUS
<1>8. AnchorsInv'
  BY <1>1, <1>2, <1>7, RootAssumption, NoMarkType DEF AnchorsInv
<1> QED
  BY <1>4, <1>5, <1>6, <1>8 DEF ShowsSameAnchors

LEMMA AnchorsDropped ==
    ASSUME AnchorsInv, UNCHANGED dbAnchors, viewAnchors' = NoAnchors,
           tipAnchors' = tipAnchors \/ tipAnchors' = NoAnchors
    PROVE  /\ AnchorsInv'
           /\ \A q \in Roots : ViewEntered(q)' <=> TipEntered(q)'
           /\ tipAnchors' = tipAnchors => \A q \in Roots : TipEntered(q)' <=> TipEntered(q)
           /\ tipAnchors' = NoAnchors => \A q \in Roots : TipEntered(q)' <=> DbEntered(q)
<1>1. viewAnchors' \in [Roots -> MarkEntry] /\ \A q \in Roots : viewAnchors'[q] = NoMark
  BY NoMarkType DEF NoAnchors
<1>2. \A q \in Roots : ViewEntered(q)' <=> TipEntered(q)'
  BY <1>1, NoMarkType DEF ViewEntered
<1>3. tipAnchors' = tipAnchors => \A q \in Roots : TipEntered(q)' <=> TipEntered(q)
  BY DEF TipEntered
<1>4. tipAnchors' = NoAnchors => \A q \in Roots : TipEntered(q)' <=> DbEntered(q)
  BY NoMarkType DEF TipEntered, NoAnchors, DbEntered
<1>5. tipAnchors' \in [Roots -> MarkEntry]
  BY NoMarkType DEF NoAnchors, AnchorsInv
<1>6. \A q \in Roots :
         /\ ~tipAnchors'[q].cached => tipAnchors'[q] = NoMark
         /\ tipAnchors'[q].cached /\ ~tipAnchors'[q].dirty =>
              (tipAnchors'[q].entered <=> (q = EmptyRoot \/ q \in dbAnchors))
  BY NoMarkType DEF AnchorsInv, NoAnchors
<1>7. /\ tipAnchors'[EmptyRoot].cached => tipAnchors'[EmptyRoot].entered
      /\ viewAnchors'[EmptyRoot].cached => viewAnchors'[EmptyRoot].entered
  BY <1>1, NoMarkType, RootAssumption DEF AnchorsInv, NoAnchors
<1> QED
  BY <1>1, <1>2, <1>3, <1>4, <1>5, <1>6, <1>7, NoMarkType DEF AnchorsInv

-----------------------------------------------------------------------------
(* What the layers show, as states of the map. *)

\* A step after which every layer shows what it showed before is a stutter.
LEMMA Stutters ==
    ASSUME ShowsSameCoins, ShowsSameNullifiers, ShowsSameAnchors, UNCHANGED <<dbVars, open>>,
           TipBestBlock' = TipBestBlock, TipBestAnchor' = TipBestAnchor,
           BestBlock' = BestBlock, BestAnchor' = BestAnchor
    PROVE  UNCHANGED Map!mapVars
<1>1. DbState' = DbState /\ open' = open
  BY DEF DbState, dbVars
<1>2. TipState' = TipState
  <2>1. [t \in Txids |-> TipSees(t)]' = [t \in Txids |-> TipSees(t)]
    BY DEF ShowsSameCoins
  <2>2. {n \in Nullifiers : TipSpent(n)}' = {n \in Nullifiers : TipSpent(n)}
    BY DEF ShowsSameNullifiers
  <2>3. {r \in Roots : TipEntered(r)}' = {r \in Roots : TipEntered(r)}
    BY DEF ShowsSameAnchors
  <2> QED
    BY <2>1, <2>2, <2>3 DEF TipState
<1>3. ViewState' = ViewState
  <2>1. [t \in Txids |-> ViewSees(t)]' = [t \in Txids |-> ViewSees(t)]
    BY DEF ShowsSameCoins
  <2>2. {n \in Nullifiers : ViewSpent(n)}' = {n \in Nullifiers : ViewSpent(n)}
    BY DEF ShowsSameNullifiers
  <2>3. {r \in Roots : ViewEntered(r)}' = {r \in Roots : ViewEntered(r)}
    BY DEF ShowsSameAnchors
  <2> QED
    BY <2>1, <2>2, <2>3 DEF ViewState
<1> QED
  BY <1>1, <1>2, <1>3 DEF Map!mapVars

\* Without a view the pending copy is the committed one.
LEMMA ClosedView ==
    ASSUME ~open, ViewInv PROVE ViewState = TipState
<1>1. \A t \in Txids : ViewSees(t) = TipSees(t)
  BY NoCoinsType DEF ViewInv, ViewSees, NoCoinsAtAll
<1>2. \A n \in Nullifiers : ViewSpent(n) <=> TipSpent(n)
  BY NoMarkType DEF ViewInv, ViewSpent, NoNullifiers
<1>3. \A r \in Roots : ViewEntered(r) <=> TipEntered(r)
  BY NoMarkType DEF ViewInv, ViewEntered, NoAnchors
<1>4. BestBlock = TipBestBlock /\ BestAnchor = TipBestAnchor
  BY DEF ViewInv, BestBlock, BestAnchor
<1> QED
  BY <1>1, <1>2, <1>3, <1>4 DEF ViewState, TipState

-----------------------------------------------------------------------------
(* The steps. *)

LEMMA InitStep == Init => IInv /\ Map!MapInit
<1> SUFFICES ASSUME Init PROVE IInv /\ Map!MapInit
  OBVIOUS
<1>1. \A t \in Txids : viewCoins[t] = NoCoins /\ tipCoins[t] = NoCoins
  BY DEF Init, NoCoinsAtAll
<1>2. \A n \in Nullifiers : viewNullifiers[n] = NoMark /\ tipNullifiers[n] = NoMark
  BY DEF Init, NoNullifiers
<1>3. \A r \in Roots : viewAnchors[r] = NoMark /\ tipAnchors[r] = NoMark
  BY DEF Init, NoAnchors
<1>4. CoinsInv
  BY <1>1, NoCoinsType DEF Init, CoinsInv, NoCoinsAtAll, Coins, Pruned
<1>5. NullifiersInv
  BY <1>2, NoMarkType DEF Init, NullifiersInv, NoNullifiers
<1>6. AnchorsInv
  BY <1>3, NoMarkType, RootAssumption DEF Init, AnchorsInv, NoAnchors
<1>7. HashInv /\ ViewInv
  BY RootAssumption DEF Init, HashInv, ViewInv
<1>8. DbState = Map!EmptyState
  BY DEF Init, DbState, Map!EmptyState, Pruned
<1>9. TipState = Map!EmptyState
  <2>1. [t \in Txids |-> TipSees(t)] = [t \in Txids |-> {}]
    BY <1>1, NoCoinsType DEF TipSees, Init, Pruned
  <2>2. {n \in Nullifiers : TipSpent(n)} = {}
    BY <1>2, NoMarkType DEF TipSpent, Init
  <2>3. {r \in Roots : TipEntered(r)} = {EmptyRoot}
    BY <1>3, NoMarkType, RootAssumption DEF TipEntered, Init
  <2>4. TipBestAnchor = EmptyRoot /\ TipBestBlock = NullBlock
    BY DEF TipBestAnchor, TipBestBlock, Init
  <2> QED
    BY <2>1, <2>2, <2>3, <2>4 DEF TipState, Map!EmptyState
<1>10. ViewState = TipState /\ open = FALSE
  BY <1>7, ClosedView DEF Init
<1> QED
  BY <1>4, <1>5, <1>6, <1>7, <1>8, <1>9, <1>10 DEF IInv, Map!MapInit

\* Reading changes nothing that any layer shows.
LEMMA ReadStep ==
    ASSUME IInv, Read PROVE IInv' /\ UNCHANGED Map!mapVars
<1> USE DEF IInv
<1>1. CASE \E t \in Txids : TipGetCoins(t) \/ GetCoins(t)
  <2>0. /\ UNCHANGED <<viewNullifiers, tipNullifiers, dbNullifiers>>
        /\ UNCHANGED <<viewAnchors, tipAnchors, dbAnchors>>
        /\ UNCHANGED <<hashVars, dbVars, open>>
    BY <1>1 DEF TipGetCoins, GetCoins, viewVars, markVars, anchorVars, hashVars, dbVars
  <2>1. CoinsInv' /\ ShowsSameCoins
    <3>1. PICK t \in Txids : TipGetCoins(t) \/ GetCoins(t)
      BY <1>1
    <3>2. CASE TipGetCoins(t)
      BY <3>2, CoinsReadTip DEF TipGetCoins, viewVars, dbVars
    <3>3. CASE GetCoins(t)
      BY <3>3, CoinsRead DEF GetCoins, dbVars
    <3> QED
      BY <3>1, <3>2, <3>3
  <2>2. NullifiersInv' /\ ShowsSameNullifiers /\ AnchorsInv' /\ ShowsSameAnchors
    BY <2>0, NullifiersKept, AnchorsKept
  <2>3. HashInv'
    BY <2>0 DEF HashInv, hashVars, dbVars
  <2>4. ViewInv'
    BY <1>1 DEF ViewInv, TipGetCoins, GetCoins, viewVars
  <2>5. /\ TipBestBlock' = TipBestBlock /\ TipBestAnchor' = TipBestAnchor
        /\ BestBlock' = BestBlock /\ BestAnchor' = BestAnchor
    BY <2>0 DEF TipBestBlock, TipBestAnchor, BestBlock, BestAnchor, hashVars, dbVars
  <2> QED
    BY <2>0, <2>1, <2>2, <2>3, <2>4, <2>5, Stutters
<1>2. CASE \E n \in Nullifiers : TipGetNullifier(n) \/ GetNullifier(n)
  <2>0. /\ UNCHANGED <<viewCoins, tipCoins, dbCoins>>
        /\ UNCHANGED <<viewAnchors, tipAnchors, dbAnchors>>
        /\ UNCHANGED <<hashVars, dbVars, open>>
    BY <1>2 DEF TipGetNullifier, GetNullifier, viewVars, coinVars, anchorVars, hashVars, dbVars
  <2>1. NullifiersInv' /\ ShowsSameNullifiers
    <3>1. PICK n \in Nullifiers : TipGetNullifier(n) \/ GetNullifier(n)
      BY <1>2
    <3>2. CASE TipGetNullifier(n)
      BY <3>2, NullifiersReadTip DEF TipGetNullifier, viewVars, dbVars
    <3>3. CASE GetNullifier(n)
      BY <3>3, NullifiersRead DEF GetNullifier, dbVars
    <3> QED
      BY <3>1, <3>2, <3>3
  <2>2. CoinsInv' /\ ShowsSameCoins /\ AnchorsInv' /\ ShowsSameAnchors
    BY <2>0, CoinsKept, AnchorsKept
  <2>3. HashInv'
    BY <2>0 DEF HashInv, hashVars, dbVars
  <2>4. ViewInv'
    BY <1>2 DEF ViewInv, TipGetNullifier, GetNullifier, viewVars
  <2>5. /\ TipBestBlock' = TipBestBlock /\ TipBestAnchor' = TipBestAnchor
        /\ BestBlock' = BestBlock /\ BestAnchor' = BestAnchor
    BY <2>0 DEF TipBestBlock, TipBestAnchor, BestBlock, BestAnchor, hashVars, dbVars
  <2> QED
    BY <2>0, <2>1, <2>2, <2>3, <2>4, <2>5, Stutters
<1>3. CASE \E r \in Roots : TipGetAnchorAt(r) \/ GetAnchorAt(r)
  <2>0. /\ UNCHANGED <<viewCoins, tipCoins, dbCoins>>
        /\ UNCHANGED <<viewNullifiers, tipNullifiers, dbNullifiers>>
        /\ UNCHANGED <<hashVars, dbVars, open>>
    BY <1>3 DEF TipGetAnchorAt, GetAnchorAt, viewVars, coinVars, markVars, hashVars, dbVars
  <2>1. AnchorsInv' /\ ShowsSameAnchors
    <3>1. PICK r \in Roots : TipGetAnchorAt(r) \/ GetAnchorAt(r)
      BY <1>3
    <3>2. CASE TipGetAnchorAt(r)
      BY <3>2, AnchorsReadTip DEF TipGetAnchorAt, viewVars, dbVars
    <3>3. CASE GetAnchorAt(r)
      BY <3>3, AnchorsRead DEF GetAnchorAt, dbVars
    <3> QED
      BY <3>1, <3>2, <3>3
  <2>2. CoinsInv' /\ ShowsSameCoins /\ NullifiersInv' /\ ShowsSameNullifiers
    BY <2>0, CoinsKept, NullifiersKept
  <2>3. HashInv'
    BY <2>0 DEF HashInv, hashVars, dbVars
  <2>4. ViewInv'
    BY <1>3 DEF ViewInv, TipGetAnchorAt, GetAnchorAt, viewVars
  <2>5. /\ TipBestBlock' = TipBestBlock /\ TipBestAnchor' = TipBestAnchor
        /\ BestBlock' = BestBlock /\ BestAnchor' = BestAnchor
    BY <2>0 DEF TipBestBlock, TipBestAnchor, BestBlock, BestAnchor, hashVars, dbVars
  <2> QED
    BY <2>0, <2>1, <2>2, <2>3, <2>4, <2>5, Stutters
<1> QED
  BY <1>1, <1>2, <1>3 DEF Read
-----------------------------------------------------------------------------

\* A state of the map that differs from what the view shows in one field only.
LEMMA TipUnchanged ==
    ASSUME \A u \in Txids : TipSees(u)' = TipSees(u),
           \A m \in Nullifiers : TipSpent(m)' <=> TipSpent(m),
           \A q \in Roots : TipEntered(q)' <=> TipEntered(q),
           UNCHANGED <<dbVars, tipBlock, tipAnchor>>
    PROVE  DbState' = DbState /\ TipState' = TipState
<1>1. DbState' = DbState
  BY DEF DbState, dbVars
<1>2. [t \in Txids |-> TipSees(t)]' = [t \in Txids |-> TipSees(t)]
  OBVIOUS
<1>3. {n \in Nullifiers : TipSpent(n)}' = {n \in Nullifiers : TipSpent(n)}
  OBVIOUS
<1>4. {r \in Roots : TipEntered(r)}' = {r \in Roots : TipEntered(r)}
  OBVIOUS
<1>5. TipBestBlock' = TipBestBlock /\ TipBestAnchor' = TipBestAnchor
  BY DEF TipBestBlock, TipBestAnchor, dbVars
<1> QED
  BY <1>1, <1>2, <1>3, <1>4, <1>5 DEF TipState

\* A state put together from its fields.
Put(c, n, a, h, b) == [coins |-> c, nullifiers |-> n, anchors |-> a, anchor |-> h, block |-> b]

ViewCoins      == [t \in Txids |-> ViewSees(t)]
ViewNullifiers == {n \in Nullifiers : ViewSpent(n)}
ViewRoots      == {r \in Roots : ViewEntered(r)}

LEMMA ViewPut == /\ ViewState = Put(ViewCoins, ViewNullifiers, ViewRoots, BestAnchor, BestBlock)
                 /\ ViewState' = Put(ViewCoins', ViewNullifiers', ViewRoots', BestAnchor', BestBlock')
BY DEF ViewState, Put, ViewCoins, ViewNullifiers, ViewRoots

TipCoins      == [t \in Txids |-> TipSees(t)]
TipNullifiers == {n \in Nullifiers : TipSpent(n)}
TipRoots      == {r \in Roots : TipEntered(r)}

LEMMA TipPut == /\ TipState = Put(TipCoins, TipNullifiers, TipRoots, TipBestAnchor, TipBestBlock)
                /\ TipState' = Put(TipCoins', TipNullifiers', TipRoots', TipBestAnchor', TipBestBlock')
BY DEF TipState, Put, TipCoins, TipNullifiers, TipRoots

LEMMA SameSets ==
    ASSUME ShowsSameCoins, ShowsSameNullifiers, ShowsSameAnchors
    PROVE  /\ TipCoins' = TipCoins /\ TipNullifiers' = TipNullifiers /\ TipRoots' = TipRoots
           /\ ViewCoins' = ViewCoins /\ ViewNullifiers' = ViewNullifiers /\ ViewRoots' = ViewRoots
<1>1. TipCoins' = TipCoins /\ ViewCoins' = ViewCoins
  BY DEF ShowsSameCoins, TipCoins, ViewCoins
<1>2. TipNullifiers' = TipNullifiers /\ ViewNullifiers' = ViewNullifiers
  BY DEF ShowsSameNullifiers, TipNullifiers, ViewNullifiers
<1>3. TipRoots' = TipRoots /\ ViewRoots' = ViewRoots
  BY DEF ShowsSameAnchors, TipRoots, ViewRoots
<1> QED
  BY <1>1, <1>2, <1>3

LEMMA ClosedViewNext == (~open /\ ViewInv => ViewState = TipState)'
<1>1. ~open /\ ViewInv => ViewState = TipState
  BY ClosedView
<1> QED
  BY <1>1, PTL

LEMMA ModifyStep ==
    ASSUME IInv, NEW t \in Txids, NEW v \in Coins, ModifyCoins(t, v)
    PROVE  IInv' /\ Map!PutCoins(t, v)
<1>0. /\ UNCHANGED <<viewNullifiers, tipNullifiers, dbNullifiers>>
      /\ UNCHANGED <<viewAnchors, tipAnchors, dbAnchors>>
      /\ UNCHANGED <<hashVars, dbVars, open>> /\ open
  BY DEF ModifyCoins, markVars, anchorVars, hashVars, dbVars
<1>1. /\ CoinsInv'
      /\ \A u \in Txids : /\ TipSees(u)' = TipSees(u)
                          /\ ViewSees(u)' = IF u = t THEN v ELSE ViewSees(u)
  BY CoinsModified DEF IInv
<1>2. NullifiersInv' /\ ShowsSameNullifiers /\ AnchorsInv' /\ ShowsSameAnchors
  BY <1>0, NullifiersKept, AnchorsKept DEF IInv
<1>3. HashInv' /\ ViewInv'
  BY <1>0 DEF IInv, HashInv, ViewInv, hashVars, dbVars
<1>4. DbState' = DbState /\ TipState' = TipState
  BY <1>0, <1>1, <1>2, TipUnchanged DEF hashVars, ShowsSameNullifiers, ShowsSameAnchors
<1>5. ViewState' = [ViewState EXCEPT !.coins[t] = v]
  <2>1. ViewCoins' = [ViewCoins EXCEPT ![t] = v]
    BY <1>1 DEF ViewCoins
  <2>2. ViewNullifiers' = ViewNullifiers
    BY <1>2 DEF ShowsSameNullifiers, ViewNullifiers
  <2>3. ViewRoots' = ViewRoots
    BY <1>2 DEF ShowsSameAnchors, ViewRoots
  <2>4. BestBlock' = BestBlock /\ BestAnchor' = BestAnchor
    BY <1>0 DEF BestBlock, BestAnchor, TipBestBlock, TipBestAnchor, hashVars, dbVars
  <2>5. ViewState' = [ViewState EXCEPT !.coins = [ViewCoins EXCEPT ![t] = v]]
    BY <2>1, <2>2, <2>3, <2>4, ViewPut DEF Put
  <2>6. ViewState.coins = ViewCoins
    BY ViewPut DEF Put
  <2> QED
    BY <2>5, <2>6
<1> QED
  BY <1>0, <1>1, <1>2, <1>3, <1>4, <1>5 DEF IInv, Map!PutCoins, Map!Change

LEMMA SetStep ==
    ASSUME IInv, NEW ns \in SUBSET Nullifiers, NEW spent \in BOOLEAN, SetNullifiers(ns, spent)
    PROVE  IInv' /\ (Map!PutNullifiers(ns) \/ Map!RemoveNullifiers(ns))
<1>0. /\ UNCHANGED <<viewCoins, tipCoins, dbCoins>>
      /\ UNCHANGED <<viewAnchors, tipAnchors, dbAnchors>>
      /\ UNCHANGED <<tipNullifiers, dbNullifiers>>
      /\ UNCHANGED <<hashVars, dbVars, open>> /\ open
  BY DEF SetNullifiers, coinVars, anchorVars, hashVars, dbVars
<1>1. /\ NullifiersInv'
      /\ \A m \in Nullifiers : /\ TipSpent(m)' <=> TipSpent(m)
                               /\ ViewSpent(m)' <=> IF m \in ns THEN spent ELSE ViewSpent(m)
  BY <1>0, NullifiersSet DEF IInv, SetNullifiers
<1>2. CoinsInv' /\ ShowsSameCoins /\ AnchorsInv' /\ ShowsSameAnchors
  BY <1>0, CoinsKept, AnchorsKept DEF IInv
<1>3. HashInv' /\ ViewInv'
  BY <1>0 DEF IInv, HashInv, ViewInv, hashVars, dbVars
<1>4. DbState' = DbState /\ TipState' = TipState
  BY <1>0, <1>1, <1>2, TipUnchanged DEF hashVars, ShowsSameCoins, ShowsSameAnchors
<1>5. ViewState' = [ViewState EXCEPT !.nullifiers = ViewNullifiers']
  <2>1. ViewCoins' = ViewCoins
    BY <1>2 DEF ShowsSameCoins, ViewCoins
  <2>3. ViewRoots' = ViewRoots
    BY <1>2 DEF ShowsSameAnchors, ViewRoots
  <2>4. BestBlock' = BestBlock /\ BestAnchor' = BestAnchor
    BY <1>0 DEF BestBlock, BestAnchor, TipBestBlock, TipBestAnchor, hashVars, dbVars
  <2> QED
    BY <2>1, <2>3, <2>4, ViewPut DEF Put
<1>6. ViewState.nullifiers = ViewNullifiers
  BY ViewPut DEF Put
<1>7. CASE spent
  <2>1. ViewNullifiers' = ViewNullifiers \cup ns
    BY <1>1, <1>7 DEF ViewNullifiers
  <2>2. ViewState' = [ViewState EXCEPT !.nullifiers = @ \cup ns]
    BY <1>5, <1>6, <2>1
  <2> QED
    BY <1>0, <1>1, <1>2, <1>3, <1>4, <2>2 DEF IInv, Map!PutNullifiers, Map!Change
<1>8. CASE ~spent
  <2>1. ViewNullifiers' = ViewNullifiers \ ns
    BY <1>1, <1>8 DEF ViewNullifiers
  <2>2. ViewState' = [ViewState EXCEPT !.nullifiers = @ \ ns]
    BY <1>5, <1>6, <2>1
  <2> QED
    BY <1>0, <1>1, <1>2, <1>3, <1>4, <2>2 DEF IInv, Map!RemoveNullifiers, Map!Change
<1> QED
  BY <1>7, <1>8

\* An anchor is entered or taken out, and the best anchor is another one.
LEMMA MarkStep ==
    ASSUME IInv, open, NEW r \in Roots, NEW in \in BOOLEAN, NEW best \in Roots, r # EmptyRoot,
           \/ tipAnchors' = tipAnchors
           \/ tipAnchors' = [tipAnchors EXCEPT ![r] = TipFetchAnchor(r)],
           viewAnchors' =
             [viewAnchors EXCEPT ![r] = [cached |-> TRUE, entered |-> in, dirty |-> TRUE]],
           viewAnchor' = best,
           UNCHANGED <<coinVars, markVars, viewBlock, tipBlock, tipAnchor, dbVars, open>>
    PROVE  /\ IInv'
           /\ DbState' = DbState /\ TipState' = TipState
           /\ ViewState' =
                [ViewState EXCEPT !.anchors = IF in THEN @ \cup {r} ELSE @ \ {r}, !.anchor = best]
<1>0. /\ UNCHANGED <<viewCoins, tipCoins, dbCoins>>
      /\ UNCHANGED <<viewNullifiers, tipNullifiers, dbNullifiers>>
      /\ UNCHANGED dbAnchors
  BY DEF coinVars, markVars, dbVars
<1>1. /\ AnchorsInv'
      /\ \A q \in Roots : /\ TipEntered(q)' <=> TipEntered(q)
                          /\ ViewEntered(q)' <=> IF q = r THEN in ELSE ViewEntered(q)
  BY <1>0, AnchorsMarked DEF IInv
<1>2. CoinsInv' /\ ShowsSameCoins /\ NullifiersInv' /\ ShowsSameNullifiers
  BY <1>0, CoinsKept, NullifiersKept DEF IInv
<1>3. HashInv' /\ ViewInv'
  BY <1>0, NullAssumption DEF IInv, HashInv, ViewInv, dbVars
<1>4. DbState' = DbState /\ TipState' = TipState
  BY <1>1, <1>2, TipUnchanged DEF ShowsSameCoins, ShowsSameNullifiers
<1>5. ViewRoots' = IF in THEN ViewRoots \cup {r} ELSE ViewRoots \ {r}
  BY <1>1 DEF ViewRoots
<1>6. ViewCoins' = ViewCoins
  BY <1>2 DEF ShowsSameCoins, ViewCoins
<1>7. ViewNullifiers' = ViewNullifiers
  BY <1>2 DEF ShowsSameNullifiers, ViewNullifiers
<1>8. BestBlock' = BestBlock /\ BestAnchor' = best
  BY <1>0, NullAssumption DEF BestBlock, BestAnchor, TipBestBlock, dbVars
<1>9. ViewState.anchors = ViewRoots
  BY ViewPut DEF Put
<1>10. ViewState' = [ViewState EXCEPT !.anchors = ViewRoots', !.anchor = best]
  <2> DEFINE w == [f \in {"coins", "nullifiers", "anchors", "anchor", "block"} |->
                    IF f = "anchor" THEN best ELSE IF f = "anchors" THEN ViewRoots'
                    ELSE ViewState[f]]
  <2>0. [ViewState EXCEPT !.anchors = ViewRoots', !.anchor = best] = w
    BY ViewPut DEF Put
  <2>1. w = Put(ViewCoins, ViewNullifiers, ViewRoots', best, BestBlock)
    BY ViewPut DEF Put
  <2> QED
    BY <1>6, <1>7, <1>8, <2>0, <2>1, ViewPut
<1> QED
  BY <1>1, <1>2, <1>3, <1>4, <1>5, <1>9, <1>10 DEF IInv
LEMMA PushStep ==
    ASSUME IInv, NEW r \in Roots, PushAnchor(r)
    PROVE  IInv' /\ Map!Push(r)
<1>1. open /\ r # EmptyRoot /\ Prev[r] = BestAnchor
  BY DEF PushAnchor
<1>2. /\ IInv'
      /\ DbState' = DbState /\ TipState' = TipState
      /\ ViewState' =
           [ViewState EXCEPT !.anchors = IF TRUE THEN @ \cup {r} ELSE @ \ {r}, !.anchor = r]
  BY <1>1, MarkStep DEF PushAnchor
<1>3. ViewState.anchor = BestAnchor
  BY DEF ViewState
<1>4. open' = open
  BY DEF PushAnchor
<1> QED
  BY <1>1, <1>2, <1>3, <1>4 DEF Map!Push, Map!Change

LEMMA PopStep ==
    ASSUME IInv, PopAnchor
    PROVE  IInv' /\ Map!Pop
<1> DEFINE r == BestAnchor
<1>1. open /\ r # EmptyRoot /\ open' = open
  BY DEF PopAnchor
<1>2. r \in Roots /\ Prev[r] \in Roots
  BY <1>1, RootAssumption DEF IInv, HashInv, BestAnchor
<1>3. /\ \/ tipAnchors' = tipAnchors
         \/ tipAnchors' = [tipAnchors EXCEPT ![r] = TipFetchAnchor(r)]
      /\ viewAnchors' =
           [viewAnchors EXCEPT ![r] = [cached |-> TRUE, entered |-> FALSE, dirty |-> TRUE]]
      /\ viewAnchor' = Prev[r]
      /\ UNCHANGED <<coinVars, markVars, viewBlock, tipBlock, tipAnchor, dbVars, open>>
  BY DEF PopAnchor
<1>4. ViewState.anchor = r
  BY DEF ViewState
<1> HIDE DEF r
<1>5. /\ IInv'
      /\ DbState' = DbState /\ TipState' = TipState
      /\ ViewState' =
           [ViewState EXCEPT !.anchors = IF FALSE THEN @ \cup {r} ELSE @ \ {r}, !.anchor = Prev[r]]
  BY <1>1, <1>2, <1>3, MarkStep
<1> QED
  BY <1>1, <1>4, <1>5 DEF Map!Pop, Map!Change

LEMMA SetBlockStep ==
    ASSUME IInv, NEW b \in Blocks, SetBestBlock(b)
    PROVE  IInv' /\ Map!PutBlock(b)
<1>0. /\ UNCHANGED <<viewCoins, tipCoins, dbCoins>>
      /\ UNCHANGED <<viewNullifiers, tipNullifiers, dbNullifiers>>
      /\ UNCHANGED <<viewAnchors, tipAnchors, dbAnchors>>
      /\ UNCHANGED <<tipBlock, viewAnchor, tipAnchor, dbVars, open>> /\ open /\ viewBlock' = b
  BY DEF SetBestBlock, coinVars, markVars, anchorVars, dbVars
<1>1. /\ CoinsInv' /\ ShowsSameCoins /\ NullifiersInv' /\ ShowsSameNullifiers
      /\ AnchorsInv' /\ ShowsSameAnchors
  BY <1>0, CoinsKept, NullifiersKept, AnchorsKept DEF IInv
<1>2. HashInv' /\ ViewInv'
  BY <1>0, NullAssumption DEF IInv, HashInv, ViewInv, dbVars
<1>3. DbState' = DbState /\ TipState' = TipState
  BY <1>0, <1>1, TipUnchanged DEF ShowsSameCoins, ShowsSameNullifiers, ShowsSameAnchors
<1>4. ViewCoins' = ViewCoins /\ ViewNullifiers' = ViewNullifiers /\ ViewRoots' = ViewRoots
  BY <1>1 DEF ShowsSameCoins, ShowsSameNullifiers, ShowsSameAnchors,
              ViewCoins, ViewNullifiers, ViewRoots
<1>5. BestBlock' = b /\ BestAnchor' = BestAnchor
  BY <1>0, NullAssumption DEF BestBlock, BestAnchor, TipBestAnchor, dbVars
<1>6. ViewState' = [ViewState EXCEPT !.block = b]
  BY <1>4, <1>5, ViewPut DEF Put
<1> QED
  BY <1>0, <1>1, <1>2, <1>3, <1>6 DEF IInv, Map!PutBlock, Map!Change

LEMMA GenesisStep ==
    ASSUME IInv, NEW b \in Blocks, ConnectGenesis(b)
    PROVE  IInv' /\ Map!CommitGenesis(b)
<1>0. /\ UNCHANGED <<viewCoins, tipCoins, dbCoins>>
      /\ UNCHANGED <<viewNullifiers, tipNullifiers, dbNullifiers>>
      /\ UNCHANGED <<viewAnchors, tipAnchors, dbAnchors>>
      /\ UNCHANGED <<viewBlock, viewAnchor, dbVars, open>> /\ ~open
      /\ TipBestBlock = NullBlock /\ tipBlock' = b /\ tipAnchor' = NullRoot
  BY DEF ConnectGenesis, viewVars, dbVars
<1>1. /\ CoinsInv' /\ ShowsSameCoins /\ NullifiersInv' /\ ShowsSameNullifiers
      /\ AnchorsInv' /\ ShowsSameAnchors
  BY <1>0, CoinsKept, NullifiersKept, AnchorsKept DEF IInv
<1>2. HashInv' /\ ViewInv'
  BY <1>0, NullAssumption DEF IInv, HashInv, ViewInv, dbVars
<1>3. tipAnchor = NullRoot
  BY <1>0, NullAssumption DEF IInv, HashInv, TipBestBlock
<1>4. TipBestBlock' = b /\ TipBestAnchor' = TipBestAnchor
  BY <1>0, <1>3, NullAssumption DEF TipBestBlock, TipBestAnchor, dbVars
<1>5. TipCoins' = TipCoins /\ TipNullifiers' = TipNullifiers /\ TipRoots' = TipRoots
  BY <1>1, SameSets
<1>6. TipState' = [TipState EXCEPT !.block = b]
  BY <1>4, <1>5, TipPut DEF Put
<1>7. TipState.block = NullBlock
  BY <1>0, TipPut DEF Put
<1>8. DbState' = DbState
  BY <1>0 DEF DbState, dbVars
<1>9. ViewState' = TipState'
  <2>1. (~open /\ ViewInv)'
    BY <1>0, <1>2
  <2> QED
    BY <2>1, ClosedViewNext
<1> QED
  BY <1>0, <1>1, <1>2, <1>6, <1>7, <1>8, <1>9 DEF IInv, Map!CommitGenesis

LEMMA OpenStep ==
    ASSUME IInv, OpenView
    PROVE  IInv' /\ Map!Begin
<1>0. /\ UNCHANGED <<tipCoins, dbCoins, tipNullifiers, dbNullifiers, tipAnchors, dbAnchors, dbVars>>
      /\ ~open /\ open' = TRUE /\ TipBestBlock # NullBlock
      /\ viewBlock' = TipBestBlock /\ tipBlock' = TipBestBlock
      /\ viewAnchor' = TipBestAnchor /\ tipAnchor' = TipBestAnchor
      /\ UNCHANGED <<viewCoins, viewNullifiers, viewAnchors>>
  BY DEF OpenView, dbVars, IInv, ViewInv
<1>1. /\ CoinsInv' /\ ShowsSameCoins /\ NullifiersInv' /\ ShowsSameNullifiers
      /\ AnchorsInv' /\ ShowsSameAnchors
  BY <1>0, CoinsKept, NullifiersKept, AnchorsKept DEF IInv
<1>2. TipBestAnchor \in Roots /\ TipBestBlock \in Blocks \cup {NullBlock}
  BY DEF IInv, HashInv, TipBestAnchor, TipBestBlock
<1>3. HashInv'
  BY <1>0, <1>2, NullAssumption DEF IInv, HashInv, dbVars
<1>4. ViewInv'
  BY <1>0 DEF ViewInv
<1>5. /\ TipBestBlock' = TipBestBlock /\ TipBestAnchor' = TipBestAnchor
      /\ BestBlock' = TipBestBlock /\ BestAnchor' = TipBestAnchor
  BY <1>0, <1>2, NullAssumption DEF TipBestBlock, TipBestAnchor, BestBlock, BestAnchor
<1>6. BestBlock = TipBestBlock /\ BestAnchor = TipBestAnchor
  BY <1>0 DEF IInv, ViewInv, BestBlock, BestAnchor
<1>7. DbState' = DbState
  BY <1>0 DEF DbState, dbVars
<1>8. TipState' = TipState
  BY <1>1, <1>5, TipPut, SameSets
<1>9. ViewState' = ViewState
  BY <1>1, <1>5, <1>6, ViewPut, SameSets
<1> QED
  BY <1>0, <1>1, <1>3, <1>4, <1>7, <1>8, <1>9 DEF IInv, Map!Begin

LEMMA FlushViewStep ==
    ASSUME IInv, FlushView
    PROVE  IInv' /\ Map!Commit
<1>0. /\ UNCHANGED <<dbCoins, dbNullifiers, dbAnchors, dbVars>> /\ open /\ open' = FALSE
      /\ viewCoins' = NoCoinsAtAll /\ viewNullifiers' = NoNullifiers
      /\ viewAnchors' = NoAnchors /\ viewBlock' = NullBlock /\ viewAnchor' = NullRoot
      /\ tipBlock' = viewBlock /\ tipAnchor' = viewAnchor
  BY DEF FlushView, ClearView, dbVars
<1>1. /\ CoinsInv'
      /\ \A u \in Txids : TipSees(u)' = ViewSees(u) /\ ViewSees(u)' = ViewSees(u)
  BY <1>0, CoinsFlushed DEF IInv, FlushView
<1>2. /\ NullifiersInv'
      /\ \A m \in Nullifiers : /\ TipSpent(m)' <=> ViewSpent(m)
                               /\ ViewSpent(m)' <=> ViewSpent(m)
  BY <1>0, NullifiersFlushed DEF IInv, FlushView
<1>3. /\ AnchorsInv'
      /\ \A q \in Roots : /\ TipEntered(q)' <=> ViewEntered(q)
                          /\ ViewEntered(q)' <=> ViewEntered(q)
  BY <1>0, AnchorsFlushed DEF IInv, FlushView
<1>4. HashInv' /\ ViewInv'
  BY <1>0 DEF IInv, HashInv, ViewInv, dbVars
<1>5. TipBestBlock' = BestBlock /\ TipBestAnchor' = BestAnchor
  BY <1>0 DEF IInv, HashInv, TipBestBlock, TipBestAnchor, BestBlock, BestAnchor
<1>6. BestBlock' = TipBestBlock' /\ BestAnchor' = TipBestAnchor'
  BY <1>0 DEF BestBlock, BestAnchor
<1>7. TipCoins' = ViewCoins /\ ViewCoins' = ViewCoins
  BY <1>1 DEF TipCoins, ViewCoins
<1>8. TipNullifiers' = ViewNullifiers /\ ViewNullifiers' = ViewNullifiers
  BY <1>2 DEF TipNullifiers, ViewNullifiers
<1>9. TipRoots' = ViewRoots /\ ViewRoots' = ViewRoots
  BY <1>3 DEF TipRoots, ViewRoots
<1>10. TipState' = ViewState /\ ViewState' = ViewState
  BY <1>5, <1>6, <1>7, <1>8, <1>9, TipPut, ViewPut
<1>11. DbState' = DbState
  BY <1>0 DEF DbState, dbVars
<1> QED
  BY <1>0, <1>1, <1>2, <1>3, <1>4, <1>10, <1>11 DEF IInv, Map!Commit

LEMMA CloseStep ==
    ASSUME IInv, CloseView
    PROVE  IInv' /\ Map!Drop
<1>0. /\ UNCHANGED <<tipVars, dbVars, dbCoins, dbNullifiers, dbAnchors>>
      /\ tipCoins' = tipCoins /\ tipNullifiers' = tipNullifiers /\ tipAnchors' = tipAnchors
      /\ open /\ open' = FALSE
      /\ viewCoins' = NoCoinsAtAll /\ viewNullifiers' = NoNullifiers
      /\ viewAnchors' = NoAnchors /\ viewBlock' = NullBlock /\ viewAnchor' = NullRoot
  BY DEF CloseView, ClearView, dbVars, tipVars
<1>1. CoinsInv' /\ \A u \in Txids : TipSees(u)' = TipSees(u)
  BY <1>0, CoinsDropped DEF IInv
<1>2. NullifiersInv' /\ \A m \in Nullifiers : TipSpent(m)' <=> TipSpent(m)
  BY <1>0, NullifiersDropped DEF IInv
<1>3. AnchorsInv' /\ \A q \in Roots : TipEntered(q)' <=> TipEntered(q)
  BY <1>0, AnchorsDropped DEF IInv
<1>4. HashInv' /\ ViewInv'
  BY <1>0 DEF IInv, HashInv, ViewInv, tipVars, dbVars
<1>5. DbState' = DbState /\ TipState' = TipState
  BY <1>0, <1>1, <1>2, <1>3, TipUnchanged DEF tipVars
<1>6. ViewState' = TipState'
  BY <1>0, <1>4, ClosedViewNext
<1> QED
  BY <1>0, <1>1, <1>2, <1>3, <1>4, <1>5, <1>6 DEF IInv, Map!Drop

LEMMA FlushTipStep ==
    ASSUME IInv, FlushTip
    PROVE  IInv' /\ Map!Store
<1>0. /\ ~open /\ open' = open
      /\ UNCHANGED <<viewCoins, viewNullifiers, viewAnchors, viewBlock, viewAnchor>>
      /\ UNCHANGED <<tipBlock, tipAnchor>>
      /\ tipCoins' = NoCoinsAtAll /\ tipNullifiers' = NoNullifiers /\ tipAnchors' = NoAnchors
      /\ dbBlock' = TipBestBlock /\ dbAnchor' = TipBestAnchor
  BY DEF FlushTip, viewVars
<1>v. viewCoins = NoCoinsAtAll /\ viewNullifiers = NoNullifiers /\ viewAnchors = NoAnchors
  BY <1>0 DEF IInv, ViewInv
<1>1. CoinsInv' /\ ShowsSameCoins /\ dbCoins' = [t \in Txids |-> TipSees(t)]
  BY <1>0, <1>v, CoinsStored DEF IInv, FlushTip
<1>2. /\ NullifiersInv' /\ ShowsSameNullifiers
      /\ dbNullifiers' = {n \in Nullifiers : TipSpent(n)}
  BY <1>0, <1>v, NullifiersStored DEF IInv, FlushTip
<1>3. /\ AnchorsInv' /\ ShowsSameAnchors
      /\ dbAnchors' \cup {EmptyRoot} = {r \in Roots : TipEntered(r)}
  BY <1>0, <1>v, AnchorsStored DEF IInv, FlushTip
<1>4. HashInv' /\ ViewInv'
  BY <1>0 DEF IInv, HashInv, ViewInv, TipBestBlock, TipBestAnchor
<1>5. TipBestBlock' = TipBestBlock /\ TipBestAnchor' = TipBestAnchor
  BY <1>0 DEF TipBestBlock, TipBestAnchor
<1>6. TipState' = TipState
  BY <1>1, <1>2, <1>3, <1>5, TipPut, SameSets
<1>7. DbState' = TipState
  BY <1>0, <1>1, <1>2, <1>3 DEF DbState, TipState
<1>8. ViewState' = TipState' /\ ViewState = TipState
  BY <1>0, <1>4, ClosedView, ClosedViewNext DEF IInv
<1> QED
  BY <1>0, <1>1, <1>2, <1>3, <1>4, <1>6, <1>7, <1>8 DEF IInv, Map!Store

LEMMA CrashStep ==
    ASSUME IInv, Crash
    PROVE  IInv' /\ Map!Fallback
<1>0. /\ UNCHANGED <<dbVars, dbCoins, dbNullifiers, dbAnchors, dbBlock, dbAnchor>>
      /\ tipCoins' = NoCoinsAtAll /\ tipNullifiers' = NoNullifiers /\ tipAnchors' = NoAnchors
      /\ tipBlock' = NullBlock /\ tipAnchor' = NullRoot
      /\ open' = FALSE
      /\ viewCoins' = NoCoinsAtAll /\ viewNullifiers' = NoNullifiers
      /\ viewAnchors' = NoAnchors /\ viewBlock' = NullBlock /\ viewAnchor' = NullRoot
  BY DEF Crash, ClearView, dbVars
<1>1. CoinsInv' /\ \A u \in Txids : TipSees(u)' = dbCoins[u]
  BY <1>0, CoinsDropped DEF IInv
<1>2. NullifiersInv' /\ \A m \in Nullifiers : TipSpent(m)' <=> m \in dbNullifiers
  BY <1>0, NullifiersDropped DEF IInv
<1>3. AnchorsInv' /\ \A q \in Roots : TipEntered(q)' <=> DbEntered(q)
  BY <1>0, AnchorsDropped DEF IInv
<1>4. HashInv' /\ ViewInv'
  BY <1>0 DEF IInv, HashInv, ViewInv
<1>5. TipBestBlock' = dbBlock /\ TipBestAnchor' = dbAnchor
  BY <1>0 DEF TipBestBlock, TipBestAnchor
<1>6. TipCoins' = dbCoins
  BY <1>1 DEF TipCoins, IInv, CoinsInv
<1>7. TipNullifiers' = dbNullifiers
  BY <1>2 DEF TipNullifiers, IInv, NullifiersInv
<1>8. TipRoots' = dbAnchors \cup {EmptyRoot}
  BY <1>3, RootAssumption DEF TipRoots, DbEntered, IInv, AnchorsInv
<1>9. TipState' = DbState
  BY <1>5, <1>6, <1>7, <1>8, TipPut DEF DbState, Put
<1>10. ViewState' = TipState'
  BY <1>0, <1>4, ClosedViewNext
<1>11. DbState' = DbState
  BY <1>0 DEF DbState, dbVars
<1> QED
  BY <1>0, <1>1, <1>2, <1>3, <1>4, <1>9, <1>10, <1>11 DEF IInv, Map!Fallback

-----------------------------------------------------------------------------
(* The theorems. *)

LEMMA StutterStep ==
    ASSUME IInv, UNCHANGED vars PROVE IInv' /\ UNCHANGED Map!mapVars
<1>0. /\ UNCHANGED <<viewCoins, tipCoins, dbCoins, viewNullifiers, tipNullifiers, dbNullifiers>>
      /\ UNCHANGED <<viewAnchors, tipAnchors, dbAnchors, viewBlock, tipBlock, dbBlock>>
      /\ UNCHANGED <<viewAnchor, tipAnchor, dbAnchor, open, dbVars>>
  BY DEF vars, viewVars, tipVars, dbVars
<1>1. /\ CoinsInv' /\ ShowsSameCoins /\ NullifiersInv' /\ ShowsSameNullifiers
      /\ AnchorsInv' /\ ShowsSameAnchors
  BY <1>0, CoinsKept, NullifiersKept, AnchorsKept DEF IInv
<1>2. HashInv' /\ ViewInv'
  BY <1>0 DEF IInv, HashInv, ViewInv
<1>3. /\ TipBestBlock' = TipBestBlock /\ TipBestAnchor' = TipBestAnchor
      /\ BestBlock' = BestBlock /\ BestAnchor' = BestAnchor
  BY <1>0 DEF TipBestBlock, TipBestAnchor, BestBlock, BestAnchor
<1> QED
  BY <1>0, <1>1, <1>2, <1>3, Stutters DEF IInv

LEMMA NextStep ==
    ASSUME IInv, [Next]_vars PROVE IInv' /\ [Map!MapNext]_(Map!mapVars)
<1>1. CASE Read
  BY <1>1, ReadStep
<1>2. CASE Write
  <2>1. ASSUME NEW t \in Txids, NEW v \in Coins, ModifyCoins(t, v)
        PROVE IInv' /\ Map!MapNext
    BY <2>1, ModifyStep DEF Map!MapNext, Map!Coins, Coins
  <2>2. ASSUME NEW ns \in SUBSET Nullifiers, NEW spent \in BOOLEAN, SetNullifiers(ns, spent)
        PROVE IInv' /\ Map!MapNext
    BY <2>2, SetStep DEF Map!MapNext
  <2>3. ASSUME NEW r \in Roots, PushAnchor(r) PROVE IInv' /\ Map!MapNext
    BY <2>3, PushStep DEF Map!MapNext
  <2>4. ASSUME PopAnchor PROVE IInv' /\ Map!MapNext
    BY <2>4, PopStep DEF Map!MapNext
  <2>5. ASSUME NEW b \in Blocks, SetBestBlock(b) PROVE IInv' /\ Map!MapNext
    BY <2>5, SetBlockStep DEF Map!MapNext
  <2>6. ASSUME NEW b \in Blocks, ConnectGenesis(b) PROVE IInv' /\ Map!MapNext
    BY <2>6, GenesisStep DEF Map!MapNext
  <2> QED
    BY <1>2, <2>1, <2>2, <2>3, <2>4, <2>5, <2>6 DEF Write
<1>3. CASE OpenView
  BY <1>3, OpenStep DEF Map!MapNext
<1>4. CASE FlushView
  BY <1>4, FlushViewStep DEF Map!MapNext
<1>5. CASE CloseView
  BY <1>5, CloseStep DEF Map!MapNext
<1>6. CASE FlushTip
  BY <1>6, FlushTipStep DEF Map!MapNext
<1>7. CASE Crash
  BY <1>7, CrashStep DEF Map!MapNext
<1>8. CASE UNCHANGED vars
  BY <1>8, StutterStep
<1> QED
  BY <1>1, <1>2, <1>3, <1>4, <1>5, <1>6, <1>7, <1>8 DEF Next

\* The layers of views always satisfy the invariant.
THEOREM Invariance == Spec => []IInv
<1>1. Init => IInv
  BY InitStep
<1>2. IInv /\ [Next]_vars => IInv'
  BY NextStep
<1> QED
  BY <1>1, <1>2, PTL DEF Spec

\* The two caches over the database implement the single map that changes in
\* transactions (coins.cpp, CCoinsViewDB::BatchWrite): every step of the caches
\* is a step of the map or shows nothing new.
THEOREM Refinement == Spec => ImplementsMap
<1>1. Init => Map!MapInit
  BY InitStep
<1>2. IInv /\ [Next]_vars => [Map!MapNext]_(Map!mapVars)
  BY NextStep
<1> QED
  BY <1>1, <1>2, Invariance, PTL DEF Spec, ImplementsMap, Map!MapSpec

\* Every variable of the two caches and the database keeps its type.
THEOREM TypeCorrect == Spec => []TypeOK
<1>1. IInv => TypeOK
  BY DEF IInv, CoinsInv, NullifiersInv, AnchorsInv, HashInv, TypeOK
<1> QED
  BY <1>1, Invariance, PTL

\* The DIRTY and FRESH flags never promise what the layer below does not keep.
THEOREM HonestFlags == Spec => []FlagsHonest
<1>1. IInv => FlagsHonest
  BY DEF IInv, CoinsInv, NullifiersInv, AnchorsInv, FlagsHonest
<1> QED
  BY <1>1, Invariance, PTL

\* The assertion of CCoinsViewCache::BatchWrite on an entry that the parent does
\* not have never fails.
THEOREM AssertHolds == Spec => []BatchWriteAsserts
<1>1. IInv => BatchWriteAsserts
  BY DEF IInv, CoinsInv, BatchWriteAsserts
<1> QED
  BY <1>1, Invariance, PTL
MapProofs == INSTANCE CoinsMap_proofs WITH stored <- DbState, committed <- TipState,
                                           pending <- ViewState

\* The instance of the map and the instance of its proofs say the same.
LEMMA SameMap == /\ Map!MapInit <=> MapProofs!MapInit
                 /\ [Map!MapNext]_(Map!mapVars) <=> [MapProofs!MapNext]_(MapProofs!mapVars)
<1>1. Map!MapInit <=> MapProofs!MapInit
  BY DEF Map!MapInit, MapProofs!MapInit, Map!EmptyState, MapProofs!EmptyState
<1>2. [Map!MapNext]_(Map!mapVars) <=> [MapProofs!MapNext]_(MapProofs!mapVars)
  BY DEF Map!MapNext, MapProofs!MapNext, Map!mapVars, MapProofs!mapVars,
     Map!Begin, MapProofs!Begin, Map!Commit, MapProofs!Commit, Map!Drop, MapProofs!Drop,
     Map!Store, MapProofs!Store, Map!Fallback, MapProofs!Fallback, Map!Pop, MapProofs!Pop,
     Map!PutCoins, MapProofs!PutCoins, Map!PutNullifiers, MapProofs!PutNullifiers,
     Map!RemoveNullifiers, MapProofs!RemoveNullifiers, Map!Push, MapProofs!Push,
     Map!PutBlock, MapProofs!PutBlock, Map!CommitGenesis, MapProofs!CommitGenesis,
     Map!Change, MapProofs!Change, Map!Coins, MapProofs!Coins
<1> QED
  BY <1>1, <1>2

\* The tree of the best anchor is always found (BringBestAnchorIntoCache,
\* ConnectBlock), because it is in the map that the layers implement.
THEOREM AnchorFound == Spec => []BestAnchorFound
<1>1. Init => MapProofs!MapInv
  <2>1. MapProofs!MapInit => MapProofs!MapInv
    BY MapProofs!MapInitInv, RootAssumption, NullAssumption
  <2> QED
    BY <2>1, InitStep, SameMap
<1>2. IInv /\ MapProofs!MapInv /\ [Next]_vars => MapProofs!MapInv'
  <2>1. MapProofs!MapInv /\ [MapProofs!MapNext]_(MapProofs!mapVars) => MapProofs!MapInv'
    BY MapProofs!MapNextInv, RootAssumption, NullAssumption
  <2> QED
    BY <2>1, NextStep, SameMap
<1>3. MapProofs!MapInv => BestAnchorFound
  <2>1. MapProofs!MapInv => BestAnchor \in {r \in Roots : ViewEntered(r)}
    BY DEF MapProofs!MapInv, MapProofs!AnchorsInLine, MapProofs!Line, ViewState
  <2> QED
    BY <2>1 DEF BestAnchorFound
<1> QED
  BY <1>1, <1>2, <1>3, Invariance, PTL DEF Spec
=============================================================================
