--------------------------- MODULE CoinsMap_proofs ---------------------------
(* The anchors of every copy of the chain state form one line. *)
EXTENDS CoinsMap, TLAPS

\* The parts of a state that the anchors depend on have their type.
MapTypes ==
    /\ stored.anchors \in SUBSET Roots /\ stored.anchor \in Roots
    /\ committed.anchors \in SUBSET Roots /\ committed.anchor \in Roots
    /\ pending.anchors \in SUBSET Roots /\ pending.anchor \in Roots
    /\ stored \in State /\ committed \in State /\ pending \in State
    /\ open \in BOOLEAN

MapInv == MapTypes /\ AnchorsInLine

\* Growing the line by a root whose predecessor is its end keeps it a line.
LEMMA PushLine ==
    ASSUME NEW s \in State, Line(s), NEW r \in Roots, r # EmptyRoot, Prev[r] = s.anchor,
           NEW s2 \in State, s2.anchors = s.anchors \cup {r}, s2.anchor = r
    PROVE  Line(s2)
<1>1. s.anchors \subseteq Roots /\ s.anchor \in Roots
  BY DEF State
<1>2. r \notin s.anchors
  BY DEF Line
<1>3. \A q \in s.anchors \ {EmptyRoot} : Prev[q] # r
  BY <1>2 DEF Line
<1>4. Prev[r] # r
  BY RootAssumption
<1>5. \A q \in s2.anchors \ {EmptyRoot} : Prev[q] \in s2.anchors /\ Prev[q] # s2.anchor
  BY <1>3, <1>4 DEF Line
<1>6. \A q, p \in s2.anchors \ {EmptyRoot} : Prev[q] = Prev[p] => q = p
  BY DEF Line
<1> QED
  BY <1>5, <1>6 DEF Line

\* Taking the end off a line leaves a line.
LEMMA PopLine ==
    ASSUME NEW s \in State, Line(s), s.anchor # EmptyRoot,
           NEW s2 \in State, s2.anchors = s.anchors \ {s.anchor}, s2.anchor = Prev[s.anchor]
    PROVE  Line(s2)
<1>1. s.anchor \in Roots
  BY DEF State
<1>2. Prev[s.anchor] # s.anchor
  BY <1>1, RootAssumption
<1>3. s2.anchor \in s2.anchors /\ EmptyRoot \in s2.anchors
  BY <1>2 DEF Line
<1>4. \A q \in s2.anchors \ {EmptyRoot} : Prev[q] \in s2.anchors /\ Prev[q] # s2.anchor
  BY DEF Line
<1> QED
  BY <1>3, <1>4 DEF Line

\* A line depends on the anchors and on the best one only.
LEMMA SameLine ==
    ASSUME NEW s, Line(s), NEW s2, s2.anchors = s.anchors, s2.anchor = s.anchor
    PROVE  Line(s2)
BY DEF Line

LEMMA MapInitInv == MapInit => MapInv
<1> SUFFICES ASSUME MapInit PROVE MapInv
  OBVIOUS
<1>1. EmptyState \in State
  BY RootAssumption DEF EmptyState, State, Coins
<1>2. Line(EmptyState)
  BY DEF Line, EmptyState
<1> QED
  BY <1>1, <1>2 DEF MapInit, MapInv, MapTypes, AnchorsInLine, State

\* A change of the pending copy keeps the invariant when the new copy is a line.
LEMMA ChangeInv ==
    ASSUME MapInv, NEW s \in State, Line(s), Change(s)
    PROVE  MapInv'
BY DEF MapInv, MapTypes, AnchorsInLine, Change, State, Line

LEMMA MapNextInv == MapInv /\ [MapNext]_mapVars => MapInv'
<1> SUFFICES ASSUME MapInv, [MapNext]_mapVars PROVE MapInv'
  OBVIOUS
<1>0. /\ stored \in State /\ committed \in State /\ pending \in State
      /\ Line(stored) /\ Line(committed) /\ Line(pending) /\ open \in BOOLEAN
  BY DEF MapInv, MapTypes, AnchorsInLine
<1>1. CASE UNCHANGED mapVars
  BY <1>1 DEF MapInv, MapTypes, AnchorsInLine, Line, mapVars
<1>2. CASE Begin
  BY <1>2 DEF Begin, MapInv, MapTypes, AnchorsInLine, Line
<1>3. CASE Commit
  BY <1>3 DEF Commit, MapInv, MapTypes, AnchorsInLine, Line
<1>4. CASE Drop
  BY <1>4 DEF Drop, MapInv, MapTypes, AnchorsInLine, Line
<1>5. CASE Store
  BY <1>5 DEF Store, MapInv, MapTypes, AnchorsInLine, Line
<1>6. CASE Fallback
  BY <1>6 DEF Fallback, MapInv, MapTypes, AnchorsInLine, Line
<1>7. CASE Pop
  <2> DEFINE s == [pending EXCEPT !.anchors = @ \ {pending.anchor},
                                  !.anchor = Prev[pending.anchor]]
  <2>1. s \in State
    BY <1>0, RootAssumption DEF State
  <2>2. s.anchors = pending.anchors \ {pending.anchor} /\ s.anchor = Prev[pending.anchor]
    BY <1>0 DEF State
  <2>3. pending.anchor # EmptyRoot /\ Change(s)
    BY <1>7 DEF Pop
  <2> HIDE DEF s
  <2>4. Line(s)
    BY <1>0, <2>1, <2>2, <2>3, PopLine
  <2> QED
    BY <2>1, <2>3, <2>4, ChangeInv
<1>8. CASE \E r \in Roots : Push(r)
  <2>1. PICK r \in Roots : Push(r)
    BY <1>8
  <2> DEFINE s == [pending EXCEPT !.anchors = @ \cup {r}, !.anchor = r]
  <2>2. s \in State
    BY <1>0 DEF State
  <2>3. s.anchors = pending.anchors \cup {r} /\ s.anchor = r
    BY <1>0 DEF State
  <2>4. r # EmptyRoot /\ Prev[r] = pending.anchor /\ Change(s)
    BY <2>1 DEF Push
  <2> HIDE DEF s
  <2>5. Line(s)
    BY <1>0, <2>2, <2>3, <2>4, PushLine
  <2> QED
    BY <2>2, <2>4, <2>5, ChangeInv
<1>9. CASE \E t \in Txids, v \in Coins : PutCoins(t, v)
  <2>1. PICK t \in Txids, v \in Coins : PutCoins(t, v)
    BY <1>9
  <2> DEFINE s == [pending EXCEPT !.coins[t] = v]
  <2>2. s \in State /\ s.anchors = pending.anchors /\ s.anchor = pending.anchor
    BY <1>0 DEF State
  <2>3. Change(s)
    BY <2>1 DEF PutCoins
  <2> HIDE DEF s
  <2> QED
    BY <1>0, <2>2, <2>3, SameLine, ChangeInv
<1>10. CASE \E ns \in SUBSET Nullifiers : PutNullifiers(ns) \/ RemoveNullifiers(ns)
  <2>1. PICK ns \in SUBSET Nullifiers : PutNullifiers(ns) \/ RemoveNullifiers(ns)
    BY <1>10
  <2>2. PICK s \in State : /\ s.anchors = pending.anchors /\ s.anchor = pending.anchor
                           /\ Change(s)
    <3>1. CASE PutNullifiers(ns)
      <4> DEFINE s == [pending EXCEPT !.nullifiers = @ \cup ns]
      <4>1. s \in State /\ s.anchors = pending.anchors /\ s.anchor = pending.anchor
        BY <1>0 DEF State
      <4> QED
        BY <4>1, <3>1 DEF PutNullifiers
    <3>2. CASE RemoveNullifiers(ns)
      <4> DEFINE s == [pending EXCEPT !.nullifiers = @ \ ns]
      <4>1. s \in State /\ s.anchors = pending.anchors /\ s.anchor = pending.anchor
        BY <1>0 DEF State
      <4> QED
        BY <4>1, <3>2 DEF RemoveNullifiers
    <3> QED
      BY <2>1, <3>1, <3>2
  <2> QED
    BY <1>0, <2>2, SameLine, ChangeInv
<1>11. CASE \E b \in Blocks : PutBlock(b)
  <2>1. PICK b \in Blocks : PutBlock(b)
    BY <1>11
  <2> DEFINE s == [pending EXCEPT !.block = b]
  <2>2. s \in State /\ s.anchors = pending.anchors /\ s.anchor = pending.anchor
    BY <1>0 DEF State
  <2>3. Change(s)
    BY <2>1 DEF PutBlock
  <2> HIDE DEF s
  <2> QED
    BY <1>0, <2>2, <2>3, SameLine, ChangeInv
<1>12. CASE \E b \in Blocks : CommitGenesis(b)
  <2>1. PICK b \in Blocks : CommitGenesis(b)
    BY <1>12
  <2> DEFINE s == [committed EXCEPT !.block = b]
  <2>2. s \in State /\ s.anchors = committed.anchors /\ s.anchor = committed.anchor
    BY <1>0 DEF State
  <2>3. committed' = s /\ pending' = s /\ UNCHANGED <<stored, open>>
    BY <2>1 DEF CommitGenesis
  <2> HIDE DEF s
  <2>4. Line(s)
    BY <1>0, <2>2, SameLine
  <2> QED
    BY <1>0, <2>2, <2>3, <2>4 DEF MapInv, MapTypes, AnchorsInLine, State, Line
<1> QED
  BY <1>1, <1>2, <1>3, <1>4, <1>5, <1>6, <1>7, <1>8, <1>9, <1>10, <1>11, <1>12 DEF MapNext

\* In every copy of the chain state the best anchor can be looked up and the
\* anchors are those of a single chain of blocks.
THEOREM MapAnchorsInLine == MapSpec => []AnchorsInLine
<1>1. MapInit => MapInv
  BY MapInitInv
<1>2. MapInv /\ [MapNext]_mapVars => MapInv'
  BY MapNextInv
<1>3. MapInv => AnchorsInLine
  BY DEF MapInv
<1> QED
  BY <1>1, <1>2, <1>3, PTL DEF MapSpec
=============================================================================
