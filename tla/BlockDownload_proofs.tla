------------------------ MODULE BlockDownload_proofs ------------------------
(* A stored block is not asked for, windows start at stored blocks, and the *)
(* accounts of the blocks in flight agree, for any tree of blocks, any      *)
(* peers and any limits.                                                    *)
EXTENDS BlockDownload, FiniteSetTheorems, SequenceTheorems, WellFoundedInduction, TLAPS

\* The parts of the state that the two properties depend on have their type.
Types ==
    /\ known \subseteq AllBlocks /\ bestHeader \in known /\ data \subseteq known /\ tip \in AllBlocks
    /\ bestKnown \in [Peers -> AllBlocks \cup {NoBlock}]
    /\ lastUnknown \in [Peers -> AllBlocks \cup {NoBlock}]
    /\ lastCommon \in [Peers -> AllBlocks \cup {NoBlock}]
    /\ flight \in [Blocks -> Peers \cup {NoPeer}]

\* The inductive invariant: the chain of the tip is stored, since a window may start
\* on it.
IInv == Types /\ NotAskedTwice /\ WindowAboveStored /\ Linked(tip, data)

-----------------------------------------------------------------------------
(* The tree. *)

LEMMA TreeFacts ==
    /\ Genesis \in AllBlocks /\ Chain[Genesis] = {} /\ NoBlock \notin AllBlocks
    /\ Blocks \subseteq AllBlocks /\ \A b \in AllBlocks : b # Genesis => b \in Blocks
    /\ \A b \in AllBlocks : /\ Chain[b] \subseteq Blocks /\ Height[b] \in Nat
                            /\ Line(b) \subseteq AllBlocks /\ Genesis \in Line(b)
    /\ \A b \in AllBlocks : \A c \in Line(b) : /\ Chain[c] \subseteq Chain[b]
                                               /\ Height[c] <= Height[b]
<1>1. \A b \in AllBlocks : \A c \in Line(b) : Chain[c] \subseteq Chain[b] /\ Height[c] <= Height[b]
  BY TreeAssumption, ChainAssumption DEF Line, AllBlocks
<1> QED
  BY <1>1, TreeAssumption DEF Line, AllBlocks

\* A set of blocks whose heights are bounded has a highest one.
LEMMA HighestIn ==
    ASSUME NEW S, S \subseteq AllBlocks, S # {}, NEW n \in Nat,
           \A b \in S : Height[b] <= n
    PROVE  Highest(S) \in S
<1> DEFINE T == {n - Height[b] : b \in S}
<1>1. T \subseteq Nat /\ T # {}
  BY TreeFacts
<1>2. PICK x \in T : \A y \in T : ~(<<y, x>> \in OpToRel(<, Nat))
  <2> HIDE DEF T
  <2> QED
    BY <1>1, NatLessThanWellFounded, WFMin, Zenon
<1>3. \A y \in T : ~(y < x)
  <2> HIDE DEF T
  <2> QED
    BY <1>1, <1>2 DEF OpToRel
<1>4. PICK b \in S : x = n - Height[b]
  OBVIOUS
<1>5. \A c \in S : Height[c] <= Height[b]
  <2> SUFFICES ASSUME NEW c \in S PROVE Height[c] <= Height[b]
    OBVIOUS
  <2>1. ~(n - Height[c] < n - Height[b])
    BY <1>3, <1>4
  <2>2. Height[b] \in Nat /\ Height[c] \in Nat
    BY TreeFacts
  <2> QED
    BY <2>1, <2>2
<1> QED
  BY <1>4, <1>5 DEF Highest

\* Below a block whose chain is stored, every chain is.
LEMMA LinkedBelow ==
    ASSUME NEW b \in AllBlocks, NEW c \in Line(b), NEW stored, Linked(b, stored)
    PROVE  Linked(c, stored)
BY TreeFacts DEF Linked

-----------------------------------------------------------------------------
(* FindNextBlocksToDownload. *)

LEMMA CommonAncestor ==
    ASSUME NEW a \in AllBlocks, NEW b \in AllBlocks
    PROVE  LastCommonAncestor(a, b) \in Line(a) \cap Line(b)
<1>1. Line(a) \cap Line(b) \subseteq AllBlocks /\ Line(a) \cap Line(b) # {}
  BY TreeFacts
<1>2. Height[a] \in Nat /\ \A c \in Line(a) \cap Line(b) : Height[c] <= Height[a]
  BY TreeFacts
<1> QED
  BY <1>1, <1>2, HighestIn DEF LastCommonAncestor

\* The walk starts at a block whose chain is stored.
LEMMA StartStored ==
    ASSUME IInv, NEW p \in Peers, NEW best \in AllBlocks
    PROVE  WalkStart(p, best) \in AllBlocks /\ Linked(WalkStart(p, best), data)
<1> DEFINE below == {b \in Line(tip) : Height[b] <= Height[best]}
           guess == Highest(below)
           from == IF lastCommon[p] = NoBlock THEN guess ELSE lastCommon[p]
<1>1. guess \in Line(tip)
  <2>1. below \subseteq AllBlocks /\ below # {}
    BY TreeFacts, TreeAssumption DEF IInv, Types
  <2>2. Height[best] \in Nat /\ \A b \in below : Height[b] <= Height[best]
    BY TreeFacts
  <2>3. guess \in below
    BY <2>1, <2>2, HighestIn
  <2> QED
    BY <2>3
<1>2. guess \in AllBlocks /\ Linked(guess, data)
  BY <1>1, TreeFacts, LinkedBelow DEF IInv, Types
<1>3. from \in AllBlocks /\ Linked(from, data)
  <2>1. CASE lastCommon[p] = NoBlock
    BY <2>1, <1>2
  <2>2. CASE lastCommon[p] # NoBlock
    BY <2>2 DEF IInv, Types, WindowAboveStored
  <2> QED
    BY <2>1, <2>2
<1>4. WalkStart(p, best) = LastCommonAncestor(from, best)
  BY DEF WalkStart
<1> HIDE DEF from
<1>5. LastCommonAncestor(from, best) \in Line(from)
  BY <1>3, CommonAncestor
<1> QED
  BY <1>3, <1>4, <1>5, TreeFacts, LinkedBelow

\* The window moves to a block whose chain is stored.
LEMMA CommonStored ==
    ASSUME NEW start \in AllBlocks, Linked(start, data), NEW best \in AllBlocks
    PROVE  /\ CommonAfter(start, Walk(start, best)) \in AllBlocks
           /\ Linked(CommonAfter(start, Walk(start, best)), data)
<1> DEFINE full == {b \in Walk(start, best) : Linked(b, data)}
<1>1. CASE full = {}
  BY <1>1 DEF CommonAfter
<1>2. CASE full # {}
  <2>1. full \subseteq Chain[best]
    BY DEF Walk
  <2>2. full \subseteq AllBlocks /\ Height[best] \in Nat /\ \A b \in full : Height[b] <= Height[best]
    BY <2>1, TreeFacts DEF Line
  <2>3. Highest(full) \in full
    BY <1>2, <2>2, HighestIn
  <2>4. CommonAfter(start, Walk(start, best)) = Highest(full)
    BY <1>2 DEF CommonAfter
  <2> QED
    BY <2>2, <2>3, <2>4
<1> QED
  BY <1>1, <1>2

\* Only blocks that are neither stored nor in flight are asked for.
LEMMA RequestNew ==
    ASSUME IInv, NEW p \in Peers, NEW s, NEW valid, MarkBlocksAsInFlight(p, s, valid),
           Range(s) \cap data = {}
    PROVE  /\ flight' \in [Blocks -> Peers \cup {NoPeer}]
           /\ \A b \in data \ {Genesis} : flight'[b] = NoPeer
<1>1. flight' = [b \in Blocks |-> IF b \in Range(s) THEN p ELSE flight[b]]
  BY DEF MarkBlocksAsInFlight
<1>2. \A b \in data \ {Genesis} : b \in Blocks
  BY TreeFacts DEF IInv, Types
<1>3. flight \in [Blocks -> Peers \cup {NoPeer}]
  BY DEF IInv, Types
<1> QED
  BY <1>1, <1>2, <1>3 DEF IInv, NotAskedTwice

\* A request that is over leaves at most fewer blocks in flight.
LEMMA ReceivedFrees ==
    ASSUME IInv, NEW b \in Blocks, MarkBlockAsReceived(b)
    PROVE  /\ flight' \in [Blocks -> Peers \cup {NoPeer}]
           /\ \A c \in (data \ {Genesis}) \cup {b} : flight'[c] = NoPeer
<1>1. \A c \in data \ {Genesis} : c \in Blocks /\ flight[c] = NoPeer
  BY TreeFacts DEF IInv, Types, NotAskedTwice
<1>2. flight \in [Blocks -> Peers \cup {NoPeer}]
  BY DEF IInv, Types
<1>3. CASE flight[b] = NoPeer
  <2>1. flight' = flight
    BY <1>3 DEF MarkBlockAsReceived, flightVars
  <2> QED
    BY <2>1, <1>1, <1>2, <1>3
<1>4. CASE flight[b] # NoPeer
  <2>1. flight' = [flight EXCEPT ![b] = NoPeer]
    BY <1>4 DEF MarkBlockAsReceived
  <2> QED
    BY <2>1, <1>1, <1>2
<1> QED
  BY <1>3, <1>4

-----------------------------------------------------------------------------
(* The actions. *)

\* Actions that leave the tree, the windows and the announcements alone
LEMMA KeepsInv ==
    ASSUME IInv, UNCHANGED <<treeVars, availVars>>, flight' \in [Blocks -> Peers \cup {NoPeer}],
           \A b \in data \ {Genesis} : flight'[b] = NoPeer
    PROVE  IInv'
BY DEF IInv, Types, NotAskedTwice, WindowAboveStored, Linked, treeVars, availVars

LEMMA ConnectionStep ==
    ASSUME IInv, NEW p \in Peers, InitializeNode(p) \/ Version(p) \/ Disconnect(p)
    PROVE  IInv'
<1>1. UNCHANGED <<treeVars, availVars>> /\ flight' = flight
  BY DEF InitializeNode, Version, Disconnect, flightVars
<1> QED
  BY <1>1, KeepsInv DEF IInv, Types, NotAskedTwice

LEMMA FinalizeStep ==
    ASSUME IInv, NEW p \in Peers, FinalizeNode(p)
    PROVE  IInv'
<1> USE DEF IInv, Types
<1>1. /\ flight' \in [Blocks -> Peers \cup {NoPeer}]
      /\ \A b \in Blocks : flight[b] = NoPeer => flight'[b] = NoPeer
  BY DEF FinalizeNode
<1>2. /\ bestKnown' = [bestKnown EXCEPT ![p] = NoBlock]
      /\ lastUnknown' = [lastUnknown EXCEPT ![p] = NoBlock]
      /\ lastCommon' = [lastCommon EXCEPT ![p] = NoBlock]
      /\ UNCHANGED <<known, bestHeader, data, tip>>
  BY DEF FinalizeNode, EraseState, treeVars
<1>3. Types'
  BY <1>1, <1>2
<1>4. NotAskedTwice'
  BY <1>1, <1>2, TreeFacts DEF NotAskedTwice
<1>5. WindowAboveStored' /\ Linked(tip, data)'
  BY <1>2 DEF WindowAboveStored, Linked
<1> QED
  BY <1>3, <1>4, <1>5

LEMMA InvStep ==
    ASSUME IInv, NEW p \in Peers, NEW b \in Blocks, Inv(p, b)
    PROVE  IInv'
<1>1. /\ flight' \in [Blocks -> Peers \cup {NoPeer}]
      /\ \A c \in data \ {Genesis} : flight'[c] = NoPeer
  <2>1. CASE flight' = flight
    BY <2>1 DEF IInv, Types, NotAskedTwice
  <2>2. CASE MarkBlocksAsInFlight(p, <<b>>, FALSE) /\ b \notin known
    <3>1. Range(<<b>>) = {b}
      BY DEF Range
    <3>2. Range(<<b>>) \cap data = {}
      BY <3>1, <2>2 DEF IInv, Types
    <3> QED
      BY <2>2, <3>2, RequestNew
  <2> QED
    BY <2>1, <2>2 DEF Inv, flightVars
<1>2. /\ lastUnknown' = [lastUnknown EXCEPT ![p] = b]
      /\ UNCHANGED <<known, bestHeader, data, tip, bestKnown, lastCommon>>
  BY DEF Inv, treeVars
<1>3. b \in AllBlocks
  BY TreeFacts
<1> QED
  BY <1>1, <1>2, <1>3 DEF IInv, Types, NotAskedTwice, WindowAboveStored, Linked

\* AddToBlockIndex keeps pindexBestHeader in the index.
LEMMA HeadersAdded ==
    ASSUME IInv, NEW b \in AllBlocks, NEW new, new \subseteq Chain[b], AddHeaders(new)
    PROVE  known' = known \cup new /\ known' \subseteq AllBlocks /\ bestHeader' \in known'
<1> DEFINE better == {c \in new : Height[c] > Height[bestHeader]}
<1>1. /\ known' = known \cup new
      /\ bestHeader' = IF better = {} THEN bestHeader ELSE Highest(better)
  BY DEF AddHeaders
<1>2. new \subseteq AllBlocks /\ Height[b] \in Nat /\ \A c \in new : Height[c] <= Height[b]
  BY TreeFacts DEF Line
<1>3. better # {} => Highest(better) \in better
  BY <1>2, HighestIn
<1> QED
  BY <1>1, <1>2, <1>3 DEF IInv, Types

LEMMA HeadersStep ==
    ASSUME IInv, NEW p \in Peers, NEW a, NEW b \in Blocks, Headers(p, a, b)
    PROVE  IInv'
<1>1. b \in AllBlocks
  BY TreeFacts
<1>2. \/ UNCHANGED <<known, bestHeader>>
      \/ \E new \in SUBSET Chain[b] : AddHeaders(new)
  BY DEF Headers
<1>3. known \subseteq known' /\ known' \subseteq AllBlocks /\ bestHeader' \in known'
  <2>1. CASE UNCHANGED <<known, bestHeader>>
    BY <2>1 DEF IInv, Types
  <2>2. CASE \E new \in SUBSET Chain[b] : AddHeaders(new)
    BY <1>1, <2>2, HeadersAdded
  <2> QED
    BY <1>2, <2>1, <2>2
<1>4. lastUnknown' = lastUnknown \/ lastUnknown' = [lastUnknown EXCEPT ![p] = b]
  BY DEF Headers
<1>5. UNCHANGED <<data, tip, bestKnown, lastCommon, flight>>
  BY DEF Headers, flightVars
<1>6. Types'
  BY <1>1, <1>3, <1>4, <1>5 DEF IInv, Types
<1> QED
  BY <1>5, <1>6 DEF IInv, NotAskedTwice, WindowAboveStored, Linked

LEMMA BlockStep ==
    ASSUME IInv, NEW p \in Peers, NEW b \in Blocks, NEW intact \in BOOLEAN,
           ProcessNewBlock(p, b, intact)
    PROVE  IInv'
<1>1. /\ flight' \in [Blocks -> Peers \cup {NoPeer}]
      /\ \A c \in (data \ {Genesis}) \cup {b} : flight'[c] = NoPeer
  BY ReceivedFrees DEF ProcessNewBlock
<1>2. UNCHANGED <<bestKnown, lastUnknown, lastCommon>>
  BY DEF ProcessNewBlock, availVars
<1>3. b \in AllBlocks
  BY TreeFacts
<1>4. \/ UNCHANGED <<known, bestHeader, data, tip>>
      \/ AddHeaders({b} \ known) /\ UNCHANGED <<data, tip>>
      \/ AddHeaders({b} \ known) /\ data' = data \cup {b} /\ ActivateBestChain(data')
  BY DEF ProcessNewBlock, AcceptBlock, treeVars
<1>7. AddHeaders({b} \ known) =>
        known' = known \cup {b} /\ known' \subseteq AllBlocks /\ bestHeader' \in known'
  <2>1. {b} \ known \subseteq Chain[b]
    BY TreeAssumption
  <2> QED
    BY <1>3, <2>1, HeadersAdded
<1>5. CASE /\ data' = data /\ tip' = tip
           /\ \/ UNCHANGED <<known, bestHeader>>
              \/ AddHeaders({b} \ known)
  <2>1. known \subseteq known' /\ known' \subseteq AllBlocks /\ bestHeader' \in known'
    BY <1>5, <1>7 DEF IInv, Types
  <2> QED
    BY <1>1, <1>2, <1>5, <2>1 DEF IInv, Types, NotAskedTwice, WindowAboveStored, Linked
<1>6. CASE AddHeaders({b} \ known) /\ data' = data \cup {b} /\ ActivateBestChain(data')
  <2>1. tip' \in AllBlocks /\ Linked(tip', data')
    <3>1. CASE tip' = tip
      BY <3>1, <1>6 DEF IInv, Types, Linked
    <3>2. CASE tip' \in Blocks /\ Linked(tip', data')
      BY <3>2, TreeFacts
    <3> QED
      BY <1>6, <3>1, <3>2 DEF ActivateBestChain
  <2>2. Types'
    BY <1>1, <1>2, <1>3, <1>6, <1>7, <2>1 DEF IInv, Types
  <2>3. NotAskedTwice'
    BY <1>1, <1>6 DEF NotAskedTwice
  <2>4. WindowAboveStored'
    BY <1>2, <1>6 DEF IInv, WindowAboveStored, Linked
  <2> QED
    BY <2>1, <2>2, <2>3, <2>4 DEF IInv, Linked
<1> QED
  BY <1>4, <1>5, <1>6

LEMMA RequestStep ==
    ASSUME IInv, NEW p \in Peers, RequestBlocks(p), UNCHANGED treeVars
    PROVE  IInv'
<1> DEFINE best == BestKnown(p)
<1>1. best \in AllBlocks \cup {NoBlock}
  BY DEF IInv, Types, BestKnown, NowKnown
<1>2. /\ bestKnown' = [bestKnown EXCEPT ![p] = best]
      /\ lastUnknown' = [lastUnknown EXCEPT ![p] = IF NowKnown(p) THEN NoBlock ELSE @]
  BY DEF RequestBlocks
<1>3. /\ bestKnown' \in [Peers -> AllBlocks \cup {NoBlock}]
      /\ lastUnknown' \in [Peers -> AllBlocks \cup {NoBlock}]
  <2> HIDE DEF best
  <2> QED
    BY <1>1, <1>2 DEF IInv, Types
<1>4. /\ lastCommon' \in [Peers -> AllBlocks \cup {NoBlock}]
      /\ \A q \in Peers : lastCommon'[q] # NoBlock => Linked(lastCommon'[q], data)
      /\ flight' \in [Blocks -> Peers \cup {NoPeer}]
      /\ \A b \in data \ {Genesis} : flight'[b] = NoPeer
  <2>1. CASE lastCommon' = lastCommon /\ flight' = flight
    BY <2>1 DEF IInv, Types, NotAskedTwice, WindowAboveStored
  <2>2. CASE ~(best = NoBlock \/ Height[best] < Height[tip])
    <3> DEFINE start == WalkStart(p, best)
               walk == Walk(start, best)
               fetch == InWindow(start, Missing(walk))
               after == CommonAfter(start, walk)
    <3>1. best \in AllBlocks
      BY <1>1, <2>2
    <3>2. /\ lastCommon' = [lastCommon EXCEPT ![p] = after]
          /\ \E n : \E s \in [1..n -> fetch] : MarkBlocksAsInFlight(p, s, TRUE)
      BY <2>2 DEF RequestBlocks
    <3>3. start \in AllBlocks /\ Linked(start, data)
      <4> HIDE DEF best
      <4> QED
        BY <3>1, StartStored
    <3>4. after \in AllBlocks /\ Linked(after, data)
      <4> HIDE DEF best, start
      <4> QED
        BY <3>1, <3>3, CommonStored
    <3>5. fetch \cap data = {}
      BY DEF InWindow, Missing
    <3>6. PICK n : \E s \in [1..n -> fetch] : MarkBlocksAsInFlight(p, s, TRUE)
      BY <3>2
    <3>7. PICK s \in [1..n -> fetch] : MarkBlocksAsInFlight(p, s, TRUE)
      BY <3>6
    <3> HIDE DEF best, start, walk, fetch, after
    <3>8. Range(s) \cap data = {}
      BY <3>5, <3>7 DEF Range
    <3>9. /\ flight' \in [Blocks -> Peers \cup {NoPeer}]
          /\ \A b \in data \ {Genesis} : flight'[b] = NoPeer
      BY <3>7, <3>8, RequestNew
    <3> QED
      BY <3>2, <3>4, <3>9 DEF IInv, Types, WindowAboveStored
  <2> QED
    BY <2>1, <2>2 DEF RequestBlocks, flightVars
<1> QED
  BY <1>3, <1>4 DEF IInv, Types, NotAskedTwice, WindowAboveStored, Linked, treeVars

LEMMA SendStep ==
    ASSUME IInv, NEW p \in Peers, SendMessages(p)
    PROVE  IInv'
<1>1. UNCHANGED treeVars
  BY DEF SendMessages
<1>2. CASE RequestBlocks(p)
  BY <1>1, <1>2, RequestStep
<1>3. CASE UNCHANGED <<availVars, flightVars>>
  <2>1. flight' = flight
    BY <1>3 DEF flightVars
  <2> QED
    BY <1>1, <1>3, <2>1, KeepsInv DEF IInv, Types, NotAskedTwice
<1> QED
  BY <1>2, <1>3 DEF SendMessages

LEMMA TimeoutStep ==
    ASSUME IInv, NEW p \in Peers, NEW b, SendTimeout(p, b)
    PROVE  IInv'
<1>1. UNCHANGED <<treeVars, availVars>> /\ flight' = flight
  BY DEF SendTimeout, flightVars
<1> QED
  BY <1>1, KeepsInv DEF IInv, Types, NotAskedTwice

-----------------------------------------------------------------------------
LEMMA InitInv == Init => IInv
BY TreeFacts DEF Init, IInv, Types, NotAskedTwice, WindowAboveStored, Linked

LEMMA NextInv == IInv /\ [Next]_vars => IInv'
<1> SUFFICES ASSUME IInv, [Next]_vars PROVE IInv'
  OBVIOUS
<1>1. CASE UNCHANGED vars
  BY <1>1 DEF vars, treeVars, availVars, flightVars, IInv, Types, NotAskedTwice,
              WindowAboveStored, Linked
<1>2. CASE Next
  <2>1. PICK p \in Peers :
          \/ InitializeNode(p) \/ Version(p) \/ Disconnect(p) \/ FinalizeNode(p)
          \/ \E b \in Sends[p] :
                \/ Inv(p, b)
                \/ \E a \in Line(b) : Headers(p, a, b)
                \/ \E intact \in BOOLEAN : ProcessNewBlock(p, b, intact)
          \/ SendMessages(p)
          \/ \E b \in Blocks \cup {NoBlock} : SendTimeout(p, b)
    BY <1>2 DEF Next
  <2>2. Sends[p] \subseteq Blocks
    BY PeerAssumption
  <2>3. CASE InitializeNode(p) \/ Version(p) \/ Disconnect(p)
    BY <2>3, ConnectionStep
  <2>4. CASE FinalizeNode(p)
    BY <2>4, FinalizeStep
  <2>5. CASE \E b \in Sends[p] : Inv(p, b) \/ \E a \in Line(b) : Headers(p, a, b)
    BY <2>2, <2>5, InvStep, HeadersStep
  <2>6. CASE \E b \in Sends[p], intact \in BOOLEAN : ProcessNewBlock(p, b, intact)
    BY <2>2, <2>6, BlockStep
  <2>7. CASE SendMessages(p)
    BY <2>7, SendStep
  <2>8. CASE \E b \in Blocks \cup {NoBlock} : SendTimeout(p, b)
    BY <2>8, TimeoutStep
  <2> QED
    BY <2>1, <2>3, <2>4, <2>5, <2>6, <2>7, <2>8
<1> QED
  BY <1>1, <1>2

\* The inductive invariant holds in every behaviour of the node and its peers.
LEMMA Invariance == Spec => []IInv
BY InitInv, NextInv, PTL DEF Spec

\* No block that AcceptBlock has stored is in flight, whoever delivered it
\* (MarkBlockAsReceived in ProcessNewBlock, FindNextBlocksToDownload).
THEOREM StoredNotAsked == Spec => []NotAskedTwice
<1>1. IInv => NotAskedTwice
  BY DEF IInv
<1> QED
  BY <1>1, Invariance, PTL

\* pindexLastCommonBlock of every peer has its whole chain stored, so that
\* FindNextBlocksToDownload never passes over a missing block.
THEOREM WindowSound == Spec => []WindowAboveStored
<1>1. IInv => WindowAboveStored
  BY DEF IInv
<1> QED
  BY <1>1, Invariance, PTL

-----------------------------------------------------------------------------
(* The accounts of the blocks in flight.  No peer is asked twice for a block, *)
(* so a list is as long as the set of its hashes is large.                    *)

Hashes(s) == {s[i].hash : i \in DOMAIN s}
Distinct(s) == \A i, j \in DOMAIN s : i # j => s[i].hash # s[j].hash
AskedOf(p) == {b \in Blocks : flight[b] = p}
AllValidated == UNION {Validated(p) : p \in Peers}

FlightTypes ==
    /\ stalling \subseteq Peers
    /\ flight \in [Blocks -> Peers \cup {NoPeer}]
    /\ queue \in [Peers -> Seq(QueuedBlock)]
    /\ inFlight \in [Peers -> 0..InTransit] /\ validHeaders \in [Peers -> 0..InTransit]
    /\ nQueuedValidatedHeaders \in Nat

PeerFlight(p) ==
    /\ Distinct(queue[p])
    /\ AskedOf(p) = Hashes(queue[p])
    /\ inFlight[p] = Len(queue[p])
    /\ validHeaders[p] = Cardinality(Validated(p))
    /\ p \in stalling => queue[p] # << >>

AskedOfNodes == \A b \in Blocks : flight[b] # NoPeer => flight[b] \in Nodes

TotalCovers == IsFiniteSet(AllValidated) /\ nQueuedValidatedHeaders >= Cardinality(AllValidated)

FlightInv == FlightTypes /\ AskedOfNodes /\ TotalCovers /\ \A p \in Peers : PeerFlight(p)

-----------------------------------------------------------------------------
(* Lists of requests. *)

LEMMA QueueElements ==
    ASSUME NEW s \in Seq(QueuedBlock)
    PROVE  /\ Len(s) \in Nat /\ DOMAIN s = 1..Len(s)
           /\ \A i \in DOMAIN s : /\ s[i] \in QueuedBlock /\ s[i].hash \in Blocks
                                  /\ s[i].valid \in BOOLEAN
                                  /\ s[i] = [hash |-> s[i].hash, valid |-> s[i].valid]
<1>1. Len(s) \in Nat /\ DOMAIN s = 1..Len(s) /\ \A i \in DOMAIN s : s[i] \in QueuedBlock
  BY LenProperties, ElementOfSeq
<1>2. \A e \in QueuedBlock : /\ e.hash \in Blocks /\ e.valid \in BOOLEAN
                             /\ e = [hash |-> e.hash, valid |-> e.valid]
  BY DEF QueuedBlock
<1> QED
  BY <1>1, <1>2

LEMMA HashCount ==
    ASSUME NEW s \in Seq(QueuedBlock), Distinct(s)
    PROVE  IsFiniteSet(Hashes(s)) /\ Cardinality(Hashes(s)) = Len(s)
<1> DEFINE f == [i \in 1..Len(s) |-> s[i].hash]
<1>1. Len(s) \in Nat /\ DOMAIN s = 1..Len(s)
  BY QueueElements
<1>2. f \in Bijection(1..Len(s), Hashes(s))
  <2>1. \A i \in 1..Len(s) : f[i] = s[i].hash
    OBVIOUS
  <2>2. f \in [1..Len(s) -> Hashes(s)]
    BY <1>1 DEF Hashes
  <2>3. \A i, j \in 1..Len(s) : f[i] = f[j] => i = j
    BY <1>1, <2>1 DEF Distinct
  <2>4. \A h \in Hashes(s) : \E i \in 1..Len(s) : f[i] = h
    BY <1>1, <2>1 DEF Hashes
  <2> HIDE DEF f
  <2> QED
    BY <2>2, <2>3, <2>4 DEF Bijection, Injection, Surjection, IsInjective
<1>3. ExistsBijection(1..Len(s), Hashes(s))
  BY <1>2 DEF ExistsBijection
<1>4. IsFiniteSet(1..Len(s)) /\ Cardinality(1..Len(s)) = Len(s)
  BY <1>1, FS_Interval
<1> QED
  BY <1>3, <1>4, FS_Bijection

LEMMA Removed ==
    ASSUME NEW s \in Seq(QueuedBlock), Distinct(s), NEW k \in DOMAIN s
    PROVE  /\ RemoveAt(s, k) \in Seq(QueuedBlock) /\ Len(RemoveAt(s, k)) = Len(s) - 1
           /\ Distinct(RemoveAt(s, k))
           /\ Hashes(RemoveAt(s, k)) = Hashes(s) \ {s[k].hash}
           /\ Range(RemoveAt(s, k)) = Range(s) \ {s[k]}
<1> DEFINE t == RemoveAt(s, k)
           n == Len(s)
           u == SubSeq(s, 1, k - 1)
           v == SubSeq(s, k + 1, n)
<1>1. n \in Nat /\ DOMAIN s = 1..n /\ k \in 1..n /\ k \in Nat /\ n = Len(s)
      /\ \A i \in 1..n : s[i] \in QueuedBlock
  BY QueueElements
<1>2. /\ u \in Seq(QueuedBlock) /\ Len(u) = k - 1 /\ \A i \in 1..(k - 1) : u[i] = s[i]
  <2> HIDE DEF n
  <2>1. \A i \in 1..(k - 1) : s[i] \in QueuedBlock
    BY <1>1
  <2>2. /\ u \in Seq(QueuedBlock) /\ Len(u) = IF 1 <= k - 1 THEN k - 1 - 1 + 1 ELSE 0
        /\ \A i \in 1..(k - 1 - 1 + 1) : u[i] = s[1 + i - 1]
    <3>1. 1 \in Int /\ k - 1 \in Int
      BY <1>1
    <3> QED
      BY <2>1, <3>1, SubSeqProperties
  <2> QED
    BY <2>2, <1>1
<1>3. /\ v \in Seq(QueuedBlock) /\ Len(v) = n - k /\ \A i \in 1..(n - k) : v[i] = s[k + i]
  <2> HIDE DEF n
  <2>1. \A i \in (k + 1)..n : s[i] \in QueuedBlock
    BY <1>1
  <2>2. /\ v \in Seq(QueuedBlock) /\ Len(v) = IF k + 1 <= n THEN n - (k + 1) + 1 ELSE 0
        /\ \A i \in 1..(n - (k + 1) + 1) : v[i] = s[k + 1 + i - 1]
    <3>1. k + 1 \in Int /\ n \in Int
      BY <1>1
    <3> QED
      BY <2>1, <3>1, SubSeqProperties
  <2> QED
    BY <2>2, <1>1
<1>4. t = u \o v
  BY DEF RemoveAt
<1> HIDE DEF n, u, v, t
<1>5. /\ t \in Seq(QueuedBlock) /\ Len(t) = (k - 1) + (n - k)
      /\ \A i \in 1..((k - 1) + (n - k)) : t[i] = IF i <= k - 1 THEN u[i] ELSE v[i - (k - 1)]
  <2>1. u \in Seq(QueuedBlock) /\ v \in Seq(QueuedBlock) /\ Len(u) = k - 1 /\ Len(v) = n - k
    BY <1>2, <1>3
  <2>2. /\ u \o v \in Seq(QueuedBlock) /\ Len(u \o v) = Len(u) + Len(v)
        /\ \A i \in 1..(Len(u) + Len(v)) : (u \o v)[i] = IF i <= Len(u) THEN u[i] ELSE v[i - Len(u)]
    BY <2>1, ConcatProperties
  <2> QED
    BY <1>4, <2>1, <2>2
<1>6. Len(t) = n - 1 /\ DOMAIN t = 1..(n - 1)
  BY <1>1, <1>5, QueueElements
<1>7. ASSUME NEW i \in 1..(n - 1) PROVE t[i] = s[IF i < k THEN i ELSE i + 1]
  <2>1. t[i] = IF i <= k - 1 THEN u[i] ELSE v[i - (k - 1)]
    BY <1>1, <1>5
  <2>2. CASE i < k
    BY <1>1, <1>2, <2>1, <2>2
  <2>3. CASE ~(i < k)
    <3>1. i - (k - 1) \in 1..(n - k) /\ k + (i - (k - 1)) = i + 1
      BY <1>1, <2>3
    <3> QED
      BY <1>1, <1>3, <2>1, <2>3, <3>1
  <2> QED
    BY <2>2, <2>3
<1>8. ASSUME NEW i \in 1..n, i # k
      PROVE  \E j \in 1..(n - 1) : t[j] = s[i]
  <2> DEFINE j == IF i < k THEN i ELSE i - 1
  <2>1. j \in 1..(n - 1) /\ (IF j < k THEN j ELSE j + 1) = i
    BY <1>1, <1>8
  <2> QED
    BY <2>1, <1>7
<1>9. \A i \in 1..(n - 1) : (IF i < k THEN i ELSE i + 1) \in 1..n /\ (IF i < k THEN i ELSE i + 1) # k
  BY <1>1
<1>10. Distinct(t)
  <2> SUFFICES ASSUME NEW i \in 1..(n - 1), NEW j \in 1..(n - 1), i # j PROVE t[i].hash # t[j].hash
    BY <1>6 DEF Distinct
  <2>1. (IF i < k THEN i ELSE i + 1) # (IF j < k THEN j ELSE j + 1)
    BY <1>1
  <2> QED
    BY <1>1, <1>7, <1>9, <2>1 DEF Distinct
<1>11. \A e : (\E i \in DOMAIN t : t[i] = e) <=> \E i \in DOMAIN s : s[i] = e /\ i # k
  <2> SUFFICES ASSUME NEW e
               PROVE  (\E i \in 1..(n - 1) : t[i] = e) <=> \E i \in 1..n : s[i] = e /\ i # k
    BY <1>1, <1>6
  <2>1. ASSUME NEW i \in 1..(n - 1), t[i] = e PROVE \E j \in 1..n : s[j] = e /\ j # k
    BY <2>1, <1>7, <1>9
  <2>2. ASSUME NEW i \in 1..n, s[i] = e, i # k PROVE \E j \in 1..(n - 1) : t[j] = e
    BY <2>2, <1>8
  <2> QED
    BY <2>1, <2>2
<1>12. Hashes(t) = Hashes(s) \ {s[k].hash}
  <2>1. ASSUME NEW h PROVE h \in Hashes(t) <=> h \in Hashes(s) /\ h # s[k].hash
    <3>1. h \in Hashes(t) <=> \E i \in DOMAIN t : t[i].hash = h
      BY DEF Hashes
    <3>2. h \in Hashes(s) <=> \E i \in DOMAIN s : s[i].hash = h
      BY DEF Hashes
    <3>3. \A i \in DOMAIN s : i # k <=> s[i].hash # s[k].hash
      BY DEF Distinct
    <3>4. ASSUME NEW i \in DOMAIN t PROVE \E j \in DOMAIN s : t[i] = s[j] /\ j # k
      BY <1>11
    <3>5. ASSUME NEW j \in DOMAIN s, j # k PROVE \E i \in DOMAIN t : t[i] = s[j]
      BY <1>11, <3>5
    <3> QED
      BY <3>1, <3>2, <3>3, <3>4, <3>5
  <2> QED
    BY <2>1
<1>13. Range(t) = Range(s) \ {s[k]}
  <2>1. \A i \in DOMAIN s : i # k <=> s[i] # s[k]
    BY DEF Distinct
  <2>2. ASSUME NEW e PROVE e \in Range(t) <=> e \in Range(s) /\ e # s[k]
    <3>1. /\ e \in Range(t) <=> \E i \in DOMAIN t : t[i] = e
          /\ e \in Range(s) <=> \E i \in DOMAIN s : s[i] = e
      BY DEF Range
    <3> QED
      BY <1>11, <2>1, <3>1
  <2> QED
    BY <2>2
<1> QED
  BY <1>1, <1>5, <1>6, <1>10, <1>12, <1>13 DEF t

LEMMA Added ==
    ASSUME NEW s \in Seq(QueuedBlock), Distinct(s), NEW t \in Seq(QueuedBlock), Distinct(t),
           Hashes(s) \cap Hashes(t) = {}
    PROVE  /\ s \o t \in Seq(QueuedBlock) /\ Len(s \o t) = Len(s) + Len(t) /\ Distinct(s \o t)
           /\ Hashes(s \o t) = Hashes(s) \cup Hashes(t)
           /\ Range(s \o t) = Range(s) \cup Range(t)
<1> DEFINE u == s \o t
           m == Len(s)
           n == Len(t)
<1>1. m \in Nat /\ DOMAIN s = 1..m /\ n \in Nat /\ DOMAIN t = 1..n
  BY QueueElements
<1>2. /\ u \in Seq(QueuedBlock) /\ Len(u) = m + n
      /\ \A i \in 1..(m + n) : u[i] = IF i <= m THEN s[i] ELSE t[i - m]
  BY ConcatProperties
<1>3. DOMAIN u = 1..(m + n)
  BY <1>2, QueueElements
<1> HIDE DEF m, n, u
<1>4. ASSUME NEW i \in 1..(m + n)
      PROVE  \/ i \in 1..m /\ u[i] = s[i]
             \/ i - m \in 1..n /\ i > m /\ u[i] = t[i - m]
  BY <1>1, <1>2
<1>5. \A i \in 1..m : i \in 1..(m + n) /\ u[i] = s[i]
  BY <1>1, <1>2
<1>6. \A i \in 1..n : i + m \in 1..(m + n) /\ u[i + m] = t[i]
  <2> TAKE i \in 1..n
  <2>1. i + m \in 1..(m + n) /\ ~(i + m <= m) /\ (i + m) - m = i
    BY <1>1
  <2> QED
    BY <1>2, <2>1
<1>7. Distinct(u)
  <2> SUFFICES ASSUME NEW i \in 1..(m + n), NEW j \in 1..(m + n), i # j PROVE u[i].hash # u[j].hash
    BY <1>3 DEF Distinct
  <2>1. \A k \in 1..m, l \in 1..n : s[k].hash # t[l].hash
    BY <1>1 DEF Hashes
  <2>2. CASE i \in 1..m /\ u[i] = s[i] /\ j \in 1..m /\ u[j] = s[j]
    BY <1>1, <2>2 DEF Distinct
  <2>3. CASE i - m \in 1..n /\ i > m /\ u[i] = t[i - m] /\ j - m \in 1..n /\ j > m /\ u[j] = t[j - m]
    <3>1. i - m # j - m
      BY <1>1
    <3> QED
      BY <1>1, <2>3, <3>1 DEF Distinct
  <2> QED
    BY <1>4, <2>1, <2>2, <2>3
<1>8. \A e : (\E i \in DOMAIN u : u[i] = e) <=> \/ \E i \in DOMAIN s : s[i] = e
                                                \/ \E i \in DOMAIN t : t[i] = e
  BY <1>1, <1>3, <1>4, <1>5, <1>6
<1>9. ASSUME NEW h PROVE h \in Hashes(u) <=> h \in Hashes(s) \/ h \in Hashes(t)
  <2>1. /\ h \in Hashes(u) <=> \E i \in DOMAIN u : u[i].hash = h
        /\ h \in Hashes(s) <=> \E i \in DOMAIN s : s[i].hash = h
        /\ h \in Hashes(t) <=> \E i \in DOMAIN t : t[i].hash = h
    BY DEF Hashes
  <2>2. ASSUME NEW i \in DOMAIN u PROVE \/ \E j \in DOMAIN s : s[j] = u[i]
                                        \/ \E j \in DOMAIN t : t[j] = u[i]
    BY <1>8
  <2>3. ASSUME NEW i \in DOMAIN s PROVE \E j \in DOMAIN u : u[j] = s[i]
    BY <1>8
  <2>4. ASSUME NEW i \in DOMAIN t PROVE \E j \in DOMAIN u : u[j] = t[i]
    BY <1>8
  <2>5. h \in Hashes(u) => h \in Hashes(s) \/ h \in Hashes(t)
    BY <2>1, <2>2
  <2>6. h \in Hashes(s) => h \in Hashes(u)
    BY <2>1, <2>3
  <2>7. h \in Hashes(t) => h \in Hashes(u)
    BY <2>1, <2>4
  <2> QED
    BY <2>5, <2>6, <2>7
<1>10. ASSUME NEW e PROVE e \in Range(u) <=> e \in Range(s) \/ e \in Range(t)
  <2>1. /\ e \in Range(u) <=> \E i \in DOMAIN u : u[i] = e
        /\ e \in Range(s) <=> \E i \in DOMAIN s : s[i] = e
        /\ e \in Range(t) <=> \E i \in DOMAIN t : t[i] = e
    BY DEF Range
  <2> QED
    BY <2>1, <1>8
<1> QED
  BY <1>2, <1>7, <1>9, <1>10 DEF m, n, u

LEMMA ValidatedIn ==
    ASSUME NEW p, NEW b \in Blocks
    PROVE  b \in Validated(p) <=> [hash |-> b, valid |-> TRUE] \in Range(queue[p])
BY DEF Validated, Range

\* The requests to a peer are finitely many, those with a header among them.
LEMMA PeerCount ==
    ASSUME FlightInv, NEW p \in Peers
    PROVE  /\ queue[p] \in Seq(QueuedBlock) /\ Distinct(queue[p]) /\ Len(queue[p]) \in Nat
           /\ IsFiniteSet(AskedOf(p)) /\ Cardinality(AskedOf(p)) = Len(queue[p])
           /\ Validated(p) \subseteq AskedOf(p)
           /\ IsFiniteSet(Validated(p)) /\ Cardinality(Validated(p)) \in Nat
           /\ Cardinality(Validated(p)) <= Len(queue[p])
<1>1. queue[p] \in Seq(QueuedBlock) /\ Distinct(queue[p]) /\ AskedOf(p) = Hashes(queue[p])
  BY DEF FlightInv, FlightTypes, PeerFlight
<1>2. Len(queue[p]) \in Nat
  BY <1>1, QueueElements
<1>3. IsFiniteSet(AskedOf(p)) /\ Cardinality(AskedOf(p)) = Len(queue[p])
  BY <1>1, HashCount
<1>4. Validated(p) \subseteq Hashes(queue[p])
  BY DEF Validated, Hashes
<1>5. IsFiniteSet(Validated(p)) /\ Cardinality(Validated(p)) <= Cardinality(AskedOf(p))
  BY <1>1, <1>3, <1>4, FS_Subset
<1>6. Cardinality(Validated(p)) \in Nat
  BY <1>5, FS_CardinalityType
<1> QED
  BY <1>1, <1>2, <1>3, <1>4, <1>5, <1>6

\* Steps that leave the accounts alone
LEMMA FSame ==
    ASSUME FlightInv, UNCHANGED flightVars, Nodes \subseteq Nodes'
    PROVE  FlightInv'
<1>1. UNCHANGED <<stalling, flight, queue, inFlight, validHeaders, nQueuedValidatedHeaders>>
  BY DEF flightVars
<1>2. \A p \in Peers : Validated(p)' = Validated(p) /\ AskedOf(p)' = AskedOf(p)
  BY <1>1 DEF Validated, AskedOf
<1>3. AllValidated' = AllValidated
  BY <1>2 DEF AllValidated
<1>4. FlightTypes' /\ AskedOfNodes'
  BY <1>1 DEF FlightInv, FlightTypes, AskedOfNodes
<1>5. TotalCovers'
  BY <1>1, <1>3 DEF FlightInv, TotalCovers
<1>6. ASSUME NEW p \in Peers PROVE PeerFlight(p)'
  BY <1>1, <1>2 DEF FlightInv, PeerFlight
<1> QED
  BY <1>4, <1>5, <1>6 DEF FlightInv

\* MarkBlockAsReceived takes one entry out of one list.
LEMMA FReceived ==
    ASSUME FlightInv, NEW b \in Blocks, MarkBlockAsReceived(b), link' = link
    PROVE  FlightInv'
<1>0. Nodes' = Nodes
  BY DEF Nodes
<1>1. CASE flight[b] = NoPeer
  BY <1>0, <1>1, FSame DEF MarkBlockAsReceived
<1>2. CASE flight[b] # NoPeer
  <2>0. PICK q \in Peers : q = flight[b]
    BY <1>2 DEF FlightInv, FlightTypes
  <2> DEFINE s == queue[q]
             k == Place(b)
             t == RemoveAt(s, k)
             one == IF s[k].valid THEN 1 ELSE 0
  <2>1. /\ flight' = [flight EXCEPT ![b] = NoPeer]
        /\ queue' = [queue EXCEPT ![q] = t]
        /\ inFlight' = [inFlight EXCEPT ![q] = inFlight[q] - 1]
        /\ validHeaders' = [validHeaders EXCEPT ![q] = validHeaders[q] - one]
        /\ nQueuedValidatedHeaders' = nQueuedValidatedHeaders - one
        /\ stalling' = stalling \ {q}
    BY <1>2, <2>0 DEF MarkBlockAsReceived, FlightInv, FlightTypes
  <2>2. FlightTypes /\ q \in Peers /\ b \in AskedOf(q) /\ NoPeer \notin Peers
    BY <2>0, PeerAssumption DEF FlightInv, FlightTypes, AskedOf
  <2>3. s \in Seq(QueuedBlock) /\ Distinct(s) /\ AskedOf(q) = Hashes(s)
    BY <2>2 DEF FlightInv, FlightTypes, PeerFlight
  <2>4. k \in DOMAIN s /\ s[k].hash = b
    <3>1. \E i \in DOMAIN s : s[i].hash = b
      BY <2>2, <2>3 DEF Hashes
    <3>2. k = CHOOSE i \in DOMAIN s : s[i].hash = b
      BY <2>0 DEF Place
    <3> HIDE DEF k, s
    <3> QED
      BY <3>1, <3>2
  <2>5. s = queue[q] /\ q = flight[b]
    BY <2>0
  <2> HIDE DEF k, s
  <2>6. /\ t \in Seq(QueuedBlock) /\ Len(t) = Len(s) - 1 /\ Distinct(t)
        /\ Hashes(t) = Hashes(s) \ {b} /\ Range(t) = Range(s) \ {s[k]}
    BY <2>3, <2>4, Removed
  <2> HIDE DEF t
  <2>7. \A p \in Peers : /\ queue'[p] = IF p = q THEN t ELSE queue[p]
                         /\ inFlight'[p] = IF p = q THEN inFlight[p] - 1 ELSE inFlight[p]
                         /\ validHeaders'[p] = IF p = q THEN validHeaders[p] - one ELSE validHeaders[p]
    <3> HIDE DEF one
    <3> QED
      BY <2>1, <2>2 DEF FlightTypes
  <2>8. \A p \in Peers : AskedOf(p)' = IF p = q THEN AskedOf(q) \ {b} ELSE AskedOf(p)
    BY <2>1, <2>2, <2>5 DEF FlightTypes, AskedOf
  <2>9. /\ s[k] = [hash |-> b, valid |-> s[k].valid] /\ s[k].valid \in BOOLEAN
    BY <2>3, <2>4, QueueElements
  <2>10. b \in Validated(q) <=> s[k].valid
    <3>1. ASSUME b \in Validated(q) PROVE s[k].valid
      <4>1. PICK i \in DOMAIN s : s[i] = [hash |-> b, valid |-> TRUE]
        BY <3>1, <2>5 DEF Validated
      <4>2. i = k
        BY <4>1, <2>3, <2>4 DEF Distinct
      <4> QED
        BY <4>1, <4>2
    <3>2. ASSUME s[k].valid PROVE b \in Validated(q)
      <4>1. s[k] = [hash |-> b, valid |-> TRUE]
        BY <2>9, <3>2
      <4> QED
        BY <4>1, <2>4, <2>5 DEF Validated
    <3> QED
      BY <3>1, <3>2
  <2>11. Validated(q)' = Validated(q) \ {b}
    <3>1. ASSUME NEW c \in Blocks PROVE c \in Validated(q)' <=> c \in Validated(q) /\ c # b
      <4> DEFINE e == [hash |-> c, valid |-> TRUE]
      <4>1. e.hash = c /\ e.valid = TRUE
        OBVIOUS
      <4>2. c \in Validated(q) <=> e \in Range(s)
        BY <2>5, ValidatedIn
      <4>3. c \in Validated(q)' <=> e \in Range(t)
        BY <2>2, <2>7 DEF Validated, Range
      <4> HIDE DEF e
      <4>4. e \in Range(s) => (e = s[k] <=> c = b)
        BY <4>1, <2>3, <2>4 DEF Distinct, Range
      <4> QED
        BY <4>2, <4>3, <4>4, <2>6
    <3> QED
      BY <3>1 DEF Validated
  <2>12. \A p \in Peers : p # q => Validated(p)' = Validated(p)
    BY <2>7 DEF Validated
  <2>13. /\ IsFiniteSet(Validated(q)) /\ Cardinality(Validated(q)) \in Nat
         /\ Cardinality(Validated(q)) <= Len(s) /\ Len(s) \in Nat
    BY <2>2, <2>5, PeerCount
  <2>14. one = (IF b \in Validated(q) THEN 1 ELSE 0) /\ one \in {0, 1}
    BY <2>9, <2>10
  <2>15. /\ Cardinality(Validated(q)') = Cardinality(Validated(q)) - one
         /\ Cardinality(Validated(q)') \in Nat
    <3>1. /\ IsFiniteSet(Validated(q) \ {b})
          /\ Cardinality(Validated(q) \ {b}) = IF b \in Validated(q) THEN Cardinality(Validated(q)) - 1
                                               ELSE Cardinality(Validated(q))
      BY <2>13, FS_RemoveElement
    <3>2. Cardinality(Validated(q) \ {b}) \in Nat
      BY <3>1, FS_CardinalityType
    <3> QED
      BY <3>1, <3>2, <2>11, <2>13, <2>14
  <2>16. /\ inFlight[q] = Len(s) /\ inFlight[q] \in 0..InTransit
         /\ validHeaders[q] = Cardinality(Validated(q)) /\ validHeaders[q] \in 0..InTransit
         /\ InTransit \in Nat /\ Len(s) # 0
    <3>1. inFlight[q] = Len(s) /\ validHeaders[q] = Cardinality(Validated(q))
      BY <2>2, <2>5 DEF FlightInv, PeerFlight
    <3>2. InTransit \in Nat /\ inFlight[q] \in 0..InTransit /\ validHeaders[q] \in 0..InTransit
      BY <2>2, PeerAssumption DEF FlightTypes
    <3>3. Len(s) # 0
      BY <2>3, <2>4, QueueElements
    <3> QED
      BY <3>1, <3>2, <3>3
  <2>17. AllValidated' = AllValidated \ {b}
    <3>1. \A p \in Peers : p # q => b \notin Validated(p)
      BY <2>2, <2>5, PeerCount DEF AskedOf
    <3>2. \A p \in Peers : Validated(p)' = Validated(p) \ {b}
      BY <3>1, <2>11, <2>12
    <3>3. ASSUME NEW c PROVE c \in AllValidated' <=> c \in AllValidated /\ c # b
      <4>1. c \in AllValidated' <=> \E p \in Peers : c \in Validated(p)'
        BY DEF AllValidated
      <4>2. c \in AllValidated <=> \E p \in Peers : c \in Validated(p)
        BY DEF AllValidated
      <4> QED
        BY <4>1, <4>2, <3>2
    <3> QED
      BY <3>3
  <2>18. b \in AllValidated <=> b \in Validated(q)
    <3>1. \A p \in Peers : p # q => b \notin Validated(p)
      BY <2>2, <2>5, PeerCount DEF AskedOf
    <3> QED
      BY <3>1, <2>2 DEF AllValidated
  <2>19. TotalCovers' /\ nQueuedValidatedHeaders' \in Nat
    <3>1. /\ IsFiniteSet(AllValidated) /\ nQueuedValidatedHeaders >= Cardinality(AllValidated)
          /\ nQueuedValidatedHeaders \in Nat
      BY <2>2 DEF FlightInv, TotalCovers, FlightTypes
    <3>2. Cardinality(AllValidated) \in Nat
      BY <3>1, FS_CardinalityType
    <3>3. /\ IsFiniteSet(AllValidated \ {b})
          /\ Cardinality(AllValidated \ {b}) = IF b \in AllValidated THEN Cardinality(AllValidated) - 1
                                               ELSE Cardinality(AllValidated)
      BY <3>1, FS_RemoveElement
    <3>4. Cardinality(AllValidated \ {b}) \in Nat
      BY <3>3, FS_CardinalityType
    <3>5. nQueuedValidatedHeaders' = nQueuedValidatedHeaders - one
      BY <2>1
    <3> HIDE DEF one
    <3>6. /\ nQueuedValidatedHeaders' >= Cardinality(AllValidated \ {b})
          /\ nQueuedValidatedHeaders' \in Nat
      BY <3>1, <3>2, <3>3, <3>4, <3>5, <2>14, <2>18
    <3> QED
      BY <3>3, <3>6, <2>17 DEF TotalCovers
  <2> HIDE DEF one
  <2>20. FlightTypes'
    <3>1. inFlight[q] - 1 \in 0..InTransit /\ validHeaders[q] - one \in 0..InTransit
      BY <2>13, <2>14, <2>15, <2>16
    <3>2. /\ queue' \in [Peers -> Seq(QueuedBlock)]
          /\ inFlight' \in [Peers -> 0..InTransit] /\ validHeaders' \in [Peers -> 0..InTransit]
          /\ flight' \in [Blocks -> Peers \cup {NoPeer}] /\ stalling' \subseteq Peers
      BY <3>1, <2>1, <2>2, <2>6 DEF FlightTypes
    <3> QED
      BY <3>2, <2>19 DEF FlightTypes
  <2>21. AskedOfNodes'
    BY <1>0, <2>1, <2>2 DEF FlightInv, FlightTypes, AskedOfNodes
  <2>22. ASSUME NEW p \in Peers PROVE PeerFlight(p)'
    <3>1. CASE p = q
      <4>1. queue'[p] = t /\ AskedOf(p)' = AskedOf(q) \ {b} /\ p \notin stalling'
        BY <2>1, <2>7, <2>8, <3>1
      <4>2. inFlight'[p] = Len(t)
        BY <3>1, <2>6, <2>7, <2>13, <2>16
      <4>3. validHeaders'[p] = Cardinality(Validated(p)')
        <5>1. validHeaders'[q] = validHeaders[q] - one
          BY <2>2, <2>7
        <5> QED
          BY <5>1, <3>1, <2>15, <2>16
      <4> QED
        BY <4>1, <4>2, <4>3, <2>3, <2>6 DEF PeerFlight
    <3>2. CASE p # q
      <4>1. queue'[p] = queue[p] /\ AskedOf(p)' = AskedOf(p) /\ inFlight'[p] = inFlight[p]
            /\ validHeaders'[p] = validHeaders[p] /\ Validated(p)' = Validated(p)
            /\ (p \in stalling' => p \in stalling)
        BY <3>2, <2>1, <2>7, <2>8, <2>12
      <4> QED
        BY <4>1 DEF FlightInv, PeerFlight
    <3> QED
      BY <3>1, <3>2
  <2> QED
    BY <2>19, <2>20, <2>21, <2>22 DEF FlightInv
<1> QED
  BY <1>1, <1>2

\* MarkBlockAsInFlight adds entries for blocks that nobody was asked for.
LEMMA FRequested ==
    ASSUME FlightInv, NEW p \in Nodes, NEW n \in Nat, NEW s \in [1..n -> Blocks],
           NEW valid \in BOOLEAN, MarkBlocksAsInFlight(p, s, valid), link' = link,
           \A i, j \in 1..n : i # j => s[i] # s[j],
           \A i \in 1..n : flight[s[i]] = NoPeer,
           inFlight[p] + n <= InTransit,
           \A q \in stalling' : q \in Peers /\ queue[q] # << >>
    PROVE  FlightInv'
<1> DEFINE t == [i \in 1..n |-> [hash |-> s[i], valid |-> valid]]
           more == IF valid THEN n ELSE 0
           new == Range(s)
<1>1. Nodes' = Nodes /\ p \in Peers /\ NoPeer \notin Peers /\ InTransit \in Nat
  BY PeerAssumption DEF Nodes
<1>2. s \in Seq(Blocks) /\ Len(s) = n /\ DOMAIN s = 1..n
  <2>1. s \in Seq(Blocks)
    BY SeqDef
  <2> QED
    BY <2>1, LenProperties
<1>3. /\ flight' = [b \in Blocks |-> IF b \in new THEN p ELSE flight[b]]
      /\ queue' = [queue EXCEPT ![p] = queue[p] \o t]
      /\ inFlight' = [inFlight EXCEPT ![p] = inFlight[p] + n]
      /\ validHeaders' = [validHeaders EXCEPT ![p] = validHeaders[p] + more]
      /\ nQueuedValidatedHeaders' = nQueuedValidatedHeaders + more
  BY <1>1, <1>2 DEF MarkBlocksAsInFlight, FlightInv, FlightTypes
<1>4. /\ t \in Seq(QueuedBlock) /\ Len(t) = n /\ DOMAIN t = 1..n
      /\ \A i \in 1..n : t[i] = [hash |-> s[i], valid |-> valid] /\ t[i].hash = s[i]
  <2>1. \A i \in 1..n : [hash |-> s[i], valid |-> valid] \in QueuedBlock
    BY DEF QueuedBlock
  <2>2. t \in [1..n -> QueuedBlock]
    BY <2>1
  <2>3. t \in Seq(QueuedBlock)
    <3> HIDE DEF t
    <3> QED
      BY <2>2, SeqDef
  <2>4. DOMAIN t = 1..n
    OBVIOUS
  <2>5. Len(t) = n
    <3> HIDE DEF t
    <3> QED
      BY <2>3, <2>4, LenProperties
  <2> QED
    BY <2>3, <2>4, <2>5
<1> HIDE DEF t
<1>5. Distinct(t) /\ Hashes(t) = new
  BY <1>2, <1>4 DEF Distinct, Hashes, Range
<1>6. /\ new \subseteq Blocks /\ \A b \in new : flight[b] = NoPeer
  BY <1>2 DEF Range
<1>7. IsFiniteSet(new) /\ Cardinality(new) = n
  BY <1>4, <1>5, HashCount
<1>8. FlightTypes
  BY DEF FlightInv
<1>9. /\ queue[p] \in Seq(QueuedBlock) /\ Distinct(queue[p]) /\ Hashes(queue[p]) = AskedOf(p)
      /\ inFlight[p] = Len(queue[p]) /\ inFlight[p] \in Nat
      /\ validHeaders[p] = Cardinality(Validated(p))
      /\ IsFiniteSet(Validated(p)) /\ Cardinality(Validated(p)) \in Nat
      /\ Cardinality(Validated(p)) <= inFlight[p]
  BY <1>1, PeerCount DEF FlightInv, PeerFlight
<1>10. \A q \in Peers : AskedOf(q) \cap new = {} /\ Validated(q) \cap new = {}
  <2> HIDE DEF new
  <2> TAKE q \in Peers
  <2>1. AskedOf(q) \cap new = {}
    BY <1>1, <1>6 DEF AskedOf
  <2>2. Validated(q) \subseteq AskedOf(q)
    BY PeerCount
  <2> QED
    BY <2>1, <2>2
<1> HIDE DEF new, more
<1> DEFINE u == queue[p] \o t
<1>11. /\ u \in Seq(QueuedBlock) /\ Len(u) = Len(queue[p]) + n
       /\ Distinct(u) /\ Hashes(u) = AskedOf(p) \cup new
       /\ Range(u) = Range(queue[p]) \cup Range(t)
  <2> DEFINE r == queue[p]
  <2>1. /\ r \in Seq(QueuedBlock) /\ Distinct(r) /\ t \in Seq(QueuedBlock) /\ Distinct(t)
        /\ Hashes(r) \cap Hashes(t) = {}
    BY <1>1, <1>4, <1>5, <1>9, <1>10
  <2> HIDE DEF r
  <2>2. /\ r \o t \in Seq(QueuedBlock) /\ Len(r \o t) = Len(r) + Len(t) /\ Distinct(r \o t)
        /\ Hashes(r \o t) = Hashes(r) \cup Hashes(t)
        /\ Range(r \o t) = Range(r) \cup Range(t)
    BY <2>1, Added
  <2> QED
    BY <2>2, <1>4, <1>5, <1>9 DEF r
<1>12. \A q \in Peers :
         /\ queue'[q] = IF q = p THEN u ELSE queue[q]
         /\ inFlight'[q] = IF q = p THEN inFlight[p] + n ELSE inFlight[q]
         /\ validHeaders'[q] = IF q = p THEN validHeaders[p] + more ELSE validHeaders[q]
  BY <1>3, <1>8 DEF FlightTypes
<1> HIDE DEF u
<1>13. \A q \in Peers : AskedOf(q)' = IF q = p THEN AskedOf(p) \cup new ELSE AskedOf(q)
  BY <1>1, <1>3, <1>6, <1>8 DEF AskedOf, FlightTypes
<1> DEFINE added == IF valid THEN new ELSE {}
<1>14. Validated(p)' = Validated(p) \cup added
  <2>1. ASSUME NEW b \in Blocks PROVE b \in Validated(p)' <=> b \in Validated(p) \cup added
    <3> DEFINE e == [hash |-> b, valid |-> TRUE]
    <3>1. b \in Validated(p) <=> e \in Range(queue[p])
      BY ValidatedIn
    <3>2. b \in Validated(p)' <=> e \in Range(u)
      <4>1. queue'[p] = u
        BY <1>1, <1>12
      <4> QED
        BY <4>1 DEF Validated, Range
    <3>3. e \in Range(t) <=> b \in added
      <4>1. e \in Range(t) <=> \E i \in 1..n : t[i] = e
        BY <1>4 DEF Range
      <4>2. b \in new <=> \E i \in 1..n : s[i] = b
        BY <1>2 DEF new, Range
      <4>3. \A i \in 1..n : t[i] = e <=> s[i] = b /\ valid
        BY <1>4
      <4> HIDE DEF e
      <4> QED
        BY <4>1, <4>2, <4>3
    <3> HIDE DEF e, added
    <3> QED
      BY <3>1, <3>2, <3>3, <1>11
  <2>2. added \subseteq Blocks
    BY <1>6
  <2> HIDE DEF added
  <2> QED
    BY <2>1, <2>2 DEF Validated
<1>15. \A q \in Peers : q # p => Validated(q)' = Validated(q)
  <2> SUFFICES ASSUME NEW q \in Peers, q # p PROVE Validated(q)' = Validated(q)
    OBVIOUS
  <2>1. queue'[q] = queue[q]
    BY <1>12
  <2> QED
    BY <2>1 DEF Validated
<1>16. IsFiniteSet(added) /\ Cardinality(added) = more /\ more \in Nat /\ more <= n
  BY <1>7, FS_EmptySet DEF more
<1>17. \A q \in Peers : Validated(q) \cap added = {}
  BY <1>10
<1> HIDE DEF added
<1>18. Cardinality(Validated(p)') = validHeaders[p] + more
  <2>1. Cardinality(Validated(p) \cup added) =
          Cardinality(Validated(p)) + Cardinality(added) - Cardinality(Validated(p) \cap added)
    BY <1>9, <1>16, FS_Union
  <2>2. Cardinality(Validated(p) \cap added) = 0
    BY <1>1, <1>17, FS_EmptySet
  <2> QED
    BY <2>1, <2>2, <1>9, <1>14, <1>16
<1>19. AllValidated' = AllValidated \cup added
  <2>1. ASSUME NEW c PROVE c \in AllValidated' <=> c \in AllValidated \/ c \in added
    <3>1. c \in AllValidated' <=> \E q \in Peers : c \in Validated(q)'
      BY DEF AllValidated
    <3>2. c \in AllValidated <=> \E q \in Peers : c \in Validated(q)
      BY DEF AllValidated
    <3> QED
      BY <3>1, <3>2, <1>1, <1>14, <1>15
  <2> QED
    BY <2>1
<1>20. TotalCovers' /\ nQueuedValidatedHeaders' \in Nat
  <2>1. /\ IsFiniteSet(AllValidated) /\ nQueuedValidatedHeaders >= Cardinality(AllValidated)
        /\ nQueuedValidatedHeaders \in Nat
    BY <1>8 DEF FlightInv, TotalCovers, FlightTypes
  <2>2. Cardinality(AllValidated) \in Nat
    BY <2>1, FS_CardinalityType
  <2>3. /\ IsFiniteSet(AllValidated \cup added)
        /\ Cardinality(AllValidated \cup added) =
             Cardinality(AllValidated) + Cardinality(added) - Cardinality(AllValidated \cap added)
    BY <2>1, <1>16, FS_Union
  <2>4. AllValidated \cap added = {}
    BY <1>17 DEF AllValidated
  <2>5. Cardinality(AllValidated \cap added) = 0
    BY <2>4, FS_EmptySet
  <2>6. nQueuedValidatedHeaders' >= Cardinality(AllValidated \cup added)
    BY <2>1, <2>2, <2>3, <2>5, <1>3, <1>16
  <2> QED
    BY <2>1, <2>3, <2>6, <1>3, <1>16, <1>19 DEF TotalCovers
<1>21. FlightTypes'
  <2>1. inFlight[p] + n \in 0..InTransit /\ validHeaders[p] + more \in 0..InTransit
    BY <1>1, <1>9, <1>16
  <2>2. /\ queue' \in [Peers -> Seq(QueuedBlock)]
        /\ inFlight' \in [Peers -> 0..InTransit] /\ validHeaders' \in [Peers -> 0..InTransit]
        /\ flight' \in [Blocks -> Peers \cup {NoPeer}] /\ stalling' \subseteq Peers
    BY <2>1, <1>1, <1>3, <1>8, <1>11 DEF FlightTypes, u
  <2> QED
    BY <2>2, <1>20 DEF FlightTypes
<1>22. AskedOfNodes'
  BY <1>1, <1>3, <1>8 DEF FlightInv, FlightTypes, AskedOfNodes
<1>23. ASSUME NEW q \in Peers PROVE PeerFlight(q)'
  <2>1. CASE q = p
    <3>1. q \in stalling' => queue'[q] # << >>
      <4> SUFFICES ASSUME q \in stalling' PROVE queue'[q] # << >>
        OBVIOUS
      <4>1. Len(queue[p]) # 0
        BY <2>1, <1>9, EmptySeq
      <4>2. Len(queue'[q]) # 0
        <5>1. queue'[q] = u /\ Len(u) = Len(queue[p]) + n /\ Len(queue[p]) \in Nat
          BY <2>1, <1>9, <1>11, <1>12
        <5> QED
          BY <4>1, <5>1
      <4> QED
        BY <4>2, EmptySeq
    <3> QED
      BY <2>1, <3>1, <1>9, <1>11, <1>12, <1>13, <1>18 DEF PeerFlight
  <2>2. CASE q # p
    <3>1. /\ queue'[q] = queue[q] /\ AskedOf(q)' = AskedOf(q) /\ inFlight'[q] = inFlight[q]
          /\ validHeaders'[q] = validHeaders[q] /\ Validated(q)' = Validated(q)
      BY <2>2, <1>12, <1>13, <1>15
    <3> QED
      BY <3>1 DEF FlightInv, PeerFlight
  <2> QED
    BY <2>1, <2>2
<1> QED
  BY <1>20, <1>21, <1>22, <1>23 DEF FlightInv

\* FinalizeNode forgets the peer and what it was asked for.
LEMMA FFinalize ==
    ASSUME FlightInv, link \in [Peers -> Links], NEW p \in Peers, FinalizeNode(p)
    PROVE  FlightInv'
<1>1. /\ link' = [link EXCEPT ![p] = "gone"] /\ stalling' = stalling \ {p}
      /\ queue' = [queue EXCEPT ![p] = << >>]
      /\ inFlight' = [inFlight EXCEPT ![p] = 0] /\ validHeaders' = [validHeaders EXCEPT ![p] = 0]
      /\ flight' = [b \in Blocks |-> IF \E i \in DOMAIN queue[p] : queue[p][i].hash = b
                                     THEN NoPeer ELSE flight[b]]
      /\ nQueuedValidatedHeaders' = nQueuedValidatedHeaders
  BY DEF FinalizeNode, EraseState
<1>2. FlightTypes /\ NoPeer \notin Peers /\ InTransit \in Nat
  BY PeerAssumption DEF FlightInv
<1>3. \A b \in Blocks : (\E i \in DOMAIN queue[p] : queue[p][i].hash = b) <=> flight[b] = p
  <2>1. AskedOf(p) = Hashes(queue[p])
    BY DEF FlightInv, PeerFlight
  <2> QED
    BY <2>1 DEF AskedOf, Hashes
<1>4. \A b \in Blocks : flight'[b] = IF flight[b] = p THEN NoPeer ELSE flight[b]
  BY <1>1, <1>3
<1>5. \A q \in Peers : AskedOf(q)' = IF q = p THEN {} ELSE AskedOf(q)
  BY <1>2, <1>4 DEF AskedOf
<1>6. \A q \in Peers : /\ queue'[q] = IF q = p THEN << >> ELSE queue[q]
                       /\ inFlight'[q] = IF q = p THEN 0 ELSE inFlight[q]
                       /\ validHeaders'[q] = IF q = p THEN 0 ELSE validHeaders[q]
  BY <1>1, <1>2 DEF FlightTypes
<1>7. \A q \in Peers : Validated(q)' = IF q = p THEN {} ELSE Validated(q)
  <2> TAKE q \in Peers
  <2>1. CASE q = p
    <3>1. queue'[q] = << >>
      BY <1>6, <2>1
    <3>2. DOMAIN queue'[q] = {}
      BY <3>1
    <3> QED
      BY <3>2, <2>1 DEF Validated
  <2>2. CASE q # p
    <3>1. queue'[q] = queue[q]
      BY <1>6, <2>2
    <3> QED
      BY <3>1, <2>2 DEF Validated
  <2> QED
    BY <2>1, <2>2
<1>8. FlightTypes'
  <2>1. << >> \in Seq(QueuedBlock) /\ 0 \in 0..InTransit
    BY <1>2, EmptySeq
  <2> QED
    BY <2>1, <1>1, <1>2 DEF FlightTypes
<1>9. AskedOfNodes'
  BY <1>1, <1>2, <1>4 DEF FlightInv, FlightTypes, AskedOfNodes, Nodes
<1>10. TotalCovers'
  <2>1. AllValidated' \subseteq AllValidated
    <3> SUFFICES ASSUME NEW c \in AllValidated' PROVE c \in AllValidated
      OBVIOUS
    <3>1. PICK q \in Peers : c \in Validated(q)'
      BY DEF AllValidated
    <3>2. c \in Validated(q)
      BY <3>1, <1>7
    <3> QED
      BY <3>2 DEF AllValidated
  <2>2. /\ IsFiniteSet(AllValidated) /\ nQueuedValidatedHeaders >= Cardinality(AllValidated)
        /\ nQueuedValidatedHeaders \in Nat
    BY <1>2 DEF FlightInv, TotalCovers, FlightTypes
  <2>3. IsFiniteSet(AllValidated') /\ Cardinality(AllValidated') <= Cardinality(AllValidated)
    BY <2>1, <2>2, FS_Subset
  <2>4. Cardinality(AllValidated) \in Nat /\ Cardinality(AllValidated') \in Nat
    BY <2>2, <2>3, FS_CardinalityType
  <2>5. nQueuedValidatedHeaders' >= Cardinality(AllValidated')
    BY <1>1, <2>2, <2>3, <2>4
  <2> QED
    BY <2>3, <2>5 DEF TotalCovers
<1>11. ASSUME NEW q \in Peers PROVE PeerFlight(q)'
  <2>1. CASE q = p
    <3>1. /\ queue'[q] = << >> /\ AskedOf(q)' = {} /\ inFlight'[q] = 0 /\ validHeaders'[q] = 0
          /\ Validated(q)' = {} /\ q \notin stalling'
      BY <1>1, <1>5, <1>6, <1>7, <2>1
    <3>2. DOMAIN << >> = {} /\ Len(<< >>) = 0
      BY EmptySeq
    <3>3. Distinct(<< >>) /\ Hashes(<< >>) = {}
      BY <3>2 DEF Distinct, Hashes
    <3> QED
      BY <3>1, <3>2, <3>3, FS_EmptySet DEF PeerFlight
  <2>2. CASE q # p
    <3>1. /\ queue'[q] = queue[q] /\ AskedOf(q)' = AskedOf(q) /\ inFlight'[q] = inFlight[q]
          /\ validHeaders'[q] = validHeaders[q] /\ Validated(q)' = Validated(q)
          /\ q \in stalling' => q \in stalling
      BY <1>1, <1>5, <1>6, <1>7, <2>2
    <3> QED
      BY <3>1 DEF FlightInv, PeerFlight
  <2> QED
    BY <2>1, <2>2
<1> QED
  BY <1>8, <1>9, <1>10, <1>11 DEF FlightInv

-----------------------------------------------------------------------------
(* Every action. *)

LEMMA LowestIn ==
    ASSUME NEW S, S \subseteq AllBlocks, S # {}
    PROVE  Lowest(S) \in S
<1> DEFINE T == {Height[b] : b \in S}
<1>1. T \subseteq Nat /\ T # {}
  BY TreeFacts
<1>2. PICK x \in T : \A y \in T : ~(<<y, x>> \in OpToRel(<, Nat))
  <2> HIDE DEF T
  <2> QED
    BY <1>1, NatLessThanWellFounded, WFMin, Zenon
<1>3. \A y \in T : ~(y < x)
  <2> HIDE DEF T
  <2> QED
    BY <1>1, <1>2 DEF OpToRel
<1>4. PICK b \in S : x = Height[b]
  OBVIOUS
<1>5. \A c \in S : Height[c] >= Height[b]
  <2> SUFFICES ASSUME NEW c \in S PROVE Height[c] >= Height[b]
    OBVIOUS
  <2>1. ~(Height[c] < Height[b])
    BY <1>3, <1>4
  <2>2. Height[b] \in Nat /\ Height[c] \in Nat
    BY TreeFacts
  <2> QED
    BY <2>1, <2>2
<1> QED
  BY <1>4, <1>5 DEF Lowest

\* A chain is finite: the heights go down to that of the genesis block.
LEMMA ChainFinite == \A b \in AllBlocks : IsFiniteSet(Chain[b])
<1> SUFFICES ASSUME NEW a \in AllBlocks, ~IsFiniteSet(Chain[a]) PROVE FALSE
  OBVIOUS
<1> DEFINE S == {b \in AllBlocks : ~IsFiniteSet(Chain[b])}
           T == {Height[b] : b \in S}
<1>1. T \subseteq Nat /\ T # {}
  BY TreeFacts
<1>2. PICK x \in T : \A y \in T : ~(<<y, x>> \in OpToRel(<, Nat))
  <2> HIDE DEF T
  <2> QED
    BY <1>1, NatLessThanWellFounded, WFMin, Zenon
<1>3. \A y \in T : ~(y < x)
  <2> HIDE DEF T
  <2> QED
    BY <1>1, <1>2 DEF OpToRel
<1>4. PICK b \in S : x = Height[b]
  OBVIOUS
<1>5. b # Genesis
  BY TreeFacts, FS_EmptySet
<1>6. /\ b \in Blocks /\ Parent[b] \in AllBlocks /\ Chain[b] = {b} \cup Chain[Parent[b]]
      /\ Height[b] = Height[Parent[b]] + 1 /\ Height[Parent[b]] \in Nat
  BY <1>5, TreeFacts, TreeAssumption
<1>7. Height[Parent[b]] < x
  BY <1>4, <1>6
<1>8. Parent[b] \notin S
  BY <1>3, <1>7
<1>9. IsFiniteSet(Chain[Parent[b]])
  BY <1>6, <1>8
<1>10. IsFiniteSet(Chain[Parent[b]] \cup {b})
  BY <1>9, FS_AddElement
<1>11. Chain[b] = Chain[Parent[b]] \cup {b}
  BY <1>6
<1> QED
  BY <1>10, <1>11

PeerTypes ==
    /\ failed \subseteq Blocks
    /\ link \in [Peers -> Links] /\ syncStarted \subseteq Peers
    /\ asked \in [Peers -> SUBSET AllBlocks] /\ sendhdrsreq \in [Peers -> Nat]
    /\ score \in [Peers -> 0..BanScore]

\* The second inductive invariant
FInv == IInv /\ PeerTypes /\ FlightInv

LEMMA FConnection ==
    ASSUME FInv, NEW p \in Peers, InitializeNode(p) \/ Version(p) \/ Disconnect(p)
    PROVE  PeerTypes' /\ FlightInv'
<1>1. /\ \E l \in {"opening", "open", "closing"} : link' = [link EXCEPT ![p] = l]
      /\ UNCHANGED <<failed, asked, syncStarted, score>> /\ UNCHANGED flightVars
      /\ sendhdrsreq' = sendhdrsreq \/ \E n \in Nat : sendhdrsreq' = [sendhdrsreq EXCEPT ![p] = n]
  BY PeerAssumption DEF InitializeNode, Version, Disconnect, treeVars
<1>2. link \in [Peers -> Links] /\ PeerTypes /\ FlightInv
  BY DEF FInv, PeerTypes
<1>3. PeerTypes'
  BY <1>1, <1>2 DEF PeerTypes, Links
<1>4. Nodes \subseteq Nodes'
  BY <1>1, <1>2 DEF Nodes
<1> QED
  BY <1>1, <1>2, <1>3, <1>4, FSame

LEMMA FFinalizeNode ==
    ASSUME FInv, NEW p \in Peers, FinalizeNode(p)
    PROVE  PeerTypes' /\ FlightInv'
<1>1. link \in [Peers -> Links] /\ PeerTypes /\ FlightInv
  BY DEF FInv, PeerTypes
<1>2. 0 \in 0..BanScore
  BY PeerAssumption
<1>3. PeerTypes'
  BY <1>1, <1>2 DEF PeerTypes, Links, FinalizeNode, EraseState, treeVars
<1> QED
  BY <1>1, <1>3, FFinalize

LEMMA ScoreType ==
    ASSUME PeerTypes, NEW p \in Peers, NEW n \in Nat, Misbehaving(p, n)
    PROVE  score' \in [Peers -> 0..BanScore]
<1>1. score[p] \in 0..BanScore /\ BanScore \in Nat /\ n \in Nat
  BY PeerAssumption DEF PeerTypes
<1> DEFINE new == IF score[p] + n < BanScore THEN score[p] + n ELSE BanScore
<1>2. new \in 0..BanScore
  BY <1>1
<1>3. score' = [score EXCEPT ![p] = new]
  BY DEF Misbehaving, PeerTypes
<1> HIDE DEF new
<1> QED
  BY <1>2, <1>3 DEF PeerTypes

\* Where the answer to a getheaders starts is a block.
LEMMA OwedBlocks ==
    ASSUME NEW p, NEW from \in AllBlocks
    PROVE  Owed(p, from) \subseteq AllBlocks
<1>1. CASE p \in Prompt
  <2>1. Has[p] \in AllBlocks
    BY <1>1, PeerAssumption, TreeFacts
  <2> QED
    BY <1>1, <2>1, CommonAncestor, TreeFacts DEF Owed
<1>2. CASE p \notin Prompt
  BY <1>2 DEF Owed
<1> QED
  BY <1>1, <1>2

LEMMA FHeaders ==
    ASSUME FInv, NEW p \in Peers, NEW a, NEW b \in Blocks, Headers(p, a, b)
    PROVE  PeerTypes' /\ FlightInv'
<1>1. PeerTypes /\ FlightInv
  BY DEF FInv
<1>2. score' = score \/ \E n \in Nat : Misbehaving(p, n)
  BY PeerAssumption DEF Headers
<1>3. score' \in [Peers -> 0..BanScore]
  BY <1>1, <1>2, ScoreType DEF PeerTypes
<1>4. link' = link /\ syncStarted' = syncStarted /\ UNCHANGED flightVars
  BY DEF Headers
<1>5. failed' \subseteq failed
  BY DEF Headers, Marked
<1>6. b \in AllBlocks /\ Height[b] \in Nat /\ Owed(p, b) \subseteq AllBlocks
  BY TreeFacts, OwedBlocks
<1>7. /\ \/ asked' = [asked EXCEPT ![p] = @ \ {a}]
         \/ asked' = [asked EXCEPT ![p] = (@ \ {a}) \cup Owed(p, b)]
      /\ sendhdrsreq' = sendhdrsreq \/ sendhdrsreq' = [sendhdrsreq EXCEPT ![p] = Height[b]]
  BY DEF Headers
<1>8. PeerTypes'
  BY <1>1, <1>3, <1>4, <1>5, <1>6, <1>7 DEF PeerTypes
<1>9. Nodes' = Nodes
  BY <1>4 DEF Nodes
<1> QED
  BY <1>1, <1>4, <1>8, <1>9, FSame

LEMMA FProcessNewBlock ==
    ASSUME FInv, NEW p \in Peers, NEW b \in Blocks, NEW intact \in BOOLEAN,
           ProcessNewBlock(p, b, intact)
    PROVE  PeerTypes' /\ FlightInv'
<1>1. PeerTypes /\ FlightInv
  BY DEF FInv
<1>2. /\ link' = link /\ asked' = asked /\ sendhdrsreq' = sendhdrsreq /\ syncStarted' = syncStarted
      /\ MarkBlockAsReceived(b)
  BY DEF ProcessNewBlock
<1>3. \/ score' = score
      \/ \E n \in Nat : Misbehaving(p, n)
  BY PeerAssumption DEF ProcessNewBlock, AcceptBlock
<1>4. score' \in [Peers -> 0..BanScore]
  BY <1>1, <1>3, ScoreType DEF PeerTypes
<1>5. failed' \subseteq failed \cup {b}
  BY DEF ProcessNewBlock, AcceptBlock, Marked, treeVars
<1>6. PeerTypes'
  BY <1>1, <1>2, <1>4, <1>5 DEF PeerTypes
<1> QED
  BY <1>1, <1>2, <1>6, FReceived

\* A peer that stalls owes a block.
LEMMA StallersOwe ==
    ASSUME FlightInv
    PROVE  \A q \in stalling : q \in Peers /\ queue[q] # << >>
BY DEF FlightInv, FlightTypes, PeerFlight

LEMMA FInvMessage ==
    ASSUME FInv, NEW p \in Peers, NEW b \in Blocks, Inv(p, b)
    PROVE  PeerTypes' /\ FlightInv'
<1>1. PeerTypes /\ FlightInv
  BY DEF FInv
<1>2. /\ link[p] = "open" /\ link' = link /\ failed' = failed /\ syncStarted' = syncStarted
      /\ score' = score /\ sendhdrsreq' = sendhdrsreq
  BY DEF Inv, treeVars
<1>3. asked' \in [Peers -> SUBSET AllBlocks]
  <2>1. bestHeader \in AllBlocks /\ Owed(p, bestHeader) \subseteq AllBlocks
    BY OwedBlocks DEF FInv, IInv, Types
  <2>2. asked' = asked \/ asked' = [asked EXCEPT ![p] = @ \cup Owed(p, bestHeader)]
    BY DEF Inv, AskHeaders
  <2> QED
    BY <1>1, <2>1, <2>2 DEF PeerTypes
<1>4. PeerTypes'
  BY <1>1, <1>2, <1>3 DEF PeerTypes
<1>5. p \in Nodes /\ Nodes' = Nodes
  BY <1>2 DEF Nodes
<1>6. CASE UNCHANGED flightVars
  BY <1>1, <1>4, <1>5, <1>6, FSame
<1>7. CASE /\ MarkBlocksAsInFlight(p, <<b>>, FALSE) /\ stalling' = stalling
           /\ inFlight[p] < InTransit /\ flight[b] = NoPeer
  <2>1. /\ <<b>> \in [1..1 -> Blocks] /\ \A i \in 1..1 : <<b>>[i] = b
        /\ \A i, j \in 1..1 : i = j
    OBVIOUS
  <2>2. inFlight[p] + 1 <= InTransit
    <3>1. inFlight[p] \in 0..InTransit /\ InTransit \in Nat
      BY <1>1, PeerAssumption DEF FlightInv, FlightTypes
    <3> QED
      BY <3>1, <1>7
  <2>3. \A q \in stalling' : q \in Peers /\ queue[q] # << >>
    BY <1>1, <1>7, StallersOwe
  <2>4. \A i \in 1..1 : flight[<<b>>[i]] = NoPeer
    BY <1>7, <2>1
  <2>5. \A i, j \in 1..1 : i # j => <<b>>[i] # <<b>>[j]
    BY <2>1
  <2> DEFINE s == <<b>>
  <2>6. s \in [1..1 -> Blocks] /\ MarkBlocksAsInFlight(p, s, FALSE)
    BY <1>7, <2>1
  <2> HIDE DEF s
  <2>7. /\ \A i \in 1..1 : flight[s[i]] = NoPeer
        /\ \A i, j \in 1..1 : i # j => s[i] # s[j]
    BY <2>4, <2>5 DEF s
  <2> QED
    BY <1>1, <1>2, <1>4, <1>5, <2>2, <2>3, <2>6, <2>7, FRequested
<1> QED
  BY <1>6, <1>7 DEF Inv

LEMMA MinOfTwo ==
    ASSUME NEW a \in Int, NEW b \in Int
    PROVE  Min({a, b}) \in {a, b} /\ Min({a, b}) <= a /\ Min({a, b}) <= b
<1>1. \E x \in {a, b} : \A y \in {a, b} : x <= y
  <2>1. CASE a <= b
    BY <2>1
  <2>2. CASE ~(a <= b)
    BY <2>2
  <2> QED
    BY <2>1, <2>2
<1>2. Min({a, b}) \in {a, b} /\ \A y \in {a, b} : Min({a, b}) <= y
  BY <1>1 DEF Min
<1> QED
  BY <1>2

\* The peer that is accused of stalling was asked for a block.
LEMMA StallerOwes ==
    ASSUME FlightInv, NEW walk \in SUBSET Blocks, Staller(walk) # NoPeer
    PROVE  Staller(walk) \in Peers /\ queue[Staller(walk)] # << >>
<1> DEFINE waiting == {b \in walk : b \notin data /\ flight[b] # NoPeer}
           b == Lowest(waiting)
<1>1. waiting # {} /\ Staller(walk) = flight[b]
  BY DEF Staller
<1>2. waiting \subseteq AllBlocks
  BY DEF AllBlocks
<1> HIDE DEF waiting
<1>3. b \in waiting
  BY <1>1, <1>2, LowestIn
<1> HIDE DEF b
<1>4. b \in Blocks /\ flight[b] # NoPeer
  BY <1>3 DEF waiting
<1>5. flight[b] \in Peers
  BY <1>4 DEF FlightInv, FlightTypes
<1>6. b \in Hashes(queue[flight[b]])
  BY <1>4, <1>5 DEF FlightInv, PeerFlight, AskedOf
<1>7. queue[flight[b]] # << >>
  <2> SUFFICES ASSUME queue[flight[b]] = << >> PROVE FALSE
    OBVIOUS
  <2>1. DOMAIN queue[flight[b]] = {}
    BY EmptySeq
  <2> QED
    BY <1>6, <2>1 DEF Hashes
<1> QED
  BY <1>1, <1>5, <1>7

LEMMA FRequestBlocks ==
    ASSUME FInv, NEW p \in Peers, link[p] = "open", link' = link, inFlight[p] < InTransit,
           RequestBlocks(p)
    PROVE  FlightInv'
<1> DEFINE best == BestKnown(p)
           start == WalkStart(p, best)
           walk == Walk(start, best)
           fetch == InWindow(start, Missing(walk))
           n == Min({InTransit - inFlight[p], Cardinality(fetch)})
<1>1. IInv /\ FlightInv /\ Nodes' = Nodes /\ p \in Nodes
  BY DEF FInv, Nodes
<1>2. CASE UNCHANGED flightVars
  BY <1>1, <1>2, FSame
<1>3. CASE ~(best = NoBlock \/ Height[best] < Height[tip])
  <2>1. best \in AllBlocks
    BY <1>1, <1>3 DEF IInv, Types, BestKnown, NowKnown
  <2>2. /\ \E s \in [1..n -> fetch] : InOrder(s, fetch) /\ MarkBlocksAsInFlight(p, s, TRUE)
        /\ MarkStaller(p, IF fetch = {} THEN Staller(walk) ELSE NoPeer)
    BY <1>3 DEF RequestBlocks
  <2> HIDE DEF best
  <2>3. walk \subseteq Chain[best] /\ Chain[best] \subseteq Blocks /\ IsFiniteSet(Chain[best])
    BY <2>1, TreeFacts, ChainFinite DEF Walk
  <2> HIDE DEF start
  <2>4. fetch \subseteq walk /\ \A b \in fetch : flight[b] = NoPeer
    BY DEF InWindow, Missing
  <2> HIDE DEF walk, fetch
  <2>5. IsFiniteSet(fetch) /\ Cardinality(fetch) \in Nat
    BY <2>3, <2>4, FS_Subset, FS_CardinalityType
  <2>6. inFlight[p] \in 0..InTransit /\ InTransit \in Nat
    BY <1>1, PeerAssumption DEF FlightInv, FlightTypes
  <2>7. n \in Nat /\ inFlight[p] + n <= InTransit
    <3>1. InTransit - inFlight[p] \in Nat
      BY <2>6
    <3>2. /\ n \in {InTransit - inFlight[p], Cardinality(fetch)}
          /\ n <= InTransit - inFlight[p]
      BY <2>5, <3>1, MinOfTwo
    <3> HIDE DEF n
    <3> QED
      BY <2>5, <2>6, <3>1, <3>2
  <2> HIDE DEF n
  <2>8. PICK s \in [1..n -> fetch] : InOrder(s, fetch) /\ MarkBlocksAsInFlight(p, s, TRUE)
    BY <2>2
  <2>9. s \in [1..n -> Blocks] /\ \A i \in 1..n : flight[s[i]] = NoPeer
    BY <2>3, <2>4, <2>8
  <2>10. \A i, j \in 1..n : i # j => s[i] # s[j]
    <3> SUFFICES ASSUME NEW i \in 1..n, NEW j \in 1..n, i # j PROVE s[i] # s[j]
      OBVIOUS
    <3>1. \A x, y \in 1..n : x < y => Height[s[x]] < Height[s[y]]
      BY <2>8 DEF InOrder
    <3>2. Height[s[i]] \in Nat /\ Height[s[j]] \in Nat
      BY <2>9, TreeFacts
    <3>3. i < j \/ j < i
      BY <2>7
    <3> QED
      BY <3>1, <3>2, <3>3
  <2>11. \A q \in stalling' : q \in Peers /\ queue[q] # << >>
    <3>1. \A q \in stalling : q \in Peers /\ queue[q] # << >>
      BY <1>1, StallersOwe
    <3>2. \/ stalling' = stalling
          \/ stalling' = stalling \cup {Staller(walk)} /\ Staller(walk) # NoPeer
      BY <2>2 DEF MarkStaller
    <3>3. walk \in SUBSET Blocks
      BY <2>3
    <3>4. Staller(walk) # NoPeer => Staller(walk) \in Peers /\ queue[Staller(walk)] # << >>
      BY <1>1, <3>3, StallerOwes
    <3> QED
      BY <3>1, <3>2, <3>4
  <2> QED
    BY <1>1, <2>7, <2>8, <2>9, <2>10, <2>11, FRequested
<1> QED
  BY <1>2, <1>3 DEF RequestBlocks

LEMMA SyncTypes ==
    ASSUME FInv, NEW p \in Peers, StartSync(p)
    PROVE  asked' \in [Peers -> SUBSET AllBlocks] /\ syncStarted' \subseteq Peers
<1> DEFINE from == IF bestHeader = Genesis THEN Genesis ELSE Parent[bestHeader]
<1>1. from \in AllBlocks
  BY TreeFacts, TreeAssumption DEF FInv, IInv, Types
<1>2. \/ UNCHANGED <<syncStarted, asked>>
      \/ syncStarted' = syncStarted \cup {p} /\ asked' = [asked EXCEPT ![p] = @ \cup Owed(p, from)]
  BY DEF StartSync, AskHeaders
<1> HIDE DEF from
<1>3. Owed(p, from) \subseteq AllBlocks
  BY <1>1, OwedBlocks
<1> QED
  BY <1>2, <1>3 DEF FInv, PeerTypes

LEMMA FSendMessages ==
    ASSUME FInv, NEW p \in Peers, SendMessages(p)
    PROVE  PeerTypes' /\ FlightInv'
<1>1. PeerTypes /\ FlightInv
  BY DEF FInv
<1>2. /\ link[p] = "open" /\ link' = link /\ failed' = failed /\ score' = score
      /\ sendhdrsreq' = sendhdrsreq /\ StartSync(p)
  BY DEF SendMessages, treeVars
<1>3. PeerTypes'
  BY <1>1, <1>2, SyncTypes DEF PeerTypes
<1>4. CASE UNCHANGED flightVars
  <2>1. Nodes' = Nodes
    BY <1>2 DEF Nodes
  <2> QED
    BY <1>1, <1>3, <1>4, <2>1, FSame
<1>5. CASE inFlight[p] < InTransit /\ RequestBlocks(p)
  BY <1>2, <1>3, <1>5, FRequestBlocks
<1> QED
  BY <1>4, <1>5 DEF SendMessages

LEMMA FSendTimeout ==
    ASSUME FInv, NEW p \in Peers, NEW b, SendTimeout(p, b)
    PROVE  PeerTypes' /\ FlightInv'
<1>1. PeerTypes /\ FlightInv /\ link \in [Peers -> Links]
  BY DEF FInv, PeerTypes
<1>2. /\ link' = [link EXCEPT ![p] = "closing"] /\ failed' = failed /\ score' = score
      /\ sendhdrsreq' = sendhdrsreq /\ StartSync(p) /\ UNCHANGED flightVars
  BY DEF SendTimeout, treeVars
<1>3. PeerTypes'
  BY <1>1, <1>2, SyncTypes DEF PeerTypes, Links
<1>4. Nodes \subseteq Nodes'
  BY <1>1, <1>2 DEF Nodes
<1> QED
  BY <1>1, <1>2, <1>3, <1>4, FSame

LEMMA FInit == Init => FInv
<1> SUFFICES ASSUME Init PROVE FInv
  OBVIOUS
<1>1. InTransit \in Nat /\ BanScore \in Nat /\ 0 \in 0..InTransit /\ 0 \in 0..BanScore /\ NoPeer \notin Peers
  BY PeerAssumption
<1>2. DOMAIN << >> = {} /\ Len(<< >>) = 0 /\ << >> \in Seq(QueuedBlock)
  BY EmptySeq
<1>3. Distinct(<< >>) /\ Hashes(<< >>) = {}
  BY <1>2 DEF Distinct, Hashes
<1>4. \A p \in Peers : /\ queue[p] = << >> /\ inFlight[p] = 0 /\ validHeaders[p] = 0
                       /\ p \notin stalling
  BY DEF Init
<1>5. \A p \in Peers : AskedOf(p) = {} /\ Validated(p) = {}
  BY <1>1, <1>2, <1>4 DEF Init, AskedOf, Validated
<1>6. AllValidated = {}
  BY <1>5 DEF AllValidated
<1>7. \A p \in Peers : PeerFlight(p)
  BY <1>2, <1>3, <1>4, <1>5, FS_EmptySet DEF PeerFlight
<1>8. TotalCovers /\ AskedOfNodes
  BY <1>6, FS_EmptySet DEF Init, TotalCovers, AskedOfNodes
<1>9. FlightTypes /\ PeerTypes
  BY <1>1, <1>2 DEF Init, FlightTypes, PeerTypes, Links
<1> QED
  BY <1>7, <1>8, <1>9, InitInv DEF FInv, FlightInv

LEMMA FNext == FInv /\ [Next]_vars => FInv'
<1> SUFFICES ASSUME FInv, [Next]_vars PROVE FInv'
  OBVIOUS
<1>1. IInv'
  BY NextInv DEF FInv
<1>2. CASE UNCHANGED vars
  <2>1. UNCHANGED flightVars /\ UNCHANGED <<failed, link, asked, sendhdrsreq, syncStarted, score>>
    BY <1>2 DEF vars, treeVars, peerVars
  <2>2. Nodes' = Nodes
    BY <2>1 DEF Nodes
  <2>3. PeerTypes'
    BY <2>1 DEF FInv, PeerTypes
  <2> QED
    BY <1>1, <2>1, <2>2, <2>3, FSame DEF FInv
<1>3. CASE Next
  <2>1. PICK p \in Peers :
          \/ InitializeNode(p) \/ Version(p) \/ Disconnect(p) \/ FinalizeNode(p)
          \/ \E b \in Sends[p] :
                \/ Inv(p, b)
                \/ \E a \in Line(b) : Headers(p, a, b)
                \/ \E intact \in BOOLEAN : ProcessNewBlock(p, b, intact)
          \/ SendMessages(p)
          \/ \E b \in Blocks \cup {NoBlock} : SendTimeout(p, b)
    BY <1>3 DEF Next
  <2>2. Sends[p] \subseteq Blocks
    BY PeerAssumption
  <2>3. PeerTypes' /\ FlightInv'
    <3>1. CASE InitializeNode(p) \/ Version(p) \/ Disconnect(p)
      BY <3>1, FConnection
    <3>2. CASE FinalizeNode(p)
      BY <3>2, FFinalizeNode
    <3>3. CASE \E b \in Sends[p] : Inv(p, b) \/ \E a \in Line(b) : Headers(p, a, b)
      BY <2>2, <3>3, FInvMessage, FHeaders
    <3>4. CASE \E b \in Sends[p], intact \in BOOLEAN : ProcessNewBlock(p, b, intact)
      BY <2>2, <3>4, FProcessNewBlock
    <3>5. CASE SendMessages(p)
      BY <3>5, FSendMessages
    <3>6. CASE \E b \in Blocks \cup {NoBlock} : SendTimeout(p, b)
      BY <3>6, FSendTimeout
    <3> QED
      BY <2>1, <3>1, <3>2, <3>3, <3>4, <3>5, <3>6
  <2> QED
    BY <1>1, <2>3 DEF FInv
<1> QED
  BY <1>2, <1>3

LEMMA FInvariance == Spec => []FInv
BY FInit, FNext, PTL DEF Spec

\* The counters stay within MAX_BLOCKS_IN_TRANSIT_PER_PEER, and never fall below zero,
\* whatever the peers send and whenever they leave.
THEOREM TypesKept == Spec => []TypeOK
<1>1. FInv => TypeOK
  BY DEF FInv, IInv, Types, PeerTypes, FlightInv, FlightTypes, TypeOK
<1> QED
  BY <1>1, FInvariance, PTL

\* mapBlocksInFlight, the lists of the peers and their counters always agree, every
\* request is to a peer with a CNodeState, and a peer that is about to be disconnected
\* for stalling owes a block: MarkBlockAsReceived follows no dangling pointer.
THEOREM FlightConsistent == Spec => []FlightAgrees
<1>1. FInv => FlightAgrees
  <2> SUFFICES ASSUME FlightInv PROVE FlightAgrees
    BY DEF FInv
  <2>1. \A p \in Peers : /\ {b \in Blocks : flight[b] = p} = {queue[p][i].hash : i \in DOMAIN queue[p]}
                         /\ inFlight[p] = Len(queue[p])
                         /\ validHeaders[p] = Cardinality(Validated(p))
                         /\ p \in stalling => queue[p] # << >>
    BY DEF FlightInv, PeerFlight, AskedOf, Hashes
  <2>2. \A p \in Peers : Cardinality({b \in Blocks : flight[b] = p}) = Len(queue[p])
    BY PeerCount DEF AskedOf
  <2>3. \A b \in Blocks : flight[b] # NoPeer => flight[b] \in Nodes
    BY DEF FlightInv, AskedOfNodes
  <2>4. nQueuedValidatedHeaders >= Cardinality(UNION {Validated(p) : p \in Peers})
    BY DEF FlightInv, TotalCovers, AllValidated
  <2> QED
    BY <2>1, <2>2, <2>3, <2>4 DEF FlightAgrees
<1> QED
  BY <1>1, FInvariance, PTL
=============================================================================
