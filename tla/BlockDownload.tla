---------------------------- MODULE BlockDownload ----------------------------
(***************************************************************************)
(* Which block is asked of which peer (main.cpp: CNodeState, the blocks in *)
(* flight, FindNextBlocksToDownload, the handlers of inv, headers and      *)
(* block, and SendMessages).  Peers may be silent, slow or send garbage,   *)
(* and leave at any moment; a peer that times out is disconnected, and the *)
(* network thread finalizes it later.                                      *)
(*                                                                         *)
(* The handlers run under cs_main and are one action each.  The chain      *)
(* follows the stored blocks at once (ChainState has the details), the     *)
(* work of a block is its height, a locator holds every block below its    *)
(* first one (as it does for the last eleven), and no peer is whitelisted. *)
(***************************************************************************)
EXTENDS Integers, FiniteSets, Sequences, FiniteSetsExt, SequencesExt

CONSTANTS
    Blocks, Genesis, Parent, Chain, Height,     \* a tree of blocks, as in Flush
    Bad,            \* blocks that ContextualCheckBlock refuses
    ASSETCHAINS_CC, \* a header that comes again loses the mark of a failed block
    RecentHeight,   \* blocks from here on are recent: with such a tip the node is nearly
                    \* synced, and no longer in its initial download
    Peers,          \* NodeIds: a peer that comes back has a new one
    Prompt,         \* peers that keep to the protocol, and within every timeout
    Preferred,      \* outbound peers (fPreferredDownload)
    Has,            \* the tip of the chain of a prompt peer
    Sends,          \* the blocks a peer may announce or send, or the header of
    Window,         \* BLOCK_DOWNLOAD_WINDOW
    InTransit,      \* MAX_BLOCKS_IN_TRANSIT_PER_PEER
    MaxHeaders,     \* MAX_HEADERS_RESULTS
    Garbage,        \* what sendhdrsreq, which nobody initializes, may hold at first
    BanScore,       \* -banscore
    DoS100,         \* the score for the worst offence, below the default of -banscore
    NoBlock, NoPeer

AllBlocks == Blocks \cup {Genesis}

ASSUME TreeAssumption ==
    /\ Genesis \notin Blocks /\ NoBlock \notin AllBlocks
    /\ Parent \in [Blocks -> AllBlocks]
    /\ Chain \in [AllBlocks -> SUBSET Blocks]
    /\ Chain[Genesis] = {}
    /\ \A b \in Blocks : Chain[b] = {b} \cup Chain[Parent[b]]
    /\ Height \in [AllBlocks -> Nat] /\ Height[Genesis] = 0
    /\ \A b \in Blocks : Height[b] = Height[Parent[b]] + 1
    /\ Bad \subseteq Blocks

\* What follows for chains, by induction over the tree
ASSUME ChainAssumption ==
    \A b \in AllBlocks : \A c \in Chain[b] : Chain[c] \subseteq Chain[b] /\ Height[c] <= Height[b]

ASSUME PeerAssumption ==
    /\ Prompt \subseteq Peers /\ Preferred \subseteq Peers /\ NoPeer \notin Peers
    /\ Has \in [Prompt -> Blocks] /\ Sends \in [Peers -> SUBSET Blocks]
    /\ \A p \in Prompt : Chain[Has[p]] \subseteq Sends[p] /\ Chain[Has[p]] \cap Bad = {}
    /\ Window \in Nat \ {0} /\ InTransit \in Nat \ {0} /\ BanScore \in Nat \ {0}
    /\ MaxHeaders \in Nat \ {0} /\ DoS100 \in Nat \ {0} /\ RecentHeight \in Nat
    /\ Garbage \subseteq Nat /\ ASSETCHAINS_CC \in BOOLEAN

VARIABLES
    known,          \* mapBlockIndex
    bestHeader,     \* pindexBestHeader
    failed,         \* blocks marked BLOCK_FAILED_VALID
    data,           \* blocks with BLOCK_HAVE_DATA
    tip,            \* chainActive.Tip()
    link,           \* how far the connection to a peer is
    asked,          \* the getheaders a prompt peer has to answer: where each answer starts
    sendhdrsreq,    \* the height from which more headers were last asked of a peer
    syncStarted,    \* peers with fSyncStarted
    score,          \* nMisbehavior, up to the limit
    bestKnown,      \* pindexBestKnownBlock
    lastUnknown,    \* hashLastUnknownBlock
    lastCommon,     \* pindexLastCommonBlock
    stalling,       \* peers with nStallingSince
    flight,         \* mapBlocksInFlight: the peer a block was asked of
    queue,          \* vBlocksInFlight
    inFlight,       \* nBlocksInFlight
    validHeaders,   \* nBlocksInFlightValidHeaders
    nQueuedValidatedHeaders

treeVars   == <<known, bestHeader, failed, data, tip>>
peerVars   == <<link, asked, sendhdrsreq, syncStarted, score>>
availVars  == <<bestKnown, lastUnknown, lastCommon>>
flightVars == <<stalling, flight, queue, inFlight, validHeaders, nQueuedValidatedHeaders>>
vars       == <<treeVars, peerVars, availVars, flightVars>>

\* A request: valid if the header was known when it was made.
QueuedBlock == [hash : Blocks, valid : BOOLEAN]

Links == {"none", "opening", "open", "closing", "gone"}

\* peers with a CNodeState
Nodes == {p \in Peers : link[p] \in {"opening", "open", "closing"}}

TypeOK ==
    /\ known \subseteq AllBlocks /\ failed \subseteq Blocks /\ data \subseteq AllBlocks
    /\ tip \in AllBlocks /\ bestHeader \in known
    /\ link \in [Peers -> Links] /\ syncStarted \subseteq Peers
    /\ asked \in [Peers -> SUBSET AllBlocks] /\ sendhdrsreq \in [Peers -> Nat]
    /\ score \in [Peers -> 0..BanScore]
    /\ bestKnown \in [Peers -> AllBlocks \cup {NoBlock}]
    /\ lastUnknown \in [Peers -> AllBlocks \cup {NoBlock}]
    /\ lastCommon \in [Peers -> AllBlocks \cup {NoBlock}]
    /\ stalling \subseteq Peers
    /\ flight \in [Blocks -> Peers \cup {NoPeer}]
    /\ queue \in [Peers -> Seq(QueuedBlock)]
    /\ inFlight \in [Peers -> 0..InTransit] /\ validHeaders \in [Peers -> 0..InTransit]
    /\ nQueuedValidatedHeaders \in Nat

Init ==
    /\ known = {Genesis} /\ bestHeader = Genesis
    /\ failed = {} /\ data = {Genesis} /\ tip = Genesis
    /\ link = [p \in Peers |-> "none"]
    /\ asked = [p \in Peers |-> {}] /\ sendhdrsreq = [p \in Peers |-> 0] /\ syncStarted = {}
    /\ score = [p \in Peers |-> 0]
    /\ bestKnown = [p \in Peers |-> NoBlock]
    /\ lastUnknown = [p \in Peers |-> NoBlock]
    /\ lastCommon = [p \in Peers |-> NoBlock]
    /\ stalling = {}
    /\ flight = [b \in Blocks |-> NoPeer]
    /\ queue = [p \in Peers |-> << >>]
    /\ inFlight = [p \in Peers |-> 0] /\ validHeaders = [p \in Peers |-> 0]
    /\ nQueuedValidatedHeaders = 0

-----------------------------------------------------------------------------
(* Connections. *)

InitializeNode(p) ==
    /\ link[p] = "none"
    /\ link' = [link EXCEPT ![p] = "opening"]
    /\ \E n \in Garbage : sendhdrsreq' = [sendhdrsreq EXCEPT ![p] = n]
    /\ UNCHANGED <<treeVars, asked, syncStarted, score, availVars, flightVars>>

\* The version message, with UpdatePreferredDownload: from now on messages flow.
Version(p) ==
    /\ link[p] = "opening"
    /\ link' = [link EXCEPT ![p] = "open"]
    /\ UNCHANGED <<treeVars, asked, sendhdrsreq, syncStarted, score, availVars, flightVars>>

\* The peer closes the connection, or the network thread does.  (Before the version
\* message it has nothing to leave behind.)
Disconnect(p) ==
    /\ link[p] = "open" /\ p \notin Prompt
    /\ link' = [link EXCEPT ![p] = "closing"]
    /\ UNCHANGED <<treeVars, asked, sendhdrsreq, syncStarted, score, availVars, flightVars>>

\* the CNodeState is erased
EraseState(p) ==
    /\ link' = [link EXCEPT ![p] = "gone"]
    /\ syncStarted' = syncStarted \ {p} /\ stalling' = stalling \ {p}
    /\ asked' = [asked EXCEPT ![p] = {}] /\ sendhdrsreq' = [sendhdrsreq EXCEPT ![p] = 0]
    /\ score' = [score EXCEPT ![p] = 0]
    /\ bestKnown' = [bestKnown EXCEPT ![p] = NoBlock]
    /\ lastUnknown' = [lastUnknown EXCEPT ![p] = NoBlock]
    /\ lastCommon' = [lastCommon EXCEPT ![p] = NoBlock]
    /\ queue' = [queue EXCEPT ![p] = << >>]
    /\ inFlight' = [inFlight EXCEPT ![p] = 0]
    /\ validHeaders' = [validHeaders EXCEPT ![p] = 0]

\* mutant: the blocks that the peer was asked for stay in flight
FinalizeNode_KeepsBlocks(p) ==
    /\ link[p] = "closing"
    /\ EraseState(p)
    /\ UNCHANGED <<treeVars, flight, nQueuedValidatedHeaders>>

\* The CNodeState goes with its requests, which others may then make.
FinalizeNode(p) ==
    /\ link[p] = "closing"
    /\ EraseState(p)
    /\ flight' = [b \in Blocks |-> IF \E i \in DOMAIN queue[p] : queue[p][i].hash = b
                                   THEN NoPeer ELSE flight[b]]
    /\ UNCHANGED <<treeVars, nQueuedValidatedHeaders>>

-----------------------------------------------------------------------------
(* Blocks in flight. *)

\* the iterator that mapBlocksInFlight has for b: its place in the list of the peer
Place(b) == CHOOSE i \in DOMAIN queue[flight[b]] : queue[flight[b]][i].hash = b

\* mutant: every request counts as one with a valid header
MarkBlockAsReceived_AllValid(b) ==
    LET q == flight[b] IN
    IF q = NoPeer
    THEN UNCHANGED flightVars
    ELSE /\ flight' = [flight EXCEPT ![b] = NoPeer]
         /\ queue' = [queue EXCEPT ![q] = RemoveAt(@, Place(b))]
         /\ inFlight' = [inFlight EXCEPT ![q] = @ - 1]
         /\ validHeaders' = [validHeaders EXCEPT ![q] = @ - 1]
         /\ nQueuedValidatedHeaders' = nQueuedValidatedHeaders - 1
         /\ stalling' = stalling \ {q}

\* The request for b is over, whoever it was made to.
MarkBlockAsReceived(b) ==
    LET q == flight[b] IN
    IF q = NoPeer
    THEN UNCHANGED flightVars
    ELSE LET valid == IF queue[q][Place(b)].valid THEN 1 ELSE 0
         IN /\ flight' = [flight EXCEPT ![b] = NoPeer]
            /\ queue' = [queue EXCEPT ![q] = RemoveAt(@, Place(b))]
            /\ inFlight' = [inFlight EXCEPT ![q] = @ - 1]
            /\ validHeaders' = [validHeaders EXCEPT ![q] = @ - valid]
            /\ nQueuedValidatedHeaders' = nQueuedValidatedHeaders - valid
            /\ stalling' = stalling \ {q}

\* Requests for the blocks of sequence s, none of which is in flight
MarkBlocksAsInFlight(p, s, valid) ==
    LET n == IF valid THEN Len(s) ELSE 0
    IN /\ flight' = [b \in Blocks |-> IF b \in Range(s) THEN p ELSE flight[b]]
       /\ queue' = [queue EXCEPT ![p] = @ \o [i \in DOMAIN s |-> [hash |-> s[i], valid |-> valid]]]
       /\ inFlight' = [inFlight EXCEPT ![p] = @ + Len(s)]
       /\ validHeaders' = [validHeaders EXCEPT ![p] = @ + n]
       /\ nQueuedValidatedHeaders' = nQueuedValidatedHeaders + n

-----------------------------------------------------------------------------
(* Messages from peers. *)

Misbehaving(p, n) ==
    score' = [score EXCEPT ![p] = IF @ + n < BanScore THEN @ + n ELSE BanScore]

Line(b) == Chain[b] \cup {Genesis}

Highest(s) == CHOOSE b \in s : \A c \in s : Height[c] <= Height[b]
Lowest(s)  == CHOOSE b \in s : \A c \in s : Height[c] >= Height[b]

LastCommonAncestor(a, b) == Highest(Line(a) \cap Line(b))

\* getheaders, which only prompt peers can be relied on to answer: from the last block
\* of the locator that is in their chain, if there are blocks after it.
Owed(p, from) ==
    IF p \in Prompt THEN {LastCommonAncestor(from, Has[p])} \ {Has[p]} ELSE {}
AskHeaders(p, from) == asked' = [asked EXCEPT ![p] = @ \cup Owed(p, from)]

IsInitialBlockDownload == Height[tip] < RecentHeight

\* inv: remember the block and, if it is new, ask for headers and, when nearly
\* synced, for the block itself.
Inv(p, b) ==
    /\ link[p] = "open"
    /\ p \in Prompt => b = Has[p]
    /\ lastUnknown' = [lastUnknown EXCEPT ![p] = b]
    /\ IF b \in known \/ flight[b] # NoPeer
       THEN UNCHANGED <<asked, flightVars>>
       ELSE /\ AskHeaders(p, bestHeader)
            /\ IF ~IsInitialBlockDownload /\ inFlight[p] < InTransit
               THEN MarkBlocksAsInFlight(p, <<b>>, FALSE) /\ UNCHANGED stalling
               ELSE UNCHANGED flightVars
    /\ UNCHANGED <<treeVars, link, sendhdrsreq, syncStarted, score, bestKnown, lastCommon>>

\* AddToBlockIndex, for new headers that follow each other
AddHeaders(new) ==
    LET better == {c \in new : Height[c] > Height[bestHeader]}
    IN /\ known' = known \cup new
       /\ bestHeader' = IF better = {} THEN bestHeader ELSE Highest(better)

\* AcceptBlockHeader "reconsiders" known headers that are marked failed, with ASSETCHAINS_CC
Marked(headers) == IF ASSETCHAINS_CC THEN failed \ headers ELSE failed

\* the last header of the answer to a getheaders
Answer == [p \in Prompt |-> [a \in AllBlocks |->
              Highest({b \in Line(Has[p]) : Height[b] <= Height[a] + MaxHeaders})]]

\* A full message is followed by a getheaders from its last header, during the initial
\* download only if that one was new, and not twice from the same height.  (A tip below
\* MaxHeaders makes the unsigned difference larger than any height.  Only prompt peers
\* matter, as others need not answer.)
MoreHeaders(p, a, b) ==
    /\ p \in Prompt
    /\ Height[b] - Height[a] = MaxHeaders
    /\ IsInitialBlockDownload => b \notin known
    /\ \/ Height[tip] >= MaxHeaders /\ sendhdrsreq[p] >= Height[tip] - MaxHeaders
       \/ Height[b] # sendhdrsreq[p]

\* headers: those after a, up to b.  At a header that is marked failed the handler
\* stops, unless futureblock, which nobody initialized, happens not to be zero.  The
\* first header that is not known is held against the peer if its parent failed, and
\* so is garbage after the headers.
Headers(p, a, b) ==
    LET sent == Chain[b] \ Chain[a]
        new == sent \ known
        refused == \E c \in new : Parent[c] \in Marked(sent)
    IN /\ link[p] = "open"
       /\ p \in Prompt => a \in asked[p] /\ b = Answer[p][a]
       /\ a \in known /\ Height[b] - Height[a] \in 1..MaxHeaders
       /\ failed' = Marked(sent)
       /\ \/ /\ sent \cap Marked(sent) # {}
             /\ asked' = [asked EXCEPT ![p] = @ \ {a}]
             /\ UNCHANGED <<known, bestHeader, sendhdrsreq, lastUnknown, score>>
          \/ /\ refused \/ p \notin Prompt
             /\ AddHeaders(IF refused THEN {} ELSE new)
             /\ \E n \in 1..DoS100 : Misbehaving(p, n)
             /\ asked' = [asked EXCEPT ![p] = @ \ {a}]
             /\ UNCHANGED <<sendhdrsreq, lastUnknown>>
          \/ /\ ~refused
             /\ AddHeaders(new)
             /\ lastUnknown' = [lastUnknown EXCEPT ![p] = b]
             /\ IF MoreHeaders(p, a, b)
                THEN /\ sendhdrsreq' = [sendhdrsreq EXCEPT ![p] = Height[b]]
                     /\ asked' = [asked EXCEPT ![p] = (@ \ {a}) \cup Owed(p, b)]
                ELSE /\ asked' = [asked EXCEPT ![p] = @ \ {a}]
                     /\ UNCHANGED sendhdrsreq
             /\ UNCHANGED score
       /\ UNCHANGED <<data, tip, link, syncStarted, bestKnown, lastCommon, flightVars>>

Linked(b, stored) == Chain[b] \subseteq stored

\* ActivateBestChain: the chain with the most work, the current one if it is as good
ActivateBestChain(stored) ==
    LET better == {b \in Blocks : Linked(b, stored) /\ Height[b] > Height[tip]}
    IN tip' \in IF better = {} THEN {tip}
                ELSE {b \in better : \A c \in better : Height[c] <= Height[b]}

\* What AcceptBlock does with a block that passed CheckBlock: a parent or a block that
\* is known to be bad, a header whose parent is unknown, a block that is stored or
\* that nobody asked for and is of no use, a bad block, a good one.
AcceptBlock(p, b, requested) ==
    LET wanted == requested \/ (Height[b] > Height[tip] /\ Height[b] <= Height[tip] + Window)
        marked == Marked({b})
        header == b \in known \/ (Parent[b] \in known /\ Parent[b] \notin failed)
    IN \/ /\ b \notin known /\ Parent[b] \in failed
          /\ Misbehaving(p, DoS100)
          /\ UNCHANGED treeVars
       \/ /\ b \in marked \/ Parent[b] \notin known
          /\ UNCHANGED <<treeVars, score>>
       \/ /\ header /\ b \notin marked /\ (b \in data \/ ~wanted)
          /\ AddHeaders({b} \ known)
          /\ failed' = marked
          /\ UNCHANGED <<data, tip, score>>
       \/ /\ header /\ b \notin marked /\ b \notin data /\ wanted /\ b \in Bad
          /\ AddHeaders({b} \ known)
          /\ failed' = failed \cup {b}
          /\ \E n \in 0..DoS100 : Misbehaving(p, n)
          /\ UNCHANGED <<data, tip>>
       \/ /\ header /\ b \notin marked /\ b \notin data /\ wanted /\ b \notin Bad
          /\ AddHeaders({b} \ known)
          /\ failed' = marked
          /\ data' = data \cup {b}
          /\ ActivateBestChain(data')
          /\ UNCHANGED score

\* mutant: a block that another peer was asked for stays in flight
ProcessNewBlock_OwnOnly(p, b, intact) ==
    /\ link[p] = "open"
    /\ p \in Prompt => flight[b] = p /\ intact
    /\ IF flight[b] = p THEN MarkBlockAsReceived(b) ELSE UNCHANGED flightVars
    /\ IF intact
       THEN AcceptBlock(p, b, flight[b] # NoPeer)
       ELSE /\ \E n \in 0..DoS100 : Misbehaving(p, 1 + n)
            /\ UNCHANGED treeVars
    /\ UNCHANGED <<link, asked, sendhdrsreq, syncStarted, availVars>>

\* block, asked for or not.  One that does not pass CheckBlock is gone, and so is
\* the request for it.
ProcessNewBlock(p, b, intact) ==
    /\ link[p] = "open"
    /\ p \in Prompt => flight[b] = p /\ intact
    /\ MarkBlockAsReceived(b)
    /\ IF intact
       THEN AcceptBlock(p, b, flight[b] # NoPeer)
       ELSE /\ \E n \in 0..DoS100 : Misbehaving(p, 1 + n)
            /\ UNCHANGED treeVars
    /\ UNCHANGED <<link, asked, sendhdrsreq, syncStarted, availVars>>

-----------------------------------------------------------------------------
(* FindNextBlocksToDownload. *)

\* ProcessBlockAvailability: the announced block counts once its header is known.
NowKnown(p) == lastUnknown[p] \in known
BestKnown(p) ==
    IF NowKnown(p) /\ (bestKnown[p] = NoBlock \/ Height[lastUnknown[p]] >= Height[bestKnown[p]])
    THEN lastUnknown[p] ELSE bestKnown[p]

\* where the walk to the peer's best block starts
WalkStart(p, best) ==
    LET guess == Highest({b \in Line(tip) : Height[b] <= Height[best]})
    IN LastCommonAncestor(IF lastCommon[p] = NoBlock THEN guess ELSE lastCommon[p], best)

\* the blocks of the walk, one beyond the window included, up to a failed one
Walk(start, best) ==
    LET ahead == {b \in Chain[best] \ Chain[start] : Height[b] <= Height[start] + Window + 1}
    IN {b \in ahead : \A c \in ahead \cap failed : Height[b] < Height[c]}

\* mutant: a block that is stored counts, whether or not those below it are
CommonAfter_AnyStored(start, walk) ==
    LET full == {b \in walk : b \in data}
    IN IF full = {} THEN start ELSE Highest(full)

CommonAfter(start, walk) ==
    LET full == {b \in walk : Linked(b, data)}
    IN IF full = {} THEN start ELSE Highest(full)

Missing(walk) == {b \in walk : b \notin data /\ flight[b] = NoPeer}

InWindow(start, blocks) == {b \in blocks : Height[b] <= Height[start] + Window}

\* s is the lowest of them, from the lowest up
InOrder(s, blocks) ==
    /\ \A i, j \in DOMAIN s : i < j => Height[s[i]] < Height[s[j]]
    /\ \A i \in DOMAIN s : \A b \in blocks \ Range(s) : Height[s[i]] < Height[b]

\* The window is full, and would move if this peer answered.
Staller(walk) ==
    LET waiting == {b \in walk : b \notin data /\ flight[b] # NoPeer}
    IN IF Missing(walk) # {} /\ waiting # {} THEN flight[Lowest(waiting)] ELSE NoPeer

-----------------------------------------------------------------------------
(* SendMessages. *)

\* fFetch: peers that we opened the connection to, or any if there are none
Fetch(p) == p \in Preferred \/ Preferred \cap {q \in Peers : link[q] \in {"open", "closing"}} = {}

BestHeaderRecent == Height[bestHeader] >= RecentHeight

StartSync(p) ==
    IF p \notin syncStarted /\ ((syncStarted = {} /\ Fetch(p)) \/ BestHeaderRecent)
    THEN /\ syncStarted' = syncStarted \cup {p}
         /\ AskHeaders(p, IF bestHeader = Genesis THEN Genesis ELSE Parent[bestHeader])
    ELSE UNCHANGED <<syncStarted, asked>>

\* A peer that could fetch more, and was asked for nothing, accuses the staller.
MarkStaller(p, staller) ==
    stalling' = IF inFlight[p] = 0 /\ staller \notin {p, NoPeer}
                THEN stalling \cup {staller} ELSE stalling

\* FindNextBlocksToDownload and the getdata for what it finds.  (The quantifiers over
\* one value name it, so that it is evaluated once.)
RequestBlocks(p) ==
    \E best \in {BestKnown(p)} :
        /\ bestKnown' = [bestKnown EXCEPT ![p] = best]
        /\ lastUnknown' = [lastUnknown EXCEPT ![p] = IF NowKnown(p) THEN NoBlock ELSE @]
        /\ IF best = NoBlock \/ Height[best] < Height[tip]
           THEN UNCHANGED <<lastCommon, flightVars>>
           ELSE \E start \in {WalkStart(p, best)} : \E walk \in {Walk(start, best)} :
                \E fetch \in {InWindow(start, Missing(walk))} :
                    /\ lastCommon' = [lastCommon EXCEPT ![p] = CommonAfter(start, walk)]
                    /\ \E s \in [1..Min({InTransit - inFlight[p], Cardinality(fetch)}) -> fetch] :
                           InOrder(s, fetch) /\ MarkBlocksAsInFlight(p, s, TRUE)
                    /\ MarkStaller(p, IF fetch = {} THEN Staller(walk) ELSE NoPeer)

SendMessages(p) ==
    /\ link[p] = "open" /\ score[p] < BanScore
    /\ UNCHANGED <<treeVars, link, sendhdrsreq, score>>
    /\ StartSync(p)
    /\ IF inFlight[p] < InTransit /\ (Fetch(p) \/ ~IsInitialBlockDownload)
       THEN RequestBlocks(p)
       ELSE UNCHANGED <<availVars, flightVars>>

\* The same for a peer that is to be banned, that has been stalling for too long,
\* or whose first request, for b, is too old: it is disconnected instead.
SendTimeout(p, b) ==
    /\ link[p] = "open"
    /\ \/ score[p] = BanScore /\ b = NoBlock
       \/ p \in stalling /\ p \notin Prompt /\ b = NoBlock
       \/ queue[p] # << >> /\ p \notin Prompt /\ b = Head(queue[p]).hash
    /\ StartSync(p)
    /\ link' = [link EXCEPT ![p] = "closing"]
    /\ UNCHANGED <<treeVars, sendhdrsreq, score, availVars, flightVars>>

-----------------------------------------------------------------------------
Next ==
    \E p \in Peers :
        \/ InitializeNode(p) \/ Version(p) \/ Disconnect(p) \/ FinalizeNode(p)
        \/ \E b \in Sends[p] :
              \/ Inv(p, b)
              \/ \E a \in Line(b) : Headers(p, a, b)
              \/ \E intact \in BOOLEAN : ProcessNewBlock(p, b, intact)
        \/ SendMessages(p)
        \/ \E b \in Blocks \cup {NoBlock} : SendTimeout(p, b)

\* The threads go on: the message handler polls every peer (it is enough to say so
\* of the prompt ones), the network thread deletes disconnected nodes, and the
\* timeout of each request runs out.
NodeFairness ==
    /\ \A p \in Prompt : WF_vars(SendMessages(p))
    /\ \A p \in Peers \ Prompt :
         /\ WF_vars(FinalizeNode(p))
         /\ \A b \in Sends[p] \cup {NoBlock} : WF_vars(SendTimeout(p, b))

\* A prompt peer connects, announces its tip and answers, in an order of its own.
PeerFairness ==
    \A p \in Prompt :
        /\ WF_vars(InitializeNode(p) \/ Version(p))
        /\ WF_vars(Inv(p, Has[p]))
        /\ \A a \in Line(Has[p]) \ {Has[p]} : WF_vars(\E b \in Chain[Has[p]] : Headers(p, a, b))
        /\ WF_vars(\E b \in Sends[p] : ProcessNewBlock(p, b, TRUE))

Spec == Init /\ [][Next]_vars /\ NodeFairness /\ PeerFairness

-----------------------------------------------------------------------------
(* Properties. *)

\* the requests to p for blocks whose header was known (fValidatedHeaders)
Validated(p) == {b \in Blocks : \E i \in DOMAIN queue[p] : queue[p][i] = [hash |-> b, valid |-> TRUE]}

\* The map of blocks in flight, the lists of the peers and their counters tell the
\* same story, and a block is in flight only from a peer that has a CNodeState:
\* MarkBlockAsReceived and SendMessages follow these pointers without a test.  A peer
\* that is about to be disconnected for stalling owes a block.  The global count, from
\* which the timeouts are computed, never falls behind.
FlightAgrees ==
    /\ \A b \in Blocks : flight[b] # NoPeer => flight[b] \in Nodes
    /\ \A p \in Peers :
         /\ {b \in Blocks : flight[b] = p} = {queue[p][i].hash : i \in DOMAIN queue[p]}
         /\ inFlight[p] = Len(queue[p])
         /\ inFlight[p] = Cardinality({b \in Blocks : flight[b] = p})
         /\ validHeaders[p] = Cardinality(Validated(p))
         /\ p \in stalling => queue[p] # << >>
    /\ nQueuedValidatedHeaders >= Cardinality(UNION {Validated(p) : p \in Peers})

\* A block that is stored is not asked for: whichever peer delivered it, and
\* whether or not it was asked, the request is over.
NotAskedTwice == \A b \in data \ {Genesis} : flight[b] = NoPeer

\* The window of a peer starts at a block whose whole chain is stored; otherwise
\* the blocks missing below it would never be asked for again.
WindowAboveStored ==
    \A p \in Peers : lastCommon[p] # NoBlock => Linked(lastCommon[p], data)

\* Whatever the other peers do, the node reaches the tip of a prompt peer that it
\* prefers to download from, unless it is stuck in its initial download: the best
\* header, which need not belong to a chain with blocks, is on another branch, and the
\* answer to a getheaders from there ends with a header that is known but is not the
\* peer's tip, so that the handler asks for no more.
Synced(p) == Height[tip] >= Height[Has[p]]
Stuck(p) ==
    LET last == Answer[p][LastCommonAncestor(bestHeader, Has[p])]
    IN IsInitialBlockDownload /\ last \in known /\ last # Has[p]
GetsSynced == \A p \in Prompt \cap Preferred : <>Synced(p) \/ <>[]Stuck(p)
=============================================================================
