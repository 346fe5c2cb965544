--------------------------- MODULE BlockDownload ----------------------------
(***************************************************************************)
(* Which block a node asks from which peer                                 *)
(* (src/bitcoin-0.12.0/src/main.cpp and net.cpp), on top of ActiveChain.   *)
(*                                                                         *)
(* The message handler thread visits the peers in turn: it handles one     *)
(* message of a peer and then runs SendMessages for it.  Peers announce    *)
(* blocks by INV or HEADERS and may deliver them, deliver something else,  *)
(* or nothing.  The socket handler thread removes disconnected peers and   *)
(* deletes them once the message handler is done with them.                *)
(*                                                                         *)
(* A peer is a NodeId.  Time appears as choices: a deadline that can pass  *)
(* may have passed at any visit.                                           *)
(***************************************************************************)
EXTENDS ActiveChain, Integers, FiniteSets, SequencesExt

CONSTANTS
    Peers,          \* connections
    Outbound,       \* the connections that this node has opened
    Honest,         \* peers that stay, answer in time and send what is asked
    Mute,           \* peers that may leave a PING unanswered
    chainOf,        \* [Peers -> Blocks], the tip of a peer's chain
    announces,      \* [Peers -> SUBSET Blocks], what it announces of that
    Refused,        \* blocks that ConnectBlock may refuse
    MaxConnections, \* bound: how often a NodeId is used
    MAX_BLOCKS_IN_TRANSIT_PER_PEER,
    BLOCK_DOWNLOAD_WINDOW,
    MIN_BLOCKS_TO_KEEP

ASSUME PeersAssumption ==
    /\ IsFiniteSet(Peers) /\ Null \notin Peers
    /\ Outbound \subseteq Peers
    /\ Honest \subseteq Peers
    /\ Mute \subseteq Peers \ Honest
    /\ chainOf \in [Peers -> Blocks]
    /\ announces \in [Peers -> SUBSET Blocks]
    /\ \A p \in Peers : announces[p] \subseteq Ancestors[chainOf[p]]
    /\ \A p \in Honest : chainOf[p] \in announces[p]
    /\ Refused \subseteq Blocks

ASSUME LimitsAssumption ==
    /\ MaxConnections \in Nat
    /\ MAX_BLOCKS_IN_TRANSIT_PER_PEER \in Nat \ {0}
    /\ BLOCK_DOWNLOAD_WINDOW \in Nat \ {0}
    /\ MIN_BLOCKS_TO_KEEP \in Nat

VARIABLES
    vNodes,                \* the peers that the threads visit
    vNodesDisconnected,    \* peers that wait for their deletion
    mapNodeState,          \* peers with a CNodeState
    fDisconnect,           \* peers to be disconnected
    nVersion,              \* peers that have sent VERSION
    fShouldBan,            \* peers that have misbehaved
    connections,           \* per peer: how often it was connected
    vNodesCopy,            \* peers of this pass of the message handler
    todo,                  \* those that it has not visited yet
    serving,               \* the peer between receive and send, or Null
    flight,                \* the blocks in flight, see Flight
    pindexBestKnownBlock,  \* per peer
    hashLastUnknownBlock,  \* per peer
    pindexLastCommonBlock, \* per peer
    fPreferredDownload,    \* the preferred peers
    nPreferredDownload,    \* their number
    fSyncStarted,          \* the peers that were asked for headers
    nSyncStarted,          \* their number
    fInitialDownload,      \* IsInitialBlockDownload()
    vGetData               \* <<peer, block>>s that the thread that holds
                           \*   cs_main is about to mark as in flight

nodeVars == <<vNodes, vNodesDisconnected, mapNodeState, fDisconnect, nVersion,
              fShouldBan, connections>>
handlerVars == <<vNodesCopy, todo, serving>>
knownVars == <<pindexBestKnownBlock, hashLastUnknownBlock, pindexLastCommonBlock>>
syncVars == <<fPreferredDownload, nPreferredDownload, fSyncStarted, nSyncStarted>>
vars == <<chainVars, nodeVars, handlerVars, flight, knownVars, syncVars,
          fInitialDownload, vGetData>>

-----------------------------------------------------------------------------
\* Blocks in flight

\* mapBlocksInFlight and the fields of CNodeState that go with it; an entry of
\* vBlocksInFlight has the hash and fValidatedHeaders
Flight ==
    [mapBlocksInFlight           : [Blocks -> Peers \cup {Null}],
     vBlocksInFlight             : [Peers -> Seq(Blocks \X {0, 1})],
     nBlocksInFlight             : [Peers -> Nat],
     nBlocksInFlightValidHeaders : [Peers -> Nat],
     nQueuedValidatedHeaders     : Nat,
     nStallingSince              : SUBSET Peers]

NothingInFlight ==
    [mapBlocksInFlight           |-> [b \in Blocks |-> Null],
     vBlocksInFlight             |-> [p \in Peers |-> <<>>],
     nBlocksInFlight             |-> [p \in Peers |-> 0],
     nBlocksInFlightValidHeaders |-> [p \in Peers |-> 0],
     nQueuedValidatedHeaders     |-> 0,
     nStallingSince              |-> {}]

InFlight(b) == flight.mapBlocksInFlight[b] # Null

\* the iterator that mapBlocksInFlight keeps for b
PlaceOf(list, b) == CHOOSE i \in DOMAIN list : list[i][1] = b

Without(list, b) == RemoveAt(list, PlaceOf(list, b))

\* fValidatedHeaders of the entry of b in the list of its peer
ValidatedBit(F, b) ==
    LET list == F.vBlocksInFlight[F.mapBlocksInFlight[b]]
    IN list[PlaceOf(list, b)][2]

\* mutant: the peer goes on being blamed
ReceivedKeepsBlame(F, b) ==
    LET p == F.mapBlocksInFlight[b]
    IN IF p = Null THEN F
       ELSE [F EXCEPT !.mapBlocksInFlight[b] = Null,
                      !.vBlocksInFlight[p] = Without(@, b),
                      !.nBlocksInFlight[p] = @ - 1,
                      !.nBlocksInFlightValidHeaders[p] = @ - ValidatedBit(F, b),
                      !.nQueuedValidatedHeaders = @ - ValidatedBit(F, b)]

\* b is in flight no more, whoever has sent it
MarkBlockAsReceived(F, b) ==
    LET p == F.mapBlocksInFlight[b]
    IN IF p = Null THEN F
       ELSE [F EXCEPT !.mapBlocksInFlight[b] = Null,
                      !.vBlocksInFlight[p] = Without(@, b),
                      !.nBlocksInFlight[p] = @ - 1,
                      !.nBlocksInFlightValidHeaders[p] = @ - ValidatedBit(F, b),
                      !.nQueuedValidatedHeaders = @ - ValidatedBit(F, b),
                      !.nStallingSince = @ \ {p}]

\* b is asked from p
MarkBlockAsInFlight(F, p, b, fValidatedHeaders) ==
    [MarkBlockAsReceived(F, b) EXCEPT
        !.mapBlocksInFlight[b] = p,
        !.vBlocksInFlight[p] = Append(@, <<b, fValidatedHeaders>>),
        !.nBlocksInFlight[p] = @ + 1,
        !.nBlocksInFlightValidHeaders[p] = @ + fValidatedHeaders,
        !.nQueuedValidatedHeaders = @ + fValidatedHeaders]

\* mutant: the blocks of the peer stay marked
ForgetPeer(F, p) ==
    [F EXCEPT
        !.vBlocksInFlight[p] = <<>>,
        !.nBlocksInFlight[p] = 0,
        !.nBlocksInFlightValidHeaders[p] = 0,
        !.nQueuedValidatedHeaders = @ - F.nBlocksInFlightValidHeaders[p],
        !.nStallingSince = @ \ {p}]

\* mutant: blocks asked for by INV are counted as validated
ReleaseCountsAll(F, p) ==
    LET list == F.vBlocksInFlight[p]
    IN [F EXCEPT
           !.mapBlocksInFlight = [b \in Blocks |->
               IF \E i \in DOMAIN list : list[i][1] = b THEN Null ELSE @[b]],
           !.vBlocksInFlight[p] = <<>>,
           !.nBlocksInFlight[p] = 0,
           !.nBlocksInFlightValidHeaders[p] = 0,
           !.nQueuedValidatedHeaders = @ - Len(list),
           !.nStallingSince = @ \ {p}]

\* the blocks in flight from p are nobody's, and its state is erased
ReleasePeer(F, p) ==
    LET list == F.vBlocksInFlight[p]
    IN [F EXCEPT
           !.mapBlocksInFlight = [b \in Blocks |->
               IF \E i \in DOMAIN list : list[i][1] = b THEN Null ELSE @[b]],
           !.vBlocksInFlight[p] = <<>>,
           !.nBlocksInFlight[p] = 0,
           !.nBlocksInFlightValidHeaders[p] = 0,
           !.nQueuedValidatedHeaders =
               @ - Cardinality({i \in DOMAIN list : list[i][2] = 1}),
           !.nStallingSince = @ \ {p}]

-----------------------------------------------------------------------------
\* What a peer is known to have

\* the blocks of an index that count as known
Known(index) == {b \in index : nChainWork[b] > 0}

BestOf(a, b) == IF a = Null \/ nChainWork[b] >= nChainWork[a] THEN b ELSE a

\* ProcessBlockAvailability: the last unknown hash may be in the index by now
BestKnown(p, index) ==
    IF hashLastUnknownBlock[p] \in Known(index)
    THEN BestOf(pindexBestKnownBlock[p], hashLastUnknownBlock[p])
    ELSE pindexBestKnownBlock[p]

LastUnknown(p, index) ==
    IF hashLastUnknownBlock[p] \in Known(index) THEN Null ELSE hashLastUnknownBlock[p]

ProcessBlockAvailability(p) ==
    /\ pindexBestKnownBlock' =
          [pindexBestKnownBlock EXCEPT ![p] = BestKnown(p, mapBlockIndex)]
    /\ hashLastUnknownBlock' =
          [hashLastUnknownBlock EXCEPT ![p] = LastUnknown(p, mapBlockIndex)]

UpdateBlockAvailability(p, b, index) ==
    /\ pindexBestKnownBlock' = [pindexBestKnownBlock EXCEPT
          ![p] = IF b \in Known(index) THEN BestOf(BestKnown(p, index), b)
                                       ELSE BestKnown(p, index)]
    /\ hashLastUnknownBlock' = [hashLastUnknownBlock EXCEPT
          ![p] = IF b \in Known(index) THEN LastUnknown(p, index) ELSE b]
    /\ UNCHANGED pindexLastCommonBlock

-----------------------------------------------------------------------------
\* What to ask a peer for

\* the first and the last n blocks of a part of one branch
Lowest(S, n) == {b \in S : Cardinality({c \in S : nHeight[c] < nHeight[b]}) < n}
Highest(S, n) == {b \in S : Cardinality({c \in S : nHeight[c] > nHeight[b]}) < n}

Active(b) == b \in Ancestors[tip]

\* mutant: blocks in flight are asked for again
NotStored(b) == b \notin haveData

\* CanDirectFetch, which may hold when the tip is recent; genesis is not
MayDirectFetch == IF tip = Genesis THEN {FALSE} ELSE BOOLEAN

\* the best header may be recent
MayBeRecent == mapBlockIndex # {Genesis}

\* neither downloaded nor in flight
Missing(b) == b \notin haveData /\ ~InFlight(b)

Room(p) == MAX_BLOCKS_IN_TRANSIT_PER_PEER - flight.nBlocksInFlight[p]

\* the walk of HEADERS down from b to the active chain, at most one block
\* longer than a peer may be asked for; nothing is fetched when it ends above
\* the active chain
DirectFetch(p, b) ==
    LET missing == {c \in Ancestors[b] \ Ancestors[tip] : Missing(c)}
        walked == Highest(missing, MAX_BLOCKS_IN_TRANSIT_PER_PEER + 1)
        large == /\ Cardinality(missing) > MAX_BLOCKS_IN_TRANSIT_PER_PEER
                 /\ \E c \in Lowest(walked, 1) : ~Active(pprev[c])
    IN IF large THEN {} ELSE Lowest(walked, Room(p))

LastCommonAncestor(a, b) ==
    CHOOSE c \in Ancestors[a] \cap Ancestors[b] :
        Ancestors[a] \cap Ancestors[b] \subseteq Ancestors[c]

\* pindexLastCommonBlock, guessed when there is none, moved back to the chain
\* of the peer's best block
ForkPoint(p, best) ==
    LET height == IF nHeight[best] < nHeight[tip] THEN nHeight[best] ELSE nHeight[tip]
        guess == CHOOSE a \in Ancestors[tip] : nHeight[a] = height
    IN LastCommonAncestor(IF pindexLastCommonBlock[p] = Null
                          THEN guess ELSE pindexLastCommonBlock[p], best)

\* the blocks that FindNextBlocksToDownload looks at: up to one above the
\* window, and no further than a failed one
InReach(fork, best) ==
    {b \in Ancestors[best] \ Ancestors[fork] :
        /\ nHeight[b] <= nHeight[fork] + BLOCK_DOWNLOAD_WINDOW + 1
        /\ (Ancestors[b] \ Ancestors[fork]) \cap failed = {}}

InWindow(fork, b) == nHeight[b] <= nHeight[fork] + BLOCK_DOWNLOAD_WINDOW

NothingInteresting(best) == best = Null \/ nChainWork[best] < nChainWork[tip]

\* the blocks to be asked from p
VToDownload(p, best) ==
    IF NothingInteresting(best) THEN {}
    ELSE LET fork == ForkPoint(p, best)
         IN Lowest({b \in InReach(fork, best) : Missing(b) /\ InWindow(fork, b)}, Room(p))

\* mutant: nChainTx is not looked at
StoredCommon(p, best) ==
    IF NothingInteresting(best) THEN pindexLastCommonBlock[p]
    ELSE LET fork == ForkPoint(p, best)
             stored == (InReach(fork, best) \cap haveData) \cup {fork}
         IN CHOOSE b \in stored : \A c \in stored : nHeight[c] <= nHeight[b]

\* the highest fully stored block in reach, or the fork point
NewCommon(p, best) ==
    IF NothingInteresting(best) THEN pindexLastCommonBlock[p]
    ELSE LET fork == ForkPoint(p, best)
             stored == (InReach(fork, best) \cap FullyStored) \cup {fork}
         IN CHOOSE b \in stored : \A c \in stored : nHeight[c] <= nHeight[b]

\* the peer that holds up the window: the one asked for the first block in
\* flight, when nothing but the block above the window could be fetched from p
Staller(p, best) ==
    IF NothingInteresting(best) THEN Null
    ELSE LET fork == ForkPoint(p, best)
             reach == InReach(fork, best)
             waiting == {b \in reach \ haveData : InFlight(b)}
             waitingfor == CHOOSE b \in waiting : \A c \in waiting : nHeight[b] <= nHeight[c]
         IN IF /\ VToDownload(p, best) = {}
               /\ \E b \in reach : Missing(b) /\ ~InWindow(fork, b)
               /\ waiting # {}
               /\ flight.mapBlocksInFlight[waitingfor] # p
            THEN flight.mapBlocksInFlight[waitingfor] ELSE Null

-----------------------------------------------------------------------------
\* Connections

csMainFree == vGetData = {}

\* ConnectNode or AcceptConnection: a new CNode has a fresh CNodeState
InitializeNode(p) ==
    /\ csMainFree
    /\ p \notin mapNodeState
    /\ connections[p] < MaxConnections
    /\ connections' = [connections EXCEPT ![p] = @ + 1]
    /\ mapNodeState' = mapNodeState \cup {p}
    /\ vNodes' = vNodes \cup {p}
    /\ UNCHANGED <<chainVars, vNodesDisconnected, fDisconnect, nVersion, fShouldBan,
                   handlerVars, flight, knownVars, syncVars, fInitialDownload,
                   vGetData>>

\* the socket is closed or fails, or the peer is inactive
SocketFails(p) ==
    /\ p \in vNodes \ (fDisconnect \cup Honest)
    /\ fDisconnect' = fDisconnect \cup {p}
    /\ UNCHANGED <<chainVars, vNodes, vNodesDisconnected, mapNodeState, nVersion,
                   fShouldBan, connections, handlerVars, flight, knownVars,
                   syncVars, fInitialDownload, vGetData>>

\* mutant: a disconnected peer is not kept for its deletion
DisconnectForgets(p) ==
    /\ p \in vNodes \cap fDisconnect
    /\ vNodes' = vNodes \ {p}
    /\ UNCHANGED <<chainVars, vNodesDisconnected, mapNodeState, fDisconnect, nVersion,
                   fShouldBan, connections, handlerVars, flight, knownVars, syncVars,
                   fInitialDownload, vGetData>>

\* ThreadSocketHandler takes a disconnected peer from vNodes
DisconnectNode(p) ==
    /\ p \in vNodes \cap fDisconnect
    /\ vNodes' = vNodes \ {p}
    /\ vNodesDisconnected' = vNodesDisconnected \cup {p}
    /\ UNCHANGED <<chainVars, mapNodeState, fDisconnect, nVersion, fShouldBan,
                   connections, handlerVars, flight, knownVars, syncVars,
                   fInitialDownload, vGetData>>

\* mutant: a peer that was asked for headers stays counted
LeavePreferred(p) ==
    /\ fPreferredDownload' = fPreferredDownload \ {p}
    /\ nPreferredDownload' = nPreferredDownload - Cardinality({p} \cap fPreferredDownload)
    /\ fSyncStarted' = fSyncStarted \ {p}
    /\ UNCHANGED nSyncStarted

\* a peer that goes is counted no more
LeaveCounts(p) ==
    /\ fPreferredDownload' = fPreferredDownload \ {p}
    /\ nPreferredDownload' = nPreferredDownload - Cardinality({p} \cap fPreferredDownload)
    /\ fSyncStarted' = fSyncStarted \ {p}
    /\ nSyncStarted' = nSyncStarted - Cardinality({p} \cap fSyncStarted)

\* ... and deletes it when the message handler, which holds references to the
\* peers of its pass, has let go of it
FinalizeNode(p) ==
    /\ csMainFree
    /\ p \in vNodesDisconnected
    /\ p \notin vNodesCopy
    /\ vNodesDisconnected' = vNodesDisconnected \ {p}
    /\ mapNodeState' = mapNodeState \ {p}
    /\ fDisconnect' = fDisconnect \ {p}
    /\ nVersion' = nVersion \ {p}
    /\ fShouldBan' = fShouldBan \ {p}
    /\ flight' = ReleasePeer(flight, p)
    /\ pindexBestKnownBlock' = [pindexBestKnownBlock EXCEPT ![p] = Null]
    /\ hashLastUnknownBlock' = [hashLastUnknownBlock EXCEPT ![p] = Null]
    /\ pindexLastCommonBlock' = [pindexLastCommonBlock EXCEPT ![p] = Null]
    /\ LeaveCounts(p)
    /\ UNCHANGED <<chainVars, vNodes, connections, handlerVars, fInitialDownload,
                   vGetData>>

-----------------------------------------------------------------------------
\* The message handler: receiving

\* a new pass over vNodes; the peers left over are disconnected
BeginPass ==
    /\ serving = Null
    /\ todo \subseteq fDisconnect
    /\ vNodes # vNodesCopy \/ vNodes \ fDisconnect # {}
    /\ vNodesCopy' = vNodes
    /\ todo' = vNodes
    /\ UNCHANGED <<chainVars, nodeVars, serving, flight, knownVars, syncVars,
                   fInitialDownload, vGetData>>

\* the handler comes to a peer; SendMessages follows
Visit(p) ==
    /\ csMainFree /\ serving = Null
    /\ p \in todo \ fDisconnect
    /\ serving' = p
    /\ todo' = todo \ {p}
    /\ UNCHANGED <<vNodesCopy, vNodes, vNodesDisconnected, mapNodeState,
                   fDisconnect, connections>>

\* no message that matters here has arrived
ReceiveNothing(p) ==
    /\ Visit(p)
    /\ UNCHANGED <<chainVars, nVersion, fShouldBan, flight, knownVars, syncVars,
                   fInitialDownload, vGetData>>

\* VERSION, with UpdatePreferredDownload
ReceiveVersion(p) ==
    /\ Visit(p)
    /\ p \notin nVersion
    /\ nVersion' = nVersion \cup {p}
    /\ fPreferredDownload' = fPreferredDownload \cup ({p} \cap Outbound)
    /\ nPreferredDownload' = nPreferredDownload + Cardinality({p} \cap Outbound)
    /\ UNCHANGED <<chainVars, fShouldBan, flight, knownVars, fSyncStarted,
                   nSyncStarted, fInitialDownload, vGetData>>

\* an INV of one block; fCanDirectFetch says whether the tip is recent.  The
\* GETHEADERS that goes first may be answered by a HEADERS later.
ReceiveInv(p, b, fCanDirectFetch) ==
    /\ Visit(p)
    /\ p \in nVersion
    /\ UpdateBlockAvailability(p, b, mapBlockIndex)
    /\ flight' = IF b \notin mapBlockIndex /\ ~InFlight(b) /\ fCanDirectFetch /\ Room(p) > 0
                 THEN MarkBlockAsInFlight(flight, p, b, 0) ELSE flight
    /\ UNCHANGED <<chainVars, nVersion, fShouldBan, syncVars, fInitialDownload,
                   vGetData>>

\* the new headers of a message that ends in b
NewHeaders(b) == Ancestors[b] \ mapBlockIndex

\* the last header is marked as failed, or the first new one has a failed parent
HeadersRefused(b) ==
    IF NewHeaders(b) = {} THEN b \in failed
    ELSE \E c \in NewHeaders(b) : pprev[c] \in failed

\* HEADERS from where the index ends up to b
ReceiveHeaders(p, b, fCanDirectFetch) ==
    /\ Visit(p)
    /\ p \in nVersion
    /\ ~HeadersRefused(b)
    /\ mapBlockIndex' = mapBlockIndex \cup NewHeaders(b)
    /\ UpdateBlockAvailability(p, b, mapBlockIndex')
    /\ vGetData' = IF fCanDirectFetch /\ nChainWork[tip] <= nChainWork[b]
                   THEN {p} \X DirectFetch(p, b) ELSE {}
    /\ UNCHANGED <<haveData, failed, tip, nVersion, fShouldBan, flight, syncVars,
                   fInitialDownload>>

ReceiveBadHeaders(p, b) ==
    /\ Visit(p)
    /\ p \in nVersion
    /\ HeadersRefused(b)
    /\ fShouldBan' = IF NewHeaders(b) = {} THEN fShouldBan ELSE fShouldBan \cup {p}
    /\ UNCHANGED <<chainVars, nVersion, flight, knownVars, syncVars,
                   fInitialDownload, vGetData>>

\* a block that was not asked for is dropped when it does not help
Dropped(b) ==
    \/ b \in haveData
    \/ /\ ~InFlight(b)
       /\ \/ nChainWork[b] <= nChainWork[tip]
          \/ nHeight[b] > nHeight[tip] + MIN_BLOCKS_TO_KEEP

HeaderAccepted(b) ==
    IF b \in mapBlockIndex THEN b \notin failed
                           ELSE pprev[b] \in mapBlockIndex \ failed

\* BLOCK with a good body: ProcessNewBlock up to ActivateBestChain
ReceiveBlock(p, b) ==
    /\ Visit(p)
    /\ p \in nVersion
    /\ flight' = MarkBlockAsReceived(flight, b)
    /\ mapBlockIndex' = IF HeaderAccepted(b) THEN mapBlockIndex \cup {b} ELSE mapBlockIndex
    /\ haveData' = IF HeaderAccepted(b) /\ ~Dropped(b) THEN haveData \cup {b} ELSE haveData
    /\ fShouldBan' = IF b \notin mapBlockIndex /\ pprev[b] \in failed
                     THEN fShouldBan \cup {p} ELSE fShouldBan
    /\ UNCHANGED <<failed, tip, nVersion, knownVars, syncVars, fInitialDownload,
                   vGetData>>

\* BLOCK with a body that CheckBlock refuses
ReceiveBadBlock(p, b) ==
    /\ Visit(p)
    /\ p \in nVersion \ Honest
    /\ flight' = MarkBlockAsReceived(flight, b)
    /\ fShouldBan' = fShouldBan \cup {p}
    /\ UNCHANGED <<chainVars, nVersion, knownVars, syncVars, fInitialDownload,
                   vGetData>>

-----------------------------------------------------------------------------
\* The message handler: SendMessages

\* a peer that has not answered its PING is taken from vNodes
PingCheck(p) ==
    \/ UNCHANGED vNodes
    \/ p \in Mute \cap nVersion /\ vNodes' = vNodes \ {p}

\* ProcessNewBlock returns when ActivateBestChain has nothing left to do
Serving(p) == csMainFree /\ serving = p /\ ~Improvable

\* SendMessages returns early: no VERSION yet, or cs_main is taken
SendNothing(p) ==
    /\ Serving(p)
    /\ PingCheck(p)
    /\ serving' = Null
    /\ UNCHANGED <<chainVars, vNodesDisconnected, mapNodeState, fDisconnect, nVersion,
                   fShouldBan, connections, vNodesCopy, todo, flight, knownVars,
                   syncVars, fInitialDownload, vGetData>>

\* a nice peer, or there is none
FFetch(p) == p \in fPreferredDownload \/ nPreferredDownload = 0

\* ask one peer for headers, or any peer when the best header is recent
StartSync(p) ==
    \/ /\ p \notin fSyncStarted
       /\ (nSyncStarted = 0 /\ FFetch(p)) \/ MayBeRecent
       /\ fSyncStarted' = fSyncStarted \cup {p}
       /\ nSyncStarted' = nSyncStarted + 1
    \/ /\ p \in fSyncStarted \/ nSyncStarted # 0 \/ ~FFetch(p)
       /\ UNCHANGED <<fSyncStarted, nSyncStarted>>

MayGetData(p) ==
    p \notin fDisconnect' /\ (FFetch(p) \/ ~fInitialDownload) /\ Room(p) > 0

\* the part under cs_main; fLate says that the peer has been stalling for too
\* long or that its first block in flight has timed out
SendMessages(p, fLate) ==
    /\ Serving(p)
    /\ p \in nVersion
    /\ PingCheck(p)
    /\ fLate => p \notin Honest /\ (p \in flight.nStallingSince
                                    \/ flight.vBlocksInFlight[p] # <<>>)
    /\ fDisconnect' = IF fLate \/ p \in fShouldBan THEN fDisconnect \cup {p}
                                                   ELSE fDisconnect
    /\ fShouldBan' = fShouldBan \ {p}
    /\ StartSync(p)
    /\ ProcessBlockAvailability(p)
    /\ LET best == BestKnown(p, mapBlockIndex)
       IN IF MayGetData(p)
          THEN /\ vGetData' = {p} \X VToDownload(p, best)
               /\ pindexLastCommonBlock' =
                     [pindexLastCommonBlock EXCEPT ![p] = NewCommon(p, best)]
               /\ flight' =
                     IF flight.nBlocksInFlight[p] = 0 /\ Staller(p, best) # Null
                     THEN [flight EXCEPT !.nStallingSince = @ \cup {Staller(p, best)}]
                     ELSE flight
          ELSE UNCHANGED <<vGetData, pindexLastCommonBlock, flight>>
    /\ serving' = Null
    /\ UNCHANGED <<chainVars, vNodesDisconnected, mapNodeState, nVersion, connections,
                   vNodesCopy, todo, fPreferredDownload, nPreferredDownload,
                   fInitialDownload>>

\* the loop over the blocks to be asked for, from the lowest, under the same cs_main
MarkNext ==
    /\ \E r \in vGetData :
          /\ \A s \in vGetData : nHeight[r[2]] <= nHeight[s[2]]
          /\ flight' = MarkBlockAsInFlight(flight, r[1], r[2], 1)
          /\ vGetData' = vGetData \ {r}
    /\ UNCHANGED <<chainVars, nodeVars, handlerVars, knownVars, syncVars,
                   fInitialDownload>>

-----------------------------------------------------------------------------
\* The chain

OthersUnchanged ==
    UNCHANGED <<nodeVars, handlerVars, flight, knownVars, syncVars, fInitialDownload,
                vGetData>>

\* a step of ActivateBestChain, at the end of ProcessNewBlock
Activate ==
    /\ serving # Null
    /\ Improvable
    /\ \/ \E b \in Blocks : MoveTip(b) /\ nChainWork[b] > nChainWork[tip]
       \/ \E b \in Refused : FailAt(b)
    /\ OthersUnchanged

\* FindMostWorkChain marks a descendant of a failed block
MarkFailed ==
    /\ serving # Null
    /\ \E b \in mapBlockIndex \ failed : MarkDescendants({b})
    /\ OthersUnchanged

\* the initial block download ends for good
EndInitialDownload ==
    /\ fInitialDownload
    /\ MayBeRecent
    /\ fInitialDownload' = FALSE
    /\ UNCHANGED <<chainVars, nodeVars, handlerVars, flight, knownVars, syncVars,
                   vGetData>>

-----------------------------------------------------------------------------
Init ==
    /\ ChainInit
    /\ vNodes = {} /\ vNodesDisconnected = {} /\ mapNodeState = {}
    /\ fDisconnect = {} /\ nVersion = {} /\ fShouldBan = {}
    /\ connections = [p \in Peers |-> 0]
    /\ vNodesCopy = {} /\ todo = {} /\ serving = Null
    /\ flight = NothingInFlight
    /\ pindexBestKnownBlock = [p \in Peers |-> Null]
    /\ hashLastUnknownBlock = [p \in Peers |-> Null]
    /\ pindexLastCommonBlock = [p \in Peers |-> Null]
    /\ fPreferredDownload = {} /\ nPreferredDownload = 0
    /\ fSyncStarted = {} /\ nSyncStarted = 0
    /\ fInitialDownload = TRUE
    /\ vGetData = {}

Receive(p) ==
    \/ ReceiveNothing(p)
    \/ ReceiveVersion(p)
    \/ \E b \in announces[p], fCanDirectFetch \in MayDirectFetch :
          ReceiveInv(p, b, fCanDirectFetch) \/ ReceiveHeaders(p, b, fCanDirectFetch)
    \/ \E b \in announces[p] : ReceiveBadHeaders(p, b)
    \/ \E b \in Ancestors[chainOf[p]] \ {Genesis} :
          ReceiveBlock(p, b) \/ ReceiveBadBlock(p, b)

Send(p) == SendNothing(p) \/ \E fLate \in BOOLEAN : SendMessages(p, fLate)

HandlerStep ==
    BeginPass \/ MarkNext \/ Activate \/ \E p \in Peers : Receive(p) \/ Send(p)

Next ==
    \/ HandlerStep
    \/ \E p \in Peers : InitializeNode(p) \/ SocketFails(p)
                        \/ DisconnectNode(p) \/ FinalizeNode(p)
    \/ MarkFailed
    \/ EndInitialDownload

Spec == Init /\ [][Next]_vars

\* the announcement of a tip that the peer is not known to have
Announce(p) ==
    /\ pindexBestKnownBlock[p] # chainOf[p]
    /\ \E fCanDirectFetch \in MayDirectFetch : ReceiveHeaders(p, chainOf[p], fCanDirectFetch)

\* the answer to a GETDATA
Answer(p) == \E b \in Blocks : flight.mapBlocksInFlight[b] = p /\ ReceiveBlock(p, b)

\* The threads go on running, TRY_LOCK of cs_main succeeds now and then, a
\* deadline passes when the peer does nothing, and an honest peer announces its
\* tip and answers.
Fairness ==
    /\ WF_vars(HandlerStep)
    /\ \A p \in Peers : WF_vars(DisconnectNode(p) \/ FinalizeNode(p))
    /\ \A p \in Peers \ Honest : SF_vars(SendMessages(p, TRUE))
    /\ \A p \in Peers : SF_vars(SendMessages(p, FALSE))
    /\ \A p \in Honest : SF_vars(Announce(p)) /\ SF_vars(Answer(p))

FairSpec == Spec /\ Fairness

-----------------------------------------------------------------------------
\* Properties

\* Every variable keeps its type; no counter goes below zero.
TypeOK ==
    /\ mapBlockIndex \subseteq Blocks /\ haveData \subseteq mapBlockIndex
    /\ failed \subseteq mapBlockIndex /\ tip \in Blocks
    /\ vNodes \subseteq Peers /\ vNodesDisconnected \subseteq Peers
    /\ mapNodeState \subseteq Peers /\ fDisconnect \subseteq mapNodeState
    /\ nVersion \subseteq mapNodeState /\ fShouldBan \subseteq mapNodeState
    /\ connections \in [Peers -> 0..MaxConnections]
    /\ vNodesCopy \subseteq Peers /\ todo \subseteq vNodesCopy
    /\ serving \in vNodesCopy \cup {Null}
    /\ flight \in Flight
    /\ pindexBestKnownBlock \in [Peers -> Blocks \cup {Null}]
    /\ hashLastUnknownBlock \in [Peers -> Blocks \cup {Null}]
    /\ pindexLastCommonBlock \in [Peers -> Blocks \cup {Null}]
    /\ fPreferredDownload \subseteq mapNodeState /\ nPreferredDownload \in Nat
    /\ fSyncStarted \subseteq mapNodeState /\ nSyncStarted \in Nat
    /\ fInitialDownload \in BOOLEAN
    /\ vGetData \subseteq Peers \X Blocks

\* mapBlocksInFlight and the lists of the peers are the same relation, each
\* block is in one list at most and once, its peer still has a CNodeState (so
\* State() of it is not NULL), the counters of a peer count its list, and
\* nQueuedValidatedHeaders is the "number of blocks in flight with validated
\* headers".
InFlightExact ==
    /\ \A b \in Blocks : InFlight(b) => flight.mapBlocksInFlight[b] \in mapNodeState
    /\ \A p \in Peers :
          LET list == flight.vBlocksInFlight[p]
          IN /\ {b \in Blocks : flight.mapBlocksInFlight[b] = p}
                   = {list[i][1] : i \in DOMAIN list}
             /\ \A i, j \in DOMAIN list : list[i][1] = list[j][1] => i = j
             /\ flight.nBlocksInFlight[p] = Len(list)
             /\ flight.nBlocksInFlightValidHeaders[p] =
                   Cardinality({i \in DOMAIN list : list[i][2] = 1})
    /\ flight.nQueuedValidatedHeaders =
          Cardinality({b \in Blocks : InFlight(b) /\ ValidatedBit(flight, b) = 1})

\* The peers that are counted for the start of the header download and for the
\* preference are those with a CNodeState: a peer that is gone is not waited
\* for.
CountersExact ==
    /\ nSyncStarted = Cardinality(fSyncStarted)
    /\ nPreferredDownload = Cardinality(fPreferredDownload)

\* A peer is blamed for a stalled window only while it owes a block.
BlamedOwesBlock ==
    \A p \in flight.nStallingSince : flight.vBlocksInFlight[p] # <<>>

\* A block in flight is never asked from a second peer: first it arrives, or
\* the peer that owes it is deleted.
NeverPassedOn ==
    [][\A b \in Blocks :
          InFlight(b) => flight'.mapBlocksInFlight[b] \in
                            {flight.mapBlocksInFlight[b], Null}]_vars

\* No block is in flight from the same peer for ever: it arrives, or the peer
\* is found stalling or late, disconnected and deleted.
InFlightEnds ==
    \A p \in Peers : \A b \in Ancestors[chainOf[p]] \ {Genesis} :
        flight.mapBlocksInFlight[b] = p ~> flight.mapBlocksInFlight[b] # p

\* The best block of an honest peer that this node has opened a connection to
\* is downloaded with all of its ancestors, whatever other peers promise and
\* in whatever order blocks arrive, unless its branch is invalid or the active
\* chain has more work.
CatchesUp ==
    \A p \in Honest \cap Outbound :
        p \in nVersion
           ~> \/ chainOf[p] \in FullyStored
              \/ Ancestors[chainOf[p]] \cap failed # {}
              \/ nChainWork[tip] > nChainWork[chainOf[p]]

=============================================================================
