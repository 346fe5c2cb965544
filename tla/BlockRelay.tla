----------------------------- MODULE BlockRelay -----------------------------
(***************************************************************************)
(* How a node tells its peers about new blocks                             *)
(* (src/bitcoin-0.12.0/src/main.cpp), on top of ChainState.                *)
(*                                                                         *)
(* A thread that has moved the tip in ActivateBestChain releases cs_main   *)
(* and only then pushes the hashes of the new blocks to the list           *)
(* vBlockHashesToAnnounce of every peer.  Another thread may move the tip  *)
(* and push its own hashes in between.  The message handler empties the    *)
(* lists: it sends the headers when it believes that they connect to what  *)
(* the peer has, and otherwise an INV of the last hash.                    *)
(*                                                                         *)
(* What it believes of a peer comes from the blocks the peer announces and *)
(* from the headers sent to it: those it was told of and those it asked    *)
(* for with GETHEADERS.  A peer that asks with a null locator gets one     *)
(* header whether or not it has the parent, and from then on the node      *)
(* takes it for a peer that has every block below.                         *)
(*                                                                         *)
(* The node has left its initial block download and its peers started less *)
(* than 2000 blocks above its tip: before that nothing is announced.       *)
(***************************************************************************)
EXTENDS ChainState

CONSTANTS
    Peers,                   \* the connected peers
    MessageHandler,          \* the thread of ThreadMessageHandler
    MAX_BLOCKS_TO_ANNOUNCE,  \* at most so many headers are announced at once
    MAX_HEADERS_RESULTS      \* at most so many headers answer a GETHEADERS

ASSUME RelayAssumption ==
    /\ Null \notin Peers
    /\ MessageHandler \in Threads
    /\ MAX_BLOCKS_TO_ANNOUNCE \in Nat \ {0}
    /\ MAX_HEADERS_RESULTS \in Nat \ {0}

VARIABLES
    vHashes,                 \* per thread and peer: hashes still to be pushed
    cs_vNodes,               \* the thread that pushes, or Null
    vBlockHashesToAnnounce,  \* per peer: what SendMessages will announce
    fPreferHeaders,          \* the peers that have sent SENDHEADERS
    pindexBestKnownBlock,    \* per peer: the best block it has announced
    pindexBestHeaderSent,    \* per peer: the last header sent to it
    headersOf,               \* per peer: the headers it really has: it announced
                             \* them, listed them in a locator or was sent them
    nullLocators,            \* the peers that have asked with a null locator
    invited                  \* per peer: the blocks it got an INV for

peerVars == <<fPreferHeaders, pindexBestKnownBlock, headersOf, nullLocators>>
relayVars == <<vHashes, cs_vNodes, vBlockHashesToAnnounce, peerVars,
               pindexBestHeaderSent, invited>>
allVars == <<vars, relayVars>>

-----------------------------------------------------------------------------
\* The end of a turn of the loop of ActivateBestChain

\* chainActive.FindFork: the place of the last block that a chain shares with
\* the chain of an old tip
FindFork(chain, old) ==
    CHOOSE i \in DOMAIN chain :
        /\ chain[i] \in Ancestors[old]
        /\ \A j \in DOMAIN chain : chain[j] \in Ancestors[old] => j <= i

\* mutant: the newest block comes first
NewestFirst(chain, old) ==
    Reverse(SubSeq(chain, FindFork(chain, old) + 1, Len(chain)))

\* the blocks of a chain above its fork with the chain of an old tip, the last
\* ones if there are too many
AboveFork(chain, old) ==
    LET fork == FindFork(chain, old)
        first == IF Len(chain) - fork > MAX_BLOCKS_TO_ANNOUNCE
                 THEN Len(chain) - MAX_BLOCKS_TO_ANNOUNCE ELSE fork
    IN SubSeq(chain, first + 1, Len(chain))

\* a step of t that ends a run of ActivateBestChainStep leaves the new hashes in
\* the hands of t
ChainStep(t) ==
    /\ ThreadStep(t)
    /\ pc[t] = "check" => \A p \in Peers : vHashes[t][p] = <<>>
    /\ IF pc[t] = "step" /\ pc'[t] = "check"
       THEN vHashes' = [vHashes EXCEPT
                ![t] = [p \in Peers |-> AboveFork(chainActive', pindexOldTip)]]
       ELSE UNCHANGED vHashes
    /\ UNCHANGED <<cs_vNodes, vBlockHashesToAnnounce, peerVars,
                   pindexBestHeaderSent, invited>>

\* one call of PushBlockHash; the loop over all peers holds cs_vNodes, but the
\* message handler needs only cs_inventory, which each call takes anew
PushBlockHash(t, p) ==
    /\ vHashes[t][p] # <<>>
    /\ cs_vNodes \in {Null, t}
    /\ vBlockHashesToAnnounce' =
          [vBlockHashesToAnnounce EXCEPT ![p] = Append(@, Head(vHashes[t][p]))]
    /\ vHashes' = [vHashes EXCEPT ![t][p] = Tail(@)]
    /\ cs_vNodes' = IF \A q \in Peers : vHashes'[t][q] = <<>> THEN Null ELSE t
    /\ UNCHANGED <<vars, peerVars, pindexBestHeaderSent, invited>>

-----------------------------------------------------------------------------
\* What the node knows of a peer

\* the message handler is between two messages and gets cs_main
HandlerFree == cs_main = Null /\ pc[MessageHandler] = "idle"

\* a peer announces a block whose header the node has, or gets: the hash of an
\* unknown block is looked up again before each use
UpdateBlockAvailability(p, b) ==
    /\ HandlerFree
    /\ b \in mapBlockIndex /\ nChainWork[b] > 0
    /\ pindexBestKnownBlock' = [pindexBestKnownBlock EXCEPT
           ![p] = IF @ = Null \/ nChainWork[b] >= nChainWork[@] THEN b ELSE @]
    /\ headersOf' = [headersOf EXCEPT ![p] = @ \cup Ancestors[b]]
    /\ UNCHANGED <<vars, vHashes, cs_vNodes, vBlockHashesToAnnounce,
                   fPreferHeaders, nullLocators, pindexBestHeaderSent, invited>>

\* the message SENDHEADERS
ReceiveSendHeaders(p) ==
    /\ HandlerFree
    /\ fPreferHeaders' = fPreferHeaders \cup {p}
    /\ UNCHANGED <<vars, vHashes, cs_vNodes, vBlockHashesToAnnounce,
                   pindexBestKnownBlock, headersOf, nullLocators,
                   pindexBestHeaderSent, invited>>

\* the place on the active chain of the last header that answers GETHEADERS: the
\* loop starts above the fork and ends at hashStop, at the limit or at the tip.  If
\* the fork is the tip no header is sent and the tip itself is remembered
LastSent(fork, hashStop) ==
    LET first == nHeight[fork] + 2
        limit == first + MAX_HEADERS_RESULTS - 1
        end == IF limit < Len(chainActive) THEN limit ELSE Len(chainActive)
    IN IF InActive(hashStop) /\ nHeight[hashStop] + 1 \in first..end
       THEN nHeight[hashStop] + 1 ELSE end

\* the message GETHEADERS with a locator, whose blocks the peer has; fork is the
\* block that FindForkInGlobalIndex finds, any block of the active chain.  A hashStop
\* of zero or of an unknown block acts like one that is not above the fork
ReceiveGetHeaders(p, fork, hashStop) ==
    /\ HandlerFree
    /\ InActive(fork)
    /\ LET last == LastSent(fork, hashStop)
       IN /\ pindexBestHeaderSent' = [pindexBestHeaderSent EXCEPT
                 ![p] = chainActive[last]]
          /\ headersOf' = [headersOf EXCEPT
                 ![p] = @ \cup Ancestors[fork]
                          \cup {chainActive[i] : i \in (nHeight[fork] + 2)..last}]
    /\ UNCHANGED <<vars, vHashes, cs_vNodes, vBlockHashesToAnnounce,
                   fPreferHeaders, pindexBestKnownBlock, nullLocators, invited>>

\* the message GETHEADERS with a null locator: the header of hashStop alone, from any
\* branch; nothing is sent if the block is unknown
ReceiveGetHeader(p, hashStop) ==
    /\ HandlerFree
    /\ hashStop \in mapBlockIndex
    /\ pindexBestHeaderSent' = [pindexBestHeaderSent EXCEPT ![p] = hashStop]
    /\ headersOf' = [headersOf EXCEPT ![p] = @ \cup {hashStop}]
    /\ nullLocators' = nullLocators \cup {p}
    /\ UNCHANGED <<vars, vHashes, cs_vNodes, vBlockHashesToAnnounce,
                   fPreferHeaders, pindexBestKnownBlock, invited>>

\* mutant: everything up to that height is taken for known
KnownUpToHeight(p, b) ==
    \E a \in {pindexBestKnownBlock[p], pindexBestHeaderSent[p]} \ {Null} :
        nHeight[b] <= nHeight[a]

\* b is on the chain of a block that the peer announced or was sent
PeerHasHeader(p, b) ==
    \E a \in {pindexBestKnownBlock[p], pindexBestHeaderSent[p]} \ {Null} :
        b \in Ancestors[a]

-----------------------------------------------------------------------------
\* The announcements of SendMessages

\* the first hash of a list that the peer does not have, or 0
FirstNew(p, list) ==
    LET new == {i \in 1..Len(list) : ~PeerHasHeader(p, list[i])}
    IN IF new = {} THEN 0 ELSE CHOOSE i \in new : \A j \in new : i <= j

\* a list that is announced by HEADERS unless a block of it stands in the way
MayUseHeaders(p, list) ==
    p \in fPreferHeaders /\ Len(list) <= MAX_BLOCKS_TO_ANNOUNCE

\* at the i-th hash the loop gives up: the block has left the active chain, or
\* the peer has not even its parent
Bails(p, list, i) ==
    \/ ~InActive(list[i])
    \/ /\ i = FirstNew(p, list)
       /\ list[i] # Genesis
       /\ ~PeerHasHeader(p, pprev[list[i]])

RevertToInv(p, list) ==
    \/ ~MayUseHeaders(p, list)
    \/ \E i \in DOMAIN list : Bails(p, list, i)

\* mutant: the oldest hash of the list
OldestHash(list) == list[1]

\* mutant: the list is cleared before its last hash is read
ClearedFirst(list) == Null

\* the hash for an INV
HashToAnnounce(list) == list[Len(list)]

SendInv(p, list) ==
    /\ invited' =
          IF list = <<>> \/ PeerHasHeader(p, HashToAnnounce(list))
          THEN invited
          ELSE [invited EXCEPT ![p] = @ \cup {HashToAnnounce(list)}]
    /\ UNCHANGED <<pindexBestHeaderSent, headersOf>>

SendHeaders(p, list) ==
    /\ IF FirstNew(p, list) = 0
       THEN UNCHANGED <<pindexBestHeaderSent, headersOf>>
       ELSE /\ pindexBestHeaderSent' =
                  [pindexBestHeaderSent EXCEPT ![p] = list[Len(list)]]
            /\ headersOf' = [headersOf EXCEPT
                  ![p] = @ \cup Range(SubSeq(list, FirstNew(p, list), Len(list)))]
    /\ UNCHANGED invited

\* assert(pBestIndex == NULL || pindex->pprev == pBestIndex) at the i-th hash,
\* which the loop reaches
AssertFails(p, list, i) ==
    /\ MayUseHeaders(p, list)
    /\ i > 1
    /\ InActive(list[i])
    /\ \A j \in 1..(i - 1) : ~Bails(p, list, j)
    /\ list[i] = Genesis \/ pprev[list[i]] # list[i - 1]

\* the message handler comes to peer p with cs_main in its hands; a failed
\* assertion ends the program
SendMessages(p) ==
    /\ HandlerFree
    /\ LET list == vBlockHashesToAnnounce[p]
       IN /\ list # <<>>
          /\ \A i \in DOMAIN list : ~AssertFails(p, list, i)
          /\ IF RevertToInv(p, list) THEN SendInv(p, list) ELSE SendHeaders(p, list)
    /\ vBlockHashesToAnnounce' = [vBlockHashesToAnnounce EXCEPT ![p] = <<>>]
    /\ UNCHANGED <<vars, vHashes, cs_vNodes, fPreferHeaders, pindexBestKnownBlock,
                   nullLocators>>

-----------------------------------------------------------------------------
RelayInit ==
    /\ Init
    /\ vHashes = [t \in Threads |-> [p \in Peers |-> <<>>]]
    /\ cs_vNodes = Null
    /\ vBlockHashesToAnnounce = [p \in Peers |-> <<>>]
    /\ fPreferHeaders = {}
    /\ pindexBestKnownBlock = [p \in Peers |-> Null]
    /\ pindexBestHeaderSent = [p \in Peers |-> Null]
    /\ headersOf = [p \in Peers |-> {Genesis}]
    /\ nullLocators = {}
    /\ invited = [p \in Peers |-> {}]

RelayNext ==
    \/ (Receive \/ Rpc) /\ UNCHANGED relayVars
    \/ \E t \in Threads : ChainStep(t)
    \/ \E t \in Threads, p \in Peers : PushBlockHash(t, p)
    \/ \E p \in Peers, b \in Blocks : UpdateBlockAvailability(p, b)
    \/ \E p \in Peers : ReceiveSendHeaders(p) \/ SendMessages(p)
    \/ \E p \in Peers, fork, hashStop \in Blocks : ReceiveGetHeaders(p, fork, hashStop)
    \/ \E p \in Peers, hashStop \in Blocks : ReceiveGetHeader(p, hashStop)

RelaySpec == RelayInit /\ [][RelayNext]_allVars

-----------------------------------------------------------------------------
\* Properties

\* Every variable of the relay has its type.
RelayTypeOK ==
    /\ vHashes \in [Threads -> [Peers -> Seq(Blocks)]]
    /\ cs_vNodes \in Threads \cup {Null}
    /\ vBlockHashesToAnnounce \in [Peers -> Seq(Blocks)]
    /\ fPreferHeaders \subseteq Peers
    /\ pindexBestKnownBlock \in [Peers -> Blocks \cup {Null}]
    /\ pindexBestHeaderSent \in [Peers -> Blocks \cup {Null}]
    /\ headersOf \in [Peers -> SUBSET Blocks]
    /\ nullLocators \subseteq Peers
    /\ invited \in [Peers -> SUBSET Blocks]

\* Whatever HEADERS the node sends connect at the receiver, whether announced or
\* asked for: what PeerHasHeader believes of a peer is true although tips change
\* between the pushes and the sending.  A peer that has asked with a null locator
\* is excepted: its answer need not connect, and neither what is announced to it
\* later.
HeadersConnect == \A p \in Peers \ nullLocators : ParentClosed(headersOf[p])

\* When the node is at rest and has nothing left to announce, every peer has
\* the header of the tip or an INV for it.  A peer that has asked with a null
\* locator may miss a tip below the header it got, which it is thought to have.
TipAnnounced ==
    (Idle /\ \A p \in Peers : vBlockHashesToAnnounce[p] = <<>>)
    => \A p \in Peers \ nullLocators : Tip \in headersOf[p] \cup invited[p]

\* The assertion of SendMessages: the hashes of a list that are all on the
\* active chain follow each other.
AnnouncementsFollow ==
    HandlerFree
    => \A p \in Peers : \A i \in DOMAIN vBlockHashesToAnnounce[p] :
           ~AssertFails(p, vBlockHashesToAnnounce[p], i)

=============================================================================
