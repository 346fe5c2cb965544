---------------------------- MODULE BlockProducer ----------------------------
(***************************************************************************)
(* Which node makes the next block (src/bitcoin-0.12.0/src/miner.cpp and   *)
(* the list g_vAllNodes of net.cpp).                                       *)
(*                                                                         *)
(* There is no proof of work.  Every node keeps a list of the nodes it is  *)
(* connected to, itself included, and the miner thread of each node sorts  *)
(* its own list by public key and elects the entry after the producer of   *)
(* its own tip.  A node that elects itself makes a block.  No receiver     *)
(* checks whose turn it was, so agreement rests on the lists and the tips  *)
(* alone, while connections come and go and blocks arrive at any step of   *)
(* the miner.                                                              *)
(*                                                                         *)
(* A node is named by its public key, a positive number; "" is 0.  A block *)
(* is the sequence of the producers of its chain; the genesis block is     *)
(* <<>>.  All blocks add the same work, so a longer chain has more work.   *)
(***************************************************************************)
EXTENDS Naturals, Sequences, FiniteSets

CONSTANTS
    Nodes,      \* the public keys of the nodes
    Links,      \* pairs <<a, b>>: a may dial b
    Settled,    \* the connections are all up and stay up
    MaxHeight   \* bound: no block above this height is made

ASSUME NodesAssumption == Nodes \subseteq Nat \ {0} /\ IsFiniteSet(Nodes)

\* no node keeps a connection with itself; in a settled network there is one
\* connection between any two nodes
ASSUME LinksAssumption ==
    /\ Links \subseteq {l \in Nodes \X Nodes : l[1] # l[2]}
    /\ Settled \in BOOLEAN
    /\ Settled => \A a, b \in Nodes :
                      a # b => (<<a, b>> \in Links <=> <<b, a>> \notin Links)
    /\ MaxHeight \in Nat

VARIABLES
    g_vAllNodes,   \* per node: its own entry and one per connection
    netState,      \* per node: m_bNetState of pnodeLocalHost
    tip,           \* per node: chainActive.Tip()
    pc,            \* per node: where its miner is
    pindexPrev,    \* per node: the tip the miner elected itself on
    hashPrevBlock, \* per node: the parent of the block being made
    updated,       \* per node: the counter of the pool has gone up since the
                   \*   miner read it in this turn of its loop
    signed,        \* per node: the signature covers the block's final nTime
    made,          \* all blocks that ProcessNewBlock stored at their producer
    announced      \* the blocks that were the tip of some node

minerVars == <<pc, pindexPrev, hashPrevBlock, updated, signed>>
chainVars == <<tip, made, announced>>
netVars == <<g_vAllNodes, netState>>
vars == <<minerVars, chainVars, netVars>>

-----------------------------------------------------------------------------
\* The list of nodes

Unnamed == 0

Local(n) == [peer |-> n, key |-> n, out |-> FALSE]
Entry(m, k, out) == [peer |-> m, key |-> k, out |-> out]

\* mutant: pnodeLocalHost is taken for a connection
AllEntries(n) == g_vAllNodes[n]

\* the entries other than pnodeLocalHost, which are those of vNodes
Peers(n) == {e \in g_vAllNodes[n] : e.peer # n}

\* a new entry, whose key is not known before VERSION
AddNode(n, m, out) ==
    /\ ~Settled
    /\ ~\E e \in Peers(n) : e.peer = m /\ e.out = out
    /\ g_vAllNodes' = [g_vAllNodes EXCEPT ![n] = @ \cup {Entry(m, Unnamed, out)}]
    /\ netState' = [netState EXCEPT ![n] = TRUE]
    /\ UNCHANGED <<minerVars, chainVars>>

\* n dials m; a connection that m dialled goes unnoticed when both dial at the
\* same time, or m is dialled by name
ConnectNode(n, m) == <<n, m>> \in Links /\ AddNode(n, m, TRUE)

AcceptConnection(n, m) == <<m, n>> \in Links /\ AddNode(n, m, FALSE)

\* the VERSION message of a peer brings its public key
ReceiveVersion(n) ==
    /\ ~Settled
    /\ \E e \in Peers(n) :
        /\ e.key = Unnamed
        /\ g_vAllNodes' = [g_vAllNodes EXCEPT
               ![n] = (@ \ {e}) \cup {Entry(e.peer, e.peer, e.out)}]
    /\ UNCHANGED <<netState, minerVars, chainVars>>

\* ThreadSocketHandler removes a closed connection and sees whether any is left
RemoveDisconnected(n) ==
    /\ ~Settled
    /\ \E e \in Peers(n) :
        /\ g_vAllNodes' = [g_vAllNodes EXCEPT ![n] = @ \ {e}]
        /\ netState' = [netState EXCEPT ![n] = @ /\ Peers(n) # {e}]
    /\ UNCHANGED <<minerVars, chainVars>>

\* SendMessages takes a peer that does not answer its ping from the lists
PingTimeout(n) ==
    /\ ~Settled
    /\ \E e \in Peers(n) :
          g_vAllNodes' = [g_vAllNodes EXCEPT ![n] = @ \ {e}]
    /\ UNCHANGED <<netState, minerVars, chainVars>>

\* a turn of ThreadSocketHandler when no peer is left
SocketHandlerTurn(n) ==
    /\ Peers(n) = {} /\ netState[n]
    /\ netState' = [netState EXCEPT ![n] = FALSE]
    /\ UNCHANGED <<g_vAllNodes, minerVars, chainVars>>

-----------------------------------------------------------------------------
\* The election

Producer(b) == IF b = <<>> THEN Unnamed ELSE b[Len(b)]

\* the entries that std::sort with SortVNodesBy may put first; entries with
\* the same key come in no particular order
First(S) == {e \in S : \A f \in S : e.key <= f.key}

\* mutant: whoever does not know the producer of the tip makes the next block
TurnOfStranger(S, k) ==
    LET found == {e \in S : e.key = k}
        above == {e \in S : e.key > k}
    IN IF found = {} THEN S
       ELSE IF above # {} THEN First(above) ELSE First(S)

\* mutant: the producer of the tip goes on
TurnOfProducer(S, k) ==
    LET found == {e \in S : e.key = k}
    IN IF found # {} THEN found ELSE First(S)

\* mutant: the end of the list is not followed by its beginning
TurnWithoutWrap(S, k) ==
    IF \E e \in S : e.key = k
    THEN First({e \in S : e.key > k})
    ELSE First(S)

\* the entry after the first one with key k, cyclically (when k occurs twice
\* that is the second one), and the first entry when k is not in the list
Turn(S, k) ==
    LET found == {e \in S : e.key = k}
        above == {e \in S : e.key > k}
    IN IF \E e, f \in found : e # f THEN found
       ELSE IF found # {} /\ above # {} THEN First(above)
       ELSE First(S)

\* n's list may put n's own entry, the one with address 127.0.0.1, in the
\* place the producer of b yields to
MyTurn(n, b) == Local(n) \in Turn(g_vAllNodes[n], Producer(b))

-----------------------------------------------------------------------------
\* The miner thread

\* the next turn of the loop: what was local to this one is gone
Continue(n) ==
    /\ pc' = [pc EXCEPT ![n] = "read"]
    /\ pindexPrev' = [pindexPrev EXCEPT ![n] = <<>>]
    /\ hashPrevBlock' = [hashPrevBlock EXCEPT ![n] = <<>>]
    /\ updated' = [updated EXCEPT ![n] = FALSE]
    /\ signed' = [signed EXCEPT ![n] = FALSE]

\* the head of the loop: wait for a peer, read the counter and the tip
ReadTip(n) ==
    /\ pc[n] = "read"
    /\ Peers(n) # {}
    /\ Len(tip[n]) < MaxHeight
    /\ pindexPrev' = [pindexPrev EXCEPT ![n] = tip[n]]
    /\ updated' = [updated EXCEPT ![n] = FALSE]
    /\ pc' = [pc EXCEPT ![n] = "elect"]
    /\ UNCHANGED <<hashPrevBlock, signed, chainVars, netVars>>

\* n's turn has come and two seconds have passed since the tip's nTime
Elect(n) ==
    /\ pc[n] = "elect"
    /\ netState[n] /\ MyTurn(n, pindexPrev[n])
    /\ pc' = [pc EXCEPT ![n] = "create"]
    /\ UNCHANGED <<pindexPrev, hashPrevBlock, updated, signed, chainVars, netVars>>

\* it is another node's turn, nobody is connected, or it is too early, which
\* may be at any time
ElectNot(n) ==
    /\ pc[n] = "elect"
    /\ Continue(n)
    /\ UNCHANGED <<chainVars, netVars>>

\* CreateNewBlock takes the parent from the tip it finds under cs_main
CreateNewBlock(n) ==
    /\ pc[n] = "create"
    /\ hashPrevBlock' = [hashPrevBlock EXCEPT ![n] = tip[n]]
    /\ pc' = [pc EXCEPT ![n] = "recheck"]
    /\ UNCHANGED <<pindexPrev, updated, signed, chainVars, netVars>>

\* CreateNewBlock throws when TestBlockValidity fails, which it does for a clock
\* that is two hours behind the median time of the chain, and BitcoinMiner
\* returns for good
CreateNewBlockThrows(n) ==
    /\ pc[n] = "create"
    /\ pc' = [pc EXCEPT ![n] = "stopped"]
    /\ pindexPrev' = [pindexPrev EXCEPT ![n] = <<>>]
    /\ updated' = [updated EXCEPT ![n] = FALSE]
    /\ UNCHANGED <<hashPrevBlock, signed, chainVars, netVars>>

\* a datum enters or leaves the pool, which raises the counter.  Only an elected
\* miner compares the counter with what it has read, and it makes no difference
\* when in between the datum comes: here it comes before CreateNewBlock.
PoolChanges(n) ==
    /\ pc[n] = "create"
    /\ ~updated[n]
    /\ updated' = [updated EXCEPT ![n] = TRUE]
    /\ UNCHANGED <<pc, pindexPrev, hashPrevBlock, signed, chainVars, netVars>>

\* mutant: the block is handed over whatever happened since the election
AnyTip(n) == TRUE

\* the tip is the one of the election, and neither it nor the pool has changed
\* in between
SameTip(n) == pindexPrev[n] = tip[n] /\ ~updated[n]

\* the checks after signing.  UpdateTime sets nTime anew: when a second has
\* gone by, the signature no longer matches the header.
Recheck(n, sameSecond) ==
    /\ pc[n] = "recheck"
    /\ Peers(n) # {}
    /\ SameTip(n)
    /\ signed' = [signed EXCEPT ![n] = sameSecond]
    /\ pc' = [pc EXCEPT ![n] = "found"]
    /\ UNCHANGED <<pindexPrev, hashPrevBlock, updated, chainVars, netVars>>

\* one of the checks fails, or the clock has run backwards, which may be at any
\* time
RecheckFails(n) ==
    /\ pc[n] = "recheck"
    /\ Continue(n)
    /\ UNCHANGED <<chainVars, netVars>>

Stale(n) == hashPrevBlock[n] # tip[n]

\* ProcessBlockFound looks at the tip under cs_main and releases it
ProcessBlockFound(n) ==
    /\ pc[n] = "found"
    /\ IF Stale(n)
       THEN Continue(n)
       ELSE /\ pc' = [pc EXCEPT ![n] = "submit"]
            /\ UNCHANGED <<pindexPrev, hashPrevBlock, updated, signed>>
    /\ UNCHANGED <<chainVars, netVars>>

\* mutant: the new block itself is counted as work of the old tip
TwoAhead(b, n) == Len(b) > Len(tip[n]) + 1

\* more work than the tip
Better(b, n) == Len(b) > Len(tip[n])

\* the tip of n is b if b has more work, and n announces it to its peers
ActivateBestChain(n, b) ==
    IF Better(b, n)
    THEN /\ tip' = [tip EXCEPT ![n] = b]
         /\ announced' = announced \cup {b}
    ELSE UNCHANGED <<tip, announced>>

\* ProcessNewBlock: CheckBlockHeader drops a block whose signature does not
\* match
ProcessNewBlock(n) ==
    /\ pc[n] = "submit"
    /\ LET b == Append(hashPrevBlock[n], n)
       IN IF signed[n]
          THEN made' = made \cup {b} /\ ActivateBestChain(n, b)
          ELSE UNCHANGED chainVars
    /\ Continue(n)
    /\ UNCHANGED netVars

-----------------------------------------------------------------------------
\* n gets an announced block and, with HEADERS and GETDATA, the blocks below
\* it, from whichever peer; ChainState has the details.  UpdateTip raises the
\* counter of the pool.
ReceiveBlock(n, b) ==
    /\ b \in announced
    /\ Better(b, n)
    /\ ActivateBestChain(n, b)
    /\ updated' = [updated EXCEPT ![n] = pc[n] \notin {"read", "stopped"}]
    /\ UNCHANGED <<made, pc, pindexPrev, hashPrevBlock, signed, netVars>>

\* the list of n in a settled network
Entries(n) ==
    {Entry(l[2], l[2], TRUE) : l \in {k \in Links : k[1] = n}}
    \cup {Entry(l[1], l[1], FALSE) : l \in {k \in Links : k[2] = n}}
    \cup {Local(n)}

\* The chain starts at the genesis block.  The network is settled, or the nodes
\* have just started.
Init ==
    /\ g_vAllNodes = [n \in Nodes |-> IF Settled THEN Entries(n) ELSE {Local(n)}]
    /\ netState = [n \in Nodes |-> Settled]
    /\ tip = [n \in Nodes |-> <<>>]
    /\ updated = [n \in Nodes |-> FALSE]
    /\ pc = [n \in Nodes |-> "read"]
    /\ pindexPrev = [n \in Nodes |-> <<>>]
    /\ hashPrevBlock = [n \in Nodes |-> <<>>]
    /\ signed = [n \in Nodes |-> FALSE]
    /\ made = {<<>>}
    /\ announced = {}

MinerStep(n) ==
    \/ ReadTip(n)
    \/ Elect(n) \/ ElectNot(n)
    \/ CreateNewBlock(n) \/ CreateNewBlockThrows(n)
    \/ \E sameSecond \in BOOLEAN : Recheck(n, sameSecond)
    \/ RecheckFails(n)
    \/ ProcessBlockFound(n)
    \/ ProcessNewBlock(n)

NetStep(n) ==
    \/ \E m \in Nodes : ConnectNode(n, m) \/ AcceptConnection(n, m)
    \/ ReceiveVersion(n)
    \/ RemoveDisconnected(n) \/ PingTimeout(n)
    \/ SocketHandlerTurn(n)

Next ==
    \E n \in Nodes :
        \/ MinerStep(n)
        \/ PoolChanges(n)
        \/ NetStep(n)
        \/ \E b \in announced : ReceiveBlock(n, b)

Spec == Init /\ [][Next]_vars

\* The miner's loop does not block.  Two seconds after the tip's nTime it is no
\* longer too early (Elect).  A miner that finds again and again that neither
\* the tip nor the pool has changed does not find each time that the clock has
\* passed to a new second, or run backwards, during the few instructions between
\* CreateNewBlock and UpdateTime (Recheck).  An announced block reaches every
\* node.  Nothing is assumed of the data that come into the pools.
FairSpec ==
    /\ Spec
    /\ \A n \in Nodes :
          /\ WF_vars(MinerStep(n))
          /\ SF_vars(Elect(n))
          /\ SF_vars(Recheck(n, TRUE))
          /\ WF_vars(\E b \in announced : ReceiveBlock(n, b))

-----------------------------------------------------------------------------
\* Properties

BlockType == Seq(Nodes)

\* Every variable has its type, and the entries of a list are the node itself
\* and its connections.
TypeOK ==
    /\ g_vAllNodes \in
          [Nodes -> SUBSET [peer : Nodes, key : Nodes \cup {Unnamed}, out : BOOLEAN]]
    /\ \A n \in Nodes :
          /\ Local(n) \in g_vAllNodes[n]
          /\ \A e \in g_vAllNodes[n] : /\ e.key \in {e.peer, Unnamed}
                                       /\ e.peer = n => e = Local(n)
    /\ netState \in [Nodes -> BOOLEAN]
    /\ tip \in [Nodes -> BlockType]
    /\ updated \in [Nodes -> BOOLEAN]
    /\ pc \in [Nodes -> {"read", "elect", "create", "recheck", "found", "submit",
                       "stopped"}]
    /\ pindexPrev \in [Nodes -> BlockType]
    /\ hashPrevBlock \in [Nodes -> BlockType]
    /\ signed \in [Nodes -> BOOLEAN]
    /\ made \subseteq BlockType
    /\ announced \subseteq BlockType

KnownKeys(n) == {e.key : e \in g_vAllNodes[n]} \ {Unnamed}

\* Two nodes with the same tip and the same set of known keys never both find
\* that it is their turn, although one may list a peer twice (both dialled) or
\* list peers that have not sent VERSION yet.
UniqueTurn ==
    \A n, m \in Nodes :
        /\ tip[n] = tip[m]
        /\ KnownKeys(n) = KnownKeys(m)
        /\ MyTurn(n, tip[n])
        /\ MyTurn(m, tip[m])
        => n = m

\* A block that reaches ProcessNewBlock extends the very tip its producer was
\* elected on, whatever arrived while it was being made.
HandedOverInTurn ==
    \A n \in Nodes : pc[n] = "submit" => hashPrevBlock[n] = pindexPrev[n]

\* The tip of a producer is at least as high as every block it made: it never
\* makes a second block on a parent it has built on.
OwnBlockKept ==
    \A b \in made : b # <<>> => Len(tip[Producer(b)]) >= Len(b)

\* In a settled network there is one block at each height: nodes that are a
\* few blocks behind never make a competing one.
NoFork ==
    Settled => \A b, c \in made : Len(b) = Len(c) => b = c

\* In a settled network everyone takes part: as many consecutive blocks as
\* there are nodes have different producers.
RoundRobin ==
    Settled => \A b \in made : \A i, j \in 1..Len(b) :
        i < j /\ j - i < Cardinality(Nodes) => b[i] # b[j]

\* from some time on no datum gets into a pool, or out of it without a new tip,
\* while a miner is at work
DataCease == <>[][\A n \in Nodes : ~PoolChanges(n)]_vars

\* no miner has thrown
MinersRun == \A n \in Nodes : pc[n] # "stopped"

\* In a settled network the chain grows, on every node, up to the bound, if the
\* data cease to come for a while and no miner has thrown.  The code needs both: a
\* datum in every turn of the miner whose turn it is, or that miner's end, stops
\* the whole network, since nobody else takes the turn.
ProductionContinues ==
    DataCease /\ []MinersRun => \A n \in Nodes : <>(Len(tip[n]) = MaxHeight)

=============================================================================
