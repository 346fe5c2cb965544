------------------------- MODULE BlockProducerProofs -------------------------
(***************************************************************************)
(* Proofs about BlockProducer, for any set of nodes, any connections and   *)
(* any height.                                                             *)
(*                                                                         *)
(* TurnUnique is the heart: the order by key has one successor, so two     *)
(* nodes that know the same keys and look at the same block agree on whose *)
(* turn it is.  IInv then carries through the miner's loop that the block  *)
(* it hands over extends the tip it was elected on, and, in a settled      *)
(* network, that every block was made in turn on a made block, from which  *)
(* NoFork follows by comparing parents.                                    *)
(***************************************************************************)
EXTENDS BlockProducer, FiniteSetTheorems, TLAPS

\* Public keys are positive numbers.
LEMMA Keys == \A x \in Nodes : x \in Nat /\ x # Unnamed
BY NodesAssumption DEF Unnamed

\* The entry a node has for itself.
LEMMA LocalEntry ==
    ASSUME TypeOK, NEW n \in Nodes
    PROVE  /\ Local(n) \in g_vAllNodes[n]
           /\ Local(n).key = n /\ Local(n).peer = n
           /\ n \in KnownKeys(n)
           /\ \A x \in KnownKeys(n) : x \in Nodes
<1>1. Local(n) \in g_vAllNodes[n] /\ Local(n).key = n /\ Local(n).peer = n
  BY DEF TypeOK, Local
<1>2. n \in KnownKeys(n)
  BY <1>1, Keys DEF KnownKeys
<1>3. \A e \in g_vAllNodes[n] : e.key \in Nodes \cup {Unnamed}
  BY DEF TypeOK
<1> QED
  BY <1>1, <1>2, <1>3 DEF KnownKeys

\* The producer of a block is the node that appended itself to its parent.
LEMMA ProducerOfAppend ==
    ASSUME NEW p \in Seq(Nodes), NEW n \in Nodes
    PROVE  /\ Append(p, n) \in Seq(Nodes)
           /\ Append(p, n) # <<>>
           /\ Producer(Append(p, n)) = n
           /\ Len(Append(p, n)) = Len(p) + 1
<1>1. /\ Append(p, n) \in Seq(Nodes)
      /\ Len(Append(p, n)) = Len(p) + 1
      /\ Append(p, n)[Len(p) + 1] = n
      /\ Len(p) \in Nat
  OBVIOUS
<1>2. Append(p, n) # <<>>
  BY <1>1
<1> QED
  BY <1>1, <1>2 DEF Producer

\* The key of the producer of a block is the key of a node, or none.
LEMMA ProducerType ==
    ASSUME NEW b \in Seq(Nodes)
    PROVE  Producer(b) \in Nodes \cup {Unnamed}
BY DEF Producer

\* What it means that a node finds its own entry in the place of the next
\* producer: it is the first key above k, or nobody is above and it is the first
\* of all, or k is unknown (or no key) and it is the first of all the named.
LEMMA TurnMeaning ==
    ASSUME TypeOK, NEW n \in Nodes, NEW k \in Nodes \cup {Unnamed},
           Local(n) \in Turn(g_vAllNodes[n], k)
    PROVE  \/ KnownKeys(n) = {n}
           \/ /\ k < n /\ \A x \in KnownKeys(n) : k < x => n <= x
              /\ k \in KnownKeys(n) \cup {Unnamed}
           \/ /\ \A x \in KnownKeys(n) : n <= x
              /\ k \notin KnownKeys(n) \/ \A x \in KnownKeys(n) : x <= k
              /\ k # n
<1> DEFINE S == g_vAllNodes[n]
           found == {e \in S : e.key = k}
           above == {e \in S : e.key > k}
<1>1. /\ Local(n) \in S /\ Local(n).key = n /\ Local(n).peer = n
      /\ n \in KnownKeys(n)
      /\ \A e \in S : /\ e.key \in {e.peer, Unnamed}
                      /\ e.peer = n => e = Local(n)
                      /\ e.key \in Nat
      /\ n \in Nat /\ n > 0 /\ k \in Nat
  <2>1. \A e \in S : e.key \in Nodes \cup {Unnamed}
    BY DEF TypeOK
  <2>2. \A e \in S : e.key \in {e.peer, Unnamed} /\ (e.peer = n => e = Local(n))
    BY DEF TypeOK
  <2>3. n \in Nat /\ n > 0 /\ k \in Nat /\ \A e \in S : e.key \in Nat
    BY <2>1, Keys DEF Unnamed
  <2> QED
    BY <2>2, <2>3, LocalEntry
<1>2. \A e \in S : e.key = n => e = Local(n)
  BY <1>1 DEF Unnamed
<1>3. \A x \in KnownKeys(n) : \E e \in S : e.key = x
  BY DEF KnownKeys
<1>4. \A x \in KnownKeys(n) : x \in Nat
  BY <1>1, <1>3
<1>5. CASE \E e, f \in found : e # f
  <2>1. Local(n) \in found
    BY <1>5 DEF Turn
  <2> QED
    BY <1>1, <1>2, <1>5, <2>1
<1>6. CASE ~(\E e, f \in found : e # f) /\ found # {} /\ above # {}
  <2>1. Local(n) \in First(above)
    BY <1>6 DEF Turn
  <2>2. k < n /\ \A x \in KnownKeys(n) : k < x => n <= x
    BY <1>1, <1>3, <2>1 DEF First
  <2>3. k \in KnownKeys(n) \cup {Unnamed}
    BY <1>6 DEF KnownKeys
  <2> QED
    BY <2>2, <2>3
<1>7. CASE ~(\E e, f \in found : e # f) /\ ~(found # {} /\ above # {})
  <2>1. Local(n) \in First(S)
    BY <1>7 DEF Turn
  <2>2. \A x \in KnownKeys(n) : n <= x
    BY <1>1, <1>3, <2>1 DEF First
  <2>3. k \notin KnownKeys(n) \/ \A x \in KnownKeys(n) : x <= k
    <3>1. CASE found = {}
      BY <3>1, <1>3
    <3>2. CASE above = {}
      BY <3>2, <1>1, <1>3, <1>4
    <3> QED
      BY <1>7, <3>1, <3>2
  <2>4. CASE k = n
    <3>1. \A x \in KnownKeys(n) : x <= n /\ n <= x
      BY <1>1, <2>2, <2>3, <2>4
    <3> QED
      BY <1>1, <1>4, <3>1
  <2> QED
    BY <2>2, <2>3, <2>4
<1> QED
  BY <1>5, <1>6, <1>7

\* Two nodes that know the same keys agree on whose turn it is after any block.
LEMMA TurnUnique ==
    ASSUME TypeOK, NEW n \in Nodes, NEW m \in Nodes, NEW b \in Seq(Nodes),
           KnownKeys(n) = KnownKeys(m), MyTurn(n, b), MyTurn(m, b)
    PROVE  n = m
<1> DEFINE k == Producer(b)
           K == KnownKeys(n)
<1>1. k \in Nodes \cup {Unnamed}
  BY ProducerType
<1>2. n \in K /\ m \in K /\ \A x \in K : x \in Nodes
  BY LocalEntry
<1>3. k \in Nat /\ n \in Nat /\ m \in Nat
  BY <1>1, Keys DEF Unnamed
<1>4. \/ K = {n}
      \/ /\ k < n /\ \A x \in K : k < x => n <= x
         /\ k \in K \cup {Unnamed}
      \/ /\ \A x \in K : n <= x
         /\ k \notin K \/ \A x \in K : x <= k
         /\ k # n
  BY <1>1, TurnMeaning DEF MyTurn
<1>5. \/ K = {m}
      \/ /\ k < m /\ \A x \in K : k < x => m <= x
         /\ k \in K \cup {Unnamed}
      \/ /\ \A x \in K : m <= x
         /\ k \notin K \/ \A x \in K : x <= k
         /\ k # m
  BY <1>1, TurnMeaning DEF MyTurn
<1>6. \A x \in K : x \in Nat /\ x # Unnamed
  BY <1>2, Keys
<1> HIDE DEF k, K
<1> QED
  BY <1>2, <1>3, <1>4, <1>5, <1>6 DEF Unnamed

-----------------------------------------------------------------------------

\* what the miner's locals say of the tip while it makes a block
MinerInv ==
    \A n \in Nodes :
        /\ pc[n] \notin {"read", "stopped"} /\ ~updated[n] => tip[n] = pindexPrev[n]
        /\ pc[n] = "recheck" /\ ~updated[n] => hashPrevBlock[n] = pindexPrev[n]
        /\ pc[n] \in {"found", "submit"} => hashPrevBlock[n] = pindexPrev[n]

\* every block a node has or looks at was made
MadeInv ==
    /\ <<>> \in made
    /\ announced \subseteq made
    /\ \A n \in Nodes : tip[n] \in made /\ pindexPrev[n] \in made

Elected == {"create", "recheck", "found", "submit"}

\* in a settled network every block was made in turn on a made block
TurnsInv ==
    Settled =>
        /\ g_vAllNodes = [n \in Nodes |-> Entries(n)]
        /\ \A n \in Nodes : pc[n] \in Elected => MyTurn(n, pindexPrev[n])
        /\ \A b \in made : b # <<>> =>
               \E p \in made, n \in Nodes : b = Append(p, n) /\ MyTurn(n, p)

\* The inductive invariant.
IInv ==
    /\ TypeOK
    /\ MinerInv
    /\ MadeInv
    /\ OwnBlockKept
    /\ TurnsInv
    /\ NoFork

\* In a settled network every node knows every key.
LEMMA SettledKeys ==
    ASSUME TypeOK, Settled, g_vAllNodes = [n \in Nodes |-> Entries(n)],
           NEW n \in Nodes
    PROVE  KnownKeys(n) = Nodes
<1>1. \A x \in KnownKeys(n) : x \in Nodes
  BY LocalEntry
<1>2. ASSUME NEW m \in Nodes, m # n PROVE m \in KnownKeys(n)
  <2>1. <<n, m>> \in Links \/ <<m, n>> \in Links
    BY <1>2, LinksAssumption
  <2>2. g_vAllNodes[n] = Entries(n)
    OBVIOUS
  <2>3. ASSUME <<n, m>> \in Links PROVE Entry(m, m, TRUE) \in g_vAllNodes[n]
    <3> DEFINE l == <<n, m>>
    <3>1. l \in Links /\ l[1] = n /\ l[2] = m
      BY <2>3
    <3> HIDE DEF l
    <3> QED
      BY <2>2, <3>1 DEF Entries
  <2>4. ASSUME <<m, n>> \in Links PROVE Entry(m, m, FALSE) \in g_vAllNodes[n]
    <3> DEFINE l == <<m, n>>
    <3>1. l \in Links /\ l[2] = n /\ l[1] = m
      BY <2>4
    <3> HIDE DEF l
    <3> QED
      BY <2>2, <3>1 DEF Entries
  <2>5. \E e \in g_vAllNodes[n] : e.key = m
    BY <2>1, <2>3, <2>4 DEF Entry
  <2> QED
    BY <2>5, Keys DEF KnownKeys
<1> QED
  BY <1>1, <1>2, LocalEntry

\* The initial state satisfies the invariant.
LEMMA InitIInv == Init => IInv
<1> SUFFICES ASSUME Init PROVE IInv
  OBVIOUS
<1> DEFINE EntryType == [peer : Nodes, key : Nodes \cup {Unnamed}, out : BOOLEAN]
<1>1. ASSUME NEW n \in Nodes, NEW e \in Entries(n)
      PROVE  e \in EntryType
  <2>1. \A m \in Nodes, out \in BOOLEAN : Entry(m, m, out) \in EntryType
    BY DEF Entry
  <2>2. \A l \in Links : l[1] \in Nodes /\ l[2] \in Nodes
    BY LinksAssumption
  <2>3. Local(n) \in EntryType
    BY DEF Local
  <2> QED
    BY <1>1, <2>1, <2>2, <2>3 DEF Entries
<1>2. \A n \in Nodes : {Local(n)} \in
         SUBSET [peer : Nodes, key : Nodes \cup {Unnamed}, out : BOOLEAN]
  BY DEF Local
<1>3. ASSUME NEW n \in Nodes, NEW e \in Entries(n)
      PROVE  e.key \in {e.peer, Unnamed} /\ (e.peer = n => e = Local(n))
  BY <1>3, LinksAssumption DEF Entries, Entry, Local
<1>4. \A n \in Nodes : Local(n) \in Entries(n)
  BY DEF Entries
<1>5. g_vAllNodes \in
        [Nodes -> SUBSET [peer : Nodes, key : Nodes \cup {Unnamed}, out : BOOLEAN]]
  BY <1>1, <1>2 DEF Init
<1>6. ASSUME NEW n \in Nodes
      PROVE  /\ Local(n) \in g_vAllNodes[n]
             /\ \A e \in g_vAllNodes[n] : /\ e.key \in {e.peer, Unnamed}
                                          /\ e.peer = n => e = Local(n)
  <2>1. CASE Settled
    BY <1>3, <1>4, <2>1 DEF Init
  <2>2. CASE ~Settled
    <3>1. g_vAllNodes[n] = {Local(n)} /\ Local(n).key = Local(n).peer
      BY <2>2 DEF Init, Local
    <3> QED
      BY <3>1
  <2> QED
    BY <2>1, <2>2
<1>7. TypeOK
  BY <1>5, <1>6, LinksAssumption DEF Init, TypeOK, BlockType
<1>8. MinerInv /\ MadeInv /\ OwnBlockKept /\ NoFork
  BY DEF Init, MinerInv, MadeInv, OwnBlockKept, NoFork
<1>9. TurnsInv
  BY DEF Init, TurnsInv, Elected
<1> QED
  BY <1>7, <1>8, <1>9 DEF IInv

\* Steps of the network leave the miners and the chains alone, and do not
\* happen in a settled network.
LEMMA NetFrame ==
    ASSUME IInv, TypeOK', UNCHANGED <<minerVars, chainVars>>,
           Settled => UNCHANGED g_vAllNodes
    PROVE  IInv'
<1> USE DEF IInv, minerVars, chainVars
<1>1. MinerInv' /\ MadeInv' /\ OwnBlockKept' /\ NoFork'
  BY DEF MinerInv, MadeInv, OwnBlockKept, NoFork
<1>2. TurnsInv'
  BY DEF TurnsInv, MyTurn
<1> QED
  BY <1>1, <1>2

\* ConnectNode, AcceptConnection, VERSION, disconnection and ping timeout.
LEMMA NetSteps ==
    ASSUME IInv, NEW n \in Nodes, NetStep(n)
    PROVE  IInv'
<1>0. TypeOK
  BY DEF IInv
<1>1. ASSUME NEW m \in Nodes, NEW out \in BOOLEAN, m # n, AddNode(n, m, out)
      PROVE  IInv'
  <2>1. m # n
    BY <1>1
  <2>2. Entry(m, Unnamed, out) \in [peer : Nodes, key : Nodes \cup {Unnamed}, out : BOOLEAN]
    BY DEF Entry
  <2>3. Entry(m, Unnamed, out).peer = m /\ Entry(m, Unnamed, out).key = Unnamed
    BY DEF Entry
  <2>4. TypeOK'
    BY <1>0, <1>1, <2>1, <2>2, <2>3 DEF TypeOK, AddNode, minerVars, chainVars
  <2> QED
    BY <1>1, <2>4, NetFrame DEF AddNode
<1>2. ASSUME ReceiveVersion(n) PROVE IInv'
  <2>1. PICK e \in Peers(n) :
          g_vAllNodes' = [g_vAllNodes EXCEPT
               ![n] = (g_vAllNodes[n] \ {e}) \cup {Entry(e.peer, e.peer, e.out)}]
    BY <1>2 DEF ReceiveVersion
  <2>2. e \in g_vAllNodes[n] /\ e.peer # n /\ e.peer \in Nodes /\ e.out \in BOOLEAN
    BY <1>0 DEF Peers, TypeOK
  <2>3. /\ Entry(e.peer, e.peer, e.out) \in [peer : Nodes, key : Nodes \cup {Unnamed}, out : BOOLEAN]
        /\ Entry(e.peer, e.peer, e.out).peer = e.peer
        /\ Entry(e.peer, e.peer, e.out).key = e.peer
    BY <2>2 DEF Entry
  <2>4. Local(n).peer = n
    BY DEF Local
  <2>5. TypeOK'
    <3> DEFINE x == Entry(e.peer, e.peer, e.out)
    <3>1. x \in [peer : Nodes, key : Nodes \cup {Unnamed}, out : BOOLEAN]
          /\ x.peer # n /\ x.key = x.peer
      BY <2>2, <2>3
    <3> HIDE DEF x
    <3> QED
      BY <1>0, <1>2, <2>1, <2>2, <2>4, <3>1
      DEF TypeOK, ReceiveVersion, minerVars, chainVars, x
  <2> QED
    BY <1>2, <2>5, NetFrame DEF ReceiveVersion
<1>3. ASSUME RemoveDisconnected(n) \/ PingTimeout(n) PROVE IInv'
  <2>1. PICK e \in Peers(n) :
          g_vAllNodes' = [g_vAllNodes EXCEPT ![n] = g_vAllNodes[n] \ {e}]
    BY <1>3 DEF RemoveDisconnected, PingTimeout
  <2>2. e.peer # n /\ Local(n).peer = n
    BY DEF Peers, Local
  <2>3. netState' \in [Nodes -> BOOLEAN]
    BY <1>0, <1>3 DEF TypeOK, RemoveDisconnected, PingTimeout
  <2>4. UNCHANGED <<minerVars, chainVars>> /\ ~Settled
    BY <1>3 DEF RemoveDisconnected, PingTimeout
  <2>5. TypeOK'
    BY <1>0, <2>1, <2>2, <2>3, <2>4 DEF TypeOK, minerVars, chainVars
  <2> QED
    BY <2>4, <2>5, NetFrame
<1>4. ASSUME SocketHandlerTurn(n) PROVE IInv'
  <2>1. TypeOK'
    BY <1>0, <1>4 DEF TypeOK, SocketHandlerTurn, minerVars, chainVars
  <2> QED
    BY <1>4, <2>1, NetFrame DEF SocketHandlerTurn
<1>5. ASSUME NEW m \in Nodes, ConnectNode(n, m) \/ AcceptConnection(n, m)
      PROVE  IInv'
  <2>1. m # n
    BY <1>5, LinksAssumption DEF ConnectNode, AcceptConnection
  <2> QED
    BY <1>1, <1>5, <2>1 DEF ConnectNode, AcceptConnection
<1> QED
  BY <1>2, <1>3, <1>4, <1>5 DEF NetStep

\* Steps of a miner that leave the chains alone.
LEMMA MinerFrame ==
    ASSUME IInv, TypeOK', MinerInv', UNCHANGED <<tip, made, announced, netVars>>,
           \A n \in Nodes : pindexPrev'[n] \in made,
           Settled => \A n \in Nodes :
                         pc'[n] \in Elected => MyTurn(n, pindexPrev'[n])
    PROVE  IInv'
<1> USE DEF IInv, netVars
<1>1. MadeInv' /\ OwnBlockKept' /\ NoFork'
  BY DEF MadeInv, OwnBlockKept, NoFork
<1>2. TurnsInv'
  BY DEF TurnsInv, MyTurn
<1> QED
  BY <1>1, <1>2

\* The next turn of the loop.
LEMMA ContinueStep ==
    ASSUME IInv, NEW n \in Nodes, Continue(n), UNCHANGED <<chainVars, netVars>>
    PROVE  IInv'
<1> USE DEF IInv, Continue, chainVars, netVars
<1>0. <<>> \in Seq(Nodes)
  OBVIOUS
<1>1. TypeOK'
  BY <1>0 DEF TypeOK, BlockType
<1>2. MinerInv'
  BY DEF MinerInv, TypeOK
<1>3. \A m \in Nodes : pindexPrev'[m] \in made
  BY DEF MadeInv, TypeOK
<1>4. Settled => \A m \in Nodes : pc'[m] \in Elected => MyTurn(m, pindexPrev'[m])
  BY DEF TurnsInv, TypeOK, Elected
<1> QED
  BY <1>1, <1>2, <1>3, <1>4, MinerFrame

\* The turns of the loop of BitcoinMiner up to the hand-over.
LEMMA MakingSteps ==
    ASSUME IInv, NEW n \in Nodes,
           \/ ReadTip(n) \/ Elect(n) \/ ElectNot(n)
           \/ CreateNewBlock(n) \/ CreateNewBlockThrows(n) \/ PoolChanges(n)
           \/ \E sameSecond \in BOOLEAN : Recheck(n, sameSecond)
           \/ RecheckFails(n) \/ ProcessBlockFound(n)
    PROVE  IInv'
<1>0. TypeOK /\ MinerInv /\ MadeInv /\ TurnsInv
  BY DEF IInv
<1>1. ASSUME ReadTip(n) PROVE IInv'
  <2> USE <1>0, <1>1 DEF ReadTip, netVars, chainVars
  <2>1. TypeOK'
    BY DEF TypeOK, BlockType
  <2>2. MinerInv'
    BY DEF MinerInv, TypeOK
  <2>3. \A m \in Nodes : pindexPrev'[m] \in made
    BY DEF MadeInv, TypeOK
  <2>4. Settled => \A m \in Nodes : pc'[m] \in Elected => MyTurn(m, pindexPrev'[m])
    BY DEF TurnsInv, TypeOK, Elected
  <2> QED
    BY <2>1, <2>2, <2>3, <2>4, MinerFrame
<1>2. ASSUME Elect(n) PROVE IInv'
  <2> USE <1>0, <1>2 DEF Elect, netVars, chainVars
  <2>1. TypeOK'
    BY DEF TypeOK, BlockType
  <2>2. MinerInv'
    BY DEF MinerInv, TypeOK
  <2>3. \A m \in Nodes : pindexPrev'[m] \in made
    BY DEF MadeInv, TypeOK
  <2>4. Settled => \A m \in Nodes : pc'[m] \in Elected => MyTurn(m, pindexPrev'[m])
    BY DEF TurnsInv, TypeOK, Elected
  <2> QED
    BY <2>1, <2>2, <2>3, <2>4, MinerFrame
<1>3. ASSUME CreateNewBlock(n) PROVE IInv'
  <2> USE <1>0, <1>3 DEF CreateNewBlock, netVars, chainVars
  <2>1. TypeOK'
    BY DEF TypeOK, BlockType
  <2>2. MinerInv'
    BY DEF MinerInv, TypeOK
  <2>3. \A m \in Nodes : pindexPrev'[m] \in made
    BY DEF MadeInv, TypeOK
  <2>4. Settled => \A m \in Nodes : pc'[m] \in Elected => MyTurn(m, pindexPrev'[m])
    BY DEF TurnsInv, TypeOK, Elected
  <2> QED
    BY <2>1, <2>2, <2>3, <2>4, MinerFrame
<1>4. ASSUME NEW sameSecond \in BOOLEAN, Recheck(n, sameSecond) PROVE IInv'
  <2> USE <1>0, <1>4 DEF Recheck, netVars, chainVars
  <2>1. TypeOK'
    BY DEF TypeOK, BlockType
  <2>2. MinerInv'
    BY DEF MinerInv, TypeOK, SameTip
  <2>3. \A m \in Nodes : pindexPrev'[m] \in made
    BY DEF MadeInv, TypeOK
  <2>4. Settled => \A m \in Nodes : pc'[m] \in Elected => MyTurn(m, pindexPrev'[m])
    BY DEF TurnsInv, TypeOK, Elected
  <2> QED
    BY <2>1, <2>2, <2>3, <2>4, MinerFrame
<1>5. ASSUME ProcessBlockFound(n), ~Stale(n) PROVE IInv'
  <2> USE <1>0, <1>5 DEF ProcessBlockFound, netVars, chainVars
  <2>1. TypeOK'
    BY DEF TypeOK, BlockType
  <2>2. MinerInv'
    BY DEF MinerInv, TypeOK
  <2>3. \A m \in Nodes : pindexPrev'[m] \in made
    BY DEF MadeInv, TypeOK
  <2>4. Settled => \A m \in Nodes : pc'[m] \in Elected => MyTurn(m, pindexPrev'[m])
    BY DEF TurnsInv, TypeOK, Elected
  <2> QED
    BY <2>1, <2>2, <2>3, <2>4, MinerFrame
<1>6. ASSUME ElectNot(n) \/ RecheckFails(n) \/ (ProcessBlockFound(n) /\ Stale(n))
      PROVE  IInv'
  BY <1>6, ContinueStep DEF ElectNot, RecheckFails, ProcessBlockFound
<1>7. ASSUME CreateNewBlockThrows(n) PROVE IInv'
  <2> USE <1>0, <1>7 DEF CreateNewBlockThrows, netVars, chainVars
  <2>1. TypeOK'
    <3>1. <<>> \in Seq(Nodes)
      OBVIOUS
    <3> QED
      BY <3>1 DEF TypeOK, BlockType
  <2>2. MinerInv'
    BY DEF MinerInv, TypeOK
  <2>3. \A m \in Nodes : pindexPrev'[m] \in made
    BY DEF MadeInv, TypeOK
  <2>4. Settled => \A m \in Nodes : pc'[m] \in Elected => MyTurn(m, pindexPrev'[m])
    BY DEF TurnsInv, TypeOK, Elected
  <2> QED
    BY <2>1, <2>2, <2>3, <2>4, MinerFrame
<1>8. ASSUME PoolChanges(n) PROVE IInv'
  <2> USE <1>0, <1>8 DEF PoolChanges, netVars, chainVars
  <2>1. TypeOK'
    BY DEF TypeOK, BlockType
  <2>2. MinerInv'
    BY DEF MinerInv, TypeOK
  <2>3. \A m \in Nodes : pindexPrev'[m] \in made
    BY DEF MadeInv, TypeOK
  <2>4. Settled => \A m \in Nodes : pc'[m] \in Elected => MyTurn(m, pindexPrev'[m])
    BY DEF TurnsInv, TypeOK, Elected
  <2> QED
    BY <2>1, <2>2, <2>3, <2>4, MinerFrame
<1> QED
  BY <1>1, <1>2, <1>3, <1>4, <1>5, <1>6, <1>7, <1>8

\* A block that n stores: the tip of n does not get shorter, and only made
\* blocks are tips.
LEMMA TipGrows ==
    ASSUME IInv, NEW n \in Nodes, NEW b \in Seq(Nodes), ActivateBestChain(n, b)
    PROVE  /\ tip' \in [Nodes -> BlockType]
           /\ announced' \subseteq announced \cup {b}
           /\ \A m \in Nodes : /\ tip'[m] \in {tip[m], b}
                               /\ Len(tip'[m]) >= Len(tip[m])
                               /\ m # n => tip'[m] = tip[m]
           /\ Len(tip'[n]) >= Len(b)
<1>0. TypeOK
  BY DEF IInv
<1>1. \A m \in Nodes : tip[m] \in Seq(Nodes) /\ Len(tip[m]) \in Nat
  BY <1>0 DEF TypeOK, BlockType
<1>2. Len(b) \in Nat
  OBVIOUS
<1>3. CASE Better(b, n)
  <2>1. tip' = [tip EXCEPT ![n] = b]
        /\ announced' = announced \cup {b} /\ Len(b) > Len(tip[n])
    BY <1>3 DEF ActivateBestChain, Better
  <2>2. tip' \in [Nodes -> BlockType]
    BY <1>0, <2>1 DEF TypeOK, BlockType
  <2>3. ASSUME NEW m \in Nodes, m # n PROVE tip'[m] = tip[m]
    BY <1>0, <2>1, <2>3 DEF TypeOK
  <2>4. tip'[n] = b
    BY <1>0, <2>1 DEF TypeOK
  <2>5. ASSUME NEW m \in Nodes
        PROVE  /\ tip'[m] \in {tip[m], b}
               /\ Len(tip'[m]) >= Len(tip[m])
               /\ m # n => tip'[m] = tip[m]
    <3>1. CASE m = n
      BY <3>1, <1>1, <1>2, <2>1, <2>4
    <3>2. CASE m # n
      BY <3>2, <1>1, <2>3
    <3> QED
      BY <3>1, <3>2
  <2>6. Len(tip'[n]) >= Len(b)
    BY <1>2, <2>4
  <2> QED
    BY <2>1, <2>2, <2>5, <2>6
<1>4. CASE ~Better(b, n)
  <2>1. tip' = tip /\ announced' = announced
        /\ ~(Len(b) > Len(tip[n]))
    BY <1>4 DEF ActivateBestChain, Better
  <2>2. tip' \in [Nodes -> BlockType]
    BY <1>0, <2>1 DEF TypeOK, BlockType
  <2>3. \A m \in Nodes : Len(tip'[m]) >= Len(tip[m])
    BY <1>1, <2>1
  <2>4. Len(tip'[n]) >= Len(b)
    BY <1>1, <1>2, <2>1
  <2> QED
    BY <2>1, <2>2, <2>3, <2>4
<1> QED
  BY <1>3, <1>4

\* An announced block arrives.
LEMMA ReceiveBlockStep ==
    ASSUME IInv, NEW n \in Nodes, NEW b \in announced, ReceiveBlock(n, b)
    PROVE  IInv'
<1> USE DEF IInv, ReceiveBlock, netVars
<1>1. b \in Seq(Nodes) /\ b \in made
  BY DEF TypeOK, BlockType, MadeInv
<1>2. /\ tip' \in [Nodes -> BlockType]
      /\ announced' \subseteq announced \cup {b}
      /\ \A m \in Nodes : /\ tip'[m] \in {tip[m], b}
                          /\ Len(tip'[m]) >= Len(tip[m])
                          /\ m # n => tip'[m] = tip[m]
  BY <1>1, TipGrows
<1>3. TypeOK'
  <2>1. announced' \subseteq BlockType
    BY <1>1, <1>2 DEF TypeOK, BlockType
  <2>2. updated' \in [Nodes -> BOOLEAN]
    BY DEF TypeOK
  <2> QED
    BY <1>2, <2>1, <2>2 DEF TypeOK
<1>4. MinerInv'
  <2> SUFFICES ASSUME NEW m \in Nodes
               PROVE  /\ pc[m] \notin {"read", "stopped"} /\ ~updated'[m]
                            => tip'[m] = pindexPrev[m]
                      /\ pc[m] = "recheck" /\ ~updated'[m]
                            => hashPrevBlock[m] = pindexPrev[m]
                      /\ pc[m] \in {"found", "submit"}
                            => hashPrevBlock[m] = pindexPrev[m]
    BY DEF MinerInv
  <2>1. m # n => tip'[m] = tip[m] /\ updated'[m] = updated[m]
    BY <1>2 DEF TypeOK
  <2>2. updated'[n] = (pc[n] \notin {"read", "stopped"})
    BY DEF TypeOK
  <2> QED
    BY <2>1, <2>2 DEF MinerInv
<1>5. MadeInv'
  <2>1. announced' \subseteq made
    BY <1>1, <1>2 DEF MadeInv
  <2>2. \A m \in Nodes : tip'[m] \in made
    BY <1>1, <1>2 DEF MadeInv
  <2> QED
    BY <2>1, <2>2 DEF MadeInv
<1>6. OwnBlockKept'
  <2> SUFFICES ASSUME NEW c \in made, c # <<>>
               PROVE  Len(tip'[Producer(c)]) >= Len(c)
    BY DEF OwnBlockKept
  <2>1. Producer(c) \in Nodes /\ Len(c) \in Nat
    <3>1. c \in Seq(Nodes)
      BY DEF TypeOK, BlockType
    <3> QED
      BY <3>1 DEF Producer
  <2>2. Len(tip[Producer(c)]) >= Len(c)
    BY DEF OwnBlockKept
  <2>3. Len(tip[Producer(c)]) \in Nat /\ Len(tip'[Producer(c)]) \in Nat
    <3>1. tip[Producer(c)] \in Seq(Nodes)
      BY <2>1 DEF TypeOK, BlockType
    <3>2. tip'[Producer(c)] \in Seq(Nodes)
      BY <2>1, <1>2 DEF BlockType
    <3> QED
      BY <3>1, <3>2
  <2>4. Len(tip'[Producer(c)]) >= Len(tip[Producer(c)])
    BY <1>2, <2>1
  <2> QED
    BY <2>1, <2>2, <2>3, <2>4
<1>7. TurnsInv' /\ NoFork'
  BY DEF TurnsInv, NoFork, MyTurn
<1> QED
  BY <1>3, <1>4, <1>5, <1>6, <1>7

\* ProcessNewBlock at the producer: in a settled network no other block has the
\* height of the new one.
LEMMA ProcessNewBlockStep ==
    ASSUME IInv, NEW n \in Nodes, ProcessNewBlock(n)
    PROVE  IInv'
<1> DEFINE hp == hashPrevBlock[n]
           b == Append(hp, n)
<1>0. TypeOK /\ MinerInv /\ MadeInv /\ OwnBlockKept /\ TurnsInv /\ NoFork
  BY DEF IInv
<1>1. CASE ~signed[n]
  BY <1>1, ContinueStep DEF ProcessNewBlock, chainVars
<1>2. CASE signed[n]
  <2>1. /\ made' = made \cup {b}
        /\ ActivateBestChain(n, b)
        /\ Continue(n)
        /\ UNCHANGED netVars
        /\ pc[n] = "submit"
    BY <1>2 DEF ProcessNewBlock
  <2>2. hp \in Seq(Nodes)
    BY <1>0 DEF TypeOK, BlockType
  <2>3. hp = pindexPrev[n] /\ hp \in made
    BY <1>0, <2>1 DEF MinerInv, MadeInv
  <2>4. b \in Seq(Nodes) /\ b # <<>> /\ Producer(b) = n /\ Len(b) = Len(hp) + 1
    BY <2>2, ProducerOfAppend
  <2> HIDE DEF b, hp
  <2>5. /\ tip' \in [Nodes -> BlockType]
        /\ announced' \subseteq announced \cup {b}
        /\ \A m \in Nodes : /\ tip'[m] \in {tip[m], b}
                            /\ Len(tip'[m]) >= Len(tip[m])
                            /\ m # n => tip'[m] = tip[m]
        /\ Len(tip'[n]) >= Len(b)
    BY <2>1, <2>4, TipGrows
  <2>6. TypeOK'
    <3>1. <<>> \in Seq(Nodes)
      OBVIOUS
    <3>2. made' \subseteq BlockType /\ announced' \subseteq BlockType
      BY <1>0, <2>1, <2>4, <2>5 DEF TypeOK, BlockType
    <3>3. /\ pc' \in [Nodes -> {"read", "elect", "create", "recheck", "found", "submit",
                                "stopped"}]
          /\ updated' \in [Nodes -> BOOLEAN]
          /\ pindexPrev' \in [Nodes -> BlockType]
          /\ hashPrevBlock' \in [Nodes -> BlockType]
          /\ signed' \in [Nodes -> BOOLEAN]
      BY <1>0, <2>1, <3>1 DEF TypeOK, BlockType, Continue
    <3> QED
      BY <1>0, <2>1, <2>5, <3>2, <3>3 DEF TypeOK, netVars
  <2>7. MinerInv'
    <3> SUFFICES ASSUME NEW m \in Nodes
                 PROVE  /\ pc'[m] \notin {"read", "stopped"} /\ ~updated'[m]
                              => tip'[m] = pindexPrev'[m]
                        /\ pc'[m] = "recheck" /\ ~updated'[m]
                              => hashPrevBlock'[m] = pindexPrev'[m]
                        /\ pc'[m] \in {"found", "submit"}
                              => hashPrevBlock'[m] = pindexPrev'[m]
      BY DEF MinerInv
    <3>1. CASE m = n
      BY <1>0, <2>1, <3>1 DEF Continue, TypeOK
    <3>2. CASE m # n
      <4>1. pc'[m] = pc[m] /\ pindexPrev'[m] = pindexPrev[m]
            /\ hashPrevBlock'[m] = hashPrevBlock[m]
        BY <1>0, <2>1, <3>2 DEF Continue, TypeOK
      <4>2. tip'[m] = tip[m] /\ updated'[m] = updated[m]
        BY <1>0, <2>1, <2>5, <3>2 DEF Continue, TypeOK
      <4> QED
        BY <1>0, <4>1, <4>2 DEF MinerInv
    <3> QED
      BY <3>1, <3>2
  <2>8. MadeInv'
    <3>1. <<>> \in made' /\ announced' \subseteq made'
      BY <1>0, <2>1, <2>5 DEF MadeInv
    <3>2. \A m \in Nodes : tip'[m] \in made'
      BY <1>0, <2>1, <2>5 DEF MadeInv
    <3>3. \A m \in Nodes : pindexPrev'[m] \in {pindexPrev[m], <<>>}
      BY <1>0, <2>1 DEF Continue, TypeOK
    <3>4. \A m \in Nodes : pindexPrev'[m] \in made'
      BY <1>0, <2>1, <3>3 DEF MadeInv
    <3> QED
      BY <3>1, <3>2, <3>4 DEF MadeInv
  <2>9. OwnBlockKept'
    <3> SUFFICES ASSUME NEW c \in made', c # <<>>
                 PROVE  Len(tip'[Producer(c)]) >= Len(c)
      BY DEF OwnBlockKept
    <3>1. CASE c = b
      BY <2>4, <2>5, <3>1
    <3>2. CASE c \in made
      <4>1. c \in Seq(Nodes)
        BY <1>0, <3>2 DEF TypeOK, BlockType
      <4>2. Producer(c) \in Nodes /\ Len(c) \in Nat
        BY <4>1 DEF Producer
      <4>3. tip[Producer(c)] \in Seq(Nodes)
        BY <1>0, <4>2 DEF TypeOK, BlockType
      <4>4. tip'[Producer(c)] \in Seq(Nodes)
        BY <2>5, <4>2 DEF BlockType
      <4>5. Len(tip[Producer(c)]) \in Nat /\ Len(tip'[Producer(c)]) \in Nat
        BY <4>3, <4>4
      <4>6. Len(tip[Producer(c)]) >= Len(c)
        BY <1>0, <3>2 DEF OwnBlockKept
      <4>7. Len(tip'[Producer(c)]) >= Len(tip[Producer(c)])
        BY <2>5, <4>2
      <4> QED
        BY <4>2, <4>5, <4>6, <4>7
    <3> QED
      BY <2>1, <3>1, <3>2
  <2>10. TurnsInv'
    <3> SUFFICES ASSUME Settled
                 PROVE  /\ g_vAllNodes' = [m \in Nodes |-> Entries(m)]
                        /\ \A m \in Nodes :
                              pc'[m] \in Elected => MyTurn(m, pindexPrev[m])' 
                        /\ \A c \in made' : c # <<>> =>
                              \E p \in made', m \in Nodes :
                                  c = Append(p, m) /\ MyTurn(m, p)'
      BY DEF TurnsInv
    <3>1. g_vAllNodes' = g_vAllNodes
      BY <2>1 DEF netVars
    <3>2. ASSUME NEW m \in Nodes, pc'[m] \in Elected
          PROVE  MyTurn(m, pindexPrev[m])'
      <4>1. m # n /\ pc'[m] = pc[m] /\ pindexPrev'[m] = pindexPrev[m]
        BY <1>0, <2>1, <3>2 DEF Continue, TypeOK, Elected
      <4>2. MyTurn(m, pindexPrev[m])
        BY <1>0, <3>2, <4>1 DEF TurnsInv
      <4> QED
        BY <3>1, <4>1, <4>2 DEF MyTurn
    <3>3. MyTurn(n, hp)
      BY <1>0, <2>1, <2>3 DEF TurnsInv, Elected
    <3>4. ASSUME NEW c \in made', c # <<>>
          PROVE  \E p \in made', m \in Nodes : c = Append(p, m) /\ MyTurn(m, p)'
      <4>1. CASE c = b
        BY <2>1, <2>3, <3>1, <3>3, <4>1 DEF MyTurn, b
      <4>2. CASE c \in made
        BY <1>0, <2>1, <3>1, <3>4, <4>2 DEF TurnsInv, MyTurn
      <4> QED
        BY <2>1, <4>1, <4>2
    <3> QED
      BY <1>0, <3>1, <3>2, <3>4 DEF TurnsInv
  <2>11. NoFork'
    <3> SUFFICES ASSUME Settled, NEW c \in made, Len(c) = Len(b)
                 PROVE  c = b
      BY <1>0, <2>1 DEF NoFork
    <3>1. c \in Seq(Nodes) /\ c # <<>>
      BY <1>0, <2>2, <2>4 DEF TypeOK, BlockType
    <3>2. PICK p \in made, m \in Nodes : c = Append(p, m) /\ MyTurn(m, p)
      BY <1>0, <3>1 DEF TurnsInv
    <3>3. p \in Seq(Nodes) /\ Len(c) = Len(p) + 1
      BY <1>0, <3>2, ProducerOfAppend DEF TypeOK, BlockType
    <3>4. Len(p) = Len(hp)
      BY <2>2, <2>4, <3>3
    <3>5. p = hp
      BY <1>0, <2>3, <3>4 DEF NoFork
    <3>6. MyTurn(n, hp)
      BY <1>0, <2>1, <2>3 DEF TurnsInv, Elected
    <3>7. KnownKeys(n) = Nodes /\ KnownKeys(m) = Nodes
      BY <1>0, SettledKeys DEF TurnsInv
    <3>8. n = m
      BY <1>0, <2>2, <3>2, <3>5, <3>6, <3>7, TurnUnique
    <3> QED
      BY <3>2, <3>5, <3>8 DEF b
  <2> QED
    BY <2>6, <2>7, <2>8, <2>9, <2>10, <2>11 DEF IInv
<1> QED
  BY <1>0, <1>1, <1>2 DEF TypeOK

\* Every step of the network preserves the invariant.
LEMMA NextIInv == ASSUME IInv, [Next]_vars PROVE IInv'
<1>1. CASE UNCHANGED vars
  <2>1. UNCHANGED <<minerVars, chainVars>> /\ UNCHANGED <<g_vAllNodes, netState>>
    BY <1>1 DEF vars, netVars
  <2>2. TypeOK'
    BY <2>1 DEF IInv, TypeOK, minerVars, chainVars
  <2> QED
    BY <2>1, <2>2, NetFrame
<1>2. ASSUME NEW n \in Nodes, MinerStep(n) \/ PoolChanges(n) PROVE IInv'
  BY <1>2, MakingSteps, ProcessNewBlockStep DEF MinerStep
<1>3. ASSUME NEW n \in Nodes, NetStep(n) PROVE IInv'
  BY <1>3, NetSteps
<1>4. ASSUME NEW n \in Nodes, NEW b \in announced, ReceiveBlock(n, b) PROVE IInv'
  BY <1>4, ReceiveBlockStep
<1> QED
  BY <1>1, <1>2, <1>3, <1>4 DEF Next

\* The miners, the lists and the chains stay consistent, for any number of
\* nodes, connections and blocks.
THEOREM Consistent == Spec => []IInv
<1>1. Init => IInv
  BY InitIInv
<1>2. IInv /\ [Next]_vars => IInv'
  BY NextIInv
<1> QED
  BY <1>1, <1>2, PTL DEF Spec

\* Every variable keeps its type; g_vAllNodes[n] keeps the node's own entry.
THEOREM TypeCorrect == Spec => []TypeOK
<1>1. IInv => TypeOK
  BY DEF IInv
<1> QED
  BY <1>1, Consistent, PTL

\* Nodes with the same tip that know the same keys never both elect themselves.
THEOREM TurnIsUnique == Spec => []UniqueTurn
<1>1. IInv => UniqueTurn
  <2> SUFFICES ASSUME IInv, NEW n \in Nodes, NEW m \in Nodes, tip[n] = tip[m],
                      KnownKeys(n) = KnownKeys(m),
                      MyTurn(n, tip[n]), MyTurn(m, tip[m])
               PROVE  n = m
    BY DEF UniqueTurn
  <2>1. TypeOK /\ tip[n] \in Seq(Nodes)
    BY DEF IInv, TypeOK, BlockType
  <2> QED
    BY <2>1, TurnUnique
<1> QED
  BY <1>1, Consistent, PTL

\* BitcoinMiner hands over only blocks on the tip it was elected on.
THEOREM InTurn == Spec => []HandedOverInTurn
<1>1. IInv => HandedOverInTurn
  BY DEF IInv, MinerInv, HandedOverInTurn
<1> QED
  BY <1>1, Consistent, PTL

\* No node makes a block on a parent it has already built on.
THEOREM OwnBlocksKept == Spec => []OwnBlockKept
<1>1. IInv => OwnBlockKept
  BY DEF IInv
<1> QED
  BY <1>1, Consistent, PTL

\* A settled network of any size never forks.
THEOREM SettledNeverForks == Spec => []NoFork
<1>1. IInv => NoFork
  BY DEF IInv
<1> QED
  BY <1>1, Consistent, PTL

-----------------------------------------------------------------------------
\* Everyone takes part

\* A set of numbers has a smallest element.
LEMMA SmallestExists ==
    ASSUME NEW S \in SUBSET Nat, S # {}
    PROVE  \E x \in S : \A y \in S : x <= y
<1>1. PICK x \in S : \A y \in S : ~(<<y, x>> \in OpToRel(<, Nat))
  BY WFMin, NatLessThanWellFounded, Zenon
<1>2. ASSUME NEW y \in S PROVE x <= y
  <2>1. x \in Nat /\ y \in Nat
    OBVIOUS
  <2>2. ~(y < x)
    BY <1>1, <2>1 DEF OpToRel
  <2> QED
    BY <2>1, <2>2
<1> QED
  BY <1>2

\* A finite set of numbers has a bound.
LEMMA FiniteBounded ==
    ASSUME NEW S \in SUBSET Nat, IsFiniteSet(S)
    PROVE  \E m \in Nat : \A x \in S : x <= m
<1> DEFINE n == Cardinality(S)
<1>1. n \in Nat /\ ExistsBijection(1..n, S)
  BY FS_CardinalityType
<1> HIDE DEF n
<1>2. PICK f \in [1..n -> S] : \A x \in S : \E i \in 1..n : f[i] = x
  BY <1>1 DEF ExistsBijection, Bijection, Surjection
<1>3. \A i \in 1..n : f[i] \in Nat
  BY <1>2
<1> DEFINE Bounds(k, m) == \A i \in 1..k : f[i] <= m
           T == {k \in 0..n : \A m \in Nat : ~Bounds(k, m)}
<1>4. T = {}
  <2> SUFFICES ASSUME T # {} PROVE FALSE
    OBVIOUS
  <2>1. T \in SUBSET Nat
    BY <1>1
  <2>2. PICK k \in T : \A y \in T : k <= y
    <3> HIDE DEF T
    <3> QED
      BY <2>1, SmallestExists
  <2>3. k \in 0..n /\ k # 0
    <3>1. CASE k = 0
      <4>1. Bounds(k, 0)
        BY <3>1
      <4> QED
        BY <4>1
    <3> QED
      BY <3>1
  <2>4. k - 1 \in 0..n /\ ~(k <= k - 1) /\ k \in 1..n
    BY <1>1, <2>3
  <2>5. k - 1 \notin T
    <3> HIDE DEF T
    <3> QED
      BY <2>2, <2>4
  <2>6. PICK m \in Nat : \A i \in 1..(k - 1) : f[i] <= m
    BY <2>4, <2>5
  <2>7. f[k] \in Nat /\ m + f[k] \in Nat /\ k \in Nat
    <3> HIDE DEF T
    <3>1. f[k] \in Nat
      BY <1>3, <2>4
    <3> QED
      BY <1>1, <2>4, <3>1
  <2> HIDE DEF T
  <2>8. ASSUME NEW i \in 1..k PROVE f[i] <= m + f[k]
    <3>1. i \in 1..n /\ (i = k \/ i \in 1..(k - 1))
      BY <1>1, <2>4, <2>7
    <3>2. f[i] \in Nat
      BY <1>3, <3>1
    <3>3. f[i] = f[k] \/ f[i] <= m
      BY <2>6, <3>1
    <3> QED
      BY <2>7, <3>2, <3>3
  <2>9. Bounds(k, m + f[k])
    BY <2>8
  <2> QED
    BY <2>7, <2>9 DEF T
<1>5. n \in 0..n
  BY <1>1
<1>6. PICK m \in Nat : Bounds(n, m)
  BY <1>4, <1>5
<1>7. ASSUME NEW x \in S PROVE x <= m
  <2>1. PICK i \in 1..n : f[i] = x
    BY <1>2
  <2> QED
    BY <1>6, <2>1
<1> QED
  BY <1>7

\* A finite set of numbers has a largest element.
LEMMA LargestExists ==
    ASSUME NEW S \in SUBSET Nat, IsFiniteSet(S), S # {}
    PROVE  \E x \in S : \A y \in S : y <= x
<1>1. PICK m \in Nat : \A x \in S : x <= m
  BY FiniteBounded
<1> DEFINE D == {m - x : x \in S}
<1>2. D \in SUBSET Nat /\ D # {}
  <2>1. \A x \in S : x \in Nat /\ x <= m
    BY <1>1
  <2>2. \A x \in S : m - x \in Nat
    BY <2>1
  <2> QED
    BY <2>2
<1>3. PICK d \in D : \A e \in D : d <= e
  <2> HIDE DEF D
  <2> QED
    BY <1>2, SmallestExists
<1>4. PICK x \in S : d = m - x
  OBVIOUS
<1>5. ASSUME NEW y \in S PROVE y <= x
  <2>1. m - x <= m - y
    BY <1>3, <1>4
  <2> QED
    BY <2>1
<1> QED
  BY <1>5

\* n comes after k in the order of the keys, and the first after the last
Follows(k, n) ==
    \/ k < n /\ \A x \in Nodes : k < x => n <= x
    \/ \A x \in Nodes : n <= x /\ x <= k

\* Who passes the turn on in this order passes it to everyone.
LEMMA TurnGoesRound ==
    ASSUME NEW S \in SUBSET Nodes, S # {}, \A k \in S : \E n \in S : Follows(k, n)
    PROVE  S = Nodes
<1> SUFFICES ASSUME Nodes \ S # {} PROVE FALSE
  OBVIOUS
<1>1. Nodes \in SUBSET Nat /\ IsFiniteSet(Nodes)
  BY NodesAssumption
<1>2. \A Q \in SUBSET Nodes : Q \in SUBSET Nat /\ IsFiniteSet(Q)
  BY <1>1, FS_Subset
<1>3. PICK last \in S : \A y \in S : y <= last
  BY <1>2, LargestExists
<1>4. PICK first \in S : \A x \in Nodes : first <= x
  <2>1. PICK n \in S : Follows(last, n)
    OBVIOUS
  <2>2. n <= last /\ n \in Nat /\ last \in Nat
    BY <1>1, <1>3
  <2> QED
    BY <2>1, <2>2 DEF Follows
<1>5. PICK missing \in Nodes \ S : \A y \in Nodes \ S : missing <= y
  BY <1>2, SmallestExists
<1> DEFINE Below == {y \in S : y < missing}
<1>6. first \in Below
  <2>1. first <= missing /\ first # missing /\ first \in Nat /\ missing \in Nat
    BY <1>1, <1>4, <1>5
  <2> QED
    BY <2>1
<1>7. PICK k \in Below : \A y \in Below : y <= k
  <2>1. Below \in SUBSET Nodes
    OBVIOUS
  <2> HIDE DEF Below
  <2> QED
    BY <1>2, <1>6, <2>1, LargestExists
<1>8. PICK n \in S : Follows(k, n)
  OBVIOUS
<1>9. k \in Nat /\ n \in Nat /\ missing \in Nat /\ k < missing /\ k \in Nodes /\ n \in Nodes
  BY <1>1, <1>5, <1>7
<1>10. k < n /\ n <= missing
  BY <1>5, <1>8, <1>9 DEF Follows
<1>11. n < missing
  BY <1>5, <1>9, <1>10
<1> QED
  BY <1>7, <1>9, <1>10, <1>11

\* In a settled network each block of a chain was made by the node after the producer of
\* its parent.
LEMMA ProducersFollow ==
    ASSUME IInv, Settled, NEW b \in made
    PROVE  \A k \in 1..Len(b) : k > 1 => Follows(b[k - 1], b[k])
<1> DEFINE InOrder(c) == \A k \in 1..Len(c) : k > 1 => Follows(c[k - 1], c[k])
           Bad == {c \in made : ~InOrder(c)}
           L == {Len(c) : c \in Bad}
<1>0. TypeOK /\ made \in SUBSET Seq(Nodes)
  BY DEF IInv, TypeOK, BlockType
<1> SUFFICES ASSUME Bad # {} PROVE FALSE
  OBVIOUS
<1>1. L \in SUBSET Nat /\ L # {}
  <2>1. \A c \in Bad : Len(c) \in Nat
    BY <1>0
  <2> HIDE DEF Bad
  <2> QED
    BY <2>1
<1>2. PICK l \in L : \A x \in L : l <= x
  <2> HIDE DEF L
  <2> QED
    BY <1>1, SmallestExists
<1>3. PICK c \in Bad : l = Len(c)
  OBVIOUS
<1>4. c \in Seq(Nodes) /\ c \in made /\ ~InOrder(c)
  BY <1>0
<1>5. c # <<>>
  BY <1>4
<1>6. PICK p \in made, n \in Nodes : c = Append(p, n) /\ MyTurn(n, p)
  BY <1>4, <1>5 DEF IInv, TurnsInv
<1>7. /\ p \in Seq(Nodes) /\ Len(p) \in Nat /\ Len(c) = Len(p) + 1
      /\ c[Len(p) + 1] = n /\ \A k \in 1..Len(p) : c[k] = p[k]
  BY <1>0, <1>6
<1>8. InOrder(p)
  <2> SUFFICES ASSUME p \in Bad PROVE FALSE
    OBVIOUS
  <2>1. Len(c) <= Len(p)
    BY <1>2, <1>3
  <2> QED
    BY <1>7, <2>1
<1>9. Len(p) > 0 => Follows(p[Len(p)], n)
  <2> SUFFICES ASSUME Len(p) > 0 PROVE Follows(p[Len(p)], n)
    OBVIOUS
  <2> DEFINE k == Producer(p)
  <2>1. k = p[Len(p)] /\ k \in Nodes
    BY <1>7 DEF Producer
  <2>2. KnownKeys(n) = Nodes
    BY <1>0, SettledKeys DEF IInv, TurnsInv
  <2>3. Local(n) \in Turn(g_vAllNodes[n], k)
    BY <1>6 DEF MyTurn
  <2> HIDE DEF k
  <2>4. \/ Nodes = {n}
        \/ k < n /\ \A x \in Nodes : k < x => n <= x
        \/ (\A x \in Nodes : n <= x) /\ (k \notin Nodes \/ \A x \in Nodes : x <= k)
    BY <1>0, <2>1, <2>2, <2>3, TurnMeaning
  <2>5. \A x \in Nodes : x \in Nat
    BY Keys
  <2>6. Follows(k, n)
    BY <2>1, <2>4, <2>5 DEF Follows
  <2> QED
    BY <2>1, <2>6
<1>10. ASSUME NEW k \in 1..Len(c), k > 1 PROVE Follows(c[k - 1], c[k])
  <2>1. CASE k = Len(p) + 1
    <3>1. Len(p) > 0 /\ k - 1 = Len(p) /\ Len(p) \in 1..Len(p)
      BY <1>7, <1>10, <2>1
    <3> QED
      BY <1>7, <1>9, <2>1, <3>1
  <2>2. CASE k # Len(p) + 1
    <3>1. k \in 1..Len(p) /\ k - 1 \in 1..Len(p)
      BY <1>7, <1>10, <2>2
    <3> QED
      BY <1>7, <1>8, <1>10, <3>1
  <2> QED
    BY <2>1, <2>2
<1> QED
  BY <1>4, <1>10

\* In a settled network as many blocks in a row as there are nodes have different
\* producers, on every chain and for any number of nodes.
THEOREM EveryoneTakesPart == Spec => []RoundRobin
<1>1. IInv => RoundRobin
  <2> SUFFICES ASSUME IInv, Settled, NEW b \in made, NEW i \in 1..Len(b), NEW j \in 1..Len(b),
                      i < j, j - i < Cardinality(Nodes), b[i] = b[j]
               PROVE  FALSE
    BY DEF RoundRobin
  <2>1. b \in Seq(Nodes) /\ Len(b) \in Nat
    BY DEF IInv, TypeOK, BlockType
  <2> DEFINE I == i..(j - 1)
             S == {b[k] : k \in I}
  <2>2. \A k \in I : k \in 1..Len(b) /\ k + 1 \in 1..Len(b) /\ k + 1 > 1 /\ (k + 1) - 1 = k
    BY <2>1
  <2>3. S \in SUBSET Nodes /\ S # {} /\ b[i] \in S
    <3>1. i \in I
      BY <2>1
    <3> QED
      BY <2>1, <2>2, <3>1
  <2>4. ASSUME NEW s \in S PROVE \E n \in S : Follows(s, n)
    <3>1. PICK k \in I : s = b[k]
      OBVIOUS
    <3>2. Follows(b[(k + 1) - 1], b[k + 1])
      BY <2>2, ProducersFollow
    <3>3. Follows(s, b[k + 1])
      BY <2>2, <3>1, <3>2
    <3>4. k + 1 \in I \/ k + 1 = j
      BY <2>1
    <3>5. b[k + 1] \in S
      BY <2>3, <3>4
    <3> QED
      BY <3>3, <3>5
  <2>5. S = Nodes
    <3> HIDE DEF S
    <3> QED
      BY <2>3, <2>4, TurnGoesRound
  <2>6. IsFiniteSet(I) /\ Cardinality(I) = j - i
    <3>1. i \in Int /\ j - 1 \in Int /\ ~(i > j - 1) /\ (j - 1) - i + 1 = j - i
      BY <2>1
    <3>2. /\ IsFiniteSet(i..(j - 1))
          /\ Cardinality(i..(j - 1)) = IF i > j - 1 THEN 0 ELSE (j - 1) - i + 1
      BY <3>1, FS_Interval, Zenon
    <3> QED
      BY <3>1, <3>2
  <2> DEFINE f == [k \in I |-> b[k]]
  <2>7. f \in Surjection(I, S)
    <3>1. f \in [I -> S] /\ \A s \in S : \E k \in I : f[k] = s
      OBVIOUS
    <3> QED
      BY <3>1 DEF Surjection
  <2> HIDE DEF I, S, f
  <2>8. IsFiniteSet(S) /\ Cardinality(S) <= Cardinality(I)
    BY <2>6, <2>7, FS_Surjection, Zenon
  <2>9. Cardinality(Nodes) <= j - i
    BY <2>5, <2>6, <2>8
  <2>10. Cardinality(Nodes) \in Nat
    BY NodesAssumption, FS_CardinalityType
  <2> QED
    BY <2>9, <2>10
<1> QED
  BY <1>1, Consistent, PTL

=============================================================================
