-------------------------- MODULE BlockRelayProofs --------------------------
(***************************************************************************)
(* Theorems about BlockRelay, for every block tree and any set of peers.   *)
(*                                                                         *)
(* With any threads and any failures, the node never believes that a peer  *)
(* has a header it has not, unless the peer has asked for a header with a  *)
(* null locator.  With the message handler as the only thread that moves   *)
(* the tip, and until a block fails, the list for a peer ends with the     *)
(* tip, and two neighbours in it are parent and child or can never be      *)
(* active together.                                                        *)
(***************************************************************************)
EXTENDS BlockRelay, ChainActivationProofs, WellFoundedInduction

\* The blocks the node thinks a peer has are among the headers it has.  Without this
\* HeadersConnect is not inductive: headers are sent because of PeerHasHeader.
BeliefsTrue ==
    \A p \in Peers \ nullLocators :
        /\ pindexBestKnownBlock[p] \in headersOf[p] \cup {Null}
        /\ pindexBestHeaderSent[p] \in headersOf[p] \cup {Null}

RelayInv == RelayTypeOK /\ HeadersConnect /\ BeliefsTrue

\* everything that the message handler has still to announce to p
Announced(p) == vBlockHashesToAnnounce[p] \o vHashes[MessageHandler][p]

\* b follows a, or no chain has both
Joined(a, b) ==
    \/ b # Genesis /\ pprev[b] = a
    \/ a \notin Ancestors[b] /\ b \notin Ancestors[a]

\* a list that is short enough for HEADERS has no gap
Gapless(list) ==
    \/ Len(list) > MAX_BLOCKS_TO_ANNOUNCE
    \/ \A i \in 2..Len(list) : Joined(list[i - 1], list[i])

\* the tip is the end of the list, or known to a peer that always used a locator
EndsWithTip(p) ==
    IF Announced(p) = <<>>
    THEN p \notin nullLocators => SettledTip \in headersOf[p] \cup invited[p]
    ELSE Announced(p)[Len(Announced(p))] = SettledTip

\* The tip that others see is better than the blocks below it, and a running step is not
\* above it yet; so no step ends below the tip it started from.
TipAbove ==
    /\ \A a \in Ancestors[SettledTip] \ {SettledTip} : Worse(a, SettledTip)
    /\ pindexOldTip # Null => nChainWork[Tip] <= nChainWork[pindexOldTip]

\* what holds until a block fails, if only the message handler moves the tip
AnnounceInv ==
    /\ \A p \in Peers : vHashes[MessageHandler][p] # <<>> => pc[MessageHandler] = "check"
    /\ TipAbove
    /\ \A p \in Peers : Gapless(Announced(p)) /\ EndsWithTip(p)

-----------------------------------------------------------------------------
\* Paths

\* a sequence of blocks like chainActive
Path(chain) ==
    /\ chain \in Seq(Blocks) /\ chain # <<>>
    /\ chain[1] = Genesis
    /\ \A i \in 1..Len(chain) :
          /\ nHeight[chain[i]] = i - 1
          /\ i > 1 => /\ chain[i] # Genesis
                      /\ pprev[chain[i]] = chain[i - 1]

\* On a path the blocks below are the ancestors.
LEMMA PathAncestors ==
    ASSUME NEW chain, Path(chain)
    PROVE  \A k \in 1..Len(chain) : \A i \in 1..k : chain[i] \in Ancestors[chain[k]]
<1> DEFINE S == {b \in Blocks : \A k \in 1..Len(chain) :
                     chain[k] = b => \A i \in 1..k : chain[i] \in Ancestors[b]}
<1>1. Len(chain) \in Nat /\ \A k \in 1..Len(chain) : chain[k] \in Blocks
  BY DEF Path
<1>2. Genesis \in S
  <2> SUFFICES ASSUME NEW k \in 1..Len(chain), chain[k] = Genesis, NEW i \in 1..k
               PROVE  chain[i] \in Ancestors[Genesis]
    BY TreeAssumption
  <2>1. k = 1
    BY <1>1 DEF Path
  <2>2. i = 1
    BY <2>1
  <2> QED
    BY <2>1, <2>2, AncestorsStep
<1>3. ASSUME NEW b \in Blocks \ {Genesis}, pprev[b] \in S PROVE b \in S
  <2> SUFFICES ASSUME NEW k \in 1..Len(chain), chain[k] = b, NEW i \in 1..k
               PROVE  chain[i] \in Ancestors[b]
    OBVIOUS
  <2>1. k # 1
    BY DEF Path
  <2>2. k - 1 \in 1..Len(chain) /\ k > 1 /\ (i = k \/ i \in 1..(k - 1))
    BY <1>1, <2>1
  <2>3. chain[k - 1] = pprev[b]
    BY <2>2 DEF Path
  <2>4. Ancestors[b] = Ancestors[pprev[b]] \cup {b}
    BY AncestorsStep
  <2>5. CASE i = k
    BY <2>4, <2>5
  <2>6. CASE i \in 1..(k - 1)
    BY <1>3, <2>2, <2>3, <2>4, <2>6
  <2> QED
    BY <2>2, <2>5, <2>6
<1>4. Blocks \subseteq S
  <2> HIDE DEF S
  <2> QED
    BY <1>2, <1>3, TreeInduction
<1> QED
  BY <1>1, <1>4

\* FindFork splits a path into the blocks an old tip descends from and the others.
LEMMA FindForkFacts ==
    ASSUME NEW chain, Path(chain), NEW old \in Blocks
    PROVE  /\ FindFork(chain, old) \in 1..Len(chain)
           /\ \A i \in 1..Len(chain) : chain[i] \in Ancestors[old] <=> i <= FindFork(chain, old)
<1> DEFINE P == {chain[i] : i \in 1..Len(chain)} \cap Ancestors[old]
           f == FindFork(chain, old)
<1>1. /\ Len(chain) \in Nat /\ 1 \in 1..Len(chain) /\ DOMAIN chain = 1..Len(chain)
      /\ \A i \in 1..Len(chain) : chain[i] \in Blocks /\ nHeight[chain[i]] = i - 1
      /\ chain[1] = Genesis
  BY DEF Path
<1>2. P # {} /\ P \in SUBSET Ancestors[old]
  BY <1>1, AncestorsProperties
<1>3. PICK x \in P : \A y \in P : nHeight[y] <= nHeight[x]
  <2> HIDE DEF P
  <2> QED
    BY <1>2, HighestExists
<1>4. PICK k \in 1..Len(chain) : x = chain[k]
  OBVIOUS
<1>5. \A j \in 1..Len(chain) : chain[j] \in Ancestors[old] => j <= k
  <2> SUFFICES ASSUME NEW j \in 1..Len(chain), chain[j] \in Ancestors[old] PROVE j <= k
    OBVIOUS
  <2>1. nHeight[chain[j]] <= nHeight[chain[k]]
    BY <1>3, <1>4
  <2> QED
    BY <1>1, <2>1
<1>6. /\ f \in 1..Len(chain) /\ chain[f] \in Ancestors[old]
      /\ \A j \in 1..Len(chain) : chain[j] \in Ancestors[old] => j <= f
  BY <1>1, <1>3, <1>4, <1>5 DEF FindFork
<1> HIDE DEF f
<1>7. ASSUME NEW i \in 1..Len(chain), i <= f PROVE chain[i] \in Ancestors[old]
  <2>1. i \in 1..f
    BY <1>1, <1>6, <1>7
  <2>2. chain[i] \in Ancestors[chain[f]]
    BY <1>6, <2>1, PathAncestors
  <2> QED
    BY <1>6, <2>2, AncestorsTransitive
<1> QED
  BY <1>6, <1>7 DEF f

\* The hashes of a step: the end of the new chain, all of it above the fork or as much as
\* may be announced.
LEMMA AboveForkFacts ==
    ASSUME NEW chain, Path(chain), NEW old \in Blocks
    PROVE  LET new == AboveFork(chain, old)
               n == Len(chain)
           IN \E first \in Nat :
                 /\ FindFork(chain, old) <= first /\ first <= n
                 /\ first = FindFork(chain, old) \/ n - first = MAX_BLOCKS_TO_ANNOUNCE
                 /\ FindFork(chain, old) < n => first < n
                 /\ new \in Seq(Blocks) /\ Len(new) = n - first
                 /\ \A i \in 1..Len(new) : first + i \in 1..n /\ new[i] = chain[first + i]
<1> DEFINE n == Len(chain)
           f == FindFork(chain, old)
           M == MAX_BLOCKS_TO_ANNOUNCE
           first == IF n - f > M THEN n - M ELSE f
<1>1. n \in Nat /\ f \in 1..n /\ M \in Nat \ {0} /\ chain \in Seq(Blocks)
  BY FindForkFacts, RelayAssumption DEF Path
<1> HIDE DEF n, f, M
<1>2. /\ first \in Nat /\ f <= first /\ first <= n
      /\ first = f \/ n - first = M
      /\ f < n => first < n
  BY <1>1
<1>3. AboveFork(chain, old) = SubSeq(chain, first + 1, n)
  BY DEF AboveFork, n, f, M
<1> HIDE DEF first
<1>4. /\ SubSeq(chain, first + 1, n) \in Seq(Blocks)
      /\ Len(SubSeq(chain, first + 1, n)) = n - first
      /\ \A i \in 1..(n - first) : first + i \in 1..n
                                   /\ SubSeq(chain, first + 1, n)[i] = chain[first + i]
  <2>1. \A i \in (first + 1)..n : chain[i] \in Blocks
    BY <1>1, <1>2 DEF n
  <2>2. /\ SubSeq(chain, first + 1, n) \in Seq(Blocks)
        /\ Len(SubSeq(chain, first + 1, n)) = n - first
    BY <1>1, <1>2, <2>1, SubSeqProperties DEF n
  <2>3. ASSUME NEW i \in 1..(n - first)
        PROVE  first + i \in 1..n /\ SubSeq(chain, first + 1, n)[i] = chain[first + i]
    BY <1>1, <1>2, <2>1, SubSeqProperties DEF n
  <2> QED
    BY <2>2, <2>3
<1> QED
  BY <1>2, <1>3, <1>4 DEF n, f, M

\* The active chain is a path.
LEMMA ActiveIsPath == ASSUME IInv PROVE Path(chainActive)
BY DEF IInv, TypeOK, ActiveChainIsPath, Path

-----------------------------------------------------------------------------
\* What the node believes of its peers

\* Seen without its peers, the node takes steps of ChainState.
LEMMA RelayIsChain == ASSUME [RelayNext]_allVars PROVE [Next]_vars
<1>1. ASSUME NEW t \in Threads, ChainStep(t) PROVE Next
  BY <1>1 DEF ChainStep, Next
<1>2. ASSUME NEW t \in Threads, NEW p \in Peers, PushBlockHash(t, p) PROVE UNCHANGED vars
  BY <1>2 DEF PushBlockHash
<1>3. ASSUME NEW p \in Peers, NEW b \in Blocks, UpdateBlockAvailability(p, b)
      PROVE  UNCHANGED vars
  BY <1>3 DEF UpdateBlockAvailability
<1>4. ASSUME NEW p \in Peers, ReceiveSendHeaders(p) \/ SendMessages(p) PROVE UNCHANGED vars
  BY <1>4 DEF ReceiveSendHeaders, SendMessages
<1>5. ASSUME NEW p \in Peers, NEW b \in Blocks, NEW c \in Blocks,
             ReceiveGetHeaders(p, b, c) \/ ReceiveGetHeader(p, b)
      PROVE  UNCHANGED vars
  BY <1>5 DEF ReceiveGetHeaders, ReceiveGetHeader
<1> QED
  BY <1>1, <1>2, <1>3, <1>4, <1>5 DEF RelayNext, allVars, Next

\* What the node believes a peer to have, it has, if the peer always used a locator.
LEMMA PeerHas ==
    ASSUME RelayInv, NEW p \in Peers \ nullLocators, NEW b, PeerHasHeader(p, b)
    PROVE  b \in headersOf[p]
<1>1. PICK a \in {pindexBestKnownBlock[p], pindexBestHeaderSent[p]} \ {Null} : b \in Ancestors[a]
  BY DEF PeerHasHeader
<1>2. /\ headersOf[p] \in SUBSET Blocks /\ ParentClosed(headersOf[p])
      /\ a \in headersOf[p]
  BY <1>1 DEF RelayInv, RelayTypeOK, HeadersConnect, BeliefsTrue
<1> QED
  BY <1>1, <1>2, AncestorsInClosed

\* The place FirstNew gives is the first one the peer does not have.
LEMMA FirstNewFacts ==
    ASSUME NEW p, NEW list \in Seq(Blocks)
    PROVE  LET i == FirstNew(p, list)
           IN /\ i = 0 => \A j \in 1..Len(list) : PeerHasHeader(p, list[j])
              /\ i # 0 => i \in 1..Len(list) /\ ~PeerHasHeader(p, list[i])
<1> DEFINE new == {i \in 1..Len(list) : ~PeerHasHeader(p, list[i])}
           i == FirstNew(p, list)
<1>1. i = IF new = {} THEN 0 ELSE CHOOSE k \in new : \A j \in new : k <= j
  BY DEF FirstNew
<1>2. CASE new = {}
  BY <1>1, <1>2
<1>3. CASE new # {}
  <2>1. new \in SUBSET Nat
    OBVIOUS
  <2>2. \E k \in new : \A j \in new : k <= j
    <3> HIDE DEF new
    <3>1. PICK k \in new : \A j \in new : ~(<<j, k>> \in OpToRel(<, Nat))
      BY <1>3, <2>1, WFMin, NatLessThanWellFounded, Zenon
    <3>2. ASSUME NEW j \in new PROVE k <= j
      <4>1. j \in Nat /\ k \in Nat
        BY <2>1
      <4>2. ~(j < k)
        BY <3>1, <4>1 DEF OpToRel
      <4> QED
        BY <4>1, <4>2
    <3> QED
      BY <3>2
  <2>3. i \in new
    <3> HIDE DEF new
    <3> QED
      BY <1>1, <1>3, <2>2
  <2> QED
    BY <2>3
<1> QED
  BY <1>2, <1>3

\* The headers of an announcement connect to each other and to what the peer has.
LEMMA SendHeadersConnects ==
    ASSUME RelayInv, NEW p \in Peers, SendMessages(p)
    PROVE  RelayInv'
<1> DEFINE list == vBlockHashesToAnnounce[p]
           f == FirstNew(p, list)
<1>1. /\ list \in Seq(Blocks) /\ list # <<>>
      /\ \A i \in DOMAIN list : ~AssertFails(p, list, i)
      /\ IF RevertToInv(p, list) THEN SendInv(p, list) ELSE SendHeaders(p, list)
      /\ vBlockHashesToAnnounce' = [vBlockHashesToAnnounce EXCEPT ![p] = <<>>]
      /\ UNCHANGED <<vars, vHashes, cs_vNodes, fPreferHeaders, pindexBestKnownBlock,
                     nullLocators>>
  BY DEF SendMessages, RelayInv, RelayTypeOK
<1> HIDE DEF list
<1>2. Len(list) \in Nat \ {0} /\ DOMAIN list = 1..Len(list) /\ \A i \in 1..Len(list) : list[i] \in Blocks
  BY <1>1
<1>3. vBlockHashesToAnnounce' \in [Peers -> Seq(Blocks)]
  BY <1>1 DEF RelayInv, RelayTypeOK
<1>4. CASE SendInv(p, list)
  <2>1. invited' \in [Peers -> SUBSET Blocks]
    BY <1>2, <1>4 DEF SendInv, HashToAnnounce, RelayInv, RelayTypeOK
  <2> QED
    BY <1>1, <1>3, <1>4, <2>1 DEF SendInv, RelayInv, RelayTypeOK, HeadersConnect, BeliefsTrue
<1>5. CASE ~RevertToInv(p, list) /\ SendHeaders(p, list) /\ f = 0
  BY <1>1, <1>3, <1>5 DEF SendHeaders, RelayInv, RelayTypeOK, HeadersConnect, BeliefsTrue
<1>6. CASE ~RevertToInv(p, list) /\ SendHeaders(p, list) /\ f # 0
  <2> DEFINE sent == {list[i] : i \in f..Len(list)}
             has == headersOf[p] \cup sent
  <2>1. f \in 1..Len(list)
    BY <1>1, <1>6, FirstNewFacts
  <2> HIDE DEF f
  <2>2. Range(SubSeq(list, f, Len(list))) = sent
    <3>1. /\ Len(SubSeq(list, f, Len(list))) = Len(list) - f + 1
          /\ SubSeq(list, f, Len(list)) \in Seq(Blocks)
          /\ \A i \in 1..(Len(list) - f + 1) : SubSeq(list, f, Len(list))[i] = list[f + i - 1]
      <4> HIDE DEF f
      <4> QED
        BY <1>2, <2>1, SubSeqProperties
    <3>2. Range(SubSeq(list, f, Len(list))) = {list[f + i - 1] : i \in 1..(Len(list) - f + 1)}
      <4>1. DOMAIN SubSeq(list, f, Len(list)) = 1..(Len(list) - f + 1)
        BY <3>1
      <4> QED
        BY <3>1, <4>1 DEF Range
    <3>3. \A i \in 1..(Len(list) - f + 1) : f + i - 1 \in f..Len(list)
      BY <1>2, <2>1
    <3>4. \A j \in f..Len(list) : j - f + 1 \in 1..(Len(list) - f + 1) /\ f + (j - f + 1) - 1 = j
      BY <1>2, <2>1
    <3> HIDE DEF f
    <3> QED
      BY <3>2, <3>3, <3>4
  <2>3. /\ pindexBestHeaderSent' = [pindexBestHeaderSent EXCEPT ![p] = list[Len(list)]]
        /\ headersOf' = [headersOf EXCEPT ![p] = has]
        /\ UNCHANGED invited
    BY <1>6, <2>2 DEF SendHeaders, f
  <2>4. \A i \in 1..Len(list) : ~Bails(p, list, i)
    BY <1>2, <1>6 DEF RevertToInv
  <2>5. MayUseHeaders(p, list)
    BY <1>6 DEF RevertToInv
  <2>6. \A i \in 2..Len(list) : list[i] # Genesis /\ pprev[list[i]] = list[i - 1]
    <3> SUFFICES ASSUME NEW i \in 2..Len(list)
                 PROVE  list[i] # Genesis /\ pprev[list[i]] = list[i - 1]
      OBVIOUS
    <3>1. i \in 1..Len(list) /\ i > 1 /\ 1..(i - 1) \subseteq 1..Len(list)
      BY <1>2
    <3>2. InActive(list[i])
      BY <2>4, <3>1 DEF Bails
    <3> QED
      BY <1>1, <1>2, <2>4, <2>5, <3>1, <3>2 DEF AssertFails
  <2>7. p \notin nullLocators => list[f] = Genesis \/ pprev[list[f]] \in headersOf[p]
    <3>1. list[f] = Genesis \/ PeerHasHeader(p, pprev[list[f]])
      BY <2>1, <2>4 DEF Bails, f
    <3> QED
      BY <3>1, PeerHas
  <2>8. /\ headersOf \in [Peers -> SUBSET Blocks]
        /\ \A q \in Peers \ nullLocators : ParentClosed(headersOf[q])
    BY DEF RelayInv, RelayTypeOK, HeadersConnect
  <2>9. /\ has \in SUBSET Blocks /\ list[Len(list)] \in has
        /\ p \notin nullLocators => ParentClosed(has)
    <3>1. ASSUME p \notin nullLocators, NEW i \in f..Len(list), list[i] # Genesis
          PROVE  pprev[list[i]] \in has
      <4>1. CASE i = f
        BY <2>7, <3>1, <4>1
      <4>2. CASE i # f
        <5>1. i \in 2..Len(list) /\ i - 1 \in f..Len(list)
          BY <1>2, <2>1, <4>2
        <5> QED
          BY <2>6, <5>1
      <4> QED
        BY <4>1, <4>2
    <3>2. p \notin nullLocators => \A b \in headersOf[p] \ {Genesis} : pprev[b] \in has
      BY <2>8 DEF ParentClosed
    <3>3. sent \subseteq Blocks /\ list[Len(list)] \in sent
      BY <1>2, <2>1
    <3> HIDE DEF f
    <3> QED
      BY <2>8, <3>1, <3>2, <3>3 DEF ParentClosed
  <2> HIDE DEF has, f
  <2>10. /\ headersOf' \in [Peers -> SUBSET Blocks]
         /\ headersOf'[p] = has /\ \A q \in Peers \ {p} : headersOf'[q] = headersOf[q]
    BY <2>3, <2>8, <2>9
  <2>11. HeadersConnect'
    BY <1>1, <2>8, <2>9, <2>10 DEF HeadersConnect
  <2>12. /\ pindexBestHeaderSent' \in [Peers -> Blocks \cup {Null}]
         /\ pindexBestHeaderSent'[p] = list[Len(list)]
         /\ \A q \in Peers \ {p} : pindexBestHeaderSent'[q] = pindexBestHeaderSent[q]
    BY <1>2, <2>3 DEF RelayInv, RelayTypeOK
  <2>13. headersOf[p] \subseteq has
    BY DEF has
  <2>14. BeliefsTrue'
    BY <1>1, <2>9, <2>10, <2>12, <2>13 DEF RelayInv, BeliefsTrue
  <2>15. RelayTypeOK'
    BY <1>1, <1>3, <2>3, <2>10, <2>12 DEF RelayInv, RelayTypeOK
  <2> QED
    BY <2>11, <2>14, <2>15 DEF RelayInv
<1> QED
  BY <1>1, <1>4, <1>5, <1>6

\* The last header of an answer is on the active chain, at the fork or above it.
LEMMA LastSentFacts ==
    ASSUME IInv, NEW fork \in Blocks, InActive(fork), NEW hashStop \in Blocks
    PROVE  /\ nHeight[fork] + 1 \in 1..Len(chainActive)
           /\ chainActive[nHeight[fork] + 1] = fork
           /\ LastSent(fork, hashStop) \in (nHeight[fork] + 1)..Len(chainActive)
<1> DEFINE n == Len(chainActive)
           first == nHeight[fork] + 2
           limit == first + MAX_HEADERS_RESULTS - 1
           end == IF limit < n THEN limit ELSE n
<1>1. /\ n \in Nat /\ nHeight[fork] \in Nat /\ nHeight[hashStop] \in Nat
      /\ MAX_HEADERS_RESULTS \in Nat \ {0}
  BY ActiveIsPath, TreeAssumption, RelayAssumption DEF Path
<1>2. nHeight[fork] + 1 \in 1..n /\ chainActive[nHeight[fork] + 1] = fork
  BY <1>1 DEF InActive, Height
<1>3. LastSent(fork, hashStop) = IF InActive(hashStop) /\ nHeight[hashStop] + 1 \in first..end
                                 THEN nHeight[hashStop] + 1 ELSE end
  BY DEF LastSent
<1> HIDE DEF n
<1>4. end \in (nHeight[fork] + 1)..n
  BY <1>1, <1>2
<1> HIDE DEF end
<1>5. LastSent(fork, hashStop) \in (nHeight[fork] + 1)..n
  BY <1>1, <1>3, <1>4
<1> QED
  BY <1>2, <1>5 DEF n

\* The headers that answer a GETHEADERS with a locator connect to each other and to the
\* fork, which the peer has; the last one, or the tip if there is none, is one of its
\* headers from then on.
LEMMA AnswerConnects ==
    ASSUME IInv, RelayInv, NEW p \in Peers, NEW fork \in Blocks, NEW hashStop \in Blocks,
           ReceiveGetHeaders(p, fork, hashStop)
    PROVE  RelayInv'
<1> DEFINE k == nHeight[fork] + 1
           last == LastSent(fork, hashStop)
           sent == {chainActive[i] : i \in (nHeight[fork] + 2)..last}
           has == headersOf[p] \cup Ancestors[fork] \cup sent
<1>1. /\ InActive(fork)
      /\ pindexBestHeaderSent' = [pindexBestHeaderSent EXCEPT ![p] = chainActive[last]]
      /\ headersOf' = [headersOf EXCEPT ![p] = has]
      /\ UNCHANGED <<vHashes, cs_vNodes, vBlockHashesToAnnounce, fPreferHeaders,
                     pindexBestKnownBlock, nullLocators, invited>>
  BY DEF ReceiveGetHeaders
<1>2. /\ Len(chainActive) \in Nat /\ nHeight[fork] \in Nat
      /\ \A i \in 1..Len(chainActive) :
            /\ chainActive[i] \in Blocks
            /\ i > 1 => chainActive[i] # Genesis /\ pprev[chainActive[i]] = chainActive[i - 1]
  BY ActiveIsPath, TreeAssumption DEF Path
<1>3. k \in 1..Len(chainActive) /\ chainActive[k] = fork /\ last \in k..Len(chainActive)
  BY <1>1, LastSentFacts
<1>4. /\ fork \in Ancestors[fork] /\ Ancestors[fork] \subseteq Blocks
      /\ ParentClosed(Ancestors[fork])
  BY AncestorsProperties
<1>5. headersOf \in [Peers -> SUBSET Blocks]
  BY DEF RelayInv, RelayTypeOK
<1> HIDE DEF last
<1>6. \A i \in (k + 1)..last : i \in 1..Len(chainActive) /\ i > 1
  BY <1>2, <1>3
<1>7. sent = {chainActive[i] : i \in (k + 1)..last} /\ sent \subseteq Blocks
  <2>1. nHeight[fork] + 2 = k + 1
    BY <1>2
  <2> QED
    BY <1>2, <1>6, <2>1
<1>8. chainActive[last] \in has
  <2>1. CASE last = k
    BY <1>3, <1>4, <2>1
  <2>2. CASE last # k
    <3>1. last \in (k + 1)..last
      BY <1>2, <1>3, <2>2
    <3> QED
      BY <1>7, <3>1
  <2> QED
    BY <2>1, <2>2
<1>9. ASSUME NEW i \in (k + 1)..last
      PROVE  chainActive[i] # Genesis /\ pprev[chainActive[i]] \in has
  <2>1. chainActive[i] # Genesis /\ pprev[chainActive[i]] = chainActive[i - 1]
    BY <1>2, <1>6
  <2>2. CASE i = k + 1
    <3>1. i - 1 = k
      BY <1>2, <2>2
    <3> QED
      BY <1>3, <1>4, <2>1, <3>1
  <2>3. CASE i # k + 1
    <3>1. i - 1 \in (k + 1)..last
      BY <1>2, <1>3, <2>3
    <3> QED
      BY <1>7, <2>1, <3>1
  <2> QED
    BY <2>2, <2>3
<1>10. has \in SUBSET Blocks /\ (p \notin nullLocators => ParentClosed(has))
  <2>1. p \notin nullLocators => ParentClosed(headersOf[p])
    BY DEF RelayInv, HeadersConnect
  <2> HIDE DEF k
  <2>2. \A b \in sent : b # Genesis /\ pprev[b] \in has
    BY <1>7, <1>9
  <2>3. p \notin nullLocators => \A b \in has \ {Genesis} : pprev[b] \in has
    <3> HIDE DEF sent
    <3> QED
      BY <1>4, <2>1, <2>2 DEF ParentClosed
  <2> QED
    BY <1>4, <1>5, <1>7, <2>3 DEF ParentClosed
<1>11. headersOf[p] \subseteq has /\ chainActive[last] \in Blocks
  BY <1>8, <1>10
<1> HIDE DEF has, sent, k
<1>12. /\ headersOf' \in [Peers -> SUBSET Blocks]
       /\ headersOf'[p] = has /\ \A q \in Peers \ {p} : headersOf'[q] = headersOf[q]
  BY <1>1, <1>5, <1>10
<1>13. /\ pindexBestHeaderSent' \in [Peers -> Blocks \cup {Null}]
       /\ pindexBestHeaderSent'[p] = chainActive[last]
       /\ \A q \in Peers \ {p} : pindexBestHeaderSent'[q] = pindexBestHeaderSent[q]
  BY <1>1, <1>11 DEF RelayInv, RelayTypeOK
<1>14. HeadersConnect'
  BY <1>1, <1>10, <1>12 DEF RelayInv, HeadersConnect
<1>15. BeliefsTrue'
  BY <1>1, <1>8, <1>11, <1>12, <1>13 DEF RelayInv, BeliefsTrue
<1>16. RelayTypeOK'
  BY <1>1, <1>12, <1>13 DEF RelayInv, RelayTypeOK
<1> QED
  BY <1>14, <1>15, <1>16 DEF RelayInv

\* Every step of the node and of its peers keeps what it believes of them true.
LEMMA NextRelayInv ==
    ASSUME IInv, IInv', RelayInv, [RelayNext]_allVars
    PROVE  RelayInv'
<1> USE DEF peerVars
<1>1. ASSUME UNCHANGED relayVars PROVE RelayInv'
  BY <1>1 DEF relayVars, RelayInv, RelayTypeOK, HeadersConnect, BeliefsTrue
<1>2. ASSUME NEW t \in Threads, ChainStep(t) PROVE RelayInv'
  <2>1. UNCHANGED <<cs_vNodes, vBlockHashesToAnnounce, peerVars, pindexBestHeaderSent, invited>>
    BY <1>2 DEF ChainStep
  <2>2. vHashes' \in [Threads -> [Peers -> Seq(Blocks)]]
    <3>1. CASE pc[t] = "step" /\ pc'[t] = "check"
      <4>1. pindexOldTip \in Blocks
        BY <3>1 DEF IInv, TargetInv
      <4>2. Path(chainActive')
        BY DEF IInv, TypeOK, ActiveChainIsPath, Path
      <4>3. AboveFork(chainActive', pindexOldTip) \in Seq(Blocks)
        BY <4>1, <4>2, AboveForkFacts
      <4>4. vHashes' = [vHashes EXCEPT
                ![t] = [p \in Peers |-> AboveFork(chainActive', pindexOldTip)]]
        BY <1>2, <3>1 DEF ChainStep
      <4> QED
        BY <4>3, <4>4 DEF RelayInv, RelayTypeOK
    <3>2. CASE ~(pc[t] = "step" /\ pc'[t] = "check")
      BY <1>2, <3>2 DEF ChainStep, RelayInv, RelayTypeOK
    <3> QED
      BY <3>1, <3>2
  <2> QED
    BY <2>1, <2>2 DEF RelayInv, RelayTypeOK, HeadersConnect, BeliefsTrue
<1>3. ASSUME NEW t \in Threads, NEW p \in Peers, PushBlockHash(t, p) PROVE RelayInv'
  <2>1. vHashes \in [Threads -> [Peers -> Seq(Blocks)]]
    BY DEF RelayInv, RelayTypeOK
  <2>2. /\ vHashes[t][p] \in Seq(Blocks) /\ vHashes[t][p] # <<>>
        /\ vBlockHashesToAnnounce' =
              [vBlockHashesToAnnounce EXCEPT ![p] = Append(@, Head(vHashes[t][p]))]
        /\ vHashes' = [vHashes EXCEPT ![t][p] = Tail(@)]
        /\ cs_vNodes' \in {Null, t}
        /\ UNCHANGED <<peerVars, pindexBestHeaderSent, invited>>
    BY <1>3, <2>1 DEF PushBlockHash
  <2>3. Head(vHashes[t][p]) \in Blocks /\ Tail(vHashes[t][p]) \in Seq(Blocks)
    BY <2>2
  <2>4. vBlockHashesToAnnounce' \in [Peers -> Seq(Blocks)]
    BY <2>2, <2>3 DEF RelayInv, RelayTypeOK
  <2>5. vHashes' \in [Threads -> [Peers -> Seq(Blocks)]]
    BY <2>1, <2>2, <2>3
  <2> QED
    BY <2>2, <2>4, <2>5 DEF RelayInv, RelayTypeOK, HeadersConnect, BeliefsTrue
<1>4. ASSUME NEW p \in Peers, NEW b \in Blocks, UpdateBlockAvailability(p, b) PROVE RelayInv'
  <2>1. /\ pindexBestKnownBlock' = [pindexBestKnownBlock EXCEPT
               ![p] = IF @ = Null \/ nChainWork[b] >= nChainWork[@] THEN b ELSE @]
        /\ headersOf' = [headersOf EXCEPT ![p] = @ \cup Ancestors[b]]
        /\ UNCHANGED <<vHashes, cs_vNodes, vBlockHashesToAnnounce, fPreferHeaders,
                       nullLocators, pindexBestHeaderSent, invited>>
    BY <1>4 DEF UpdateBlockAvailability
  <2>2. b \in Ancestors[b] /\ Ancestors[b] \subseteq Blocks /\ ParentClosed(Ancestors[b])
    BY AncestorsProperties
  <2>3. /\ headersOf \in [Peers -> SUBSET Blocks]
        /\ pindexBestKnownBlock \in [Peers -> Blocks \cup {Null}]
    BY DEF RelayInv, RelayTypeOK
  <2>4. /\ headersOf' \in [Peers -> SUBSET Blocks]
        /\ headersOf'[p] = headersOf[p] \cup Ancestors[b]
        /\ \A q \in Peers \ {p} : headersOf'[q] = headersOf[q]
    BY <2>1, <2>2, <2>3
  <2>5. /\ pindexBestKnownBlock' \in [Peers -> Blocks \cup {Null}]
        /\ pindexBestKnownBlock'[p] \in {b, pindexBestKnownBlock[p]}
        /\ \A q \in Peers \ {p} : pindexBestKnownBlock'[q] = pindexBestKnownBlock[q]
    BY <2>1, <2>3
  <2>6. HeadersConnect'
    <3>1. p \notin nullLocators => ParentClosed(headersOf[p] \cup Ancestors[b])
      BY <2>2 DEF RelayInv, HeadersConnect, ParentClosed
    <3> QED
      BY <2>1, <2>4, <3>1 DEF RelayInv, HeadersConnect
  <2>7. BeliefsTrue'
    BY <2>1, <2>2, <2>4, <2>5 DEF RelayInv, BeliefsTrue
  <2>8. RelayTypeOK'
    BY <2>1, <2>4, <2>5 DEF RelayInv, RelayTypeOK
  <2> QED
    BY <2>6, <2>7, <2>8 DEF RelayInv
<1>5. ASSUME NEW p \in Peers, ReceiveSendHeaders(p) PROVE RelayInv'
  BY <1>5 DEF ReceiveSendHeaders, RelayInv, RelayTypeOK, HeadersConnect, BeliefsTrue
<1>6. CASE UNCHANGED allVars
  BY <1>1, <1>6 DEF allVars
<1>7. ASSUME NEW p \in Peers, NEW fork \in Blocks, NEW hashStop \in Blocks,
             ReceiveGetHeaders(p, fork, hashStop)
      PROVE  RelayInv'
  BY <1>7, AnswerConnects
<1>8. ASSUME NEW p \in Peers, NEW hashStop \in Blocks, ReceiveGetHeader(p, hashStop)
      PROVE  RelayInv'
  BY <1>8 DEF ReceiveGetHeader, RelayInv, RelayTypeOK, HeadersConnect, BeliefsTrue
<1> QED
  BY <1>1, <1>2, <1>3, <1>4, <1>5, <1>6, <1>7, <1>8, SendHeadersConnects DEF RelayNext

\* At the start a peer has the genesis block and no more is known of it.
LEMMA InitRelayInv == RelayInit => IInv /\ RelayInv
<1> SUFFICES ASSUME RelayInit PROVE IInv /\ RelayInv
  OBVIOUS
<1>1. IInv
  BY InitIInv DEF RelayInit
<1>2. RelayTypeOK
  BY TreeAssumption DEF RelayInit, RelayTypeOK
<1> QED
  BY <1>1, <1>2 DEF RelayInit, RelayInv, HeadersConnect, BeliefsTrue, ParentClosed

\* In every reachable state what the node believes of its peers is true, of those that
\* always asked with a locator, and the block index keeps its invariant with the relay on
\* top.
THEOREM RelayConsistent == RelaySpec => [](IInv /\ RelayInv)
<1>1. IInv /\ RelayInv /\ [RelayNext]_allVars => IInv' /\ RelayInv'
  BY RelayIsChain, NextIInv, NextRelayInv
<1> QED
  BY <1>1, InitRelayInv, PTL DEF RelaySpec

\* Every variable of the relay keeps its type.
THEOREM RelayTypeCorrect == RelaySpec => []RelayTypeOK
<1>1. RelayInv => RelayTypeOK
  BY DEF RelayInv
<1> QED
  BY <1>1, RelayConsistent, PTL

\* The headers a node announces, and those it sends for a GETHEADERS with a locator,
\* connect at the receiver, whatever threads move the tip between the pushes and the
\* sending and whatever blocks fail, until the peer asks with a null locator.
THEOREM HeadersAlwaysConnect == RelaySpec => []HeadersConnect
<1>1. RelayInv => HeadersConnect
  BY DEF RelayInv
<1> QED
  BY <1>1, RelayConsistent, PTL

-----------------------------------------------------------------------------
\* The tip that others see, as long as no block fails

\* The tip that others see is linked, and so is all below it.
LEMMA SettledLinked ==
    ASSUME IInv, ActivationInv
    PROVE  SettledTip \in Linked /\ SettledTip \in Blocks /\ Ancestors[SettledTip] \subseteq Linked
<1>1. SettledTip \in Linked
  BY TipLinked DEF ActivationInv, OldTipInv, SettledTip
<1>2. Linked \in SUBSET Blocks /\ ParentClosed(Linked)
  BY DEF IInv, LinkedExactly, ParentClosed, Linked
<1> QED
  BY <1>1, <1>2, AncestorsInClosed

\* A step that moves no tip and changes no place of a linked block in the order.
LEMMA StillTip ==
    ASSUME IInv, ActivationInv, TipAbove, UNCHANGED <<chainActive, pindexOldTip>>,
           \A b \in Linked : nSequenceId'[b] = nSequenceId[b]
    PROVE  SettledTip' = SettledTip /\ TipAbove'
<1>1. SettledTip' = SettledTip /\ Tip' = Tip
  BY DEF SettledTip, Tip
<1>2. \A a \in Ancestors[SettledTip] : Worse(a, SettledTip)' <=> Worse(a, SettledTip)
  BY <1>1, SettledLinked DEF Worse, SortsBefore
<1> QED
  BY <1>1, <1>2 DEF TipAbove

\* A linked block that is the target of a step is better than the blocks below it.
LEMMA TargetAbove ==
    ASSUME IInv, ActivationInv, NEW t \in Threads, pc[t] = "step"
    PROVE  \A a \in Ancestors[pindexMostWork[t]] \ {pindexMostWork[t]} :
               Worse(a, pindexMostWork[t])
<1> DEFINE aim == pindexMostWork[t]
<1>1. aim \in Linked /\ pindexOldTip \in Linked /\ Worse(pindexOldTip, aim)
      /\ SettledTip = pindexOldTip
  BY StepTarget
<1>2. Linked \in SUBSET Blocks /\ ParentClosed(Linked)
  BY DEF IInv, LinkedExactly, ParentClosed, Linked
<1>3. Ancestors[aim] \subseteq Linked
  BY <1>1, <1>2, AncestorsInClosed
<1>4. \A c \in setBlockIndexCandidates : ~Worse(aim, c)
  BY DEF ActivationInv, Aimed, BestCandidate
<1> HIDE DEF aim
<1> SUFFICES ASSUME NEW a \in Ancestors[aim] \ {aim}, ~Worse(a, aim) PROVE FALSE
  BY DEF aim
<1>5. a \in Linked /\ Worse(aim, a)
  BY <1>1, <1>3, WorseOrder
<1>6. a \notin setBlockIndexCandidates
  BY <1>4, <1>5
<1>7. Worse(a, pindexOldTip)
  BY <1>1, <1>5, <1>6 DEF ActivationInv, Complete
<1> QED
  BY <1>1, <1>2, <1>5, <1>7, WorseOrder

\* A step of ActivateBestChainStep: the tip that others see stays, or it moves to a block
\* that is not below it.
LEMMA StepTip ==
    ASSUME IInv, IInv', ActivationInv, TipAbove, NEW t \in Threads,
           StepDisconnect(t) \/ StepConnect(t)
    PROVE  /\ TipAbove'
           /\ pc'[t] = "check" => /\ pindexOldTip \in Blocks /\ SettledTip = pindexOldTip
                                  /\ SettledTip' = Tip'
                                  /\ Tip' \notin Ancestors[pindexOldTip]
           /\ pc'[t] # "check" => SettledTip' = SettledTip
<1> DEFINE old == pindexOldTip
           new == bestBlock'
           aim == pindexMostWork[t]
<1>1. /\ pc[t] = "step" /\ UNCHANGED <<nChainTx, nSequenceId>>
      /\ pc \in [Threads -> {"idle", "activate", "check"} \cup Holding]
  BY DEF StepDisconnect, StepConnect, indexVars, IInv, TypeOK
<1>2. /\ old \in Linked /\ old # Null /\ SettledTip = old /\ old \in Blocks
      /\ aim \in Linked /\ aim \in Blocks /\ Worse(old, aim)
  BY <1>1, StepTarget DEF Linked
<1>3. Tip' = new /\ new \in Blocks /\ bestBlock = Tip
  BY DEF IInv, TypeOK, ActiveChainIsPath
<1>4. \A b \in Blocks : nChainWork[b] \in Nat
  BY WorkAssumption
<1>5. \/ /\ new = aim \/ (nChainWork[new] > nChainWork[old] /\ new # Genesis /\ pprev[new] = Tip)
         /\ EndStep(t)
      \/ /\ nChainWork[new] <= nChainWork[old]
         /\ UNCHANGED <<pc, pindexOldTip>>
  <2>1. CASE StepDisconnect(t)
    <3>1. Tip # Genesis /\ Tip \in Blocks
      BY <1>2, <2>1, TipLinked, AncestorsProperties DEF StepDisconnect
    <3>2. new = pprev[Tip]
      BY <2>1 DEF StepDisconnect, DisconnectTip
    <3>3. nChainWork[new] <= nChainWork[Tip] /\ nChainWork[Tip] <= nChainWork[old]
      BY <1>2, <3>1, <3>2, WorkAssumption DEF TipAbove
    <3>4. nChainWork[new] <= nChainWork[old]
      BY <1>2, <1>3, <1>4, <3>1, <3>3
    <3> QED
      BY <2>1, <3>4 DEF StepDisconnect
  <2>2. CASE StepConnect(t)
    <3>1. PICK b \in Blocks : /\ NextToConnect(t, b) /\ new = b
                              /\ IF Improved(t, b) THEN EndStep(t)
                                 ELSE UNCHANGED <<cs_main, pc, pindexOldTip>>
      BY <2>2 DEF StepConnect, ConnectTip
    <3>2. new # Genesis /\ pprev[new] = Tip
      BY <3>1 DEF NextToConnect
    <3>3. CASE Improved(t, b)
      BY <3>1, <3>2, <3>3 DEF Improved
    <3>4. CASE ~Improved(t, b)
      <4>1. nChainWork[new] <= nChainWork[old]
        BY <1>2, <1>3, <1>4, <3>1, <3>4 DEF Improved
      <4> QED
        BY <3>1, <3>4, <4>1
    <3> QED
      BY <3>3, <3>4
  <2> QED
    BY <2>1, <2>2
<1> HIDE DEF old, new, aim
<1>6. CASE nChainWork[new] <= nChainWork[old] /\ UNCHANGED <<pc, pindexOldTip>>
  <2>1. SettledTip' = SettledTip /\ pc'[t] # "check"
    BY <1>1, <1>2, <1>6 DEF SettledTip, old
  <2>2. \A a, b : Worse(a, b)' <=> Worse(a, b)
    BY <1>1 DEF Worse, SortsBefore
  <2>3. TipAbove'
    BY <1>2, <1>3, <1>6, <2>1, <2>2 DEF TipAbove, old
  <2> QED
    BY <2>1, <2>3
<1>7. CASE /\ new = aim \/ (nChainWork[new] > nChainWork[old] /\ new # Genesis /\ pprev[new] = Tip)
           /\ EndStep(t)
  <2>1. SettledTip' = Tip' /\ SettledTip' = new /\ pindexOldTip' = Null
    BY <1>3, <1>7 DEF SettledTip, EndStep
  <2>2. Worse(old, new)
    <3>1. CASE new = aim
      BY <1>2, <3>1
    <3>2. CASE nChainWork[new] > nChainWork[old]
      BY <1>2, <1>3, <1>4, <3>2 DEF Worse, SortsBefore
    <3> QED
      BY <1>7, <3>1, <3>2
  <2>3. new \notin Ancestors[old]
    <3> SUFFICES ASSUME new \in Ancestors[old] PROVE FALSE
      OBVIOUS
    <3>1. new # old
      BY <1>2, <2>2, WorseOrder
    <3>2. Worse(new, old)
      BY <1>2, <3>1 DEF TipAbove
    <3> QED
      BY <1>2, <1>3, <2>2, <3>2, WorseOrder
  <2>4. \A a \in Ancestors[new] \ {new} : Worse(a, new)
    <3>1. CASE new = aim
      BY <1>1, <3>1, TargetAbove DEF aim
    <3>2. CASE nChainWork[new] > nChainWork[old] /\ new # Genesis /\ pprev[new] = Tip
      <4> SUFFICES ASSUME NEW a \in Ancestors[new] \ {new} PROVE Worse(a, new)
        OBVIOUS
      <4>1. a \in Ancestors[Tip] /\ Tip \in Blocks /\ a \in Blocks
        BY <1>3, <3>2, AncestorsStep, AncestorsProperties
      <4>2. nChainWork[a] <= nChainWork[Tip] /\ nChainWork[Tip] <= nChainWork[old]
        BY <1>2, <4>1, AncestorsLower DEF TipAbove, old
      <4>3. nChainWork[a] < nChainWork[new]
        BY <1>2, <1>3, <1>4, <3>2, <4>1, <4>2
      <4> QED
        BY <4>3 DEF Worse, SortsBefore
    <3> QED
      BY <1>7, <3>1, <3>2
  <2>5. \A a, b : Worse(a, b)' <=> Worse(a, b)
    BY <1>1 DEF Worse, SortsBefore
  <2>6. TipAbove'
    BY <2>1, <2>4, <2>5 DEF TipAbove
  <2>7. pc'[t] = "check"
    BY <1>1, <1>7 DEF EndStep
  <2> QED
    BY <1>2, <2>1, <2>3, <2>6, <2>7, <1>3 DEF old
<1> QED
  BY <1>5, <1>6, <1>7

\* Any step that ends no step of ActivateBestChain leaves the tip that others see.
LEMMA QuietTip ==
    ASSUME IInv, IInv', LinkInv, ActivationInv, TipAbove, NoFailure, NoFailure', [Next]_vars,
           \A t \in Threads : pc[t] = "step" => pc'[t] # "check"
    PROVE  SettledTip' = SettledTip /\ TipAbove'
<1> USE DEF indexVars, flagVars, tipVars, localVars
<1>1. Failed = {}
  BY DEF Failed, NoFailure, ActivationInv
<1>2. ASSUME UNCHANGED <<chainActive, pindexOldTip, nSequenceId>>
      PROVE  SettledTip' = SettledTip /\ TipAbove'
  BY <1>2, StillTip
<1>3. ASSUME Receive PROVE SettledTip' = SettledTip /\ TipAbove'
  <2>1. UNCHANGED <<chainActive, pindexOldTip, nSequenceId>>
    BY <1>3 DEF Receive, AcceptBlockHeader, IgnoreBlock, StoreBlock, AddToMempool
  <2> QED
    BY <1>2, <2>1
<1>4. ASSUME Rpc PROVE SettledTip' = SettledTip /\ TipAbove'
  <2>1. UNCHANGED <<chainActive, pindexOldTip, nSequenceId>>
    BY <1>4 DEF Rpc, InvalidateBlock, ReconsiderBlock
  <2> QED
    BY <1>2, <2>1
<1>5. ASSUME NEW t \in Threads, NothingToDo(t) \/ CheckLoop(t)
      PROVE  SettledTip' = SettledTip /\ TipAbove'
  <2>1. UNCHANGED <<chainActive, pindexOldTip, nSequenceId>>
    BY <1>5 DEF NothingToDo, CheckLoop
  <2> QED
    BY <1>2, <2>1
<1>6. ASSUME NEW t \in Threads, LinkNext(t) PROVE SettledTip' = SettledTip /\ TipAbove'
  <2> DEFINE b == Head(queue)
  <2>1. b \notin Linked
    BY <1>6, LinkNextFacts
  <2>2. /\ UNCHANGED <<chainActive, pindexOldTip>>
        /\ nSequenceId' = [nSequenceId EXCEPT ![b] = nBlockSequenceId]
    BY <1>6 DEF LinkNext
  <2>3. nSequenceId \in [Blocks -> Nat] /\ Linked \subseteq Blocks
    BY DEF IInv, TypeOK, Linked
  <2> HIDE DEF b
  <2>4. \A c \in Linked : nSequenceId'[c] = nSequenceId[c]
    BY <2>1, <2>2, <2>3
  <2> QED
    BY <2>2, <2>4, StillTip
<1>7. ASSUME NEW t \in Threads, BeginStep(t) PROVE SettledTip' = SettledTip /\ TipAbove'
  <2>1. SettledTip = Tip
    BY <1>7, AtFindLock, NoStep DEF BeginStep
  <2>2. /\ UNCHANGED <<chainActive, nSequenceId>>
        /\ pindexOldTip' = Tip /\ pindexOldTip' # Null
    BY <1>7, TipLinked, TreeAssumption DEF BeginStep
  <2>3. SettledTip' = Tip /\ Tip' = Tip /\ \A a, b : Worse(a, b)' <=> Worse(a, b)
    BY <2>2 DEF SettledTip, Tip, Worse, SortsBefore
  <2>4. nChainWork[Tip] \in Nat
    BY TipLinked, WorkAssumption
  <2> QED
    BY <2>1, <2>2, <2>3, <2>4 DEF TipAbove
<1>8. ASSUME NEW t \in Threads, StepDisconnect(t) \/ StepConnect(t)
      PROVE  SettledTip' = SettledTip /\ TipAbove'
  <2>1. pc[t] = "step"
    BY <1>8 DEF StepDisconnect, StepConnect
  <2> QED
    BY <1>8, <2>1, StepTip
<1>9. ASSUME NEW t \in Threads
      PROVE  /\ ~DropFailedBranch(t) /\ ~StepConnectFails(t)
             /\ ~InvalidateWalk(t) /\ ~InvalidateEnd(t)
  <2>1. ~DropFailedBranch(t)
    BY <1>1 DEF DropFailedBranch, FailedBelow
  <2>2. ~StepConnectFails(t)
    BY DEF StepConnectFails, NoFailure
  <2> QED
    BY <2>1, <2>2 DEF LinkInv, InvalidateWalk, InvalidateEnd
<1>10. ASSUME UNCHANGED vars PROVE SettledTip' = SettledTip /\ TipAbove'
  <2>1. UNCHANGED <<chainActive, pindexOldTip, nSequenceId>>
    BY <1>10 DEF vars
  <2> QED
    BY <1>2, <2>1
<1> QED
  BY <1>3, <1>4, <1>5, <1>6, <1>7, <1>8, <1>9, <1>10 DEF Next, ThreadStep

-----------------------------------------------------------------------------
\* The lists of hashes, as long as no block fails

\* A push moves a hash from one list to the end of the other.
LEMMA PushKeepsOrder ==
    ASSUME NEW a \in Seq(Blocks), NEW b \in Seq(Blocks), b # <<>>
    PROVE  Append(a, Head(b)) \o Tail(b) = a \o b
<1> DEFINE l == Append(a, Head(b)) \o Tail(b)
           r == a \o b
<1>1. Head(b) \in Blocks /\ Tail(b) \in Seq(Blocks) /\ Len(b) \in Nat \ {0} /\ Len(a) \in Nat
  OBVIOUS
<1>2. /\ Len(Tail(b)) = Len(b) - 1 /\ Head(b) = b[1]
      /\ \A i \in 1..(Len(b) - 1) : Tail(b)[i] = b[i + 1]
  BY <1>1
<1>3. /\ Append(a, Head(b)) \in Seq(Blocks) /\ Len(Append(a, Head(b))) = Len(a) + 1
      /\ \A i \in 1..Len(a) : Append(a, Head(b))[i] = a[i]
      /\ Append(a, Head(b))[Len(a) + 1] = Head(b)
  BY <1>1
<1>4. /\ l \in Seq(Blocks) /\ Len(l) = Len(a) + Len(b)
      /\ \A i \in 1..(Len(a) + Len(b)) :
            l[i] = IF i <= Len(a) + 1 THEN Append(a, Head(b))[i] ELSE Tail(b)[i - (Len(a) + 1)]
  BY <1>1, <1>2, <1>3, ConcatProperties
<1>5. /\ r \in Seq(Blocks) /\ Len(r) = Len(a) + Len(b)
      /\ \A i \in 1..(Len(a) + Len(b)) : r[i] = IF i <= Len(a) THEN a[i] ELSE b[i - Len(a)]
  BY ConcatProperties
<1> HIDE DEF l, r
<1>6. ASSUME NEW i \in 1..(Len(a) + Len(b)) PROVE l[i] = r[i]
  <2>1. CASE i <= Len(a)
    BY <1>1, <1>3, <1>4, <1>5, <2>1
  <2>2. CASE i = Len(a) + 1
    BY <1>1, <1>2, <1>3, <1>4, <1>5, <2>2
  <2>3. CASE i > Len(a) + 1
    <3>1. /\ i - (Len(a) + 1) \in 1..(Len(b) - 1) /\ (i - (Len(a) + 1)) + 1 = i - Len(a)
          /\ ~(i <= Len(a) + 1) /\ ~(i <= Len(a))
      BY <1>1, <2>3
    <3> QED
      BY <1>2, <1>4, <1>5, <3>1
  <2> QED
    BY <1>1, <2>1, <2>2, <2>3
<1>7. l = r
  BY <1>4, <1>5, <1>6, SeqEqual
<1> QED
  BY <1>7 DEF l, r

\* The end of a step: a list that ends with the old tip gets the blocks above the fork, and
\* then it ends with the new tip and has no gap at the seam.
LEMMA AppendChain ==
    ASSUME NEW list \in Seq(Blocks), NEW chain, Path(chain), NEW old \in Blocks,
           Gapless(list), list # <<>> => list[Len(list)] = old,
           chain[Len(chain)] \notin Ancestors[old]
    PROVE  LET new == list \o AboveFork(chain, old)
           IN /\ new # <<>> /\ new[Len(new)] = chain[Len(chain)]
              /\ Gapless(new)
<1> DEFINE n == Len(chain)
           m == Len(list)
           f == FindFork(chain, old)
           above == AboveFork(chain, old)
           new == list \o above
           M == MAX_BLOCKS_TO_ANNOUNCE
<1>1. /\ n \in Nat \ {0} /\ m \in Nat /\ M \in Nat \ {0}
      /\ \A i \in 1..n : chain[i] \in Blocks
      /\ \A i \in 2..n : chain[i] # Genesis /\ pprev[chain[i]] = chain[i - 1]
  BY RelayAssumption DEF Path
<1>2. f \in 1..n /\ \A i \in 1..n : chain[i] \in Ancestors[old] <=> i <= f
  BY FindForkFacts
<1>3. f < n
  BY <1>1, <1>2
<1>4. PICK first \in Nat :
        /\ f <= first /\ first < n
        /\ first = f \/ n - first = M
        /\ above \in Seq(Blocks) /\ Len(above) = n - first
        /\ \A i \in 1..Len(above) : first + i \in 1..n /\ above[i] = chain[first + i]
  BY <1>3, AboveForkFacts
<1>5. /\ new \in Seq(Blocks) /\ Len(new) = m + (n - first)
      /\ \A i \in 1..(m + (n - first)) : new[i] = IF i <= m THEN list[i] ELSE above[i - m]
  <2> HIDE DEF n, above
  <2>1. /\ new \in Seq(Blocks) /\ Len(new) = m + Len(above)
        /\ \A i \in 1..(m + Len(above)) : new[i] = IF i <= m THEN list[i] ELSE above[i - m]
    BY <1>4, ConcatProperties, Zenon
  <2> QED
    BY <1>4, <2>1, Zenon
<1> HIDE DEF n, m, f, above, new, M
<1>6. new # <<>> /\ new[Len(new)] = chain[n]
  <2>1. /\ m + (n - first) \in 1..(m + (n - first)) /\ ~(m + (n - first) <= m)
        /\ (m + (n - first)) - m = n - first /\ n - first \in 1..(n - first)
        /\ first + (n - first) = n
    <3>1. n \in Nat /\ m \in Nat /\ first \in Nat /\ first < n
      BY <1>1, <1>4
    <3> QED
      BY <3>1
  <2>2. new[Len(new)] = above[n - first]
    BY <1>5, <2>1
  <2>3. above[n - first] = chain[n]
    BY <1>4, <2>1
  <2> QED
    BY <1>1, <1>4, <1>5, <2>2, <2>3
<1>7. Gapless(new)
  <2> SUFFICES ASSUME Len(new) <= M, NEW i \in 2..Len(new)
               PROVE  Joined(new[i - 1], new[i])
    BY <1>1, <1>4, <1>5 DEF Gapless, M
  <2>1. i \in 2..(m + (n - first)) /\ i \in Nat
    BY <1>5
  <2>2. CASE i <= m
    <3>1. \A j \in 2..m : Joined(list[j - 1], list[j])
      BY <1>1, <1>4, <1>5 DEF Gapless, m, M
    <3>2. new[i] = list[i] /\ new[i - 1] = list[i - 1] /\ i \in 2..m
      BY <1>1, <1>4, <1>5, <2>1, <2>2
    <3> QED
      BY <3>1, <3>2
  <2>3. CASE i = m + 1
    <3>1. m > 0 /\ first = f
      BY <1>1, <1>4, <1>5, <2>1, <2>3
    <3>2. new[i - 1] = old
      <4>1. list # <<>> /\ m \in 1..(m + (n - first)) /\ i - 1 = m
        BY <1>1, <1>4, <2>3, <3>1 DEF m
      <4>2. new[m] = list[m]
        BY <1>1, <1>5, <4>1
      <4> QED
        BY <4>1, <4>2 DEF m
    <3>3. new[i] = chain[f + 1]
      <4>1. i \in 1..(m + (n - first)) /\ ~(i <= m) /\ i - m = 1 /\ 1 \in 1..(n - first)
        BY <1>1, <1>4, <2>1, <2>3
      <4>2. new[i] = above[1]
        BY <1>5, <4>1
      <4> QED
        BY <1>4, <3>1, <4>1, <4>2
    <3>4. f + 1 \in 2..n /\ f + 1 \in 1..n /\ f \in 1..n /\ ~(f + 1 <= f) /\ (f + 1) - 1 = f
      BY <1>1, <1>2, <1>3
    <3>5. /\ chain[f + 1] # Genesis /\ pprev[chain[f + 1]] = chain[f] /\ chain[f + 1] \in Blocks
          /\ chain[f] \in Blocks /\ chain[f] \in Ancestors[old]
          /\ chain[f + 1] \notin Ancestors[old]
      BY <1>1, <1>2, <3>4
    <3>6. CASE chain[f] = old
      BY <3>2, <3>3, <3>5, <3>6 DEF Joined
    <3>7. CASE chain[f] # old
      <4>1. old \notin Ancestors[chain[f]]
        <5> SUFFICES ASSUME old \in Ancestors[chain[f]] PROVE FALSE
          OBVIOUS
        <5>1. nHeight[old] <= nHeight[chain[f]] /\ nHeight[chain[f]] <= nHeight[old]
          BY <3>5, AncestorsLower
        <5>2. nHeight[old] \in Nat /\ nHeight[chain[f]] \in Nat
          BY <3>5, TreeAssumption
        <5>3. nHeight[old] = nHeight[chain[f]]
          BY <5>1, <5>2
        <5> QED
          BY <3>5, <3>7, <5>3, AncestorsLower
      <4>2. Ancestors[chain[f + 1]] = Ancestors[chain[f]] \cup {chain[f + 1]}
        BY <3>5, AncestorsStep
      <4>3. old # chain[f + 1]
        BY <3>5, AncestorsProperties
      <4> QED
        BY <3>2, <3>3, <3>5, <4>1, <4>2, <4>3 DEF Joined
    <3> QED
      BY <3>6, <3>7
  <2>4. CASE i > m + 1
    <3> DEFINE j == i - m
    <3>1. /\ j \in 1..(n - first) /\ j - 1 \in 1..(n - first) /\ first + j \in 2..n
          /\ first + (j - 1) = (first + j) - 1
          /\ i \in 1..(m + (n - first)) /\ i - 1 \in 1..(m + (n - first))
          /\ ~(i <= m) /\ ~(i - 1 <= m) /\ (i - 1) - m = j - 1
      BY <1>1, <1>4, <2>1, <2>4
    <3>2. new[i] = above[j] /\ new[i - 1] = above[j - 1]
      BY <1>5, <3>1
    <3> HIDE DEF j
    <3>3. new[i] = chain[first + j] /\ new[i - 1] = chain[(first + j) - 1]
      BY <1>4, <3>1, <3>2
    <3> QED
      BY <1>1, <3>1, <3>3 DEF Joined
  <2> QED
    BY <1>1, <2>1, <2>2, <2>3, <2>4
<1> QED
  BY <1>6, <1>7 DEF new, above, n

\* A step that touches no list, ends no step and takes nothing away from a peer.
LEMMA QuietAnnounce ==
    ASSUME IInv, IInv', LinkInv, ActivationInv, NoFailure, NoFailure', [Next]_vars,
           AnnounceInv, Threads = {MessageHandler},
           pc[MessageHandler] = "step" => pc'[MessageHandler] # "check",
           \A p \in Peers : vHashes[MessageHandler][p] # <<>>
                            => pc'[MessageHandler] = pc[MessageHandler],
           \A p \in Peers : Announced(p)' = Announced(p),
           \A p \in Peers : vHashes'[MessageHandler][p] # <<>> => vHashes[MessageHandler][p] # <<>>,
           \A p \in Peers : /\ headersOf[p] \subseteq headersOf'[p]
                            /\ invited[p] \subseteq invited'[p],
           nullLocators \subseteq nullLocators'
    PROVE  AnnounceInv'
<1>1. SettledTip' = SettledTip /\ TipAbove'
  BY QuietTip DEF AnnounceInv
<1>2. \A p \in Peers : vHashes'[MessageHandler][p] # <<>> => pc'[MessageHandler] = "check"
  BY DEF AnnounceInv
<1>3. ASSUME NEW p \in Peers PROVE Gapless(Announced(p))' /\ EndsWithTip(p)'
  <2>1. Gapless(Announced(p)) /\ EndsWithTip(p)
    BY DEF AnnounceInv
  <2>2. Announced(p)' = Announced(p)
    OBVIOUS
  <2>3. Gapless(Announced(p))'
    BY <2>1, <2>2 DEF Gapless, Joined
  <2>4. EndsWithTip(p)'
    BY <1>1, <2>1, <2>2 DEF EndsWithTip
  <2> QED
    BY <2>3, <2>4
<1> QED
  BY <1>1, <1>2, <1>3 DEF AnnounceInv

\* A step of ActivateBestChain: when it ends the new blocks are in the hands of the thread.
LEMMA ChainStepAnnounce ==
    ASSUME IInv, IInv', LinkInv, ActivationInv, NoFailure, NoFailure', RelayInv,
           AnnounceInv, Threads = {MessageHandler}, ChainStep(MessageHandler)
    PROVE  AnnounceInv'
<1> DEFINE h == MessageHandler
<1>1. /\ ThreadStep(h) /\ h \in Threads
      /\ UNCHANGED <<vBlockHashesToAnnounce, headersOf, nullLocators, invited>>
      /\ pc[h] = "check" => \A p \in Peers : vHashes[h][p] = <<>>
  BY RelayAssumption DEF ChainStep, peerVars
<1>2. \A p \in Peers : vHashes[h][p] = <<>>
  BY <1>1 DEF AnnounceInv
<1>3. CASE ~(pc[h] = "step" /\ pc'[h] = "check")
  <2>1. UNCHANGED vHashes
    BY <1>3 DEF ChainStep
  <2>2. [Next]_vars
    BY <1>1 DEF Next
  <2>3. \A p \in Peers : Announced(p)' = Announced(p)
    BY <1>1, <2>1 DEF Announced
  <2> QED
    BY <1>1, <1>2, <1>3, <2>1, <2>2, <2>3, QuietAnnounce
<1>4. CASE pc[h] = "step" /\ pc'[h] = "check"
  <2>1. StepDisconnect(h) \/ StepConnect(h)
    <3>1. ~StepConnectFails(h)
      BY DEF StepConnectFails, NoFailure
    <3> QED
      BY <1>1, <1>4, <3>1 DEF ThreadStep, LinkNext, DropFailedBranch, NothingToDo, BeginStep,
         AtFind, CheckLoop, InvalidateWalk, InvalidateEnd
  <2>2. /\ TipAbove' /\ pindexOldTip \in Blocks /\ SettledTip = pindexOldTip
        /\ SettledTip' = Tip' /\ Tip' \notin Ancestors[pindexOldTip]
    BY <1>1, <1>4, <2>1, StepTip DEF AnnounceInv
  <2>3. Path(chainActive')
    BY DEF IInv, TypeOK, ActiveChainIsPath, Path
  <2>4. vHashes \in [Threads -> [Peers -> Seq(Blocks)]]
        /\ vBlockHashesToAnnounce \in [Peers -> Seq(Blocks)]
    BY DEF RelayInv, RelayTypeOK
  <2>5. \A p \in Peers : vHashes'[h][p] = AboveFork(chainActive', pindexOldTip)
    BY <1>1, <1>4, <2>4 DEF ChainStep
  <2>6. ASSUME NEW p \in Peers PROVE Gapless(Announced(p))' /\ EndsWithTip(p)'
    <3> DEFINE list == vBlockHashesToAnnounce[p]
               new == list \o AboveFork(chainActive', pindexOldTip)
    <3>1. list \in Seq(Blocks) /\ Announced(p) = list
      <4>1. vBlockHashesToAnnounce[p] \in Seq(Blocks)
        BY <2>4
      <4>2. Announced(p) = vBlockHashesToAnnounce[p] \o <<>>
        BY <1>2 DEF Announced
      <4> QED
        BY <4>1, <4>2, ConcatEmptySeq
    <3>2. Gapless(list) /\ (list # <<>> => list[Len(list)] = pindexOldTip)
      BY <2>2, <3>1 DEF AnnounceInv, EndsWithTip
    <3>3. Announced(p)' = new
      BY <1>1, <2>5 DEF Announced
    <3>4. Tip' = chainActive'[Len(chainActive')]
      BY DEF Tip
    <3> HIDE DEF list
    <3>5. new # <<>> /\ new[Len(new)] = Tip' /\ Gapless(new)
      BY <2>2, <2>3, <3>1, <3>2, <3>4, AppendChain
    <3> HIDE DEF new
    <3>6. Gapless(Announced(p))'
      BY <3>3, <3>5 DEF Gapless, Joined
    <3>7. EndsWithTip(p)'
      BY <2>2, <3>3, <3>5 DEF EndsWithTip
    <3> QED
      BY <3>6, <3>7
  <2>7. \A p \in Peers : vHashes'[h][p] # <<>> => pc'[h] = "check"
    BY <1>4
  <2> QED
    BY <2>2, <2>6, <2>7 DEF AnnounceInv
<1> QED
  BY <1>3, <1>4

\* A push changes nothing of what is to be announced.
LEMMA PushAnnounce ==
    ASSUME IInv, IInv', LinkInv, ActivationInv, NoFailure, NoFailure', RelayInv,
           AnnounceInv, Threads = {MessageHandler}, NEW p \in Peers,
           PushBlockHash(MessageHandler, p)
    PROVE  AnnounceInv'
<1> DEFINE h == MessageHandler
           a == vBlockHashesToAnnounce[p]
           b == vHashes[h][p]
<1>1. /\ h \in Threads /\ vHashes \in [Threads -> [Peers -> Seq(Blocks)]]
      /\ vBlockHashesToAnnounce \in [Peers -> Seq(Blocks)]
  BY RelayAssumption DEF RelayInv, RelayTypeOK
<1>2. /\ b # <<>> /\ a \in Seq(Blocks) /\ b \in Seq(Blocks)
      /\ vBlockHashesToAnnounce' = [vBlockHashesToAnnounce EXCEPT ![p] = Append(a, Head(b))]
      /\ vHashes' = [vHashes EXCEPT ![h][p] = Tail(b)]
      /\ UNCHANGED <<vars, headersOf, nullLocators, invited>>
  BY <1>1 DEF PushBlockHash, peerVars
<1> HIDE DEF a, b
<1>3. /\ vBlockHashesToAnnounce'[p] = Append(a, Head(b)) /\ vHashes'[h][p] = Tail(b)
      /\ \A q \in Peers \ {p} : /\ vBlockHashesToAnnounce'[q] = vBlockHashesToAnnounce[q]
                                /\ vHashes'[h][q] = vHashes[h][q]
  BY <1>1, <1>2
<1>4. ASSUME NEW q \in Peers PROVE Announced(q)' = Announced(q)
  <2>1. CASE q = p
    <3>1. Announced(p)' = Append(a, Head(b)) \o Tail(b) /\ Announced(p) = a \o b
      BY <1>3 DEF Announced, a, b
    <3> QED
      BY <1>2, <2>1, <3>1, PushKeepsOrder
  <2>2. CASE q # p
    BY <1>3, <2>2 DEF Announced
  <2> QED
    BY <2>1, <2>2
<1>5. \A q \in Peers : vHashes'[h][q] # <<>> => vHashes[h][q] # <<>>
  BY <1>2, <1>3 DEF b
<1>6. UNCHANGED pc
  BY <1>2 DEF vars
<1>7. [Next]_vars /\ (pc[h] = "step" => pc'[h] # "check")
  BY <1>2, <1>6
<1> HIDE DEF h
<1> QED
  BY <1>2, <1>4, <1>5, <1>6, <1>7, QuietAnnounce DEF h

\* An announcement empties the list of a peer, which then has the header of the tip or an
\* INV for it, if it always used a locator.
LEMMA SendAnnounce ==
    ASSUME IInv, IInv', LinkInv, ActivationInv, NoFailure, NoFailure', RelayInv,
           AnnounceInv, Threads = {MessageHandler}, NEW p \in Peers, SendMessages(p)
    PROVE  AnnounceInv'
<1> DEFINE h == MessageHandler
           list == vBlockHashesToAnnounce[p]
<1>1. /\ h \in Threads /\ vHashes \in [Threads -> [Peers -> Seq(Blocks)]]
      /\ vBlockHashesToAnnounce \in [Peers -> Seq(Blocks)]
      /\ headersOf \in [Peers -> SUBSET Blocks] /\ invited \in [Peers -> SUBSET Blocks]
  BY RelayAssumption DEF RelayInv, RelayTypeOK
<1>2. /\ list # <<>> /\ list \in Seq(Blocks)
      /\ pc[h] = "idle"
      /\ SendInv(p, list) \/ SendHeaders(p, list)
      /\ vBlockHashesToAnnounce' = [vBlockHashesToAnnounce EXCEPT ![p] = <<>>]
      /\ UNCHANGED <<vars, vHashes, nullLocators>>
  BY <1>1 DEF SendMessages, HandlerFree
<1>3. \A q \in Peers : vHashes[h][q] = <<>> /\ vHashes'[h][q] = <<>>
  BY <1>2 DEF AnnounceInv
<1>4. UNCHANGED pc
  BY <1>2 DEF vars
<1>5. SettledTip' = SettledTip /\ TipAbove'
  <2>1. [Next]_vars /\ \A t \in Threads : pc[t] = "step" => pc'[t] # "check"
    BY <1>2, <1>4
  <2> QED
    BY <2>1, QuietTip DEF AnnounceInv
<1>6. Announced(p) = list /\ Announced(p)' = <<>>
  <2>1. Announced(p) = vBlockHashesToAnnounce[p] \o <<>>
    BY <1>3 DEF Announced
  <2>2. Announced(p)' = <<>> \o <<>>
    BY <1>1, <1>2, <1>3 DEF Announced
  <2> QED
    BY <1>2, <2>1, <2>2, ConcatEmptySeq
<1>7. \A q \in Peers \ {p} : Announced(q)' = Announced(q)
  BY <1>1, <1>2 DEF Announced
<1> HIDE DEF list
<1>8. Len(list) \in Nat \ {0} /\ list[Len(list)] = SettledTip
  BY <1>2, <1>6 DEF AnnounceInv, EndsWithTip
<1>9. ASSUME p \notin nullLocators PROVE SettledTip \in headersOf'[p] \cup invited'[p]
  <2>1. CASE SendInv(p, list) /\ PeerHasHeader(p, list[Len(list)])
    BY <1>8, <1>9, <2>1, PeerHas DEF SendInv
  <2>2. CASE SendInv(p, list) /\ ~PeerHasHeader(p, list[Len(list)])
    BY <1>1, <1>2, <1>8, <2>2 DEF SendInv, HashToAnnounce
  <2>3. CASE SendHeaders(p, list) /\ FirstNew(p, list) = 0
    <3>1. PeerHasHeader(p, list[Len(list)])
      BY <1>2, <1>8, <2>3, FirstNewFacts
    <3> QED
      BY <1>8, <1>9, <2>3, <3>1, PeerHas DEF SendHeaders
  <2>4. CASE SendHeaders(p, list) /\ FirstNew(p, list) # 0
    <3> DEFINE f == FirstNew(p, list)
               part == SubSeq(list, f, Len(list))
    <3>1. f \in 1..Len(list)
      BY <1>2, <2>4, FirstNewFacts
    <3>2. headersOf'[p] = headersOf[p] \cup Range(part)
      BY <1>1, <2>4 DEF SendHeaders
    <3> HIDE DEF f
    <3>3. /\ part \in Seq(Blocks) /\ Len(part) = Len(list) - f + 1
          /\ \A i \in 1..(Len(list) - f + 1) : part[i] = list[f + i - 1]
      <4>1. \A i \in f..Len(list) : list[i] \in Blocks
        BY <1>2, <3>1
      <4> QED
        BY <1>8, <3>1, <4>1, SubSeqProperties
    <3>4. part[Len(list) - f + 1] = list[Len(list)] /\ Len(list) - f + 1 \in 1..Len(part)
      BY <1>8, <3>1, <3>3
    <3> HIDE DEF part
    <3>5. list[Len(list)] \in Range(part)
      BY <3>3, <3>4 DEF Range
    <3> QED
      BY <1>8, <3>2, <3>5
  <2> QED
    BY <1>2, <2>1, <2>2, <2>3, <2>4
<1>10. \A q \in Peers \ {p} : headersOf'[q] = headersOf[q] /\ invited'[q] = invited[q]
  BY <1>1, <1>2 DEF SendInv, SendHeaders
<1>11. ASSUME NEW q \in Peers PROVE Gapless(Announced(q))' /\ EndsWithTip(q)'
  <2>1. CASE q = p
    <3>1. EndsWithTip(p)'
      BY <1>2, <1>5, <1>6, <1>9 DEF EndsWithTip
    <3>2. Gapless(Announced(p))'
      BY <1>6 DEF Gapless
    <3> QED
      BY <2>1, <3>1, <3>2
  <2>2. CASE q # p
    <3>1. Gapless(Announced(q)) /\ EndsWithTip(q)
      BY DEF AnnounceInv
    <3>2. Announced(q)' = Announced(q)
      BY <1>7, <2>2
    <3>3. Gapless(Announced(q))'
      BY <3>1, <3>2 DEF Gapless, Joined
    <3>4. EndsWithTip(q)'
      BY <1>2, <1>5, <1>10, <2>2, <3>1, <3>2 DEF EndsWithTip
    <3> QED
      BY <3>3, <3>4
  <2> QED
    BY <2>1, <2>2
<1> QED
  BY <1>3, <1>5, <1>11 DEF AnnounceInv

\* As long as no block fails and one thread moves the tip, every step keeps the lists.
LEMMA NextAnnounce ==
    ASSUME IInv, IInv', LinkInv, ActivationInv, NoFailure, NoFailure', RelayInv,
           AnnounceInv, Threads = {MessageHandler}, [RelayNext]_allVars
    PROVE  AnnounceInv'
<1> DEFINE h == MessageHandler
<1>1. [Next]_vars
  BY RelayIsChain
<1>2. ASSUME UNCHANGED <<vHashes, vBlockHashesToAnnounce, invited>>,
             \A p \in Peers : headersOf[p] \subseteq headersOf'[p],
             nullLocators \subseteq nullLocators',
             pc[h] = "idle" \/ UNCHANGED pc,
             pc[h] = "idle" => pc'[h] # "check"
      PROVE  AnnounceInv'
  <2>1. \A p \in Peers : Announced(p)' = Announced(p)
    BY <1>2 DEF Announced
  <2>2. \A p \in Peers : vHashes[h][p] # <<>> => pc'[h] = pc[h]
    BY <1>2 DEF AnnounceInv
  <2>3. pc[h] = "step" => pc'[h] # "check"
    BY <1>2
  <2>4. /\ \A p \in Peers : vHashes'[h][p] # <<>> => vHashes[h][p] # <<>>
        /\ \A p \in Peers : headersOf[p] \subseteq headersOf'[p] /\ invited[p] \subseteq invited'[p]
    BY <1>2
  <2> QED
    BY <1>1, <1>2, <2>1, <2>2, <2>3, <2>4, QuietAnnounce
<1>3. ASSUME Receive \/ Rpc, UNCHANGED relayVars PROVE AnnounceInv'
  <2>1. UNCHANGED <<vHashes, vBlockHashesToAnnounce, invited, headersOf, nullLocators>>
    BY <1>3 DEF relayVars, peerVars
  <2>2. /\ pc[h] = "idle" \/ UNCHANGED pc
        /\ pc[h] = "idle" => pc'[h] # "check"
    <3>1. pc \in [Threads -> {"idle", "activate", "check"} \cup Holding] /\ h \in Threads
      BY RelayAssumption DEF IInv, TypeOK
    <3>2. ASSUME NEW t \in Threads, NEW x \in {"activate", "link", "invalidate"},
                 pc[t] = "idle", pc' = [pc EXCEPT ![t] = x]
          PROVE  pc[h] = "idle" /\ pc'[h] # "check"
      BY <3>1, <3>2
    <3>3. ASSUME NEW t \in Threads, NEW b \in Blocks, NEW r \in BOOLEAN,
                 IgnoreBlock(t, b, r) \/ StoreBlock(t, b, r)
          PROVE  pc[h] = "idle" /\ pc'[h] # "check"
      BY <3>2, <3>3 DEF IgnoreBlock, StoreBlock
    <3>4. ASSUME NEW t \in Threads, NEW b \in Named, InvalidateBlock(t, b) \/ ReconsiderBlock(t, b)
          PROVE  pc[h] = "idle" /\ pc'[h] # "check"
      BY <3>2, <3>4 DEF InvalidateBlock, ReconsiderBlock
    <3>5. ASSUME NEW b \in Blocks, AcceptBlockHeader(b) PROVE UNCHANGED pc
      BY <3>5 DEF AcceptBlockHeader
    <3>6. ASSUME NEW d \in Submitted, AddToMempool(d) PROVE UNCHANGED pc
      BY <3>6 DEF AddToMempool
    <3> QED
      BY <1>3, <3>3, <3>4, <3>5, <3>6 DEF Receive, Rpc
  <2> QED
    BY <1>2, <2>1, <2>2
<1>4. ASSUME NEW p \in Peers, NEW b \in Blocks, UpdateBlockAvailability(p, b) PROVE AnnounceInv'
  <2>1. \A q \in Peers : headersOf[q] \subseteq headersOf'[q]
    BY <1>4 DEF UpdateBlockAvailability, RelayInv, RelayTypeOK
  <2>2. UNCHANGED <<vHashes, vBlockHashesToAnnounce, invited, pc, nullLocators>>
    BY <1>4 DEF UpdateBlockAvailability, vars
  <2> QED
    BY <1>2, <2>1, <2>2
<1>5. ASSUME NEW p \in Peers, ReceiveSendHeaders(p) PROVE AnnounceInv'
  <2>1. UNCHANGED <<vHashes, vBlockHashesToAnnounce, invited, pc, headersOf, nullLocators>>
    BY <1>5 DEF ReceiveSendHeaders, vars
  <2> QED
    BY <1>2, <2>1
<1>6. ASSUME UNCHANGED allVars PROVE AnnounceInv'
  <2>1. UNCHANGED <<vHashes, vBlockHashesToAnnounce, invited, pc, headersOf, nullLocators>>
    BY <1>6 DEF allVars, relayVars, peerVars, vars
  <2> QED
    BY <1>2, <2>1
<1>7. ASSUME NEW t \in Threads, ChainStep(t) PROVE AnnounceInv'
  BY <1>7, ChainStepAnnounce
<1>8. ASSUME NEW t \in Threads, NEW p \in Peers, PushBlockHash(t, p) PROVE AnnounceInv'
  BY <1>8, PushAnnounce
<1>9. ASSUME NEW p \in Peers, NEW b \in Blocks, NEW c \in Blocks,
             ReceiveGetHeaders(p, b, c) \/ ReceiveGetHeader(p, b)
      PROVE  AnnounceInv'
  <2>1. \A q \in Peers : headersOf[q] \subseteq headersOf'[q]
    <3>1. PICK more : headersOf' = [headersOf EXCEPT ![p] = @ \cup more]
      <4>1. CASE ReceiveGetHeaders(p, b, c)
        <5> DEFINE sent == {chainActive[i] : i \in (nHeight[b] + 2)..LastSent(b, c)}
        <5>1. headersOf' = [headersOf EXCEPT ![p] = @ \cup Ancestors[b] \cup sent]
          BY <4>1 DEF ReceiveGetHeaders
        <5> HIDE DEF sent
        <5>2. (headersOf[p] \cup Ancestors[b]) \cup sent = headersOf[p] \cup (Ancestors[b] \cup sent)
          OBVIOUS
        <5>3. headersOf' = [headersOf EXCEPT ![p] = @ \cup (Ancestors[b] \cup sent)]
          BY <5>1, <5>2
        <5> QED
          BY <5>3
      <4>2. CASE ReceiveGetHeader(p, b)
        BY <4>2 DEF ReceiveGetHeader
      <4> QED
        BY <1>9, <4>1, <4>2
    <3> QED
      BY <3>1 DEF RelayInv, RelayTypeOK
  <2>2. /\ UNCHANGED <<vHashes, vBlockHashesToAnnounce, invited, pc>>
        /\ nullLocators \subseteq nullLocators'
    BY <1>9 DEF ReceiveGetHeaders, ReceiveGetHeader, vars
  <2> QED
    BY <1>2, <2>1, <2>2
<1> HIDE DEF h
<1> QED
  BY <1>3, <1>4, <1>5, <1>6, <1>7, <1>8, <1>9, SendAnnounce DEF RelayNext

\* At the start the lists are empty and every peer has the tip, the genesis block.
LEMMA InitAnnounce == ASSUME RelayInit PROVE AnnounceInv
<1>1. chainActive = <<Genesis>> /\ pindexOldTip = Null
  BY DEF RelayInit, Init
<1>2. SettledTip = Genesis /\ TipAbove
  BY <1>1, AncestorsStep DEF SettledTip, Tip, TipAbove
<1>3. \A p \in Peers : /\ vHashes[MessageHandler][p] = <<>>
                       /\ vBlockHashesToAnnounce[p] = <<>>
                       /\ Genesis \in headersOf[p]
  BY RelayAssumption DEF RelayInit
<1>4. \A p \in Peers : Announced(p) = <<>>
  BY <1>3 DEF Announced
<1> QED
  BY <1>2, <1>3, <1>4 DEF AnnounceInv, EndsWithTip, Gapless

\* As long as no block fails and only the message handler moves the tip, every list ends
\* with the tip and has no gap, whenever blocks arrive and peers speak.
THEOREM AnnounceConsistent ==
    ASSUME Threads = {MessageHandler}
    PROVE  RelaySpec /\ []NoFailure => [](IInv /\ ActivationInv /\ RelayInv /\ AnnounceInv)
<1> DEFINE All == IInv /\ LinkInv /\ ActivationInv /\ RelayInv /\ AnnounceInv
<1>1. RelayInit => All
  BY InitRelayInv, InitLinkInv, InitActivation, InitAnnounce DEF RelayInit
<1>2. All /\ NoFailure /\ NoFailure' /\ [RelayNext]_allVars => All'
  <2> SUFFICES ASSUME All, NoFailure, NoFailure', [RelayNext]_allVars PROVE All'
    OBVIOUS
  <2>1. [Next]_vars
    BY RelayIsChain
  <2>2. IInv'
    BY <2>1, NextIInv
  <2>3. LinkInv' /\ ActivationInv'
    BY <2>1, NextActivation
  <2>4. RelayInv'
    BY <2>2, NextRelayInv
  <2>5. AnnounceInv'
    BY <2>2, NextAnnounce
  <2> QED
    BY <2>2, <2>3, <2>4, <2>5
<1> QED
  BY <1>1, <1>2, PTL DEF RelaySpec

\* Two blocks of the active chain are never beside each other in the tree.
LEMMA ActiveComparable ==
    ASSUME IInv, NEW a \in Blocks, NEW b \in Blocks, InActive(a), InActive(b)
    PROVE  a \in Ancestors[b] \/ b \in Ancestors[a]
<1>1. Path(chainActive) /\ Len(chainActive) \in Nat
  BY ActiveIsPath DEF Path
<1>2. nHeight[a] \in Nat /\ nHeight[b] \in Nat
  BY TreeAssumption
<1>3. /\ nHeight[a] + 1 \in 1..Len(chainActive) /\ chainActive[nHeight[a] + 1] = a
      /\ nHeight[b] + 1 \in 1..Len(chainActive) /\ chainActive[nHeight[b] + 1] = b
  BY <1>1, <1>2 DEF InActive, Height
<1>4. nHeight[a] + 1 \in 1..(nHeight[b] + 1) \/ nHeight[b] + 1 \in 1..(nHeight[a] + 1)
  BY <1>2
<1> QED
  BY <1>1, <1>3, <1>4, PathAncestors

\* The assertion of SendMessages (pindex->pprev == pBestIndex) cannot fail as long as the
\* message handler is the only thread that moves the tip and no block fails.
THEOREM AssertionHolds ==
    ASSUME Threads = {MessageHandler}
    PROVE  RelaySpec /\ []NoFailure => []AnnouncementsFollow
<1>1. ASSUME IInv, RelayInv, AnnounceInv PROVE AnnouncementsFollow
  <2> SUFFICES ASSUME pc[MessageHandler] = "idle", NEW p \in Peers,
                      NEW i \in DOMAIN vBlockHashesToAnnounce[p],
                      AssertFails(p, vBlockHashesToAnnounce[p], i)
               PROVE  FALSE
    BY DEF AnnouncementsFollow, HandlerFree
  <2> DEFINE list == vBlockHashesToAnnounce[p]
  <2>1. list \in Seq(Blocks) /\ vHashes[MessageHandler][p] = <<>>
    BY <1>1 DEF RelayInv, RelayTypeOK, AnnounceInv
  <2>2. Announced(p) = list
    BY <2>1, ConcatEmptySeq DEF Announced
  <2>3. Gapless(list)
    BY <1>1, <2>2 DEF AnnounceInv
  <2>4. AssertFails(p, list, i) /\ i \in DOMAIN list
    OBVIOUS
  <2> HIDE DEF list
  <2>5. i \in 2..Len(list) /\ i - 1 \in 1..(i - 1) /\ i - 1 \in 1..Len(list)
    BY <2>1, <2>4 DEF AssertFails
  <2>6. /\ Len(list) <= MAX_BLOCKS_TO_ANNOUNCE
        /\ InActive(list[i]) /\ InActive(list[i - 1])
        /\ list[i] = Genesis \/ pprev[list[i]] # list[i - 1]
    BY <2>4, <2>5 DEF AssertFails, MayUseHeaders, Bails
  <2>7. Joined(list[i - 1], list[i])
    BY <2>1, <2>3, <2>5, <2>6, RelayAssumption DEF Gapless
  <2>8. list[i] \in Blocks /\ list[i - 1] \in Blocks
    BY <2>1, <2>5
  <2> QED
    BY <1>1, <2>6, <2>7, <2>8, ActiveComparable DEF Joined
<1>2. IInv /\ ActivationInv /\ RelayInv /\ AnnounceInv => AnnouncementsFollow
  BY <1>1
<1> QED
  BY <1>2, AnnounceConsistent, PTL

\* When the node is at rest and has nothing left to announce, every peer that always used
\* a locator has the header of the tip or an INV for it, as long as the message handler is
\* the only thread that moves the tip and no block fails.
THEOREM EveryPeerHears ==
    ASSUME Threads = {MessageHandler}
    PROVE  RelaySpec /\ []NoFailure => []TipAnnounced
<1>1. ASSUME IInv, ActivationInv, AnnounceInv PROVE TipAnnounced
  <2> SUFFICES ASSUME Idle, NEW p \in Peers \ nullLocators, vBlockHashesToAnnounce[p] = <<>>
               PROVE  Tip \in headersOf[p] \cup invited[p]
    BY DEF TipAnnounced
  <2>1. MessageHandler \in Threads /\ pc[MessageHandler] = "idle"
    BY RelayAssumption DEF Idle
  <2>2. Announced(p) = <<>>
    BY <1>1, <2>1 DEF AnnounceInv, Announced
  <2>3. SettledTip = Tip
    BY <1>1 DEF Idle, ActivationInv, OldTipInv, SettledTip
  <2> QED
    BY <1>1, <2>2, <2>3 DEF AnnounceInv, EndsWithTip
<1>2. IInv /\ ActivationInv /\ RelayInv /\ AnnounceInv => TipAnnounced
  BY <1>1
<1> QED
  BY <1>2, AnnounceConsistent, PTL

=============================================================================
