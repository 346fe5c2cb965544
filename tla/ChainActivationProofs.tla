----------------------- MODULE ChainActivationProofs ------------------------
(***************************************************************************)
(* What ReceivedBlockTransactions and ActivateBestChain achieve, for every *)
(* block tree, every work function and any set of threads: without RPCs no *)
(* stored block is stranded, and until a block fails the node keeps the    *)
(* promises of ActiveChain and the tip is the best block whenever all      *)
(* threads are idle.                                                       *)
(*                                                                         *)
(* LinkInv says where a stored block is that is not linked.  ActivationInv *)
(* says that setBlockIndexCandidates has every linked block as good as the *)
(* tip that others see, that a running step aims at the best of them, and  *)
(* that a thread is left to run while the tip is not the best block.  It   *)
(* holds until the first failure only: a block that is worse than the tip  *)
(* when it is linked is no candidate, and is not made one when the tip is  *)
(* lost because it fails when it is connected again.                       *)
(***************************************************************************)
EXTENDS ChainStateProofs, FunctionTheorems

\* the blocks of the queue of ReceivedBlockTransactions
Queued == {queue[i] : i \in 1..Len(queue)}

\* A stored block is either linked, or about to be linked once, or it waits for its
\* parent; a failed block was linked when it failed.
LinkInv ==
    /\ \A t \in Threads : pc[t] # "invalidate"
    /\ Failed \subseteq Linked
    /\ haveData \ {Genesis} \subseteq Linked \cup mapBlocksUnlinked \cup Queued
    /\ \A b \in mapBlocksUnlinked : pprev[b] \notin Linked
    /\ Queued \cap (Linked \cup mapBlocksUnlinked) = {}
    /\ \A i, j \in 1..Len(queue) : queue[i] = queue[j] => i = j
    /\ (\A t \in Threads : pc[t] # "link") => queue = <<>>

\* a thread will look at the candidates again
Pending ==
    \E t \in Threads : \/ pc[t] \in {"link", "activate", "find", "step"}
                       \/ pc[t] = "check" /\ pindexMostWork[t] # Tip

\* the tip is the best block
Settled == \A b \in Linked : ~Worse(Tip, b)

\* pindexOldTip belongs to a running step
OldTipInv == pindexOldTip # Null => /\ pindexOldTip \in Linked
                                    /\ \E t \in Threads : pc[t] = "step"

\* every linked block as good as the tip that others see is a candidate
Complete == \A b \in Linked : ~Worse(b, SettledTip) => b \in setBlockIndexCandidates

\* a running step aims at the best candidate
Aimed == \A t \in Threads : pc[t] = "step" => /\ BestCandidate(pindexMostWork[t])
                                              /\ pindexMostWork[t] # pindexOldTip

\* what holds until a block fails
ActivationInv ==
    /\ failedChild = {}
    /\ OldTipInv
    /\ Complete
    /\ Aimed
    /\ ~Pending => Settled

-----------------------------------------------------------------------------
\* Linking

\* No thread is linking while cs_main is free or held by a thread that does something
\* else, and then the queue is empty.
LEMMA QueueEmpty ==
    ASSUME IInv, LinkInv, NEW t \in Threads, cs_main \in {Null, t}, pc[t] # "link"
    PROVE  queue = <<>> /\ Queued = {}
<1>1. \A u \in Threads : pc[u] # "link"
  BY Alone DEF Holding
<1>2. queue = <<>>
  BY <1>1 DEF LinkInv
<1> QED
  BY <1>2 DEF Queued

\* An enumeration of a finite set has every element of it once.
LEMMA OrderProperties ==
    ASSUME NEW S, IsFiniteSet(S), NEW order \in SetToSeqs(S)
    PROVE  /\ order \in Seq(S)
           /\ {order[i] : i \in 1..Len(order)} = S
           /\ \A i, j \in 1..Len(order) : order[i] = order[j] => i = j
<1> DEFINE n == Cardinality(S)
           R == {order[i] : i \in 1..n}
<1>1. n \in Nat
  BY FS_CardinalityType
<1>2. order \in [1..n -> S] /\ \A i, j \in 1..n : order[i] = order[j] => i = j
  BY DEF SetToSeqs
<1>3. order \in Seq(S) /\ Len(order) = n
  BY <1>1, <1>2
<1>4. order \in Bijection(1..n, R)
  <2>1. order \in [1..n -> R]
    BY <1>2
  <2>2. \A r \in R : \E i \in 1..n : order[i] = r
    OBVIOUS
  <2> HIDE DEF R, n
  <2> QED
    BY <1>2, <2>1, <2>2, Fun_IsBij
<1>5. IsFiniteSet(1..n) /\ Cardinality(1..n) = n
  BY <1>1, FS_Interval
<1>6. IsFiniteSet(R) /\ Cardinality(R) = n
  <2> HIDE DEF R, n
  <2> QED
    BY <1>4, <1>5, FS_Bijection DEF ExistsBijection
<1>7. R \in SUBSET S
  BY <1>2
<1>8. R = S
  <2> HIDE DEF R
  <2> QED
    BY <1>6, <1>7, FS_Subset
<1> QED
  BY <1>2, <1>3, <1>8

\* One turn of the loop of ReceivedBlockTransactions.
LEMMA LinkNextFacts ==
    ASSUME IInv, LinkInv, NEW t \in Threads, LinkNext(t)
    PROVE  LET b == Head(queue)
           IN /\ b \in haveData \ {Genesis} /\ b \in Blocks /\ b \notin Linked
              /\ pprev[b] \in Linked
              /\ Linked' = Linked \cup {b}
              /\ mapBlocksUnlinked' = mapBlocksUnlinked \ WaitingFor(b)
              /\ Queued' = (Queued \ {b}) \cup WaitingFor(b)
              /\ \A i, j \in 1..Len(queue') : queue'[i] = queue'[j] => i = j
<1> DEFINE b == Head(queue)
           children == WaitingFor(b)
<1>1. /\ queue # <<>> /\ queue \in Seq(Blocks)
      /\ b \in haveData \ {Genesis} /\ b \in Blocks
      /\ pprev[b] \in Linked
  BY DEF IInv, LinkNext, QueueInv, TypeOK
<1>2. PICK order \in SetToSeqs(children) :
         /\ queue' = Tail(queue) \o order
         /\ mapBlocksUnlinked' = mapBlocksUnlinked \ children
         /\ nChainTx' = [nChainTx EXCEPT ![b] = nChainTx[pprev[b]] + nTx(b)]
  BY DEF LinkNext
<1>3. children \subseteq mapBlocksUnlinked /\ IsFiniteSet(children) /\ children \subseteq Blocks
  BY FS_Subset DEF IInv, TypeOK, QueueInv, WaitingFor
<1>4. /\ order \in Seq(children)
      /\ {order[i] : i \in 1..Len(order)} = children
      /\ \A i, j \in 1..Len(order) : order[i] = order[j] => i = j
  <2> HIDE DEF children
  <2> QED
    BY <1>2, <1>3, OrderProperties
<1>5. Len(queue) \in Nat \ {0} /\ b = queue[1] /\ 1 \in 1..Len(queue)
  BY <1>1
<1>6. b \in Queued /\ b \notin Linked /\ Queued \cap mapBlocksUnlinked = {}
  BY <1>5 DEF LinkInv, Queued
<1> HIDE DEF b, children
<1>7. Linked' = Linked \cup {b}
  <2>1. nTx(b) \in Nat /\ nChainTx[pprev[b]] \in Nat \ {0} /\ pprev[b] \in Blocks
    BY <1>1, nTxType DEF IInv, TypeOK, Linked
  <2>2. nChainTx \in [Blocks -> Nat]
    BY DEF IInv, TypeOK
  <2>3. nChainTx'[b] # 0 /\ \A c \in Blocks \ {b} : nChainTx'[c] = nChainTx[c]
    BY <1>1, <1>2, <2>1, <2>2
  <2> QED
    BY <1>1, <2>3 DEF Linked
<1> DEFINE rest == Tail(queue)
           n == Len(queue) - 1
<1>8. /\ rest \in Seq(Blocks) /\ Len(rest) = n /\ n \in Nat /\ Len(queue) = n + 1
      /\ \A i \in 1..n : rest[i] = queue[i + 1]
  BY <1>1, <1>5, HeadTailProperties
<1>9. /\ order \in Seq(Blocks) /\ Len(order) \in Nat
  BY <1>3, <1>4
<1> HIDE DEF rest, n
<1>10. /\ Len(queue') = n + Len(order)
       /\ \A i \in 1..(n + Len(order)) :
             queue'[i] = IF i <= n THEN rest[i] ELSE order[i - n]
  BY <1>2, <1>8, <1>9, ConcatProperties DEF rest
<1>11. \A i \in 1..n : queue'[i] = queue[i + 1] /\ i + 1 \in 1..Len(queue) /\ i + 1 # 1
  BY <1>5, <1>8, <1>9, <1>10
<1>12. \A i \in 1..Len(order) : n + i \in 1..(n + Len(order)) /\ queue'[n + i] = order[i]
  <2> SUFFICES ASSUME NEW i \in 1..Len(order)
               PROVE  n + i \in 1..(n + Len(order)) /\ queue'[n + i] = order[i]
    OBVIOUS
  <2>1. n + i \in 1..(n + Len(order)) /\ ~(n + i <= n) /\ (n + i) - n = i
    BY <1>8, <1>9
  <2> QED
    BY <1>10, <2>1
<1>13. \A k \in 1..(n + Len(order)) : k \in 1..n \/ \E i \in 1..Len(order) : k = n + i
  <2> SUFFICES ASSUME NEW k \in 1..(n + Len(order)), k \notin 1..n
               PROVE  \E i \in 1..Len(order) : k = n + i
    OBVIOUS
  <2>1. k - n \in 1..Len(order) /\ k = n + (k - n)
    BY <1>8, <1>9
  <2> QED
    BY <2>1
<1>14. \A i, j \in 1..Len(queue) : queue[i] = queue[j] => i = j
  BY DEF LinkInv
<1>15. Queued' = (Queued \ {b}) \cup children
  <2>1. ASSUME NEW c \in Queued' PROVE c \in (Queued \ {b}) \cup children
    <3>1. PICK k \in 1..(n + Len(order)) : c = queue'[k]
      BY <1>10 DEF Queued
    <3>2. CASE k \in 1..n
      <4>1. c = queue[k + 1] /\ k + 1 \in 1..Len(queue) /\ k + 1 # 1
        BY <1>11, <3>1, <3>2
      <4>2. queue[k + 1] # queue[1]
        BY <1>5, <1>14, <4>1
      <4>3. c # b
        BY <1>5, <4>1, <4>2
      <4>4. c \in Queued
        BY <4>1 DEF Queued
      <4> QED
        BY <4>3, <4>4
    <3>3. CASE \E i \in 1..Len(order) : k = n + i
      <4>1. PICK i \in 1..Len(order) : k = n + i
        BY <3>3
      <4>2. c = order[i]
        BY <1>12, <3>1, <4>1
      <4> QED
        BY <1>4, <4>2
    <3> QED
      BY <1>13, <3>2, <3>3
  <2>2. ASSUME NEW c \in Queued, c # b PROVE c \in Queued'
    <3>1. PICK k \in 1..Len(queue) : c = queue[k]
      BY DEF Queued
    <3>2. k - 1 \in 1..n /\ (k - 1) + 1 = k /\ k - 1 \in 1..(n + Len(order))
      <4>1. k # 1
        BY <1>5, <2>2, <3>1
      <4> QED
        BY <1>8, <1>9, <4>1
    <3>3. queue'[k - 1] = c
      BY <1>11, <3>1, <3>2
    <3> QED
      BY <1>10, <3>2, <3>3 DEF Queued
  <2>3. ASSUME NEW c \in children PROVE c \in Queued'
    <3>1. PICK i \in 1..Len(order) : c = order[i]
      BY <1>4
    <3> QED
      BY <1>10, <1>12, <3>1 DEF Queued
  <2> QED
    BY <2>1, <2>2, <2>3
<1>16. ASSUME NEW i \in 1..Len(queue'), NEW j \in 1..Len(queue'), queue'[i] = queue'[j]
       PROVE  i = j
  <2>1. i \in 1..(n + Len(order)) /\ j \in 1..(n + Len(order))
    BY <1>10, Zenon
  <2>2. \A k \in 1..n : queue'[k] \in Queued
    BY <1>11 DEF Queued
  <2>3. \A k \in 1..Len(order) : queue'[n + k] \in mapBlocksUnlinked
    BY <1>3, <1>4, <1>12
  <2>4. CASE i \in 1..n /\ j \in 1..n
    <3>1. i + 1 = j + 1
      BY <1>11, <1>14, <1>16, <2>4
    <3> QED
      BY <1>8, <2>4, <3>1
  <2>5. CASE i \in 1..n /\ \E k \in 1..Len(order) : j = n + k
    BY <1>6, <1>16, <2>2, <2>3, <2>5
  <2>6. CASE j \in 1..n /\ \E k \in 1..Len(order) : i = n + k
    BY <1>6, <1>16, <2>2, <2>3, <2>6
  <2>7. CASE (\E k \in 1..Len(order) : i = n + k) /\ \E k \in 1..Len(order) : j = n + k
    <3>1. PICK k \in 1..Len(order) : i = n + k
      BY <2>7
    <3>2. PICK m \in 1..Len(order) : j = n + m
      BY <2>7
    <3>3. order[k] = order[m]
      BY <1>12, <1>16, <3>1, <3>2
    <3> QED
      BY <1>4, <3>1, <3>2, <3>3
  <2> QED
    BY <1>13, <2>1, <2>4, <2>5, <2>6, <2>7
<1> QED
  BY <1>1, <1>2, <1>6, <1>7, <1>15, <1>16 DEF b, children

\* The state InitBlockIndex leaves has no block that waits.
LEMMA InitLinkInv == ASSUME Init PROVE LinkInv
<1>1. IInv
  BY InitIInv
<1>2. Genesis \in Linked
  BY <1>1 DEF IInv, TreeInv
<1>3. Queued = {} /\ queue = <<>> /\ Len(queue) = 0
  BY DEF Init, Queued
<1> QED
  BY <1>2, <1>3 DEF Init, LinkInv, Failed

\* What a step of t that neither links nor stores a block keeps.
LEMMA LinkFrame ==
    ASSUME IInv, LinkInv, NEW t \in Threads, pc[t] # "link",
           NEW x, x \notin {"link", "invalidate"}, pc' = [pc EXCEPT ![t] = x],
           UNCHANGED <<haveData, nChainTx, mapBlocksUnlinked, queue>>, Failed' \subseteq Linked
    PROVE  LinkInv'
<1>1. pc \in [Threads -> {"idle", "activate", "check"} \cup Holding]
  BY DEF IInv, TypeOK
<1>2. pc'[t] = x /\ \A u \in Threads \ {t} : pc'[u] = pc[u]
  BY <1>1
<1>3. Linked' = Linked /\ Queued' = Queued
  BY DEF Linked, Queued
<1>4. (\A u \in Threads : pc'[u] # "link") => \A u \in Threads : pc[u] # "link"
  BY <1>2
<1> QED
  BY <1>2, <1>3, <1>4 DEF LinkInv

\* Storing a body: the block is queued, or it waits for a parent that is not linked, hence
\* not failed.
LEMMA StoreLinkInv ==
    ASSUME IInv, LinkInv, NEW t \in Threads, NEW b \in Blocks, NEW fRequested,
           StoreBlock(t, b, fRequested)
    PROVE  LinkInv'
<1>1. cs_main = Null /\ pc[t] = "idle"
  BY DEF StoreBlock
<1>2. queue = <<>> /\ Queued = {}
  BY <1>1, QueueEmpty
<1>3. pc \in [Threads -> {"idle", "activate", "check"} \cup Holding]
  BY DEF IInv, TypeOK
<1>4. /\ b \notin haveData /\ b # Genesis /\ pprev[b] \in Blocks
      /\ haveData' = haveData \cup {b} /\ UNCHANGED <<nChainTx, flagVars>>
  BY TreeAssumption DEF StoreBlock, Ignored, IInv, TreeInv
<1>5. Linked' = Linked /\ Failed' = Failed
  BY <1>4 DEF Linked, Failed, flagVars
<1>6. b \notin Linked /\ b \notin mapBlocksUnlinked
  BY <1>4 DEF IInv, LinkedExactly, TypeOK
<1>7. CASE ParentLinked(b)
  <2>1. queue' = <<b>> /\ pc' = [pc EXCEPT ![t] = "link"] /\ UNCHANGED mapBlocksUnlinked
    BY <1>7 DEF StoreBlock
  <2>2. Len(queue') = 1 /\ queue'[1] = b /\ Queued' = {b}
    BY <2>1 DEF Queued
  <2>3. pc'[t] = "link" /\ \A u \in Threads \ {t} : pc'[u] = pc[u]
    BY <1>3, <2>1
  <2>4. \A u \in Threads : pc'[u] # "invalidate"
    BY <2>3 DEF LinkInv
  <2>5. \A i, j \in 1..Len(queue') : queue'[i] = queue'[j] => i = j
    BY <2>2
  <2>6. haveData' \ {Genesis} \subseteq Linked' \cup mapBlocksUnlinked' \cup Queued'
    BY <1>2, <1>4, <1>5, <2>1, <2>2 DEF LinkInv
  <2>7. Queued' \cap (Linked' \cup mapBlocksUnlinked') = {}
    BY <1>5, <1>6, <2>1, <2>2
  <2> QED
    BY <1>5, <2>1, <2>3, <2>4, <2>5, <2>6, <2>7 DEF LinkInv
<1>8. CASE ~ParentLinked(b)
  <2>1. pprev[b] \notin Linked /\ pprev[b] \notin Failed
    BY <1>8 DEF ParentLinked, Linked, LinkInv
  <2>2. /\ mapBlocksUnlinked' = mapBlocksUnlinked \cup {b} /\ UNCHANGED queue
        /\ pc' = [pc EXCEPT ![t] = "activate"]
    BY <1>8, <2>1 DEF StoreBlock
  <2>3. pc'[t] = "activate" /\ \A u \in Threads \ {t} : pc'[u] = pc[u]
    BY <1>3, <2>2
  <2>4. \A u \in Threads : pc'[u] # "invalidate"
    BY <2>3 DEF LinkInv
  <2>5. Queued' = {} /\ Len(queue') = 0 /\ queue' = <<>>
    BY <1>2, <2>2 DEF Queued
  <2>6. haveData' \ {Genesis} \subseteq Linked' \cup mapBlocksUnlinked' \cup Queued'
    BY <1>2, <1>4, <1>5, <2>2 DEF LinkInv
  <2> QED
    BY <1>5, <2>1, <2>2, <2>4, <2>5, <2>6 DEF LinkInv
<1> QED
  BY <1>7, <1>8

\* Linking a block: the blocks that wait for it leave mapBlocksUnlinked when it is linked.
LEMMA LinkNextLinkInv ==
    ASSUME IInv, LinkInv, NEW t \in Threads, LinkNext(t)
    PROVE  LinkInv'
<1> DEFINE b == Head(queue)
           children == WaitingFor(b)
<1>1. /\ b \in haveData \ {Genesis} /\ b \in Blocks /\ b \notin Linked
      /\ Linked' = Linked \cup {b}
      /\ mapBlocksUnlinked' = mapBlocksUnlinked \ children
      /\ Queued' = (Queued \ {b}) \cup children
      /\ \A i, j \in 1..Len(queue') : queue'[i] = queue'[j] => i = j
  BY LinkNextFacts
<1>2. /\ children \subseteq mapBlocksUnlinked
      /\ \A c \in mapBlocksUnlinked : c \in children <=> pprev[c] = b
  BY DEF WaitingFor
<1>3. /\ UNCHANGED <<haveData, flagVars>> /\ pc[t] = "link"
      /\ \/ queue' = <<>> /\ pc' = [pc EXCEPT ![t] = "activate"]
         \/ queue' # <<>> /\ UNCHANGED pc
  BY DEF LinkNext
<1> HIDE DEF b, children
<1>4. pc \in [Threads -> {"idle", "activate", "check"} \cup Holding]
  BY DEF IInv, TypeOK
<1>5. /\ \A u \in Threads : pc'[u] # "invalidate"
      /\ (\A u \in Threads : pc'[u] # "link") => queue' = <<>>
  BY <1>3, <1>4 DEF LinkInv
<1>6. Failed' \subseteq Linked'
  BY <1>1, <1>3 DEF LinkInv, Failed, flagVars
<1>7. haveData' \ {Genesis} \subseteq Linked' \cup mapBlocksUnlinked' \cup Queued'
  BY <1>1, <1>3 DEF LinkInv
<1>8. \A c \in mapBlocksUnlinked' : pprev[c] \notin Linked'
  BY <1>1, <1>2 DEF LinkInv
<1>9. \A c \in mapBlocksUnlinked : c \notin Linked /\ c # b
  <2>1. b \in haveData \ {Genesis} /\ \A c \in mapBlocksUnlinked : c # Genesis
    BY <1>1 DEF IInv, TypeOK
  <2>2. \A c \in mapBlocksUnlinked : c \notin Linked
    BY <2>1 DEF LinkInv, IInv, LinkedExactly
  <2>3. b \in Queued
    BY <1>3 DEF IInv, QueueInv, TypeOK, Queued, b
  <2> QED
    BY <2>2, <2>3 DEF LinkInv
<1>10. Queued' \cap (Linked' \cup mapBlocksUnlinked') = {}
  BY <1>1, <1>2, <1>9 DEF LinkInv
<1> QED
  BY <1>1, <1>5, <1>6, <1>7, <1>8, <1>10 DEF LinkInv

\* Every step but an RPC keeps LinkInv.
LEMMA NextLinkInv ==
    ASSUME IInv, LinkInv, [Next]_vars, ~Rpc
    PROVE  LinkInv'
<1> USE DEF indexVars, flagVars, localVars
<1>1. Failed \subseteq Linked /\ Linked \in SUBSET Blocks /\ ParentClosed(Linked)
  BY DEF LinkInv, IInv, LinkedExactly, ParentClosed, Linked
<1>2. \A c \in Linked : Ancestors[c] \subseteq Linked
  BY <1>1, AncestorsInClosed
<1>3. ASSUME UNCHANGED <<haveData, nChainTx, mapBlocksUnlinked, queue, flagVars, pc>>
      PROVE  LinkInv'
  BY <1>3 DEF LinkInv, Linked, Queued, Failed
<1>4. ASSUME NEW b \in Blocks, AcceptBlockHeader(b) PROVE LinkInv'
  BY <1>3, <1>4 DEF AcceptBlockHeader
<1>5. ASSUME NEW t \in Threads, NEW b \in Blocks, NEW fRequested \in BOOLEAN,
             IgnoreBlock(t, b, fRequested)
      PROVE  LinkInv'
  BY <1>1, <1>5, LinkFrame DEF IgnoreBlock, Failed
<1>6. ASSUME NEW t \in Threads, NEW b \in Blocks, NEW fRequested \in BOOLEAN,
             StoreBlock(t, b, fRequested)
      PROVE  LinkInv'
  BY <1>6, StoreLinkInv
<1>7. ASSUME NEW d \in Submitted, AddToMempool(d) PROVE LinkInv'
  BY <1>3, <1>7 DEF AddToMempool
<1>8. ASSUME NEW t \in Threads, DropFailedBranch(t) PROVE LinkInv'
  <2>1. PICK c \in Blocks : /\ c \in setBlockIndexCandidates
                            /\ \E f \in FailedBelow(c) :
                                  failedChild' = failedChild \cup (DownTo(f, c) \ {f})
    BY <1>8 DEF DropFailedBranch, BestCandidate
  <2>2. Failed' \subseteq Linked
    <3>1. c \in Linked
      BY <2>1 DEF IInv, LinkedExactly
    <3> QED
      BY <1>1, <1>2, <1>8, <2>1, <3>1 DEF DropFailedBranch, Failed, DownTo
  <2>3. pc[t] # "link" /\ pc' = [pc EXCEPT ![t] = "find"]
    BY <1>8 DEF DropFailedBranch, AtFind
  <2> QED
    BY <1>8, <2>2, <2>3, LinkFrame DEF DropFailedBranch
<1>9. ASSUME NEW t \in Threads, StepConnectFails(t) PROVE LinkInv'
  <2>1. PICK b \in FutureStamped : NextToConnect(t, b) /\ failedValid' = failedValid \cup {b}
    BY <1>9 DEF StepConnectFails
  <2>2. Failed' \subseteq Linked
    <3>1. pindexMostWork[t] \in Linked
      BY <1>9 DEF StepConnectFails, IInv, TargetInv
    <3> QED
      BY <1>1, <1>2, <1>9, <2>1, <3>1 DEF StepConnectFails, NextToConnect, Failed
  <2>3. pc[t] # "link" /\ pc' = [pc EXCEPT ![t] = "check"]
    BY <1>9 DEF StepConnectFails, EndStep
  <2> QED
    BY <1>9, <2>2, <2>3, LinkFrame DEF StepConnectFails
<1>10. ASSUME NEW t \in Threads, NothingToDo(t) \/ BeginStep(t) \/ CheckLoop(t)
                                 \/ StepDisconnect(t) \/ StepConnect(t)
       PROVE  LinkInv'
  <2>1. /\ UNCHANGED <<haveData, nChainTx, mapBlocksUnlinked, queue, flagVars>>
        /\ Failed' \subseteq Linked
    BY <1>1, <1>10 DEF NothingToDo, BeginStep, CheckLoop, StepDisconnect, StepConnect, Failed
  <2>2. \/ UNCHANGED pc
        \/ \E x \in {"idle", "step", "check", "activate"} : pc' = [pc EXCEPT ![t] = x]
    BY <1>10 DEF NothingToDo, BeginStep, CheckLoop, StepDisconnect, StepConnect, Return, EndStep
  <2>3. pc[t] # "link"
    BY <1>10 DEF NothingToDo, BeginStep, CheckLoop, StepDisconnect, StepConnect, AtFind
  <2> QED
    BY <1>3, <2>1, <2>2, <2>3, LinkFrame
<1>11. ASSUME NEW t \in Threads PROVE ~InvalidateWalk(t) /\ ~InvalidateEnd(t)
  BY DEF LinkInv, InvalidateWalk, InvalidateEnd
<1>12. CASE UNCHANGED vars
  BY <1>3, <1>12 DEF vars
<1> QED
  BY <1>4, <1>5, <1>6, <1>7, <1>8, <1>9, <1>10, <1>11, <1>12, LinkNextLinkInv
     DEF Next, Receive, ThreadStep

\* Without RPCs no order of arrival strands a block: a stored block whose parent is linked
\* is linked when cs_main is free.
THEOREM NothingStranded ==
    ASSUME Named = {} PROVE Spec => []StoredGetsLinked
<1>1. Init => IInv /\ LinkInv
  BY InitIInv, InitLinkInv
<1>2. IInv /\ LinkInv /\ [Next]_vars => IInv' /\ LinkInv'
  <2>1. ~Rpc
    BY DEF Rpc
  <2> QED
    BY <2>1, NextIInv, NextLinkInv
<1>3. IInv /\ LinkInv => StoredGetsLinked
  <2> SUFFICES ASSUME IInv, LinkInv, cs_main = Null,
                      NEW b \in haveData \ {Genesis}, pprev[b] \in Linked
               PROVE  b \in Linked
    BY DEF StoredGetsLinked
  <2>1. \A t \in Threads : pc[t] # "link"
    BY ThreadAssumption DEF IInv, LockInv, Holding
  <2>2. Queued = {}
    BY <2>1 DEF LinkInv, Queued
  <2> QED
    BY <2>2 DEF LinkInv
<1> QED
  BY <1>1, <1>2, <1>3, PTL DEF Spec

-----------------------------------------------------------------------------
\* Activation

\* The comparator is a strict order, total on the linked blocks, and "not worse" is
\* transitive on all blocks.
LEMMA WorseOrder ==
    ASSUME IInv
    PROVE  /\ \A a \in Blocks : ~Worse(a, a)
           /\ \A a, b, c \in Blocks : Worse(a, b) /\ Worse(b, c) => Worse(a, c)
           /\ \A a, b, c \in Blocks : ~Worse(a, b) /\ ~Worse(b, c) => ~Worse(a, c)
           /\ \A a, b \in Blocks : Worse(a, b) => ~Worse(b, a)
           /\ \A a, b \in Linked : a # b => Worse(a, b) \/ Worse(b, a)
<1>1. \A a \in Blocks : nChainWork[a] \in Nat /\ nSequenceId[a] \in Nat
  BY WorkAssumption DEF IInv, TypeOK
<1>2. \A a, b \in Linked : a # b => nSequenceId[a] # nSequenceId[b]
  BY DEF IInv, SequenceIdsDistinct, Linked
<1>3. Linked \subseteq Blocks
  BY DEF Linked
<1> QED
  BY <1>1, <1>2, <1>3 DEF Worse, SortsBefore

\* The tip is linked.
LEMMA TipLinked == ASSUME IInv PROVE Tip \in Linked /\ Tip \in Blocks
<1>1. Tip \in Active /\ Active \subseteq Blocks
  BY ActiveProperties DEF IInv
<1>2. Active \subseteq haveData \cap Linked
  BY UsableActive DEF IInv
<1> QED
  BY <1>1, <1>2

\* Outside the steps of ActivateBestChain others see the tip itself.
LEMMA NoStep ==
    ASSUME IInv, ActivationInv, NEW t \in Threads, cs_main \in {Null, t}, pc[t] # "step"
    PROVE  /\ \A u \in Threads : pc[u] # "step"
           /\ pindexOldTip = Null /\ SettledTip = Tip
           /\ Tip \in setBlockIndexCandidates
<1>1. \A u \in Threads : pc[u] # "step"
  BY Alone DEF Holding
<1>2. pindexOldTip = Null /\ SettledTip = Tip
  BY <1>1 DEF ActivationInv, OldTipInv, SettledTip
<1>3. Tip \in setBlockIndexCandidates
  BY <1>2, TipLinked, WorseOrder DEF ActivationInv, Complete
<1> QED
  BY <1>1, <1>2, <1>3

\* What the candidates, the links and the tip leave as it was.
LEMMA ActivationStill ==
    ASSUME IInv, ActivationInv,
           UNCHANGED <<nChainTx, nSequenceId, failedChild, setBlockIndexCandidates,
                       chainActive, pindexOldTip>>
    PROVE  /\ Tip' = Tip /\ SettledTip' = SettledTip /\ Linked' = Linked
           /\ failedChild' = {} /\ Complete'
           /\ Settled => Settled'
           /\ \A c \in Blocks : BestCandidate(c)' <=> BestCandidate(c)
<1>1. Tip' = Tip /\ SettledTip' = SettledTip /\ Linked' = Linked
  BY DEF Tip, SettledTip, Linked
<1>2. \A a, b : Worse(a, b)' <=> Worse(a, b)
  BY DEF Worse, SortsBefore
<1> QED
  BY <1>1, <1>2 DEF ActivationInv, Complete, Settled, BestCandidate

\* A thread that was not in a step starts an activation.
LEMMA StartActivation ==
    ASSUME IInv, ActivationInv, NEW t \in Threads, cs_main = Null, pc[t] = "idle",
           NEW x \in {"link", "activate"}, pc' = [pc EXCEPT ![t] = x],
           UNCHANGED <<nChainTx, nSequenceId, failedChild, setBlockIndexCandidates,
                       chainActive, pindexOldTip>>
    PROVE  ActivationInv'
<1>1. /\ \A u \in Threads : pc[u] # "step"
      /\ pindexOldTip = Null
  BY NoStep
<1>2. pc'[t] = x /\ \A u \in Threads \ {t} : pc'[u] = pc[u]
  BY DEF IInv, TypeOK
<1>3. \A u \in Threads : pc'[u] # "step"
  BY <1>1, <1>2
<1>4. Pending'
  BY <1>2 DEF Pending
<1> QED
  BY <1>1, <1>3, <1>4, ActivationStill DEF ActivationInv, OldTipInv, Aimed

\* Linking a block: it is a candidate unless it is worse than the tip, and the order of
\* the other blocks stays.
LEMMA LinkNextActivation ==
    ASSUME IInv, LinkInv, ActivationInv, NEW t \in Threads, LinkNext(t)
    PROVE  ActivationInv'
<1> DEFINE b == Head(queue)
<1>1. b \in Blocks /\ b \notin Linked /\ Linked' = Linked \cup {b}
  BY LinkNextFacts
<1>2. pc[t] = "link" /\ cs_main = t
  BY DEF LinkNext, IInv, LockInv, Holding
<1>3. /\ \A u \in Threads : pc[u] # "step"
      /\ pindexOldTip = Null /\ SettledTip = Tip
  BY <1>2, NoStep
<1>4. /\ nSequenceId' = [nSequenceId EXCEPT ![b] = nBlockSequenceId]
      /\ setBlockIndexCandidates' = setBlockIndexCandidates \cup
             (IF SortsBefore(nSequenceId', b, Tip) THEN {} ELSE {b})
      /\ UNCHANGED <<failedChild, chainActive, pindexOldTip>>
      /\ \/ UNCHANGED pc
         \/ pc' = [pc EXCEPT ![t] = "activate"]
  BY DEF LinkNext, flagVars, tipVars
<1> HIDE DEF b
<1>5. Tip' = Tip /\ SettledTip' = Tip
  BY <1>3, <1>4 DEF Tip, SettledTip
<1>6. \A c \in Linked : SortsBefore(nSequenceId', c, Tip) <=> Worse(c, Tip)
  <2>1. nSequenceId \in [Blocks -> Nat] /\ Tip # b /\ Linked \subseteq Blocks
    BY <1>1, TipLinked DEF IInv, TypeOK, Linked
  <2>2. \A c \in Linked : nSequenceId'[c] = nSequenceId[c]
    BY <1>1, <1>4, <2>1
  <2> QED
    BY <2>2, TipLinked DEF Worse, SortsBefore
<1>7. Complete' <=> \A c \in Linked' : ~SortsBefore(nSequenceId', c, Tip)
                                         => c \in setBlockIndexCandidates'
  BY <1>5 DEF Complete, Worse
<1>8. Complete'
  BY <1>1, <1>3, <1>4, <1>6, <1>7 DEF Complete, ActivationInv
<1>9. pc'[t] \in {"link", "activate"} /\ \A u \in Threads : pc'[u] # "step"
  BY <1>2, <1>3, <1>4 DEF IInv, TypeOK
<1>10. Pending'
  BY <1>9 DEF Pending
<1> QED
  BY <1>3, <1>4, <1>8, <1>9, <1>10 DEF ActivationInv, OldTipInv, Aimed

\* A thread leaves ActivateBestChain: the tip is the best candidate, hence the best block.
LEMMA NothingToDoActivation ==
    ASSUME IInv, ActivationInv, NEW t \in Threads, NothingToDo(t)
    PROVE  ActivationInv'
<1>1. cs_main \in {Null, t} /\ pc[t] # "step"
  BY AtFindLock DEF NothingToDo
<1>2. /\ \A u \in Threads : pc[u] # "step"
      /\ pindexOldTip = Null /\ SettledTip = Tip
      /\ Tip \in setBlockIndexCandidates
  BY <1>1, NoStep
<1>3. /\ UNCHANGED <<nChainTx, nSequenceId, failedChild, setBlockIndexCandidates,
                     chainActive, pindexOldTip>>
      /\ pc' = [pc EXCEPT ![t] = "idle"]
  BY DEF NothingToDo, Return, indexVars, flagVars, tipVars
<1>4. BestCandidate(Tip)
  BY <1>2 DEF NothingToDo
<1>5. Settled
  <2> SUFFICES ASSUME NEW b \in Linked, Worse(Tip, b) PROVE FALSE
    BY DEF Settled
  <2>1. ~Worse(b, Tip) /\ b \in Blocks
    BY TipLinked, WorseOrder DEF Linked
  <2> QED
    BY <1>2, <1>4, <2>1 DEF ActivationInv, Complete, BestCandidate
<1>6. \A u \in Threads : pc'[u] # "step"
  BY <1>2, <1>3 DEF IInv, TypeOK
<1> QED
  BY <1>2, <1>3, <1>5, <1>6, ActivationStill DEF ActivationInv, OldTipInv, Aimed

\* A step begins: others go on seeing the tip it starts from.
LEMMA BeginStepActivation ==
    ASSUME IInv, ActivationInv, NEW t \in Threads, BeginStep(t)
    PROVE  ActivationInv'
<1>1. cs_main \in {Null, t} /\ pc[t] # "step"
  BY AtFindLock DEF BeginStep
<1>2. /\ \A u \in Threads : pc[u] # "step"
      /\ pindexOldTip = Null /\ SettledTip = Tip
  BY <1>1, NoStep
<1>3. PICK c \in Blocks \ {Tip} : /\ BestCandidate(c)
                                  /\ pindexMostWork' = [pindexMostWork EXCEPT ![t] = c]
  BY DEF BeginStep
<1>4. /\ UNCHANGED <<nChainTx, nSequenceId, failedChild, setBlockIndexCandidates,
                     chainActive>>
      /\ pindexOldTip' = Tip /\ pc' = [pc EXCEPT ![t] = "step"]
  BY DEF BeginStep, indexVars, flagVars, tipVars
<1>5. /\ pc'[t] = "step" /\ pindexMostWork'[t] = c
      /\ \A u \in Threads \ {t} : pc'[u] = pc[u]
  BY <1>3, <1>4 DEF IInv, TypeOK
<1>6. SettledTip' = Tip /\ Linked' = Linked /\ \A a, b : Worse(a, b)' <=> Worse(a, b)
  BY <1>4, TipLinked, TreeAssumption DEF SettledTip, Linked, Worse, SortsBefore
<1>7. Complete'
  BY <1>2, <1>4, <1>6 DEF ActivationInv, Complete
<1>8. Aimed'
  <2>1. BestCandidate(c)'
    BY <1>3, <1>4, <1>6 DEF BestCandidate
  <2> QED
    BY <1>2, <1>3, <1>4, <1>5, <2>1 DEF Aimed, BestCandidate
<1>9. OldTipInv' /\ Pending'
  BY <1>4, <1>5, <1>6, TipLinked DEF OldTipInv, Pending
<1> QED
  BY <1>4, <1>7, <1>8, <1>9 DEF ActivationInv

\* A thread evaluates the loop condition: it leaves only if it does not have to look at
\* the candidates again.
LEMMA CheckLoopActivation ==
    ASSUME IInv, ActivationInv, NEW t \in Threads, CheckLoop(t)
    PROVE  ActivationInv'
<1>1. /\ UNCHANGED <<nChainTx, nSequenceId, failedChild, setBlockIndexCandidates,
                     chainActive, pindexOldTip>>
      /\ pc[t] = "check"
      /\ \/ pindexMostWork[t] = Tip /\ pc' = [pc EXCEPT ![t] = "idle"]
         \/ pc' = [pc EXCEPT ![t] = "activate"]
      /\ pindexMostWork' = [pindexMostWork EXCEPT ![t] = Null]
  BY DEF CheckLoop, Return, indexVars, flagVars, tipVars
<1>2. /\ pc'[t] \in {"idle", "activate"}
      /\ pc'[t] = "idle" => pindexMostWork[t] = Tip
      /\ \A u \in Threads \ {t} : pc'[u] = pc[u] /\ pindexMostWork'[u] = pindexMostWork[u]
  BY <1>1 DEF IInv, TypeOK
<1>3. /\ Tip' = Tip /\ Linked' = Linked /\ failedChild' = {} /\ Complete'
      /\ Settled => Settled'
      /\ \A c \in Blocks : BestCandidate(c)' <=> BestCandidate(c)
  BY <1>1, ActivationStill
<1>4. OldTipInv'
  BY <1>1, <1>2, <1>3 DEF ActivationInv, OldTipInv
<1>5. Aimed'
  <2> SUFFICES ASSUME NEW u \in Threads, pc'[u] = "step"
               PROVE  BestCandidate(pindexMostWork[u])' /\ pindexMostWork'[u] # pindexOldTip'
    BY <1>2 DEF Aimed, BestCandidate, Worse, SortsBefore
  <2>1. u # t /\ pc[u] = "step" /\ pindexMostWork'[u] = pindexMostWork[u]
    BY <1>2
  <2>2. pindexMostWork[u] \in Blocks
    BY <2>1 DEF IInv, TargetInv, Linked
  <2> QED
    BY <1>1, <1>2, <1>3, <2>1, <2>2 DEF ActivationInv, Aimed, BestCandidate
<1>6. ~Pending' => ~Pending
  BY <1>1, <1>2, <1>3 DEF Pending
<1> QED
  BY <1>3, <1>4, <1>5, <1>6 DEF ActivationInv

\* A running step aims at a block that is better than the tip it started from.
LEMMA StepTarget ==
    ASSUME IInv, ActivationInv, NEW t \in Threads, pc[t] = "step"
    PROVE  /\ pindexOldTip \in Linked /\ pindexOldTip # Null
           /\ SettledTip = pindexOldTip
           /\ pindexMostWork[t] \in Linked
           /\ Worse(pindexOldTip, pindexMostWork[t])
<1>1. /\ pindexMostWork[t] \in Linked /\ pindexOldTip \in Blocks
      /\ pindexOldTip # Null
  BY TreeAssumption DEF IInv, TargetInv
<1>2. pindexOldTip \in Linked /\ SettledTip = pindexOldTip
  BY <1>1 DEF ActivationInv, OldTipInv, SettledTip
<1>3. pindexOldTip \in setBlockIndexCandidates
  BY <1>1, <1>2, WorseOrder DEF ActivationInv, Complete
<1>4. ~Worse(pindexMostWork[t], pindexOldTip) /\ pindexMostWork[t] # pindexOldTip
  BY <1>3 DEF ActivationInv, Aimed, BestCandidate
<1> QED
  BY <1>1, <1>2, <1>4, WorseOrder

\* A step goes on: nobody sees the tip it has moved.
LEMMA StepGoesOn ==
    ASSUME IInv, ActivationInv, NEW t \in Threads, pc[t] = "step",
           UNCHANGED <<nChainTx, nSequenceId, failedChild, setBlockIndexCandidates,
                       pindexOldTip, pindexMostWork, pc>>
    PROVE  ActivationInv'
<1>1. SettledTip' = SettledTip
  BY StepTarget DEF SettledTip
<1>2. Linked' = Linked /\ \A a, b : Worse(a, b)' <=> Worse(a, b)
  BY DEF Linked, Worse, SortsBefore
<1>3. Complete' /\ Aimed' /\ OldTipInv'
  BY <1>1, <1>2 DEF ActivationInv, Complete, Aimed, OldTipInv, BestCandidate
<1>4. Pending'
  BY DEF Pending
<1> QED
  BY <1>3, <1>4 DEF ActivationInv

\* A step ends with a better tip, which is the best block if it is the target.
LEMMA StepEnds ==
    ASSUME IInv, IInv', ActivationInv, NEW t \in Threads, pc[t] = "step", EndStep(t),
           UNCHANGED <<nChainTx, nSequenceId, failedChild, setBlockIndexCandidates,
                       pindexMostWork>>,
           \/ bestBlock' = pindexMostWork[t]
           \/ nChainWork[bestBlock'] > nChainWork[pindexOldTip]
    PROVE  ActivationInv' /\ Worse(pindexOldTip, Tip')
<1> DEFINE old == pindexOldTip
           new == bestBlock'
           aim == pindexMostWork[t]
<1>1. old \in Linked /\ SettledTip = old /\ aim \in Linked /\ Worse(old, aim)
  BY StepTarget
<1>2. /\ Tip' = new /\ new \in Linked'
      /\ pindexOldTip' = Null /\ pc' = [pc EXCEPT ![t] = "check"]
  <2>1. Tip' \in Linked'
    <3>1. Len(chainActive') \in 1..Len(chainActive')
      BY DEF IInv, TypeOK
    <3> QED
      BY <3>1 DEF IInv, ActiveChainUsable, Tip
  <2> QED
    BY <2>1 DEF IInv, ActiveChainIsPath, EndStep
<1>3. Linked' = Linked /\ Linked \subseteq Blocks /\ \A a, b : Worse(a, b)' <=> Worse(a, b)
  BY DEF Linked, Worse, SortsBefore
<1>4. SettledTip' = new
  BY <1>2 DEF SettledTip
<1>5. Worse(old, new)
  <2>1. CASE new = aim
    BY <1>1, <2>1
  <2>2. CASE nChainWork[new] > nChainWork[old]
    <3>1. nChainWork[new] \in Nat /\ nChainWork[old] \in Nat
      BY <1>1, <1>2, <1>3, WorkAssumption
    <3> QED
      BY <2>2, <3>1 DEF Worse, SortsBefore
  <2> QED
    BY <2>1, <2>2
<1> HIDE DEF old, new, aim
<1>6. Complete'
  <2> SUFFICES ASSUME NEW b \in Linked, ~Worse(b, new) PROVE b \in setBlockIndexCandidates
    BY <1>3, <1>4 DEF Complete
  <2>1. ~Worse(b, old)
    BY <1>1, <1>2, <1>3, <1>5, WorseOrder
  <2> QED
    BY <1>1, <2>1 DEF ActivationInv, Complete
<1>7. \A u \in Threads : pc'[u] # "step"
  <2>1. cs_main = t
    BY DEF IInv, LockInv, Holding
  <2> QED
    BY <1>2, <2>1, Alone DEF IInv, TypeOK, Holding
<1>8. CASE new = aim
  <2> SUFFICES ASSUME NEW b \in Linked, Worse(aim, b) PROVE FALSE
    BY <1>2, <1>3, <1>6, <1>7, <1>8, <1>5 DEF ActivationInv, OldTipInv, Aimed, Settled, old
  <2>1. b \notin setBlockIndexCandidates
    BY DEF ActivationInv, Aimed, BestCandidate, aim
  <2>2. Worse(b, old)
    BY <1>1, <2>1 DEF ActivationInv, Complete
  <2>3. Worse(b, aim)
    BY <1>1, <1>3, <2>2, WorseOrder
  <2> QED
    BY <1>1, <1>3, <2>3, WorseOrder
<1>9. CASE new # aim
  <2>1. pc'[t] = "check" /\ pindexMostWork'[t] # Tip'
    BY <1>2, <1>9 DEF IInv, TypeOK, aim
  <2>2. Pending'
    BY <2>1 DEF Pending
  <2> QED
    BY <1>2, <1>5, <1>6, <1>7, <2>2 DEF ActivationInv, OldTipInv, Aimed, old
<1> QED
  BY <1>8, <1>9

\* Disconnecting the tip keeps the invariant, and a step that ends so is at its target.
LEMMA StepDisconnectActivation ==
    ASSUME IInv, ActivationInv, NEW t \in Threads, StepDisconnect(t)
    PROVE  /\ ActivationInv'
           /\ pindexOldTip' = Null => Worse(pindexOldTip, Tip')
<1>1. IInv'
  BY StepDisconnectStep
<1>2. /\ UNCHANGED <<nChainTx, nSequenceId, failedChild, setBlockIndexCandidates,
                     pindexMostWork>>
      /\ pc[t] = "step"
      /\ \/ bestBlock' = pindexMostWork[t] /\ EndStep(t)
         \/ UNCHANGED <<pc, pindexOldTip>>
  BY DEF StepDisconnect, indexVars, flagVars
<1>3. CASE bestBlock' = pindexMostWork[t] /\ EndStep(t)
  BY <1>1, <1>2, <1>3, StepEnds
<1>4. CASE UNCHANGED <<pc, pindexOldTip>>
  BY <1>2, <1>4, StepGoesOn, StepTarget
<1> QED
  BY <1>2, <1>3, <1>4

\* Connecting a block keeps the invariant, and a step that ends so has a better tip.
LEMMA StepConnectActivation ==
    ASSUME IInv, ActivationInv, NEW t \in Threads, StepConnect(t)
    PROVE  /\ ActivationInv'
           /\ pindexOldTip' = Null => Worse(pindexOldTip, Tip')
<1>1. IInv'
  BY StepConnectStep
<1>2. /\ UNCHANGED <<nChainTx, nSequenceId, failedChild, setBlockIndexCandidates,
                     pindexMostWork>>
      /\ pc[t] = "step"
      /\ \E b \in Blocks :
            /\ bestBlock' = b
            /\ \/ Improved(t, b) /\ EndStep(t)
               \/ UNCHANGED <<pc, pindexOldTip>>
  BY DEF StepConnect, ConnectTip, indexVars, flagVars
<1>3. CASE Improved(t, bestBlock') /\ EndStep(t)
  BY <1>1, <1>2, <1>3, StepEnds DEF Improved
<1>4. CASE UNCHANGED <<pc, pindexOldTip>>
  BY <1>2, <1>4, StepGoesOn, StepTarget
<1> QED
  BY <1>2, <1>3, <1>4

\* The state InitBlockIndex leaves: the genesis block is the tip and the only candidate.
LEMMA InitActivation == ASSUME Init PROVE ActivationInv
<1>1. IInv
  BY InitIInv
<1>2. /\ chainActive = <<Genesis>> /\ pindexOldTip = Null /\ failedChild = {}
      /\ setBlockIndexCandidates = {Genesis}
      /\ \A t \in Threads : pc[t] = "idle"
  BY DEF Init
<1>3. Tip = Genesis /\ SettledTip = Genesis
  BY <1>2 DEF Tip, SettledTip
<1>4. Linked \subseteq {Genesis} /\ Genesis \in Blocks
  BY TreeAssumption DEF Init, Linked
<1>5. Complete
  BY <1>2, <1>4 DEF Complete
<1>6. Settled
  BY <1>1, <1>3, <1>4, WorseOrder DEF Settled
<1> QED
  BY <1>2, <1>5, <1>6 DEF ActivationInv, OldTipInv, Aimed

\* no block is marked failed, by an operator or by its second check
NoFailure == failedValid = {}

\* As long as no block fails, every step keeps both invariants.
LEMMA NextActivation ==
    ASSUME IInv, LinkInv, ActivationInv, NoFailure, NoFailure', [Next]_vars
    PROVE  LinkInv' /\ ActivationInv'
<1> USE DEF indexVars, flagVars, tipVars, localVars
<1>1. Failed = {}
  BY DEF Failed, NoFailure, ActivationInv
<1>2. ASSUME NEW t \in Threads, NEW b \in Named, InvalidateBlock(t, b) PROVE FALSE
  BY <1>2 DEF InvalidateBlock, NoFailure
<1>3. ASSUME NEW t \in Threads, NEW b \in Named, ReconsiderBlock(t, b)
      PROVE  LinkInv' /\ ActivationInv'
  <2>1. /\ UNCHANGED <<haveData, nChainTx, nSequenceId, mapBlocksUnlinked, queue, failedValid,
                       failedChild, setBlockIndexCandidates, chainActive, pindexOldTip>>
        /\ pc[t] = "idle" /\ cs_main = Null
        /\ pc' = [pc EXCEPT ![t] = "activate"]
    BY <1>1, <1>3 DEF ReconsiderBlock, Failed
  <2>2. Failed' \subseteq Linked
    BY <1>1, <2>1 DEF Failed
  <2> QED
    BY <2>1, <2>2, LinkFrame, StartActivation
<1>4. LinkInv'
  BY <1>2, <1>3, NextLinkInv DEF Rpc
<1>5. ASSUME UNCHANGED <<nChainTx, nSequenceId, failedChild, setBlockIndexCandidates,
                         chainActive, pindexOldTip, pindexMostWork, pc>>
      PROVE  ActivationInv'
  BY <1>5 DEF ActivationInv, OldTipInv, Complete, Aimed, Pending, Settled, SettledTip, Tip,
              Linked, BestCandidate, Worse, SortsBefore
<1>6. ASSUME NEW b \in Blocks, AcceptBlockHeader(b) PROVE ActivationInv'
  BY <1>5, <1>6 DEF AcceptBlockHeader
<1>7. ASSUME NEW d \in Submitted, AddToMempool(d) PROVE ActivationInv'
  BY <1>5, <1>7 DEF AddToMempool
<1>8. ASSUME NEW t \in Threads, NEW b \in Blocks, NEW fRequested \in BOOLEAN,
             IgnoreBlock(t, b, fRequested) \/ StoreBlock(t, b, fRequested)
      PROVE  ActivationInv'
  <2>1. /\ UNCHANGED <<nChainTx, nSequenceId, failedChild, setBlockIndexCandidates,
                       chainActive, pindexOldTip>>
        /\ pc[t] = "idle" /\ cs_main = Null
        /\ \E x \in {"link", "activate"} : pc' = [pc EXCEPT ![t] = x]
    BY <1>8 DEF IgnoreBlock, StoreBlock
  <2> QED
    BY <2>1, StartActivation
<1>9. ASSUME NEW t \in Threads PROVE ~DropFailedBranch(t) /\ ~StepConnectFails(t)
  <2>1. ~DropFailedBranch(t)
    BY <1>1 DEF DropFailedBranch, FailedBelow
  <2>2. ~StepConnectFails(t)
    BY DEF StepConnectFails, NoFailure
  <2> QED
    BY <2>1, <2>2
<1>10. ASSUME NEW t \in Threads PROVE ~InvalidateWalk(t) /\ ~InvalidateEnd(t)
  BY DEF LinkInv, InvalidateWalk, InvalidateEnd
<1>11. ASSUME NEW t \in Threads, ThreadStep(t) PROVE ActivationInv'
  BY <1>9, <1>10, <1>11, LinkNextActivation, NothingToDoActivation, BeginStepActivation,
     StepDisconnectActivation, StepConnectActivation, CheckLoopActivation DEF ThreadStep
<1>12. CASE UNCHANGED vars
  <2>1. UNCHANGED <<nChainTx, nSequenceId, failedChild, setBlockIndexCandidates,
                    chainActive, pindexOldTip, pindexMostWork, pc>>
    BY <1>12 DEF vars
  <2> QED
    BY <1>4, <1>5, <2>1
<1> QED
  BY <1>2, <1>3, <1>4, <1>6, <1>7, <1>8, <1>11, <1>12 DEF Next, Receive, Rpc

\* When no thread runs, the tip is the best block.
LEMMA IdleIsSettled == ASSUME ActivationInv PROVE TipIsBest
BY DEF ActivationInv, TipIsBest, Idle, Pending, Settled

\* As long as no block fails, the three invariants hold together.
THEOREM ActivationConsistent == Spec /\ []NoFailure => [](IInv /\ LinkInv /\ ActivationInv)
<1>1. Init => IInv /\ LinkInv /\ ActivationInv
  BY InitIInv, InitLinkInv, InitActivation
<1>2. /\ IInv /\ LinkInv /\ ActivationInv
      /\ NoFailure /\ NoFailure' /\ [Next]_vars
      => IInv' /\ LinkInv' /\ ActivationInv'
  BY NextIInv, NextActivation
<1> QED
  BY <1>1, <1>2, PTL DEF Spec

\* As long as no block fails: when every thread has left ActivateBestChain, no linked
\* block is better than the tip, in whatever order the blocks arrived and the threads ran.
THEOREM TipBest == Spec /\ []NoFailure => []TipIsBest
<1>1. ActivationInv => TipIsBest
  BY IdleIsSettled
<1> QED
  BY <1>1, ActivationConsistent, PTL

\* As long as no block fails: ActivateBestChainStep gives cs_main back with a tip that is
\* not worse than the one it started from.
THEOREM StepImproves == Spec /\ []NoFailure => StepNeverWorsens
<1> DEFINE Better == (pindexOldTip # Null /\ pindexOldTip' = Null /\ failedValid' = failedValid)
                     => ~Worse(chainActive'[Len(chainActive')], pindexOldTip)
<1>1. ASSUME IInv, ActivationInv, IInv', ActivationInv', NoFailure, NoFailure', [Next]_vars
      PROVE  [Better]_vars
  <2> SUFFICES ASSUME pindexOldTip # Null, pindexOldTip' = Null, Next
               PROVE  ~Worse(Tip', pindexOldTip)
    BY <1>1 DEF Tip
  <2>1. PICK t \in Threads : pc[t] = "step"
    BY <1>1 DEF ActivationInv, OldTipInv
  <2>2. pindexOldTip \in Linked /\ cs_main = t
    BY <1>1, <2>1, StepTarget DEF IInv, LockInv, Holding
  <2>3. \E u \in Threads : StepDisconnect(u) \/ StepConnect(u) \/ StepConnectFails(u)
    <3>1. pindexOldTip' # pindexOldTip /\ cs_main # Null
      BY <2>2, ThreadAssumption
    <3>2. ~Receive
      BY <3>1 DEF Receive, AcceptBlockHeader, IgnoreBlock, StoreBlock, AddToMempool, localVars
    <3>3. ~Rpc
      BY <3>1 DEF Rpc, InvalidateBlock, ReconsiderBlock, localVars
    <3>4. ASSUME NEW u \in Threads, BeginStep(u) PROVE FALSE
      BY <1>1, <3>4, TipLinked, TreeAssumption DEF BeginStep
    <3>5. ASSUME NEW u \in Threads
          PROVE  /\ ~LinkNext(u) /\ ~DropFailedBranch(u) /\ ~NothingToDo(u)
                 /\ ~CheckLoop(u) /\ ~InvalidateWalk(u) /\ ~InvalidateEnd(u)
      BY <3>1 DEF LinkNext, DropFailedBranch, NothingToDo, CheckLoop, InvalidateWalk,
                  InvalidateEnd, localVars
    <3> QED
      BY <3>2, <3>3, <3>4, <3>5 DEF Next, ThreadStep
  <2>4. Worse(pindexOldTip, Tip')
    <3>1. \A u \in Threads : ~StepConnectFails(u)
      BY <1>1 DEF StepConnectFails, NoFailure
    <3> QED
      BY <1>1, <2>3, <3>1, StepDisconnectActivation, StepConnectActivation
  <2>5. Tip' \in Blocks /\ pindexOldTip \in Blocks
    BY <1>1, <2>2 DEF IInv, ActiveChainIsPath, TypeOK, Linked
  <2> QED
    BY <1>1, <2>4, <2>5, WorseOrder
<1> QED
  BY <1>1, ActivationConsistent, PTL DEF Spec, StepNeverWorsens

-----------------------------------------------------------------------------
\* Refinement

\* ActiveChain walks the same tree.
LEMMA SameTree == Chain!Ancestors = Ancestors
BY DEF Chain!Ancestors, Ancestors, Chain!ParentClosed, ParentClosed

\* A linked block is usable while nothing has failed.
LEMMA LinkedUsable ==
    ASSUME IInv, Failed = {}, NEW b \in Linked
    PROVE  Chain!Usable(b)
<1>1. Linked \in SUBSET Blocks /\ ParentClosed(Linked) /\ Linked \subseteq haveData
  BY DEF IInv, LinkedExactly, ParentClosed, Linked
<1>2. Ancestors[b] \subseteq Linked
  BY <1>1, AncestorsInClosed
<1> QED
  BY <1>1, <1>2, SameTree DEF Chain!Usable, Chain!FullyStored

\* Every step of the node is a step of ActiveChain or is not seen by it.
LEMMA StepRefines ==
    ASSUME IInv, LinkInv, ActivationInv, IInv', ActivationInv', NoFailure, NoFailure',
           [Next]_vars
    PROVE  [Chain!ChainNext]_<<mapBlockIndex, haveData, Failed, SettledTip>>
<1> DEFINE cvars == <<mapBlockIndex, haveData, Failed, SettledTip>>
<1> USE DEF indexVars, flagVars, tipVars, localVars
<1>1. Failed = {} /\ Failed' = {}
  BY DEF Failed, NoFailure, ActivationInv
<1>2. Genesis \in mapBlockIndex /\ Genesis \in haveData
  BY DEF IInv, TreeInv, TypeOK
<1>3. ASSUME UNCHANGED <<mapBlockIndex, haveData, chainActive, pindexOldTip>>
      PROVE  UNCHANGED cvars
  BY <1>1, <1>3 DEF SettledTip, Tip
<1>4. ASSUME UNCHANGED <<chainActive, pindexOldTip>> PROVE SettledTip' = SettledTip
  BY <1>4 DEF SettledTip, Tip
<1>5. ASSUME NEW b \in Blocks, AcceptBlockHeader(b) PROVE Chain!ChainNext
  <2>1. Chain!AddHeader(b) /\ b # Genesis
    BY <1>1, <1>2, <1>4, <1>5 DEF AcceptBlockHeader, Acceptable, Chain!AddHeader
  <2> QED
    BY <2>1 DEF Chain!ChainNext
<1>6. ASSUME NEW t \in Threads, NEW b \in Blocks, NEW fRequested \in BOOLEAN,
             IgnoreBlock(t, b, fRequested)
      PROVE  Chain!ChainNext \/ UNCHANGED cvars
  <2>1. CASE b \in mapBlockIndex
    BY <1>3, <1>6, <2>1 DEF IgnoreBlock
  <2>2. CASE b \notin mapBlockIndex
    <3>1. Chain!AddHeader(b) /\ b # Genesis
      BY <1>1, <1>2, <1>4, <1>6, <2>2 DEF IgnoreBlock, Acceptable, Chain!AddHeader
    <3> QED
      BY <3>1 DEF Chain!ChainNext
  <2> QED
    BY <2>1, <2>2
<1>7. ASSUME NEW t \in Threads, NEW b \in Blocks, NEW fRequested \in BOOLEAN,
             StoreBlock(t, b, fRequested)
      PROVE  Chain!ChainNext
  <2>1. Chain!AddBody(b) /\ b # Genesis
    BY <1>1, <1>2, <1>4, <1>7 DEF StoreBlock, Acceptable, Ignored, Chain!AddBody
  <2> QED
    BY <2>1 DEF Chain!ChainNext
<1>8. ASSUME NEW d \in Submitted, AddToMempool(d) PROVE UNCHANGED cvars
  BY <1>3, <1>8 DEF AddToMempool
<1>9. ASSUME NEW t \in Threads, NEW b \in Named, InvalidateBlock(t, b) \/ ReconsiderBlock(t, b)
      PROVE  UNCHANGED cvars
  BY <1>3, <1>9 DEF InvalidateBlock, ReconsiderBlock
<1>10. ASSUME NEW t \in Threads, LinkNext(t) \/ NothingToDo(t) \/ CheckLoop(t)
       PROVE  UNCHANGED cvars
  BY <1>3, <1>10 DEF LinkNext, NothingToDo, CheckLoop
<1>11. ASSUME NEW t \in Threads, BeginStep(t) PROVE UNCHANGED cvars
  <2>1. SettledTip = Tip
    BY <1>11, AtFindLock, NoStep DEF BeginStep
  <2>2. /\ UNCHANGED <<mapBlockIndex, haveData, chainActive>>
        /\ pindexOldTip' = Tip /\ pindexOldTip' # Null
    BY <1>11, TipLinked, TreeAssumption DEF BeginStep
  <2> QED
    BY <1>1, <2>1, <2>2 DEF SettledTip
<1>12. ASSUME NEW t \in Threads, StepDisconnect(t) \/ StepConnect(t)
       PROVE  Chain!ChainNext \/ UNCHANGED cvars
  <2>1. /\ UNCHANGED <<mapBlockIndex, haveData, nChainTx>> /\ pc[t] = "step"
        /\ UNCHANGED pindexOldTip \/ pindexOldTip' = Null
    BY <1>12 DEF StepDisconnect, StepConnect, EndStep
  <2>2. SettledTip = pindexOldTip /\ pindexOldTip \in Linked /\ pindexOldTip # Null
    BY <2>1, StepTarget
  <2>3. CASE UNCHANGED pindexOldTip
    BY <1>1, <2>1, <2>2, <2>3 DEF SettledTip
  <2>4. CASE pindexOldTip' = Null
    <3>1. Worse(SettledTip, Tip') /\ SettledTip' = Tip'
      BY <1>12, <2>2, <2>4, StepDisconnectActivation, StepConnectActivation DEF SettledTip
    <3>2. Tip' \in Linked /\ Tip' \in Blocks
      <4>1. Len(chainActive') \in 1..Len(chainActive')
        BY DEF IInv, TypeOK
      <4>2. Tip' \in Linked'
        BY <4>1 DEF IInv, ActiveChainUsable, Tip
      <4> QED
        BY <2>1, <4>2 DEF Linked
    <3>3. SettledTip \in Blocks
      BY <2>2 DEF Linked
    <3>4. Tip' # SettledTip /\ nChainWork[Tip'] >= nChainWork[SettledTip]
      <4>1. nChainWork[Tip'] \in Nat /\ nChainWork[SettledTip] \in Nat
        BY <3>2, <3>3, WorkAssumption
      <4>2. Tip' # SettledTip
        BY <3>1, <3>3, WorseOrder
      <4> QED
        BY <3>1, <4>1, <4>2 DEF Worse, SortsBefore
    <3>5. Chain!MoveTip(Tip')
      BY <1>1, <2>1, <3>1, <3>2, <3>4, LinkedUsable DEF Chain!MoveTip
    <3> QED
      BY <3>2, <3>5 DEF Chain!ChainNext
  <2> QED
    BY <2>1, <2>3, <2>4
<1>13. ASSUME NEW t \in Threads
       PROVE  /\ ~DropFailedBranch(t) /\ ~StepConnectFails(t)
              /\ ~InvalidateWalk(t) /\ ~InvalidateEnd(t)
  <2>1. ~DropFailedBranch(t)
    BY <1>1 DEF DropFailedBranch, FailedBelow
  <2>2. ~StepConnectFails(t)
    BY DEF StepConnectFails, NoFailure
  <2> QED
    BY <2>1, <2>2 DEF LinkInv, InvalidateWalk, InvalidateEnd
<1>14. ASSUME NEW t \in Threads, ThreadStep(t) PROVE Chain!ChainNext \/ UNCHANGED cvars
  BY <1>10, <1>11, <1>12, <1>13, <1>14 DEF ThreadStep
<1>15. ASSUME UNCHANGED vars PROVE UNCHANGED cvars
  <2>1. UNCHANGED <<mapBlockIndex, haveData, chainActive, pindexOldTip>>
    BY <1>15 DEF vars
  <2> QED
    BY <1>3, <2>1
<1> HIDE DEF cvars
<1>16. Chain!ChainNext \/ UNCHANGED cvars
  BY <1>5, <1>6, <1>7, <1>8, <1>9, <1>14, <1>15 DEF Next, Receive, Rpc
<1> QED
  BY <1>16 DEF cvars

\* As long as no block fails, the block index is an ActiveChain: however headers, bodies,
\* links and reorganisations interleave on the threads, whoever gets cs_main sees headers
\* and bodies added one by one and the tip move to usable blocks of no less work.
THEOREM RefinesActiveChain == Spec /\ []NoFailure => Chain!ActiveChainSpec
<1>1. Init => Chain!ChainInit
  BY DEF Init, Chain!ChainInit, Failed, SettledTip, Tip
<1>2. /\ IInv /\ LinkInv /\ ActivationInv /\ IInv' /\ ActivationInv'
      /\ NoFailure /\ NoFailure' /\ [Next]_vars
      => [Chain!ChainNext]_(Chain!chainVars)
  BY StepRefines DEF Chain!chainVars
<1> QED
  BY <1>1, <1>2, ActivationConsistent, PTL DEF Spec, Chain!ActiveChainSpec

=============================================================================
