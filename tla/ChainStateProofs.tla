-------------------------- MODULE ChainStateProofs --------------------------
(***************************************************************************)
(* Proofs about ChainState, for every block tree, every work function,     *)
(* every assignment of data and any set of threads.                        *)
(*                                                                         *)
(* The inductive invariant IInv adds to the four safety invariants what    *)
(* they rest on between two sections of cs_main: who holds the lock, that  *)
(* the queue of ReceivedBlockTransactions holds stored blocks with linked  *)
(* parents, that the target of a running activation is a linked block with *)
(* no failed ancestor, and that sequence ids stay below their counter.     *)
(* There is one lemma per action; Frame, FrameAll and FrameStill carry the *)
(* parts an action does not touch.                                         *)
(***************************************************************************)
EXTENDS ChainState, BlockTreeProofs, SequenceTheorems

\* the blocks of the active chain
Active == {chainActive[i] : i \in 1..Len(chainActive)}

\* cs_main is held by exactly the thread that is in a locked section
LockInv == \A t \in Threads : pc[t] \in Holding <=> cs_main = t

\* the genesis block is stored and linked, and the parent of a known header is
\* known
TreeInv ==
    /\ Genesis \in haveData
    /\ Genesis \in Linked
    /\ ParentClosed(mapBlockIndex)

\* the blocks waiting in the queue of ReceivedBlockTransactions
QueueInv ==
    /\ \A i \in 1..Len(queue) : /\ queue[i] \in haveData \ {Genesis}
                                /\ pprev[queue[i]] \in Linked
    /\ \A t \in Threads : pc[t] = "link" => queue # <<>>
    /\ IsFiniteSet(mapBlocksUnlinked)

\* the target of a running activation, or invalidation
TargetInv ==
    \A t \in Threads :
        /\ pc[t] = "step" => /\ pindexMostWork[t] \in Linked
                             /\ Ancestors[pindexMostWork[t]] \cap Failed = {}
                             /\ pindexOldTip \in Blocks
        /\ pc[t] = "invalidate" => pindexMostWork[t] \in Blocks \ {Genesis}

\* the ids given so far are below the counter that gives the next one
SequenceInv == \A b \in Blocks : nSequenceId[b] < nBlockSequenceId

\* The inductive invariant: InitIInv establishes it, NextIInv preserves it.
IInv ==
    /\ TypeOK
    /\ LockInv
    /\ TreeInv
    /\ QueueInv
    /\ TargetInv
    /\ SequenceInv
    /\ ActiveChainIsPath
    /\ ActiveChainUsable
    /\ LinkedExactly
    /\ SequenceIdsDistinct

\* While chainActive is a path, CChain::Contains answers exactly for the active
\* blocks, and with a block its parent is active.
LEMMA ActiveProperties ==
    ASSUME TypeOK, ActiveChainIsPath
    PROVE  /\ Active \subseteq Blocks
           /\ ParentClosed(Active)
           /\ Tip \in Active
           /\ \A b \in Blocks : InActive(b) <=> b \in Active
           /\ Len(chainActive) \in Nat \ {0}
<1>1. Len(chainActive) \in Nat \ {0}
  BY DEF TypeOK
<1>2. Active \subseteq Blocks /\ Tip \in Active
  BY <1>1 DEF Active, TypeOK, Tip
<1>3. ParentClosed(Active)
  BY <1>1 DEF ParentClosed, Active, ActiveChainIsPath
<1>4. \A b \in Blocks : InActive(b) <=> b \in Active
  <2> SUFFICES ASSUME NEW b \in Blocks
               PROVE  InActive(b) <=> b \in Active
    OBVIOUS
  <2>1. nHeight[b] \in Nat
    BY TreeAssumption
  <2>2. InActive(b) => b \in Active
    BY <1>1, <2>1 DEF InActive, Active, Height
  <2>3. ASSUME NEW i \in 1..Len(chainActive), chainActive[i] = b
        PROVE  InActive(b)
    <3>1. nHeight[b] = i - 1
      BY <2>3 DEF ActiveChainIsPath
    <3> QED
      BY <1>1, <2>1, <2>3, <3>1 DEF InActive, Height
  <2> QED
    BY <2>2, <2>3 DEF Active
<1> QED
  BY <1>1, <1>2, <1>3, <1>4

\* The number of data of a block is a natural number.
LEMMA nTxType == \A b \in Blocks : nTx(b) \in Nat
BY DataAssumption, FS_CardinalityType DEF nTx

\* The state InitBlockIndex leaves satisfies the invariant.
LEMMA InitIInv == Init => IInv
<1> SUFFICES ASSUME Init PROVE IInv
  OBVIOUS
<1> USE DEF Init
<1>1. nTx(Genesis) \in Nat \ {0}
  BY nTxType, TreeAssumption, DataAssumption, FS_EmptySet, FS_CardinalityType DEF nTx
<1>2. TypeOK
  BY <1>1, TreeAssumption DEF TypeOK
<1>3. LockInv
  BY ThreadAssumption DEF LockInv, Holding
<1>4. Linked = {Genesis}
  BY <1>1, TreeAssumption DEF Linked
<1>5. TreeInv /\ QueueInv /\ TargetInv
  BY <1>4, TreeAssumption, FS_EmptySet DEF TreeInv, QueueInv, TargetInv, ParentClosed
<1>6. SequenceInv /\ SequenceIdsDistinct
  <2>1. nBlockSequenceId = 2 /\ nSequenceId[Genesis] = 1
    BY TreeAssumption
  <2>2. \A b \in Blocks \ {Genesis} : nSequenceId[b] = 0
    OBVIOUS
  <2> HIDE DEF Init
  <2>3. SequenceInv
    <3>1. SUFFICES ASSUME NEW b \in Blocks PROVE nSequenceId[b] < nBlockSequenceId
      BY DEF SequenceInv
    <3> QED
      BY <2>1, <2>2
  <2>4. SequenceIdsDistinct
    <3>1. SUFFICES ASSUME NEW a \in Blocks
                   PROVE  /\ (nSequenceId[a] = 0) <=> (a \notin Linked)
                          /\ \A b \in Linked \ {a} : nSequenceId[a] # nSequenceId[b]
      BY DEF SequenceIdsDistinct
    <3> QED
      BY <1>4, <2>1, <2>2
  <2> QED
    BY <2>3, <2>4
<1>7. ActiveChainIsPath /\ ActiveChainUsable
  BY <1>4, TreeAssumption DEF ActiveChainIsPath, ActiveChainUsable, Tip, Failed
<1>8. LinkedExactly
  BY <1>4 DEF LinkedExactly
<1> QED
  BY <1>2, <1>3, <1>5, <1>6, <1>7, <1>8 DEF IInv

-----------------------------------------------------------------------------
\* The two ways in which the tip moves

LEMMA DisconnectTipPath ==
    ASSUME TypeOK, ActiveChainIsPath, Tip # Genesis, DisconnectTip
    PROVE  /\ chainActive' \in Seq(Blocks) /\ chainActive' # <<>>
           /\ Len(chainActive') = Len(chainActive) - 1
           /\ \A i \in 1..Len(chainActive') : chainActive'[i] = chainActive[i]
           /\ ActiveChainIsPath'
           /\ bestBlock' \in Blocks /\ qmempool' \subseteq Data
<1>1. Len(chainActive) \in Nat /\ Len(chainActive) > 1
  BY DEF TypeOK, ActiveChainIsPath, Tip
<1>2. /\ chainActive' \in Seq(Blocks)
      /\ Len(chainActive') = Len(chainActive) - 1
      /\ \A i \in 1..Len(chainActive') : chainActive'[i] = chainActive[i]
  BY <1>1 DEF DisconnectTip, Front, TypeOK
<1>3. pprev[Tip] = chainActive[Len(chainActive) - 1]
  BY <1>1 DEF ActiveChainIsPath, Tip
<1>4. ActiveChainIsPath'
  BY <1>1, <1>2, <1>3 DEF ActiveChainIsPath, DisconnectTip, Tip
<1>5. Tip \in Blocks
  BY <1>1 DEF TypeOK, Tip
<1>6. bestBlock' \in Blocks /\ qmempool' \subseteq Data
  BY <1>5, TreeAssumption, DataAssumption DEF DisconnectTip, SymDiff, TypeOK
<1> QED
  BY <1>1, <1>2, <1>4, <1>6

\* ConnectTip of a child of the tip leaves a path from the genesis block.
LEMMA ConnectTipPath ==
    ASSUME TypeOK, ActiveChainIsPath,
           NEW b \in Blocks \ {Genesis}, pprev[b] = Tip, ConnectTip(b)
    PROVE  /\ chainActive' \in Seq(Blocks) /\ chainActive' # <<>>
           /\ Len(chainActive') = Len(chainActive) + 1
           /\ \A i \in 1..Len(chainActive) : chainActive'[i] = chainActive[i]
           /\ chainActive'[Len(chainActive')] = b
           /\ ActiveChainIsPath'
           /\ bestBlock' \in Blocks /\ qmempool' \subseteq Data
           /\ txIndex' \subseteq Data
<1>1. Len(chainActive) \in Nat \ {0}
  BY DEF TypeOK
<1>2. /\ chainActive' \in Seq(Blocks) /\ chainActive' # <<>>
      /\ Len(chainActive') = Len(chainActive) + 1
      /\ \A i \in 1..Len(chainActive) : chainActive'[i] = chainActive[i]
      /\ chainActive'[Len(chainActive')] = b
  BY <1>1, AppendProperties DEF ConnectTip, TypeOK
<1>3. nHeight[b] = Len(chainActive)
  BY <1>1, TreeAssumption DEF ActiveChainIsPath, Tip
<1>4. ActiveChainIsPath'
  BY <1>1, <1>2, <1>3 DEF ActiveChainIsPath, ConnectTip, Tip
<1>5. bestBlock' \in Blocks /\ qmempool' \subseteq Data /\ txIndex' \subseteq Data
  BY DataAssumption DEF ConnectTip, TypeOK
<1> QED
  BY <1>2, <1>4, <1>5

-----------------------------------------------------------------------------
\* The inserting steps

LEMMA AcceptBlockHeaderStep ==
    ASSUME IInv, NEW b \in Blocks, AcceptBlockHeader(b)
    PROVE  IInv'
<1> USE DEF IInv, AcceptBlockHeader
<1>1. TypeOK'
  BY DEF TypeOK, flagVars, tipVars, localVars
<1>2. LockInv'
  BY DEF LockInv
<1>3. Linked' = Linked /\ Failed' = Failed /\ Invalidated' = Invalidated
  BY DEF Linked, Failed, flagVars, Invalidated, localVars
<1>4. TreeInv'
  BY <1>3 DEF TreeInv, ParentClosed, Acceptable
<1>5. QueueInv' /\ TargetInv' /\ SequenceInv'
  BY <1>3 DEF QueueInv, TargetInv, SequenceInv, localVars
<1>6. ActiveChainIsPath' /\ ActiveChainUsable'
  BY <1>3 DEF ActiveChainIsPath, ActiveChainUsable, Tip, tipVars
<1>7. LinkedExactly' /\ SequenceIdsDistinct'
  BY <1>3 DEF LinkedExactly, SequenceIdsDistinct
<1> QED
  BY <1>1, <1>2, <1>4, <1>5, <1>6, <1>7

\* AcceptBlock returns early: at most the header is new.
LEMMA IgnoreBlockStep ==
    ASSUME IInv, NEW t \in Threads, NEW b \in Blocks,
           NEW fRequested \in BOOLEAN, IgnoreBlock(t, b, fRequested)
    PROVE  IInv'
<1> USE DEF IInv, IgnoreBlock
<1>1. TypeOK'
  BY DEF TypeOK, flagVars, tipVars
<1>2. LockInv'
  BY DEF LockInv, TypeOK, Holding
<1>3. Linked' = Linked /\ Failed' = Failed
  BY DEF Linked, Failed, flagVars
<1>4. Invalidated' = Invalidated
  BY DEF Invalidated, TypeOK
<1>5. TreeInv'
  BY <1>3, TreeAssumption DEF TreeInv, TypeOK, ParentClosed, Acceptable
<1>6. QueueInv' /\ TargetInv' /\ SequenceInv'
  BY <1>3 DEF QueueInv, TargetInv, SequenceInv, TypeOK
<1>7. ActiveChainIsPath' /\ ActiveChainUsable'
  BY <1>3, <1>4 DEF ActiveChainIsPath, ActiveChainUsable, Tip, tipVars
<1>8. LinkedExactly' /\ SequenceIdsDistinct'
  BY <1>3 DEF LinkedExactly, SequenceIdsDistinct
<1> QED
  BY <1>1, <1>2, <1>5, <1>6, <1>7, <1>8

\* AcceptBlock stores the body and starts, or postpones, the linking.
LEMMA StoreBlockStep ==
    ASSUME IInv, NEW t \in Threads, NEW b \in Blocks,
           NEW fRequested \in BOOLEAN, StoreBlock(t, b, fRequested)
    PROVE  IInv'
<1> USE DEF IInv, StoreBlock
<1>0. b # Genesis /\ pprev[b] \in Blocks
  BY TreeAssumption DEF Ignored, TreeInv
<1>1. TypeOK'
  <2>1. queue' \in Seq(Blocks)
    <3>1. queue \in Seq(Blocks) /\ (queue' = <<b>> \/ queue' = queue)
      BY DEF TypeOK
    <3> HIDE DEF IInv, StoreBlock
    <3>2. <<b>> \in Seq(Blocks)
      OBVIOUS
    <3> QED
      BY <3>1, <3>2
  <2>2. mapBlocksUnlinked' \subseteq haveData' \ {Genesis}
    BY <1>0 DEF TypeOK
  <2>3. pc' \in [Threads -> {"idle", "activate", "check"} \cup Holding]
    BY DEF TypeOK, Holding
  <2> QED
    BY <2>1, <2>2, <2>3 DEF TypeOK, flagVars, tipVars
<1>2. LockInv'
  BY ThreadAssumption DEF LockInv, TypeOK, Holding
<1>3. Linked' = Linked /\ Failed' = Failed
  BY DEF Linked, Failed, flagVars
<1>4. Invalidated' = Invalidated
  BY DEF Invalidated, TypeOK
<1>5. TreeInv'
  BY <1>3, TreeAssumption DEF TreeInv, TypeOK, ParentClosed, Acceptable
<1>6. QueueInv'
  <2>1. CASE nChainTx[pprev[b]] # 0
    <3>1. queue' = <<b>> /\ b \in haveData' /\ pprev[b] \in Linked'
      BY <1>0, <1>3, <2>1 DEF Linked, ParentLinked
    <3>2. Len(queue') = 1 /\ queue'[1] = b
      BY <3>1
    <3>3. IsFiniteSet(mapBlocksUnlinked')
      BY <2>1 DEF QueueInv, ParentLinked
    <3> QED
      BY <1>0, <3>1, <3>2, <3>3 DEF QueueInv
  <2>2. CASE nChainTx[pprev[b]] = 0
    <3>1. \/ mapBlocksUnlinked' = mapBlocksUnlinked
          \/ mapBlocksUnlinked' = mapBlocksUnlinked \cup {b}
      BY <2>2 DEF ParentLinked
    <3>2. IsFiniteSet(mapBlocksUnlinked')
      BY <3>1, FS_AddElement DEF QueueInv
    <3> QED
      BY <1>3, <2>2, <3>2 DEF QueueInv, TypeOK, ParentLinked
  <2> QED
    BY <2>1, <2>2
<1>7. TargetInv' /\ SequenceInv'
  BY <1>3 DEF TargetInv, SequenceInv, TypeOK
<1>8. ActiveChainIsPath' /\ ActiveChainUsable'
  BY <1>3, <1>4 DEF ActiveChainIsPath, ActiveChainUsable, Tip, tipVars
<1>9. LinkedExactly' /\ SequenceIdsDistinct'
  BY <1>3 DEF LinkedExactly, SequenceIdsDistinct
<1> QED
  BY <1>1, <1>2, <1>5, <1>6, <1>7, <1>8, <1>9

\* One turn of the loop of ReceivedBlockTransactions: the head of the queue is
\* linked with a fresh id and the blocks that wait for it enter the queue.
LEMMA LinkNextStep ==
    ASSUME IInv, NEW t \in Threads, LinkNext(t)
    PROVE  IInv'
<1> DEFINE b == Head(queue)
           children == WaitingFor(b)
<1>1. /\ queue # <<>> /\ queue \in Seq(Blocks)
      /\ b \in haveData \ {Genesis} /\ b \in Blocks
      /\ pprev[b] \in Linked
  BY DEF IInv, LinkNext, QueueInv, TypeOK
<1>2. PICK order \in SetToSeqs(children) :
         /\ queue' = Tail(queue) \o order
         /\ mapBlocksUnlinked' = mapBlocksUnlinked \ children
         /\ nChainTx' = [nChainTx EXCEPT ![b] = nChainTx[pprev[b]] + nTx(b)]
         /\ nSequenceId' = [nSequenceId EXCEPT ![b] = nBlockSequenceId]
         /\ nBlockSequenceId' = nBlockSequenceId + 1
         /\ setBlockIndexCandidates \subseteq setBlockIndexCandidates'
         /\ setBlockIndexCandidates' \subseteq setBlockIndexCandidates \cup {b}
  BY DEF LinkNext
<1>3. /\ \A c \in children : pprev[c] = b
      /\ children \subseteq haveData \ {Genesis}
      /\ IsFiniteSet(children) /\ IsFiniteSet(mapBlocksUnlinked \ children)
  BY FS_Subset DEF IInv, TypeOK, QueueInv, WaitingFor
<1> HIDE DEF b, children
<1>4. nTx(b) \in Nat /\ nChainTx[pprev[b]] \in Nat \ {0} /\ pprev[b] \in Blocks
  BY <1>1, nTxType DEF IInv, TypeOK, Linked
<1>5. /\ nChainTx \in [Blocks -> Nat] /\ nSequenceId \in [Blocks -> Nat]
      /\ nBlockSequenceId \in Nat \ {0}
  BY DEF IInv, TypeOK
<1>6. /\ nChainTx' \in [Blocks -> Nat]
      /\ nChainTx'[b] = nChainTx[pprev[b]] + nTx(b) /\ nChainTx'[b] # 0
      /\ \A c \in Blocks \ {b} : nChainTx'[c] = nChainTx[c]
  BY <1>1, <1>2, <1>4, <1>5
<1>7. /\ nSequenceId' \in [Blocks -> Nat]
      /\ nSequenceId'[b] = nBlockSequenceId
      /\ \A c \in Blocks \ {b} : nSequenceId'[c] = nSequenceId[c]
      /\ nBlockSequenceId' \in Nat \ {0}
      /\ nBlockSequenceId' = nBlockSequenceId + 1
  BY <1>1, <1>2, <1>5
<1>8. Linked' = Linked \cup {b}
  BY <1>1, <1>6 DEF Linked
<1>9. order \in Seq(Blocks) /\ \A i \in 1..Len(order) : order[i] \in children
  <2>1. Cardinality(children) \in Nat
    BY <1>3, FS_CardinalityType
  <2>2. order \in [1..Cardinality(children) -> children]
    BY <1>2 DEF SetToSeqs
  <2>3. children \subseteq Blocks
    BY <1>3 DEF IInv, TypeOK
  <2> QED
    BY <2>1, <2>2, <2>3
<1>10. /\ queue' \in Seq(Blocks)
       /\ \A i \in 1..Len(queue') : \/ \E j \in 1..Len(queue) : queue'[i] = queue[j]
                                    \/ queue'[i] \in children
  <2>1. /\ Tail(queue) \in Seq(Blocks)
        /\ \A i \in 1..Len(Tail(queue)) :
              \E j \in 1..Len(queue) : Tail(queue)[i] = queue[j]
    BY <1>1, HeadTailProperties
  <2>2. queue' = Tail(queue) \o order
    BY <1>2
  <2>3. /\ queue' \in Seq(Blocks)
        /\ Len(queue') = Len(Tail(queue)) + Len(order)
        /\ \A i \in 1..Len(queue') :
              queue'[i] = IF i <= Len(Tail(queue)) THEN Tail(queue)[i]
                                                   ELSE order[i - Len(Tail(queue))]
    BY <1>9, <2>1, <2>2, ConcatProperties
  <2>4. Len(Tail(queue)) \in Nat /\ Len(order) \in Nat
    BY <1>9, <2>1
  <2>5. ASSUME NEW i \in 1..Len(queue')
        PROVE  \/ \E j \in 1..Len(queue) : queue'[i] = queue[j]
               \/ queue'[i] \in children
    <3>1. CASE i <= Len(Tail(queue))
      BY <2>1, <2>3, <2>4, <3>1
    <3>2. CASE i > Len(Tail(queue))
      <4>1. i - Len(Tail(queue)) \in 1..Len(order)
        BY <2>3, <2>4, <3>2
      <4>2. queue'[i] = order[i - Len(Tail(queue))]
        BY <2>3, <2>4, <3>2
      <4> QED
        BY <1>9, <4>1, <4>2
    <3> QED
      BY <2>3, <2>4, <3>1, <3>2
  <2> QED
    BY <2>3, <2>5
<1>11. UNCHANGED <<mapBlockIndex, haveData, flagVars, tipVars, pindexMostWork,
                   pindexOldTip, pblock>>
  BY DEF LinkNext
<1>12. \/ queue' = <<>> /\ cs_main' = Null /\ pc' = [pc EXCEPT ![t] = "activate"]
       \/ queue' # <<>> /\ UNCHANGED <<cs_main, pc>>
  BY DEF LinkNext
<1>13. pc[t] = "link" /\ cs_main = t
  BY DEF LinkNext, IInv, LockInv, Holding
<1>14. TypeOK'
  <2>1. /\ setBlockIndexCandidates' \subseteq mapBlockIndex'
        /\ mapBlocksUnlinked' \subseteq haveData' \ {Genesis}
    BY <1>1, <1>2, <1>11 DEF IInv, TypeOK
  <2>2. /\ cs_main' \in Threads \cup {Null}
        /\ pc' \in [Threads -> {"idle", "activate", "check"} \cup Holding]
    BY <1>12 DEF IInv, TypeOK
  <2> QED
    BY <1>6, <1>7, <1>10, <1>11, <2>1, <2>2 DEF IInv, TypeOK, flagVars, tipVars
<1>15. LockInv'
  BY <1>12, <1>13, ThreadAssumption DEF IInv, LockInv, TypeOK, Holding
<1>16. Failed' = Failed /\ Invalidated' = Invalidated
  BY <1>11, <1>12, <1>13 DEF IInv, Failed, flagVars, Invalidated, TypeOK
<1>17. TreeInv'
  BY <1>8, <1>11 DEF IInv, TreeInv, ParentClosed
<1>18. QueueInv'
  <2>1. \A i \in 1..Len(queue') : /\ queue'[i] \in haveData' \ {Genesis}
                                  /\ pprev[queue'[i]] \in Linked'
    BY <1>3, <1>8, <1>10, <1>11 DEF IInv, QueueInv
  <2>2. \A u \in Threads : pc'[u] = "link" => queue' # <<>>
    BY <1>12, <1>13 DEF IInv, LockInv, TypeOK, Holding
  <2> QED
    BY <1>2, <1>3, <2>1, <2>2 DEF QueueInv
<1>19. TargetInv'
  BY <1>8, <1>11, <1>12, <1>16 DEF IInv, TargetInv, TypeOK
<1>20. SequenceInv'
  BY <1>5, <1>7 DEF IInv, SequenceInv
<1>21. ActiveChainIsPath' /\ ActiveChainUsable'
  BY <1>8, <1>11, <1>16 DEF IInv, ActiveChainIsPath, ActiveChainUsable, Tip, tipVars
<1>22. LinkedExactly'
  <2>1. Linked' \subseteq haveData' /\ setBlockIndexCandidates' \subseteq Linked'
    BY <1>1, <1>2, <1>8, <1>11 DEF IInv, LinkedExactly
  <2>2. b \in Linked => \A c \in Blocks : nChainTx'[c] = nChainTx[c]
    BY <1>1, <1>6 DEF IInv, LinkedExactly
  <2>3. pprev[b] # b
    BY <1>1, TreeAssumption
  <2>4. ASSUME NEW c \in Linked' \ {Genesis}
        PROVE  /\ pprev[c] \in Linked'
               /\ nChainTx'[c] = nChainTx'[pprev[c]] + nTx(c)
    <3>1. CASE c = b
      BY <1>1, <1>4, <1>6, <1>8, <2>3, <3>1
    <3>2. CASE c # b /\ b \in Linked
      <4>1. c \in Linked /\ pprev[c] \in Linked /\ c \in Blocks /\ pprev[c] \in Blocks
        BY <1>8, <3>2 DEF IInv, LinkedExactly, Linked
      <4> QED
        BY <1>8, <2>2, <3>2, <4>1 DEF IInv, LinkedExactly
    <3>3. CASE c # b /\ b \notin Linked
      <4>1. /\ c \in Linked /\ pprev[c] \in Linked /\ pprev[c] # b
            /\ c \in Blocks /\ pprev[c] \in Blocks
        BY <1>8, <3>3 DEF IInv, LinkedExactly, Linked
      <4> QED
        BY <1>6, <1>8, <3>3, <4>1 DEF IInv, LinkedExactly
    <3> QED
      BY <3>1, <3>2, <3>3
  <2> QED
    BY <2>1, <2>4 DEF LinkedExactly
<1>23. SequenceIdsDistinct'
  <2>1. ASSUME NEW a \in Blocks
        PROVE  /\ (nSequenceId'[a] = 0) <=> (a \notin Linked')
               /\ \A c \in Linked' \ {a} : nSequenceId'[a] # nSequenceId'[c]
    <3>1. (nSequenceId'[a] = 0) <=> (a \notin Linked')
      BY <1>5, <1>7, <1>8 DEF IInv, SequenceIdsDistinct
    <3>2. ASSUME NEW c \in Linked' \ {a}
          PROVE  nSequenceId'[a] # nSequenceId'[c]
      <4>1. c \in Blocks
        BY DEF Linked
      <4>2. CASE a = b \/ c = b
        BY <1>5, <1>7, <4>1, <4>2 DEF IInv, SequenceInv
      <4>3. CASE a # b /\ c # b
        BY <1>7, <1>8, <4>1, <4>3 DEF IInv, SequenceIdsDistinct
      <4> QED
        BY <4>2, <4>3
    <3> QED
      BY <3>1, <3>2
  <2> QED
    BY <2>1 DEF SequenceIdsDistinct
<1> QED
  BY <1>14, <1>15, <1>17, <1>18, <1>19, <1>20, <1>21, <1>22, <1>23 DEF IInv

-----------------------------------------------------------------------------
\* The steps of ActivateBestChain and of the RPCs.  None of them changes the
\* block index, and each is taken by a thread that holds cs_main or finds it
\* free (CheckLoop apart).

\* While t holds cs_main, or cs_main is free, no other thread is in a locked
\* section.
LEMMA Alone ==
    ASSUME IInv, NEW t \in Threads, cs_main \in {Null, t}
    PROVE  \A u \in Threads \ {t} : pc[u] \notin Holding
BY ThreadAssumption DEF IInv, LockInv

\* What such a step of t keeps, if it moves t to x and hands cs_main over
\* accordingly.
LEMMA Frame ==
    ASSUME IInv, NEW t \in Threads, cs_main \in {Null, t},
           NEW x \in ({"idle", "activate", "check"} \cup Holding) \ {"link"},
           pc' = [pc EXCEPT ![t] = x],
           cs_main' = IF x \in Holding THEN t ELSE Null,
           UNCHANGED <<indexVars, queue>>,
           setBlockIndexCandidates' \subseteq Linked,
           x = "step" => /\ pindexMostWork'[t] \in Linked
                         /\ Ancestors[pindexMostWork'[t]] \cap Failed' = {}
                         /\ pindexOldTip' \in Blocks,
           x = "invalidate" => pindexMostWork'[t] \in Blocks \ {Genesis}
    PROVE  /\ LockInv' /\ TreeInv' /\ QueueInv' /\ TargetInv' /\ SequenceInv'
           /\ LinkedExactly' /\ SequenceIdsDistinct'
           /\ Linked' = Linked
           /\ Invalidated' = IF x = "invalidate" THEN {pindexMostWork'[t]} ELSE {}
           /\ pc' \in [Threads -> {"idle", "activate", "check"} \cup Holding]
           /\ cs_main' \in Threads \cup {Null}
           /\ setBlockIndexCandidates' \subseteq mapBlockIndex'
<1>1. pc \in [Threads -> {"idle", "activate", "check"} \cup Holding]
  BY DEF IInv, TypeOK
<1>2. /\ pc' \in [Threads -> {"idle", "activate", "check"} \cup Holding]
      /\ pc'[t] = x
      /\ \A u \in Threads \ {t} : pc'[u] = pc[u] /\ pc'[u] \notin Holding
  BY <1>1, Alone
<1>3. UNCHANGED <<mapBlockIndex, haveData, nChainTx, nSequenceId,
                  nBlockSequenceId, mapBlocksUnlinked>>
  BY DEF indexVars
<1>4. Linked' = Linked
  BY <1>3 DEF Linked
<1>5. LockInv'
  BY <1>2, ThreadAssumption DEF LockInv
<1>6. TreeInv' /\ SequenceInv' /\ SequenceIdsDistinct'
  BY <1>3, <1>4 DEF IInv, TreeInv, SequenceInv, SequenceIdsDistinct
<1>7. LinkedExactly'
  BY <1>3, <1>4 DEF IInv, LinkedExactly
<1>8. QueueInv'
  BY <1>2, <1>3, <1>4 DEF IInv, QueueInv, Holding
<1>9. TargetInv'
  BY <1>2, <1>4 DEF TargetInv, Holding
<1>10. Invalidated' = IF x = "invalidate" THEN {pindexMostWork'[t]} ELSE {}
  BY <1>2 DEF Invalidated, Holding
<1>11. setBlockIndexCandidates' \subseteq mapBlockIndex'
  BY <1>3 DEF IInv, TypeOK, LinkedExactly
<1> QED
  BY <1>2, <1>4, <1>5, <1>6, <1>7, <1>8, <1>9, <1>10, <1>11

\* ActiveChainUsable in terms of the set of active blocks
LEMMA UsableActive ==
    ActiveChainUsable <=> /\ Active \subseteq haveData \cap Linked
                          /\ Active \cap Failed \subseteq Invalidated
BY DEF ActiveChainUsable, Active

\* An active block is not failed unless an invalidation runs.
LEMMA ActiveUnfailed ==
    ASSUME IInv, NEW t \in Threads, cs_main \in {Null, t}, pc[t] # "invalidate"
    PROVE  Active \cap Failed = {}
<1>1. Invalidated = {}
  BY Alone DEF Invalidated, Holding
<1> QED
  BY <1>1, UsableActive DEF IInv

\* At the top of the loop of ActivateBestChain no other thread holds cs_main.
LEMMA AtFindLock ==
    ASSUME IInv, NEW t \in Threads, AtFind(t)
    PROVE  cs_main \in {Null, t} /\ pc[t] \in {"activate", "find"}
BY DEF IInv, LockInv, AtFind, Holding

\* FindMostWorkChain marks and drops a branch above a failed block; none of the
\* blocks it marks is active.
LEMMA DropFailedBranchStep ==
    ASSUME IInv, NEW t \in Threads, DropFailedBranch(t)
    PROVE  IInv'
<1>1. cs_main \in {Null, t} /\ pc[t] # "invalidate"
  BY AtFindLock DEF DropFailedBranch
<1>2a. PICK c \in Blocks :
         /\ BestCandidate(c)
         /\ \E f \in FailedBelow(c) :
               /\ failedChild' = failedChild \cup (DownTo(f, c) \ {f})
               /\ setBlockIndexCandidates' = setBlockIndexCandidates \ DownTo(f, c)
  BY DEF DropFailedBranch
<1>2b. PICK f \in FailedBelow(c) :
         /\ failedChild' = failedChild \cup (DownTo(f, c) \ {f})
         /\ setBlockIndexCandidates' = setBlockIndexCandidates \ DownTo(f, c)
  BY <1>2a
<1> DEFINE above == DownTo(f, c) \ {f}
<1>2. /\ above \in SUBSET Ancestors[c]
      /\ c \in setBlockIndexCandidates
      /\ \A a \in above : f \in Ancestors[a]
      /\ failedChild' = failedChild \cup above
      /\ setBlockIndexCandidates' \subseteq setBlockIndexCandidates
  BY <1>2a, <1>2b DEF BestCandidate, DownTo
<1> HIDE DEF above
<1>3. /\ UNCHANGED <<indexVars, failedValid, tipVars, localVars>>
      /\ cs_main' = t /\ pc' = [pc EXCEPT ![t] = "find"]
  BY DEF DropFailedBranch
<1>4. /\ LockInv' /\ TreeInv' /\ QueueInv' /\ TargetInv' /\ SequenceInv'
      /\ LinkedExactly' /\ SequenceIdsDistinct' /\ Linked' = Linked
      /\ Invalidated' = {}
      /\ pc' \in [Threads -> {"idle", "activate", "check"} \cup Holding]
      /\ cs_main' \in Threads \cup {Null}
      /\ setBlockIndexCandidates' \subseteq mapBlockIndex'
  <2> DEFINE x == "find"
  <2>1. x \in ({"idle", "activate", "check"} \cup Holding) \ {"link"} /\ x \in Holding
    BY DEF Holding
  <2>2. setBlockIndexCandidates' \subseteq Linked
    BY <1>2 DEF IInv, LinkedExactly
  <2>3. UNCHANGED <<indexVars, queue>>
    BY <1>3 DEF localVars
  <2> QED
    BY <1>1, <1>3, <2>1, <2>2, <2>3, Frame
<1>5. c \in mapBlockIndex /\ mapBlockIndex \subseteq Blocks /\ ParentClosed(mapBlockIndex)
  BY <1>2 DEF IInv, TypeOK, TreeInv
<1>6. above \subseteq mapBlockIndex
  BY <1>2, <1>5, AncestorsInClosed
<1>7. TypeOK'
  BY <1>3, <1>4, <1>2, <1>6 DEF IInv, TypeOK, indexVars, tipVars, localVars
<1>8. ActiveChainIsPath'
  BY <1>3 DEF IInv, ActiveChainIsPath, tipVars, Tip
<1>9. above \cap Active = {}
  <2> SUFFICES ASSUME NEW a \in above \cap Active
               PROVE  FALSE
    OBVIOUS
  <2>1. Active \in SUBSET Blocks /\ ParentClosed(Active)
    BY ActiveProperties DEF IInv
  <2>2. f \in Active
    BY <1>2, <2>1, AncestorsInClosed
  <2>3. f \in Blocks /\ ~InActive(f)
    BY <1>2, AncestorsProperties DEF FailedBelow
  <2> QED
    BY <2>2, <2>3, ActiveProperties DEF IInv
<1>10. ActiveChainUsable'
  <2>1. Active' = Active /\ haveData' = haveData /\ failedValid' = failedValid
    BY <1>3 DEF Active, tipVars, indexVars
  <2>2. Active \subseteq haveData \cap Linked
    BY UsableActive DEF IInv
  <2>3. Active \cap Failed' = {}
    BY <1>1, <1>2, <1>9, <2>1, ActiveUnfailed DEF Failed
  <2>4. /\ Active' \subseteq haveData' \cap Linked'
        /\ Active' \cap Failed' \subseteq Invalidated'
    BY <1>4, <2>1, <2>2, <2>3
  <2> QED
    BY <2>4 DEF ActiveChainUsable, Active
<1> QED
  BY <1>4, <1>7, <1>8, <1>10 DEF IInv

\* The same with the remaining conjuncts: what a step has to show about the
\* chain, the flags and the locals.
LEMMA FrameAll ==
    ASSUME IInv, NEW t \in Threads, cs_main \in {Null, t},
           NEW x \in ({"idle", "activate", "check"} \cup Holding) \ {"link"},
           pc' = [pc EXCEPT ![t] = x],
           cs_main' = IF x \in Holding THEN t ELSE Null,
           UNCHANGED <<indexVars, queue>>,
           setBlockIndexCandidates' \subseteq Linked,
           x = "step" => /\ pindexMostWork'[t] \in Linked
                         /\ Ancestors[pindexMostWork'[t]] \cap Failed' = {}
                         /\ pindexOldTip' \in Blocks,
           x = "invalidate" => pindexMostWork'[t] \in Blocks \ {Genesis},
           chainActive' \in Seq(Blocks) /\ chainActive' # <<>>,
           ActiveChainIsPath',
           Active' \subseteq haveData \cap Linked,
           Active' \cap Failed' \subseteq
               (IF x = "invalidate" THEN {pindexMostWork'[t]} ELSE {}),
           failedValid' \subseteq mapBlockIndex,
           failedChild' \subseteq mapBlockIndex,
           bestBlock' \in Blocks, qmempool' \subseteq Data, txIndex' \subseteq Data,
           pindexMostWork' \in [Threads -> Blocks \cup {Null}],
           pindexOldTip' \in Blocks \cup {Null},
           pblock' \in [Threads -> Blocks \cup {Null}]
    PROVE  IInv'
<1>1. /\ LockInv' /\ TreeInv' /\ QueueInv' /\ TargetInv' /\ SequenceInv'
      /\ LinkedExactly' /\ SequenceIdsDistinct' /\ Linked' = Linked
      /\ Invalidated' = IF x = "invalidate" THEN {pindexMostWork'[t]} ELSE {}
      /\ pc' \in [Threads -> {"idle", "activate", "check"} \cup Holding]
      /\ cs_main' \in Threads \cup {Null}
      /\ setBlockIndexCandidates' \subseteq mapBlockIndex'
  BY Frame
<1>2. UNCHANGED <<mapBlockIndex, haveData, nChainTx, nSequenceId,
                  nBlockSequenceId, mapBlocksUnlinked, queue>>
  BY DEF indexVars
<1>3. TypeOK'
  BY <1>1, <1>2 DEF IInv, TypeOK
<1>4. Active' \subseteq haveData' \cap Linked' /\ Active' \cap Failed' \subseteq Invalidated'
  BY <1>1, <1>2
<1>5. ActiveChainUsable'
  BY <1>4 DEF ActiveChainUsable, Active
<1> QED
  BY <1>1, <1>3, <1>5 DEF IInv

\* ... and when the chain stays as it is.
LEMMA FrameStill ==
    ASSUME IInv, NEW t \in Threads, cs_main \in {Null, t},
           NEW x \in ({"idle", "activate", "check"} \cup Holding) \ {"link"},
           pc' = [pc EXCEPT ![t] = x],
           cs_main' = IF x \in Holding THEN t ELSE Null,
           UNCHANGED <<indexVars, queue, tipVars>>,
           setBlockIndexCandidates' \subseteq Linked,
           x = "step" => /\ pindexMostWork'[t] \in Linked
                         /\ Ancestors[pindexMostWork'[t]] \cap Failed' = {}
                         /\ pindexOldTip' \in Blocks,
           x = "invalidate" => pindexMostWork'[t] \in Blocks \ {Genesis},
           Active \cap Failed' \subseteq
               (IF x = "invalidate" THEN {pindexMostWork'[t]} ELSE {}),
           failedValid' \subseteq mapBlockIndex,
           failedChild' \subseteq mapBlockIndex,
           pindexMostWork' \in [Threads -> Blocks \cup {Null}],
           pindexOldTip' \in Blocks \cup {Null},
           pblock' \in [Threads -> Blocks \cup {Null}]
    PROVE  IInv'
<1>1. UNCHANGED <<chainActive, bestBlock, qmempool, txIndex>>
  BY DEF tipVars
<1>2. Active' = Active
  BY <1>1 DEF Active
<1>3. /\ chainActive' \in Seq(Blocks) /\ chainActive' # <<>>
      /\ bestBlock' \in Blocks /\ qmempool' \subseteq Data /\ txIndex' \subseteq Data
  BY <1>1 DEF IInv, TypeOK
<1>4. ActiveChainIsPath'
  BY <1>1 DEF IInv, ActiveChainIsPath, Tip
<1>5. /\ Active' \subseteq haveData \cap Linked
      /\ Active' \cap Failed' \subseteq
            (IF x = "invalidate" THEN {pindexMostWork'[t]} ELSE {})
  BY <1>2, UsableActive DEF IInv
<1> QED
  BY <1>3, <1>4, <1>5, FrameAll

\* ActivateBestChain returns with the tip as it was.
LEMMA NothingToDoStep ==
    ASSUME IInv, NEW t \in Threads, NothingToDo(t)
    PROVE  IInv'
<1>1. cs_main \in {Null, t} /\ pc[t] # "invalidate"
  BY AtFindLock DEF NothingToDo
<1> DEFINE x == "idle"
<1>2. /\ x \in ({"idle", "activate", "check"} \cup Holding) \ {"link"}
      /\ x \notin Holding /\ x # "step" /\ x # "invalidate"
  BY DEF Holding
<1>3. /\ pc' = [pc EXCEPT ![t] = x] /\ cs_main' = Null
      /\ UNCHANGED <<indexVars, queue, tipVars, setBlockIndexCandidates,
                     failedValid, failedChild, pindexMostWork, pindexOldTip>>
      /\ pblock' = [pblock EXCEPT ![t] = Null]
  BY DEF NothingToDo, Return, flagVars
<1>4. /\ setBlockIndexCandidates' \subseteq Linked
      /\ failedValid' \subseteq mapBlockIndex /\ failedChild' \subseteq mapBlockIndex
      /\ pindexMostWork' \in [Threads -> Blocks \cup {Null}]
      /\ pindexOldTip' \in Blocks \cup {Null}
      /\ pblock' \in [Threads -> Blocks \cup {Null}]
  BY <1>3 DEF IInv, TypeOK, LinkedExactly
<1>5. Active \cap Failed' = {}
  BY <1>1, <1>3, ActiveUnfailed DEF Failed
<1> HIDE DEF x
<1> QED
  BY <1>1, <1>2, <1>3, <1>4, <1>5, FrameStill

\* ActivateBestChainStep starts towards a linked candidate with no failed
\* ancestor.
LEMMA BeginStepStep ==
    ASSUME IInv, NEW t \in Threads, BeginStep(t)
    PROVE  IInv'
<1>1. cs_main \in {Null, t} /\ pc[t] # "invalidate"
  BY AtFindLock DEF BeginStep
<1> DEFINE x == "step"
<1>2. /\ x \in ({"idle", "activate", "check"} \cup Holding) \ {"link"}
      /\ x \in Holding /\ x # "invalidate"
  BY DEF Holding
<1>3. PICK c \in Blocks : /\ c \in setBlockIndexCandidates
                          /\ FailedBelow(c) = {}
                          /\ pindexMostWork' = [pindexMostWork EXCEPT ![t] = c]
  BY DEF BeginStep, BestCandidate
<1>4. /\ pc' = [pc EXCEPT ![t] = x] /\ cs_main' = t
      /\ UNCHANGED <<indexVars, queue, tipVars, setBlockIndexCandidates,
                     failedValid, failedChild, pblock>>
      /\ pindexOldTip' = Tip
  BY DEF BeginStep, flagVars
<1>5. Tip \in Blocks
  BY ActiveProperties DEF IInv
<1>6. /\ setBlockIndexCandidates' \subseteq Linked
      /\ failedValid' \subseteq mapBlockIndex /\ failedChild' \subseteq mapBlockIndex
      /\ pindexMostWork' \in [Threads -> Blocks \cup {Null}]
      /\ pindexOldTip' \in Blocks
      /\ pblock' \in [Threads -> Blocks \cup {Null}]
  BY <1>3, <1>4, <1>5 DEF IInv, TypeOK, LinkedExactly
<1>7. Active \cap Failed = {} /\ Active \cap Failed' = {}
  BY <1>1, <1>4, ActiveUnfailed DEF Failed
<1>8. pindexMostWork'[t] = c /\ c \in Linked
  BY <1>3 DEF IInv, TypeOK, LinkedExactly
<1>9. Ancestors[c] \cap Failed' = {}
  <2> SUFFICES ASSUME NEW a \in Ancestors[c], a \in Failed'
               PROVE  FALSE
    OBVIOUS
  <2>1. a \in Blocks /\ a \in Failed
    BY <1>4, AncestorsProperties DEF Failed
  <2>2. InActive(a)
    BY <1>3, <2>1 DEF FailedBelow
  <2> QED
    BY <1>7, <2>1, <2>2, ActiveProperties DEF IInv
<1> HIDE DEF x
<1> QED
  BY <1>1, <1>2, <1>4, <1>6, <1>7, <1>8, <1>9, FrameStill

\* ConnectBlock rejects a block that is not yet active.
LEMMA StepConnectFailsStep ==
    ASSUME IInv, NEW t \in Threads, StepConnectFails(t)
    PROVE  IInv'
<1>1. cs_main = t /\ pc[t] = "step"
  BY DEF StepConnectFails, IInv, LockInv, Holding
<1> DEFINE x == "check"
<1>2. /\ x \in ({"idle", "activate", "check"} \cup Holding) \ {"link"}
      /\ x \notin Holding /\ x # "step" /\ x # "invalidate"
  BY DEF Holding
<1>3. PICK b \in FutureStamped :
        /\ NextToConnect(t, b)
        /\ failedValid' = failedValid \cup {b}
        /\ setBlockIndexCandidates' = setBlockIndexCandidates \ {b}
  BY DEF StepConnectFails
<1>4. /\ pc' = [pc EXCEPT ![t] = x] /\ cs_main' = Null /\ pindexOldTip' = Null
      /\ UNCHANGED <<indexVars, queue, tipVars, failedChild, pindexMostWork, pblock>>
  BY DEF StepConnectFails, EndStep
<1>5. b \in Blocks \ {Genesis} /\ pprev[b] = Tip /\ b \in Ancestors[pindexMostWork[t]]
  BY <1>3, ThreadAssumption DEF NextToConnect
<1>6. b \in mapBlockIndex
  <2>1. pindexMostWork[t] \in mapBlockIndex /\ ParentClosed(mapBlockIndex)
        /\ mapBlockIndex \in SUBSET Blocks
    BY <1>1 DEF IInv, TargetInv, LinkedExactly, TypeOK, TreeInv
  <2> QED
    BY <1>5, <2>1, AncestorsInClosed
<1>7. b \notin Active
  <2> SUFFICES ASSUME NEW i \in 1..Len(chainActive), chainActive[i] = b
               PROVE  FALSE
    BY DEF Active
  <2>1. nHeight[b] = i - 1 /\ nHeight[Tip] = Len(chainActive) - 1
        /\ Len(chainActive) \in Nat
    BY ActiveProperties DEF IInv, ActiveChainIsPath, Tip
  <2>2. nHeight[b] = nHeight[Tip] + 1
    BY <1>5, TreeAssumption
  <2> QED
    BY <2>1, <2>2
<1>8. Active \cap Failed' = {}
  BY <1>1, <1>3, <1>4, <1>7, ActiveUnfailed DEF Failed
<1>9. /\ setBlockIndexCandidates' \subseteq Linked
      /\ failedValid' \subseteq mapBlockIndex /\ failedChild' \subseteq mapBlockIndex
      /\ pindexMostWork' \in [Threads -> Blocks \cup {Null}]
      /\ pindexOldTip' \in Blocks \cup {Null}
      /\ pblock' \in [Threads -> Blocks \cup {Null}]
  BY <1>3, <1>4, <1>6 DEF IInv, TypeOK, LinkedExactly
<1> HIDE DEF x
<1> QED
  BY <1>1, <1>2, <1>4, <1>8, <1>9, FrameStill

\* InvalidateBlock marks its block and keeps cs_main.
LEMMA InvalidateBlockStep ==
    ASSUME IInv, NEW t \in Threads, NEW b \in Named, InvalidateBlock(t, b)
    PROVE  IInv'
<1>1. cs_main = Null /\ pc[t] # "invalidate" /\ b \in Blocks \ {Genesis}
  BY ThreadAssumption DEF InvalidateBlock
<1> DEFINE x == "invalidate"
<1>2. /\ x \in ({"idle", "activate", "check"} \cup Holding) \ {"link"}
      /\ x \in Holding /\ x # "step"
  BY DEF Holding
<1>3. /\ pc' = [pc EXCEPT ![t] = x] /\ cs_main' = t
      /\ UNCHANGED <<indexVars, queue, tipVars, failedChild, pindexOldTip, pblock>>
      /\ failedValid' = failedValid \cup {b}
      /\ setBlockIndexCandidates' = setBlockIndexCandidates \ {b}
      /\ pindexMostWork' = [pindexMostWork EXCEPT ![t] = b]
  BY DEF InvalidateBlock
<1>4. /\ setBlockIndexCandidates' \subseteq Linked
      /\ failedValid' \subseteq mapBlockIndex /\ failedChild' \subseteq mapBlockIndex
      /\ pindexMostWork' \in [Threads -> Blocks \cup {Null}]
      /\ pindexMostWork'[t] = b
      /\ pindexOldTip' \in Blocks \cup {Null}
      /\ pblock' \in [Threads -> Blocks \cup {Null}]
  BY <1>1, <1>3 DEF IInv, TypeOK, LinkedExactly, InvalidateBlock
<1>5. Active \cap Failed' \subseteq {b}
  BY <1>1, <1>3, ActiveUnfailed DEF Failed
<1> HIDE DEF x
<1> QED
  BY <1>1, <1>2, <1>3, <1>4, <1>5, FrameStill DEF x

\* ReconsiderBlock only clears flags and adds linked candidates.
LEMMA ReconsiderBlockStep ==
    ASSUME IInv, NEW t \in Threads, NEW b \in Named, ReconsiderBlock(t, b)
    PROVE  IInv'
<1>1. cs_main = Null /\ pc[t] # "invalidate"
  BY DEF ReconsiderBlock
<1> DEFINE x == "activate"
<1>2. /\ x \in ({"idle", "activate", "check"} \cup Holding) \ {"link"}
      /\ x \notin Holding /\ x # "step" /\ x # "invalidate"
  BY DEF Holding
<1>3. /\ pc' = [pc EXCEPT ![t] = x] /\ cs_main' = Null
      /\ UNCHANGED <<indexVars, queue, tipVars, pindexMostWork, pindexOldTip, pblock>>
      /\ failedValid' \subseteq failedValid /\ failedChild' \subseteq failedChild
      /\ setBlockIndexCandidates' \subseteq setBlockIndexCandidates \cup Linked
  <2>1. {d \in {e \in Failed : b \in Ancestors[e]} \cap haveData :
             nChainTx[d] # 0 /\ Worse(Tip, d)} \subseteq Linked
    BY DEF Linked, IInv, TypeOK
  <2> QED
    BY <1>1, <2>1 DEF ReconsiderBlock, localVars
<1>4. /\ setBlockIndexCandidates' \subseteq Linked
      /\ failedValid' \subseteq mapBlockIndex /\ failedChild' \subseteq mapBlockIndex
      /\ pindexMostWork' \in [Threads -> Blocks \cup {Null}]
      /\ pindexOldTip' \in Blocks \cup {Null}
      /\ pblock' \in [Threads -> Blocks \cup {Null}]
  BY <1>3 DEF IInv, TypeOK, LinkedExactly
<1>5. Active \cap Failed' = {}
  BY <1>1, <1>3, ActiveUnfailed DEF Failed
<1> HIDE DEF x
<1> QED
  BY <1>1, <1>2, <1>3, <1>4, <1>5, FrameStill

\* InvalidateBlock re-admits linked candidates once its block is off the chain.
LEMMA InvalidateEndStep ==
    ASSUME IInv, NEW t \in Threads, InvalidateEnd(t)
    PROVE  IInv'
<1>1. cs_main = t /\ pc[t] = "invalidate"
  BY DEF InvalidateEnd, IInv, LockInv, Holding
<1> DEFINE x == "activate"
<1>2. /\ x \in ({"idle", "activate", "check"} \cup Holding) \ {"link"}
      /\ x \notin Holding /\ x # "step" /\ x # "invalidate"
  BY DEF Holding
<1>3. /\ pc' = [pc EXCEPT ![t] = x] /\ cs_main' = Null
      /\ UNCHANGED <<indexVars, queue, tipVars, failedValid, failedChild,
                     pindexOldTip, pblock>>
      /\ setBlockIndexCandidates' \subseteq setBlockIndexCandidates \cup Linked
      /\ pindexMostWork' = [pindexMostWork EXCEPT ![t] = Null]
  <2>1. Readmitted \subseteq Linked
    BY DEF Readmitted, Linked, IInv, TypeOK
  <2> QED
    BY <2>1 DEF InvalidateEnd, flagVars
<1>4. /\ setBlockIndexCandidates' \subseteq Linked
      /\ failedValid' \subseteq mapBlockIndex /\ failedChild' \subseteq mapBlockIndex
      /\ pindexMostWork' \in [Threads -> Blocks \cup {Null}]
      /\ pindexOldTip' \in Blocks \cup {Null}
      /\ pblock' \in [Threads -> Blocks \cup {Null}]
  BY <1>3 DEF IInv, TypeOK, LinkedExactly
<1>5. Active \cap Failed' = {}
  <2>1. Invalidated = {pindexMostWork[t]}
    BY <1>1, Alone DEF Invalidated, Holding
  <2>2. pindexMostWork[t] \notin Active
    BY <1>1, ActiveProperties DEF InvalidateEnd, IInv, TargetInv
  <2>3. Failed' = Failed
    BY <1>3 DEF Failed
  <2> QED
    BY <2>1, <2>2, <2>3, UsableActive DEF IInv
<1> HIDE DEF x
<1> QED
  BY <1>1, <1>2, <1>3, <1>4, <1>5, FrameStill

\* Disconnecting the tip takes it, and nothing else, from the active blocks.
LEMMA DisconnectTipActive ==
    ASSUME IInv, Tip # Genesis, DisconnectTip
    PROVE  Active' = Active \ {Tip}
<1>1. /\ Len(chainActive) \in Nat \ {0}
      /\ Len(chainActive') = Len(chainActive) - 1
      /\ \A i \in 1..Len(chainActive') : chainActive'[i] = chainActive[i]
  BY DisconnectTipPath, ActiveProperties DEF IInv
<1>2. \A i \in 1..(Len(chainActive) - 1) : chainActive[i] # Tip
  <2> SUFFICES ASSUME NEW i \in 1..(Len(chainActive) - 1), chainActive[i] = Tip
               PROVE  FALSE
    OBVIOUS
  <2>1. nHeight[chainActive[i]] = i - 1 /\ nHeight[Tip] = Len(chainActive) - 1
    BY <1>1 DEF IInv, ActiveChainIsPath, Tip
  <2> QED
    BY <1>1, <2>1
<1>3. Active' = {chainActive[i] : i \in 1..(Len(chainActive) - 1)}
  BY <1>1 DEF Active
<1>4. Active = {chainActive[i] : i \in 1..(Len(chainActive) - 1)} \cup {Tip}
  <2>1. 1..Len(chainActive) = 1..(Len(chainActive) - 1) \cup {Len(chainActive)}
    BY <1>1
  <2> QED
    BY <2>1 DEF Active, Tip
<1> QED
  BY <1>2, <1>3, <1>4

\* InvalidateBlock disconnects the tip: the block it marks leaves the chain in
\* the same step.
LEMMA InvalidateWalkStep ==
    ASSUME IInv, NEW t \in Threads, InvalidateWalk(t)
    PROVE  IInv'
<1>1. cs_main = t /\ pc[t] = "invalidate"
  BY DEF InvalidateWalk, IInv, LockInv, Holding
<1> DEFINE x == "invalidate"
<1>2. /\ x \in ({"idle", "activate", "check"} \cup Holding) \ {"link"}
      /\ x \in Holding /\ x # "step"
  BY DEF Holding
<1>3. pindexMostWork[t] \in Blocks \ {Genesis} /\ pindexMostWork[t] \in Active
  BY <1>1, ActiveProperties DEF InvalidateWalk, IInv, TargetInv
<1>4. Tip # Genesis
  <2>1. Len(chainActive) \in Nat \ {0} /\ Len(chainActive) # 1
    BY <1>3, ActiveProperties DEF Active, IInv, ActiveChainIsPath
  <2>2. Len(chainActive) \in 1..Len(chainActive) /\ Len(chainActive) > 1
    <3>1. \A n \in Nat \ {0} : n # 1 => n \in 1..n /\ n > 1
      OBVIOUS
    <3> QED
      BY <2>1, <3>1, Zenon
  <2>3. \A i \in 1..Len(chainActive) : i > 1 => chainActive[i] # Genesis
    BY DEF IInv, ActiveChainIsPath
  <2> QED
    BY <2>2, <2>3 DEF Tip
<1>5. /\ pc' = [pc EXCEPT ![t] = x] /\ cs_main' = t
      /\ UNCHANGED <<indexVars, queue, failedValid, pindexMostWork,
                     pindexOldTip, pblock, txIndex>>
      /\ failedChild' = failedChild \cup {Tip}
      /\ setBlockIndexCandidates' = setBlockIndexCandidates \ {Tip}
      /\ DisconnectTip
  BY <1>1 DEF InvalidateWalk, localVars, DisconnectTip, IInv, TypeOK
<1>6. Tip \in mapBlockIndex
  BY ActiveProperties, UsableActive DEF IInv, TypeOK
<1>7. /\ setBlockIndexCandidates' \subseteq Linked
      /\ failedValid' \subseteq mapBlockIndex /\ failedChild' \subseteq mapBlockIndex
      /\ pindexMostWork' \in [Threads -> Blocks \cup {Null}]
      /\ pindexOldTip' \in Blocks \cup {Null}
      /\ pblock' \in [Threads -> Blocks \cup {Null}]
      /\ txIndex' \subseteq Data
      /\ pindexMostWork'[t] \in Blocks \ {Genesis}
  BY <1>3, <1>5, <1>6 DEF IInv, TypeOK, LinkedExactly
<1>8. /\ chainActive' \in Seq(Blocks) /\ chainActive' # <<>>
      /\ ActiveChainIsPath' /\ bestBlock' \in Blocks /\ qmempool' \subseteq Data
  BY <1>4, <1>5, DisconnectTipPath DEF IInv
<1>9. /\ Active' \subseteq haveData \cap Linked
      /\ Active' \cap Failed' \subseteq {pindexMostWork'[t]}
  <2>1. Active' = Active \ {Tip}
    BY <1>4, <1>5, DisconnectTipActive
  <2>2. Failed' = Failed \cup {Tip}
    BY <1>5 DEF Failed
  <2>3. Invalidated = {pindexMostWork[t]}
    BY <1>1, Alone DEF Invalidated, Holding
  <2> QED
    BY <1>5, <2>1, <2>2, <2>3, UsableActive DEF IInv
<1> HIDE DEF x
<1> QED
  BY <1>1, <1>2, <1>5, <1>7, <1>8, <1>9, FrameAll DEF x

\* ActivateBestChainStep disconnects a tip that is not below its target.
LEMMA StepDisconnectStep ==
    ASSUME IInv, NEW t \in Threads, StepDisconnect(t)
    PROVE  IInv'
<1>1. cs_main = t /\ pc[t] = "step"
  BY DEF StepDisconnect, IInv, LockInv, Holding
<1>2. /\ pindexMostWork[t] \in Linked /\ pindexMostWork[t] \in Blocks
      /\ Ancestors[pindexMostWork[t]] \cap Failed = {}
      /\ pindexOldTip \in Blocks
  BY <1>1 DEF IInv, TargetInv, Linked
<1>3. Tip # Genesis
  BY <1>2, AncestorsProperties DEF StepDisconnect
<1>4. /\ UNCHANGED <<indexVars, queue, failedValid, failedChild,
                     setBlockIndexCandidates, pindexMostWork, pblock, txIndex>>
      /\ DisconnectTip
  BY DEF StepDisconnect, flagVars, DisconnectTip
<1>5. PICK x \in {"step", "check"} :
        /\ pc' = [pc EXCEPT ![t] = x]
        /\ cs_main' = IF x \in Holding THEN t ELSE Null
        /\ pindexOldTip' \in Blocks \cup {Null}
        /\ x = "step" => pindexOldTip' \in Blocks
  <2>1. CASE bestBlock' = pindexMostWork[t]
    BY <2>1 DEF StepDisconnect, EndStep, Holding
  <2>2. CASE bestBlock' # pindexMostWork[t]
    BY <1>1, <1>2, <2>2 DEF StepDisconnect, Holding, IInv, TypeOK
  <2> QED
    BY <2>1, <2>2
<1>6. /\ setBlockIndexCandidates' \subseteq Linked
      /\ failedValid' \subseteq mapBlockIndex /\ failedChild' \subseteq mapBlockIndex
      /\ pindexMostWork' \in [Threads -> Blocks \cup {Null}]
      /\ pblock' \in [Threads -> Blocks \cup {Null}]
      /\ txIndex' \subseteq Data
      /\ Failed' = Failed
  BY <1>4 DEF IInv, TypeOK, LinkedExactly, Failed
<1>7. /\ chainActive' \in Seq(Blocks) /\ chainActive' # <<>>
      /\ ActiveChainIsPath' /\ bestBlock' \in Blocks /\ qmempool' \subseteq Data
  BY <1>3, <1>4, DisconnectTipPath DEF IInv
<1>8. Active' \subseteq haveData \cap Linked /\ Active' \cap Failed' = {}
  <2>1. Active' \subseteq Active
    BY <1>3, <1>4, DisconnectTipActive
  <2> QED
    BY <1>1, <1>6, <2>1, UsableActive, ActiveUnfailed DEF IInv
<1>9. x \in ({"idle", "activate", "check"} \cup Holding) \ {"link"} /\ x # "invalidate"
  BY DEF Holding
<1> QED
  BY <1>1, <1>2, <1>4, <1>5, <1>6, <1>7, <1>8, <1>9, FrameAll

\* ActivateBestChainStep connects the next block on the way to its target, which
\* is linked and not failed.
LEMMA StepConnectStep ==
    ASSUME IInv, NEW t \in Threads, StepConnect(t)
    PROVE  IInv'
<1>1. cs_main = t /\ pc[t] = "step"
  BY DEF StepConnect, IInv, LockInv, Holding
<1>2. /\ pindexMostWork[t] \in Linked /\ pindexMostWork[t] \in Blocks
      /\ Ancestors[pindexMostWork[t]] \cap Failed = {}
      /\ pindexOldTip \in Blocks
  BY <1>1 DEF IInv, TargetInv, Linked
<1>3. PICK b \in Blocks :
        /\ NextToConnect(t, b)
        /\ ConnectTip(b)
        /\ \/ EndStep(t)
           \/ UNCHANGED <<cs_main, pc, pindexOldTip>>
  BY DEF StepConnect
<1>4. b \in Blocks \ {Genesis} /\ pprev[b] = Tip /\ b \in Ancestors[pindexMostWork[t]]
  BY <1>3 DEF NextToConnect
<1>5. UNCHANGED <<indexVars, queue, failedValid, failedChild,
                  setBlockIndexCandidates, pindexMostWork, pblock>>
  BY DEF StepConnect, flagVars
<1>6. PICK x \in {"step", "check"} :
        /\ pc' = [pc EXCEPT ![t] = x]
        /\ cs_main' = IF x \in Holding THEN t ELSE Null
        /\ pindexOldTip' \in Blocks \cup {Null}
        /\ x = "step" => pindexOldTip' \in Blocks
  <2>1. CASE EndStep(t)
    BY <2>1 DEF EndStep, Holding
  <2>2. CASE UNCHANGED <<cs_main, pc, pindexOldTip>>
    BY <1>1, <1>2, <2>2 DEF Holding, IInv, TypeOK
  <2> QED
    BY <1>3, <2>1, <2>2
<1>7. /\ setBlockIndexCandidates' \subseteq Linked
      /\ failedValid' \subseteq mapBlockIndex /\ failedChild' \subseteq mapBlockIndex
      /\ pindexMostWork' \in [Threads -> Blocks \cup {Null}]
      /\ pblock' \in [Threads -> Blocks \cup {Null}]
      /\ Failed' = Failed
  BY <1>5 DEF IInv, TypeOK, LinkedExactly, Failed
<1>8. /\ chainActive' \in Seq(Blocks) /\ chainActive' # <<>>
      /\ Len(chainActive') = Len(chainActive) + 1
      /\ \A i \in 1..Len(chainActive) : chainActive'[i] = chainActive[i]
      /\ chainActive'[Len(chainActive')] = b
      /\ ActiveChainIsPath' /\ bestBlock' \in Blocks
      /\ qmempool' \subseteq Data /\ txIndex' \subseteq Data
  BY <1>3, <1>4, ConnectTipPath DEF IInv
<1>9. Active' \subseteq haveData \cap Linked /\ Active' \cap Failed' = {}
  <2>1. Active' \subseteq Active \cup {b}
    BY <1>8, ActiveProperties DEF Active, IInv
  <2>2. b \in Linked /\ b \in haveData
    <3>1. Linked \in SUBSET Blocks /\ ParentClosed(Linked) /\ Linked \subseteq haveData
      BY DEF IInv, LinkedExactly, ParentClosed, Linked
    <3> QED
      BY <1>2, <1>4, <3>1, AncestorsInClosed
  <2>3. b \notin Failed
    BY <1>2, <1>4
  <2> QED
    BY <1>1, <1>7, <2>1, <2>2, <2>3, UsableActive, ActiveUnfailed DEF IInv
<1>10. x \in ({"idle", "activate", "check"} \cup Holding) \ {"link"} /\ x # "invalidate"
  BY DEF Holding
<1> QED
  BY <1>1, <1>2, <1>5, <1>6, <1>7, <1>8, <1>9, <1>10, FrameAll

-----------------------------------------------------------------------------
\* The steps that need no cs_main

LEMMA CheckLoopStep ==
    ASSUME IInv, NEW t \in Threads, CheckLoop(t)
    PROVE  IInv'
<1> USE DEF IInv, CheckLoop
<1>1. /\ UNCHANGED <<mapBlockIndex, haveData, nChainTx, nSequenceId,
                     nBlockSequenceId, mapBlocksUnlinked, failedValid,
                     failedChild, setBlockIndexCandidates, chainActive, bestBlock,
                     qmempool, txIndex, cs_main, pindexOldTip, queue>>
      /\ pindexMostWork' = [pindexMostWork EXCEPT ![t] = Null]
  BY DEF indexVars, flagVars, tipVars
<1>2. PICK x \in {"idle", "activate"} : pc' = [pc EXCEPT ![t] = x]
  BY DEF Return
<1>3. pblock' \in [Threads -> Blocks \cup {Null}]
  BY DEF Return, TypeOK
<1>4. pc[t] = "check"
  OBVIOUS
<1> HIDE DEF IInv, CheckLoop
<1>5. pc \in [Threads -> {"idle", "activate", "check"} \cup Holding]
  BY DEF IInv, TypeOK
<1>6. /\ pc' \in [Threads -> {"idle", "activate", "check"} \cup Holding]
      /\ pindexMostWork' \in [Threads -> Blocks \cup {Null}]
      /\ \A u \in Threads : \/ pc'[u] = pc[u] /\ pindexMostWork'[u] = pindexMostWork[u]
                            \/ u = t
      /\ pc'[t] = x
  BY <1>1, <1>2, <1>5 DEF IInv, TypeOK
<1>7. TypeOK'
  BY <1>1, <1>3, <1>6 DEF IInv, TypeOK
<1>8. LockInv'
  BY <1>1, <1>4, <1>6 DEF IInv, LockInv, Holding
<1>9. Linked' = Linked /\ Failed' = Failed
  BY <1>1 DEF Linked, Failed
<1>10. Invalidated' = Invalidated
  BY <1>4, <1>6 DEF Invalidated
<1>11. TreeInv' /\ SequenceInv' /\ LinkedExactly' /\ SequenceIdsDistinct'
  BY <1>1, <1>9 DEF IInv, TreeInv, SequenceInv, LinkedExactly, SequenceIdsDistinct
<1>12. QueueInv'
  BY <1>1, <1>6, <1>9 DEF IInv, QueueInv
<1>13. TargetInv'
  BY <1>1, <1>6, <1>9 DEF IInv, TargetInv
<1>14. ActiveChainIsPath' /\ ActiveChainUsable'
  BY <1>1, <1>9, <1>10 DEF IInv, ActiveChainIsPath, ActiveChainUsable, Tip
<1> QED
  BY <1>7, <1>8, <1>11, <1>12, <1>13, <1>14 DEF IInv

\* Steps that change nothing but the pool.
LEMMA PoolStep ==
    ASSUME IInv, qmempool' \subseteq Data,
           UNCHANGED <<indexVars, flagVars, setBlockIndexCandidates, chainActive,
                       bestBlock, txIndex, cs_main, pc, localVars>>
    PROVE  IInv'
<1>1. UNCHANGED <<mapBlockIndex, haveData, nChainTx, nSequenceId,
                  nBlockSequenceId, mapBlocksUnlinked, failedValid, failedChild,
                  setBlockIndexCandidates, chainActive, bestBlock, txIndex,
                  cs_main, pc, pindexMostWork, pindexOldTip, pblock, queue>>
  BY DEF indexVars, flagVars, localVars
<1>2. TypeOK'
  BY <1>1 DEF IInv, TypeOK
<1>3. Linked' = Linked /\ Failed' = Failed /\ Invalidated' = Invalidated
  BY <1>1 DEF Linked, Failed, Invalidated
<1>4. LockInv' /\ TreeInv' /\ QueueInv' /\ TargetInv' /\ SequenceInv'
  BY <1>1, <1>3 DEF IInv, LockInv, TreeInv, QueueInv, TargetInv, SequenceInv
<1>5. ActiveChainIsPath' /\ ActiveChainUsable'
  BY <1>1, <1>3 DEF IInv, ActiveChainIsPath, ActiveChainUsable, Tip
<1>6. LinkedExactly' /\ SequenceIdsDistinct'
  BY <1>1, <1>3 DEF IInv, LinkedExactly, SequenceIdsDistinct
<1> QED
  BY <1>2, <1>4, <1>5, <1>6 DEF IInv

\* AddToMempool changes nothing the invariant speaks of but the pool.
LEMMA AddToMempoolStep ==
    ASSUME IInv, NEW d \in Submitted, AddToMempool(d)
    PROVE  IInv'
<1>1. qmempool' \subseteq Data
  BY DataAssumption DEF AddToMempool, IInv, TypeOK
<1> QED
  BY <1>1, PoolStep DEF AddToMempool

\* A step that changes nothing keeps the invariant.
LEMMA StutterStep == ASSUME IInv, UNCHANGED vars PROVE IInv'
<1>1. qmempool' \subseteq Data
  BY DEF vars, tipVars, IInv, TypeOK
<1> QED
  BY <1>1, PoolStep DEF vars, tipVars

-----------------------------------------------------------------------------
\* IInv is inductive: every step of the node keeps the block tree, the links,
\* the sequence ids, the lock and the active chain consistent together.
LEMMA NextIInv == ASSUME IInv, [Next]_vars PROVE IInv'
<1>1. ASSUME NEW b \in Blocks, AcceptBlockHeader(b) PROVE IInv'
  BY <1>1, AcceptBlockHeaderStep
<1>2. ASSUME NEW t \in Threads, NEW b \in Blocks, NEW fRequested \in BOOLEAN,
             IgnoreBlock(t, b, fRequested) \/ StoreBlock(t, b, fRequested)
      PROVE  IInv'
  BY <1>2, IgnoreBlockStep, StoreBlockStep
<1>3. ASSUME NEW d \in Submitted, AddToMempool(d) PROVE IInv'
  BY <1>3, AddToMempoolStep
<1>4. ASSUME NEW t \in Threads, NEW b \in Named,
             InvalidateBlock(t, b) \/ ReconsiderBlock(t, b)
      PROVE  IInv'
  BY <1>4, InvalidateBlockStep, ReconsiderBlockStep
<1>5. ASSUME NEW t \in Threads, ThreadStep(t) PROVE IInv'
  BY <1>5, LinkNextStep, DropFailedBranchStep, NothingToDoStep, BeginStepStep,
     StepDisconnectStep, StepConnectStep, StepConnectFailsStep, CheckLoopStep,
     InvalidateWalkStep, InvalidateEndStep
     DEF ThreadStep
<1>6. CASE UNCHANGED vars
  BY <1>6, StutterStep
<1> QED
  BY <1>1, <1>2, <1>3, <1>4, <1>5, <1>6 DEF Next, Receive, Rpc

\* The inductive invariant holds in every reachable state of the node, for
\* every block tree, every work function and any number of threads.
THEOREM Consistent == Spec => []IInv
<1>1. Init => IInv
  BY InitIInv
<1>2. IInv /\ [Next]_vars => IInv'
  BY NextIInv
<1> QED
  BY <1>1, <1>2, PTL DEF Spec

\* Every variable of the node keeps its type.
THEOREM TypeCorrect == Spec => []TypeOK
<1>1. IInv => TypeOK
  BY DEF IInv
<1> QED
  BY <1>1, Consistent, PTL

\* chainActive is always a path of the tree from the genesis block to
\* pbestblock, in the middle of a reorganisation too: the asserts of
\* ConnectBlock, DisconnectBlock and ConnectTip hold on every interleaving.
THEOREM ActiveChainPath == Spec => []ActiveChainIsPath
<1>1. IInv => ActiveChainIsPath
  BY DEF IInv
<1> QED
  BY <1>1, Consistent, PTL

\* The active chain holds only stored and linked blocks, and a failed one only
\* while InvalidateBlock is taking it off the chain under cs_main.
THEOREM ActiveChainUsableAlways == Spec => []ActiveChainUsable
<1>1. IInv => ActiveChainUsable
  BY DEF IInv
<1> QED
  BY <1>1, Consistent, PTL

\* nChainTx is nonzero only when all data up to the block are stored, counts
\* them exactly, and only such blocks are candidates, whatever order headers
\* and bodies arrive in.
THEOREM LinkedExact == Spec => []LinkedExactly
<1>1. IInv => LinkedExactly
  BY DEF IInv
<1> QED
  BY <1>1, Consistent, PTL

\* ReceivedBlockTransactions gives no two blocks the same sequence id, so the
\* comparator of setBlockIndexCandidates is a total order on what it holds.
THEOREM SequenceIds == Spec => []SequenceIdsDistinct
<1>1. IInv => SequenceIdsDistinct
  BY DEF IInv
<1> QED
  BY <1>1, Consistent, PTL

=============================================================================
