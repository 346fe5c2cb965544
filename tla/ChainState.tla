----------------------------- MODULE ChainState -----------------------------
(***************************************************************************)
(* The block tree and the active chain of one ecoChain node                *)
(* (src/bitcoin-0.12.0/src/main.cpp).                                      *)
(*                                                                         *)
(* Headers and blocks arrive in any order on several threads (the network  *)
(* message handler, the block producer, RPC).  A thread inserts a block in *)
(* the index under cs_main, links it and the stored blocks that waited for *)
(* it, and then runs ActivateBestChain, which disconnects and connects     *)
(* blocks under cs_main but gives the lock back between two improvements   *)
(* of the tip.  InvalidateBlock and ReconsiderBlock (RPC) change the       *)
(* validity flags in between.                                              *)
(*                                                                         *)
(* Every step below that holds cs_main for more than one action keeps it   *)
(* in the variable cs_main, so that no other thread moves meanwhile.       *)
(***************************************************************************)
EXTENDS BlockTree, FiniteSets, SequencesExt

CONSTANTS
    Data,               \* notarised data items
    qvtx,               \* [Blocks -> SUBSET Data], the data a block carries
    Submitted,          \* the data that clients and peers send
    FutureStamped,      \* blocks whose nTime is close to now + 2h
    Named,              \* the blocks an operator names in an RPC
    Threads,            \* threads that call into main.cpp
    MIN_BLOCKS_TO_KEEP  \* how far ahead of the tip an unrequested block may be

\* the genesis block carries one datum; any other block may be empty
ASSUME DataAssumption ==
    /\ qvtx \in [Blocks -> SUBSET Data]
    /\ \A b \in Blocks : IsFiniteSet(qvtx[b])
    /\ qvtx[Genesis] # {}
    /\ Submitted \subseteq Data

ASSUME ThreadAssumption ==
    /\ Null \notin Threads
    /\ FutureStamped \subseteq Blocks
    /\ Named \subseteq Blocks \ {Genesis}
    /\ MIN_BLOCKS_TO_KEEP \in Nat

VARIABLES
    mapBlockIndex,           \* blocks whose header is known
    haveData,                \* blocks with BLOCK_HAVE_DATA
    failedValid,             \* blocks with BLOCK_FAILED_VALID
    failedChild,             \* blocks with BLOCK_FAILED_CHILD
    nChainTx,                \* data items up to a block, 0 while not linked
    nSequenceId,             \* order in which the blocks were linked
    nBlockSequenceId,        \* the next nSequenceId
    mapBlocksUnlinked,       \* stored blocks waiting for data of an ancestor
    setBlockIndexCandidates, \* possible tips
    chainActive,             \* CChain::vChain
    bestBlock,               \* pbestblock->hashBlock
    qmempool,                \* data waiting to be put in a block
    txIndex,                 \* data ids in the transaction index
    cs_main,                 \* the holder of cs_main, or Null
    pc,                      \* where each thread is
    pindexMostWork,          \* per thread: target of its activation, or the
                             \*   block it invalidates (Null when dead)
    pindexOldTip,            \* tip when the running ActivateBestChainStep began
    pblock,                  \* per thread: the block it holds in memory
    queue                    \* ReceivedBlockTransactions: blocks to be linked

indexVars == <<mapBlockIndex, haveData, nChainTx, nSequenceId,
               nBlockSequenceId, mapBlocksUnlinked>>
flagVars == <<failedValid, failedChild>>
tipVars == <<chainActive, bestBlock, qmempool, txIndex>>
localVars == <<pindexMostWork, pindexOldTip, pblock, queue>>
vars == <<indexVars, flagVars, setBlockIndexCandidates, tipVars, cs_main, pc,
          localVars>>

-----------------------------------------------------------------------------
nTx(b) == Cardinality(qvtx[b])

Tip == chainActive[Len(chainActive)]
Height == Len(chainActive) - 1
InActive(b) ==
    /\ nHeight[b] <= Height
    /\ chainActive[nHeight[b] + 1] = b

Failed == failedValid \cup failedChild

\* CBlockIndexWorkComparator under the sequence ids `ids': less work, then
\* later received.  (SequenceIdsDistinct makes the last rule, pointer order,
\* irrelevant among linked blocks.)
SortsBefore(ids, a, b) ==
    \/ nChainWork[a] < nChainWork[b]
    \/ nChainWork[a] = nChainWork[b] /\ ids[a] > ids[b]

Worse(a, b) == SortsBefore(nSequenceId, a, b)

-----------------------------------------------------------------------------
\* Inserting headers and blocks

\* a header is accepted when it is known and not failed, or when its parent is
Acceptable(b) ==
    IF b \in mapBlockIndex
    THEN b \notin Failed
    ELSE pprev[b] \in mapBlockIndex \ Failed

\* a HEADERS message
AcceptBlockHeader(b) ==
    /\ cs_main = Null
    /\ b \notin mapBlockIndex
    /\ Acceptable(b)
    /\ mapBlockIndex' = mapBlockIndex \cup {b}
    /\ UNCHANGED <<haveData, nChainTx, nSequenceId, nBlockSequenceId,
                   mapBlocksUnlinked, flagVars, setBlockIndexCandidates,
                   tipVars, cs_main, pc, localVars>>

\* AcceptBlock stops after the header: the block is stored already, or it was
\* not asked for and does not help
Ignored(b, fRequested) ==
    \/ b \in haveData
    \/ /\ ~fRequested
       /\ \/ nChainWork[b] <= nChainWork[Tip]
          \/ nHeight[b] > Height + MIN_BLOCKS_TO_KEEP

\* the part of ProcessNewBlock before ActivateBestChain when the body is not
\* used
IgnoreBlock(t, b, fRequested) ==
    /\ pc[t] = "idle" /\ cs_main = Null
    /\ Acceptable(b)
    /\ Ignored(b, fRequested)
    /\ mapBlockIndex' = mapBlockIndex \cup {b}
    /\ pblock' = [pblock EXCEPT ![t] = b]
    /\ pc' = [pc EXCEPT ![t] = "activate"]
    /\ UNCHANGED <<haveData, nChainTx, nSequenceId, nBlockSequenceId,
                   mapBlocksUnlinked, flagVars, setBlockIndexCandidates,
                   tipVars, cs_main, pindexMostWork, pindexOldTip, queue>>

\* mutant: the parent is stored, whether or not its own parent is
ParentStored(b) == pprev[b] \in haveData

ParentLinked(b) == nChainTx[pprev[b]] # 0

\* the same when the body is stored: the block is linked at once if its parent
\* is linked, and otherwise waits in mapBlocksUnlinked unless its parent failed
StoreBlock(t, b, fRequested) ==
    /\ pc[t] = "idle" /\ cs_main = Null
    /\ Acceptable(b)
    /\ ~Ignored(b, fRequested)
    /\ mapBlockIndex' = mapBlockIndex \cup {b}
    /\ haveData' = haveData \cup {b}
    /\ pblock' = [pblock EXCEPT ![t] = b]
    /\ IF ParentLinked(b)
       THEN /\ queue' = <<b>>
            /\ cs_main' = t
            /\ pc' = [pc EXCEPT ![t] = "link"]
            /\ UNCHANGED mapBlocksUnlinked
       ELSE /\ mapBlocksUnlinked' =
                 mapBlocksUnlinked \cup (IF pprev[b] \in Failed THEN {} ELSE {b})
            /\ pc' = [pc EXCEPT ![t] = "activate"]
            /\ UNCHANGED <<queue, cs_main>>
    /\ UNCHANGED <<nChainTx, nSequenceId, nBlockSequenceId, flagVars,
                   setBlockIndexCandidates, tipVars, pindexMostWork,
                   pindexOldTip>>

\* mutant: a later arrival of the parent wakes nobody
WaitingForgotten(b) == {}

\* the stored blocks that wait for b
WaitingFor(b) == {c \in mapBlocksUnlinked : pprev[c] = b}

\* one turn of the loop of ReceivedBlockTransactions; a std::multimap gives the
\* children of a block in no order the code relies on
LinkNext(t) ==
    /\ pc[t] = "link"
    /\ LET b == Head(queue)
           children == WaitingFor(b)
       IN /\ nChainTx' = [nChainTx EXCEPT ![b] = nChainTx[pprev[b]] + nTx(b)]
          /\ nSequenceId' = [nSequenceId EXCEPT ![b] = nBlockSequenceId]
          /\ nBlockSequenceId' = nBlockSequenceId + 1
          /\ setBlockIndexCandidates' = setBlockIndexCandidates \cup
                 (IF SortsBefore(nSequenceId', b, Tip) THEN {} ELSE {b})
          /\ mapBlocksUnlinked' = mapBlocksUnlinked \ children
          /\ \E order \in SetToSeqs(children) : queue' = Tail(queue) \o order
    /\ IF queue' = <<>>
       THEN cs_main' = Null /\ pc' = [pc EXCEPT ![t] = "activate"]
       ELSE UNCHANGED <<cs_main, pc>>
    /\ UNCHANGED <<mapBlockIndex, haveData, flagVars, tipVars, pindexMostWork,
                   pindexOldTip, pblock>>

-----------------------------------------------------------------------------
\* Moving the tip

\* mutant: SetTip goes one block too far
DisconnectTwo ==
    /\ chainActive' = SubSeq(chainActive, 1, Len(chainActive) - 2)
    /\ bestBlock' = pprev[Tip]
    /\ UNCHANGED <<qmempool, txIndex>>

\* mutant: pbestblock is not moved back with the tip
DisconnectKeepsBest ==
    /\ chainActive' = Front(chainActive)
    /\ qmempool' = SymDiff(qmempool, qvtx[Tip])
    /\ UNCHANGED <<bestBlock, txIndex>>

\* DisconnectTip: the data of the block go back to the pool, but AddToMempool
\* refuses a datum that is there already and it is then removed
DisconnectTip ==
    /\ chainActive' = Front(chainActive)
    /\ bestBlock' = pprev[Tip]
    /\ qmempool' = SymDiff(qmempool, qvtx[Tip])
    /\ UNCHANGED txIndex

ConnectTip(b) ==
    /\ chainActive' = Append(chainActive, b)
    /\ bestBlock' = b
    /\ txIndex' = txIndex \cup qvtx[b]
    /\ qmempool' = qmempool \ qvtx[b]

\* mutant: the candidate that sorts first
FirstCandidate(c) ==
    /\ c \in setBlockIndexCandidates
    /\ \A d \in setBlockIndexCandidates : ~Worse(d, c)

\* the candidate that sorts last
BestCandidate(c) ==
    /\ c \in setBlockIndexCandidates
    /\ \A d \in setBlockIndexCandidates : ~Worse(c, d)

\* mutant: only the candidate's own flags are looked at
FailedItself(c) == {c} \cap Failed

\* the failed blocks between c and the active chain
FailedBelow(c) == {a \in Ancestors[c] : ~InActive(a)} \cap Failed

\* t leaves ActivateBestChain
Return(t) ==
    /\ pc' = [pc EXCEPT ![t] = "idle"]
    /\ pblock' = [pblock EXCEPT ![t] = Null]

\* t runs at the top of the loop of ActivateBestChain: it takes cs_main, or has
\* it from an earlier turn of FindMostWorkChain
AtFind(t) ==
    \/ pc[t] = "activate" /\ cs_main = Null
    \/ pc[t] = "find"

\* mutant: only the failed ancestor itself is dropped
OnlyFailed(f, c) == {f}

\* the blocks on the way from c down to its failed ancestor f
DownTo(f, c) == {a \in Ancestors[c] : f \in Ancestors[a]}

\* FindMostWorkChain meets a candidate on a failed branch and drops the branch
DropFailedBranch(t) ==
    /\ AtFind(t)
    /\ \E c \in Blocks :
        /\ BestCandidate(c)
        /\ \E f \in FailedBelow(c) :
            /\ FailedBelow(c) \subseteq Ancestors[f]
            /\ failedChild' = failedChild \cup (DownTo(f, c) \ {f})
            /\ setBlockIndexCandidates' = setBlockIndexCandidates \ DownTo(f, c)
    /\ cs_main' = t
    /\ pc' = [pc EXCEPT ![t] = "find"]
    /\ UNCHANGED <<indexVars, failedValid, tipVars, localVars>>

\* the tip is the best candidate already, or there is no candidate
NothingToDo(t) ==
    /\ AtFind(t)
    /\ \/ setBlockIndexCandidates = {}
       \/ BestCandidate(Tip)
    /\ cs_main' = Null
    /\ Return(t)
    /\ UNCHANGED <<indexVars, flagVars, setBlockIndexCandidates, tipVars,
                   pindexMostWork, pindexOldTip, queue>>

\* ActivateBestChainStep starts towards the best candidate
BeginStep(t) ==
    /\ AtFind(t)
    /\ \E c \in Blocks \ {Tip} :
        /\ BestCandidate(c)
        /\ FailedBelow(c) = {}
        /\ pindexMostWork' = [pindexMostWork EXCEPT ![t] = c]
    /\ pindexOldTip' = Tip
    /\ cs_main' = t
    /\ pc' = [pc EXCEPT ![t] = "step"]
    /\ UNCHANGED <<indexVars, flagVars, setBlockIndexCandidates, tipVars,
                   pblock, queue>>

\* ActivateBestChainStep returns: cs_main is released before the loop
\* condition of ActivateBestChain is evaluated
EndStep(t) ==
    /\ cs_main' = Null
    /\ pindexOldTip' = Null
    /\ pc' = [pc EXCEPT ![t] = "check"]

StepDisconnect(t) ==
    /\ pc[t] = "step"
    /\ Tip \notin Ancestors[pindexMostWork[t]]
    /\ DisconnectTip
    /\ IF bestBlock' = pindexMostWork[t]
       THEN EndStep(t)
       ELSE UNCHANGED <<cs_main, pc, pindexOldTip>>
    /\ UNCHANGED <<indexVars, flagVars, setBlockIndexCandidates,
                   pindexMostWork, pblock, queue>>

\* the block after the tip on the way to t's target
NextToConnect(t, b) ==
    /\ Tip \in Ancestors[pindexMostWork[t]]
    /\ b \in Ancestors[pindexMostWork[t]] \ {Genesis}
    /\ pprev[b] = Tip

\* mutant: a step connects one block, whatever its work
OneBlock(t, b) == TRUE

\* the step ends when the tip has more work than the one it started from, or
\* the target is reached
Improved(t, b) ==
    nChainWork[b] > nChainWork[pindexOldTip] \/ b = pindexMostWork[t]

StepConnect(t) ==
    /\ pc[t] = "step"
    /\ \E b \in Blocks :
        /\ NextToConnect(t, b)
        /\ ConnectTip(b)
        /\ IF Improved(t, b)
           THEN EndStep(t)
           ELSE UNCHANGED <<cs_main, pc, pindexOldTip>>
    /\ UNCHANGED <<indexVars, flagVars, setBlockIndexCandidates,
                   pindexMostWork, pblock, queue>>

\* ConnectBlock re-checks a block read from disk; the adjusted clock may have
\* moved back since the block was accepted ("time-too-new").  The block in
\* memory carries fChecked and is not checked again.
StepConnectFails(t) ==
    /\ pc[t] = "step"
    /\ \E b \in FutureStamped :
        /\ NextToConnect(t, b)
        /\ ~(b = pindexMostWork[t] /\ b = pblock[t])
        /\ failedValid' = failedValid \cup {b}
        /\ setBlockIndexCandidates' = setBlockIndexCandidates \ {b}
    /\ EndStep(t)
    /\ UNCHANGED <<indexVars, failedChild, tipVars, pindexMostWork, pblock,
                   queue>>

\* while (pindexMostWork != chainActive.Tip()), evaluated without cs_main
CheckLoop(t) ==
    /\ pc[t] = "check"
    /\ IF pindexMostWork[t] = Tip
       THEN Return(t)
       ELSE pc' = [pc EXCEPT ![t] = "activate"] /\ UNCHANGED pblock
    /\ pindexMostWork' = [pindexMostWork EXCEPT ![t] = Null]
    /\ UNCHANGED <<indexVars, flagVars, setBlockIndexCandidates, tipVars,
                   cs_main, pindexOldTip, queue>>

-----------------------------------------------------------------------------
\* The RPCs invalidateblock and reconsiderblock

InvalidateBlock(t, b) ==
    /\ pc[t] = "idle" /\ cs_main = Null
    /\ b \in mapBlockIndex
    /\ failedValid' = failedValid \cup {b}
    /\ setBlockIndexCandidates' = setBlockIndexCandidates \ {b}
    /\ cs_main' = t
    /\ pc' = [pc EXCEPT ![t] = "invalidate"]
    /\ pindexMostWork' = [pindexMostWork EXCEPT ![t] = b]
    /\ UNCHANGED <<indexVars, failedChild, tipVars, pindexOldTip, pblock, queue>>

InvalidateWalk(t) ==
    /\ pc[t] = "invalidate"
    /\ InActive(pindexMostWork[t])
    /\ failedChild' = failedChild \cup {Tip}
    /\ setBlockIndexCandidates' = setBlockIndexCandidates \ {Tip}
    /\ DisconnectTip
    /\ UNCHANGED <<indexVars, failedValid, cs_main, pc, localVars>>

\* mutant: every stored block that is not worse than the new tip
ReadmittedStored == {c \in haveData \ Failed : ~Worse(c, Tip)}

\* every linked block that is not worse than the new tip is a candidate again
Readmitted == {c \in haveData \ Failed : nChainTx[c] # 0 /\ ~Worse(c, Tip)}

InvalidateEnd(t) ==
    /\ pc[t] = "invalidate"
    /\ ~InActive(pindexMostWork[t])
    /\ setBlockIndexCandidates' = setBlockIndexCandidates \cup Readmitted
    /\ cs_main' = Null
    /\ pc' = [pc EXCEPT ![t] = "activate"]
    /\ pindexMostWork' = [pindexMostWork EXCEPT ![t] = Null]
    /\ UNCHANGED <<indexVars, flagVars, tipVars, pindexOldTip, pblock, queue>>

ReconsiderBlock(t, b) ==
    /\ pc[t] = "idle" /\ cs_main = Null
    /\ b \in mapBlockIndex
    /\ LET below == {d \in Failed : b \in Ancestors[d]}
           cleared == below \cup Ancestors[b]
       IN /\ failedValid' = failedValid \ cleared
          /\ failedChild' = failedChild \ cleared
          /\ setBlockIndexCandidates' = setBlockIndexCandidates \cup
                 {d \in below \cap haveData : nChainTx[d] # 0 /\ Worse(Tip, d)}
    /\ pc' = [pc EXCEPT ![t] = "activate"]
    /\ UNCHANGED <<indexVars, tipVars, cs_main, localVars>>

-----------------------------------------------------------------------------
\* AddToMempool from a TX message, which neither looks at the chain nor takes
\* cs_main.  send_data_to_sys does both, so it adds nothing to this.
AddToMempool(d) ==
    /\ d \notin qmempool
    /\ qmempool' = qmempool \cup {d}
    /\ UNCHANGED <<indexVars, flagVars, setBlockIndexCandidates, chainActive,
                   bestBlock, txIndex, cs_main, pc, localVars>>

-----------------------------------------------------------------------------
\* InitBlockIndex of an empty data directory: the genesis block is active
Init ==
    /\ mapBlockIndex = {Genesis}
    /\ haveData = {Genesis}
    /\ failedValid = {} /\ failedChild = {}
    /\ nChainTx = [b \in Blocks |-> IF b = Genesis THEN nTx(b) ELSE 0]
    /\ nSequenceId = [b \in Blocks |-> IF b = Genesis THEN 1 ELSE 0]
    /\ nBlockSequenceId = 2
    /\ mapBlocksUnlinked = {}
    /\ setBlockIndexCandidates = {Genesis}
    /\ chainActive = <<Genesis>>
    /\ bestBlock = Genesis
    /\ qmempool = {} /\ txIndex = {}
    /\ cs_main = Null
    /\ pc = [t \in Threads |-> "idle"]
    /\ pindexMostWork = [t \in Threads |-> Null]
    /\ pindexOldTip = Null
    /\ pblock = [t \in Threads |-> Null]
    /\ queue = <<>>

\* what a thread does once it has started; it never waits for an input
ThreadStep(t) ==
    \/ LinkNext(t)
    \/ DropFailedBranch(t) \/ NothingToDo(t) \/ BeginStep(t)
    \/ StepDisconnect(t) \/ StepConnect(t) \/ StepConnectFails(t)
    \/ CheckLoop(t)
    \/ InvalidateWalk(t) \/ InvalidateEnd(t)

Receive ==
    \/ \E b \in Blocks : AcceptBlockHeader(b)
    \/ \E t \in Threads, b \in Blocks, fRequested \in BOOLEAN :
          IgnoreBlock(t, b, fRequested) \/ StoreBlock(t, b, fRequested)
    \/ \E d \in Submitted : AddToMempool(d)

\* invalidateblock of the genesis block dereferences a null pprev, so it is no
\* input here
Rpc ==
    \E t \in Threads, b \in Named :
        InvalidateBlock(t, b) \/ ReconsiderBlock(t, b)

Next == Receive \/ Rpc \/ \E t \in Threads : ThreadStep(t)

Spec == Init /\ [][Next]_vars

\* a thread that is inside ActivateBestChain keeps running; whether peers and
\* operators send anything more is left open
FairSpec == Spec /\ \A t \in Threads : WF_vars(ThreadStep(t))

-----------------------------------------------------------------------------
\* Properties

Holding == {"link", "find", "step", "invalidate"}

\* Every variable has its type.
TypeOK ==
    /\ mapBlockIndex \subseteq Blocks
    /\ haveData \subseteq mapBlockIndex
    /\ failedValid \subseteq mapBlockIndex
    /\ failedChild \subseteq mapBlockIndex
    /\ nChainTx \in [Blocks -> Nat]
    /\ nSequenceId \in [Blocks -> Nat]
    /\ nBlockSequenceId \in Nat \ {0}
    /\ mapBlocksUnlinked \subseteq haveData \ {Genesis}
    /\ setBlockIndexCandidates \subseteq mapBlockIndex
    /\ chainActive \in Seq(Blocks) /\ chainActive # <<>>
    /\ bestBlock \in Blocks
    /\ qmempool \subseteq Data
    /\ txIndex \subseteq Data
    /\ cs_main \in Threads \cup {Null}
    /\ pc \in [Threads -> {"idle", "activate", "check"} \cup Holding]
    /\ pindexMostWork \in [Threads -> Blocks \cup {Null}]
    /\ pindexOldTip \in Blocks \cup {Null}
    /\ pblock \in [Threads -> Blocks \cup {Null}]
    /\ queue \in Seq(Blocks)

Linked == {b \in Blocks : nChainTx[b] # 0}
Idle == \A t \in Threads : pc[t] = "idle"
Invalidated == {pindexMostWork[t] : t \in {u \in Threads : pc[u] = "invalidate"}}

\* chainActive is a path of the tree that starts at the genesis block, each
\* block stands at its height, and pbestblock names the tip: the asserts of
\* ConnectBlock, DisconnectBlock and ConnectTip never fail.
ActiveChainIsPath ==
    /\ chainActive[1] = Genesis
    /\ \A i \in 1..Len(chainActive) :
          /\ nHeight[chainActive[i]] = i - 1
          /\ i > 1 => /\ chainActive[i] # Genesis
                      /\ pprev[chainActive[i]] = chainActive[i - 1]
    /\ bestBlock = Tip

\* Every block of the active chain is stored and linked, and none is marked
\* failed except the one that InvalidateBlock is disconnecting, however the
\* threads take turns between the steps of ActivateBestChain.
ActiveChainUsable ==
    \A i \in 1..Len(chainActive) :
        /\ chainActive[i] \in haveData \cap Linked
        /\ chainActive[i] \in Failed => chainActive[i] \in Invalidated

\* nChainTx is set only when the data of the block and of all its ancestors
\* are stored, and it then counts them exactly (the comment on
\* CBlockIndex::nChainTx); only such blocks are candidates for the tip.
LinkedExactly ==
    /\ Linked \subseteq haveData
    /\ \A b \in Linked \ {Genesis} :
          /\ pprev[b] \in Linked
          /\ nChainTx[b] = nChainTx[pprev[b]] + nTx(b)
    /\ setBlockIndexCandidates \subseteq Linked

\* Two linked blocks never share a sequence id and a block that is not linked
\* has none, so the comparator never orders two candidates by their address.
SequenceIdsDistinct ==
    \A a \in Blocks :
        /\ (nSequenceId[a] = 0) <=> (a \notin Linked)
        /\ \A b \in Linked \ {a} : nSequenceId[a] # nSequenceId[b]

\* A stored block whose parent is linked is linked itself once cs_main is
\* free: no arrival order of headers and bodies strands a block.
StoredGetsLinked ==
    cs_main = Null =>
        \A b \in haveData \ {Genesis} : pprev[b] \in Linked => b \in Linked

\* When every thread has left ActivateBestChain, no linked block without a
\* failed ancestor is better than the tip.
TipIsBest ==
    Idle => \A b \in Linked :
                Ancestors[b] \cap Failed = {} => ~Worse(Tip, b)

\* ActivateBestChainStep gives cs_main back with a tip that is not worse than
\* the one it started from, unless a block on the way failed its check.
StepNeverWorsens ==
    [][ (pindexOldTip # Null /\ pindexOldTip' = Null /\ failedValid' = failedValid)
        => ~Worse(chainActive'[Len(chainActive')], pindexOldTip) ]_vars

\* Every call of ActivateBestChain comes to an end.
ActivationEnds == \A t \in Threads : (pc[t] # "idle") ~> (pc[t] = "idle")

-----------------------------------------------------------------------------
\* The tip that others find when they get cs_main: a running step of
\* ActivateBestChain is not seen before it ends.
SettledTip == IF pindexOldTip # Null THEN pindexOldTip ELSE Tip

Chain == INSTANCE ActiveChain WITH failed <- Failed, tip <- SettledTip

\* Without RPCs the block index implements ActiveChain: however threads, links
\* and reorganisations interleave, an observer with cs_main sees single moves
\* to usable tips, and a better block is always activated in the end.
ImplementsActiveChain == Chain!FairActiveChain

=============================================================================
