---------------------------- MODULE ActiveChain -----------------------------
(***************************************************************************)
(* What the block index promises to the rest of a node whose operator      *)
(* sends no invalidateblock or reconsiderblock                             *)
(* (src/bitcoin-0.12.0/src/main.cpp): headers and bodies are only added,   *)
(* and whoever holds cs_main finds a tip that has moved to a block of at   *)
(* least as much work, unless a block on the way was found invalid.        *)
(* ChainState implements this module.                                      *)
(***************************************************************************)
EXTENDS BlockTree

VARIABLES
    mapBlockIndex,  \* blocks whose header is known
    haveData,       \* blocks with BLOCK_HAVE_DATA
    failed,         \* blocks with a flag of BLOCK_FAILED_MASK
    tip             \* chainActive.Tip()

chainVars == <<mapBlockIndex, haveData, failed, tip>>

\* blocks whose data and those of all ancestors are there: nChainTx # 0
FullyStored == {b \in Blocks : Ancestors[b] \subseteq haveData}

Usable(b) == b \in FullyStored /\ Ancestors[b] \cap failed = {}

\* a header is accepted on a known parent without failure
AddHeader(b) ==
    /\ b \notin mapBlockIndex
    /\ pprev[b] \in mapBlockIndex \ failed
    /\ mapBlockIndex' = mapBlockIndex \cup {b}
    /\ UNCHANGED <<haveData, failed, tip>>

\* a body, with its header, is accepted unless it or its parent has failed
AddBody(b) ==
    /\ b \notin haveData
    /\ IF b \in mapBlockIndex
       THEN b \notin failed
       ELSE pprev[b] \in mapBlockIndex \ failed
    /\ mapBlockIndex' = mapBlockIndex \cup {b}
    /\ haveData' = haveData \cup {b}
    /\ UNCHANGED <<failed, tip>>

\* the tip moves to a usable block with no less work
MoveTip(b) ==
    /\ b # tip
    /\ Usable(b)
    /\ nChainWork[b] >= nChainWork[tip]
    /\ tip' = b
    /\ UNCHANGED <<mapBlockIndex, haveData, failed>>

\* ConnectBlock refuses b on the way to a better tip, and the chain ends at b's
\* parent for the time being
FailAt(b) ==
    /\ b \in FullyStored \ (failed \cup Ancestors[tip] \cup {Genesis})
    /\ failed' = failed \cup {b}
    /\ tip' = pprev[b]
    /\ UNCHANGED <<mapBlockIndex, haveData>>

\* descendants of a failed block are marked
MarkDescendants(S) ==
    /\ \A b \in S : Ancestors[b] \cap failed # {}
    /\ failed' = failed \cup S
    /\ UNCHANGED <<mapBlockIndex, haveData, tip>>

ChainInit ==
    /\ mapBlockIndex = {Genesis}
    /\ haveData = {Genesis}
    /\ failed = {}
    /\ tip = Genesis

ChainNext ==
    \/ \E b \in Blocks \ {Genesis} : AddHeader(b) \/ AddBody(b)
    \/ \E b \in Blocks : MoveTip(b) \/ FailAt(b)
    \/ \E S \in SUBSET Blocks : MarkDescendants(S)

\* there is a usable block with more work than the tip
Improvable == \E b \in Blocks : Usable(b) /\ nChainWork[b] > nChainWork[tip]

\* A better block does not wait for ever: the tip moves, or a block fails.
ActivationFair ==
    WF_chainVars(Improvable /\ \E b \in Blocks : MoveTip(b) \/ FailAt(b))

ActiveChainSpec == ChainInit /\ [][ChainNext]_chainVars

FairActiveChain == ActiveChainSpec /\ ActivationFair

=============================================================================
