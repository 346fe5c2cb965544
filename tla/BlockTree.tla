----------------------------- MODULE BlockTree ------------------------------
(***************************************************************************)
(* The tree of blocks that the modules on one node share: CBlockIndex      *)
(* (src/bitcoin-0.12.0/src/chain.h) without the fields that change.        *)
(***************************************************************************)
EXTENDS Naturals

CONSTANTS
    Blocks,             \* all blocks (and headers) that can ever arrive
    Genesis,            \* chainparams.GenesisBlock()
    Null,               \* NULL pointer; also "nobody"
    pprev,              \* [Blocks \ {Genesis} -> Blocks], from hashPrevBlock
    nHeight,            \* [Blocks -> Nat]
    nChainWork          \* [Blocks -> Nat], work of the chain up to a block

ASSUME TreeAssumption ==
    /\ Genesis \in Blocks
    /\ Null \notin Blocks
    /\ pprev \in [Blocks \ {Genesis} -> Blocks]
    /\ nHeight \in [Blocks -> Nat]
    /\ nHeight[Genesis] = 0
    /\ \A b \in Blocks \ {Genesis} : nHeight[b] = nHeight[pprev[b]] + 1

\* nBits is not checked against a target, so a header may claim no work at all
ASSUME WorkAssumption ==
    /\ nChainWork \in [Blocks -> Nat]
    /\ \A b \in Blocks \ {Genesis} : nChainWork[pprev[b]] <= nChainWork[b]

ParentClosed(S) == \A b \in S \ {Genesis} : pprev[b] \in S

\* the blocks met when walking pprev from b to the genesis block, b included:
\* the least set that holds b and the parent of each of its members
Ancestors ==
    [b \in Blocks |-> {a \in Blocks :
        \A S \in SUBSET Blocks : b \in S /\ ParentClosed(S) => a \in S}]

=============================================================================
