-------------------------- MODULE MCBlockDownload ---------------------------
(***************************************************************************)
(* Instances of BlockDownload for TLC: the branch g - a1 - a2 - a3, an     *)
(* honest peer good and a peer wild that may do anything.                  *)
(***************************************************************************)
EXTENDS BlockDownload

CONSTANTS g, a1, a2, a3, wild, good

MCpprev ==
    LET parent == (a1 :> g) @@ (a2 :> a1) @@ (a3 :> a2)
    IN [b \in Blocks \ {g} |-> parent[b]]

MCnHeight ==
    [b \in Blocks |-> CASE b = g -> 0
                        [] b = a1 -> 1
                        [] b = a2 -> 2
                        [] OTHER -> 3]

\* each block adds one unit of work
MCnChainWork == [b \in Blocks |-> MCnHeight[b]]

\* wild has the first block of the chain of good, and announces it
MCchainOf == [x \in Peers |-> IF x = wild THEN a1 ELSE a2]

MCannounces == [x \in Peers |-> {MCchainOf[x]}]

\* both peers have the longer chain and announce its tip; wild also its first block
MCchainOfLong == [x \in Peers |-> a3]

MCannouncesLong == [x \in Peers |-> IF x = wild THEN {a1, a3} ELSE {a3}]

=============================================================================
