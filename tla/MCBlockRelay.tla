---------------------------- MODULE MCBlockRelay ----------------------------
(***************************************************************************)
(* Instances of BlockRelay for TLC: the branches g - a1 - a2 - a3 and      *)
(* g - b1 - b2 of empty blocks.                                            *)
(***************************************************************************)
EXTENDS BlockRelay

CONSTANTS g, a1, a2, a3, b1, b2, d0

MCpprev ==
    LET parent == (a1 :> g) @@ (a2 :> a1) @@ (a3 :> a2) @@ (b1 :> g) @@ (b2 :> b1)
    IN [b \in Blocks \ {g} |-> parent[b]]

MCnHeight ==
    [b \in Blocks |-> CASE b = g -> 0
                        [] b \in {a1, b1} -> 1
                        [] b \in {a2, b2} -> 2
                        [] OTHER -> 3]

\* each block adds one unit of work
MCnChainWork == [b \in Blocks |-> MCnHeight[b]]

MCqvtx == [b \in Blocks |-> IF b = g THEN {d0} ELSE {}]

=============================================================================
