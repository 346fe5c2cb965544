-------------------------- MODULE MCBlockDatabase ---------------------------
(***************************************************************************)
(* Instances of BlockDatabase for TLC: g - a1 - a2 and g - b1, where b1    *)
(* is empty; block files of two blocks.                                    *)
(***************************************************************************)
EXTENDS BlockDatabase, TLC

CONSTANTS g, a1, a2, b1

MCpprev ==
    LET parent == (a1 :> g) @@ (a2 :> a1) @@ (b1 :> g)
    IN [b \in Blocks \ {g} |-> parent[b]]

MCnHeight ==
    [b \in Blocks |-> CASE b = g -> 0
                        [] b = a2 -> 2
                        [] OTHER -> 1]

MCnChainWork == [b \in Blocks |-> MCnHeight[b]]

=============================================================================
