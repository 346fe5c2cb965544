---------------------------- MODULE MCChainState ----------------------------
(***************************************************************************)
(* Instances of ChainState for TLC: the branches g - a1 - a2 and           *)
(* g - b1 - b2 - b3, and a sibling c2 of b2.  a1 carries d1, and so does   *)
(* c2; a2 carries d2; the other blocks are empty.                          *)
(***************************************************************************)
EXTENDS ChainState

CONSTANTS g, a1, a2, b1, b2, b3, c2, d0, d1, d2

MCpprev ==
    LET parent == (a1 :> g) @@ (a2 :> a1) @@ (b1 :> g) @@ (b2 :> b1) @@ (b3 :> b2)
              @@ (c2 :> b1)
    IN [b \in Blocks \ {g} |-> parent[b]]

MCnHeight ==
    [b \in Blocks |-> CASE b = g -> 0
                        [] b \in {a1, b1} -> 1
                        [] b \in {a2, b2, c2} -> 2
                        [] OTHER -> 3]

\* each block adds one unit of work
MCnChainWork == [b \in Blocks |-> MCnHeight[b]]

\* ... except a2, whose nBits stand for no work
MCnChainWorkZero == [b \in Blocks |-> IF b = a2 THEN 1 ELSE MCnHeight[b]]

MCqvtx ==
    [b \in Blocks |-> CASE b = g -> {d0}
                        [] b \in {a1, c2} -> {d1}
                        [] b = a2 -> {d2}
                        [] OTHER -> {}]

Symmetry == Permutations(Threads)

=============================================================================
