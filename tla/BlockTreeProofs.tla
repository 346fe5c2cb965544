--------------------------- MODULE BlockTreeProofs --------------------------
(***************************************************************************)
(* Facts about the tree of blocks that the proofs about the modules on it  *)
(* share: what walking pprev from a block meets.  They hold of infinite    *)
(* trees too.  TreeInduction is the form of induction that they are proved *)
(* by: heights are natural numbers and fall along pprev.                   *)
(***************************************************************************)
EXTENDS BlockTree, WellFoundedInduction, FiniteSetTheorems, TLAPS

\* A set of blocks that is not empty has a block of least height.
LEMMA LowestExists ==
    ASSUME NEW S \in SUBSET Blocks, S # {}
    PROVE  \E x \in S : \A y \in S : nHeight[x] <= nHeight[y]
<1> DEFINE T == {nHeight[b] : b \in S}
<1>1. T \subseteq Nat /\ T # {}
  BY TreeAssumption
<1>2. PICK n \in T : \A m \in T : ~(<<m, n>> \in OpToRel(<, Nat))
  BY <1>1, WFMin, NatLessThanWellFounded, Zenon
<1>3. \A m \in T : n <= m
  <2> SUFFICES ASSUME NEW m \in T PROVE n <= m
    OBVIOUS
  <2>1. m \in Nat /\ n \in Nat
    BY <1>1
  <2>2. ~(m < n)
    BY <1>2, <2>1 DEF OpToRel
  <2> QED
    BY <2>1, <2>2
<1>4. PICK x \in S : n = nHeight[x]
  OBVIOUS
<1> QED
  BY <1>3, <1>4

\* Walking pprev from any block ends at the genesis block: a set closed under pprev
\* that is not empty holds it.
LEMMA GenesisInClosed ==
    ASSUME NEW S \in SUBSET Blocks, S # {}, ParentClosed(S)
    PROVE  Genesis \in S
<1>1. PICK x \in S : \A y \in S : nHeight[x] <= nHeight[y]
  BY LowestExists
<1>2. SUFFICES ASSUME x # Genesis PROVE FALSE
  OBVIOUS
<1>3. pprev[x] \in S /\ x \in Blocks /\ pprev[x] \in Blocks
  BY <1>2, TreeAssumption DEF ParentClosed
<1>4. nHeight[x] = nHeight[pprev[x]] + 1 /\ nHeight[pprev[x]] \in Nat
  BY <1>2, <1>3, TreeAssumption
<1> QED
  BY <1>1, <1>3, <1>4

\* Induction along pprev: a set that holds the genesis block, and with the parent of a
\* block that block, holds all blocks.
LEMMA TreeInduction ==
    ASSUME NEW S, Genesis \in S,
           \A b \in Blocks \ {Genesis} : pprev[b] \in S => b \in S
    PROVE  Blocks \subseteq S
<1> DEFINE T == Blocks \ S
<1>1. ParentClosed(T)
  <2> SUFFICES ASSUME NEW b \in T \ {Genesis} PROVE pprev[b] \in T
    BY DEF ParentClosed
  <2> QED
    BY TreeAssumption
<1>2. T = {}
  BY <1>1, GenesisInClosed
<1> QED
  BY <1>2

\* What the other proofs need of Ancestors: it holds the block itself and the
\* genesis block, and with a block its parent.
LEMMA AncestorsProperties ==
    ASSUME NEW b \in Blocks
    PROVE  /\ b \in Ancestors[b]
           /\ Ancestors[b] \subseteq Blocks
           /\ ParentClosed(Ancestors[b])
           /\ Genesis \in Ancestors[b]
<1>1. b \in Ancestors[b] /\ Ancestors[b] \subseteq Blocks
  BY DEF Ancestors
<1>2. ParentClosed(Ancestors[b])
  <2> SUFFICES ASSUME NEW a \in Ancestors[b] \ {Genesis}
               PROVE  pprev[a] \in Ancestors[b]
    BY DEF ParentClosed
  <2>1. pprev[a] \in Blocks
    BY <1>1, TreeAssumption
  <2>2. ASSUME NEW S \in SUBSET Blocks, b \in S, ParentClosed(S)
        PROVE  pprev[a] \in S
    <3>1. a \in S
      BY <2>2 DEF Ancestors
    <3> QED
      BY <2>2, <3>1 DEF ParentClosed
  <2> QED
    BY <2>1, <2>2 DEF Ancestors
<1> QED
  BY <1>1, <1>2, GenesisInClosed

\* The ancestors of a member of a parent-closed set are members.
LEMMA AncestorsInClosed ==
    ASSUME NEW S \in SUBSET Blocks, ParentClosed(S), NEW b \in S
    PROVE  Ancestors[b] \subseteq S
BY DEF Ancestors

\* One step of the walk: the ancestors of a block are the block and those of its parent.
LEMMA AncestorsStep ==
    /\ Ancestors[Genesis] = {Genesis}
    /\ \A b \in Blocks \ {Genesis} :
          pprev[b] \in Blocks /\ Ancestors[b] = Ancestors[pprev[b]] \cup {b}
<1>1. Ancestors[Genesis] = {Genesis}
  <2>1. ParentClosed({Genesis}) /\ Genesis \in Blocks
    BY TreeAssumption DEF ParentClosed
  <2> QED
    BY <2>1, AncestorsInClosed, AncestorsProperties
<1>2. ASSUME NEW b \in Blocks \ {Genesis}
      PROVE  pprev[b] \in Blocks /\ Ancestors[b] = Ancestors[pprev[b]] \cup {b}
  <2>1. pprev[b] \in Blocks
    BY TreeAssumption
  <2> DEFINE S == Ancestors[pprev[b]] \cup {b}
  <2>2. S \in SUBSET Blocks /\ ParentClosed(S) /\ b \in S
    BY <2>1, AncestorsProperties DEF ParentClosed
  <2>3. Ancestors[b] \subseteq S
    BY <2>2, AncestorsInClosed
  <2>4. pprev[b] \in Ancestors[b] /\ b \in Ancestors[b]
    BY <1>2, AncestorsProperties DEF ParentClosed
  <2>5. Ancestors[pprev[b]] \subseteq Ancestors[b]
    BY <2>4, AncestorsInClosed, AncestorsProperties
  <2> QED
    BY <2>1, <2>3, <2>4, <2>5
<1> QED
  BY <1>1, <1>2

\* The ancestors of an ancestor are ancestors.
LEMMA AncestorsTransitive ==
    ASSUME NEW b \in Blocks, NEW a \in Ancestors[b]
    PROVE  a \in Blocks /\ Ancestors[a] \subseteq Ancestors[b]
BY AncestorsProperties, AncestorsInClosed

\* A walk along pprev is finite.
LEMMA AncestorsFinite == \A b \in Blocks : IsFiniteSet(Ancestors[b])
<1> DEFINE S == {b \in Blocks : IsFiniteSet(Ancestors[b])}
<1>1. Genesis \in S
  <2>1. IsFiniteSet({Genesis})
    BY FS_Singleton, Zenon
  <2> QED
    BY <2>1, AncestorsStep, TreeAssumption
<1>2. ASSUME NEW b \in Blocks \ {Genesis}, pprev[b] \in S PROVE b \in S
  <2>1. IsFiniteSet(Ancestors[pprev[b]])
    BY <1>2
  <2>2. IsFiniteSet(Ancestors[pprev[b]] \cup {b})
    BY <2>1, FS_AddElement
  <2>3. Ancestors[b] = Ancestors[pprev[b]] \cup {b}
    BY AncestorsStep
  <2> QED
    BY <2>2, <2>3
<1>3. Blocks \subseteq S
  <2> HIDE DEF S
  <2> QED
    BY <1>1, <1>2, TreeInduction
<1> QED
  BY <1>3

\* An ancestor is lower than the block or the block itself, and has no more work.
LEMMA AncestorsLower ==
    \A b \in Blocks : \A a \in Ancestors[b] :
        /\ nHeight[a] <= nHeight[b] /\ (nHeight[a] = nHeight[b] => a = b)
        /\ nChainWork[a] <= nChainWork[b]
<1> DEFINE S == {b \in Blocks : \A a \in Ancestors[b] :
                    /\ nHeight[a] <= nHeight[b] /\ (nHeight[a] = nHeight[b] => a = b)
                    /\ nChainWork[a] <= nChainWork[b]}
<1>1. Genesis \in S
  BY AncestorsStep, TreeAssumption, WorkAssumption
<1>2. ASSUME NEW b \in Blocks \ {Genesis}, pprev[b] \in S PROVE b \in S
  <2> SUFFICES ASSUME NEW a \in Ancestors[b]
               PROVE  /\ nHeight[a] <= nHeight[b] /\ (nHeight[a] = nHeight[b] => a = b)
                      /\ nChainWork[a] <= nChainWork[b]
    OBVIOUS
  <2>1. /\ nHeight[b] = nHeight[pprev[b]] + 1 /\ nChainWork[pprev[b]] <= nChainWork[b]
        /\ pprev[b] \in Blocks /\ a \in Blocks
        /\ nHeight[a] \in Nat /\ nHeight[b] \in Nat /\ nHeight[pprev[b]] \in Nat
        /\ nChainWork[a] \in Nat /\ nChainWork[b] \in Nat /\ nChainWork[pprev[b]] \in Nat
    BY AncestorsProperties, AncestorsStep, TreeAssumption, WorkAssumption
  <2>2. CASE a = b
    BY <2>1, <2>2
  <2>3. CASE a \in Ancestors[pprev[b]]
    <3>1. nHeight[a] <= nHeight[pprev[b]] /\ nChainWork[a] <= nChainWork[pprev[b]]
      BY <1>2, <2>3
    <3> QED
      BY <2>1, <3>1
  <2> QED
    BY <2>2, <2>3, AncestorsStep
<1>3. Blocks \subseteq S
  <2> HIDE DEF S
  <2> QED
    BY <1>1, <1>2, TreeInduction
<1> QED
  BY <1>3

\* Each height up to that of a block is that of one of its ancestors (GetAncestor).
LEMMA AncestorAtHeight ==
    \A b \in Blocks : \A h \in 0..nHeight[b] : \E a \in Ancestors[b] : nHeight[a] = h
<1> DEFINE S == {b \in Blocks : \A h \in 0..nHeight[b] :
                                   \E a \in Ancestors[b] : nHeight[a] = h}
<1>1. Genesis \in S
  <2>1. 0..nHeight[Genesis] = {0} /\ nHeight[Genesis] = 0 /\ Genesis \in Blocks
    BY TreeAssumption
  <2> QED
    BY <2>1, AncestorsStep
<1>2. ASSUME NEW b \in Blocks \ {Genesis}, pprev[b] \in S PROVE b \in S
  <2> SUFFICES ASSUME NEW h \in 0..nHeight[b]
               PROVE  \E a \in Ancestors[b] : nHeight[a] = h
    OBVIOUS
  <2>1. /\ nHeight[b] = nHeight[pprev[b]] + 1 /\ nHeight[pprev[b]] \in Nat
        /\ b \in Ancestors[b] /\ Ancestors[pprev[b]] \subseteq Ancestors[b]
    BY AncestorsStep, TreeAssumption
  <2>2. CASE h = nHeight[b]
    BY <2>1, <2>2
  <2>3. CASE h # nHeight[b]
    <3>1. h \in 0..nHeight[pprev[b]]
      BY <2>1, <2>3
    <3> QED
      BY <1>2, <2>1, <3>1
  <2> QED
    BY <2>2, <2>3
<1>3. Blocks \subseteq S
  <2> HIDE DEF S
  <2> QED
    BY <1>1, <1>2, TreeInduction
<1> QED
  BY <1>3

\* A part of a branch that is not empty has a highest block.
LEMMA HighestExists ==
    ASSUME NEW b \in Blocks, NEW P \in SUBSET Ancestors[b], P # {}
    PROVE  \E x \in P : \A y \in P : nHeight[y] <= nHeight[x]
<1> DEFINE S == {c \in Blocks : \A Q \in SUBSET Ancestors[c] : Q # {} =>
                    \E x \in Q : \A y \in Q : nHeight[y] <= nHeight[x]}
<1>1. Genesis \in S
  <2> SUFFICES ASSUME NEW Q \in SUBSET Ancestors[Genesis], Q # {}
               PROVE  \E x \in Q : \A y \in Q : nHeight[y] <= nHeight[x]
    BY TreeAssumption
  <2>1. Q = {Genesis} /\ nHeight[Genesis] <= nHeight[Genesis]
    BY AncestorsStep, TreeAssumption
  <2> QED
    BY <2>1
<1>2. ASSUME NEW c \in Blocks \ {Genesis}, pprev[c] \in S PROVE c \in S
  <2> SUFFICES ASSUME NEW Q \in SUBSET Ancestors[c], Q # {}
               PROVE  \E x \in Q : \A y \in Q : nHeight[y] <= nHeight[x]
    OBVIOUS
  <2>1. CASE c \in Q
    BY <2>1, AncestorsLower
  <2>2. CASE c \notin Q
    <3>1. Q \in SUBSET Ancestors[pprev[c]]
      BY <2>2, AncestorsStep
    <3> QED
      BY <1>2, <3>1
  <2> QED
    BY <2>1, <2>2
<1>3. Blocks \subseteq S
  <2> HIDE DEF S
  <2> QED
    BY <1>1, <1>2, TreeInduction
<1> QED
  BY <1>3

\* Two blocks have a last common ancestor: "eventually all chain branches meet at the
\* genesis block".
LEMMA CommonAncestorExists ==
    ASSUME NEW a \in Blocks, NEW b \in Blocks
    PROVE  \E c \in Ancestors[a] \cap Ancestors[b] :
              Ancestors[a] \cap Ancestors[b] \subseteq Ancestors[c]
<1> DEFINE S == {x \in Blocks : \E c \in Ancestors[x] \cap Ancestors[b] :
                    Ancestors[x] \cap Ancestors[b] \subseteq Ancestors[c]}
<1>1. Genesis \in S
  <2>1. /\ Ancestors[Genesis] = {Genesis} /\ Genesis \in Ancestors[b]
        /\ Genesis \in Blocks
    BY AncestorsStep, AncestorsProperties, TreeAssumption
  <2> QED
    BY <2>1
<1>2. ASSUME NEW x \in Blocks \ {Genesis}, pprev[x] \in S PROVE x \in S
  <2>1. Ancestors[x] = Ancestors[pprev[x]] \cup {x}
    BY AncestorsStep
  <2>2. CASE x \in Ancestors[b]
    BY <2>1, <2>2
  <2>3. CASE x \notin Ancestors[b]
    <3>1. Ancestors[x] \cap Ancestors[b] = Ancestors[pprev[x]] \cap Ancestors[b]
      BY <2>1, <2>3
    <3> QED
      BY <1>2, <3>1
  <2> QED
    BY <2>2, <2>3
<1>3. Blocks \subseteq S
  <2> HIDE DEF S
  <2> QED
    BY <1>1, <1>2, TreeInduction
<1> QED
  BY <1>3

=============================================================================
