------------------------ MODULE BlockDownloadProofs -------------------------
(***************************************************************************)
(* Proofs about BlockDownload, for every block tree, every finite set of   *)
(* peers and all limits.                                                   *)
(*                                                                         *)
(* The inductive invariant IInv adds to the invariants that a peer the     *)
(* message handler may still visit is not deleted, and that the blocks a   *)
(* thread is about to ask for, while it holds cs_main, are one peer's and  *)
(* not in flight.  Marking and releasing are facts about the record flight *)
(* alone: FlightExact is InFlightExact of any such record.                 *)
(***************************************************************************)
EXTENDS BlockDownload, BlockTreeProofs, SequenceTheorems, FunctionTheorems

\* the blocks in flight with validated headers
Validated(F) == {b \in Blocks : F.mapBlocksInFlight[b] # Null /\ ValidatedBit(F, b) = 1}

\* mapBlocksInFlight and the lists are the same relation, and a list has no block twice
SameRelation(F) ==
    \A p \in Peers :
        LET list == F.vBlocksInFlight[p]
        IN /\ {b \in Blocks : F.mapBlocksInFlight[b] = p} = {list[i][1] : i \in DOMAIN list}
           /\ \A i, j \in DOMAIN list : list[i][1] = list[j][1] => i = j

\* the counters count the lists
CountsLists(F) ==
    /\ \A p \in Peers :
          LET list == F.vBlocksInFlight[p]
          IN /\ F.nBlocksInFlight[p] = Len(list)
             /\ F.nBlocksInFlightValidHeaders[p] =
                   Cardinality({i \in DOMAIN list : list[i][2] = 1})
    /\ IsFiniteSet(Validated(F))
    /\ F.nQueuedValidatedHeaders = Cardinality(Validated(F))

\* a peer is blamed only while it owes a block
BlamedOwes(F) == \A p \in F.nStallingSince : F.vBlocksInFlight[p] # <<>>

\* what holds of the record of the blocks in flight
FlightExact(F) == F \in Flight /\ SameRelation(F) /\ CountsLists(F) /\ BlamedOwes(F)

\* the blocks of flight are owed by peers with a CNodeState
OwedByNodes == \A b \in Blocks : InFlight(b) => flight.mapBlocksInFlight[b] \in mapNodeState

\* the peers that a thread may still use have a CNodeState
NodesInv ==
    /\ vNodes \subseteq mapNodeState
    /\ vNodesDisconnected \subseteq mapNodeState
    /\ vNodes \cap vNodesDisconnected = {}
    /\ vNodesCopy \subseteq mapNodeState
    /\ fPreferredDownload \subseteq nVersion

\* the blocks that are about to be asked for are one peer's and not in flight
GetDataInv ==
    vGetData # {} =>
        \E p \in mapNodeState : vGetData \subseteq {p} \X {b \in Blocks : ~InFlight(b)}

\* The inductive invariant
IInv ==
    /\ TypeOK
    /\ NodesInv
    /\ FlightExact(flight)
    /\ OwedByNodes
    /\ GetDataInv
    /\ CountersExact

-----------------------------------------------------------------------------
\* Lists of blocks in flight

\* an entry of vBlocksInFlight
Entry == Blocks \X {0, 1}

\* the entries of a list, and the places of those with validated headers
Entries(list) == {list[i] : i \in DOMAIN list}
Marked(list) == {i \in DOMAIN list : list[i][2] = 1}

\* no block is in a list twice
Distinct(list) == \A i, j \in DOMAIN list : list[i][1] = list[j][1] => i = j

\* Erasing one element closes the gap.
LEMMA RemoveAtProperties ==
    ASSUME NEW S, NEW list \in Seq(S), NEW j \in 1..Len(list)
    PROVE  /\ RemoveAt(list, j) \in Seq(S)
           /\ Len(RemoveAt(list, j)) = Len(list) - 1
           /\ \A i \in 1..(Len(list) - 1) :
                 /\ i < j => RemoveAt(list, j)[i] = list[i]
                 /\ i >= j => RemoveAt(list, j)[i] = list[i + 1]
<1> DEFINE s1 == SubSeq(list, 1, j - 1)
           s2 == SubSeq(list, j + 1, Len(list))
           n == Len(list)
<1>1. n \in Nat /\ j \in Nat /\ \A i \in 1..n : list[i] \in S
  OBVIOUS
<1>2. /\ s1 \in Seq(S) /\ Len(s1) = j - 1
      /\ \A i \in 1..(j - 1) : s1[i] = list[i]
  OBVIOUS
<1>3. /\ s2 \in Seq(S) /\ Len(s2) = n - j
      /\ \A i \in 1..(n - j) : s2[i] = list[j + i]
  OBVIOUS
<1>4. RemoveAt(list, j) = s1 \o s2
  BY DEF RemoveAt
<1> HIDE DEF s1, s2
<1>5. /\ s1 \o s2 \in Seq(S) /\ Len(s1 \o s2) = n - 1
      /\ \A i \in 1..(n - 1) : (s1 \o s2)[i] = IF i <= Len(s1) THEN s1[i] ELSE s2[i - Len(s1)]
  <2>1. Len(s1) + Len(s2) = n - 1
    BY <1>1, <1>2, <1>3
  <2>2. /\ s1 \o s2 \in Seq(S) /\ Len(s1 \o s2) = Len(s1) + Len(s2)
        /\ \A i \in 1..(Len(s1) + Len(s2)) :
              (s1 \o s2)[i] = IF i <= Len(s1) THEN s1[i] ELSE s2[i - Len(s1)]
    BY <1>2, <1>3, ConcatProperties, Zenon
  <2> QED
    BY <2>1, <2>2, Zenon
<1>6. ASSUME NEW i \in 1..(n - 1), i < j PROVE (s1 \o s2)[i] = list[i]
  BY <1>1, <1>2, <1>5, <1>6
<1>7. ASSUME NEW i \in 1..(n - 1), i >= j PROVE (s1 \o s2)[i] = list[i + 1]
  <2>1. i - (j - 1) \in 1..(n - j) /\ ~(i <= j - 1)
    BY <1>1, <1>7
  <2>2. (s1 \o s2)[i] = s2[i - (j - 1)]
    BY <1>2, <1>5, <1>7, <2>1
  <2>3. s2[i - (j - 1)] = list[j + (i - (j - 1))]
    BY <1>3, <2>1
  <2>4. j + (i - (j - 1)) = i + 1
    BY <1>1
  <2> QED
    BY <2>2, <2>3, <2>4
<1> QED
  BY <1>4, <1>5, <1>6, <1>7

\* A list has finitely many marked entries; an empty one has none.
LEMMA MarkedFinite ==
    ASSUME NEW list \in Seq(Entry)
    PROVE  /\ IsFiniteSet(Marked(list)) /\ Cardinality(Marked(list)) \in Nat
           /\ DOMAIN list = 1..Len(list) /\ Len(list) \in Nat
<1>1. DOMAIN list = 1..Len(list) /\ Len(list) \in Nat
  OBVIOUS
<1>2. IsFiniteSet(1..Len(list))
  BY <1>1, FS_Interval
<1>3. Marked(list) \in SUBSET (1..Len(list))
  BY <1>1 DEF Marked
<1>4. IsFiniteSet(Marked(list))
  BY <1>2, <1>3, FS_Subset
<1> QED
  BY <1>1, <1>4, FS_CardinalityType

\* Appending an entry adds its bit to the count.
LEMMA AppendMarked ==
    ASSUME NEW list \in Seq(Entry), NEW b \in Blocks, NEW v \in {0, 1}
    PROVE  /\ Append(list, <<b, v>>) \in Seq(Entry)
           /\ Entries(Append(list, <<b, v>>)) = Entries(list) \cup {<<b, v>>}
           /\ Cardinality(Marked(Append(list, <<b, v>>))) = Cardinality(Marked(list)) + v
<1> DEFINE new == Append(list, <<b, v>>)
           n == Len(list)
<1>1. <<b, v>> \in Entry /\ <<b, v>>[2] = v
  BY DEF Entry
<1>2. /\ new \in Seq(Entry) /\ Len(new) = n + 1 /\ new[n + 1] = <<b, v>>
      /\ \A i \in 1..n : new[i] = list[i]
  BY <1>1, AppendProperties
<1>3. DOMAIN new = 1..(n + 1) /\ DOMAIN list = 1..n /\ n \in Nat
  BY <1>2
<1> HIDE DEF new
<1>4. Entries(new) = Entries(list) \cup {<<b, v>>}
  <2>1. DOMAIN new = DOMAIN list \cup {n + 1}
    BY <1>3
  <2> QED
    BY <1>2, <1>3, <2>1 DEF Entries
<1>5. Marked(new) = IF v = 1 THEN Marked(list) \cup {n + 1} ELSE Marked(list)
  <2>1. DOMAIN new = DOMAIN list \cup {n + 1} /\ n + 1 \notin DOMAIN list
    BY <1>3
  <2> QED
    BY <1>1, <1>2, <1>3, <2>1 DEF Marked
<1>6. n + 1 \notin Marked(list) /\ IsFiniteSet(Marked(list)) /\ Cardinality(Marked(list)) \in Nat
  BY <1>3, MarkedFinite DEF Marked
<1>7. Cardinality(Marked(new)) = Cardinality(Marked(list)) + v
  <2>1. CASE v = 1
    BY <1>5, <1>6, <2>1, FS_AddElement
  <2>2. CASE v = 0
    BY <1>5, <1>6, <2>2
  <2> QED
    BY <2>1, <2>2
<1> QED
  BY <1>2, <1>4, <1>7 DEF new

\* Erasing an entry takes its bit from the count: the places behind it move by one.
LEMMA RemoveMarked ==
    ASSUME NEW list \in Seq(Entry), NEW j \in 1..Len(list)
    PROVE  Cardinality(Marked(RemoveAt(list, j))) = Cardinality(Marked(list)) - list[j][2]
<1> DEFINE new == RemoveAt(list, j)
           n == Len(list)
           old == Marked(list) \ {j}
           f == [i \in old |-> IF i < j THEN i ELSE i - 1]
<1>1. /\ new \in Seq(Entry) /\ Len(new) = n - 1 /\ DOMAIN list = 1..n /\ n \in Nat
      /\ \A i \in 1..(n - 1) : /\ i < j => new[i] = list[i]
                               /\ i >= j => new[i] = list[i + 1]
  <2>1. DOMAIN list = 1..n /\ n \in Nat
    OBVIOUS
  <2> QED
    BY <2>1, RemoveAtProperties, Zenon
<1>2. DOMAIN new = 1..(n - 1) /\ j \in Nat /\ n \in Nat
  BY <1>1
<1> HIDE DEF new
<1>3. ASSUME NEW i \in old PROVE f[i] \in Marked(new)
  <2>1. i \in 1..n /\ i # j /\ list[i][2] = 1
    BY <1>1 DEF Marked
  <2>2. CASE i < j
    BY <1>1, <1>2, <2>1, <2>2 DEF Marked
  <2>3. CASE i > j
    <3>1. i - 1 \in 1..(n - 1) /\ i - 1 >= j /\ (i - 1) + 1 = i
      BY <1>1, <1>2, <2>1, <2>3
    <3>2. new[i - 1] = list[i]
      BY <1>1, <3>1
    <3>3. f[i] = i - 1
      BY <1>2, <2>1, <2>3
    <3> QED
      BY <1>2, <2>1, <3>1, <3>2, <3>3 DEF Marked
  <2> QED
    BY <1>2, <2>1, <2>2, <2>3
<1>4. f \in [old -> Marked(new)]
  BY <1>3
<1>5. ASSUME NEW a \in old, NEW c \in old, f[a] = f[c] PROVE a = c
  <2>1. a \in Nat /\ c \in Nat /\ a # j /\ c # j
    BY <1>1 DEF Marked
  <2> QED
    BY <1>2, <1>5, <2>1
<1>6. ASSUME NEW k \in Marked(new) PROVE \E i \in old : f[i] = k
  <2>1. k \in 1..(n - 1) /\ new[k][2] = 1
    BY <1>2 DEF Marked
  <2>2. CASE k < j
    <3>1. k \in old
      BY <1>1, <1>2, <2>1, <2>2 DEF Marked
    <3> QED
      BY <2>2, <3>1
  <2>3. CASE k >= j
    <3>1. k + 1 \in 1..n /\ k + 1 # j /\ ~(k + 1 < j) /\ (k + 1) - 1 = k
      BY <1>1, <1>2, <2>1, <2>3
    <3>2. k + 1 \in old
      BY <1>1, <2>1, <2>3, <3>1 DEF Marked
    <3>3. f[k + 1] = k
      BY <3>1, <3>2
    <3> QED
      BY <3>2, <3>3
  <2> QED
    BY <1>2, <2>1, <2>2, <2>3
<1>7. f \in Bijection(old, Marked(new))
  <2> HIDE DEF f, old
  <2> QED
    BY <1>4, <1>5, <1>6, Fun_IsBij
<1>8. IsFiniteSet(Marked(list)) /\ Cardinality(Marked(list)) \in Nat
  BY MarkedFinite
<1>9. IsFiniteSet(old)
      /\ Cardinality(old) = IF j \in Marked(list) THEN Cardinality(Marked(list)) - 1
                                                  ELSE Cardinality(Marked(list))
  BY <1>8, FS_RemoveElement
<1>10. Cardinality(Marked(new)) = Cardinality(old)
  <2> HIDE DEF f, old
  <2> QED
    BY <1>7, <1>9, FS_Bijection DEF ExistsBijection
<1>11. list[j] \in Entry
  BY <1>1
<1>12. list[j][2] \in {0, 1} /\ (j \in Marked(list) <=> list[j][2] = 1)
  BY <1>1, <1>11 DEF Entry, Marked
<1> QED
  BY <1>8, <1>9, <1>10, <1>12 DEF new

\* Erasing an entry of a list without repetition removes that entry and no other.
LEMMA RemoveEntries ==
    ASSUME NEW list \in Seq(Entry), Distinct(list), NEW j \in 1..Len(list)
    PROVE  /\ Entries(RemoveAt(list, j)) = Entries(list) \ {list[j]}
           /\ Distinct(RemoveAt(list, j))
<1> DEFINE new == RemoveAt(list, j)
           n == Len(list)
<1>1. /\ new \in Seq(Entry) /\ Len(new) = n - 1 /\ DOMAIN list = 1..n /\ n \in Nat
      /\ \A i \in 1..(n - 1) : /\ i < j => new[i] = list[i]
                               /\ i >= j => new[i] = list[i + 1]
  <2>1. DOMAIN list = 1..n /\ n \in Nat
    OBVIOUS
  <2> QED
    BY <2>1, RemoveAtProperties, Zenon
<1>2. DOMAIN new = 1..(n - 1) /\ j \in Nat /\ n \in Nat
  BY <1>1
<1> HIDE DEF new
<1>3. ASSUME NEW i \in 1..(n - 1)
      PROVE  \E k \in 1..n : k # j /\ new[i] = list[k] /\ ((k = i /\ i < j) \/ (k = i + 1 /\ i >= j))
  <2>1. CASE i < j
    <3>1. i \in 1..n /\ i # j
      BY <1>2, <2>1
    <3>2. new[i] = list[i]
      BY <1>1, <2>1
    <3> QED
      BY <2>1, <3>1, <3>2
  <2>2. CASE i >= j
    <3>1. i + 1 \in 1..n /\ i + 1 # j
      BY <1>1, <1>2, <2>2
    <3> QED
      BY <1>1, <2>2, <3>1
  <2> QED
    BY <1>2, <2>1, <2>2
<1>4. ASSUME NEW k \in 1..n, k # j PROVE \E i \in 1..(n - 1) : new[i] = list[k]
  <2>1. CASE k < j
    BY <1>1, <1>2, <2>1
  <2>2. CASE k > j
    <3>1. k - 1 \in 1..(n - 1) /\ k - 1 >= j /\ (k - 1) + 1 = k
      BY <1>1, <1>2, <2>2
    <3>2. new[k - 1] = list[k]
      BY <1>1, <3>1
    <3> QED
      BY <3>1, <3>2
  <2> QED
    BY <1>2, <1>4, <2>1, <2>2
<1>5. \A k \in 1..n : k # j => list[k] # list[j]
  BY <1>1 DEF Distinct
<1>6. Entries(new) = Entries(list) \ {list[j]}
  <2>1. ASSUME NEW e \in Entries(new) PROVE e \in Entries(list) /\ e # list[j]
    <3>1. PICK i \in 1..(n - 1) : e = new[i]
      BY <1>2 DEF Entries
    <3>2. PICK k \in 1..n : k # j /\ new[i] = list[k]
      BY <1>3
    <3> QED
      BY <1>1, <1>5, <3>1, <3>2 DEF Entries
  <2>2. ASSUME NEW e \in Entries(list), e # list[j] PROVE e \in Entries(new)
    <3>1. PICK k \in 1..n : e = list[k]
      BY <1>1 DEF Entries
    <3>2. PICK i \in 1..(n - 1) : new[i] = list[k]
      BY <1>4, <2>2, <3>1
    <3> QED
      BY <1>2, <3>1, <3>2 DEF Entries
  <2> QED
    BY <2>1, <2>2
<1>7. Distinct(new)
  <2> SUFFICES ASSUME NEW a \in 1..(n - 1), NEW c \in 1..(n - 1), new[a][1] = new[c][1]
               PROVE  a = c
    BY <1>2 DEF Distinct
  <2>1. PICK k \in 1..n : new[a] = list[k] /\ ((k = a /\ a < j) \/ (k = a + 1 /\ a >= j))
    BY <1>3
  <2>2. PICK m \in 1..n : new[c] = list[m] /\ ((m = c /\ c < j) \/ (m = c + 1 /\ c >= j))
    BY <1>3
  <2>3. k = m
    BY <1>1, <2>1, <2>2 DEF Distinct
  <2> QED
    BY <1>2, <2>1, <2>2, <2>3
<1> QED
  BY <1>6, <1>7 DEF new

-----------------------------------------------------------------------------
\* The record of the blocks in flight

\* b is in flight from p, said by the list
Owes(F, p, b) == \E v \in {0, 1} : <<b, v>> \in Entries(F.vBlocksInFlight[p])

\* SameRelation in terms of entries.
LEMMA SameRelationOwes ==
    ASSUME NEW F \in Flight
    PROVE  SameRelation(F) <=>
              \A p \in Peers : /\ Distinct(F.vBlocksInFlight[p])
                               /\ \A b \in Blocks : F.mapBlocksInFlight[b] = p <=> Owes(F, p, b)
<1> SUFFICES ASSUME NEW p \in Peers
             PROVE  LET list == F.vBlocksInFlight[p]
                    IN {b \in Blocks : F.mapBlocksInFlight[b] = p}
                          = {list[i][1] : i \in DOMAIN list}
                       <=> \A b \in Blocks : F.mapBlocksInFlight[b] = p <=> Owes(F, p, b)
  BY DEF SameRelation, Distinct
<1> DEFINE list == F.vBlocksInFlight[p]
<1>1. list \in Seq(Entry)
  BY DEF Flight, Entry
<1>2. \A i \in DOMAIN list : /\ list[i] = <<list[i][1], list[i][2]>>
                             /\ list[i][1] \in Blocks /\ list[i][2] \in {0, 1}
  BY <1>1 DEF Entry
<1> HIDE DEF list
<1>3. \A b \in Blocks : (b \in {list[i][1] : i \in DOMAIN list}) <=>
                        \E v \in {0, 1} : <<b, v>> \in Entries(list)
  <2> SUFFICES ASSUME NEW b \in Blocks
               PROVE  (b \in {list[i][1] : i \in DOMAIN list}) <=>
                      \E v \in {0, 1} : <<b, v>> \in Entries(list)
    OBVIOUS
  <2>1. ASSUME NEW i \in DOMAIN list, b = list[i][1]
        PROVE  \E v \in {0, 1} : <<b, v>> \in Entries(list)
    BY <1>2, <2>1 DEF Entries
  <2>2. ASSUME NEW v \in {0, 1}, <<b, v>> \in Entries(list)
        PROVE  \E i \in DOMAIN list : b = list[i][1]
    BY <2>2 DEF Entries
  <2> QED
    BY <2>1, <2>2
<1>4. {list[i][1] : i \in DOMAIN list} \subseteq Blocks
  BY <1>2
<1>5. \A b \in Blocks : Owes(F, p, b) <=> b \in {list[i][1] : i \in DOMAIN list}
  BY <1>3 DEF Owes, list
<1> QED
  BY <1>4, <1>5 DEF list

\* The iterator of a block in a list points to an entry of it.
LEMMA PlaceOfProperties ==
    ASSUME NEW list \in Seq(Entry), NEW b, NEW v, <<b, v>> \in Entries(list)
    PROVE  /\ PlaceOf(list, b) \in DOMAIN list
           /\ list[PlaceOf(list, b)][1] = b
           /\ PlaceOf(list, b) \in 1..Len(list)
           /\ Distinct(list) => list[PlaceOf(list, b)] = <<b, v>>
<1>1. PICK i \in DOMAIN list : list[i] = <<b, v>>
  BY DEF Entries
<1>2. \E k \in DOMAIN list : list[k][1] = b
  BY <1>1
<1>3. PlaceOf(list, b) \in DOMAIN list /\ list[PlaceOf(list, b)][1] = b
  BY <1>2 DEF PlaceOf
<1>4. Distinct(list) => PlaceOf(list, b) = i
  BY <1>1, <1>3 DEF Distinct
<1> QED
  BY <1>1, <1>3, <1>4

\* The validated blocks in terms of entries, and what the bit of a block is.
LEMMA ValidatedEntries ==
    ASSUME NEW F \in Flight, SameRelation(F)
    PROVE  /\ \A p \in Peers, b \in Blocks, v \in {0, 1} :
                 <<b, v>> \in Entries(F.vBlocksInFlight[p]) =>
                    F.mapBlocksInFlight[b] = p /\ ValidatedBit(F, b) = v
           /\ \A b \in Blocks : b \in Validated(F) <=>
                 \E p \in Peers : <<b, 1>> \in Entries(F.vBlocksInFlight[p])
<1>1. \A p \in Peers : F.vBlocksInFlight[p] \in Seq(Entry)
  BY DEF Flight, Entry
<1>2. \A p \in Peers : Distinct(F.vBlocksInFlight[p])
  BY SameRelationOwes
<1>3. \A p \in Peers, b \in Blocks : F.mapBlocksInFlight[b] = p <=> Owes(F, p, b)
  BY SameRelationOwes
<1>4. ASSUME NEW p \in Peers, NEW b \in Blocks, NEW v \in {0, 1},
             <<b, v>> \in Entries(F.vBlocksInFlight[p])
      PROVE  F.mapBlocksInFlight[b] = p /\ ValidatedBit(F, b) = v
  <2>1. F.mapBlocksInFlight[b] = p
    BY <1>3, <1>4 DEF Owes
  <2>2. F.vBlocksInFlight[p][PlaceOf(F.vBlocksInFlight[p], b)] = <<b, v>>
    BY <1>1, <1>2, <1>4, PlaceOfProperties
  <2> QED
    BY <2>1, <2>2 DEF ValidatedBit
<1>5. ASSUME NEW b \in Blocks, b \in Validated(F)
      PROVE  \E p \in Peers : <<b, 1>> \in Entries(F.vBlocksInFlight[p])
  <2>1. F.mapBlocksInFlight[b] \in Peers /\ ValidatedBit(F, b) = 1
    BY <1>5 DEF Validated, Flight
  <2>2. PICK v \in {0, 1} : <<b, v>> \in Entries(F.vBlocksInFlight[F.mapBlocksInFlight[b]])
    BY <1>3, <2>1 DEF Owes
  <2>3. v = 1
    BY <1>4, <2>1, <2>2
  <2> QED
    BY <2>1, <2>2, <2>3
<1>6. ASSUME NEW b \in Blocks, NEW p \in Peers, <<b, 1>> \in Entries(F.vBlocksInFlight[p])
      PROVE  b \in Validated(F)
  BY <1>4, <1>6, PeersAssumption DEF Validated
<1> QED
  BY <1>4, <1>5, <1>6

\* MarkBlockAsReceived keeps the record exact and frees b, and no other block.
LEMMA ReceivedExact ==
    ASSUME NEW F, FlightExact(F), NEW b \in Blocks, NEW G, G = MarkBlockAsReceived(F, b)
    PROVE  /\ FlightExact(G)
           /\ G.mapBlocksInFlight[b] = Null
           /\ \A c \in Blocks : c # b => G.mapBlocksInFlight[c] = F.mapBlocksInFlight[c]
<1> DEFINE p == F.mapBlocksInFlight[b]
           list == F.vBlocksInFlight[p]
           j == PlaceOf(list, b)
           bit == ValidatedBit(F, b)
<1>1. F \in Flight /\ SameRelation(F) /\ CountsLists(F) /\ BlamedOwes(F)
  BY DEF FlightExact
<1>2. CASE p = Null
  BY <1>1, <1>2 DEF MarkBlockAsReceived, FlightExact
<1>3. CASE p # Null
  <2>1. p \in Peers /\ list \in Seq(Entry)
    BY <1>1, <1>3 DEF Flight, Entry
  <2>2. /\ Distinct(list) /\ \A q \in Peers : Distinct(F.vBlocksInFlight[q])
        /\ \A q \in Peers, c \in Blocks : F.mapBlocksInFlight[c] = q <=> Owes(F, q, c)
    BY <1>1, <2>1, SameRelationOwes
  <2>3. PICK v \in {0, 1} : <<b, v>> \in Entries(list)
    BY <2>1, <2>2 DEF Owes
  <2>4. j \in 1..Len(list) /\ list[j] = <<b, v>> /\ j \in DOMAIN list
    BY <2>1, <2>2, <2>3, PlaceOfProperties
  <2>5. bit = v
    BY <1>1, <2>1, <2>3, ValidatedEntries
  <2>6. G = [F EXCEPT !.mapBlocksInFlight[b] = Null,
                      !.vBlocksInFlight[p] = RemoveAt(@, j),
                      !.nBlocksInFlight[p] = @ - 1,
                      !.nBlocksInFlightValidHeaders[p] = @ - v,
                      !.nQueuedValidatedHeaders = @ - v,
                      !.nStallingSince = @ \ {p}]
    BY <1>3, <2>5 DEF MarkBlockAsReceived, Without
  <2> DEFINE new == RemoveAt(list, j)
  <2> HIDE DEF p, j, bit
  <2>7. /\ G.mapBlocksInFlight = [F.mapBlocksInFlight EXCEPT ![b] = Null]
        /\ G.vBlocksInFlight = [F.vBlocksInFlight EXCEPT ![p] = new]
        /\ G.nBlocksInFlight = [F.nBlocksInFlight EXCEPT ![p] = @ - 1]
        /\ G.nBlocksInFlightValidHeaders = [F.nBlocksInFlightValidHeaders EXCEPT ![p] = @ - v]
        /\ G.nQueuedValidatedHeaders = F.nQueuedValidatedHeaders - v
        /\ G.nStallingSince = F.nStallingSince \ {p}
        /\ DOMAIN G = DOMAIN F
    BY <1>1, <2>6 DEF Flight
  <2>8. /\ G.mapBlocksInFlight[b] = Null
        /\ \A c \in Blocks : c # b => G.mapBlocksInFlight[c] = F.mapBlocksInFlight[c]
        /\ G.vBlocksInFlight[p] = new
        /\ \A q \in Peers : q # p => G.vBlocksInFlight[q] = F.vBlocksInFlight[q]
    BY <1>1, <2>1, <2>7 DEF Flight
  <2>9. /\ new \in Seq(Entry) /\ Len(new) = Len(list) - 1
        /\ Entries(new) = Entries(list) \ {<<b, v>>} /\ Distinct(new)
        /\ Cardinality(Marked(new)) = Cardinality(Marked(list)) - v
    <3>1. list[j][2] = v
      BY <2>4
    <3>2. new \in Seq(Entry) /\ Len(new) = Len(list) - 1
      BY <2>1, <2>4, RemoveAtProperties
    <3>3. Entries(new) = Entries(list) \ {<<b, v>>} /\ Distinct(new)
      <4>1. Distinct(list)
        BY <2>2
      <4> HIDE DEF list
      <4>2. Entries(new) = Entries(list) \ {list[j]} /\ Distinct(new)
        BY <2>1, <2>4, <4>1, RemoveEntries
      <4> QED
        BY <2>4, <4>2
    <3>4. Cardinality(Marked(new)) = Cardinality(Marked(list)) - v
      BY <2>1, <2>4, <3>1, RemoveMarked
    <3> QED
      BY <3>2, <3>3, <3>4
  <2> HIDE DEF new
  <2>10. /\ F.nBlocksInFlight[p] = Len(list)
         /\ F.nBlocksInFlightValidHeaders[p] = Cardinality(Marked(list))
         /\ IsFiniteSet(Validated(F)) /\ F.nQueuedValidatedHeaders = Cardinality(Validated(F))
    BY <1>1, <2>1 DEF CountsLists, Marked
  <2>11. /\ Len(new) \in Nat /\ Cardinality(Marked(new)) \in Nat
         /\ Len(list) \in Nat /\ Cardinality(Marked(list)) \in Nat
    BY <2>1, <2>9, MarkedFinite
  <2>12. /\ G.nBlocksInFlight \in [Peers -> Nat] /\ G.nBlocksInFlight[p] = Len(new)
         /\ \A q \in Peers : q # p => G.nBlocksInFlight[q] = F.nBlocksInFlight[q]
    BY <1>1, <2>1, <2>7, <2>9, <2>10, <2>11 DEF Flight
  <2>13. /\ G.nBlocksInFlightValidHeaders \in [Peers -> Nat]
         /\ G.nBlocksInFlightValidHeaders[p] = Cardinality(Marked(new))
         /\ \A q \in Peers : q # p => G.nBlocksInFlightValidHeaders[q]
                                         = F.nBlocksInFlightValidHeaders[q]
    BY <1>1, <2>1, <2>7, <2>9, <2>10, <2>11 DEF Flight
  <2>14. /\ G.mapBlocksInFlight \in [Blocks -> Peers \cup {Null}]
         /\ G.vBlocksInFlight \in [Peers -> Seq(Blocks \X {0, 1})]
         /\ G.nStallingSince \in SUBSET Peers
    BY <1>1, <2>1, <2>7, <2>9 DEF Flight, Entry
  <2>15. ASSUME NEW q \in Peers, NEW c \in Blocks, NEW u \in {0, 1}
         PROVE  <<c, u>> \in Entries(G.vBlocksInFlight[q]) <=>
                   c # b /\ <<c, u>> \in Entries(F.vBlocksInFlight[q])
    <3>1. CASE q = p
      <4>1. ASSUME c = b PROVE <<c, u>> \notin Entries(new)
        <5>1. <<c, u>> \in Entries(list) => u = v
          BY <1>1, <2>1, <2>3, <4>1, ValidatedEntries
        <5> QED
          BY <2>9, <4>1, <5>1
      <4>2. ASSUME c # b PROVE <<c, u>> \in Entries(new) <=> <<c, u>> \in Entries(list)
        BY <2>9, <4>2
      <4> QED
        BY <2>8, <3>1, <4>1, <4>2
    <3>2. CASE q # p
      <4>1. <<b, u>> \notin Entries(F.vBlocksInFlight[q])
        BY <2>2, <3>2 DEF Owes, p
      <4> QED
        BY <2>8, <3>2, <4>1
    <3> QED
      BY <3>1, <3>2
  <2>16. Validated(F) \ {b} = {c \in Blocks : c # b /\ \E q \in Peers :
                                  <<c, 1>> \in Entries(F.vBlocksInFlight[q])}
    <3>1. Validated(F) \subseteq Blocks
      BY DEF Validated
    <3> QED
      BY <1>1, <3>1, ValidatedEntries
  <2>17. /\ IsFiniteSet(Validated(F) \ {b})
         /\ Cardinality(Validated(F) \ {b}) = F.nQueuedValidatedHeaders - v
         /\ Cardinality(Validated(F) \ {b}) \in Nat
    <3>1. b \in Validated(F) <=> v = 1
      BY <1>3, <2>5 DEF Validated, bit, p
    <3>2. Cardinality(Validated(F)) \in Nat
      BY <2>10, FS_CardinalityType
    <3>3. /\ IsFiniteSet(Validated(F) \ {b})
          /\ Cardinality(Validated(F) \ {b}) = IF b \in Validated(F)
                THEN Cardinality(Validated(F)) - 1 ELSE Cardinality(Validated(F))
      BY <2>10, FS_RemoveElement
    <3>4. Cardinality(Validated(F) \ {b}) \in Nat
      BY <3>3, FS_CardinalityType
    <3> QED
      BY <2>10, <3>1, <3>2, <3>3, <3>4
  <2>18. G \in Flight
    <3>1. G.nQueuedValidatedHeaders \in Nat
      BY <2>7, <2>17
    <3>2. G = [F EXCEPT !.mapBlocksInFlight = G.mapBlocksInFlight,
                        !.vBlocksInFlight = G.vBlocksInFlight,
                        !.nBlocksInFlight = G.nBlocksInFlight,
                        !.nBlocksInFlightValidHeaders = G.nBlocksInFlightValidHeaders,
                        !.nQueuedValidatedHeaders = G.nQueuedValidatedHeaders,
                        !.nStallingSince = G.nStallingSince]
      BY <1>1, <2>6 DEF Flight
    <3> QED
      BY <1>1, <2>12, <2>13, <2>14, <3>1, <3>2 DEF Flight
  <2>19. SameRelation(G)
    <3> SUFFICES ASSUME NEW q \in Peers
                 PROVE  /\ Distinct(G.vBlocksInFlight[q])
                        /\ \A c \in Blocks : G.mapBlocksInFlight[c] = q <=> Owes(G, q, c)
      BY <2>18, SameRelationOwes
    <3>1. Distinct(G.vBlocksInFlight[q])
      BY <2>2, <2>8, <2>9
    <3>2. ASSUME NEW c \in Blocks PROVE G.mapBlocksInFlight[c] = q <=> Owes(G, q, c)
      <4>1. Owes(G, q, c) <=> c # b /\ Owes(F, q, c)
        BY <2>15 DEF Owes
      <4> QED
        BY <2>2, <2>8, <4>1, PeersAssumption
    <3> QED
      BY <3>1, <3>2
  <2>20. Validated(G) = Validated(F) \ {b}
    <3>1. Validated(G) \subseteq Blocks
      BY DEF Validated
    <3>2. \A c \in Blocks : c \in Validated(G) <=>
             \E q \in Peers : <<c, 1>> \in Entries(G.vBlocksInFlight[q])
      BY <2>18, <2>19, ValidatedEntries
    <3> QED
      BY <2>15, <2>16, <3>1, <3>2
  <2>21. CountsLists(G)
    <3> SUFFICES ASSUME NEW q \in Peers
                 PROVE  /\ G.nBlocksInFlight[q] = Len(G.vBlocksInFlight[q])
                        /\ G.nBlocksInFlightValidHeaders[q]
                              = Cardinality(Marked(G.vBlocksInFlight[q]))
      BY <2>7, <2>17, <2>20 DEF CountsLists, Marked
    <3>1. CASE q = p
      BY <2>8, <2>12, <2>13, <3>1
    <3>2. CASE q # p
      <4>1. /\ F.nBlocksInFlight[q] = Len(F.vBlocksInFlight[q])
            /\ F.nBlocksInFlightValidHeaders[q] = Cardinality(Marked(F.vBlocksInFlight[q]))
        BY <1>1 DEF CountsLists, Marked
      <4> QED
        BY <2>8, <2>12, <2>13, <3>2, <4>1
    <3> QED
      BY <3>1, <3>2
  <2>22. BlamedOwes(G)
    BY <1>1, <2>7, <2>8, <2>14 DEF BlamedOwes
  <2> QED
    BY <2>8, <2>18, <2>19, <2>21, <2>22 DEF FlightExact
<1> QED
  BY <1>2, <1>3

\* MarkBlockAsInFlight keeps the record exact: b is in flight from p, and no other
\* block changes.
LEMMA InFlightExactMarked ==
    ASSUME NEW F, FlightExact(F), NEW p \in Peers, NEW b \in Blocks, NEW v \in {0, 1},
           NEW H, H = MarkBlockAsInFlight(F, p, b, v)
    PROVE  /\ FlightExact(H)
           /\ H.mapBlocksInFlight[b] = p
           /\ \A c \in Blocks : c # b => H.mapBlocksInFlight[c] = F.mapBlocksInFlight[c]
<1> DEFINE G == MarkBlockAsReceived(F, b)
           list == G.vBlocksInFlight[p]
           new == Append(list, <<b, v>>)
<1>1. H = [G EXCEPT !.mapBlocksInFlight[b] = p,
                    !.vBlocksInFlight[p] = Append(@, <<b, v>>),
                    !.nBlocksInFlight[p] = @ + 1,
                    !.nBlocksInFlightValidHeaders[p] = @ + v,
                    !.nQueuedValidatedHeaders = @ + v]
  BY DEF MarkBlockAsInFlight
<1>2. /\ FlightExact(G) /\ G.mapBlocksInFlight[b] = Null
      /\ \A c \in Blocks : c # b => G.mapBlocksInFlight[c] = F.mapBlocksInFlight[c]
  BY ReceivedExact
<1> HIDE DEF G
<1>3. G \in Flight /\ SameRelation(G) /\ CountsLists(G) /\ BlamedOwes(G)
  BY <1>2 DEF FlightExact
<1>4. list \in Seq(Entry) /\ Len(list) \in Nat
  BY <1>3 DEF Flight, Entry
<1>5. /\ H.mapBlocksInFlight = [G.mapBlocksInFlight EXCEPT ![b] = p]
      /\ H.vBlocksInFlight = [G.vBlocksInFlight EXCEPT ![p] = new]
      /\ H.nBlocksInFlight = [G.nBlocksInFlight EXCEPT ![p] = @ + 1]
      /\ H.nBlocksInFlightValidHeaders = [G.nBlocksInFlightValidHeaders EXCEPT ![p] = @ + v]
      /\ H.nQueuedValidatedHeaders = G.nQueuedValidatedHeaders + v
      /\ H.nStallingSince = G.nStallingSince
  BY <1>1, <1>3 DEF Flight
<1>6. /\ H.mapBlocksInFlight[b] = p
      /\ \A c \in Blocks : c # b => H.mapBlocksInFlight[c] = G.mapBlocksInFlight[c]
      /\ H.vBlocksInFlight[p] = new
      /\ \A q \in Peers : q # p => H.vBlocksInFlight[q] = G.vBlocksInFlight[q]
  BY <1>3, <1>5 DEF Flight
<1>7. \A q \in Peers : /\ Distinct(G.vBlocksInFlight[q])
                       /\ \A c \in Blocks : G.mapBlocksInFlight[c] = q <=> Owes(G, q, c)
  BY <1>3, SameRelationOwes
<1>8. \A q \in Peers : ~Owes(G, q, b)
  BY <1>2, <1>7, PeersAssumption
<1>9. /\ new \in Seq(Entry) /\ Entries(new) = Entries(list) \cup {<<b, v>>}
      /\ Cardinality(Marked(new)) = Cardinality(Marked(list)) + v
      /\ Len(new) = Len(list) + 1 /\ new # <<>>
  <2>1. <<b, v>> \in Entry
    BY DEF Entry
  <2> HIDE DEF list
  <2>2. /\ new \in Seq(Entry) /\ Entries(new) = Entries(list) \cup {<<b, v>>}
        /\ Cardinality(Marked(new)) = Cardinality(Marked(list)) + v
    BY <1>4, AppendMarked, Zenon
  <2>3. Len(new) = Len(list) + 1
    BY <1>4, <2>1, AppendProperties
  <2>4. new # <<>>
    BY <1>4, <2>2, <2>3
  <2> QED
    BY <2>2, <2>3, <2>4
<1>10. Distinct(new)
  <2>1. \A i \in 1..Len(list) : list[i][1] # b
    <3> SUFFICES ASSUME NEW i \in 1..Len(list), list[i][1] = b PROVE FALSE
      OBVIOUS
    <3>1. list[i] \in Entry /\ i \in DOMAIN list
      BY <1>4
    <3>2. list[i] = <<b, list[i][2]>> /\ list[i][2] \in {0, 1}
      BY <3>1 DEF Entry
    <3>3. <<b, list[i][2]>> \in Entries(list)
      BY <3>1, <3>2 DEF Entries
    <3> QED
      BY <1>8, <3>2, <3>3 DEF Owes
  <2>2. Distinct(list)
    BY <1>7
  <2>3. <<b, v>> \in Entry
    BY DEF Entry
  <2> HIDE DEF list
  <2>4. /\ \A i \in 1..Len(list) : new[i] = list[i]
        /\ new[Len(list) + 1] = <<b, v>> /\ <<b, v>>[1] = b
        /\ DOMAIN new = 1..(Len(list) + 1) /\ DOMAIN list = 1..Len(list)
    BY <1>4, <2>3, AppendProperties
  <2> HIDE DEF new
  <2> SUFFICES ASSUME NEW i \in 1..(Len(list) + 1), NEW k \in 1..(Len(list) + 1),
                      new[i][1] = new[k][1]
               PROVE  i = k
    BY <2>4 DEF Distinct
  <2>5. CASE i \in 1..Len(list) /\ k \in 1..Len(list)
    BY <2>2, <2>4, <2>5 DEF Distinct
  <2>6. CASE i = Len(list) + 1 /\ k \in 1..Len(list)
    BY <2>1, <2>4, <2>6
  <2>7. CASE i \in 1..Len(list) /\ k = Len(list) + 1
    BY <2>1, <2>4, <2>7
  <2>8. (i \in 1..Len(list) \/ i = Len(list) + 1) /\ (k \in 1..Len(list) \/ k = Len(list) + 1)
    BY <1>4
  <2> QED
    BY <2>5, <2>6, <2>7, <2>8
<1> HIDE DEF new
<1>11. ASSUME NEW q \in Peers, NEW c \in Blocks, NEW u \in {0, 1}
       PROVE  <<c, u>> \in Entries(H.vBlocksInFlight[q]) <=>
                 \/ <<c, u>> \in Entries(G.vBlocksInFlight[q])
                 \/ q = p /\ c = b /\ u = v
  <2>1. CASE q = p
    BY <1>6, <1>9, <2>1
  <2>2. CASE q # p
    BY <1>6, <2>2
  <2> QED
    BY <2>1, <2>2
<1>12. /\ G.nBlocksInFlight[p] = Len(list)
       /\ G.nBlocksInFlightValidHeaders[p] = Cardinality(Marked(list))
       /\ IsFiniteSet(Validated(G)) /\ G.nQueuedValidatedHeaders = Cardinality(Validated(G))
  BY <1>3 DEF CountsLists, Marked
<1>13. Cardinality(Validated(G)) \in Nat /\ Cardinality(Marked(list)) \in Nat
  BY <1>4, <1>12, FS_CardinalityType, MarkedFinite
<1>14. H \in Flight
  <2>1. H.mapBlocksInFlight \in [Blocks -> Peers \cup {Null}]
    BY <1>3, <1>5 DEF Flight
  <2>2. H.vBlocksInFlight \in [Peers -> Seq(Blocks \X {0, 1})]
    BY <1>3, <1>5, <1>9 DEF Flight, Entry
  <2>3. H.nBlocksInFlight \in [Peers -> Nat] /\ H.nBlocksInFlightValidHeaders \in [Peers -> Nat]
    BY <1>3, <1>5 DEF Flight
  <2>4. H.nQueuedValidatedHeaders \in Nat /\ H.nStallingSince \in SUBSET Peers
    BY <1>3, <1>5, <1>12, <1>13 DEF Flight
  <2>5. H = [G EXCEPT !.mapBlocksInFlight = H.mapBlocksInFlight,
                      !.vBlocksInFlight = H.vBlocksInFlight,
                      !.nBlocksInFlight = H.nBlocksInFlight,
                      !.nBlocksInFlightValidHeaders = H.nBlocksInFlightValidHeaders,
                      !.nQueuedValidatedHeaders = H.nQueuedValidatedHeaders,
                      !.nStallingSince = H.nStallingSince]
    BY <1>1, <1>3 DEF Flight
  <2> QED
    BY <1>3, <2>1, <2>2, <2>3, <2>4, <2>5 DEF Flight
<1>15. SameRelation(H)
  <2> SUFFICES ASSUME NEW q \in Peers
               PROVE  /\ Distinct(H.vBlocksInFlight[q])
                      /\ \A c \in Blocks : H.mapBlocksInFlight[c] = q <=> Owes(H, q, c)
    BY <1>14, SameRelationOwes
  <2>1. Distinct(H.vBlocksInFlight[q])
    BY <1>6, <1>7, <1>10
  <2>2. ASSUME NEW c \in Blocks PROVE H.mapBlocksInFlight[c] = q <=> Owes(H, q, c)
    <3>1. Owes(H, q, c) <=> Owes(G, q, c) \/ (q = p /\ c = b)
      BY <1>11 DEF Owes
    <3> QED
      BY <1>6, <1>7, <1>8, <3>1
  <2> QED
    BY <2>1, <2>2
<1>16. Validated(H) = IF v = 1 THEN Validated(G) \cup {b} ELSE Validated(G)
  <2>1. Validated(G) \subseteq Blocks /\ Validated(H) \subseteq Blocks
    BY DEF Validated
  <2>2. \A c \in Blocks : c \in Validated(H) <=>
           \E q \in Peers : <<c, 1>> \in Entries(H.vBlocksInFlight[q])
    BY <1>14, <1>15, ValidatedEntries
  <2>3. \A c \in Blocks : c \in Validated(G) <=>
           \E q \in Peers : <<c, 1>> \in Entries(G.vBlocksInFlight[q])
    BY <1>3, ValidatedEntries
  <2>4. \A c \in Blocks : c \in Validated(H) <=> c \in Validated(G) \/ (c = b /\ v = 1)
    BY <1>11, <2>2, <2>3
  <2> QED
    BY <2>1, <2>4
<1>17. /\ IsFiniteSet(Validated(H))
       /\ H.nQueuedValidatedHeaders = Cardinality(Validated(H))
  <2>1. b \notin Validated(G)
    BY <1>2 DEF Validated
  <2>2. CASE v = 1
    BY <1>5, <1>12, <1>16, <2>1, <2>2, FS_AddElement
  <2>3. CASE v = 0
    BY <1>5, <1>12, <1>13, <1>16, <2>3
  <2> QED
    BY <2>2, <2>3
<1>18. CountsLists(H)
  <2> SUFFICES ASSUME NEW q \in Peers
               PROVE  /\ H.nBlocksInFlight[q] = Len(H.vBlocksInFlight[q])
                      /\ H.nBlocksInFlightValidHeaders[q]
                            = Cardinality(Marked(H.vBlocksInFlight[q]))
    BY <1>17 DEF CountsLists, Marked
  <2>1. /\ G.nBlocksInFlight[q] = Len(G.vBlocksInFlight[q])
        /\ G.nBlocksInFlightValidHeaders[q] = Cardinality(Marked(G.vBlocksInFlight[q]))
    BY <1>3 DEF CountsLists, Marked
  <2>2. /\ H.nBlocksInFlight[q] = IF q = p THEN G.nBlocksInFlight[q] + 1
                                           ELSE G.nBlocksInFlight[q]
        /\ H.nBlocksInFlightValidHeaders[q] =
              IF q = p THEN G.nBlocksInFlightValidHeaders[q] + v
                       ELSE G.nBlocksInFlightValidHeaders[q]
    BY <1>3, <1>5 DEF Flight
  <2>3. CASE q = p
    BY <1>6, <1>9, <1>12, <2>2, <2>3
  <2>4. CASE q # p
    BY <1>6, <2>1, <2>2, <2>4
  <2> QED
    BY <2>3, <2>4
<1>19. BlamedOwes(H)
  <2> SUFFICES ASSUME NEW q \in G.nStallingSince PROVE H.vBlocksInFlight[q] # <<>>
    BY <1>5 DEF BlamedOwes
  <2>1. q \in Peers /\ G.vBlocksInFlight[q] # <<>>
    BY <1>3 DEF BlamedOwes, Flight
  <2> QED
    BY <1>6, <1>9, <2>1
<1> QED
  BY <1>2, <1>6, <1>14, <1>15, <1>18, <1>19 DEF FlightExact

\* The validated blocks of a list are as many as its marked entries.
LEMMA MarkedBlocks ==
    ASSUME NEW list \in Seq(Entry), Distinct(list)
    PROVE  LET gone == {c \in Blocks : <<c, 1>> \in Entries(list)}
           IN IsFiniteSet(gone) /\ Cardinality(gone) = Cardinality(Marked(list))
<1> DEFINE gone == {c \in Blocks : <<c, 1>> \in Entries(list)}
           f == [i \in Marked(list) |-> list[i][1]]
<1>1. \A i \in Marked(list) : /\ i \in DOMAIN list /\ list[i] = <<list[i][1], 1>>
                              /\ list[i][1] \in Blocks
  BY DEF Marked, Entry
<1>2. f \in [Marked(list) -> gone]
  BY <1>1 DEF Entries
<1>3. \A a, c \in Marked(list) : f[a] = f[c] => a = c
  BY <1>1 DEF Distinct
<1>4. ASSUME NEW c \in gone PROVE \E i \in Marked(list) : f[i] = c
  <2>1. PICK i \in DOMAIN list : list[i] = <<c, 1>>
    BY DEF Entries
  <2>2. i \in Marked(list) /\ list[i][1] = c
    BY <2>1 DEF Marked
  <2> QED
    BY <2>2
<1>5. f \in Bijection(Marked(list), gone)
  <2> HIDE DEF f, gone
  <2> QED
    BY <1>2, <1>3, <1>4, Fun_IsBij
<1>6. IsFiniteSet(Marked(list))
  BY MarkedFinite
<1> HIDE DEF f, gone
<1>7. IsFiniteSet(gone) /\ Cardinality(gone) = Cardinality(Marked(list))
  BY <1>5, <1>6, FS_Bijection DEF ExistsBijection
<1> QED
  BY <1>7 DEF gone

\* FinalizeNode keeps the record exact: the blocks in flight from p are nobody's, and
\* no other block changes.
LEMMA ReleaseExact ==
    ASSUME NEW F, FlightExact(F), NEW p \in Peers, NEW G, G = ReleasePeer(F, p)
    PROVE  /\ FlightExact(G)
           /\ \A c \in Blocks : G.mapBlocksInFlight[c] =
                 IF F.mapBlocksInFlight[c] = p THEN Null ELSE F.mapBlocksInFlight[c]
<1> DEFINE list == F.vBlocksInFlight[p]
           gone == {c \in Blocks : <<c, 1>> \in Entries(list)}
<1>1. F \in Flight /\ SameRelation(F) /\ CountsLists(F) /\ BlamedOwes(F)
  BY DEF FlightExact
<1>2. list \in Seq(Entry)
  BY <1>1 DEF Flight, Entry
<1>3. \A c \in Blocks : (\E i \in DOMAIN list : list[i][1] = c) <=> F.mapBlocksInFlight[c] = p
  BY <1>1 DEF SameRelation
<1>4. /\ G.mapBlocksInFlight = [c \in Blocks |-> IF \E i \in DOMAIN list : list[i][1] = c
                                   THEN Null ELSE F.mapBlocksInFlight[c]]
      /\ G.vBlocksInFlight = [F.vBlocksInFlight EXCEPT ![p] = <<>>]
      /\ G.nBlocksInFlight = [F.nBlocksInFlight EXCEPT ![p] = 0]
      /\ G.nBlocksInFlightValidHeaders = [F.nBlocksInFlightValidHeaders EXCEPT ![p] = 0]
      /\ G.nQueuedValidatedHeaders = F.nQueuedValidatedHeaders - Cardinality(Marked(list))
      /\ G.nStallingSince = F.nStallingSince \ {p}
  BY <1>1 DEF Flight, ReleasePeer, Marked
<1>5. G = [F EXCEPT !.mapBlocksInFlight = G.mapBlocksInFlight,
                    !.vBlocksInFlight = G.vBlocksInFlight,
                    !.nBlocksInFlight = G.nBlocksInFlight,
                    !.nBlocksInFlightValidHeaders = G.nBlocksInFlightValidHeaders,
                    !.nQueuedValidatedHeaders = G.nQueuedValidatedHeaders,
                    !.nStallingSince = G.nStallingSince]
  BY <1>1 DEF Flight, ReleasePeer
<1>6. \A c \in Blocks : G.mapBlocksInFlight[c] =
         IF F.mapBlocksInFlight[c] = p THEN Null ELSE F.mapBlocksInFlight[c]
  BY <1>3, <1>4
<1>7. /\ G.vBlocksInFlight[p] = <<>>
      /\ \A q \in Peers : q # p => G.vBlocksInFlight[q] = F.vBlocksInFlight[q]
  BY <1>1, <1>4 DEF Flight
<1>8. \A q \in Peers : /\ Distinct(F.vBlocksInFlight[q])
                       /\ \A c \in Blocks : F.mapBlocksInFlight[c] = q <=> Owes(F, q, c)
  BY <1>1, SameRelationOwes
<1>9. Entries(<<>>) = {} /\ Distinct(<<>>) /\ Marked(<<>>) = {} /\ Len(<<>>) = 0
  BY DEF Entries, Distinct, Marked
<1>10. gone \subseteq Validated(F)
  BY <1>1, ValidatedEntries
<1>11. /\ IsFiniteSet(Validated(F)) /\ F.nQueuedValidatedHeaders = Cardinality(Validated(F))
       /\ F.nBlocksInFlightValidHeaders[p] = Cardinality(Marked(list))
  BY <1>1 DEF CountsLists, Marked
<1>12. IsFiniteSet(gone) /\ Cardinality(gone) = Cardinality(Marked(list))
  BY <1>2, <1>8, MarkedBlocks
<1> HIDE DEF list
<1>13. /\ IsFiniteSet(Validated(F) \ gone)
       /\ Cardinality(Validated(F) \ gone) = F.nQueuedValidatedHeaders - Cardinality(Marked(list))
       /\ Cardinality(Validated(F) \ gone) \in Nat
  <2> HIDE DEF gone
  <2>1. Validated(F) \cap gone = gone
    BY <1>10
  <2>2. /\ IsFiniteSet(Validated(F) \ gone)
        /\ Cardinality(Validated(F) \ gone)
              = Cardinality(Validated(F)) - Cardinality(Validated(F) \cap gone)
    BY <1>11, FS_Difference
  <2> QED
    BY <1>11, <1>12, <2>1, <2>2, FS_CardinalityType
<1>14. G \in Flight
  <2>1. G.mapBlocksInFlight \in [Blocks -> Peers \cup {Null}]
    BY <1>1, <1>4 DEF Flight
  <2>2. G.vBlocksInFlight \in [Peers -> Seq(Blocks \X {0, 1})]
    BY <1>1, <1>4 DEF Flight
  <2>3. G.nBlocksInFlight \in [Peers -> Nat] /\ G.nBlocksInFlightValidHeaders \in [Peers -> Nat]
    BY <1>1, <1>4 DEF Flight
  <2>4. G.nQueuedValidatedHeaders \in Nat /\ G.nStallingSince \in SUBSET Peers
    BY <1>1, <1>4, <1>13 DEF Flight
  <2> QED
    BY <1>1, <1>5, <2>1, <2>2, <2>3, <2>4 DEF Flight
<1>15. ASSUME NEW q \in Peers, NEW c \in Blocks, NEW u \in {0, 1}
       PROVE  <<c, u>> \in Entries(G.vBlocksInFlight[q]) <=>
                 q # p /\ <<c, u>> \in Entries(F.vBlocksInFlight[q])
  <2>1. CASE q = p
    BY <1>7, <1>9, <2>1
  <2>2. CASE q # p
    BY <1>7, <2>2
  <2> QED
    BY <2>1, <2>2
<1>16. SameRelation(G)
  <2> SUFFICES ASSUME NEW q \in Peers
               PROVE  /\ Distinct(G.vBlocksInFlight[q])
                      /\ \A c \in Blocks : G.mapBlocksInFlight[c] = q <=> Owes(G, q, c)
    BY <1>14, SameRelationOwes
  <2>1. Distinct(G.vBlocksInFlight[q])
    BY <1>7, <1>8, <1>9
  <2>2. ASSUME NEW c \in Blocks PROVE G.mapBlocksInFlight[c] = q <=> Owes(G, q, c)
    <3>1. Owes(G, q, c) <=> q # p /\ Owes(F, q, c)
      BY <1>15 DEF Owes
    <3> QED
      BY <1>6, <1>8, <3>1, PeersAssumption
  <2> QED
    BY <2>1, <2>2
<1>17. Validated(G) = Validated(F) \ gone
  <2>1. Validated(G) \subseteq Blocks /\ Validated(F) \subseteq Blocks
    BY DEF Validated
  <2>2. \A c \in Blocks : c \in Validated(G) <=>
           \E q \in Peers : <<c, 1>> \in Entries(G.vBlocksInFlight[q])
    BY <1>14, <1>16, ValidatedEntries
  <2>3. \A c \in Blocks : c \in Validated(F) <=>
           \E q \in Peers : <<c, 1>> \in Entries(F.vBlocksInFlight[q])
    BY <1>1, ValidatedEntries
  <2>4. \A c \in Blocks, q \in Peers :
           <<c, 1>> \in Entries(F.vBlocksInFlight[q]) => F.mapBlocksInFlight[c] = q
    BY <1>8 DEF Owes
  <2>5. \A c \in Blocks : c \in gone <=> <<c, 1>> \in Entries(F.vBlocksInFlight[p])
    BY DEF list
  <2>6. \A c \in Blocks : c \in Validated(G) <=> c \in Validated(F) /\ c \notin gone
    <3> HIDE DEF gone
    <3> SUFFICES ASSUME NEW c \in Blocks
                 PROVE  c \in Validated(G) <=> c \in Validated(F) /\ c \notin gone
      OBVIOUS
    <3>1. c \in Validated(G) <=>
             \E q \in Peers : q # p /\ <<c, 1>> \in Entries(F.vBlocksInFlight[q])
      BY <1>15, <2>2
    <3> QED
      BY <2>3, <2>4, <2>5, <3>1
  <2> QED
    BY <2>1, <2>6
<1>18. CountsLists(G)
  <2> SUFFICES ASSUME NEW q \in Peers
               PROVE  /\ G.nBlocksInFlight[q] = Len(G.vBlocksInFlight[q])
                      /\ G.nBlocksInFlightValidHeaders[q]
                            = Cardinality(Marked(G.vBlocksInFlight[q]))
    BY <1>4, <1>13, <1>17 DEF CountsLists, Marked
  <2>1. CASE q = p
    <3>1. G.nBlocksInFlight[q] = 0 /\ G.nBlocksInFlightValidHeaders[q] = 0
      BY <1>1, <1>4, <2>1 DEF Flight
    <3>2. Cardinality(Marked(<<>>)) = 0
      BY <1>9, FS_EmptySet
    <3> QED
      BY <1>7, <1>9, <2>1, <3>1, <3>2
  <2>2. CASE q # p
    <3>1. /\ F.nBlocksInFlight[q] = Len(F.vBlocksInFlight[q])
          /\ F.nBlocksInFlightValidHeaders[q] = Cardinality(Marked(F.vBlocksInFlight[q]))
      BY <1>1 DEF CountsLists, Marked
    <3>2. /\ G.nBlocksInFlight[q] = F.nBlocksInFlight[q]
          /\ G.nBlocksInFlightValidHeaders[q] = F.nBlocksInFlightValidHeaders[q]
      BY <1>1, <1>4, <2>2 DEF Flight
    <3> QED
      BY <1>7, <2>2, <3>1, <3>2
  <2> QED
    BY <2>1, <2>2
<1>19. BlamedOwes(G)
  <2> SUFFICES ASSUME NEW q \in F.nStallingSince, q # p PROVE G.vBlocksInFlight[q] # <<>>
    BY <1>4 DEF BlamedOwes
  <2>1. q \in Peers /\ F.vBlocksInFlight[q] # <<>>
    BY <1>1 DEF BlamedOwes, Flight
  <2> QED
    BY <1>7, <2>1
<1> QED
  BY <1>6, <1>14, <1>16, <1>18, <1>19 DEF FlightExact

\* FindNextBlocksToDownload blames a peer that owes a block: the record stays exact.
LEMMA BlameExact ==
    ASSUME NEW F, FlightExact(F), NEW q \in Peers, F.vBlocksInFlight[q] # <<>>,
           NEW G, G = [F EXCEPT !.nStallingSince = @ \cup {q}]
    PROVE  FlightExact(G) /\ G.mapBlocksInFlight = F.mapBlocksInFlight
<1>1. F \in Flight /\ SameRelation(F) /\ CountsLists(F) /\ BlamedOwes(F)
  BY DEF FlightExact
<1>2. /\ G.mapBlocksInFlight = F.mapBlocksInFlight
      /\ G.vBlocksInFlight = F.vBlocksInFlight
      /\ G.nBlocksInFlight = F.nBlocksInFlight
      /\ G.nBlocksInFlightValidHeaders = F.nBlocksInFlightValidHeaders
      /\ G.nQueuedValidatedHeaders = F.nQueuedValidatedHeaders
      /\ G.nStallingSince = F.nStallingSince \cup {q}
      /\ G \in Flight
  BY <1>1 DEF Flight
<1>3. SameRelation(G)
  BY <1>1, <1>2 DEF SameRelation
<1>4. Validated(G) = Validated(F)
  BY <1>2 DEF Validated, ValidatedBit
<1>5. CountsLists(G)
  BY <1>1, <1>2, <1>4 DEF CountsLists
<1>6. BlamedOwes(G)
  BY <1>1, <1>2 DEF BlamedOwes
<1> QED
  BY <1>2, <1>3, <1>5, <1>6 DEF FlightExact

\* Nothing in flight is exact.
LEMMA NothingExact == FlightExact(NothingInFlight)
<1> DEFINE F == NothingInFlight
<1>1. /\ F.mapBlocksInFlight = [b \in Blocks |-> Null]
      /\ F.vBlocksInFlight = [p \in Peers |-> <<>>]
      /\ F.nBlocksInFlight = [p \in Peers |-> 0]
      /\ F.nBlocksInFlightValidHeaders = [p \in Peers |-> 0]
      /\ F.nQueuedValidatedHeaders = 0
      /\ F.nStallingSince = {}
      /\ F \in Flight
  BY DEF NothingInFlight, Flight
<1> HIDE DEF F
<1>2. SameRelation(F)
  BY <1>1, PeersAssumption DEF SameRelation
<1>3. Validated(F) = {}
  BY <1>1 DEF Validated
<1>4. CountsLists(F)
  <2>1. \A p \in Peers : LET list == F.vBlocksInFlight[p]
                         IN list = <<>> /\ Len(list) = 0 /\ {i \in DOMAIN list : list[i][2] = 1} = {}
    BY <1>1
  <2> QED
    BY <1>1, <1>3, <2>1, FS_EmptySet DEF CountsLists
<1>5. BlamedOwes(F)
  BY <1>1 DEF BlamedOwes
<1> QED
  BY <1>1, <1>2, <1>4, <1>5 DEF FlightExact, F

-----------------------------------------------------------------------------
\* What a peer is asked for

\* The best block that a peer is known to have is a block or NULL.
LEMMA BestTyped ==
    ASSUME TypeOK, NEW p \in Peers, NEW index \in SUBSET Blocks
    PROVE  /\ BestKnown(p, index) \in Blocks \cup {Null}
           /\ LastUnknown(p, index) \in Blocks \cup {Null}
           /\ \A b \in Blocks : BestOf(BestKnown(p, index), b) \in Blocks \cup {Null}
<1>1. pindexBestKnownBlock[p] \in Blocks \cup {Null} /\ hashLastUnknownBlock[p] \in Blocks \cup {Null}
  BY DEF TypeOK
<1>2. Known(index) \subseteq Blocks
  BY DEF Known
<1> QED
  BY <1>1, <1>2 DEF BestKnown, LastUnknown, BestOf

\* The fork point is on the chain of the peer's best block: the active chain has a
\* block at the height of the guess, and two chains have a last common block.
LEMMA ForkTyped ==
    ASSUME TypeOK, NEW p \in Peers, NEW best \in Blocks
    PROVE  ForkPoint(p, best) \in Ancestors[best] /\ ForkPoint(p, best) \in Blocks
<1> DEFINE height == IF nHeight[best] < nHeight[tip] THEN nHeight[best] ELSE nHeight[tip]
           guess == CHOOSE a \in Ancestors[tip] : nHeight[a] = height
           start == IF pindexLastCommonBlock[p] = Null THEN guess ELSE pindexLastCommonBlock[p]
<1>1. tip \in Blocks /\ pindexLastCommonBlock[p] \in Blocks \cup {Null}
  BY DEF TypeOK
<1>2. nHeight[tip] \in Nat /\ nHeight[best] \in Nat
  BY <1>1, TreeAssumption
<1>3. height \in 0..nHeight[tip]
  BY <1>2
<1> HIDE DEF height
<1>4. guess \in Ancestors[tip]
  <2>1. \E a \in Ancestors[tip] : nHeight[a] = height
    BY <1>1, <1>3, AncestorAtHeight
  <2> QED
    BY <2>1
<1> HIDE DEF guess
<1>5. start \in Blocks
  BY <1>1, <1>4, AncestorsProperties
<1>6. ForkPoint(p, best) = LastCommonAncestor(start, best)
  BY DEF ForkPoint, guess, height
<1> HIDE DEF start
<1>7. \E c \in Ancestors[start] \cap Ancestors[best] :
         Ancestors[start] \cap Ancestors[best] \subseteq Ancestors[c]
  BY <1>5, CommonAncestorExists
<1>8. LastCommonAncestor(start, best) \in Ancestors[start] \cap Ancestors[best]
  BY <1>7 DEF LastCommonAncestor
<1> QED
  BY <1>6, <1>8, AncestorsProperties

\* pindexLastCommonBlock stays a block or NULL: the highest stored block exists.
LEMMA CommonTyped ==
    ASSUME TypeOK, NEW p \in Peers, NEW best \in Blocks \cup {Null}
    PROVE  NewCommon(p, best) \in Blocks \cup {Null}
<1>1. CASE NothingInteresting(best)
  BY <1>1 DEF NewCommon, TypeOK
<1>2. CASE ~NothingInteresting(best)
  <2> DEFINE fork == ForkPoint(p, best)
             stored == (InReach(fork, best) \cap FullyStored) \cup {fork}
  <2>1. best \in Blocks
    BY <1>2 DEF NothingInteresting
  <2>2. fork \in Ancestors[best]
    BY <2>1, ForkTyped
  <2> HIDE DEF fork
  <2>3. stored \in SUBSET Ancestors[best] /\ stored # {}
    BY <2>2 DEF InReach
  <2>4. NewCommon(p, best) = CHOOSE b \in stored : \A c \in stored : nHeight[c] <= nHeight[b]
    BY <1>2 DEF NewCommon, fork
  <2> HIDE DEF stored
  <2>5. \E b \in stored : \A c \in stored : nHeight[c] <= nHeight[b]
    BY <2>1, <2>3, HighestExists
  <2>6. NewCommon(p, best) \in stored
    BY <2>4, <2>5
  <2> QED
    BY <2>1, <2>3, <2>6, AncestorsProperties
<1> QED
  BY <1>1, <1>2

\* What is asked for is neither stored nor in flight.
LEMMA FetchedMissing ==
    ASSUME TypeOK, NEW p \in Peers
    PROVE  /\ \A b \in Blocks : DirectFetch(p, b) \subseteq {c \in Blocks : ~InFlight(c)}
           /\ \A best \in Blocks \cup {Null} :
                 VToDownload(p, best) \subseteq {c \in Blocks : ~InFlight(c)}
<1>1. \A S, n : Lowest(S, n) \subseteq S /\ Highest(S, n) \subseteq S
  BY DEF Lowest, Highest
<1>2. ASSUME NEW b \in Blocks
      PROVE  DirectFetch(p, b) \subseteq {c \in Blocks : ~InFlight(c)}
  <2> DEFINE missing == {c \in Ancestors[b] \ Ancestors[tip] : Missing(c)}
             walked == Highest(missing, MAX_BLOCKS_IN_TRANSIT_PER_PEER + 1)
  <2>1. missing \subseteq {c \in Blocks : ~InFlight(c)}
    BY AncestorsProperties DEF Missing
  <2> HIDE DEF missing
  <2>2. walked \subseteq missing /\ Lowest(walked, Room(p)) \subseteq walked
    BY <1>1
  <2>3. DirectFetch(p, b) \subseteq Lowest(walked, Room(p))
    BY DEF DirectFetch, missing
  <2> HIDE DEF walked
  <2> QED
    BY <2>1, <2>2, <2>3
<1>3. ASSUME NEW best \in Blocks \cup {Null}
      PROVE  VToDownload(p, best) \subseteq {c \in Blocks : ~InFlight(c)}
  <2>1. CASE NothingInteresting(best)
    BY <2>1 DEF VToDownload
  <2>2. CASE ~NothingInteresting(best)
    <3> DEFINE fork == ForkPoint(p, best)
               S == {b \in InReach(fork, best) : Missing(b) /\ InWindow(fork, b)}
    <3>1. best \in Blocks
      BY <2>2 DEF NothingInteresting
    <3>2. S \subseteq {c \in Blocks : ~InFlight(c)}
      BY <3>1, AncestorsProperties DEF Missing, InReach
    <3>3. VToDownload(p, best) = Lowest(S, Room(p))
      BY <2>2 DEF VToDownload
    <3> HIDE DEF S
    <3> QED
      BY <1>1, <3>2, <3>3
  <2> QED
    BY <2>1, <2>2
<1> QED
  BY <1>2, <1>3

\* The peer that is found to hold up the window owes a block.
LEMMA StallerOwes ==
    ASSUME TypeOK, FlightExact(flight), NEW p \in Peers, NEW best \in Blocks \cup {Null},
           Staller(p, best) # Null
    PROVE  Staller(p, best) \in Peers /\ flight.vBlocksInFlight[Staller(p, best)] # <<>>
<1> DEFINE fork == ForkPoint(p, best)
           reach == InReach(fork, best)
           waiting == {b \in reach \ haveData : InFlight(b)}
           waitingfor == CHOOSE b \in waiting : \A c \in waiting : nHeight[b] <= nHeight[c]
           q == Staller(p, best)
<1>1. ~NothingInteresting(best)
  BY DEF Staller
<1>2. best \in Blocks
  BY <1>1 DEF NothingInteresting
<1>3. waiting \in SUBSET Blocks
  BY <1>2, AncestorsProperties DEF InReach
<1>4. waiting # {} /\ q = flight.mapBlocksInFlight[waitingfor]
  BY <1>1 DEF Staller
<1> HIDE DEF waiting
<1>5. \E b \in waiting : \A c \in waiting : nHeight[b] <= nHeight[c]
  BY <1>3, <1>4, LowestExists
<1>6. waitingfor \in waiting
  BY <1>5
<1> HIDE DEF waitingfor
<1>7. waitingfor \in Blocks /\ InFlight(waitingfor)
  BY <1>3, <1>6 DEF waiting
<1>8. flight \in Flight /\ SameRelation(flight)
  BY DEF FlightExact
<1>9. q \in Peers
  BY <1>4, <1>7, <1>8 DEF Flight, InFlight
<1> HIDE DEF q
<1>10. Owes(flight, q, waitingfor)
  BY <1>4, <1>7, <1>8, <1>9, SameRelationOwes
<1>11. flight.vBlocksInFlight[q] # <<>>
  BY <1>10 DEF Owes, Entries
<1> QED
  BY <1>9, <1>11 DEF q

-----------------------------------------------------------------------------
\* The steps

\* a block in flight stays with its peer or becomes nobody's
NotPassedOn ==
    \A b \in Blocks : InFlight(b) => flight'.mapBlocksInFlight[b] \in
                                        {flight.mapBlocksInFlight[b], Null}

\* A step that leaves the blocks in flight alone and deletes no peer keeps what is said
\* of them.
LEMMA FlightKept ==
    ASSUME IInv, UNCHANGED <<flight, vGetData>>, mapNodeState \subseteq mapNodeState'
    PROVE  FlightExact(flight)' /\ OwedByNodes' /\ GetDataInv' /\ NotPassedOn
<1>1. FlightExact(flight) /\ OwedByNodes /\ GetDataInv /\ flight' = flight
  BY DEF IInv
<1>2. FlightExact(flight)'
  BY <1>1
<1>3. OwedByNodes' /\ NotPassedOn
  BY <1>1 DEF OwedByNodes, InFlight, NotPassedOn
<1>4. GetDataInv'
  BY <1>1 DEF GetDataInv, InFlight
<1> QED
  BY <1>2, <1>3, <1>4

\* MarkBlockAsReceived keeps what is said of the blocks in flight.
LEMMA ReceivedKept ==
    ASSUME IInv, NEW b \in Blocks, flight' = MarkBlockAsReceived(flight, b),
           UNCHANGED mapNodeState, vGetData = {}, vGetData' = {}
    PROVE  FlightExact(flight)' /\ OwedByNodes' /\ GetDataInv' /\ NotPassedOn
<1>1. FlightExact(flight) /\ OwedByNodes
  BY DEF IInv
<1>2. /\ FlightExact(flight')
      /\ flight'.mapBlocksInFlight[b] = Null
      /\ \A c \in Blocks : c # b => flight'.mapBlocksInFlight[c] = flight.mapBlocksInFlight[c]
  BY <1>1, ReceivedExact
<1>3. OwedByNodes'
  BY <1>1, <1>2 DEF OwedByNodes, InFlight
<1>4. NotPassedOn
  BY <1>2 DEF NotPassedOn
<1> QED
  BY <1>2, <1>3, <1>4 DEF GetDataInv

\* Asking a peer with a CNodeState for a block that is not in flight keeps what is said of
\* the blocks in flight.
LEMMA MarkedKept ==
    ASSUME IInv, NEW p \in mapNodeState, NEW b \in Blocks, NEW v \in {0, 1}, ~InFlight(b),
           flight' = MarkBlockAsInFlight(flight, p, b, v), UNCHANGED mapNodeState
    PROVE  FlightExact(flight)' /\ OwedByNodes' /\ NotPassedOn
           /\ \A c \in Blocks : c # b => (InFlight(c)' <=> InFlight(c))
<1>1. FlightExact(flight) /\ OwedByNodes /\ p \in Peers
  BY DEF IInv, TypeOK
<1>2. /\ FlightExact(flight')
      /\ flight'.mapBlocksInFlight[b] = p
      /\ \A c \in Blocks : c # b => flight'.mapBlocksInFlight[c] = flight.mapBlocksInFlight[c]
  BY <1>1, InFlightExactMarked
<1>3. OwedByNodes'
  BY <1>1, <1>2 DEF OwedByNodes, InFlight
<1>4. NotPassedOn
  BY <1>2 DEF NotPassedOn
<1>5. \A c \in Blocks : c # b => (InFlight(c)' <=> InFlight(c))
  BY <1>2 DEF InFlight
<1> QED
  BY <1>2, <1>3, <1>4, <1>5

\* InitializeNode: a new peer is in no other set.
LEMMA InitializeNodeKeeps ==
    ASSUME IInv, NEW p \in Peers, InitializeNode(p) PROVE IInv' /\ NotPassedOn
<1>1. TypeOK /\ NodesInv /\ CountersExact
  BY DEF IInv
<1>2. TypeOK'
  <2>1. connections' \in [Peers -> 0..MaxConnections]
    BY <1>1, LimitsAssumption DEF InitializeNode, TypeOK
  <2> QED
    BY <1>1, <2>1 DEF InitializeNode, TypeOK, chainVars, handlerVars, knownVars, syncVars
<1>3. NodesInv'
  BY <1>1 DEF InitializeNode, TypeOK, NodesInv, handlerVars, syncVars
<1>4. FlightExact(flight)' /\ OwedByNodes' /\ GetDataInv' /\ NotPassedOn
  BY FlightKept DEF InitializeNode
<1>5. CountersExact'
  BY <1>1 DEF InitializeNode, CountersExact, syncVars
<1> QED
  BY <1>2, <1>3, <1>4, <1>5 DEF IInv

\* SocketFails: only a visited peer is disconnected.
LEMMA SocketFailsKeeps ==
    ASSUME IInv, NEW p \in Peers, SocketFails(p) PROVE IInv' /\ NotPassedOn
<1>1. TypeOK /\ NodesInv /\ CountersExact
  BY DEF IInv
<1>2. TypeOK'
  BY <1>1 DEF SocketFails, TypeOK, NodesInv, chainVars, handlerVars, knownVars, syncVars
<1>3. NodesInv'
  BY <1>1 DEF SocketFails, NodesInv, handlerVars, syncVars
<1>4. FlightExact(flight)' /\ OwedByNodes' /\ GetDataInv' /\ NotPassedOn
  BY FlightKept DEF SocketFails
<1>5. CountersExact'
  BY <1>1 DEF SocketFails, CountersExact, syncVars
<1> QED
  BY <1>2, <1>3, <1>4, <1>5 DEF IInv

\* DisconnectNode: the peer moves from vNodes to vNodesDisconnected.
LEMMA DisconnectNodeKeeps ==
    ASSUME IInv, NEW p \in Peers, DisconnectNode(p) PROVE IInv' /\ NotPassedOn
<1>1. TypeOK /\ NodesInv /\ CountersExact
  BY DEF IInv
<1>2. TypeOK'
  BY <1>1 DEF DisconnectNode, TypeOK, chainVars, handlerVars, knownVars, syncVars
<1>3. NodesInv'
  BY <1>1 DEF DisconnectNode, NodesInv, handlerVars, syncVars
<1>4. FlightExact(flight)' /\ OwedByNodes' /\ GetDataInv' /\ NotPassedOn
  BY FlightKept DEF DisconnectNode
<1>5. CountersExact'
  BY <1>1 DEF DisconnectNode, CountersExact, syncVars
<1> QED
  BY <1>2, <1>3, <1>4, <1>5 DEF IInv

\* A peer that leaves a finite set of peers is counted once when it was in it.
LEMMA LeaveCounted ==
    ASSUME NEW S \in SUBSET Peers, NEW p
    PROVE  Cardinality(S \ {p}) = Cardinality(S) - Cardinality({p} \cap S)
           /\ Cardinality(S \ {p}) \in Nat
<1>1. IsFiniteSet(S)
  BY PeersAssumption, FS_Subset
<1>2. /\ IsFiniteSet(S \ {p})
      /\ Cardinality(S \ {p}) = IF p \in S THEN Cardinality(S) - 1 ELSE Cardinality(S)
  BY <1>1, FS_RemoveElement
<1>3. Cardinality({p}) = 1 /\ Cardinality({}) = 0
  BY FS_Singleton, FS_EmptySet
<1>4. {p} \cap S = IF p \in S THEN {p} ELSE {}
  OBVIOUS
<1>5. Cardinality(S) \in Nat /\ Cardinality(S \ {p}) \in Nat
  BY <1>1, <1>2, FS_CardinalityType
<1>6. CASE p \in S
  <2>1. Cardinality({p} \cap S) = 1
    BY <1>3, <1>4, <1>6
  <2> QED
    BY <1>2, <1>5, <1>6, <2>1
<1>7. CASE p \notin S
  <2>1. Cardinality({p} \cap S) = 0
    BY <1>3, <1>4, <1>7
  <2> QED
    BY <1>2, <1>5, <1>7, <2>1
<1> QED
  BY <1>6, <1>7

\* A peer that joins a finite set of peers is counted once.
LEMMA JoinCounted ==
    ASSUME NEW S \in SUBSET Peers, NEW p \in Peers, p \notin S
    PROVE  Cardinality(S \cup {p}) = Cardinality(S) + 1 /\ Cardinality(S) \in Nat
<1>1. IsFiniteSet(S)
  BY PeersAssumption, FS_Subset
<1> QED
  BY <1>1, FS_AddElement, FS_CardinalityType

\* FinalizeNode: a deleted peer is visited no more, owes nothing and is counted nowhere.
LEMMA FinalizeNodeKeeps ==
    ASSUME IInv, NEW p \in Peers, FinalizeNode(p) PROVE IInv' /\ NotPassedOn
<1>1. TypeOK /\ NodesInv /\ CountersExact /\ FlightExact(flight) /\ OwedByNodes
  BY DEF IInv
<1>2. /\ FlightExact(flight')
      /\ \A c \in Blocks : flight'.mapBlocksInFlight[c] =
            IF flight.mapBlocksInFlight[c] = p THEN Null ELSE flight.mapBlocksInFlight[c]
  BY <1>1, ReleaseExact DEF FinalizeNode
<1>3. /\ fPreferredDownload' = fPreferredDownload \ {p}
      /\ nPreferredDownload' = Cardinality(fPreferredDownload \ {p})
      /\ nPreferredDownload' \in Nat
  <2>1. fPreferredDownload \in SUBSET Peers
    BY <1>1 DEF TypeOK
  <2> QED
    BY <1>1, <2>1, LeaveCounted DEF FinalizeNode, LeaveCounts, CountersExact
<1>4. /\ fSyncStarted' = fSyncStarted \ {p}
      /\ nSyncStarted' = Cardinality(fSyncStarted \ {p})
      /\ nSyncStarted' \in Nat
  <2>1. fSyncStarted \in SUBSET Peers
    BY <1>1 DEF TypeOK
  <2> QED
    BY <1>1, <2>1, LeaveCounted DEF FinalizeNode, LeaveCounts, CountersExact
<1>5. TypeOK'
  <2>1. flight' \in Flight
    BY <1>2 DEF FlightExact
  <2> QED
    BY <1>1, <1>3, <1>4, <2>1 DEF FinalizeNode, TypeOK, chainVars, handlerVars
<1>6. NodesInv'
  BY <1>1, <1>3 DEF FinalizeNode, NodesInv, handlerVars
<1>7. OwedByNodes'
  BY <1>1, <1>2 DEF FinalizeNode, OwedByNodes, InFlight
<1>8. NotPassedOn
  BY <1>2 DEF NotPassedOn
<1>9. GetDataInv'
  BY DEF FinalizeNode, csMainFree, GetDataInv
<1>10. CountersExact'
  BY <1>3, <1>4 DEF CountersExact
<1> QED
  BY <1>2, <1>5, <1>6, <1>7, <1>8, <1>9, <1>10 DEF IInv

\* BeginPass: the pass takes references to the peers of vNodes.
LEMMA BeginPassKeeps ==
    ASSUME IInv, BeginPass PROVE IInv' /\ NotPassedOn
<1>1. TypeOK /\ NodesInv /\ CountersExact
  BY DEF IInv
<1>2. TypeOK'
  BY <1>1 DEF BeginPass, TypeOK, chainVars, nodeVars, knownVars, syncVars
<1>3. NodesInv'
  BY <1>1 DEF BeginPass, NodesInv, nodeVars, syncVars
<1>4. FlightExact(flight)' /\ OwedByNodes' /\ GetDataInv' /\ NotPassedOn
  BY FlightKept DEF BeginPass, nodeVars
<1>5. CountersExact'
  BY <1>1 DEF BeginPass, CountersExact, syncVars
<1> QED
  BY <1>2, <1>3, <1>4, <1>5 DEF IInv

\* What a visit does to the peers, whatever the message.
LEMMA VisitKeeps ==
    ASSUME IInv, NEW p \in Peers, Visit(p), nVersion \subseteq nVersion',
           fPreferredDownload' \subseteq nVersion'
    PROVE  /\ NodesInv' /\ p \in mapNodeState /\ vGetData = {}
           /\ vNodesCopy' \subseteq Peers /\ todo' \subseteq vNodesCopy'
           /\ serving' \in vNodesCopy' \cup {Null}
<1>1. TypeOK /\ NodesInv
  BY DEF IInv
<1> QED
  BY <1>1 DEF Visit, TypeOK, NodesInv, csMainFree

\* ReceiveNothing.
LEMMA ReceiveNothingKeeps ==
    ASSUME IInv, NEW p \in Peers, ReceiveNothing(p) PROVE IInv' /\ NotPassedOn
<1>1. TypeOK /\ NodesInv /\ CountersExact
  BY DEF IInv
<1>2. /\ NodesInv' /\ vNodesCopy' \subseteq Peers /\ todo' \subseteq vNodesCopy'
      /\ serving' \in vNodesCopy' \cup {Null}
  BY <1>1, VisitKeeps DEF ReceiveNothing, NodesInv, syncVars
<1>3. TypeOK'
  BY <1>1, <1>2 DEF ReceiveNothing, Visit, TypeOK, chainVars, knownVars, syncVars
<1>4. FlightExact(flight)' /\ OwedByNodes' /\ GetDataInv' /\ NotPassedOn
  BY FlightKept DEF ReceiveNothing, Visit
<1>5. CountersExact'
  BY <1>1 DEF ReceiveNothing, CountersExact, syncVars
<1> QED
  BY <1>2, <1>3, <1>4, <1>5 DEF IInv

\* ReceiveVersion: UpdatePreferredDownload counts a peer once.
LEMMA ReceiveVersionKeeps ==
    ASSUME IInv, NEW p \in Peers, ReceiveVersion(p) PROVE IInv' /\ NotPassedOn
<1>1. TypeOK /\ NodesInv /\ CountersExact
  BY DEF IInv
<1>2. /\ NodesInv' /\ p \in mapNodeState
      /\ vNodesCopy' \subseteq Peers /\ todo' \subseteq vNodesCopy'
      /\ serving' \in vNodesCopy' \cup {Null}
  BY <1>1, VisitKeeps DEF ReceiveVersion, NodesInv
<1>3. nPreferredDownload' = Cardinality(fPreferredDownload') /\ nPreferredDownload' \in Nat
  <2>1. fPreferredDownload \in SUBSET Peers /\ p \notin fPreferredDownload
    BY <1>1 DEF TypeOK, NodesInv, ReceiveVersion
  <2>2. CASE p \in Outbound
    <3>1. {p} \cap Outbound = {p} /\ Cardinality({p}) = 1
      BY <2>2, FS_Singleton
    <3>2. Cardinality(fPreferredDownload \cup {p}) = nPreferredDownload + 1
          /\ nPreferredDownload \in Nat
      BY <1>1, <2>1, JoinCounted DEF CountersExact
    <3>3. nPreferredDownload' = nPreferredDownload + 1
          /\ fPreferredDownload' = fPreferredDownload \cup {p}
      BY <3>1 DEF ReceiveVersion
    <3> QED
      BY <3>2, <3>3
  <2>3. CASE p \notin Outbound
    <3>1. {p} \cap Outbound = {} /\ Cardinality({}) = 0
      BY <2>3, FS_EmptySet
    <3>2. nPreferredDownload' = nPreferredDownload + 0
          /\ fPreferredDownload' = fPreferredDownload
      BY <3>1 DEF ReceiveVersion
    <3> QED
      BY <1>1, <3>2 DEF TypeOK, CountersExact
  <2> QED
    BY <2>2, <2>3
<1>4. TypeOK'
  <2>1. fPreferredDownload' \subseteq mapNodeState /\ nVersion' \subseteq mapNodeState
    BY <1>1, <1>2 DEF ReceiveVersion, TypeOK
  <2> QED
    BY <1>1, <1>2, <1>3, <2>1 DEF ReceiveVersion, Visit, TypeOK, chainVars, knownVars
<1>5. FlightExact(flight)' /\ OwedByNodes' /\ GetDataInv' /\ NotPassedOn
  BY FlightKept DEF ReceiveVersion, Visit
<1>6. CountersExact'
  BY <1>1, <1>3 DEF ReceiveVersion, CountersExact
<1> QED
  BY <1>2, <1>4, <1>5, <1>6 DEF IInv

\* UpdateBlockAvailability keeps the types of what a peer is known to have.
LEMMA AvailabilityTyped ==
    ASSUME TypeOK, NEW p \in Peers, NEW b \in Blocks, NEW index \in SUBSET Blocks,
           UpdateBlockAvailability(p, b, index)
    PROVE  /\ pindexBestKnownBlock' \in [Peers -> Blocks \cup {Null}]
           /\ hashLastUnknownBlock' \in [Peers -> Blocks \cup {Null}]
           /\ pindexLastCommonBlock' \in [Peers -> Blocks \cup {Null}]
<1>1. /\ BestKnown(p, index) \in Blocks \cup {Null}
      /\ LastUnknown(p, index) \in Blocks \cup {Null}
      /\ BestOf(BestKnown(p, index), b) \in Blocks \cup {Null}
  BY BestTyped
<1> QED
  BY <1>1 DEF UpdateBlockAvailability, TypeOK

\* ReceiveInv: a block that is asked for by INV was not in flight.
LEMMA ReceiveInvKeeps ==
    ASSUME IInv, NEW p \in Peers, NEW b \in Blocks, NEW fCanDirectFetch,
           ReceiveInv(p, b, fCanDirectFetch)
    PROVE  IInv' /\ NotPassedOn
<1>1. TypeOK /\ NodesInv /\ CountersExact
  BY DEF IInv
<1>2. /\ NodesInv' /\ p \in mapNodeState /\ vGetData = {}
      /\ vNodesCopy' \subseteq Peers /\ todo' \subseteq vNodesCopy'
      /\ serving' \in vNodesCopy' \cup {Null}
  BY <1>1, VisitKeeps DEF ReceiveInv, NodesInv, syncVars
<1>3. FlightExact(flight)' /\ OwedByNodes' /\ GetDataInv' /\ NotPassedOn
  <2>1. CASE flight' = flight
    BY <2>1, FlightKept DEF ReceiveInv, Visit
  <2>2. CASE flight' # flight
    <3>1. ~InFlight(b) /\ flight' = MarkBlockAsInFlight(flight, p, b, 0)
      BY <2>2 DEF ReceiveInv
    <3>2. FlightExact(flight)' /\ OwedByNodes' /\ NotPassedOn
      BY <1>2, <3>1, MarkedKept DEF ReceiveInv, Visit
    <3> QED
      BY <1>2, <3>2 DEF ReceiveInv, GetDataInv
  <2> QED
    BY <2>1, <2>2
<1>4. TypeOK'
  <2>1. flight' \in Flight
    BY <1>3 DEF FlightExact
  <2>2. /\ pindexBestKnownBlock' \in [Peers -> Blocks \cup {Null}]
        /\ hashLastUnknownBlock' \in [Peers -> Blocks \cup {Null}]
        /\ pindexLastCommonBlock' \in [Peers -> Blocks \cup {Null}]
    <3>1. mapBlockIndex \in SUBSET Blocks
      BY <1>1 DEF TypeOK
    <3> QED
      BY <1>1, <3>1, AvailabilityTyped DEF ReceiveInv
  <2> QED
    BY <1>1, <1>2, <2>1, <2>2 DEF ReceiveInv, Visit, TypeOK, chainVars, syncVars
<1>5. CountersExact'
  BY <1>1 DEF ReceiveInv, CountersExact, syncVars
<1> QED
  BY <1>2, <1>3, <1>4, <1>5 DEF IInv

\* ReceiveHeaders: the blocks that are to be asked for are p's and not in flight.
LEMMA ReceiveHeadersKeeps ==
    ASSUME IInv, NEW p \in Peers, NEW b \in Blocks, NEW fCanDirectFetch,
           ReceiveHeaders(p, b, fCanDirectFetch)
    PROVE  IInv' /\ NotPassedOn
<1>1. TypeOK /\ NodesInv /\ CountersExact /\ FlightExact(flight) /\ OwedByNodes
  BY DEF IInv
<1>2. /\ NodesInv' /\ p \in mapNodeState /\ vGetData = {}
      /\ vNodesCopy' \subseteq Peers /\ todo' \subseteq vNodesCopy'
      /\ serving' \in vNodesCopy' \cup {Null}
  BY <1>1, VisitKeeps DEF ReceiveHeaders, NodesInv, syncVars
<1>3. vGetData' \subseteq {p} \X {c \in Blocks : ~InFlight(c)}
  <2>1. DirectFetch(p, b) \subseteq {c \in Blocks : ~InFlight(c)}
    BY <1>1, FetchedMissing
  <2>2. vGetData' = {p} \X DirectFetch(p, b) \/ vGetData' = {}
    BY DEF ReceiveHeaders
  <2> QED
    BY <2>1, <2>2
<1>4. FlightExact(flight)' /\ OwedByNodes' /\ NotPassedOn
  BY <1>1 DEF ReceiveHeaders, Visit, OwedByNodes, InFlight, NotPassedOn
<1>5. GetDataInv'
  BY <1>2, <1>3 DEF GetDataInv, ReceiveHeaders, Visit, InFlight
<1>6. mapBlockIndex' \in SUBSET Blocks /\ mapBlockIndex \subseteq mapBlockIndex'
  BY <1>1, AncestorsProperties DEF ReceiveHeaders, NewHeaders, TypeOK
<1>7. TypeOK'
  <2>1. /\ pindexBestKnownBlock' \in [Peers -> Blocks \cup {Null}]
        /\ hashLastUnknownBlock' \in [Peers -> Blocks \cup {Null}]
        /\ pindexLastCommonBlock' \in [Peers -> Blocks \cup {Null}]
    BY <1>1, <1>6, AvailabilityTyped DEF ReceiveHeaders
  <2>2. vGetData' \subseteq Peers \X Blocks
    BY <1>3
  <2> QED
    BY <1>1, <1>2, <1>6, <2>1, <2>2 DEF ReceiveHeaders, Visit, TypeOK, syncVars
<1>8. CountersExact'
  BY <1>1 DEF ReceiveHeaders, CountersExact, syncVars
<1> QED
  BY <1>2, <1>4, <1>5, <1>7, <1>8 DEF IInv

\* ReceiveBadHeaders.
LEMMA ReceiveBadHeadersKeeps ==
    ASSUME IInv, NEW p \in Peers, NEW b, ReceiveBadHeaders(p, b) PROVE IInv' /\ NotPassedOn
<1>1. TypeOK /\ NodesInv /\ CountersExact
  BY DEF IInv
<1>2. /\ NodesInv' /\ p \in mapNodeState
      /\ vNodesCopy' \subseteq Peers /\ todo' \subseteq vNodesCopy'
      /\ serving' \in vNodesCopy' \cup {Null}
  BY <1>1, VisitKeeps DEF ReceiveBadHeaders, NodesInv, syncVars
<1>3. TypeOK'
  <2>1. fShouldBan' \subseteq mapNodeState
    BY <1>1, <1>2 DEF ReceiveBadHeaders, TypeOK
  <2> QED
    BY <1>1, <1>2, <2>1 DEF ReceiveBadHeaders, Visit, TypeOK, chainVars, knownVars, syncVars
<1>4. FlightExact(flight)' /\ OwedByNodes' /\ GetDataInv' /\ NotPassedOn
  BY FlightKept DEF ReceiveBadHeaders, Visit
<1>5. CountersExact'
  BY <1>1 DEF ReceiveBadHeaders, CountersExact, syncVars
<1> QED
  BY <1>2, <1>3, <1>4, <1>5 DEF IInv

\* ReceiveBlock: the block is in flight no more, whether or not it is stored.
LEMMA ReceiveBlockKeeps ==
    ASSUME IInv, NEW p \in Peers, NEW b \in Blocks, ReceiveBlock(p, b)
    PROVE  IInv' /\ NotPassedOn
<1>1. TypeOK /\ NodesInv /\ CountersExact
  BY DEF IInv
<1>2. /\ NodesInv' /\ p \in mapNodeState /\ vGetData = {}
      /\ vNodesCopy' \subseteq Peers /\ todo' \subseteq vNodesCopy'
      /\ serving' \in vNodesCopy' \cup {Null}
  BY <1>1, VisitKeeps DEF ReceiveBlock, NodesInv, syncVars
<1>3. FlightExact(flight)' /\ OwedByNodes' /\ GetDataInv' /\ NotPassedOn
  BY <1>2, ReceivedKept DEF ReceiveBlock, Visit
<1>4. TypeOK'
  <2>1. flight' \in Flight
    BY <1>3 DEF FlightExact
  <2>2. fShouldBan' \subseteq mapNodeState
    BY <1>1, <1>2 DEF ReceiveBlock, TypeOK
  <2>3. /\ mapBlockIndex' \subseteq Blocks /\ haveData' \subseteq mapBlockIndex'
        /\ failed' \subseteq mapBlockIndex'
    BY <1>1 DEF ReceiveBlock, TypeOK
  <2> QED
    BY <1>1, <1>2, <2>1, <2>2, <2>3 DEF ReceiveBlock, Visit, TypeOK, knownVars, syncVars
<1>5. CountersExact'
  BY <1>1 DEF ReceiveBlock, CountersExact, syncVars
<1> QED
  BY <1>2, <1>3, <1>4, <1>5 DEF IInv

\* ReceiveBadBlock: the block is in flight no more and its sender is to be banned.
LEMMA ReceiveBadBlockKeeps ==
    ASSUME IInv, NEW p \in Peers, NEW b \in Blocks, ReceiveBadBlock(p, b)
    PROVE  IInv' /\ NotPassedOn
<1>1. TypeOK /\ NodesInv /\ CountersExact
  BY DEF IInv
<1>2. /\ NodesInv' /\ p \in mapNodeState /\ vGetData = {}
      /\ vNodesCopy' \subseteq Peers /\ todo' \subseteq vNodesCopy'
      /\ serving' \in vNodesCopy' \cup {Null}
  BY <1>1, VisitKeeps DEF ReceiveBadBlock, NodesInv, syncVars
<1>3. FlightExact(flight)' /\ OwedByNodes' /\ GetDataInv' /\ NotPassedOn
  BY <1>2, ReceivedKept DEF ReceiveBadBlock, Visit
<1>4. TypeOK'
  <2>1. flight' \in Flight
    BY <1>3 DEF FlightExact
  <2> QED
    BY <1>1, <1>2, <2>1 DEF ReceiveBadBlock, Visit, TypeOK, chainVars, knownVars, syncVars
<1>5. CountersExact'
  BY <1>1 DEF ReceiveBadBlock, CountersExact, syncVars
<1> QED
  BY <1>2, <1>3, <1>4, <1>5 DEF IInv

\* SendNothing: a peer whose PING is unanswered is visited no more.
LEMMA SendNothingKeeps ==
    ASSUME IInv, NEW p \in Peers, SendNothing(p) PROVE IInv' /\ NotPassedOn
<1>1. TypeOK /\ NodesInv /\ CountersExact
  BY DEF IInv
<1>2. vNodes' \subseteq vNodes
  BY DEF SendNothing, PingCheck
<1>3. NodesInv'
  BY <1>1, <1>2 DEF SendNothing, NodesInv, syncVars
<1>4. TypeOK'
  BY <1>1, <1>2 DEF SendNothing, TypeOK, chainVars, knownVars, syncVars
<1>5. FlightExact(flight)' /\ OwedByNodes' /\ GetDataInv' /\ NotPassedOn
  BY FlightKept DEF SendNothing
<1>6. CountersExact'
  BY <1>1 DEF SendNothing, CountersExact, syncVars
<1> QED
  BY <1>3, <1>4, <1>5, <1>6 DEF IInv

\* SendMessages: what is to be asked for is p's and not in flight, a peer that is blamed
\* owes a block, and a peer that is asked for headers is counted once.
LEMMA SendMessagesKeeps ==
    ASSUME IInv, NEW p \in Peers, NEW fLate, SendMessages(p, fLate)
    PROVE  IInv' /\ NotPassedOn
<1> DEFINE best == BestKnown(p, mapBlockIndex)
<1>1. TypeOK /\ NodesInv /\ CountersExact /\ FlightExact(flight) /\ OwedByNodes
  BY DEF IInv
<1>2. vNodes' \subseteq vNodes /\ vGetData = {} /\ p \in nVersion /\ p \in mapNodeState
  BY <1>1 DEF SendMessages, PingCheck, Serving, csMainFree, TypeOK
<1>3. NodesInv'
  BY <1>1, <1>2 DEF SendMessages, NodesInv
<1>4. /\ best \in Blocks \cup {Null} /\ LastUnknown(p, mapBlockIndex) \in Blocks \cup {Null}
  BY <1>1, BestTyped DEF TypeOK
<1>5. /\ pindexBestKnownBlock' \in [Peers -> Blocks \cup {Null}]
      /\ hashLastUnknownBlock' \in [Peers -> Blocks \cup {Null}]
  BY <1>1, <1>4 DEF SendMessages, ProcessBlockAvailability, TypeOK
<1>6. \/ /\ vGetData' = {p} \X VToDownload(p, best)
         /\ pindexLastCommonBlock' = [pindexLastCommonBlock EXCEPT ![p] = NewCommon(p, best)]
         /\ flight' = IF flight.nBlocksInFlight[p] = 0 /\ Staller(p, best) # Null
                      THEN [flight EXCEPT !.nStallingSince = @ \cup {Staller(p, best)}]
                      ELSE flight
      \/ UNCHANGED <<vGetData, pindexLastCommonBlock, flight>>
  BY DEF SendMessages
<1> HIDE DEF best
<1>7. pindexLastCommonBlock' \in [Peers -> Blocks \cup {Null}]
  <2>1. NewCommon(p, best) \in Blocks \cup {Null}
    BY <1>1, <1>4, CommonTyped
  <2> QED
    BY <1>1, <1>6, <2>1 DEF TypeOK
<1>8. FlightExact(flight') /\ flight'.mapBlocksInFlight = flight.mapBlocksInFlight
  <2>1. CASE flight' = flight
    BY <1>1, <2>1
  <2>2. CASE flight' # flight
    <3>1. /\ Staller(p, best) # Null
          /\ flight' = [flight EXCEPT !.nStallingSince = @ \cup {Staller(p, best)}]
      BY <1>6, <2>2
    <3>2. /\ Staller(p, best) \in Peers
          /\ flight.vBlocksInFlight[Staller(p, best)] # <<>>
      BY <1>1, <1>4, <3>1, StallerOwes
    <3> QED
      BY <1>1, <3>1, <3>2, BlameExact
  <2> QED
    BY <2>1, <2>2
<1>9. vGetData' \subseteq {p} \X {c \in Blocks : ~InFlight(c)}
  <2>1. VToDownload(p, best) \subseteq {c \in Blocks : ~InFlight(c)}
    BY <1>1, <1>4, FetchedMissing
  <2> QED
    BY <1>2, <1>6, <2>1
<1>10. OwedByNodes' /\ NotPassedOn
  BY <1>1, <1>8 DEF SendMessages, OwedByNodes, InFlight, NotPassedOn
<1>11. GetDataInv'
  BY <1>2, <1>8, <1>9 DEF SendMessages, GetDataInv, InFlight
<1>12. /\ nSyncStarted' = Cardinality(fSyncStarted') /\ nSyncStarted' \in Nat
       /\ fSyncStarted' \subseteq mapNodeState
  <2>1. fSyncStarted \in SUBSET Peers
    BY <1>1 DEF TypeOK
  <2>2. CASE /\ p \notin fSyncStarted /\ fSyncStarted' = fSyncStarted \cup {p}
             /\ nSyncStarted' = nSyncStarted + 1
    <3>1. Cardinality(fSyncStarted \cup {p}) = nSyncStarted + 1
      BY <1>1, <2>1, <2>2, JoinCounted DEF CountersExact
    <3> QED
      BY <1>1, <1>2, <2>2, <3>1 DEF TypeOK
  <2>3. CASE UNCHANGED <<fSyncStarted, nSyncStarted>>
    BY <1>1, <2>3 DEF TypeOK, CountersExact
  <2> QED
    BY <2>2, <2>3 DEF SendMessages, StartSync
<1>13. TypeOK'
  <2>1. flight' \in Flight
    BY <1>8 DEF FlightExact
  <2>2. vGetData' \subseteq Peers \X Blocks
    BY <1>9
  <2>3. fDisconnect' \subseteq mapNodeState /\ fShouldBan' \subseteq mapNodeState
    BY <1>1, <1>2 DEF SendMessages, TypeOK
  <2> QED
    BY <1>1, <1>2, <1>5, <1>7, <1>12, <2>1, <2>2, <2>3 DEF SendMessages, TypeOK, chainVars
<1>14. CountersExact'
  BY <1>1, <1>12 DEF SendMessages, CountersExact
<1> QED
  BY <1>3, <1>8, <1>10, <1>11, <1>13, <1>14 DEF IInv

\* MarkNext: a block that is marked was not in flight, and the others to be marked stay so.
LEMMA MarkNextKeeps ==
    ASSUME IInv, MarkNext PROVE IInv' /\ NotPassedOn
<1>1. TypeOK /\ NodesInv /\ CountersExact /\ GetDataInv
  BY DEF IInv
<1>2. PICK r \in vGetData : /\ flight' = MarkBlockAsInFlight(flight, r[1], r[2], 1)
                            /\ vGetData' = vGetData \ {r}
  BY DEF MarkNext
<1>3. PICK p \in mapNodeState : vGetData \subseteq {p} \X {b \in Blocks : ~InFlight(b)}
  BY <1>1, <1>2 DEF GetDataInv
<1>4. r[1] = p /\ r[2] \in Blocks /\ ~InFlight(r[2]) /\ r = <<p, r[2]>>
  BY <1>2, <1>3
<1>5. UNCHANGED mapNodeState
  BY DEF MarkNext, nodeVars
<1>6. /\ FlightExact(flight)' /\ OwedByNodes' /\ NotPassedOn
      /\ \A c \in Blocks : c # r[2] => (InFlight(c)' <=> InFlight(c))
  BY <1>2, <1>4, <1>5, MarkedKept
<1>7. GetDataInv'
  <2>1. ASSUME NEW s \in vGetData' PROVE s \in {p} \X {b \in Blocks : ~InFlight(b)'}
    <3>1. s \in vGetData /\ s # r
      BY <1>2
    <3>2. s[1] = p /\ s[2] \in Blocks /\ ~InFlight(s[2]) /\ s = <<p, s[2]>>
      BY <1>3, <3>1
    <3>3. s[2] # r[2]
      BY <1>4, <3>1, <3>2
    <3>4. ~InFlight(s[2])'
      BY <1>6, <3>2, <3>3 DEF InFlight
    <3> QED
      BY <3>2, <3>4
  <2> QED
    BY <1>3, <1>5, <2>1 DEF GetDataInv
<1>8. TypeOK'
  <2>1. flight' \in Flight
    BY <1>6 DEF FlightExact
  <2>2. vGetData' \subseteq Peers \X Blocks
    BY <1>1, <1>2 DEF TypeOK
  <2> QED
    BY <1>1, <2>1, <2>2 DEF MarkNext, TypeOK, chainVars, nodeVars, handlerVars, knownVars,
                            syncVars
<1>9. NodesInv'
  BY <1>1 DEF MarkNext, NodesInv, nodeVars, handlerVars, syncVars
<1>10. CountersExact'
  BY <1>1 DEF MarkNext, CountersExact, syncVars
<1> QED
  BY <1>6, <1>7, <1>8, <1>9, <1>10 DEF IInv

\* A step of the chain that leaves everything else alone.
LEMMA ChainStepKeeps ==
    ASSUME IInv, OthersUnchanged, UNCHANGED <<mapBlockIndex, haveData>>,
           failed' \subseteq mapBlockIndex, tip' \in Blocks
    PROVE  IInv' /\ NotPassedOn
<1>1. TypeOK /\ NodesInv /\ CountersExact
  BY DEF IInv
<1>2. TypeOK'
  BY <1>1 DEF OthersUnchanged, TypeOK, nodeVars, handlerVars, knownVars, syncVars
<1>3. NodesInv'
  BY <1>1 DEF OthersUnchanged, NodesInv, nodeVars, handlerVars, syncVars
<1>4. FlightExact(flight)' /\ OwedByNodes' /\ GetDataInv' /\ NotPassedOn
  BY FlightKept DEF OthersUnchanged, nodeVars
<1>5. CountersExact'
  BY <1>1 DEF OthersUnchanged, CountersExact, syncVars
<1> QED
  BY <1>2, <1>3, <1>4, <1>5 DEF IInv

\* Activate and MarkFailed change the tip and the failed blocks only.
LEMMA ActivateKeeps ==
    ASSUME IInv, Activate \/ MarkFailed PROVE IInv' /\ NotPassedOn
<1>1. TypeOK
  BY DEF IInv
<1>2. OthersUnchanged
  BY DEF Activate, MarkFailed
<1>3. CASE \E b \in Blocks : MoveTip(b)
  BY <1>1, <1>2, <1>3, ChainStepKeeps DEF MoveTip, TypeOK
<1>4. ASSUME NEW b \in Blocks, FailAt(b) PROVE IInv' /\ NotPassedOn
  <2>1. b \in haveData /\ b \in Blocks \ {Genesis}
    BY <1>4, AncestorsProperties DEF FailAt, FullyStored
  <2>2. pprev[b] \in Blocks
    BY <2>1, TreeAssumption
  <2> QED
    BY <1>1, <1>2, <1>4, <2>1, <2>2, ChainStepKeeps DEF FailAt, TypeOK
<1>5. ASSUME NEW b \in mapBlockIndex, MarkDescendants({b}) PROVE IInv' /\ NotPassedOn
  BY <1>1, <1>2, <1>5, ChainStepKeeps DEF MarkDescendants, TypeOK
<1> QED
  BY <1>3, <1>4, <1>5, PeersAssumption DEF Activate, MarkFailed

\* The initial download ends.
LEMMA EndInitialDownloadKeeps ==
    ASSUME IInv, EndInitialDownload PROVE IInv' /\ NotPassedOn
<1>1. TypeOK /\ NodesInv /\ CountersExact
  BY DEF IInv
<1>2. TypeOK'
  BY <1>1 DEF EndInitialDownload, TypeOK, chainVars, nodeVars, handlerVars, knownVars, syncVars
<1>3. NodesInv'
  BY <1>1 DEF EndInitialDownload, NodesInv, nodeVars, handlerVars, syncVars
<1>4. FlightExact(flight)' /\ OwedByNodes' /\ GetDataInv' /\ NotPassedOn
  BY FlightKept DEF EndInitialDownload, nodeVars
<1>5. CountersExact'
  BY <1>1 DEF EndInitialDownload, CountersExact, syncVars
<1> QED
  BY <1>2, <1>3, <1>4, <1>5 DEF IInv

\* A step of a thread that does nothing here.
LEMMA StutterKeeps ==
    ASSUME IInv, UNCHANGED vars PROVE IInv' /\ NotPassedOn
<1>1. TypeOK /\ NodesInv /\ CountersExact
  BY DEF IInv
<1>2. TypeOK'
  BY <1>1 DEF vars, TypeOK, chainVars, nodeVars, handlerVars, knownVars, syncVars
<1>3. NodesInv'
  BY <1>1 DEF vars, NodesInv, nodeVars, handlerVars, syncVars
<1>4. FlightExact(flight)' /\ OwedByNodes' /\ GetDataInv' /\ NotPassedOn
  BY FlightKept DEF vars, nodeVars
<1>5. CountersExact'
  BY <1>1 DEF vars, CountersExact, syncVars
<1> QED
  BY <1>2, <1>3, <1>4, <1>5 DEF IInv

-----------------------------------------------------------------------------
\* The theorems

\* The initial state satisfies the inductive invariant.
LEMMA InitIInv == Init => IInv
<1> SUFFICES ASSUME Init PROVE IInv
  OBVIOUS
<1>1. FlightExact(flight)
  BY NothingExact DEF Init
<1>2. TypeOK
  <2>1. flight \in Flight
    BY <1>1 DEF FlightExact
  <2> QED
    BY <2>1, TreeAssumption, LimitsAssumption DEF Init, ChainInit, TypeOK
<1>3. OwedByNodes
  BY DEF Init, OwedByNodes, InFlight, NothingInFlight
<1>4. NodesInv /\ GetDataInv
  BY DEF Init, NodesInv, GetDataInv
<1>5. CountersExact
  BY FS_EmptySet DEF Init, CountersExact
<1> QED
  BY <1>1, <1>2, <1>3, <1>4, <1>5 DEF IInv

\* Every step keeps the inductive invariant and passes no block in flight on.
LEMMA NextIInv ==
    IInv /\ [Next]_vars => IInv' /\ NotPassedOn
<1> SUFFICES ASSUME IInv, [Next]_vars PROVE IInv' /\ NotPassedOn
  OBVIOUS
<1>1. ASSUME NEW p \in Peers, Receive(p) PROVE IInv' /\ NotPassedOn
  <2>1. announces[p] \subseteq Blocks /\ Ancestors[chainOf[p]] \subseteq Blocks
    BY PeersAssumption, AncestorsProperties
  <2>2. CASE ReceiveNothing(p) \/ ReceiveVersion(p)
    BY <2>2, ReceiveNothingKeeps, ReceiveVersionKeeps
  <2>3. CASE \E b \in announces[p], fCanDirectFetch \in MayDirectFetch :
                ReceiveInv(p, b, fCanDirectFetch) \/ ReceiveHeaders(p, b, fCanDirectFetch)
    BY <2>1, <2>3, ReceiveInvKeeps, ReceiveHeadersKeeps
  <2>4. CASE \E b \in announces[p] : ReceiveBadHeaders(p, b)
    BY <2>4, ReceiveBadHeadersKeeps
  <2>5. CASE \E b \in Ancestors[chainOf[p]] \ {Genesis} : ReceiveBlock(p, b) \/ ReceiveBadBlock(p, b)
    BY <2>1, <2>5, ReceiveBlockKeeps, ReceiveBadBlockKeeps
  <2> QED
    BY <1>1, <2>2, <2>3, <2>4, <2>5 DEF Receive
<1>2. ASSUME NEW p \in Peers, Send(p) PROVE IInv' /\ NotPassedOn
  BY <1>2, SendNothingKeeps, SendMessagesKeeps DEF Send
<1>3. CASE HandlerStep
  BY <1>1, <1>2, <1>3, BeginPassKeeps, MarkNextKeeps, ActivateKeeps DEF HandlerStep
<1>4. ASSUME NEW p \in Peers, InitializeNode(p) \/ SocketFails(p)
                              \/ DisconnectNode(p) \/ FinalizeNode(p)
      PROVE  IInv' /\ NotPassedOn
  BY <1>4, InitializeNodeKeeps, SocketFailsKeeps, DisconnectNodeKeeps, FinalizeNodeKeeps
<1>5. CASE MarkFailed \/ EndInitialDownload
  BY <1>5, ActivateKeeps, EndInitialDownloadKeeps
<1>6. CASE UNCHANGED vars
  BY <1>6, StutterKeeps
<1> QED
  BY <1>3, <1>4, <1>5, <1>6 DEF Next

\* IInv holds always.
THEOREM Consistent == Spec => []IInv
<1>1. IInv /\ [Next]_vars => IInv'
  BY NextIInv
<1> QED
  BY <1>1, InitIInv, PTL DEF Spec

\* Every variable keeps its type in every reachable state; no counter of blocks in flight
\* or of peers ever falls below zero.
THEOREM TypeCorrect == Spec => []TypeOK
<1>1. IInv => TypeOK
  BY DEF IInv
<1> QED
  BY <1>1, Consistent, PTL

\* mapBlocksInFlight, the lists of the peers and the counters of MarkBlockAsInFlight,
\* MarkBlockAsReceived and FinalizeNode always agree, and a block is owed by a peer that
\* still has a CNodeState.
THEOREM FlightConsistent == Spec => []InFlightExact
<1>1. IInv => InFlightExact
  <2> SUFFICES ASSUME IInv PROVE InFlightExact
    OBVIOUS
  <2>1. OwedByNodes /\ SameRelation(flight) /\ CountsLists(flight)
    BY DEF IInv, FlightExact
  <2>2. flight.nQueuedValidatedHeaders =
           Cardinality({b \in Blocks : InFlight(b) /\ ValidatedBit(flight, b) = 1})
    BY <2>1 DEF CountsLists, Validated, InFlight
  <2>3. \A b \in Blocks : InFlight(b) => flight.mapBlocksInFlight[b] \in mapNodeState
    BY <2>1 DEF OwedByNodes
  <2> QED
    BY <2>1, <2>2, <2>3 DEF InFlightExact, SameRelation, CountsLists
<1> QED
  BY <1>1, Consistent, PTL

\* The counters of FinalizeNode, UpdatePreferredDownload and SendMessages count the peers
\* that are preferred and those that were asked for headers.
THEOREM CountersCorrect == Spec => []CountersExact
<1>1. IInv => CountersExact
  BY DEF IInv
<1> QED
  BY <1>1, Consistent, PTL

\* A peer is blamed for a stalled window only while it owes a block.
THEOREM BlameJustified == Spec => []BlamedOwesBlock
<1>1. IInv => BlamedOwesBlock
  BY DEF IInv, FlightExact, BlamedOwes, BlamedOwesBlock
<1> QED
  BY <1>1, Consistent, PTL

\* A block in flight is never asked from a second peer before it arrives or its peer is
\* deleted.
THEOREM StaysWithPeer == Spec => NeverPassedOn
<1>1. IInv /\ [Next]_vars => [NotPassedOn]_vars
  BY NextIInv
<1>2. Spec => [][NotPassedOn]_vars
  BY <1>1, Consistent, PTL DEF Spec
<1> QED
  BY <1>2 DEF NeverPassedOn, NotPassedOn

=============================================================================
