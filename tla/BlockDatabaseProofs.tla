------------------------ MODULE BlockDatabaseProofs -------------------------
(***************************************************************************)
(* Proofs about BlockDatabase, for every block tree, every size and number *)
(* of block files and any number of failed writes.                         *)
(*                                                                         *)
(* The inductive invariant IInv says in addition where blocks lie: every   *)
(* recorded position is below the recorded size of its file, and every     *)
(* position that the running node knows of is below the size it counts     *)
(* with, so a new block never lands on an old one; what was written to a   *)
(* file that the node has left is committed; and whatever is dirty has its *)
(* file among the dirty files, so sizes are saved with the positions.      *)
(***************************************************************************)
EXTENDS BlockDatabase, WellFoundedInduction, TLAPS

\* p lies below the sizes, in a file no later than last
Within(p, size, last) == p[1] <= last /\ p[2] <= size[p[1]]

\* outside of a flush nothing is half committed, and a stopped node flushes not
FlushInv ==
    /\ phase = "down" => flush = "none"
    /\ flush = "none" => ~committed

\* every position that was ever recorded is within the recorded sizes
RecordsWithin == \A r \in everRecorded : Within(r[2], db.nSize, db.last)

\* everRecorded misses no record
RecordsKnown ==
    \A b \in Blocks : db.index[b] \in Positions => <<b, db.index[b]>> \in everRecorded

\* a running node counts with sizes at least as large as the recorded ones
SizesAhead ==
    phase # "down" => /\ db.last <= nLastBlockFile
                      /\ \A f \in Files : db.nSize[f] <= nSize[f]

\* every position in memory is that of an entry, and within the sizes in memory
DataWithin ==
    phase # "down" => \A b \in Blocks :
        nDataPos[b] \in Positions => /\ b \in mapBlockIndex
                                     /\ Within(nDataPos[b], nSize, nLastBlockFile)

\* the size of a file is dirty when a block in it is
DirtyTogether ==
    \A b \in setDirtyBlockIndex :
        nDataPos[b] \in Positions => nDataPos[b][1] \in setDirtyFileInfo

\* a block in memory is in its file, and durable in the files that were left
DataWritten ==
    phase # "down" => \A b \in Blocks :
        nDataPos[b] \in Positions /\ <<b, nDataPos[b]>> \notin unwritten =>
            /\ blk[nDataPos[b]] = b
            /\ nDataPos[b][1] < nLastBlockFile \/ committed => durable[nDataPos[b]] = b

\* The inductive invariant
IInv ==
    /\ TypeOK
    /\ FlushInv
    /\ RecordsWithin
    /\ RecordsKnown
    /\ SizesAhead
    /\ DataWithin
    /\ DirtyTogether
    /\ DataWritten
    /\ ParentClosed(mapBlockIndex)
    /\ FlushedKept
    /\ UnsavedIsDirty
    /\ DatabaseClosed

-----------------------------------------------------------------------------
\* The next free position

\* When some file from last on has room, NextFile is such a file: the CHOOSE
\* of NextFile is met by the least of them.
LEMMA NextFileProperties ==
    ASSUME NEW size \in [Files -> 0..BlocksPerFile], NEW last \in Files,
           HasRoom(size, last)
    PROVE  /\ NextFile(size, last) \in Files
           /\ last <= NextFile(size, last)
           /\ RoomLeft(size, NextFile(size, last))
<1> DEFINE T == {f \in Files : f >= last /\ RoomLeft(size, f)}
<1>1. T \subseteq Nat /\ T # {}
  BY DatabaseAssumption DEF HasRoom, Files
<1>2. PICK x \in T : \A y \in T : ~(<<y, x>> \in OpToRel(<, Nat))
  BY <1>1, WFMin, NatLessThanWellFounded, Zenon
<1>3. \A y \in T : ~(y < x)
  BY <1>1, <1>2 DEF OpToRel
<1>4. \A e \in last..(x - 1) : ~RoomLeft(size, e)
  <2> SUFFICES ASSUME NEW e \in last..(x - 1), RoomLeft(size, e) PROVE FALSE
    OBVIOUS
  <2>1. e \in Files /\ e >= last /\ e < x
    BY DatabaseAssumption DEF Files
  <2> QED
    BY <1>3, <2>1
<1>5. \E f \in Files : /\ f >= last
                       /\ RoomLeft(size, f)
                       /\ \A e \in last..(f - 1) : ~RoomLeft(size, e)
  BY <1>4
<1>6. /\ NextFile(size, last) \in Files
      /\ NextFile(size, last) >= last
      /\ RoomLeft(size, NextFile(size, last))
  <2> DEFINE Q(f) == /\ f >= last
                     /\ RoomLeft(size, f)
                     /\ \A e \in last..(f - 1) : ~RoomLeft(size, e)
  <2>1. \E f \in Files : Q(f)
    BY <1>5
  <2>2. NextFile(size, last) = CHOOSE f \in Files : Q(f)
    BY DEF NextFile
  <2> HIDE DEF Q
  <2>3. NextFile(size, last) \in Files /\ Q(NextFile(size, last))
    BY <2>1, <2>2, Zenon
  <2> QED
    BY <2>3 DEF Q
<1> QED
  BY <1>6, DatabaseAssumption DEF Files

\* the sizes after a block was placed in the file f
Grown(size, f) == [size EXCEPT ![f] = @ + 1]

\* The position that FindBlockPos gives is a position, beyond the old sizes
\* and within the new ones.
LEMMA NextPosProperties ==
    ASSUME NEW size \in [Files -> 0..BlocksPerFile], NEW last \in Files,
           HasRoom(size, last),
           NEW f, f = NextFile(size, last), NEW p, p = NextPos(size, last)
    PROVE  /\ f \in Files /\ last <= f
           /\ p \in Positions /\ p[1] = f /\ p[2] = size[f] + 1
           /\ Grown(size, f) \in [Files -> 0..BlocksPerFile]
           /\ \A e \in Files : size[e] <= Grown(size, f)[e]
           /\ Within(p, Grown(size, f), f)
<1>1. f \in Files /\ last <= f /\ size[f] < BlocksPerFile
  BY NextFileProperties DEF RoomLeft
<1>2. p = <<f, size[f] + 1>>
  BY DEF NextPos
<1>3. size[f] + 1 \in 1..BlocksPerFile
  BY <1>1, DatabaseAssumption
<1>4. p \in Positions /\ p[1] = f /\ p[2] = size[f] + 1
  BY <1>1, <1>2, <1>3 DEF Positions
<1>5. Grown(size, f) \in [Files -> 0..BlocksPerFile]
  BY <1>1, <1>3, DatabaseAssumption DEF Grown
<1>6. Grown(size, f)[f] = size[f] + 1 /\ \A e \in Files : size[e] <= Grown(size, f)[e]
  BY <1>1, DatabaseAssumption DEF Grown
<1>7. f <= f
  BY <1>1, DatabaseAssumption DEF Files
<1> QED
  BY <1>1, <1>4, <1>5, <1>6, <1>7, DatabaseAssumption DEF Within

\* A position within the old sizes is not the new one, and it is within the
\* new sizes.
LEMMA WithinGrown ==
    ASSUME NEW size \in [Files -> 0..BlocksPerFile], NEW last \in Files,
           HasRoom(size, last),
           NEW f, f = NextFile(size, last), NEW p, p = NextPos(size, last),
           NEW q \in Positions, Within(q, size, last)
    PROVE  q # p /\ Within(q, Grown(size, f), f)
<1>1. /\ f \in Files /\ last <= f /\ p[1] = f /\ p[2] = size[f] + 1
      /\ Grown(size, f) \in [Files -> 0..BlocksPerFile]
      /\ \A e \in Files : size[e] <= Grown(size, f)[e]
  BY NextPosProperties
<1>2. q[1] \in Files /\ q[2] \in Nat /\ q[1] \in Nat /\ last \in Nat /\ f \in Nat
  BY <1>1, DatabaseAssumption DEF Positions, Files
<1>3. q[1] <= f /\ q[2] <= Grown(size, f)[q[1]]
  BY <1>1, <1>2, DatabaseAssumption DEF Within
<1>4. ASSUME q = p PROVE FALSE
  BY <1>1, <1>2, <1>4, DatabaseAssumption DEF Within
<1> QED
  BY <1>3, <1>4 DEF Within

-----------------------------------------------------------------------------
\* Types

\* Each position is a pair, and neither mark is one.
LEMMA PositionsAndMarks ==
    /\ NoData \notin Positions /\ NoRecord \notin Positions /\ NoData # NoRecord
    /\ \A p \in Positions : p[1] \in Files /\ p[2] \in Nat /\ p[2] <= BlocksPerFile
BY MarkAssumption, DatabaseAssumption DEF Positions

\* FileCommit and LeaveFile give block files.
LEMMA FileCommitType ==
    ASSUME TypeOK, NEW f
    PROVE  /\ FileCommit(durable, f) \in [Positions -> Blocks \cup {Null}]
           /\ \A p \in Positions :
                 FileCommit(durable, f)[p] = IF p[1] = f THEN blk[p] ELSE durable[p]
           /\ \A size, last : LeaveFile(size, last, f) \in [Positions -> Blocks \cup {Null}]
<1>1. \A g : FileCommit(durable, g) \in [Positions -> Blocks \cup {Null}]
  BY DEF TypeOK, FileCommit, InFile
<1>2. \A p \in Positions :
        FileCommit(durable, f)[p] = IF p[1] = f THEN blk[p] ELSE durable[p]
  BY DEF FileCommit, InFile
<1>3. \A size, last : LeaveFile(size, last, f) \in [Positions -> Blocks \cup {Null}]
  BY <1>1 DEF LeaveFile, TypeOK
<1> QED
  BY <1>1, <1>2, <1>3

\* Memory that is gone has its type.
LEMMA MemoryGoneType ==
    ASSUME MemoryGone
    PROVE  /\ mapBlockIndex' \subseteq Blocks
           /\ placeholders' \subseteq Blocks \ {Genesis}
           /\ nDataPos' \in [Blocks -> Positions \cup {NoData}]
           /\ setDirtyBlockIndex' \subseteq mapBlockIndex'
           /\ setDirtyFileInfo' \subseteq Files
           /\ nLastBlockFile' \in Files
           /\ nSize' \in [Files -> 0..BlocksPerFile]
BY DatabaseAssumption DEF MemoryGone, Files

\* A failed write is counted, and no more of them than MaxFailures.
LEMMA OutcomeType ==
    ASSUME failures \in 0..MaxFailures, NEW ok \in BOOLEAN, Outcome(ok)
    PROVE  failures' \in 0..MaxFailures
BY DatabaseAssumption DEF Outcome

\* Placing a block keeps the types of what FindBlockPos and WriteBlockToDisk set.
LEMMA FindBlockPosType ==
    ASSUME TypeOK,
           NEW size \in [Files -> 0..BlocksPerFile], NEW last \in Files,
           HasRoom(size, last), FindBlockPos(size, last)
    PROVE  /\ durable' \in [Positions -> Blocks \cup {Null}]
           /\ nLastBlockFile' \in Files
           /\ nSize' \in [Files -> 0..BlocksPerFile]
           /\ NextPos(size, last) \in Positions
           /\ NextPos(size, last)[1] \in Files
<1>1. /\ NextFile(size, last) \in Files
      /\ NextPos(size, last) \in Positions
      /\ NextPos(size, last)[1] = NextFile(size, last)
      /\ Grown(size, NextFile(size, last)) \in [Files -> 0..BlocksPerFile]
  BY NextPosProperties
<1> QED
  BY <1>1, FileCommitType DEF FindBlockPos, Grown

\* Every step keeps the types.
LEMMA NextTypeOK == TypeOK /\ [Next]_vars => TypeOK'
<1> SUFFICES ASSUME TypeOK, [Next]_vars PROVE TypeOK'
  OBVIOUS
<1>1. ASSUME NEW b \in Blocks, AcceptBlockHeader(b) PROVE TypeOK'
  BY <1>1 DEF TypeOK, AcceptBlockHeader, AddToBlockIndex, disk, history
<1>2. ASSUME NEW b \in Blocks, NEW ok \in BOOLEAN, AcceptBlock(b, ok) PROVE TypeOK'
  <2> DEFINE p == NextPos(nSize, nLastBlockFile)
  <2>1. /\ durable' \in [Positions -> Blocks \cup {Null}]
        /\ nLastBlockFile' \in Files
        /\ nSize' \in [Files -> 0..BlocksPerFile]
        /\ p \in Positions /\ p[1] \in Files
    <3>1. nSize \in [Files -> 0..BlocksPerFile] /\ nLastBlockFile \in Files
      BY DEF TypeOK
    <3>2. HasRoom(nSize, nLastBlockFile) /\ FindBlockPos(nSize, nLastBlockFile)
      BY <1>2 DEF AcceptBlock
    <3> QED
      BY <3>1, <3>2, FindBlockPosType
  <2>2. failures' \in 0..MaxFailures
    BY <1>2, OutcomeType DEF TypeOK, AcceptBlock, WriteBlockToDisk
  <2> HIDE DEF p
  <2>3. /\ blk' = IF ok THEN [blk EXCEPT ![p] = b] ELSE blk
        /\ setDirtyFileInfo' = setDirtyFileInfo \cup {p[1]}
        /\ nDataPos' = [nDataPos EXCEPT ![b] = p]
        /\ setDirtyBlockIndex' = setDirtyBlockIndex \cup {b}
        /\ unwritten' = IF ok THEN unwritten ELSE unwritten \cup {<<b, p>>}
    BY <1>2 DEF AcceptBlock, WriteBlockToDisk, ReceivedBlockTransactions, p
  <2>4. blk' \in [Positions -> Blocks \cup {Null}]
    BY <2>1, <2>3 DEF TypeOK
  <2>5. /\ mapBlockIndex' = mapBlockIndex \cup {b}
        /\ phase' = IF ok THEN phase ELSE "aborting"
        /\ UNCHANGED <<flush, committed, placeholders, db, everRecorded, batchLost>>
    BY <1>2 DEF AcceptBlock
  <2> QED
    BY <2>1, <2>2, <2>3, <2>4, <2>5 DEF TypeOK
<1>3. ASSUME NEW b \in Blocks, AcceptBlockDiskFull(b) PROVE TypeOK'
  <2>1. /\ durable' \in [Positions -> Blocks \cup {Null}]
        /\ nLastBlockFile' \in Files
        /\ nSize' \in [Files -> 0..BlocksPerFile]
    BY <1>3, FindBlockPosType DEF TypeOK, AcceptBlockDiskFull
  <2>2. failures' \in 0..MaxFailures
    BY <1>3, OutcomeType DEF TypeOK, AcceptBlockDiskFull
  <2>3. /\ mapBlockIndex' = mapBlockIndex \cup {b}
        /\ setDirtyBlockIndex' \subseteq setDirtyBlockIndex \cup {b}
        /\ phase' = "aborting"
        /\ UNCHANGED <<flush, committed, placeholders, nDataPos, setDirtyFileInfo, blk,
                       db, everRecorded, unwritten, batchLost>>
    BY <1>3 DEF AcceptBlockDiskFull, AddToBlockIndex
  <2> QED
    BY <2>1, <2>2, <2>3 DEF TypeOK
<1>4. CASE FlushStateToDisk
  BY <1>4 DEF TypeOK, FlushStateToDisk, memory, disk, history
<1>5. CASE OutOfDiskSpace
  <2>1. failures' \in 0..MaxFailures
    BY <1>5, OutcomeType DEF TypeOK, OutOfDiskSpace
  <2>2. CASE flush = "stop"
    BY <1>5, <2>1, <2>2, MemoryGoneType DEF TypeOK, OutOfDiskSpace, disk
  <2>3. CASE flush # "stop"
    BY <1>5, <2>1, <2>3 DEF TypeOK, OutOfDiskSpace, disk, memory
  <2> QED
    BY <2>2, <2>3
<1>6. CASE FlushBlockFile
  BY <1>6, FileCommitType DEF TypeOK, FlushBlockFile, memory, history
<1>7. ASSUME NEW ok \in BOOLEAN, WriteBatchSync(ok) PROVE TypeOK'
  <2>1. failures' \in 0..MaxFailures
    BY <1>7, OutcomeType DEF TypeOK, WriteBatchSync
  <2>2. NewIndex \in [Blocks -> Positions \cup {NoData, NoRecord}]
    BY DEF TypeOK, NewIndex
  <2>3. NewSizes \in [Files -> 0..BlocksPerFile]
    BY DEF TypeOK, NewSizes
  <2>4. db' \in [index : [Blocks -> Positions \cup {NoData, NoRecord}],
                 nSize : [Files -> 0..BlocksPerFile], last : Files]
    BY <1>7, <2>2, <2>3 DEF TypeOK, WriteBatchSync
  <2>5. everRecorded' \subseteq Blocks \X Positions
    BY <1>7 DEF TypeOK, WriteBatchSync
  <2>6. /\ phase' \in {"down", "running", "aborting"}
        /\ flush' \in {"none", "start", "run", "stop"}
        /\ committed' \in BOOLEAN /\ batchLost' \in BOOLEAN
        /\ UNCHANGED <<blk, durable, unwritten>>
    BY <1>7 DEF TypeOK, WriteBatchSync
  <2>7. /\ mapBlockIndex' \subseteq Blocks
        /\ placeholders' \subseteq Blocks \ {Genesis}
        /\ nDataPos' \in [Blocks -> Positions \cup {NoData}]
        /\ setDirtyBlockIndex' \subseteq mapBlockIndex'
        /\ setDirtyFileInfo' \subseteq Files
        /\ nLastBlockFile' \in Files
        /\ nSize' \in [Files -> 0..BlocksPerFile]
    <3>1. CASE flush = "stop"
      BY <1>7, <3>1, MemoryGoneType DEF WriteBatchSync
    <3>2. CASE flush # "stop"
      BY <1>7, <3>2 DEF WriteBatchSync, TypeOK
    <3> QED
      BY <3>1, <3>2
  <2> QED
    BY <2>1, <2>4, <2>5, <2>6, <2>7 DEF TypeOK
<1>8. ASSUME NEW ok \in BOOLEAN, Start(ok) PROVE TypeOK'
  <2> DEFINE p == NextPos(db.nSize, db.last)
  <2>1. /\ durable' \in [Positions -> Blocks \cup {Null}]
        /\ nLastBlockFile' \in Files
        /\ nSize' \in [Files -> 0..BlocksPerFile]
        /\ p \in Positions /\ p[1] \in Files
    <3>1. db.nSize \in [Files -> 0..BlocksPerFile] /\ db.last \in Files
      BY DEF TypeOK
    <3>2. HasRoom(db.nSize, db.last) /\ FindBlockPos(db.nSize, db.last)
      BY <1>8 DEF Start
    <3> QED
      BY <3>1, <3>2, FindBlockPosType
  <2>2. failures' \in 0..MaxFailures
    BY <1>8, OutcomeType DEF TypeOK, Start, WriteBlockToDisk
  <2> HIDE DEF p
  <2>3. /\ blk' = IF ok THEN [blk EXCEPT ![p] = Genesis] ELSE blk
        /\ setDirtyFileInfo' = {p[1]}
        /\ mapBlockIndex' = (IF ok THEN {Genesis} ELSE Restored)
        /\ setDirtyBlockIndex' = (IF ok THEN {Genesis} ELSE {})
        /\ nDataPos' = [b \in Blocks |->
              CASE b = Genesis /\ ok -> p
                [] b \in Restored /\ ~ok -> db.index[b]
                [] OTHER -> NoData]
    BY <1>8 DEF Start, WriteBlockToDisk, p
  <2>4. blk' \in [Positions -> Blocks \cup {Null}]
    BY <2>1, <2>3, TreeAssumption DEF TypeOK
  <2>5. \A b \in Restored : b = Genesis /\ db.index[b] \in Positions \cup {NoData}
    BY DEF TypeOK, Restored, Recorded
  <2>6. nDataPos' \in [Blocks -> Positions \cup {NoData}]
    BY <2>1, <2>3, <2>5
  <2>7. placeholders' \subseteq Blocks \ {Genesis}
    BY <1>8, TreeAssumption DEF Start, MadeUp, Recorded
  <2>8. /\ phase' \in {"down", "running", "aborting"}
        /\ flush' \in {"none", "start", "run", "stop"}
        /\ UNCHANGED <<committed, db, everRecorded, unwritten, batchLost>>
    BY <1>8 DEF Start
  <2>9. mapBlockIndex' \subseteq Blocks /\ setDirtyBlockIndex' \subseteq mapBlockIndex'
    BY <2>3, <2>5, TreeAssumption
  <2> QED
    BY <2>1, <2>2, <2>3, <2>4, <2>6, <2>7, <2>8, <2>9 DEF TypeOK
<1>9. CASE StartShutdown
  BY <1>9 DEF TypeOK, StartShutdown, memory, disk, history
<1>10. CASE Crash
  BY <1>10, MemoryGoneType DEF TypeOK, Crash, disk, history
<1>11. CASE PowerLoss
  <2>1. blk' \in [Positions -> Blocks \cup {Null}] /\ durable' = blk'
    BY <1>11 DEF TypeOK, PowerLoss
  <2> QED
    BY <1>11, <2>1, MemoryGoneType DEF TypeOK, PowerLoss, history
<1>12. CASE UNCHANGED vars
  BY <1>12 DEF TypeOK, vars, memory, disk, history
<1> QED
  BY <1>1, <1>2, <1>3, <1>4, <1>5, <1>6, <1>7, <1>8, <1>9, <1>10, <1>11, <1>12 DEF Next

\* The initial state has the types.
LEMMA InitTypeOK == Init => TypeOK
<1> SUFFICES ASSUME Init PROVE TypeOK
  OBVIOUS
<1>1. 0 \in Files /\ 0 \in 0..BlocksPerFile /\ 0 \in 0..MaxFailures
  BY DatabaseAssumption DEF Files
<1>2. nSize \in [Files -> 0..BlocksPerFile] /\ nLastBlockFile \in Files
  BY <1>1 DEF Init
<1>3. /\ blk \in [Positions -> Blocks \cup {Null}]
      /\ durable \in [Positions -> Blocks \cup {Null}]
  BY DEF Init
<1>4. db \in [index : [Blocks -> Positions \cup {NoData, NoRecord}],
              nSize : [Files -> 0..BlocksPerFile], last : Files]
  BY <1>1 DEF Init
<1>5. nDataPos \in [Blocks -> Positions \cup {NoData}]
  BY DEF Init
<1> QED
  BY <1>1, <1>2, <1>3, <1>4, <1>5 DEF Init, TypeOK

\* Every variable has its type and no block file grows beyond its limit, in every
\* reachable state.
THEOREM TypeCorrect == Spec => []TypeOK
BY InitTypeOK, NextTypeOK, PTL DEF Spec

-----------------------------------------------------------------------------
\* The inductive invariant: what a step leaves alone

\* Once the process is gone, only the disk and the history count.
LEMMA StoppedIInv ==
    ASSUME TypeOK', phase' = "down", flush' = "none", ~committed', MemoryGone,
           RecordsWithin', RecordsKnown', FlushedKept', DatabaseClosed'
    PROVE  IInv'
<1>1. FlushInv' /\ SizesAhead' /\ DataWithin' /\ DataWritten' /\ UnsavedIsDirty'
  BY DEF FlushInv, SizesAhead, DataWithin, DataWritten, UnsavedIsDirty
<1>2. DirtyTogether' /\ ParentClosed(mapBlockIndex)'
  BY DEF DirtyTogether, ParentClosed, MemoryGone
<1> QED
  BY <1>1, <1>2 DEF IInv

\* A step that changes neither the database nor the history of it keeps what
\* holds of them alone.
LEMMA DatabaseUnchanged ==
    ASSUME IInv, UNCHANGED <<db, everRecorded, batchLost>>
    PROVE  RecordsWithin' /\ RecordsKnown' /\ DatabaseClosed'
<1>1. RecordsWithin'
  BY DEF IInv, RecordsWithin, Within
<1>2. RecordsKnown'
  BY DEF IInv, RecordsKnown
<1>3. DatabaseClosed'
  BY DEF IInv, DatabaseClosed, Recorded, ParentClosed
<1> QED
  BY <1>1, <1>2, <1>3

\* A step that changes only phase and flush, outside of a stop, keeps IInv.
LEMMA PhaseOnly ==
    ASSUME IInv, TypeOK', UNCHANGED <<memory, disk, everRecorded, unwritten, batchLost, committed>>,
           phase # "down", phase' # "down", ~committed
    PROVE  IInv'
<1>1. /\ UNCHANGED <<mapBlockIndex, nDataPos, setDirtyBlockIndex, setDirtyFileInfo,
                     nLastBlockFile, nSize>>
      /\ UNCHANGED <<blk, durable, db>>
  BY DEF memory, disk
<1>2. RecordsWithin' /\ RecordsKnown' /\ DatabaseClosed'
  BY <1>1, DatabaseUnchanged
<1>3. FlushInv'
  BY DEF FlushInv
<1>4. SizesAhead'
  BY <1>1 DEF IInv, SizesAhead
<1>5. DataWithin'
  BY <1>1 DEF IInv, DataWithin, Within
<1>6. DirtyTogether'
  BY <1>1 DEF IInv, DirtyTogether
<1>7. DataWritten'
  BY <1>1 DEF IInv, DataWritten
<1>8. ParentClosed(mapBlockIndex)'
  BY <1>1 DEF IInv, ParentClosed
<1>9. FlushedKept'
  BY <1>1 DEF IInv, FlushedKept
<1>10. UnsavedIsDirty'
  BY <1>1 DEF IInv, UnsavedIsDirty
<1> QED
  BY <1>2, <1>3, <1>4, <1>5, <1>6, <1>7, <1>8, <1>9, <1>10 DEF IInv

-----------------------------------------------------------------------------
\* The inductive invariant: placing a block

\* What FindBlockPos commits holds what was written there: nothing durable is
\* lost, and what lies in the file that is left becomes durable.
LEMMA LeaveFileKeeps ==
    ASSUME TypeOK, NEW size, NEW last, FindBlockPos(size, last),
           NEW q \in Positions
    PROVE  /\ blk[q] = durable[q] => durable'[q] = durable[q]
           /\ q[1] = last /\ nLastBlockFile' # last => durable'[q] = blk[q]
           /\ durable'[q] \in {blk[q], durable[q]}
<1> DEFINE f == NextFile(size, last)
<1>1. durable' = (IF f # last THEN FileCommit(durable, last) ELSE durable)
      /\ nLastBlockFile' = f
  BY DEF FindBlockPos, LeaveFile
<1>2. FileCommit(durable, last)[q] = IF q[1] = last THEN blk[q] ELSE durable[q]
  BY FileCommitType
<1> QED
  BY <1>1, <1>2

\* Records survive the placing of a block at a position beyond the recorded sizes.
LEMMA PlacedKeepsRecords ==
    ASSUME IInv, NEW size \in [Files -> 0..BlocksPerFile], NEW last \in Files,
           HasRoom(size, last), FindBlockPos(size, last),
           db.last <= last, \A f \in Files : db.nSize[f] <= size[f],
           NEW b, blk' \in {blk, [blk EXCEPT ![NextPos(size, last)] = b]},
           everRecorded' = everRecorded, unwritten \subseteq unwritten'
    PROVE  FlushedKept'
<1> SUFFICES ASSUME NEW r \in everRecorded, r \notin unwritten
             PROVE  durable'[r[2]] = r[1] /\ blk'[r[2]] = r[1]
  BY DEF FlushedKept
<1>1. /\ r[2] \in Positions
      /\ durable[r[2]] = r[1] /\ blk[r[2]] = r[1]
      /\ Within(r[2], db.nSize, db.last)
  BY DEF IInv, TypeOK, FlushedKept, RecordsWithin
<1>2. Within(r[2], size, last)
  <2>1. r[2][1] \in Files /\ r[2][2] \in Nat /\ r[2][1] \in Nat
    BY <1>1, PositionsAndMarks, DatabaseAssumption DEF Files
  <2>2. db.nSize \in [Files -> 0..BlocksPerFile] /\ db.last \in Files
    BY DEF IInv, TypeOK
  <2>3. db.nSize[r[2][1]] \in Nat /\ size[r[2][1]] \in Nat
    BY <2>1, <2>2, DatabaseAssumption
  <2>4. db.last \in Nat /\ last \in Nat
    BY <2>2, DatabaseAssumption DEF Files
  <2> QED
    BY <1>1, <2>1, <2>3, <2>4 DEF Within
<1>3. r[2] # NextPos(size, last)
  BY <1>1, <1>2, WithinGrown
<1>4. blk'[r[2]] = blk[r[2]]
  BY <1>1, <1>3 DEF IInv, TypeOK
<1>5. durable'[r[2]] = r[1]
  BY <1>1, LeaveFileKeeps DEF IInv
<1> QED
  BY <1>1, <1>4, <1>5

\* Blocks that memory places within the old sizes are not disturbed by the
\* placing of a block.
LEMMA PlacedKeepsData ==
    ASSUME TypeOK, NEW size \in [Files -> 0..BlocksPerFile], NEW last \in Files,
           HasRoom(size, last), FindBlockPos(size, last),
           NEW b, blk' \in {blk, [blk EXCEPT ![NextPos(size, last)] = b]},
           NEW q \in Positions, Within(q, size, last),
           NEW c, blk[q] = c, q[1] < last => durable[q] = c
    PROVE  /\ blk'[q] = c
           /\ q[1] < nLastBlockFile' => durable'[q] = c
           /\ q # NextPos(size, last)
           /\ Within(q, nSize', nLastBlockFile')
<1> DEFINE f == NextFile(size, last)
<1>1. q # NextPos(size, last) /\ Within(q, Grown(size, f), f)
  BY WithinGrown
<1>2. nSize' = Grown(size, f) /\ nLastBlockFile' = f
  BY DEF FindBlockPos, Grown
<1>3. blk'[q] = c
  BY <1>1 DEF TypeOK
<1>4. f \in Nat /\ last \in Nat /\ q[1] \in Nat /\ last <= f /\ q[1] <= last
  BY NextFileProperties, PositionsAndMarks, DatabaseAssumption DEF Files, Within
<1>5. ASSUME q[1] < f PROVE durable'[q] = c
  <2>1. CASE q[1] < last
    BY <2>1, LeaveFileKeeps
  <2>2. CASE q[1] = last
    BY <1>2, <1>5, <2>2, <1>4, LeaveFileKeeps
  <2> QED
    BY <1>4, <2>1, <2>2
<1> HIDE DEF f
<1> QED
  BY <1>1, <1>2, <1>3, <1>5

\* What is within the old sizes is within the new ones.
LEMMA PlacedWithin ==
    ASSUME NEW size \in [Files -> 0..BlocksPerFile], NEW last \in Files,
           HasRoom(size, last), FindBlockPos(size, last),
           NEW q \in Positions, Within(q, size, last)
    PROVE  Within(q, nSize', nLastBlockFile')
<1> DEFINE f == NextFile(size, last)
<1>1. nSize' = Grown(size, f) /\ nLastBlockFile' = f
  BY DEF FindBlockPos, Grown
<1>2. Within(q, Grown(size, f), f)
  BY WithinGrown
<1> HIDE DEF f
<1> QED
  BY <1>1, <1>2

\* The sizes after the placing of a block are not behind the recorded ones.
LEMMA PlacedSizesAhead ==
    ASSUME TypeOK, NEW size \in [Files -> 0..BlocksPerFile], NEW last \in Files,
           HasRoom(size, last), FindBlockPos(size, last), UNCHANGED db,
           db.last <= last, \A f \in Files : db.nSize[f] <= size[f]
    PROVE  SizesAhead'
<1> DEFINE f == NextFile(size, last)
<1>1. /\ f \in Files /\ last <= f
      /\ Grown(size, f) \in [Files -> 0..BlocksPerFile]
      /\ \A e \in Files : size[e] <= Grown(size, f)[e]
  BY NextPosProperties
<1>2. nSize' = Grown(size, f) /\ nLastBlockFile' = f
  BY DEF FindBlockPos, Grown
<1> HIDE DEF f
<1>3. db.nSize \in [Files -> 0..BlocksPerFile] /\ db.last \in Files
  BY DEF TypeOK
<1>4. db.last <= f
  BY <1>1, <1>3, DatabaseAssumption DEF Files
<1>5. ASSUME NEW e \in Files PROVE db.nSize[e] <= Grown(size, f)[e]
  <2>1. /\ db.nSize[e] \in Nat /\ size[e] \in Nat /\ Grown(size, f)[e] \in Nat
        /\ db.nSize[e] <= size[e] /\ size[e] <= Grown(size, f)[e]
    BY <1>1, <1>3, DatabaseAssumption
  <2> QED
    BY <2>1
<1> QED
  BY <1>2, <1>4, <1>5 DEF SizesAhead

\* AcceptBlock keeps the invariant, whether the write succeeds or not.
LEMMA AcceptBlockIInv ==
    ASSUME IInv, TypeOK', NEW b \in Blocks, NEW ok \in BOOLEAN, AcceptBlock(b, ok)
    PROVE  IInv'
<1> DEFINE p == NextPos(nSize, nLastBlockFile)
<1>1. /\ TypeOK /\ phase # "down" /\ flush = "none" /\ ~committed /\ phase' # "down"
      /\ nSize \in [Files -> 0..BlocksPerFile] /\ nLastBlockFile \in Files
      /\ HasRoom(nSize, nLastBlockFile) /\ FindBlockPos(nSize, nLastBlockFile)
      /\ UNCHANGED <<flush, committed, db, everRecorded, batchLost>>
  BY DEF AcceptBlock, Up, IInv, TypeOK, FlushInv
<1>2. /\ blk' = IF ok THEN [blk EXCEPT ![p] = b] ELSE blk
      /\ setDirtyFileInfo' = setDirtyFileInfo \cup {p[1]}
      /\ nDataPos' = [nDataPos EXCEPT ![b] = p]
      /\ setDirtyBlockIndex' = setDirtyBlockIndex \cup {b}
      /\ unwritten' = IF ok THEN unwritten ELSE unwritten \cup {<<b, p>>}
      /\ mapBlockIndex' = mapBlockIndex \cup {b}
  BY DEF AcceptBlock, WriteBlockToDisk, ReceivedBlockTransactions
<1>3. /\ p \in Positions /\ p[1] = nLastBlockFile'
      /\ Within(p, nSize', nLastBlockFile')
  <2> DEFINE f == NextFile(nSize, nLastBlockFile)
  <2>1. nSize' = Grown(nSize, f) /\ nLastBlockFile' = f
    BY <1>1 DEF FindBlockPos, Grown
  <2>2. p \in Positions /\ p[1] = f /\ Within(p, Grown(nSize, f), f)
    BY <1>1, NextPosProperties
  <2> HIDE DEF f, p
  <2> QED
    BY <2>1, <2>2
<1>4. blk' \in {blk, [blk EXCEPT ![p] = b]}
  BY <1>2
<1>5. db.last <= nLastBlockFile /\ \A f \in Files : db.nSize[f] <= nSize[f]
  BY <1>1 DEF IInv, SizesAhead
<1>6. FlushedKept'
  BY <1>1, <1>2, <1>4, <1>5, PlacedKeepsRecords
<1>7. SizesAhead'
  BY <1>1, <1>5, PlacedSizesAhead
<1>8. RecordsWithin' /\ RecordsKnown' /\ DatabaseClosed'
  BY <1>1, DatabaseUnchanged
<1>9. ASSUME NEW c \in Blocks, c # b, nDataPos[c] \in Positions
      PROVE  Within(nDataPos[c], nSize', nLastBlockFile')
  <2>1. Within(nDataPos[c], nSize, nLastBlockFile)
    BY <1>1, <1>9 DEF IInv, DataWithin
  <2> QED
    BY <1>1, <1>9, <2>1, PlacedWithin
<1>10. ASSUME NEW c \in Blocks, c # b, nDataPos[c] \in Positions,
              <<c, nDataPos[c]>> \notin unwritten
       PROVE  /\ blk'[nDataPos[c]] = c
              /\ nDataPos[c][1] < nLastBlockFile' => durable'[nDataPos[c]] = c
  <2>1. /\ Within(nDataPos[c], nSize, nLastBlockFile)
        /\ blk[nDataPos[c]] = c
        /\ nDataPos[c][1] < nLastBlockFile => durable[nDataPos[c]] = c
    BY <1>1, <1>10 DEF IInv, DataWithin, DataWritten
  <2> QED
    BY <1>1, <1>4, <1>10, <2>1, PlacedKeepsData
<1> HIDE DEF p
<1>11. nDataPos \in [Blocks -> Positions \cup {NoData}]
  BY <1>1 DEF TypeOK
<1>12. nDataPos'[b] = p /\ \A c \in Blocks : c # b => nDataPos'[c] = nDataPos[c]
  BY <1>2, <1>11
<1>13. DataWithin'
  <2>1. \A c \in Blocks : nDataPos[c] \in Positions => c \in mapBlockIndex
    BY <1>1 DEF IInv, DataWithin
  <2> QED
    BY <1>2, <1>3, <1>9, <1>12, <2>1 DEF DataWithin
<1>14. DataWritten'
  <2> SUFFICES ASSUME NEW c \in Blocks, nDataPos'[c] \in Positions,
                      <<c, nDataPos'[c]>> \notin unwritten'
               PROVE  /\ blk'[nDataPos'[c]] = c
                      /\ nDataPos'[c][1] < nLastBlockFile' => durable'[nDataPos'[c]] = c
    BY <1>1 DEF DataWritten
  <2>1. CASE c = b
    <3>1. ok
      BY <1>2, <1>12, <2>1
    <3>2. blk'[p] = b
      BY <1>1, <1>2, <1>3, <3>1 DEF TypeOK
    <3>3. ~(p[1] < nLastBlockFile')
      BY <1>3, PositionsAndMarks, DatabaseAssumption DEF Files
    <3> QED
      BY <1>12, <2>1, <3>2, <3>3
  <2>2. CASE c # b
    BY <1>2, <1>10, <1>12, <2>2
  <2> QED
    BY <2>1, <2>2
<1>15. DirtyTogether'
  <2>1. setDirtyBlockIndex \subseteq Blocks
    BY <1>1 DEF TypeOK
  <2> QED
    BY <1>2, <1>12, <2>1 DEF IInv, DirtyTogether
<1>16. ParentClosed(mapBlockIndex)'
  BY <1>2 DEF IInv, ParentClosed, AcceptBlock, Acceptable
<1>17. UnsavedIsDirty'
  <2>1. mapBlockIndex \subseteq Blocks
    BY <1>1 DEF TypeOK
  <2> QED
    BY <1>1, <1>2, <1>12, <2>1 DEF IInv, UnsavedIsDirty
<1>18. FlushInv'
  BY <1>1 DEF FlushInv
<1> QED
  BY <1>6, <1>7, <1>8, <1>13, <1>14, <1>15, <1>16, <1>17, <1>18 DEF IInv

\* So does AcceptBlock when the disk is full: the file has grown, and nothing is there.
LEMMA AcceptBlockDiskFullIInv ==
    ASSUME IInv, TypeOK', NEW b \in Blocks, AcceptBlockDiskFull(b)
    PROVE  IInv'
<1>1. /\ TypeOK /\ phase # "down" /\ flush = "none" /\ ~committed /\ phase' # "down"
      /\ nSize \in [Files -> 0..BlocksPerFile] /\ nLastBlockFile \in Files
      /\ HasRoom(nSize, nLastBlockFile) /\ FindBlockPos(nSize, nLastBlockFile)
      /\ UNCHANGED <<flush, committed, db, everRecorded, batchLost>>
      /\ UNCHANGED <<nDataPos, setDirtyFileInfo, blk, unwritten>>
  BY DEF AcceptBlockDiskFull, Up, IInv, TypeOK, FlushInv
<1>2. /\ mapBlockIndex' = mapBlockIndex \cup {b}
      /\ b \notin mapBlockIndex => setDirtyBlockIndex' = setDirtyBlockIndex \cup {b}
      /\ b \in mapBlockIndex => setDirtyBlockIndex' = setDirtyBlockIndex
      /\ pprev[b] \in mapBlockIndex
      /\ nDataPos[b] = NoData
  BY DEF AcceptBlockDiskFull, AddToBlockIndex, Acceptable
<1>3. db.last <= nLastBlockFile /\ \A f \in Files : db.nSize[f] <= nSize[f]
  BY <1>1 DEF IInv, SizesAhead
<1>4. FlushedKept'
  BY <1>1, <1>3, PlacedKeepsRecords
<1>5. SizesAhead'
  BY <1>1, <1>3, PlacedSizesAhead
<1>6. RecordsWithin' /\ RecordsKnown' /\ DatabaseClosed'
  BY <1>1, DatabaseUnchanged
<1>7. DataWithin'
  <2> SUFFICES ASSUME NEW c \in Blocks, nDataPos[c] \in Positions
               PROVE  c \in mapBlockIndex' /\ Within(nDataPos[c], nSize', nLastBlockFile')
    BY <1>1 DEF DataWithin
  <2>1. c \in mapBlockIndex /\ Within(nDataPos[c], nSize, nLastBlockFile)
    BY <1>1 DEF IInv, DataWithin
  <2>2. Within(nDataPos[c], nSize', nLastBlockFile')
    BY <1>1, <2>1, PlacedWithin
  <2> QED
    BY <1>2, <2>1, <2>2
<1>8. DataWritten'
  <2> SUFFICES ASSUME NEW c \in Blocks, nDataPos[c] \in Positions,
                      <<c, nDataPos[c]>> \notin unwritten
               PROVE  /\ blk'[nDataPos[c]] = c
                      /\ nDataPos[c][1] < nLastBlockFile' => durable'[nDataPos[c]] = c
    BY <1>1 DEF DataWritten
  <2>1. /\ Within(nDataPos[c], nSize, nLastBlockFile)
        /\ blk[nDataPos[c]] = c
        /\ nDataPos[c][1] < nLastBlockFile => durable[nDataPos[c]] = c
    BY <1>1 DEF IInv, DataWithin, DataWritten
  <2> QED
    BY <1>1, <2>1, PlacedKeepsData
<1>9. DirtyTogether'
  BY <1>1, <1>2, PositionsAndMarks DEF IInv, DirtyTogether
<1>10. ParentClosed(mapBlockIndex)'
  BY <1>2 DEF IInv, ParentClosed
<1>11. UnsavedIsDirty'
  BY <1>1, <1>2 DEF IInv, UnsavedIsDirty
<1>12. FlushInv'
  BY <1>1 DEF FlushInv
<1> QED
  BY <1>4, <1>5, <1>6, <1>7, <1>8, <1>9, <1>10, <1>11, <1>12 DEF IInv

\* Start keeps the invariant: the genesis block goes beyond the recorded sizes, and an
\* entry that comes back lies where its record says.
LEMMA StartIInv ==
    ASSUME IInv, TypeOK', NEW ok \in BOOLEAN, Start(ok)
    PROVE  IInv'
<1> DEFINE p == NextPos(db.nSize, db.last)
<1>1. /\ TypeOK /\ phase = "down" /\ ~committed /\ ~committed'
      /\ phase' # "down" /\ flush' # "none"
      /\ db.nSize \in [Files -> 0..BlocksPerFile] /\ db.last \in Files
      /\ HasRoom(db.nSize, db.last) /\ FindBlockPos(db.nSize, db.last)
      /\ UNCHANGED <<db, everRecorded, batchLost, unwritten>>
  BY DEF Start, IInv, TypeOK, FlushInv
<1>2. /\ blk' = IF ok THEN [blk EXCEPT ![p] = Genesis] ELSE blk
      /\ setDirtyFileInfo' = {p[1]}
      /\ mapBlockIndex' = (IF ok THEN {Genesis} ELSE Restored)
      /\ setDirtyBlockIndex' = (IF ok THEN {Genesis} ELSE {})
      /\ nDataPos' = [b \in Blocks |->
            CASE b = Genesis /\ ok -> p
              [] b \in Restored /\ ~ok -> db.index[b]
              [] OTHER -> NoData]
  BY DEF Start, WriteBlockToDisk
<1>3. /\ p \in Positions /\ p[1] = nLastBlockFile'
      /\ Within(p, nSize', nLastBlockFile')
  <2> DEFINE f == NextFile(db.nSize, db.last)
  <2>1. nSize' = Grown(db.nSize, f) /\ nLastBlockFile' = f
    BY <1>1 DEF FindBlockPos, Grown
  <2>2. p \in Positions /\ p[1] = f /\ Within(p, Grown(db.nSize, f), f)
    BY <1>1, NextPosProperties
  <2> HIDE DEF f, p
  <2> QED
    BY <2>1, <2>2
<1>4. blk' \in {blk, [blk EXCEPT ![p] = Genesis]}
  BY <1>2
<1>5. db.last <= db.last /\ \A f \in Files : db.nSize[f] <= db.nSize[f]
  BY <1>1, DatabaseAssumption DEF Files
<1>6. FlushedKept'
  BY <1>1, <1>4, <1>5, PlacedKeepsRecords
<1>7. SizesAhead'
  BY <1>1, <1>5, PlacedSizesAhead
<1>8. RecordsWithin' /\ RecordsKnown' /\ DatabaseClosed'
  BY <1>1, DatabaseUnchanged
<1>9. ASSUME NEW q, q = db.index[Genesis], q \in Positions
      PROVE  /\ Within(q, nSize', nLastBlockFile')
             /\ <<Genesis, q>> \notin unwritten =>
                   /\ blk'[q] = Genesis
                   /\ q[1] < nLastBlockFile' => durable'[q] = Genesis
  <2>1. <<Genesis, q>> \in everRecorded
    BY <1>9, TreeAssumption DEF IInv, RecordsKnown
  <2>2. Within(q, db.nSize, db.last)
    BY <2>1 DEF IInv, RecordsWithin
  <2>3. Within(q, nSize', nLastBlockFile')
    BY <1>1, <1>9, <2>2, PlacedWithin
  <2>4. ASSUME <<Genesis, q>> \notin unwritten
        PROVE  blk[q] = Genesis /\ durable[q] = Genesis
    BY <2>1, <2>4 DEF IInv, FlushedKept
  <2>5. ASSUME <<Genesis, q>> \notin unwritten
        PROVE  blk'[q] = Genesis /\ (q[1] < nLastBlockFile' => durable'[q] = Genesis)
    BY <1>1, <1>4, <1>9, <2>2, <2>4, <2>5, PlacedKeepsData
  <2> QED
    BY <2>3, <2>5
<1> HIDE DEF p
<1>10. ASSUME NEW b \in Blocks, nDataPos'[b] \in Positions
       PROVE  /\ b = Genesis /\ b \in mapBlockIndex'
              /\ nDataPos'[b] = IF ok THEN p ELSE db.index[Genesis]
  BY <1>2, <1>10, PositionsAndMarks DEF Restored
<1>11. DataWithin'
  BY <1>3, <1>9, <1>10 DEF DataWithin
<1>12. DataWritten'
  <2> SUFFICES ASSUME NEW b \in Blocks, nDataPos'[b] \in Positions,
                      <<b, nDataPos'[b]>> \notin unwritten
               PROVE  /\ blk'[nDataPos'[b]] = b
                      /\ nDataPos'[b][1] < nLastBlockFile' => durable'[nDataPos'[b]] = b
    BY <1>1 DEF DataWritten
  <2>1. CASE ok
    <3>1. blk'[p] = Genesis
      BY <1>1, <1>2, <1>3, <2>1 DEF TypeOK
    <3>2. ~(p[1] < nLastBlockFile')
      BY <1>3, PositionsAndMarks, DatabaseAssumption DEF Files
    <3> QED
      BY <1>10, <2>1, <3>1, <3>2
  <2>2. CASE ~ok
    BY <1>9, <1>10, <2>2
  <2> QED
    BY <2>1, <2>2
<1>13. DirtyTogether'
  BY <1>2, <1>10, TreeAssumption DEF DirtyTogether
<1>14. ParentClosed(mapBlockIndex)'
  BY <1>2 DEF ParentClosed, Restored
<1>15. UnsavedIsDirty'
  BY <1>1, <1>2, TreeAssumption DEF UnsavedIsDirty, Restored
<1>16. FlushInv'
  BY <1>1 DEF FlushInv
<1> QED
  BY <1>6, <1>7, <1>8, <1>11, <1>12, <1>13, <1>14, <1>15, <1>16 DEF IInv

-----------------------------------------------------------------------------
\* The inductive invariant: the other steps

\* A new header is marked dirty and has a known parent.
LEMMA AcceptBlockHeaderIInv ==
    ASSUME IInv, TypeOK', NEW b \in Blocks, AcceptBlockHeader(b)
    PROVE  IInv'
<1>1. /\ mapBlockIndex' = mapBlockIndex \cup {b}
      /\ setDirtyBlockIndex' = setDirtyBlockIndex \cup {b}
      /\ pprev[b] \in mapBlockIndex /\ b \notin mapBlockIndex
      /\ UNCHANGED <<phase, flush, committed, nDataPos, setDirtyFileInfo,
                     nLastBlockFile, nSize, blk, durable, db, everRecorded, unwritten,
                     batchLost>>
  BY DEF AcceptBlockHeader, AddToBlockIndex, Acceptable, disk, history
<1>2. phase # "down"
  BY DEF AcceptBlockHeader, Up
<1>3. RecordsWithin' /\ RecordsKnown' /\ DatabaseClosed'
  BY <1>1, DatabaseUnchanged
<1>4. FlushInv' /\ SizesAhead'
  BY <1>1 DEF IInv, FlushInv, SizesAhead
<1>5. DataWithin'
  BY <1>1 DEF IInv, DataWithin, Within
<1>6. DataWritten'
  BY <1>1 DEF IInv, DataWritten
<1>7. FlushedKept'
  BY <1>1 DEF IInv, FlushedKept
<1>8. ParentClosed(mapBlockIndex)'
  BY <1>1 DEF IInv, ParentClosed
<1>9. UnsavedIsDirty'
  BY <1>1 DEF IInv, UnsavedIsDirty
<1>10. DirtyTogether'
  <2>1. nDataPos[b] \notin Positions
    BY <1>1, <1>2 DEF IInv, DataWithin
  <2> QED
    BY <1>1, <2>1 DEF IInv, DirtyTogether
<1> QED
  BY <1>3, <1>4, <1>5, <1>6, <1>7, <1>8, <1>9, <1>10 DEF IInv

\* FlushBlockFile makes the last file durable, the others were so when they were left.
LEMMA FlushBlockFileIInv ==
    ASSUME IInv, TypeOK', FlushBlockFile
    PROVE  IInv'
<1>1. /\ TypeOK /\ flush # "none" /\ phase # "down"
      /\ durable' = FileCommit(durable, nLastBlockFile)
      /\ UNCHANGED <<phase, flush, mapBlockIndex, nDataPos, setDirtyBlockIndex,
                     setDirtyFileInfo, nLastBlockFile, nSize, blk, db, everRecorded,
                     unwritten, batchLost>>
  BY DEF FlushBlockFile, IInv, FlushInv, memory, history
<1>2. \A q \in Positions :
        durable'[q] = IF q[1] = nLastBlockFile THEN blk[q] ELSE durable[q]
  BY <1>1, FileCommitType
<1>3. RecordsWithin' /\ RecordsKnown' /\ DatabaseClosed'
  BY <1>1, DatabaseUnchanged
<1>4. FlushInv' /\ SizesAhead'
  BY <1>1 DEF IInv, FlushInv, SizesAhead
<1>5. DataWithin'
  BY <1>1 DEF IInv, DataWithin, Within
<1>6. DirtyTogether'
  BY <1>1 DEF IInv, DirtyTogether
<1>7. ParentClosed(mapBlockIndex)'
  BY <1>1 DEF IInv, ParentClosed
<1>8. UnsavedIsDirty'
  BY <1>1 DEF IInv, UnsavedIsDirty
<1>9. FlushedKept'
  <2> SUFFICES ASSUME NEW r \in everRecorded, r \notin unwritten
               PROVE  durable'[r[2]] = r[1] /\ blk[r[2]] = r[1]
    BY <1>1 DEF FlushedKept
  <2>1. r[2] \in Positions /\ durable[r[2]] = r[1] /\ blk[r[2]] = r[1]
    BY <1>1 DEF IInv, TypeOK, FlushedKept
  <2> QED
    BY <1>2, <2>1
<1>10. DataWritten'
  <2> SUFFICES ASSUME NEW b \in Blocks, nDataPos[b] \in Positions,
                      <<b, nDataPos[b]>> \notin unwritten
               PROVE  blk[nDataPos[b]] = b /\ durable'[nDataPos[b]] = b
    BY <1>1 DEF DataWritten
  <2>1. /\ blk[nDataPos[b]] = b
        /\ nDataPos[b][1] < nLastBlockFile => durable[nDataPos[b]] = b
        /\ nDataPos[b][1] <= nLastBlockFile
    BY <1>1 DEF IInv, DataWritten, DataWithin, Within
  <2>2. nDataPos[b][1] \in Nat /\ nLastBlockFile \in Nat
    BY <1>1, PositionsAndMarks, DatabaseAssumption DEF TypeOK, Files
  <2>3. nDataPos[b][1] < nLastBlockFile \/ nDataPos[b][1] = nLastBlockFile
    BY <2>1, <2>2
  <2> QED
    BY <1>2, <2>1, <2>3
<1> QED
  BY <1>3, <1>4, <1>5, <1>6, <1>7, <1>8, <1>9, <1>10 DEF IInv

\* A batch that is written records positions that are within the sizes it records, of
\* blocks that are durable, and with a block its parent.
LEMMA BatchRecords ==
    ASSUME IInv, TypeOK', WriteBatchSync(TRUE)
    PROVE  RecordsWithin' /\ RecordsKnown' /\ FlushedKept' /\ DatabaseClosed'
<1> DEFINE New == {<<b, nDataPos[b]>> : b \in {c \in setDirtyBlockIndex :
                                                 nDataPos[c] # NoData}}
<1>1. /\ TypeOK /\ committed /\ phase # "down"
      /\ db' = [index |-> NewIndex, nSize |-> NewSizes, last |-> nLastBlockFile]
      /\ everRecorded' = everRecorded \cup New
      /\ batchLost' = batchLost
      /\ UNCHANGED <<blk, durable, unwritten>>
  BY DEF WriteBatchSync, IInv, FlushInv, TypeOK
<1>2. /\ db'.index = NewIndex /\ db'.nSize = NewSizes /\ db'.last = nLastBlockFile
      /\ NewIndex = [b \in Blocks |-> IF b \in setDirtyBlockIndex THEN nDataPos[b]
                                                                  ELSE db.index[b]]
      /\ NewSizes = [f \in Files |-> IF f \in setDirtyFileInfo THEN nSize[f]
                                                               ELSE db.nSize[f]]
  BY <1>1 DEF NewIndex, NewSizes
<1>3. ASSUME NEW r \in New
      PROVE  \E b \in setDirtyBlockIndex :
                /\ r = <<b, nDataPos[b]>> /\ nDataPos[b] \in Positions /\ b \in Blocks
                /\ b \in mapBlockIndex
  <2>1. PICK b \in setDirtyBlockIndex : nDataPos[b] # NoData /\ r = <<b, nDataPos[b]>>
    OBVIOUS
  <2> QED
    BY <1>1, <2>1 DEF TypeOK
<1> HIDE DEF New
<1>4. /\ nSize \in [Files -> 0..BlocksPerFile] /\ db.nSize \in [Files -> 0..BlocksPerFile]
      /\ nLastBlockFile \in Nat /\ db.last \in Nat /\ db.last <= nLastBlockFile
      /\ \A f \in Files : db.nSize[f] <= nSize[f]
  <2>1. nLastBlockFile \in Files /\ db.last \in Files
    BY <1>1 DEF TypeOK
  <2>2. nLastBlockFile \in Nat /\ db.last \in Nat
    BY <2>1, DatabaseAssumption DEF Files
  <2> QED
    BY <1>1, <2>2 DEF IInv, SizesAhead, TypeOK
<1>5. RecordsWithin'
  <2> SUFFICES ASSUME NEW r \in everRecorded \cup New
               PROVE  Within(r[2], NewSizes, nLastBlockFile)
    BY <1>1, <1>2 DEF RecordsWithin
  <2>1. CASE r \in everRecorded
    <3>1. r[2] \in Positions /\ r[2][1] <= db.last /\ r[2][2] <= db.nSize[r[2][1]]
      BY <1>1, <2>1 DEF IInv, RecordsWithin, Within, TypeOK
    <3>2. r[2][1] \in Files /\ r[2][1] \in Nat /\ r[2][2] \in Nat
      BY <3>1, PositionsAndMarks, DatabaseAssumption DEF Files
    <3>3. db.nSize[r[2][1]] \in Nat /\ NewSizes[r[2][1]] \in Nat
          /\ db.nSize[r[2][1]] <= NewSizes[r[2][1]]
      BY <1>2, <1>4, <3>2, DatabaseAssumption
    <3> QED
      BY <1>4, <3>1, <3>2, <3>3 DEF Within
  <2>2. CASE r \in New
    <3>1. PICK b \in setDirtyBlockIndex :
            r = <<b, nDataPos[b]>> /\ nDataPos[b] \in Positions /\ b \in Blocks
      BY <1>3, <2>2
    <3>2. nDataPos[b][1] \in setDirtyFileInfo
      BY <3>1 DEF IInv, DirtyTogether
    <3>3. nDataPos[b][1] <= nLastBlockFile /\ nDataPos[b][2] <= nSize[nDataPos[b][1]]
      BY <1>1, <3>1 DEF IInv, DataWithin, Within
    <3>4. NewSizes[nDataPos[b][1]] = nSize[nDataPos[b][1]]
      BY <1>2, <3>1, <3>2, PositionsAndMarks
    <3>5. r[2] = nDataPos[b]
      BY <3>1
    <3> QED
      BY <3>3, <3>4, <3>5 DEF Within
  <2> QED
    BY <2>1, <2>2
<1>6. RecordsKnown'
  <2> SUFFICES ASSUME NEW b \in Blocks, NewIndex[b] \in Positions
               PROVE  <<b, NewIndex[b]>> \in everRecorded \cup New
    BY <1>1, <1>2 DEF RecordsKnown
  <2>1. CASE b \in setDirtyBlockIndex
    BY <1>2, <2>1, PositionsAndMarks DEF New
  <2>2. CASE b \notin setDirtyBlockIndex
    BY <1>2, <2>2 DEF IInv, RecordsKnown
  <2> QED
    BY <2>1, <2>2
<1>7. FlushedKept'
  <2> SUFFICES ASSUME NEW r \in everRecorded \cup New, r \notin unwritten
               PROVE  durable[r[2]] = r[1] /\ blk[r[2]] = r[1]
    BY <1>1 DEF FlushedKept
  <2>1. CASE r \in everRecorded
    BY <2>1 DEF IInv, FlushedKept
  <2>2. CASE r \in New
    <3>1. PICK b \in setDirtyBlockIndex :
            r = <<b, nDataPos[b]>> /\ nDataPos[b] \in Positions /\ b \in Blocks
      BY <1>3, <2>2
    <3>2. blk[nDataPos[b]] = b /\ durable[nDataPos[b]] = b
      BY <1>1, <3>1 DEF IInv, DataWritten
    <3> QED
      BY <3>1, <3>2
  <2> QED
    BY <2>1, <2>2
<1>8. DatabaseClosed'
  <2> SUFFICES ASSUME ~batchLost, NEW b \in Blocks \ {Genesis}, NewIndex[b] # NoRecord
               PROVE  NewIndex[pprev[b]] # NoRecord
    BY <1>1, <1>2, TreeAssumption DEF DatabaseClosed, ParentClosed, Recorded
  <2>1. pprev[b] \in Blocks
    BY TreeAssumption
  <2>2. \A c \in mapBlockIndex : c \in Blocks /\ NewIndex[c] # NoRecord
    <3> SUFFICES ASSUME NEW c \in mapBlockIndex PROVE c \in Blocks /\ NewIndex[c] # NoRecord
      OBVIOUS
    <3>1. c \in Blocks /\ nDataPos[c] # NoRecord
      BY <1>1, PositionsAndMarks DEF TypeOK
    <3>2. c \notin setDirtyBlockIndex => db.index[c] = nDataPos[c]
      BY <1>1 DEF IInv, UnsavedIsDirty
    <3> QED
      BY <1>2, <3>1, <3>2
  <2>3. CASE b \in setDirtyBlockIndex
    <3>1. b \in mapBlockIndex
      BY <1>1, <2>3 DEF TypeOK
    <3>2. pprev[b] \in mapBlockIndex
      BY <3>1 DEF IInv, ParentClosed
    <3> QED
      BY <2>2, <3>2
  <2>4. CASE b \notin setDirtyBlockIndex
    <3>1. db.index[b] # NoRecord
      BY <1>2, <2>4
    <3>2. db.index[pprev[b]] # NoRecord
      BY <3>1, <2>1 DEF IInv, DatabaseClosed, ParentClosed, Recorded
    <3>3. CASE pprev[b] \in setDirtyBlockIndex
      BY <1>1, <2>2, <3>3 DEF TypeOK
    <3>4. CASE pprev[b] \notin setDirtyBlockIndex
      BY <1>2, <2>1, <3>2, <3>4
    <3> QED
      BY <3>3, <3>4
  <2> QED
    BY <2>3, <2>4
<1> QED
  BY <1>5, <1>6, <1>7, <1>8

\* WriteBatchSync keeps the invariant, whether the batch is written or lost.
LEMMA WriteBatchSyncIInv ==
    ASSUME IInv, TypeOK', NEW ok \in BOOLEAN, WriteBatchSync(ok)
    PROVE  IInv'
<1>1. /\ TypeOK /\ committed /\ phase # "down" /\ ~committed'
      /\ UNCHANGED <<blk, durable, unwritten>>
  BY DEF WriteBatchSync, IInv, FlushInv, TypeOK
<1>2. RecordsWithin' /\ RecordsKnown' /\ FlushedKept' /\ DatabaseClosed'
  <2>1. CASE ok
    BY <2>1, BatchRecords
  <2>2. CASE ~ok
    <3>1. UNCHANGED <<db, everRecorded>> /\ batchLost' = TRUE
      BY <2>2 DEF WriteBatchSync
    <3>2. RecordsWithin'
      BY <3>1 DEF IInv, RecordsWithin, Within
    <3>3. RecordsKnown'
      BY <3>1 DEF IInv, RecordsKnown
    <3>4. FlushedKept'
      BY <1>1, <3>1 DEF IInv, FlushedKept
    <3>5. DatabaseClosed'
      BY <3>1 DEF DatabaseClosed
    <3> QED
      BY <3>2, <3>3, <3>4, <3>5
  <2> QED
    BY <2>1, <2>2
<1>3. CASE flush = "stop"
  <2>1. MemoryGone /\ phase' = "down" /\ flush' = "none"
    BY <1>3 DEF WriteBatchSync
  <2> QED
    BY <1>1, <1>2, <2>1, StoppedIInv
<1>4. CASE flush # "stop"
  <2>1. /\ setDirtyBlockIndex' = {} /\ setDirtyFileInfo' = {}
        /\ UNCHANGED <<mapBlockIndex, nDataPos, nLastBlockFile, nSize>>
        /\ phase' # "down"
    BY <1>1, <1>4 DEF WriteBatchSync
  <2>2. FlushInv'
    BY <1>1, <2>1 DEF FlushInv
  <2>3. SizesAhead'
    <3>1. CASE ok
      <4>1. db'.last = nLastBlockFile /\ db'.nSize = NewSizes
        BY <3>1 DEF WriteBatchSync
      <4>2. nLastBlockFile \in Nat /\ nLastBlockFile <= nLastBlockFile
        BY <1>1, DatabaseAssumption DEF TypeOK, Files
      <4>3. ASSUME NEW f \in Files PROVE NewSizes[f] <= nSize[f]
        <5>1. nSize[f] \in Nat /\ db.nSize[f] <= nSize[f]
          BY <1>1, DatabaseAssumption DEF IInv, SizesAhead, TypeOK
        <5>2. NewSizes[f] = nSize[f] \/ NewSizes[f] = db.nSize[f]
          BY DEF NewSizes
        <5> QED
          BY <5>1, <5>2
      <4> QED
        BY <2>1, <4>1, <4>2, <4>3 DEF SizesAhead
    <3>2. CASE ~ok
      <4>1. db' = db
        BY <3>2 DEF WriteBatchSync
      <4> QED
        BY <1>1, <2>1, <4>1 DEF IInv, SizesAhead
    <3> QED
      BY <3>1, <3>2
  <2>4. DataWithin'
    BY <1>1, <2>1 DEF IInv, DataWithin, Within
  <2>5. DirtyTogether' /\ ParentClosed(mapBlockIndex)'
    BY <2>1 DEF IInv, DirtyTogether, ParentClosed
  <2>6. DataWritten'
    BY <1>1, <2>1 DEF IInv, DataWritten
  <2>7. UnsavedIsDirty'
    <3> SUFFICES ASSUME ~batchLost', NEW b \in mapBlockIndex
                 PROVE  db'.index[b] = nDataPos[b]
      BY <2>1 DEF UnsavedIsDirty
    <3>1. ok /\ ~batchLost
      BY <1>1 DEF WriteBatchSync, TypeOK
    <3>2. db'.index = NewIndex
      BY <3>1 DEF WriteBatchSync
    <3>3. b \in Blocks
      BY <1>1 DEF TypeOK
    <3>4. b \notin setDirtyBlockIndex => db.index[b] = nDataPos[b]
      BY <1>1, <3>1 DEF IInv, UnsavedIsDirty
    <3> QED
      BY <3>2, <3>3, <3>4 DEF NewIndex
  <2> QED
    BY <1>2, <2>2, <2>3, <2>4, <2>5, <2>6, <2>7 DEF IInv
<1> QED
  BY <1>3, <1>4

\* A stop without a write loses memory and nothing else.
LEMMA StopsKeepDisk ==
    ASSUME IInv, TypeOK', phase' = "down", flush' = "none", ~committed', MemoryGone,
           UNCHANGED <<disk, everRecorded, unwritten, batchLost>>
    PROVE  IInv'
<1>1. UNCHANGED <<blk, durable, db>>
  BY DEF disk
<1>2. RecordsWithin' /\ RecordsKnown' /\ DatabaseClosed'
  BY <1>1, DatabaseUnchanged
<1>3. FlushedKept'
  BY <1>1 DEF IInv, FlushedKept
<1> QED
  BY <1>2, <1>3, StoppedIInv

\* OutOfDiskSpace ends the flush, and the node when it is the last one.
LEMMA OutOfDiskSpaceIInv ==
    ASSUME IInv, TypeOK', OutOfDiskSpace
    PROVE  IInv'
<1>1. /\ flush # "none" /\ phase # "down" /\ ~committed /\ ~committed'
      /\ UNCHANGED <<committed, disk, everRecorded, unwritten, batchLost>>
  BY DEF OutOfDiskSpace, IInv, FlushInv
<1>2. CASE flush = "stop"
  BY <1>1, <1>2, StopsKeepDisk DEF OutOfDiskSpace
<1>3. CASE flush # "stop"
  BY <1>1, <1>3, PhaseOnly DEF OutOfDiskSpace
<1> QED
  BY <1>2, <1>3

\* A power loss may undo what was not durable; what was recorded is.
LEMMA PowerLossIInv ==
    ASSUME IInv, TypeOK', PowerLoss
    PROVE  IInv'
<1>1. /\ phase' = "down" /\ flush' = "none" /\ ~committed' /\ MemoryGone
      /\ UNCHANGED <<db, everRecorded, unwritten, batchLost>>
      /\ durable' = blk'
  BY DEF PowerLoss, history
<1>2. \A q \in Positions : blk'[q] \in {blk[q], durable[q]}
  BY DEF PowerLoss
<1>3. FlushedKept'
  <2> SUFFICES ASSUME NEW r \in everRecorded, r \notin unwritten
               PROVE  blk'[r[2]] = r[1]
    BY <1>1 DEF FlushedKept
  <2>1. r[2] \in Positions /\ durable[r[2]] = r[1] /\ blk[r[2]] = r[1]
    BY DEF IInv, TypeOK, FlushedKept
  <2> QED
    BY <1>2, <2>1
<1> QED
  BY <1>1, <1>3, DatabaseUnchanged, StoppedIInv

-----------------------------------------------------------------------------
\* The theorems

\* The invariant holds of a fresh directory.
LEMMA InitIInv == Init => IInv
<1> SUFFICES ASSUME Init PROVE IInv
  OBVIOUS
<1>1. TypeOK
  BY InitTypeOK
<1>2. FlushInv /\ RecordsWithin /\ SizesAhead /\ DataWithin /\ DirtyTogether /\ DataWritten
  BY DEF Init, FlushInv, RecordsWithin, SizesAhead, DataWithin, DirtyTogether, DataWritten
<1>3. RecordsKnown
  BY PositionsAndMarks DEF Init, RecordsKnown
<1>4. ParentClosed(mapBlockIndex) /\ FlushedKept /\ UnsavedIsDirty
  BY DEF Init, ParentClosed, FlushedKept, UnsavedIsDirty
<1>5. DatabaseClosed
  BY DEF Init, DatabaseClosed, ParentClosed, Recorded
<1> QED
  BY <1>1, <1>2, <1>3, <1>4, <1>5 DEF IInv

\* Every step keeps the invariant.
LEMMA NextIInv == IInv /\ [Next]_vars => IInv'
<1> SUFFICES ASSUME IInv, [Next]_vars PROVE IInv'
  OBVIOUS
<1> TypeOK'
  BY NextTypeOK DEF IInv
<1>1. ASSUME NEW b \in Blocks, AcceptBlockHeader(b) PROVE IInv'
  BY <1>1, AcceptBlockHeaderIInv
<1>2. ASSUME NEW b \in Blocks, NEW ok \in BOOLEAN, AcceptBlock(b, ok) PROVE IInv'
  BY <1>2, AcceptBlockIInv
<1>3. ASSUME NEW b \in Blocks, AcceptBlockDiskFull(b) PROVE IInv'
  BY <1>3, AcceptBlockDiskFullIInv
<1>4. CASE FlushStateToDisk
  BY <1>4, PhaseOnly DEF FlushStateToDisk, Up, IInv, FlushInv, history
<1>5. CASE OutOfDiskSpace
  BY <1>5, OutOfDiskSpaceIInv
<1>6. CASE FlushBlockFile
  BY <1>6, FlushBlockFileIInv
<1>7. ASSUME NEW ok \in BOOLEAN, WriteBatchSync(ok) PROVE IInv'
  BY <1>7, WriteBatchSyncIInv
<1>8. ASSUME NEW ok \in BOOLEAN, Start(ok) PROVE IInv'
  BY <1>8, StartIInv
<1>9. CASE StartShutdown
  BY <1>9, PhaseOnly DEF StartShutdown, Up, IInv, FlushInv, history
<1>10. CASE Crash
  BY <1>10, StopsKeepDisk DEF Crash, history
<1>11. CASE PowerLoss
  BY <1>11, PowerLossIInv
<1>12. CASE UNCHANGED vars
  <2>1. UNCHANGED <<phase, flush, committed, mapBlockIndex, nDataPos, setDirtyBlockIndex,
                    setDirtyFileInfo, nLastBlockFile, nSize, blk, durable, db,
                    everRecorded, unwritten, batchLost>>
    BY <1>12 DEF vars, memory, disk, history
  <2>2. RecordsWithin' /\ RecordsKnown' /\ DatabaseClosed'
    BY <2>1, DatabaseUnchanged
  <2>3. FlushInv' /\ SizesAhead' /\ DirtyTogether'
    BY <2>1 DEF IInv, FlushInv, SizesAhead, DirtyTogether
  <2>4. DataWithin'
    BY <2>1 DEF IInv, DataWithin, Within
  <2>5. DataWritten' /\ FlushedKept'
    BY <2>1 DEF IInv, DataWritten, FlushedKept
  <2>6. ParentClosed(mapBlockIndex)' /\ UnsavedIsDirty'
    BY <2>1 DEF IInv, ParentClosed, UnsavedIsDirty
  <2> QED
    BY <2>2, <2>3, <2>4, <2>5, <2>6 DEF IInv
<1> QED
  BY <1>1, <1>2, <1>3, <1>4, <1>5, <1>6, <1>7, <1>8, <1>9, <1>10, <1>11, <1>12 DEF Next

\* The inductive invariant holds in every reachable state.
THEOREM Consistent == Spec => []IInv
BY InitIInv, NextIInv, PTL DEF Spec

\* A block that a record has ever placed in the block files stays there through
\* crashes, power losses, lost batches and restarts, unless its own write had failed.
THEOREM RecordsSurvive == Spec => []FlushedKept
<1>1. IInv => FlushedKept
  BY DEF IInv
<1> QED
  BY <1>1, Consistent, PTL

\* While no batch was lost, the node marks as dirty all that it knows of its blocks
\* and the database does not.
THEOREM NothingUnmarked == Spec => []UnsavedIsDirty
<1>1. IInv => UnsavedIsDirty
  BY DEF IInv
<1> QED
  BY <1>1, Consistent, PTL

\* While no batch was lost, the parent of every recorded block is recorded.
THEOREM RecordsLinked == Spec => []DatabaseClosed
<1>1. IInv => DatabaseClosed
  BY DEF IInv
<1> QED
  BY <1>1, Consistent, PTL

=============================================================================
