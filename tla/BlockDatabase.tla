--------------------------- MODULE BlockDatabase ----------------------------
(***************************************************************************)
(* Block files, block index database, stop and restart of a node           *)
(* (src/bitcoin-0.12.0/src/main.cpp, txdb.cpp, init.cpp).                  *)
(*                                                                         *)
(* A block is appended to the last blk file, its index entry and the file  *)
(* are marked dirty, and now and then FlushStateToDisk commits the last    *)
(* file and writes what is dirty in one batch.  The process may be killed  *)
(* and the machine may lose power between any two of these steps, and      *)
(* every write may fail.                                                   *)
(*                                                                         *)
(* Which block is the tip is the matter of ChainState; here it does not    *)
(* count.  All blocks fill the same share of a file.  Pruning and -reindex *)
(* are left out.                                                           *)
(***************************************************************************)
EXTENDS BlockTree, FiniteSets

CONSTANTS
    Empty,              \* blocks without data: nTx = 0
    NoRecord,           \* the database holds nothing under a hash
    NoData,             \* an entry without BLOCK_HAVE_DATA
    BlocksPerFile,      \* MAX_BLOCKFILE_SIZE
    MaxFile,            \* bound: the number of the last file
    MaxFailures         \* bound: how many writes fail in a behaviour

ASSUME DatabaseAssumption ==
    /\ Empty \subseteq Blocks \ {Genesis}
    /\ BlocksPerFile \in Nat \ {0}
    /\ MaxFile \in Nat
    /\ MaxFailures \in Nat

\* every block is made with the nBits of CBlockHeader::SetNull
ASSUME ProofAssumption ==
    \A b \in Blocks \ {Genesis} : nChainWork[pprev[b]] < nChainWork[b]

Files == 0..MaxFile
Positions == Files \X (1..BlocksPerFile)

ASSUME MarkAssumption == NoRecord # NoData /\ {NoRecord, NoData} \cap Positions = {}

VARIABLES
    phase,              \* "down", "running" or "aborting" (StartShutdown called)
    flush,              \* who is in FlushStateToDisk: "none", or the "start",
                        \*   the "run"ning node or the Shutdown that will "stop" it
    committed,          \* FlushBlockFile is done in this flush
    mapBlockIndex,      \* entries linked to the genesis block, by hash
    placeholders,       \* entries that InsertBlockIndex made up for a hashPrev
    nDataPos,           \* NoData, or where the block was written
    setDirtyBlockIndex, setDirtyFileInfo,
    nLastBlockFile,
    nSize,              \* vinfoBlockFile[f].nSize, counted in blocks
    blk,                \* what a read of a position of the blk files returns
    durable,            \* what it would return after a power loss
    db,                 \* the database: index, nSize, nLastBlockFile
    everRecorded,       \* history: <<b, p>> if a record placed b at p
    unwritten,          \* history: <<b, p>> if writing b at p failed
    batchLost,          \* history: a batch could not be written
    failures            \* history: how many writes have failed

memory == <<mapBlockIndex, placeholders, nDataPos, setDirtyBlockIndex,
            setDirtyFileInfo, nLastBlockFile, nSize>>
disk == <<blk, durable, db>>
history == <<everRecorded, unwritten, batchLost, failures>>
vars == <<phase, flush, committed, memory, disk, history>>

-----------------------------------------------------------------------------
\* Block files

InFile(f) == {p \in Positions : p[1] = f}

\* FileCommit: what was written to a file survives a power loss from now on
FileCommit(old, f) == [p \in Positions |-> IF p \in InFile(f) THEN blk[p] ELSE old[p]]

\* mutant: a file is left without being committed
LeaveUncommitted(size, last, f) == durable

\* FindBlockPos commits the file it leaves
LeaveFile(size, last, f) == IF f # last THEN FileCommit(durable, last) ELSE durable

\* mutant: a file may grow by one block more than fits
RoomForOneMore(size, f) == size[f] <= BlocksPerFile

RoomLeft(size, f) == size[f] < BlocksPerFile

\* the file that takes the next block
NextFile(size, last) ==
    CHOOSE f \in Files : /\ f >= last
                         /\ RoomLeft(size, f)
                         /\ \A e \in last..(f - 1) : ~RoomLeft(size, e)

\* MaxFile bounds the model
HasRoom(size, last) == \E f \in Files : f >= last /\ RoomLeft(size, f)

NextPos(size, last) ==
    LET f == NextFile(size, last) IN <<f, size[f] + 1>>

\* FindBlockPos on the file information <<size, last>> without its last line,
\* which marks the file dirty and is not reached when the disk is full
FindBlockPos(size, last) ==
    LET f == NextFile(size, last) IN
    /\ durable' = LeaveFile(size, last, f)
    /\ nLastBlockFile' = f
    /\ nSize' = [size EXCEPT ![f] = @ + 1]

\* a write succeeds, or it fails while MaxFailures allows
Outcome(ok) ==
    /\ ok \/ failures < MaxFailures
    /\ failures' = IF ok THEN failures ELSE failures + 1

\* WriteBlockToDisk: ok, or the file cannot be opened or written
WriteBlockToDisk(b, p, ok) ==
    /\ Outcome(ok)
    /\ blk' = IF ok THEN [blk EXCEPT ![p] = b] ELSE blk

-----------------------------------------------------------------------------
\* Headers and blocks from the network, under cs_main

Up == phase # "down" /\ flush = "none"

\* mutant: only what has data is written
DirtyWithData(b) == setDirtyBlockIndex

\* AddToBlockIndex marks a new entry
AddToBlockIndex(b) ==
    IF b \in mapBlockIndex THEN setDirtyBlockIndex ELSE setDirtyBlockIndex \cup {b}

\* bound: the hash of a placeholder does not arrive again (README)
Acceptable(b) == b # Genesis /\ pprev[b] \in mapBlockIndex /\ b \notin placeholders

AcceptBlockHeader(b) ==
    /\ Up
    /\ Acceptable(b)
    /\ b \notin mapBlockIndex
    /\ mapBlockIndex' = mapBlockIndex \cup {b}
    /\ setDirtyBlockIndex' = AddToBlockIndex(b)
    /\ UNCHANGED <<phase, flush, committed, placeholders, nDataPos, setDirtyFileInfo,
                   nLastBlockFile, nSize, disk, history>>

\* mutant: the entry of a known header is not marked when its block arrives
DirtyIfNew(b, p) ==
    /\ nDataPos' = [nDataPos EXCEPT ![b] = p]
    /\ setDirtyBlockIndex' = AddToBlockIndex(b)

ReceivedBlockTransactions(b, p) ==
    /\ nDataPos' = [nDataPos EXCEPT ![b] = p]
    /\ setDirtyBlockIndex' = setDirtyBlockIndex \cup {b}

\* AcceptBlock: a failed write calls AbortNode and goes on all the same
AcceptBlock(b, ok) ==
    /\ Up
    /\ Acceptable(b)
    /\ nDataPos[b] = NoData
    /\ HasRoom(nSize, nLastBlockFile)
    /\ mapBlockIndex' = mapBlockIndex \cup {b}
    /\ LET p == NextPos(nSize, nLastBlockFile) IN
       /\ FindBlockPos(nSize, nLastBlockFile)
       /\ setDirtyFileInfo' = setDirtyFileInfo \cup {p[1]}
       /\ WriteBlockToDisk(b, p, ok)
       /\ ReceivedBlockTransactions(b, p)
       /\ unwritten' = IF ok THEN unwritten ELSE unwritten \cup {<<b, p>>}
    /\ phase' = IF ok THEN phase ELSE "aborting"
    /\ UNCHANGED <<flush, committed, placeholders, db, everRecorded, batchLost>>

\* FindBlockPos has no disk space for the next chunk: the file has grown by then
AcceptBlockDiskFull(b) ==
    /\ Up
    /\ Acceptable(b)
    /\ nDataPos[b] = NoData
    /\ HasRoom(nSize, nLastBlockFile)
    /\ mapBlockIndex' = mapBlockIndex \cup {b}
    /\ setDirtyBlockIndex' = AddToBlockIndex(b)
    /\ FindBlockPos(nSize, nLastBlockFile)
    /\ Outcome(FALSE)
    /\ phase' = "aborting"
    /\ UNCHANGED <<flush, committed, placeholders, nDataPos, setDirtyFileInfo, blk, db,
                   everRecorded, unwritten, batchLost>>

-----------------------------------------------------------------------------
\* FlushStateToDisk, with cs_main held throughout

\* the process ends, and its memory with it
MemoryGone ==
    /\ mapBlockIndex' = {}
    /\ placeholders' = {}
    /\ nDataPos' = [b \in Blocks |-> NoData]
    /\ setDirtyBlockIndex' = {}
    /\ setDirtyFileInfo' = {}
    /\ nLastBlockFile' = 0
    /\ nSize' = [f \in Files |-> 0]

\* it is time for a periodic write at the end of ActivateBestChain, or the
\* threads have ended and Shutdown flushes
FlushStateToDisk ==
    /\ Up
    /\ flush' \in IF phase = "running" THEN {"run", "stop"} ELSE {"stop"}
    /\ UNCHANGED <<phase, committed, memory, disk, history>>

\* the free disk space is below the minimum: nothing is written
OutOfDiskSpace ==
    /\ flush # "none"
    /\ ~committed
    /\ phase' = IF flush = "stop" THEN "down" ELSE "aborting"
    /\ flush' = IF flush = "start" THEN "stop" ELSE "none"
    /\ IF flush = "stop" THEN MemoryGone ELSE UNCHANGED memory
    /\ Outcome(FALSE)
    /\ UNCHANGED <<committed, disk, everRecorded, unwritten, batchLost>>

FlushBlockFile ==
    /\ flush # "none"
    /\ ~committed
    /\ durable' = FileCommit(durable, nLastBlockFile)
    /\ committed' = TRUE
    /\ UNCHANGED <<phase, flush, memory, blk, db, history>>

\* WriteBatchSync: one atomic and synced batch
NewIndex ==
    [b \in Blocks |-> IF b \in setDirtyBlockIndex THEN nDataPos[b] ELSE db.index[b]]

NewSizes ==
    [f \in Files |-> IF f \in setDirtyFileInfo THEN nSize[f] ELSE db.nSize[f]]

\* the dirty sets are emptied before the batch is written
WriteBatchSync(ok) ==
    /\ committed
    /\ Outcome(ok)
    /\ IF flush = "stop" THEN MemoryGone
       ELSE /\ setDirtyBlockIndex' = {}
            /\ setDirtyFileInfo' = {}
            /\ UNCHANGED <<mapBlockIndex, placeholders, nDataPos, nLastBlockFile, nSize>>
    /\ db' = IF ok THEN [index |-> NewIndex, nSize |-> NewSizes, last |-> nLastBlockFile]
             ELSE db
    /\ everRecorded' = IF ok THEN everRecorded \cup
                             {<<b, nDataPos[b]>> : b \in {c \in setDirtyBlockIndex :
                                                            nDataPos[c] # NoData}}
                       ELSE everRecorded
    /\ batchLost' = (batchLost \/ ~ok)
    /\ committed' = FALSE
    /\ phase' = CASE flush = "stop" -> "down"
                  [] flush # "stop" /\ ok -> phase
                  [] OTHER -> "aborting"
    /\ flush' = IF flush = "start" /\ ~ok THEN "stop" ELSE "none"
    /\ UNCHANGED <<blk, durable, unwritten>>

-----------------------------------------------------------------------------
\* Start, stop and failures

Recorded == {b \in Blocks : db.index[b] # NoRecord}
RecordedData == {b \in Recorded : db.index[b] # NoData}

\* LoadBlockIndexGuts computes the hash of an entry from the fields of the record,
\* and sSign and m_strMac are not among them: an entry comes back under its own
\* hash only if it is not signed, as the genesis block
Restored == Recorded \cap {Genesis}

\* for the parent of each record InsertBlockIndex finds or makes an entry
MadeUp == {pprev[b] : b \in Recorded \ {Genesis}} \ {Genesis}

\* a child of the genesis block with data comes back as a candidate with more work
\* than the genesis block, and ConnectTip reads a block with another hash
Unreadable == \E b \in RecordedData \ (Empty \cup {Genesis}) : pprev[b] = Genesis

\* AppInit2: LoadBlockIndexDB, whose best block is never known (pbestblock is new),
\* and InitBlockIndex, which therefore writes the genesis block once more
Start(ok) ==
    /\ phase = "down"
    /\ HasRoom(db.nSize, db.last)
    /\ placeholders' = MadeUp
    /\ LET p == NextPos(db.nSize, db.last) IN
       /\ FindBlockPos(db.nSize, db.last)
       /\ setDirtyFileInfo' = {p[1]}
       /\ WriteBlockToDisk(Genesis, p, ok)
       /\ mapBlockIndex' = IF ok THEN {Genesis} ELSE Restored
       /\ setDirtyBlockIndex' = IF ok THEN {Genesis} ELSE {}
       /\ nDataPos' = [b \in Blocks |->
              CASE b = Genesis /\ ok -> p
                [] b \in Restored /\ ~ok -> db.index[b]
                [] OTHER -> NoData]
    /\ LET started == ok /\ ~Unreadable IN
       /\ phase' = IF started THEN "running" ELSE "aborting"
       /\ flush' = IF started THEN "start" ELSE "stop"
    /\ UNCHANGED <<committed, db, everRecorded, unwritten, batchLost>>

\* AbortNode or the stop RPC: StartShutdown, and the threads go on for a while
StartShutdown ==
    /\ Up
    /\ phase = "running"
    /\ phase' = "aborting"
    /\ UNCHANGED <<flush, committed, memory, disk, history>>

Crash ==
    /\ phase # "down"
    /\ phase' = "down"
    /\ flush' = "none"
    /\ committed' = FALSE
    /\ MemoryGone
    /\ UNCHANGED <<disk, history>>

\* of what was not committed some is lost
PowerLoss ==
    /\ phase' = "down"
    /\ flush' = "none"
    /\ committed' = FALSE
    /\ \E lost \in SUBSET {p \in Positions : blk[p] # durable[p]} :
          blk' = [p \in Positions |-> IF p \in lost THEN durable[p] ELSE blk[p]]
    /\ durable' = blk'
    /\ MemoryGone
    /\ UNCHANGED <<db, history>>

Init ==
    /\ phase = "down"
    /\ flush = "none"
    /\ committed = FALSE
    /\ mapBlockIndex = {}
    /\ placeholders = {}
    /\ nDataPos = [b \in Blocks |-> NoData]
    /\ setDirtyBlockIndex = {}
    /\ setDirtyFileInfo = {}
    /\ nLastBlockFile = 0
    /\ nSize = [f \in Files |-> 0]
    /\ blk = [p \in Positions |-> Null]
    /\ durable = blk
    /\ db = [index |-> [b \in Blocks |-> NoRecord], nSize |-> [f \in Files |-> 0],
             last |-> 0]
    /\ everRecorded = {}
    /\ unwritten = {}
    /\ batchLost = FALSE
    /\ failures = 0

Next ==
    \/ \E b \in Blocks : AcceptBlockHeader(b)
    \/ \E b \in Blocks, ok \in BOOLEAN : AcceptBlock(b, ok)
    \/ \E b \in Blocks : AcceptBlockDiskFull(b)
    \/ FlushStateToDisk
    \/ OutOfDiskSpace
    \/ FlushBlockFile
    \/ \E ok \in BOOLEAN : WriteBatchSync(ok)
    \/ \E ok \in BOOLEAN : Start(ok)
    \/ StartShutdown
    \/ Crash
    \/ PowerLoss

Spec == Init /\ [][Next]_vars

-----------------------------------------------------------------------------
\* Properties

\* Every variable has its type, and no block file grows beyond its limit.
TypeOK ==
    /\ phase \in {"down", "running", "aborting"}
    /\ flush \in {"none", "start", "run", "stop"}
    /\ committed \in BOOLEAN
    /\ mapBlockIndex \subseteq Blocks
    /\ placeholders \subseteq Blocks \ {Genesis}
    /\ nDataPos \in [Blocks -> Positions \cup {NoData}]
    /\ setDirtyBlockIndex \subseteq mapBlockIndex
    /\ setDirtyFileInfo \subseteq Files
    /\ nLastBlockFile \in Files
    /\ nSize \in [Files -> 0..BlocksPerFile]
    /\ blk \in [Positions -> Blocks \cup {Null}]
    /\ durable \in [Positions -> Blocks \cup {Null}]
    /\ db \in [index : [Blocks -> Positions \cup {NoData, NoRecord}],
               nSize : [Files -> 0..BlocksPerFile], last : Files]
    /\ everRecorded \subseteq Blocks \X Positions
    /\ unwritten \subseteq Blocks \X Positions
    /\ batchLost \in BOOLEAN
    /\ failures \in 0..MaxFailures

\* A block that a record of the database has ever placed at a position of the
\* block files is there for good, whatever crash, power loss, failed batch or
\* restart follows - unless writing that block had failed, after which AcceptBlock
\* goes on and records it.  FlushStateToDisk commits only the last file and counts
\* on FindBlockPos for the ones before; a restart goes on at the recorded size.
FlushedKept == \A r \in everRecorded \ unwritten : durable[r[2]] = r[1] /\ blk[r[2]] = r[1]

\* While no batch was lost, what the running node knows of a block and the database
\* does not is marked dirty, so that the next FlushStateToDisk (the one of Shutdown
\* at the latest) writes it: setDirtyBlockIndex misses no change.
UnsavedIsDirty ==
    phase # "down" /\ ~batchLost =>
        \A b \in mapBlockIndex \ setDirtyBlockIndex : db.index[b] = nDataPos[b]

\* While no batch was lost, the parent of every recorded block is recorded: no stop
\* leaves records that LoadBlockIndexGuts cannot link.
DatabaseClosed == batchLost \/ ParentClosed(Recorded)

\* What the comment in FlushStateToDisk promises of the frequent writes, "so we don't
\* need to redownload after a crash": once started again, and if no write has failed,
\* the node has every block that the database recorded with its data and with the
\* data of all its ancestors.
NoRedownload ==
    phase # "down" /\ unwritten = {} /\ ~batchLost =>
        \A b \in RecordedData :
            Ancestors[b] \subseteq RecordedData => nDataPos[b] # NoData

=============================================================================
