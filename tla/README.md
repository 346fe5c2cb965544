# A TLA+ model of ecoChain

ecoChain is a fork of Bitcoin 0.12 that notarises data instead of moving coins.
A block carries data items (`qvtx`) and no transactions, there is no proof of
work, and the nodes make blocks in turn. A separate gateway, AccountMgr, stands
between clients and the chain and decides who may write and read what.

This directory models the parts in which threads, nodes and messages meet, checks
them with TLC on small instances and proves the main safety properties with
TLAPS for every instance. `PROJECT.json` maps each definition to source lines
and lists the runs, hazards, findings and theorems.

Paths below are relative to `src/bitcoin-0.12.0/src/` unless they start with
`src/`.

## Inventory

### Block index and active chain (`main.cpp`, `chain.h`, `chain.cpp`)

- **State**: `mapBlockIndex` with flags, `nChainTx` and `nSequenceId` of each block,
  `mapBlocksUnlinked`, `setBlockIndexCandidates`, `chainActive`, `pbestblock`,
  and `cs_main`, which guards them.
- **Operations**: accept a header, accept a body, link stored blocks, find the best
  candidate, connect and disconnect blocks, `invalidateblock`, `reconsiderblock`.
- **Interactions**: called by the message handler, the miner and RPC threads; takes
  data from and returns data to the pool; writes the transaction index.
- **Hard**: bodies arrive before their parents; `ActivateBestChain` gives `cs_main`
  back after each improvement of the tip and evaluates its loop condition without
  it; a block may fail its check after the old branch is gone; blocks may add no
  work and carry no data.
- **Correct when** the active chain is always a path of stored, linked and valid
  blocks, nothing stored is stranded, the node comes to rest on the best tip, and
  every activation ends.

### Block production (`miner.cpp`) and the peer list (`net.cpp`, `net.h`)

- **State**: `g_vAllNodes` (every connection and the node itself, each with the public
  key it sent with VERSION), `m_bNetState`, and the locals of the miner's loop.
- **Operations**: dial, accept, VERSION, disconnect, ping time-out; read the tip, elect,
  create, sign, recheck, hand over.
- **Interactions**: the miner of each node sorts its own list by key and elects the entry
  after the producer of its own tip. No receiver checks whose turn it was.
- **Hard**: the lists of two nodes differ while connections come and go; the tip moves
  while a block is being made; two nodes that dial each other list each other twice; a
  datum that comes or goes voids the block being made, and an exception ends the miner.
- **Correct when** nodes with the same view elect one node, a block is only handed over
  on the tip of its election, a settled network never forks and never stops.

### Account gateway (`src/AccountMgr/libAccountMgr`)

- **State**: `m_httpReqMap`, `m_accountMap`, `AccData.dat`.
- **Operations**: number and queue a request (HTTP thread); write, read, authorise, answer
  (logic thread); save and restore accounts.
- **Interactions**: asks the node's `send_data_to_sys` and `get_data_from_sys` with curl and
  waits up to 30 seconds.
- **Hard**: the map is shared without a lock and its iterator is used after an erase; a
  slow chain; restarts.
- **Correct when** each request is answered once and with a right that still stands, rights change
  as asked, and accounts survive a restart (neither of the last two is so, see below).

### Block download (`main.cpp`, `net.cpp`)

- **State**: `mapBlocksInFlight` and, per peer, `CNodeState`: the blocks asked from it, what it
  is known to have, `pindexLastCommonBlock`, `nStallingSince`; the counters `nSyncStarted`,
  `nPreferredDownload`, `nQueuedValidatedHeaders`; `vNodes`, `vNodesDisconnected`.
- **Operations**: handle INV, HEADERS and BLOCK; choose blocks within the window; blame a
  staller; give up a late peer; connect, disconnect and delete peers.
- **Interactions**: the message handler thread visits the peers, the socket thread takes
  disconnected ones away and deletes them when nobody holds a reference; blocks go to the
  block index.
- **Hard**: blocks arrive out of order, from the wrong peer, spoilt or never; a peer goes while it
  owes blocks; three places ask for blocks; deadlines race answers.
- **Correct when** the books agree with each other and with the peers that exist, no block is asked
  for twice at a time, no request is waited for without end, and the chain of an honest peer is
  downloaded.

### Block relay (`main.cpp`, `net.h`)

- **State**: `vBlockHashesToAnnounce`, `fPreferHeaders`, `pindexBestKnownBlock` and
  `pindexBestHeaderSent` of each peer.
- **Operations**: push the hashes of a new tip; send them as headers or as an INV; answer
  GETHEADERS; take note of SENDHEADERS and of announcements.
- **Interactions**: filled by every thread that moves the tip, emptied by the message handler.
- **Hard**: the hashes are pushed after `cs_main` was released; the chain may be reorganised
  between push and sending; a GETHEADERS may change what the peer is believed to have.
- **Correct when** headers connect at the receiver, the last tip is announced, and the assertion on
  the order of the list holds.

### Block database and restart (`main.cpp`, `txdb.cpp`, `init.cpp`, `chain.h`)

- **State**: the `blk` files, `vinfoBlockFile`, `nLastBlockFile`, the dirty sets, the block index
  database.
- **Operations**: append a block, roll over to the next file, flush, shut down, start.
- **Interactions**: block index entries are made and changed by the network; flushes run at the end of an
  activation and in `Shutdown`, with `cs_main` held.
- **Hard**: a kill or power loss between the write of a block, the commit of its file and the batch; writes
  that fail; a start that restores less than was written.
- **Correct when** a record never points to data that are not there, nothing unsaved is forgotten, and what
  was recorded is there after a restart (which it is not, see below).

### Parts that are not modelled

| part | why |
|---|---|
| data pool (`txmempool.cpp`) and `send_data_to_sys` | planned; `ChainState` has the pool only as blocks move data in and out of it |
| HTTP work queue, RPC dispatch | planned; `invalidateblock` and `reconsiderblock` are actions of `ChainState` |
| check queue, scheduler | unchanged from upstream; the fork gives the queue no work |
| `addrman`, `timedata` | unchanged from upstream, sequential under one lock each |
| HBase adapter (`src/hbase_env`) | calls to a service, no protocol of its own |
| signatures (`src/EC_Sign`) | cryptography: a signature matches exactly the header it was made for |
| coins, scripts, alerts | left over from upstream, not used by blocks |
| `src/tag/blockchain_0.1` | an older copy of the node, with its Qt window |
| `src/tag/blockchain_0.1/src/qt/locale/*.ts` | translated strings of that window; no behaviour |

## Modules

| module | models |
|---|---|
| `BlockTree` | the tree of blocks that the modules on one node share |
| `ActiveChain` | abstract specification: a tip that moves to better blocks |
| `ChainState` | the block tree and active chain of one node, with several threads; implements `ActiveChain` |
| `MCChainState` | a tree of three branches for TLC |
| `BlockTreeProofs` | lemmas about ancestors, heights and forks, and induction along the tree |
| `ChainStateProofs` | inductive invariant and safety theorems of `ChainState` |
| `ChainActivationProofs` | linking, best tip and refinement theorems of `ChainState` |
| `BlockRelay` | announcements to peers; extends `ChainState` |
| `MCBlockRelay` | two branches of up to three blocks for TLC |
| `BlockRelayProofs` | inductive invariants and safety theorems of `BlockRelay` |
| `BlockDownload` | requests to peers and the threads that handle them; extends `ActiveChain` |
| `MCBlockDownload` | two peers, one chain, for TLC |
| `BlockDownloadProofs` | inductive invariant and safety theorems of `BlockDownload` |
| `BlockDatabase` | block files, database, stops and starts |
| `MCBlockDatabase` | two branches in small files for TLC |
| `BlockDatabaseProofs` | inductive invariant and safety theorems of `BlockDatabase` |
| `BlockProducer` | peer lists and miners of all nodes |
| `MCBlockProducer` | networks of three and four nodes for TLC |
| `BlockProducerProofs` | inductive invariant and safety theorems of `BlockProducer` |
| `AccountMgr` | the gateway's two threads, its accounts and its file |
| `MCAccountMgr` | requests of two accounts and two data types for TLC |
| `AccountMgrProofs` | inductive invariant and safety theorems of `AccountMgr` |

`BlockDownload` needs of the chain only what `ActiveChain` promises, so it is built on that and
not on the threads of `ChainState`; `ImplementsActiveChain` is the link between the two.
`BlockRelay` depends on the very moment at which `cs_main` is released and is built on
`ChainState` itself.

Definitions marked *mutant* in a comment are faulty variants of the definition after
them. They are not part of a specification; `PROJECT.json` pairs each with a
property that fails when it takes the original's place.

### ChainState

`Blocks`, `pprev`, `nHeight`, `nChainWork` and `qvtx` are the blocks that can ever
arrive. The flags of `nStatus` are the sets `haveData`, `failedValid` and
`failedChild`. `pc[t]` is where thread `t` is:

| `pc` | code | `cs_main` |
|---|---|---|
| `idle` | not in `main.cpp` | |
| `link` | loop of `ReceivedBlockTransactions` | held |
| `activate` | top of the loop of `ActivateBestChain` | |
| `find` | `FindMostWorkChain`, after it dropped a failed branch | held |
| `step` | `ActivateBestChainStep` | held |
| `check` | the loop condition, after the lock is released | |
| `invalidate` | `InvalidateBlock` | held |

Each action is one handler or one turn of a loop. A locked section that takes several
actions keeps `cs_main`, so that nothing else that needs the lock runs in between;
`AddToMempool`, which a TX message reaches without `cs_main`, does.

`ConnectBlock` can fail in one way here: a block read from disk is checked again and its
time may be too far ahead by then (`FutureStamped`). A block that is still in memory
carries `fChecked` and passes. `PruneBlockIndexCandidates` does nothing, as its body is
commented out: candidates that the tip has passed stay in the set, and `TipIsBest` shows
that this does no harm.

Left out: block files and their errors (`BlockDatabase` has them), pruning, checkpoints, fork
warnings, `mapBlockSource`, and `invalidateblock` of the genesis block (a null dereference).

### ActiveChain

Headers and bodies are only added, and whoever takes `cs_main` finds a tip that has moved to a
usable block of no less work, or, if a block on the way was refused, to that block's parent.
Under `ActivationFair` a better usable block does not wait for ever. The refinement mapping is the
identity but for `tip`: while a thread is inside a locked section that has disconnected blocks,
`SettledTip` is still the tip from before (`pindexOldTip`), which is all that another thread can
have seen. It is checked without RPCs, which lower the tip on purpose.

### BlockRelay

`vHashes[t][p]` is what thread `t` has still to push to peer `p` after it moved the tip; each push
is a step of its own, because each takes `cs_inventory` anew. `headersOf` and `invited` are what a
peer really has and was invited to fetch; `pindexBestKnownBlock` and `pindexBestHeaderSent` are what
the node believes. The handlers of messages run in the message handler thread, when it is idle and gets
`cs_main` (`HandlerFree`). `ReceiveGetHeaders` is GETHEADERS with a locator: `fork` is the block that
`FindForkInGlobalIndex` finds, which the peer has because it listed it, and `LastSent` is where the loop stops. `ReceiveGetHeader` is
GETHEADERS with a null locator: one header, of `hashStop`, from any branch. `nullLocators` is a history
variable that only properties read: the peers that have asked so. A failed assertion ends the program, so `SendMessages` has no step there.
`FindFork` is the last place of the active chain that the old tip descends from, which is where the
code's walk down from the old tip stops; `AboveFork` is what lies above it, cut to `MAX_BLOCKS_TO_ANNOUNCE`.

Left out: the inventory queue behind `PushInventory` and GETBLOCKS, which answers through it; locators that
list blocks the peer has not; GETHEADERS during the initial block download, which is ignored; and peers
whose starting height is 2000 blocks above the tip, to which nothing is announced.

### BlockDownload

A peer is a `NodeId`. The message handler takes a copy of `vNodes` (`BeginPass`), handles one
message of each peer (`Receive...`) and runs `SendMessages` for it; the copy is the reference that keeps
`FinalizeNode` waiting. Marking several blocks as in flight takes several steps with `cs_main` held:
`vGetData` is the set of blocks still to be marked, and since they all lie on one chain the loop over the
vector takes the lowest first. `Lowest(S, n)` and `Highest(S, n)` are what the walks of
`FindNextBlocksToDownload` and of the direct fetch collect before their limit stops them. Erasing the iterator
of a `QueuedBlock` removes the one place of the list that has the block (`PlaceOf`). A deadline is a choice: `SendMessages(p, TRUE)` is the visit at which `p` has stalled
for too long or its first block is overdue. `PingCheck` takes a mute peer out of `vNodes`, and
only that, as the code does. `Honest` peers stay, answer and announce their tip; the others do what they like
within their chain. `MayDirectFetch` and `MayBeRecent` leave open what the clock decides.

Left out: whitelisted and one-shot peers, `fClient`, checkpoints, a score below the ban threshold (every
misbehaviour of the model is worth 100), and GETHEADERS, whose answer may come at any time or not.

### BlockDatabase

`blk` is what a read of the block files returns, `durable` what it would return after a power loss.
`flush` and `committed` say how far `FlushStateToDisk` is: space checked, last file committed, batch
written. `Crash` loses the memory, `PowerLoss` also any part of what was not committed; LevelDB's
synced batch is atomic. `MaxFailures` writes of a behaviour may fail, each at any place: the free space
of a flush or of a new chunk, the write of a block, the batch. A failed block write calls
`AbortNode` and goes on, as the code does: the block is recorded.

A start computes the hash of each entry from the record. `sSign` and `m_strMac` are in the hash and not
in the record, so that only the genesis block, which has neither, comes back as itself; for each
`hashPrev` that is not found `InsertBlockIndex` makes a placeholder. `pbestblock` is new and empty, so
`InitBlockIndex` writes and activates the genesis block once more. If a recorded child of the genesis
block carries data, its misnamed entry is the better candidate, `ConnectTip` reads a block with another
hash, and the start fails (`Unreadable`).

Bounds: all blocks fill the same share of a file, there are `MaxFile + 1` files, and the hash of a
placeholder does not arrive again. (It has no `pprev`; a block on top of it would send
`ActivateBestChainStep` below the genesis block, a null dereference.) Left out: undo files, which the fork does
not write, pruning, `-reindex`, and the validity flags.

### BlockProducer

A node is its public key, a positive number, and 0 is the empty key of a connection
that has not sent VERSION. A block is the sequence of the producers of its chain.
`Turn(S, k)` is the set of entries that the sort may put in the elected place; it has
more than one member only when keys are equal, because `std::sort` leaves their order
open. The clock appears as choices: it may be too early (`ElectNot`), a second may pass
between signing and `UpdateTime`, which voids the signature (`Recheck(n, FALSE)`), and
it may run backwards (`RecheckFails`). `updated` is the comparison of
`nTransactionsUpdatedLast` with the pool's counter. `UpdateTip` increments it, and so does every
datum that enters or leaves the pool (`txmempool.cpp:1224`, `1128`), which is `PoolChanges`. Only an elected
miner makes the comparison, and where between its reading and its comparing the datum comes makes no difference, so the
model lets it come before `CreateNewBlock`. `CreateNewBlockThrows` is the exception of `CreateNewBlock` when
`TestBlockValidity` fails (`miner.cpp:213`), for instance with a clock two hours behind the median time of the
chain: the miner returns for good (`miner.cpp:524`).

`Settled` says that the network is fully connected and stays so. When it is false nodes
start alone, and connections come and go at any time, each end for itself.

Left out: the choice of data for a block, several miner threads (`GenerateBitcoins`
neither joins the old threads nor reads `fGenerate` the way its callers do), forks caused by
`invalidateblock`, connections of a node with itself, and the data race of the miner's
unlocked sort with the network threads, which is undefined behaviour of the vector itself.

### AccountMgr

A right is a set of bits. `WriteDataToSys` and `ReadData` end where the chain is asked;
`ChainAnswers` is its answer, its failure or the time-out of curl, followed by the reply
and, for a write, the save. `Authorize` has one action per `optType`. The iterator that
`DealLogicFun` steps after erasing its entry is undefined behaviour; the model lets the
loop go on with any request in the map. `Restart` is a stop (which saves) or a crash
(which does not) followed by a start. There is one logic thread, and it does nothing else while it asks
the chain; that is what `RightHeldWhileAsked` rests on.

Left out: corruption of the map by concurrent insertion, the thread safety of evhttp,
requests that make the JSON library throw, and requests without a Content-Type.

## Runs

| run | question | instance |
|---|---|---|
| `ChainReceive` | does every arrival order end on the best tip with nothing stranded? | 6 blocks in 2 branches, one without work, one that may fail; 2 threads; fairness |
| `ChainRpc` | does the active chain stay usable while an operator interferes? | 5 blocks in 2 branches, 3 of them named in RPCs, one resubmitted datum; 2 threads |
| `RelaySingle` | are tips announced properly when one thread moves the tip? | 6 blocks in 2 branches, 1 peer, 2 blocks per announcement and per answer to GETHEADERS |
| `DownloadMarks` | are the books on blocks in flight exact? | 4 blocks, one of which may be refused, 2 peers, one of them mute, 2 blocks in transit, window 1 |
| `DownloadLive` | is every block in flight settled and an honest peer's chain fetched? | 3 blocks, 2 peers, one honest, 1 block in transit, window 1; fairness |
| `Restart` | what survives crashes, power loss and failed writes? | 4 blocks, one of them empty, 3 files of 2 blocks, 1 failure |
| `ProducerSettled` | can a settled network fork or stop, and does everyone take part? | 4 nodes, height 6; fairness |
| `ProducerChurn` | what holds while connections come and go? | 3 nodes, two of which dial each other, height 1 |
| `AccountRequests` | is every request answered, once, and with a right that still stands? | 3 requests out of 13 before and after a restart, 2 accounts, 2 data types; fairness |

Three more runs (`RelayRace`, `DownloadSilent`, `RestartLoses`) end with a counterexample; they are
described below.

**Properties.**
- `ChainReceive`: `LinkedExactly` (`nChainTx` counts a fully stored branch), `SequenceIdsDistinct`,
  `StoredGetsLinked`, `TipIsBest`, `StepNeverWorsens`, `ActivationEnds`, and `ImplementsActiveChain`,
  the refinement with its fairness.
- `ChainRpc`: `ActiveChainIsPath`, `ActiveChainUsable`, `LinkedExactly`, `StepNeverWorsens`.
- `RelaySingle`: `HeadersConnect`, `TipAnnounced`, `AnnouncementsFollow`. The first two except peers that have asked
  with a null locator, for which they do not hold (see below).
- `DownloadMarks`: `InFlightExact` (map, lists and counters are one relation, on peers that exist),
  `CountersExact`, `BlamedOwesBlock`, `NeverPassedOn`. `DownloadLive`: `InFlightEnds`, `CatchesUp`.
- `Restart`: `FlushedKept`, `UnsavedIsDirty`, `DatabaseClosed`. The second and third are stated for as long as
  no batch was lost: the dirty sets are emptied before the batch is written, so after a failed one they do not hold.
  `FlushedKept` holds even then, with the exception of blocks whose own write had failed.
- `ProducerSettled`: `NoFork`, `RoundRobin`, `ProductionContinues`. The last has two hypotheses: from some time on no datum comes
  or goes while an elected miner is at work (`DataCease`), and no miner has thrown (`MinersRun`). Without either TLC finds a network
  that stands still for ever, as nobody takes another node's turn. `ProducerChurn`: `UniqueTurn`,
  `HandedOverInTurn`, `OwnBlockKept`.
- `AccountRequests`: `RepliedOnce`, `RightHeldWhileAsked`, `Answered`.

Each module has one type invariant besides. `StoredGetsLinked`, `TipIsBest` and the refinement are
checked without RPCs (`Named = {}`): with them they do not hold. `ChainReceive` has one block that may fail, and
`RelaySingle` none, because the code does not keep `TipIsBest` with two and `AnnouncementsFollow` with one
(see below).

**Bounds.** Two threads are enough for the hand-over of `cs_main` between steps: a third
could only do what the second does. Two branches of up to three blocks let a node
reorganise, link a chain of two waiting blocks at once and meet a failed block in
the middle of a branch; the theorems lift the safety part to any tree. One peer is enough for the
relay, since the lists of peers do not depend on each other; announcements of at most two blocks let a
list be too long, and answers of at most two headers let one end below the tip. Window 1 and a chain of two or three blocks put a block above the window, which is what makes a
staller; two peers are the one that owes and the one that waits. A `NodeId` is used once
(`MaxConnections`), as in the code, where a peer that comes back gets a new number. Three files of two
blocks roll over twice, and a start that writes the genesis block anew fills them in up to six
writes. `Square` at height 6 goes once around four nodes and past the wrap from the last key to the first;
`ProducerChurn` needs no height beyond 1, because what it asks is about one election, and the
theorems hold for any height. Two accounts and two types cover the cases of
`Authorize` (account known or not, type known or not, one type or several). The bounds
on heights, requests, restarts, connections and files are why these runs allow a final state
(`CHECK_DEADLOCK FALSE`); `ChainState` and `BlockRelay` are checked for deadlock.

**Fairness.**
- `ChainState`: weak fairness of each thread's own steps. A thread in `ActivateBestChain`
  waits for nothing but `cs_main`, and no holder waits for anything else. Nothing is
  assumed of peers or operators.
- `BlockDownload`: weak fairness of the message handler and of the socket thread's work on each peer, both
  of which loop without blocking for long. Strong fairness of `SendMessages` for each peer, because its
  `TRY_LOCK` of `cs_main` and its deadlines succeed now and then, also with `fLate` for peers that
  do not keep theirs, and of the announcements and answers of honest peers. Nothing is assumed of other peers,
  except that in `DownloadLive` none is mute.
- `BlockProducer`: weak fairness of each miner, whose loop never blocks while it has a
  peer, and of the delivery of announced blocks. Strong fairness of `Elect`, because
  two seconds after the tip's time it is not too early any more and the loop keeps coming
  back, and of `Recheck(n, TRUE)`: a miner that comes to it again and again with an unchanged tip and an
  unchanged counter does not meet a new second, or a clock set back, every time. That the tip and the counter are
  unchanged is not assumed: tips stop changing when the chain waits for this miner, and that data stop is the
  hypothesis `DataCease` of the property.
- `AccountMgr`: weak fairness of the logic thread, whose one blocking call has a time-out.
- `BlockRelay` and `BlockDatabase` state safety only.

## Disagreements between code and documentation

Three are runs that TLC ends with a counterexample.

| run | the code | says otherwise |
|---|---|---|
| `RelayRace` | the hashes of a tip are pushed after `cs_main` is released, so the miner's may come before the message handler's; child before parent in the list fails the assertion and ends the node | assertion in `SendMessages`, `main.cpp:4632` |
| `DownloadSilent` | the ping time-out erases a peer from `vNodes` without disconnecting it, so that its blocks stay in flight for ever; it always comes before the block time-out | comment in `SendMessages`, `main.cpp:4750` |
| `RestartLoses` | records come back under another hash, so that after a restart the node has none of its blocks | comment in `FlushStateToDisk`, `main.cpp:1390` |

Others that were met while modelling; the models behave as the code does:

- `ReconsiderBlock` (`main.cpp:1943`) clears the flags of ancestors without making them candidates, against the
  assertion of `CheckBlockIndex` at `main.cpp:3105`.
- A body stored while its parent is marked failed (`main.cpp:2025`) waits nowhere, also after
  `reconsiderblock`, against the assertion at `main.cpp:3131`.
- `InvalidBlockFound` (`main.cpp:983`) takes the failed block out of `setBlockIndexCandidates` and puts nothing in.
  With branches a1 and b1-b2 whose second checks both fail (`FutureStamped = {a1, b2}`): b1 is linked while it is worse
  than the tip a1 and is no candidate; b2 is better, a1 is disconnected, b1 connected, b2 fails; the way back to a1
  disconnects b1, and a1 fails. The node rests on the genesis block although b1 is linked, valid and better, against the
  comment at `main.cpp:120` and the assertion at `main.cpp:3110`. With a third failing block `StepNeverWorsens` and the
  refinement go too.
- A tip that falls back to the fork pushes no hashes (`main.cpp:1833`), and when the same branch is connected again it
  pushes them a second time. With `FutureStamped = {b1}` in `RelaySingle`, or with `invalidateblock` and
  `reconsiderblock` of a1, the list of a peer is a1, a1, and the assertion at `main.cpp:4632` fails with a
  single thread.
- GETHEADERS with a null locator (`main.cpp:3837`) is answered with the header of `hashStop` alone, and `main.cpp:3867` then
  takes the peer to have all blocks below it. `HeadersConnect` and `TipAnnounced` fail for such a peer: it asks for a2 without having
  a1, and when the lists come to a1 and a2 nothing is sent, or, after a reorganisation at a1, headers on top of a1, against the
  comment "Peer doesn't have this header but they do have the prior one" at `main.cpp:4642`. With the tip below `hashStop` it never
  hears of that tip.
- Every datum that comes or goes makes the elected miner start over (`miner.cpp:501`), and a miner whose `CreateNewBlock` throws
  ends (`miner.cpp:524`). Its turn passes to nobody, so either stops the whole network.
- `DisconnectTip` (`main.cpp:1545`) removes a datum that is in the pool again, where the comment at
  `main.cpp:1537` says that it is resurrected.
- The transaction index (`main.cpp:682`) keeps the data of disconnected blocks, and
  `rpcrawtransaction.cpp:989` answers that they are in the chain.
- `ReadAccInfoFromFile` (`src/AccountMgr/libAccountMgr/LogicManager.cpp:745`) never increments `nIndex`, skips every
  line, and so restores no account.
- `Authorize` with `optType` 0 on an account that exists is a modification of its rights: lines 302 and 318 of
  `src/AccountMgr/libAccountMgr/LogicManager.cpp` say so, line 396 speaks of the old user's rights, and the client is told
  "Mod account right success" (403). But line 370 has re-pointed the iterator to the main account, so the rights go to that one, and
  `map::insert` (399) keeps the value of a type that is there. The account named is never changed; the main account gains the
  types it had not, of which there can be some when the loop stopped at a missing type after a permitted one.

## Proofs

All theorems hold for every value of the constants that satisfies the assumptions
named in the module.

**`ChainStateProofs`** (from `TreeAssumption`, `WorkAssumption`, `DataAssumption`,
`ThreadAssumption`): `TypeCorrect`, `ActiveChainPath`, `ActiveChainUsableAlways`,
`LinkedExact`, `SequenceIds`. None of the invariants is inductive alone. `ActiveChainUsable`
needs to know that the target of a running step is linked and has no failed ancestor
(`TargetInv`), which survives the steps of other threads only because `cs_main` is held
(`LockInv`). `LinkedExactly` needs that each queued block is stored, not linked, and below a
linked parent (`QueueInv`), and `SequenceIdsDistinct` that ids lie below the counter
(`SequenceInv`). `IInv` joins them; there is one lemma per action, and `Frame`, `FrameAll` and
`FrameStill` say once what the steps of `ActivateBestChain` leave alone. About the tree the
proofs use only that `Ancestors` is the least parent-closed set (`AncestorsProperties`,
`AncestorsInClosed`) and that heights fall to the genesis block (`GenesisInClosed`).

**`BlockTreeProofs`** (from `TreeAssumption`, `WorkAssumption`) holds what the modules on one node share. The
library's induction theorems take an operator, so induction is stated over sets: `TreeInduction` says that a set with the
genesis block and with every child of its members has all blocks. It follows from the existence of a lowest block outside.

**`ChainActivationProofs`** (same assumptions as `ChainStateProofs`).
- `NothingStranded` (with `Named = {}`): `StoredGetsLinked`. `LinkInv` says that a stored block is linked, queued once, or
  waits for a parent that is not linked, and that a failed block was linked when it failed; the last part is what makes it safe to keep a child
  of a failed parent out of `mapBlocksUnlinked`, and what RPCs break.
- `TipBest`, `StepImproves`, `RefinesActiveChain` (with `[]NoFailure`, that is `failedValid = {}` throughout): `ActivationInv` says
  that every linked block as good as `SettledTip` is a candidate, that a running step aims at the best
  candidate, and that, when no thread will look at the candidates again, no linked block is better than the
  tip. A step then ends above the tip it began from, since it ends at its target or at a block of more work. The hypothesis is
  the one the code needs: with two failures `TipIsBest` is false (see above). The refinement is the safety half of
  `ImplementsActiveChain`: initial states and steps.

**`BlockRelayProofs`** (the assumptions above and `RelayAssumption`).
- `RelayTypeCorrect` and `HeadersAlwaysConnect` hold with any threads, RPCs and failures. `HeadersConnect` is not inductive
  alone: headers are sent because of what the node believes, so `BeliefsTrue` (the best known block and the last header sent are
  among the headers of the peer) goes with it. `SendHeadersConnects` and `AnswerConnects` are the steps that matter: the first
  header announced has its parent among those the peer is believed to have, and the first header of an answer is the child of the fork. All this is for
  peers that have not asked with a null locator.
- `AssertionHolds` and `EveryPeerHears` assume that the message handler is the only thread and that no block fails;
  without the first `RelayRace` is the counterexample, without the second the trace above. `AnnounceInv` says of what a peer is still to be told
  (its list and what the thread has not pushed yet) that it ends with the tip, and that neighbours in it are parent
  and child or lie on different branches (`Joined`), unless the list is too long for HEADERS. `AppendChain` shows that
  the blocks above a fork can be appended to such a list. It needs that a step never ends below the tip it began from,
  which is `TipAbove`, and which takes the order of the candidates from `ActivationInv`. Two blocks of the active chain
  are comparable, so neighbours that are both active are parent and child.

**`BlockDownloadProofs`** (from the assumptions of `BlockTree` and `BlockDownload`): `TypeCorrect`,
`FlightConsistent`, `CountersCorrect`, `BlameJustified`, `StaysWithPeer`. The records of the blocks in flight are one value, `flight`, and
`FlightExact` speaks about such a value, so that `MarkBlockAsReceived`, `MarkBlockAsInFlight` and `ReleasePeer` are
lemmas about functions and the handlers only compose them. Two facts are missing from the invariants alone: only peers with a
`CNodeState` owe blocks (`OwedByNodes`, which needs that the handler's copy of `vNodes` keeps its peers alive, `NodesInv`), and
what `vGetData` still holds is not in flight (`GetDataInv`), because `cs_main` is held from the choice to the
last mark.

**`BlockDatabaseProofs`** (from the assumptions of `BlockTree` and `BlockDatabase`): `TypeCorrect`, `RecordsSurvive`,
`NothingUnmarked`, `RecordsLinked`. `FlushedKept` needs that every file below `nLastBlockFile` is committed, and the last one
between the commit and the batch (`DataWritten`), that positions are given out once, that is below the sizes the node and
the database know (`DataWithin`, `RecordsWithin`, `SizesAhead`), and that a dirty block comes with its dirty file
(`DirtyTogether`). `NextFileProperties` is the lemma about the loop of `FindBlockPos`.

**`AccountMgrProofs`** (from the assumption of `AccountMgr`): `TypeCorrect`, `NoSecondReply`, `RightStands`.
`RepliedOnce` needs one more fact, that a number which has not been given out has no answer. `RightHeldWhileAsked` is kept because
every operation that changes the accounts begins with no request in hand; `WriteAccounts` is where the right is set
up and checked in one step.

**`BlockProducerProofs`** (from `NodesAssumption`, `LinksAssumption`): `TypeCorrect`,
`TurnIsUnique`, `InTurn`, `OwnBlocksKept`, `SettledNeverForks`, `EveryoneTakesPart`. The heart is `TurnUnique`: two
nodes that know the same keys and look at the same block agree on whose turn it is, also
with unnamed and duplicate entries. `MinerInv` carries through the loop that a block's parent is
the tip of the election and that the tip has not gone back, `MadeInv` that every block in use was
made, and `TurnsInv` that in a settled network each was made in turn on a made block. Two blocks of
equal height then have, by induction along the steps, the same parent and so the same producer. For
`RoundRobin`, if a producer came back after fewer blocks than there are nodes, the producers in between would be closed
under the order of turns; such a set is the whole network (`TurnGoesRound`), which has more members than there are blocks.

**Only model-checked**, for good: the liveness properties `ActivationEnds`, `InFlightEnds`, `CatchesUp`,
`ProductionContinues`, `Answered` and the fairness half of `ImplementsActiveChain`, since TLAPS cannot reason about
fairness and `ENABLED` here. Checked with one failing block and proved without: `TipIsBest`, `StepNeverWorsens` and the refinement.
`StepNeverWorsens` with RPCs is checked by `ChainRpc` only.

## Plan

1. Done: `ChainState` with its abstract specification, `BlockRelay`, `BlockDownload`, `BlockDatabase`,
   `BlockProducer`, `AccountMgr`, and the proofs of every safety invariant the runs check, as described above.
2. Proofs next: `TipIsBest`, `StepNeverWorsens` and the refinement when a single block may fail, and
   `StepNeverWorsens` with RPCs; that a running step ends, as a decreasing measure.
3. Data pool: `Cqkgj_mempool`, `AddToMempool` from TX messages and from `send_data_to_sys`, and the miner's
   choice. Abstract specification: a datum that was accepted is in the pool or in the active chain.
4. HTTP work queue; several miner threads in `BlockProducer`; the skip list, block locators, the median time
   and the merkle root as operators against reference definitions.
