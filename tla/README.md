# Verification of the GPU miner

TLA+ models of the Bitcoin GPU miner in `src/`, the TLC runs that check them on
small instances, and TLAPS proofs of their main invariants.

    tlc -workers 2 -config BlockChainTree.cfg MCBlockChain     # a run
    tlapm BlockChainProofs.tla                                 # the proofs of a module

`PROJECT.json` lists the components, the runs with their properties, the source
lines each definition stands for, the hazards, the findings and the theorems.

## 1. The system

The program keeps a full copy of the block chain in LevelDB, fetches it from one
peer, and mines on top of it with OpenCL.

| Part | State | Operations |
|---|---|---|
| Block chain (`blockchain.*`, `block.*`) | block and index databases, tip map, orphan blocks | `Initialize`, `AcceptBlock` (extend, reorganise, side chain, orphan), `SaveBlock` |
| Transactions (`blockchain.*`, `tx.*`) | transaction index, UTXO set, pool, orphan pool, mining pool | `AcceptTx`, `ProcessTransactions`, `CacheUTXO`, `UnCacheUTXO`, `ProcOrphanTx`, `GetNewBlockTxs` |
| GPU miner (`btc_sha256_gpu.*`, `Miner` in `peer_logic_man.h`) | run state, block, nonce offset, results to look through | `SyncStart`, `CheckResults`, `Reset`, `Stop` |
| Initial download (`peer_logic_man.*`) | hashes wanted, hashes to request, hashes requested, flags | `Run`, `Headers`, `Blocks`, the message dispatch |
| Network (`net.*`) | node cache; per node the socket, write queue, read buffer, deadline | `OpenNode`, `OpenConnect`, `DoReadHeader`, `DoReadBody`, `DoWrite`, `PushMessage`, `CheckDeadline`, `Disconnect`, `NetMan::Stop` |
| Scripts, serialisation, numbers, hashes, keys | none shared | pure functions, most of them taken over from bitcoin |
| Queue and thread pool (`queue.h`, `thread_pool.h`) | a bounded queue | not used by the program |

Threads: main (start-up, then waits); two in `NetMan`, one that opens connections
and one that runs every socket handler; one in `PeerLogicMan` for received
messages; the mining loop; and the thread that looks through its results.

Interactions: the socket thread copies a received message to the message thread,
which calls `AcceptBlock` and `AcceptTx` and pushes answers back to the socket
thread. The end of the initial download starts the mining loop, which takes
transactions from the pool, calls `AcceptBlock` for its own blocks and broadcasts
them to the nodes in the cache. `AcceptBlock` runs under a static mutex; the pools
have a mutex of their own.

What is hard to get right here: the order of database writes when the process dies
between two of them; forks, take-overs and orphans in every order of arrival; pool
operations between the writes of a block; a result of an old block reaching the
loop that mines a new one; requests spread over batches; the hand-over between
`PushMessage` and `DoWrite`; a deadline that is moved while it is waited for; and
`Disconnect` from two threads. `hazards` in `PROJECT.json` has the list by line.

## 2. Modules

| Module | Models |
|---|---|
| `BlockChain` | `AcceptBlock` and all it changes, with `AcceptTx` and `GetNewBlockTxs` beside it |
| `MCBlockChain` | block trees and transactions for its runs; what a comment says of orphan blocks |
| `BlockChainProofs` | type, tree, tips, active height, disjoint pools |
| `GpuMiner`, `MCGpuMiner`, `GpuMinerProofs` | the mining loop, the checking thread, a peer's block, `Stop` |
| `BlockDownload` | what the initial download promises the miner |
| `IBD` | the download manager, the dispatch of messages, the peer; implements `BlockDownload` |
| `Node`, `MCNode`, `NodeProofs` | a connection and the threads that use it |
| `ArithUint256` | the 256-bit numbers, limb by limb, with the number and width of limbs and bytes as constants |
| `BlockCheck`, `MCBlockCheck`, `BlockCheckProofs` | `CheckBlock` on a growing chain: transactions, Merkle root, difficulty, proof of work |

### BlockChain

`blockDB`, `height`, `next`, `tips`, `txIndex` and `utxo` are the databases and
survive a crash; `orphans` and the pools do not. One call of `AcceptBlock` is in
progress at a time; `pc`, `cur`, `mode`, `thread`, `txi` are its position and
locals. The lookups and checks at its start are one step (`ExtendActive`, `Reorg`,
`ReorgDies`, `AddSide`, `AddOrphan`), as only holders of the mutex write what they
read. Every database write after it is a step (`PutBlock`, `PutPrev`, `PutIndex`,
`UpdateTip`, `PutTx`, `Cache`, `DeleteTx`, `UnCache`, `ReorgTip`). `AcceptTx` and
`GetNewBlockTxs` come in between, except while `ProcessTransactions` holds the
pool's mutex. `Crash` is enabled everywhere after the start.

A hash stands for the block or the transaction it is the hash of, and is a number so
that the order of the tip map is there. Tests of `CheckBlock` and
`CheckTransaction` that look at one block or one transaction alone are the constants
`ValidBlock`, `WellFormedTx`, `ScriptOKTx` and `FeeTx`; tests against the index, the
UTXO set and the other transactions of the block are modelled.

Some behaviour is there as the code has it: the map of tips never loses an entry
(`TipsWith`), the walk to the crossing of two chains compares pointers and so runs to
the genesis block (`ForkChainLen`), the check of a longer fork reads through a null
pointer (`ReorgDies`), orphan transactions go to the mining pool (`AcceptTx`), and an
orphan's parent makes `AcceptBlock` wait for its own mutex (`Finish`).

### GpuMiner

The loop (`pc`, `block`, `nonceOffset`) and the checking thread share `runState`, an
atomic, and the nonce of a block. `Switch`, `Claim`, `Submit`, `Create`, `Kernel` are the
loop's steps between accesses to shared state; `CheckFound` writes the nonce and
`Reset` the run state, with a step of the loop possible between the two. Which nonces
win is chosen when a block is created. `NonceSpace` is 2^32 in the code; arithmetic is
modulo `NonceSpace`.

### IBD and BlockDownload

One peer with a chain that grows, a FIFO channel in each direction, and a connection
that may break (`Drop`). `HandleVerack`, `HeadersNone`, `HeadersSome`,
`BlockRefused`, `BlockTaken`, `BlockAfter`, `HandleInv` are the branches of the
message handlers. A block is its height. `BlockDownload` has two steps: the tip grows
by one, and mining starts once, when the tip has reached the chain that the peer had
when it first answered. `KeepsPromise` is the refinement.

### Node

One connection. A completion handler is one step of the socket thread. `Connected`,
`ReadHeader`, `ReadEmpty`, `ReadBody`, `QueueMessage`, `Written`, `CheckDeadline` and
their failures follow the handlers; `OpenNode` and `OpenConnect` run in the opening
thread; `TakeMessage` to `Release` in the message thread, whose `Disconnect` is two
steps so that the socket thread can come between its test and its assignment.
Messages to the peer are numbers in the order of `PushMessage`; sizes are in units of a
header.

### ArithUint256 and BlockCheck

`ArithUint256` has the shifts, sum, difference, product by a word, division, comparison
and compact form of `arith_uint256.*` with their carries. `BlockCheck` is what
`BlockChain` takes as the constant `ValidBlock`: `CheckTxs`, one `HashLevel` per turn of
the loop of `ComputeMerkleRoot`, then `CheckHeader`. A hash of two hashes is their pair.
The loop's mutated flag starts false and is only set when it is true already, so it is not
a variable. The time limits of a retarget are compared as the code compares them,
signed with unsigned. The build is for the regression-test network; `net` also takes the
values that the comments at its two switches give for the others, as otherwise the
retarget is never reached. The properties compare with integers (`RequiredTarget`,
`Truncated`) and with a tree (`MerkleTree`) defined apart from the code.

## 3. Runs

Passing runs:

| Run | Checks | Instance |
|---|---|---|
| `chain` | index is a tree, tips indexed, UTXO set agrees with the index, no double spend, the index is the active chain before the first fork, pooled transactions are unconfirmed and in one pool, active height never drops, a checked block is processed to the end (fair) | two branches that compete and overtake, a double spend across them, relayed transactions in every order |
| `crash` | the tree, the tips and the active height with crashes at any point | a chain and a fork |
| `miner` | nonces solve their block, no self-fork; found solutions and solvable blocks are submitted unless `Stop` comes (fair) | 4 nonces, 2 per run of the kernel, 3 blocks, 1 block of a peer, 1 `Stop` |
| `ibd` | no request lost, order, no orphan, refinement of `BlockDownload`; mining starts and announcements are fetched while connected (fair) | 4 headers per message, 2 requests per batch, chains up to 5, the connection may break |
| `node` | order of messages, one writer, watched deadline, buffer, removal; pushed messages are written, silence closes (fair) | 3 messages out, 1 in, bodies up to 2 |
| `block_check` | target, retarget and proof of work agree with integers, the compact form rounds down, the root identifies the transactions, no good block fails, the built network stays at its limit | numbers of 16 bits in four limbs, bytes of two bits; a retarget with every second block, chains up to height 6, times that stand still, run backwards and jump; lists up to eight transactions |

The bounds let the cases that matter occur: two branches of height two overtake each
other and tie; a batch is shorter than a headers message, and a chain longer than a
batch; the nonce offset wraps; a second result is waiting when the first one hits; a
write is outstanding while a message is queued and one is posted; the target falls twice and
rises again, so that both limits of a retarget apply. No run looks for deadlock, as each ends
when its bounded inputs are used up or the process has ended; the liveness properties say
what must not get stuck.

Runs that end in a violation, each of something a comment of the code says:

| Run | What the code does |
|---|---|
| `orphan_block` | the parent of an orphan arrives, and `AcceptBlock` waits for itself |
| `crash_spend` | after a crash between two writes an output is spent twice |
| `miner_found` | a late result makes the loop submit a block that is not solved |
| `ibd_full` | after a full headers message the download never ends |
| `node_destroy` | a node is destroyed while its handlers are still to run |

The models also follow the code, without a run about it, where it does something a
reader may not expect. Of two tips of the same height the smaller hash is active, not
the first received, and a take-over by a tie leaves the transactions of the losing
chain in the index (so `TxIndexIsMainChain` is about chains before the first fork). A
fork that overtakes an active chain of height two or more ends the process. An orphan
block is stored twice, a waiting transaction is dropped when its inputs arrive, and the
output of the genesis block can be spent. The nonce wraps unnoticed, a peer's block on
the same parent does not restart the loop, and the read buffer grows with every
message.

Fairness. `BlockChain`: the thread inside `AcceptBlock` keeps running. `GpuMiner`: both
threads keep running, which the operating system provides. `IBD`: the message
thread handles what it has, and the peer answers; TCP gives order and delivery.
`Node`: the handlers of the socket thread and the message thread run; nothing is
assumed of the peer or of time.

## 4. Proofs

| Module | Theorems | Assumptions |
|---|---|---|
| `BlockChainProofs` | `TypeCorrect`, `TreeCorrect`, `TipsCorrect`, `ActiveHeightMonotonic`, `PoolsStayDisjoint` | `BlockAssumption`, `TxAssumption`: any set of blocks and transactions |
| `GpuMinerProofs` | `TypeCorrect`, `NoncesSolve`, `LoopDoesNotFork` | `MinerAssumption`: any nonce width and number of threads |
| `NodeProofs` | `TypeCorrect`, `OrderKept`, `OneWriter`, `DeadlineKept`, `BufferSuffices`, `RemovalCloses` | `NodeAssumption`: any lengths and numbers of messages |
| `BlockCheckProofs` | `StaysAtLimit` | `WidthAssumption`, `ChainAssumption`: any candidates with a time, any interval, height and width |

`BlockChainProofs`: the tree alone is not inductive, because between `PutBlock` and
`PutIndex` the block is stored and not yet indexed. The invariant adds, by the position
of the call, what has been written: that a block past `PutBlock` is stored, that its
parent is indexed unless it is the genesis block, and that one past `PutIndex` is
indexed. A crash keeps it since it only resets the call. The active height follows
from the tip map that only grows and from heights that never change once set.

`GpuMinerProofs`: that a nonce solves its block needs to be known of every result still
waiting (its block exists and its offset is in range), and of the checking thread
between its two writes. That the loop does not fork itself needs the relation between
the block in hand, the last one submitted and the tip.

`NodeProofs`: the order of messages is a statement on the concatenation of what was
written, what is queued and what is posted. Taking one from the front of a queue to
the end of the queue before it leaves the concatenation alone (`MoveFront`). `Written`
needs a queue that is not empty, which is `WriterRuns`. `BodyFits` needs room for the
header while the header is being read, and `RemovedIsClosed` that a node that was
opened is in the cache or closed; both are in `Support`.

`BlockCheckProofs`: every way through `GetNextWorkRequired` returns the limit when the whole
chain is at the limit (`WorkIsLimit`), which needs that the walk back ends inside the chain
(`WalkEnds`). The invariant adds to the chain the block that has passed and is not saved yet.

Only model-checked: liveness, the refinement of `BlockDownload`, `UtxoMatchesTxIndex`,
`NoDoubleSpend`, `PoolIsUnconfirmed`, `TxIndexIsMainChain`, the other properties of `BlockCheck`
(what its recursive functions compute is beyond the provers).

## 5. Not modelled

Writes of LevelDB that fail; a put is atomic and survives a crash. More than one peer
(the program opens one). The CPU miner, which returns at once. OpenCL set-up. The
bit-level functions (hashes, curves, cipher), logging and the command line. `components`
in `PROJECT.json` gives each part its reason.

## 6. Plan

1. The bounded queue (`queue.h`): producers, consumers, `finished` and `quit` between test and wait.
2. More pure algorithms against a reference: subsidy, median time, CompactSize and VarInt.
3. The miner, the pool and the chain together: which transactions a new block holds when `AcceptBlock` runs between its lookups.
4. The script machine: stacks, conditionals, limits and flags.
5. The lock-order checker, the stream cursors and `prevector`.
6. Lemmas on the limb operators, and proofs of `NoDoubleSpend` and `UtxoMatchesTxIndex` without crashes, `PoolIsUnconfirmed`, the safety of `IBD` and its refinement.
