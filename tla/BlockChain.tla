----------------------------- MODULE BlockChain -----------------------------
(***************************************************************************)
(* BlockChain::AcceptBlock with everything it changes: the block and index *)
(* databases, the tip map, the transaction index, the UTXO set, the orphan *)
(* blocks and the transaction pools (blockchain.h, blockchain.cpp).        *)
(*                                                                         *)
(* AcceptBlock runs under a static mutex, so one call is in progress at a  *)
(* time; pc, cur, mode, thread and txi are its program counter and locals. *)
(* Its reads and checks are one step (only holders of the mutex write what *)
(* they read), and every write of a database is a step of its own, because *)
(* the process can die between two writes and because AcceptTx and         *)
(* GetNewBlockTxs, which do not take that mutex, run in between.  The puts *)
(* that CacheUTXO and UnCacheUTXO make for one transaction are one step.   *)
(*                                                                         *)
(* A hash stands for the block or transaction it is the hash of: the       *)
(* content of a block is a function of its hash.  Hashes are positive      *)
(* naturals in the order of uint256's operator<, 0 is the null hash.       *)
(***************************************************************************)
EXTENDS Integers, Sequences, FiniteSets

CONSTANTS
    Block,          \* hashes of the blocks that may reach the node
    Genesis,        \* hash of the genesis block
    Prev,           \* Block::_hashPrevBlock
    Vtx,            \* Block::_vtx, a sequence of transaction hashes
    ValidBlock,     \* blocks that pass the checks of CheckBlock
    Tx,             \* hashes of the transactions
    Vin,            \* previous outputs a transaction spends; <<>> for a coinbase
    NOut,           \* size of _vout
    WellFormedTx,   \* transactions that pass the context-free checks
    ScriptOKTx,     \* transactions whose scripts and amounts pass
    FeeTx,          \* transactions whose inputs are worth more than their outputs
    RelayedTx,      \* transactions that peers send in TX messages
    Maturity,       \* COINBASE_MATURITY
    MaxOut,         \* bound on the size of _vout
    MaxBlockTxs,    \* transactions that fit the weight limit of a new block
    MaxCopies,      \* bound on copies of one block among the orphans
    MaxCrashes      \* bound on crashes of the process

NullHash == 0
Absent   == -1      \* BlockIndex::INVALID_BLOCK_HEIGHT

OutPoint == Tx \X (0 .. MaxOut - 1)

ASSUME BlockAssumption ==
    /\ Block \subseteq Nat \ {NullHash}
    /\ Genesis \in Block
    /\ Prev \in [Block -> Block \cup {NullHash}]
    /\ Prev[Genesis] = NullHash
    /\ \A b \in Block : Prev[b] # b
    /\ ValidBlock \subseteq Block

ASSUME TxAssumption ==
    /\ Tx \subseteq Nat \ {NullHash}
    /\ MaxOut \in Nat \ {0}
    /\ Vtx \in [Block -> Seq(Tx)]
    /\ \A b \in Block : Vtx[b] # <<>>
    /\ Vin \in [Tx -> Seq(OutPoint)]
    /\ NOut \in [Tx -> 1 .. MaxOut]
    /\ RelayedTx \subseteq Tx
    /\ Maturity \in Nat
    /\ MaxBlockTxs \in Nat

Threads == {"main", "message", "miner"}
Modes   == {"none", "genesis", "extend", "reorg", "side"}
PCs     == {"start", "idle", "putBlock", "putPrev", "putIndex", "updateTip",
            "checkFork", "deleteTx", "uncache", "putTx", "cache", "reorgTip",
            "orphanTxs", "tail", "stuck"}

VARIABLES
    blockDB,        \* DBBlockWrapper: the blocks stored
    height,         \* DBBlockIndexWrapper: height of an indexed block, or Absent
    next,           \* BlockIndex::_hashNextBlock
    tips,           \* BlockTipManager::_tipMap, saved at each change
    txIndex,        \* DBTransactionIndexWrapper: height of a transaction, or Absent
    utxo,           \* UTXOManager: height and spent flag of an output
    orphans,        \* _orphanBlocks: copies of each orphan block
    pool,           \* TXMemPool::_pool
    orphanPool,     \* TXMemPool::_orphanPool
    miningPool,     \* TXMemPool::_miningPool
    pc,             \* where the call in progress is, "idle" when there is none
    cur,            \* the block it is about
    mode,           \* the branch of AcceptBlock it took
    thread,         \* the thread that runs it
    txi,            \* position in a loop over transactions
    crashes         \* crashes so far

diskVars  == <<blockDB, height, next, tips, txIndex, utxo>>
poolVars  == <<pool, orphanPool, miningPool>>
callVars  == <<cur, mode, thread>>
vars      == <<blockDB, height, next, tips, txIndex, utxo, orphans,
               pool, orphanPool, miningPool, pc, cur, mode, thread, txi, crashes>>

NoCoin == [height |-> Absent, used |-> FALSE]

Init ==
    /\ blockDB    = {}
    /\ height     = [b \in Block |-> Absent]
    /\ next       = [b \in Block |-> NullHash]
    /\ tips       = {}
    /\ txIndex    = [t \in Tx |-> Absent]
    /\ utxo       = [o \in OutPoint |-> NoCoin]
    /\ orphans    = [b \in Block |-> 0]
    /\ pool       = {}
    /\ orphanPool = {}
    /\ miningPool = {}
    /\ pc         = "start"
    /\ cur        = Genesis
    /\ mode       = "none"
    /\ thread     = "main"
    /\ txi        = 1
    /\ crashes    = 0
-----------------------------------------------------------------------------
(* The tip map and the block index *)

Indexed(b) == b \in Block /\ height[b] # Absent

\* The first of the highest tips in hash order: the map is scanned in key
\* order and a later tip wins only when it is strictly higher.
GetActiveTip ==
    CHOOSE t \in tips : \A u \in tips :
        height[u] < height[t] \/ (height[u] = height[t] /\ t <= u)

\* Mutated form: a new tip replaces all others.
TipsWithOnly(b) == {b}

\* The erase of the parent acts on a copy of the map, so nothing leaves it.
TipsWith(b) == tips \cup {b}
-----------------------------------------------------------------------------
(* Transactions *)

IsCoinBase(t) == Vin[t] = <<>>
InIndex(t)    == txIndex[t] # Absent
Inputs(t)     == {Vin[t][i] : i \in DOMAIN Vin[t]}
Outputs(t)    == {t} \X (0 .. NOut[t] - 1)

Distinct(s)   == \A i, j \in DOMAIN s : s[i] = s[j] => i = j

\* Mutated form: a spent output is usable.
CanUseSpent(o) == utxo[o] # NoCoin

CanUse(o) == utxo[o] # NoCoin /\ ~utxo[o].used

\* A coinbase has the null previous output, which is never in the index.
AllInputsFound(t) == ~IsCoinBase(t) /\ \A o \in Inputs(t) : InIndex(o[1])

CheckTransaction(t, h) ==
    /\ t \in WellFormedTx
    /\ \/ IsCoinBase(t)
       \/ /\ Distinct(Vin[t])
          /\ \A o \in Inputs(t) :
                /\ CanUse(o)
                /\ InIndex(o[1])
                /\ o[2] < NOut[o[1]]
                /\ IsCoinBase(o[1]) => h - txIndex[o[1]] >= Maturity
          /\ t \in ScriptOKTx

CheckTransactions(b, h) == \A i \in DOMAIN Vtx[b] : CheckTransaction(Vtx[b][i], h)

\* CheckBlock also needs the block of the active tip, for the target.
CheckBlock(b) ==
    /\ b \in ValidBlock
    /\ Distinct(Vtx[b])
    /\ \A i \in DOMAIN Vtx[b] :
          /\ IsCoinBase(Vtx[b][i]) <=> i = 1
          /\ Distinct(Vin[Vtx[b][i]])
          /\ \A j \in DOMAIN Vtx[b] \ {i} : Inputs(Vtx[b][i]) \cap Inputs(Vtx[b][j]) = {}
    /\ GetActiveTip \in blockDB

CacheUTXO(t, h) ==
    [o \in OutPoint |->
        IF o \in Outputs(t) THEN [height |-> h, used |-> FALSE]
        ELSE IF o \in Inputs(t) /\ utxo[o] # NoCoin THEN [utxo[o] EXCEPT !.used = TRUE]
        ELSE utxo[o]]

UnCacheUTXO(t) ==
    [o \in OutPoint |->
        IF o \in Outputs(t) THEN NoCoin
        ELSE IF o \in Inputs(t) /\ utxo[o] # NoCoin THEN [utxo[o] EXCEPT !.used = FALSE]
        ELSE utxo[o]]
-----------------------------------------------------------------------------
(* Starting and dying *)

\* What a dead process leaves: the databases.
Die ==
    /\ orphans'    = [b \in Block |-> 0]
    /\ pool'       = {}
    /\ orphanPool' = {}
    /\ miningPool' = {}
    /\ pc'         = "start"
    /\ cur'        = Genesis
    /\ mode'       = "none"
    /\ thread'     = "main"
    /\ txi'        = 1

\* The process is killed or loses power to a point where its writes survive.
Crash ==
    /\ pc # "start"
    /\ crashes < MaxCrashes
    /\ crashes' = crashes + 1
    /\ Die
    /\ UNCHANGED diskVars

\* BlockChain::Initialize saves the genesis block when there is no tip yet.
Initialize ==
    /\ pc = "start"
    /\ IF tips = {}
       THEN pc' = "putBlock" /\ mode' = "genesis"
       ELSE pc' = "idle" /\ UNCHANGED mode
    /\ UNCHANGED <<diskVars, poolVars, orphans, cur, thread, txi, crashes>>

\* The call goes on at l.
Goto(l) == pc' = l /\ UNCHANGED callVars

\* The call returns, and gives back the mutex.
Return ==
    /\ pc'     = "idle"
    /\ cur'    = Genesis
    /\ mode'   = "none"
    /\ thread' = "main"
-----------------------------------------------------------------------------
(* AcceptBlock: the lookups, the choice of a branch and its checks.  A     *)
(* block that is already indexed or fails a check changes nothing.         *)

Enter(b, t, m) ==
    /\ pc'     = "putBlock"
    /\ cur'    = b
    /\ mode'   = m
    /\ thread' = t
    /\ UNCHANGED <<diskVars, poolVars, orphans, txi, crashes>>

Fresh(b) == pc = "idle" /\ ~Indexed(b)

OnActiveTip(b) == Prev[b] \in tips /\ Prev[b] = GetActiveTip

Overtakes(b) ==
    /\ Prev[b] \in tips
    /\ Prev[b] # GetActiveTip
    /\ height[Prev[b]] + 1 > height[GetActiveTip]

OnSide(b) ==
    \/ Prev[b] \in tips /\ height[Prev[b]] + 1 <= height[GetActiveTip]
    \/ Prev[b] \notin tips /\ Indexed(Prev[b])

ExtendActive(b, t) ==
    /\ Fresh(b)
    /\ OnActiveTip(b)
    /\ CheckBlock(b)
    /\ CheckTransactions(b, height[Prev[b]] + 1)
    /\ Enter(b, t, "extend")

\* The walk back compares pointers to freshly read index entries, which are
\* never equal, so it only stops when one side has reached a block without a
\* parent.  It starts from the new block and from the active tip.
ForkChainLen(b) ==
    IF height[Prev[b]] + 1 <= height[GetActiveTip]
    THEN height[Prev[b]] + 1 ELSE height[GetActiveTip]

ForkHeight(b) == height[Prev[b]] + 1 - ForkChainLen(b)

\* The fork chain is checked from its oldest block on, and the index of the
\* new block, which the check dereferences, only exists once the loop gets to
\* the new block: with more than one block the process dies on a null pointer.
ReorgDies(b) ==
    /\ Fresh(b)
    /\ Overtakes(b)
    /\ CheckBlock(b)
    /\ ForkChainLen(b) > 1
    /\ Die
    /\ UNCHANGED <<diskVars, crashes>>

Reorg(b, t) ==
    /\ Fresh(b)
    /\ Overtakes(b)
    /\ CheckBlock(b)
    /\ ForkChainLen(b) = 1
    /\ Enter(b, t, "reorg")

AddSide(b, t) ==
    /\ Fresh(b)
    /\ OnSide(b)
    /\ CheckBlock(b)
    /\ Enter(b, t, "side")

HasOrphanChild(b) == \E c \in Block : orphans[c] > 0 /\ Prev[c] = b

\* The test for a copy scans the orphans from the first child of b on, in the
\* order of their parents' hashes, for b itself.
CopySeen(b) == HasOrphanChild(b) /\ orphans[b] > 0 /\ b < Prev[b]

AddOrphan(b) ==
    /\ Fresh(b)
    /\ Prev[b] \notin tips
    /\ ~Indexed(Prev[b])
    /\ ~CopySeen(b)
    /\ orphans[b] < MaxCopies
    /\ orphans' = [orphans EXCEPT ![b] = @ + 1]
    /\ UNCHANGED <<diskVars, poolVars, pc, callVars, txi, crashes>>
-----------------------------------------------------------------------------
(* SaveBlock *)

\* Mutated form: the block is not written.
PutBlockSkipped ==
    /\ pc = "putBlock"
    /\ Goto(IF mode = "genesis" THEN "putIndex" ELSE "putPrev")
    /\ UNCHANGED <<diskVars, orphans, poolVars, txi, crashes>>

PutBlock ==
    /\ pc = "putBlock"
    /\ blockDB' = blockDB \cup {cur}
    /\ Goto(IF mode = "genesis" THEN "putIndex" ELSE "putPrev")
    /\ UNCHANGED <<height, next, tips, txIndex, utxo, orphans, poolVars,
                   txi, crashes>>

PutPrev ==
    /\ pc = "putPrev"
    /\ next' = [next EXCEPT ![Prev[cur]] = cur]
    /\ Goto("putIndex")
    /\ UNCHANGED <<blockDB, height, tips, txIndex, utxo, orphans, poolVars,
                   txi, crashes>>

\* Mutated form: the parent's height.
HeightOfParent(b) == IF mode = "genesis" THEN 0 ELSE height[Prev[b]]

HeightOf(b) == IF mode = "genesis" THEN 0 ELSE height[Prev[b]] + 1

PutIndex ==
    /\ pc = "putIndex"
    /\ height' = [height EXCEPT ![cur] = HeightOf(cur)]
    /\ next' = [next EXCEPT ![cur] = NullHash]
    /\ Goto(IF mode = "reorg" THEN "checkFork" ELSE "updateTip")
    /\ UNCHANGED <<blockDB, tips, txIndex, utxo, orphans, poolVars,
                   txi, crashes>>

UpdateTip ==
    /\ pc = "updateTip"
    /\ tips' = TipsWith(cur)
    /\ IF mode = "side" THEN Return ELSE Goto("putTx")
    /\ UNCHANGED <<blockDB, height, next, txIndex, utxo, orphans, poolVars,
                   txi, crashes>>
-----------------------------------------------------------------------------
(* The fork that overtakes the active chain *)

\* CheckTransaction with the fork's (still empty) maps: an input that is
\* usable and whose transaction is in the index makes it read through a null
\* pointer, any other input fails.
ForkCheck(t, fork) ==
    IF t \notin WellFormedTx THEN "fails"
    ELSE IF IsCoinBase(t) THEN "passes"
    ELSE LET o == Vin[t][1] IN
         IF CanUse(o) /\ utxo[o].height <= fork /\ InIndex(o[1])
         THEN "dies" ELSE "fails"

\* The first transaction that does not pass decides.
ForkChecks(b, result) ==
    \E i \in DOMAIN Vtx[b] :
        /\ ForkCheck(Vtx[b][i], ForkHeight(b)) = result
        /\ \A j \in 1 .. i - 1 : ForkCheck(Vtx[b][j], ForkHeight(b)) = "passes"

ForkPasses ==
    /\ pc = "checkFork"
    /\ ~ForkChecks(cur, "fails")
    /\ ~ForkChecks(cur, "dies")
    /\ Goto("deleteTx")
    /\ UNCHANGED <<diskVars, poolVars, orphans, txi, crashes>>

\* The block stays saved and indexed, without a tip.
ForkFails ==
    /\ pc = "checkFork"
    /\ ForkChecks(cur, "fails")
    /\ Return
    /\ UNCHANGED <<diskVars, poolVars, orphans, txi, crashes>>

ForkDies ==
    /\ pc = "checkFork"
    /\ ForkChecks(cur, "dies")
    /\ Die
    /\ UNCHANGED <<diskVars, crashes>>

\* The chain left behind is one entry, the active tip.
DeleteTx ==
    /\ pc = "deleteTx"
    /\ txIndex' = [txIndex EXCEPT ![Vtx[GetActiveTip][txi]] = Absent]
    /\ Goto("uncache")
    /\ UNCHANGED <<blockDB, height, next, tips, utxo, orphans, poolVars,
                   txi, crashes>>

UnCache ==
    /\ pc = "uncache"
    /\ utxo' = UnCacheUTXO(Vtx[GetActiveTip][txi])
    /\ IF txi < Len(Vtx[GetActiveTip])
       THEN Goto("deleteTx") /\ txi' = txi + 1
       ELSE Goto("putTx") /\ txi' = 1
    /\ UNCHANGED <<blockDB, height, next, tips, txIndex, orphans, poolVars, crashes>>

ReorgTip ==
    /\ pc = "reorgTip"
    /\ tips' = TipsWith(cur)
    /\ Goto("orphanTxs")
    /\ UNCHANGED <<blockDB, height, next, txIndex, utxo, orphans, poolVars,
                   txi, crashes>>
-----------------------------------------------------------------------------
(* ProcessTransactions, which holds the pool mutex from its first step on *)

PutTx ==
    /\ pc = "putTx"
    /\ LET t == Vtx[cur][txi] IN
          /\ pool' = pool \ {t}
          /\ miningPool' = miningPool \ {t}
          /\ txIndex' = [txIndex EXCEPT ![t] = height[cur]]
    /\ Goto("cache")
    /\ UNCHANGED <<blockDB, height, next, tips, utxo, orphans, orphanPool,
                   txi, crashes>>

AfterTxs == CASE mode = "genesis" -> Return
              [] mode = "reorg"   -> Goto("reorgTip")
              [] OTHER            -> Goto("orphanTxs")

\* Mutated form: the loop does not move on to the next transaction.
CacheStuck ==
    /\ pc = "cache"
    /\ utxo' = CacheUTXO(Vtx[cur][txi], height[cur])
    /\ IF txi < Len(Vtx[cur])
       THEN Goto("putTx") /\ UNCHANGED txi
       ELSE AfterTxs /\ txi' = 1
    /\ UNCHANGED <<blockDB, height, next, tips, txIndex, orphans, poolVars, crashes>>

Cache ==
    /\ pc = "cache"
    /\ utxo' = CacheUTXO(Vtx[cur][txi], height[cur])
    /\ IF txi < Len(Vtx[cur])
       THEN Goto("putTx") /\ txi' = txi + 1
       ELSE AfterTxs /\ txi' = 1
    /\ UNCHANGED <<blockDB, height, next, tips, txIndex, orphans, poolVars, crashes>>

\* Mutated form: ProcessTransactions without the pool mutex.
PoolUnlocked == FALSE

PoolLocked == pc = "cache" \/ (pc = "putTx" /\ txi > 1)
-----------------------------------------------------------------------------
(* The end of AcceptBlock *)

\* ProcOrphanTx walks the mining pool.  It offers a transaction whose inputs
\* are all indexed to AcceptTx, which refuses it because it is still in the
\* mining pool, and erases it.
ProcOrphanTx ==
    /\ pc = "orphanTxs"
    /\ miningPool' = {t \in miningPool : ~InIndex(t) /\ ~AllInputsFound(t)}
    /\ Goto("tail")
    /\ UNCHANGED <<diskVars, pool, orphanPool, orphans, txi, crashes>>

\* An orphan child makes AcceptBlock call itself with its mutex held: the
\* thread waits for itself and keeps the mutex.
Finish ==
    /\ pc = "tail"
    /\ IF HasOrphanChild(cur) THEN Goto("stuck") ELSE Return
    /\ UNCHANGED <<diskVars, poolVars, orphans, txi, crashes>>
-----------------------------------------------------------------------------
(* What the two threads do outside AcceptBlock *)

\* Neither thread runs before Initialize has returned.
Free(t) == pc # "start" /\ mode # "genesis" /\ thread # t

\* TXMemPool::AcceptTx
AcceptTx(t) ==
    /\ Free("message")
    /\ ~PoolLocked
    /\ t \notin pool \cup orphanPool \cup miningPool
    /\ \/ /\ ~AllInputsFound(t)
          /\ miningPool' = miningPool \cup {t}
          /\ UNCHANGED pool
       \/ /\ AllInputsFound(t)
          /\ CheckTransaction(t, height[GetActiveTip] + 1)
          /\ pool' = pool \cup {t}
          /\ UNCHANGED miningPool
    /\ UNCHANGED <<diskVars, orphanPool, orphans, pc, callVars, txi, crashes>>

\* NetMessageTransaction::GetFees is zero unless every input can be valued.
HasFee(t) == t \in FeeTx /\ \A o \in Inputs(t) : InIndex(o[1]) /\ o[2] < NOut[o[1]]

\* The pool is a map, so the transactions are taken in the order of their
\* hashes until the next one would exceed the weight limit.
GetNewBlockTxs ==
    /\ Free("miner")
    /\ ~PoolLocked
    /\ LET paying == {t \in pool : HasFee(t)}
           chosen == {t \in paying :
                        Cardinality({u \in paying : u < t}) < MaxBlockTxs}
       IN /\ miningPool' = chosen
          /\ pool' = pool \ chosen
    /\ UNCHANGED <<diskVars, orphanPool, orphans, pc, callVars, txi, crashes>>
-----------------------------------------------------------------------------
Receive(b, t) ==
    \/ ExtendActive(b, t)
    \/ Reorg(b, t)
    \/ AddSide(b, t)

AcceptBlockStep ==
    \/ PutBlock \/ PutPrev \/ PutIndex \/ UpdateTip
    \/ ForkPasses \/ ForkFails \/ ForkDies
    \/ DeleteTx \/ UnCache \/ ReorgTip
    \/ PutTx \/ Cache
    \/ ProcOrphanTx \/ Finish

Next ==
    \/ Initialize
    \/ \E b \in Block, t \in {"message", "miner"} : Receive(b, t)
    \/ \E b \in Block : ReorgDies(b)
    \/ \E b \in Block : AddOrphan(b)
    \/ AcceptBlockStep
    \/ \E t \in RelayedTx : AcceptTx(t)
    \/ GetNewBlockTxs
    \/ Crash

Spec == Init /\ [][Next]_vars

\* The thread that is inside AcceptBlock keeps running.
FairSpec == Spec /\ WF_vars(Initialize) /\ WF_vars(AcceptBlockStep)
-----------------------------------------------------------------------------
(* Properties *)

Heights == Nat \cup {Absent}

\* Every variable keeps its type.
TypeOK ==
    /\ blockDB \subseteq Block
    /\ height \in [Block -> Heights]
    /\ next \in [Block -> Block \cup {NullHash}]
    /\ tips \subseteq Block
    /\ txIndex \in [Tx -> Heights]
    /\ utxo \in [OutPoint -> [height : Heights, used : BOOLEAN]]
    /\ orphans \in [Block -> Nat]
    /\ pool \subseteq Tx
    /\ orphanPool \subseteq Tx
    /\ miningPool \subseteq Tx
    /\ pc \in PCs
    /\ cur \in Block
    /\ mode \in Modes
    /\ thread \in Threads
    /\ txi \in Nat
    /\ crashes \in Nat

\* Whatever is received in whatever order, and wherever the process dies, an
\* indexed block is stored and so is its parent, one below it, down to the
\* genesis block (the order of the writes of SaveBlock).
IndexIsTree ==
    \A b \in Block : height[b] # Absent =>
        /\ b \in blockDB
        /\ \/ b = Genesis /\ height[b] = 0
           \/ Indexed(Prev[b]) /\ height[b] = height[Prev[b]] + 1

\* A tip loaded after a restart can be looked up: it is indexed and stored, so
\* CheckBlock finds the block of the active tip.
TipsAreIndexed == \A b \in tips : height[b] # Absent /\ b \in blockDB

\* No step lowers the active chain, not even a crash and a restart.
ActiveHeightNeverDrops ==
    [][tips # {} => tips' # {} /\ height'[GetActiveTip'] >= height[GetActiveTip]]_vars

Spent == UNION {Inputs(t) : t \in {u \in Tx : InIndex(u)}}

\* Between calls the UTXO set is what the transaction index says: an output is
\* there exactly when its transaction is indexed, and marked used exactly when
\* an indexed transaction spends it.
UtxoMatchesTxIndex ==
    pc = "idle" =>
        \A o \in OutPoint :
            /\ utxo[o] # NoCoin <=> (InIndex(o[1]) /\ o \in Outputs(o[1]))
            /\ utxo[o] # NoCoin => (utxo[o].used <=> o \in Spent)

\* The block of the chain that ends in b at height h.
AncestorAt(b, h) ==
    LET up[k \in 0 .. height[b]] == IF k = height[b] THEN b ELSE Prev[up[k + 1]]
    IN up[h]

\* The transactions of the active chain.
MainChainTxs ==
    UNION {{Vtx[AncestorAt(GetActiveTip, h)][i] : i \in DOMAIN Vtx[AncestorAt(GetActiveTip, h)]} :
              h \in 0 .. height[GetActiveTip]}

NoFork == \A a, b \in Block : Indexed(a) /\ height[a] = height[b] => a = b

\* Between calls, and before the first fork, the transaction index holds the
\* transactions of the active chain and no others (the comment on
\* DBTransactionIndexWrapper), in whatever order blocks and transactions came.
TxIndexIsMainChain ==
    (pc = "idle" /\ NoFork) => {t \in Tx : InIndex(t)} = MainChainTxs

\* A block that extends the active chain and has passed its checks becomes a
\* tip and has all its transactions indexed, whatever the other thread does.
ExtendCompletes ==
    \A b \in Block :
        (pc = "putBlock" /\ mode = "extend" /\ cur = b) ~>
            (b \in tips /\ \A i \in DOMAIN Vtx[b] : InIndex(Vtx[b][i]))

\* No output is spent by two indexed transactions.
NoDoubleSpend ==
    \A t, u \in Tx : InIndex(t) /\ InIndex(u) /\ t # u => Inputs(t) \cap Inputs(u) = {}

\* A transaction waiting in the pool is not one that the chain already holds,
\* although AcceptTx runs while AcceptBlock is between two writes.
PoolIsUnconfirmed == \A t \in pool : ~InIndex(t)

\* A transaction is waiting or being mined, never both.
PoolsDisjoint == pool \cap miningPool = {}

\* The block index survives everything: the variables keep their types, the index is
\* a tree of stored blocks and every tip is one of them.
IndexSound == TypeOK /\ IndexIsTree /\ TipsAreIndexed

\* What the chain says of transactions agrees: the UTXO set with the transaction
\* index, the index with the active chain, and no output is spent twice.
LedgerSound == UtxoMatchesTxIndex /\ TxIndexIsMainChain /\ NoDoubleSpend

\* The pools of transactions hold no confirmed one, and none twice.
PoolsSound == PoolIsUnconfirmed /\ PoolsDisjoint
=============================================================================
