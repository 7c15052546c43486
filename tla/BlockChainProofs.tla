-------------------------- MODULE BlockChainProofs --------------------------
(***************************************************************************)
(* Proofs about BlockChain, for every block tree, every set of             *)
(* transactions and any number of crashes.                                 *)
(***************************************************************************)
EXTENDS BlockChain, TLAPS

Saving == {"putBlock", "putPrev", "putIndex"}
Saved  == PCs \ (Saving \cup {"start", "idle"})

\* What the call in progress knows of the block it saves: the parent is indexed
\* before the block is, and the block is stored before it is indexed.
CallOK ==
    /\ pc \in {"start", "idle"} => cur = Genesis /\ mode = "none"
    /\ mode = "genesis" => cur = Genesis /\ pc # "putPrev"
    /\ pc \in Saving /\ mode # "genesis" => Indexed(Prev[cur]) /\ ~Indexed(cur)
    /\ pc \in {"putPrev", "putIndex"} => cur \in blockDB
    /\ pc \in Saved => Indexed(cur)

IsActive(t) ==
    /\ t \in tips
    /\ \A u \in tips : height[u] < height[t] \/ (height[u] = height[t] /\ t <= u)

\* The scan of the tip map has a result.
ActiveExists == tips # {} => \E t \in tips : IsActive(t)

IInv == TypeOK /\ IndexIsTree /\ TipsAreIndexed /\ CallOK /\ ActiveExists
-----------------------------------------------------------------------------
(* Type correctness *)

LEMMA InitType == Init => TypeOK
  BY BlockAssumption DEF Init, TypeOK, Heights, NoCoin, Absent, NullHash, PCs,
     Modes, Threads

\* The height that SaveBlock stores is a height, because the parent of the
\* block that is being saved is indexed.
LEMMA HeightOfType ==
    ASSUME TypeOK, CallOK, pc = "putIndex"
    PROVE  HeightOf(cur) \in Nat
  <1>1. CASE mode = "genesis"
    BY <1>1 DEF HeightOf
  <1>2. CASE mode # "genesis"
    <2>1. Prev[cur] \in Block /\ height[Prev[cur]] # Absent
      BY <1>2 DEF CallOK, Saving, Indexed
    <2>2. height[Prev[cur]] \in Nat
      BY <2>1 DEF TypeOK, Heights
    <2> QED
      BY <1>2, <2>2 DEF HeightOf
  <1> QED
    BY <1>1, <1>2

LEMMA DieType == TypeOK /\ Die /\ UNCHANGED diskVars /\ crashes' \in Nat => TypeOK'
  BY BlockAssumption DEF TypeOK, Die, diskVars, PCs, Modes, Threads

LEMMA CoinType ==
    ASSUME TypeOK, NEW t, NEW h \in Heights
    PROVE  /\ CacheUTXO(t, h) \in [OutPoint -> [height : Heights, used : BOOLEAN]]
           /\ UnCacheUTXO(t) \in [OutPoint -> [height : Heights, used : BOOLEAN]]
  <1>1. ASSUME NEW o \in OutPoint, NEW b \in BOOLEAN
        PROVE  [utxo[o] EXCEPT !.used = b] \in [height : Heights, used : BOOLEAN]
    BY DEF TypeOK
  <1>2. [height |-> h, used |-> FALSE] \in [height : Heights, used : BOOLEAN]
    OBVIOUS
  <1>3. NoCoin \in [height : Heights, used : BOOLEAN]
    BY DEF NoCoin, Heights
  <1> QED
    BY <1>1, <1>2, <1>3 DEF TypeOK, CacheUTXO, UnCacheUTXO

LEMMA TypeStep == TypeOK /\ CallOK /\ [Next]_vars => TypeOK'
  <1> SUFFICES ASSUME TypeOK, CallOK, [Next]_vars PROVE TypeOK'
    OBVIOUS
  <1> USE BlockAssumption, TxAssumption
  <1>1. CASE Initialize
    BY <1>1 DEF Initialize, TypeOK, diskVars, poolVars, PCs, Modes
  <1>2. ASSUME NEW b \in Block, NEW t \in {"message", "miner"}, Receive(b, t)
        PROVE  TypeOK'
    BY <1>2 DEF Receive, ExtendActive, Reorg, AddSide, Enter, TypeOK, diskVars,
       poolVars, PCs, Modes, Threads
  <1>3. ASSUME NEW b \in Block, ReorgDies(b) PROVE TypeOK'
    BY <1>3, DieType DEF ReorgDies, TypeOK
  <1>4. ASSUME NEW b \in Block, AddOrphan(b) PROVE TypeOK'
    <2>1. orphans' \in [Block -> Nat]
      BY <1>4 DEF AddOrphan, TypeOK
    <2> QED
      BY <1>4, <2>1 DEF AddOrphan, TypeOK, diskVars, poolVars, callVars
  <1>5. CASE PutBlock
    BY <1>5 DEF PutBlock, Goto, TypeOK, poolVars, callVars, PCs
  <1>6. CASE PutPrev
    BY <1>6 DEF PutPrev, Goto, TypeOK, poolVars, callVars, PCs
  <1>7. CASE PutIndex
    <2>1. HeightOf(cur) \in Heights
      BY <1>7, HeightOfType DEF PutIndex, Heights
    <2> QED
      BY <1>7, <2>1 DEF PutIndex, Goto, TypeOK, poolVars, callVars, PCs
  <1>8. CASE UpdateTip
    BY <1>8 DEF UpdateTip, TipsWith, Goto, Return, TypeOK, poolVars, callVars, PCs,
       Modes, Threads
  <1>9. CASE ForkPasses \/ ForkFails
    BY <1>9 DEF ForkPasses, ForkFails, Goto, Return, TypeOK, diskVars, poolVars,
       callVars, PCs, Modes, Threads
  <1>10. CASE ForkDies
    BY <1>10, DieType DEF ForkDies, TypeOK
  <1>11. CASE DeleteTx
    BY <1>11 DEF DeleteTx, Goto, TypeOK, Heights, poolVars, callVars, PCs
  <1>12. CASE UnCache
    <2>1. utxo' \in [OutPoint -> [height : Heights, used : BOOLEAN]]
      BY <1>12, CoinType, Absent \in Heights DEF UnCache, Heights
    <2>2. txi' \in Nat
      BY <1>12 DEF UnCache, TypeOK
    <2> QED
      BY <1>12, <2>1, <2>2 DEF UnCache, Goto, TypeOK, poolVars, callVars, PCs
  <1>13. CASE ReorgTip
    BY <1>13 DEF ReorgTip, TipsWith, Goto, TypeOK, poolVars, callVars, PCs
  <1>14. CASE PutTx
    <2>1. height[cur] \in Heights
      BY DEF TypeOK
    <2> QED
      BY <1>14, <2>1 DEF PutTx, Goto, TypeOK, callVars, PCs
  <1>15. CASE Cache
    <2>1. utxo' \in [OutPoint -> [height : Heights, used : BOOLEAN]]
      <3>1. height[cur] \in Heights
        BY DEF TypeOK
      <3> QED
        BY <1>15, <3>1, CoinType DEF Cache
    <2>2. txi' \in Nat
      BY <1>15 DEF Cache, TypeOK
    <2> QED
      BY <1>15, <2>1, <2>2 DEF Cache, AfterTxs, Goto, Return, TypeOK, poolVars, callVars,
         PCs, Modes, Threads
  <1>16. CASE ProcOrphanTx
    BY <1>16 DEF ProcOrphanTx, Goto, TypeOK, diskVars, callVars, PCs
  <1>17. CASE Finish
    BY <1>17 DEF Finish, Goto, Return, TypeOK, diskVars, poolVars, callVars, PCs,
       Modes, Threads
  <1>18. ASSUME NEW t \in RelayedTx, AcceptTx(t) PROVE TypeOK'
    BY <1>18 DEF AcceptTx, TypeOK, diskVars, callVars
  <1>19. CASE GetNewBlockTxs
    BY <1>19 DEF GetNewBlockTxs, TypeOK, diskVars, callVars
  <1>20. CASE Crash
    <2>1. crashes' \in Nat
      BY <1>20 DEF Crash, TypeOK
    <2> QED
      BY <1>20, <2>1, DieType DEF Crash
  <1>21. CASE UNCHANGED vars
    BY <1>21 DEF vars, TypeOK
  <1> QED
    BY <1>1, <1>2, <1>3, <1>4, <1>5, <1>6, <1>7, <1>8, <1>9, <1>10, <1>11, <1>12,
       <1>13, <1>14, <1>15, <1>16, <1>17, <1>18, <1>19, <1>20, <1>21
       DEF Next, AcceptBlockStep
-----------------------------------------------------------------------------
(* The block tree *)

\* Only four steps write the block database, the block index or the tips.
LEMMA TreeFrame ==
    [Next]_vars => \/ UNCHANGED <<blockDB, height, tips>>
                   \/ PutBlock \/ PutIndex \/ UpdateTip \/ ReorgTip
  BY DEF Next, Initialize, Receive, ExtendActive, Reorg, AddSide, Enter, ReorgDies,
     AddOrphan, AcceptBlockStep, PutPrev, ForkPasses, ForkFails, ForkDies, DeleteTx,
     UnCache, PutTx, Cache, ProcOrphanTx, Finish, AcceptTx, GetNewBlockTxs, Crash,
     diskVars, vars

\* SaveBlock changes no height that is already there: a block is saved once,
\* and the genesis block always with height 0.
LEMMA HeightsStay ==
    ASSUME TypeOK, IndexIsTree, CallOK, PutIndex, NEW b \in Block, Indexed(b)
    PROVE  height'[b] = height[b]
  <1>1. CASE b # cur
    BY <1>1 DEF PutIndex, TypeOK
  <1>2. CASE b = cur
    <2>1. mode = "genesis" /\ b = Genesis
      BY <1>2 DEF PutIndex, CallOK, Saving
    <2>2. ~Indexed(Prev[Genesis])
      BY BlockAssumption DEF Indexed
    <2>3. height[b] = 0
      BY <2>1, <2>2 DEF IndexIsTree, Indexed
    <2> QED
      BY <1>2, <2>1, <2>3 DEF PutIndex, HeightOf, TypeOK
  <1> QED
    BY <1>1, <1>2

LEMMA IndexIsTreeStep ==
    ASSUME TypeOK, IndexIsTree, CallOK, [Next]_vars
    PROVE  IndexIsTree'
  <1>1. CASE UNCHANGED <<blockDB, height, tips>>
    BY <1>1 DEF IndexIsTree, Indexed
  <1>2. CASE PutBlock
    BY <1>2 DEF PutBlock, IndexIsTree, Indexed
  <1>3. CASE PutIndex
    <2> SUFFICES ASSUME NEW b \in Block, height'[b] # Absent
                 PROVE  /\ b \in blockDB'
                        /\ \/ b = Genesis /\ height'[b] = 0
                           \/ Indexed(Prev[b])' /\ height'[b] = height'[Prev[b]] + 1
      BY DEF IndexIsTree
    <2>1. CASE b # cur
      <3>1. Indexed(b) /\ height'[b] = height[b]
        BY <1>3, <2>1 DEF PutIndex, TypeOK, Indexed
      <3>2. Indexed(Prev[b]) => Indexed(Prev[b])' /\ height'[Prev[b]] = height[Prev[b]]
        BY <1>3, HeightsStay DEF Indexed
      <3> QED
        BY <1>3, <3>1, <3>2 DEF PutIndex, IndexIsTree, Indexed
    <2>2. CASE b = cur
      <3>1. b \in blockDB'
        BY <1>3, <2>2 DEF PutIndex, CallOK
      <3>2. CASE mode = "genesis"
        BY <1>3, <2>2, <3>1, <3>2 DEF PutIndex, CallOK, HeightOf, TypeOK
      <3>3. CASE mode # "genesis"
        <4>1. Indexed(Prev[b])
          BY <1>3, <2>2, <3>3 DEF PutIndex, CallOK, Saving
        <4>2. Indexed(Prev[b])' /\ height'[Prev[b]] = height[Prev[b]]
          BY <1>3, <4>1, HeightsStay DEF Indexed
        <4>3. height'[b] = height[Prev[b]] + 1
          BY <1>3, <2>2, <3>3 DEF PutIndex, HeightOf, TypeOK
        <4> QED
          BY <3>1, <4>2, <4>3
      <3> QED
        BY <3>2, <3>3
    <2> QED
      BY <2>1, <2>2
  <1>4. CASE UpdateTip \/ ReorgTip
    BY <1>4 DEF UpdateTip, ReorgTip, IndexIsTree, Indexed
  <1> QED
    BY <1>1, <1>2, <1>3, <1>4, TreeFrame

LEMMA TipsAreIndexedStep ==
    ASSUME TypeOK, IndexIsTree, TipsAreIndexed, CallOK, [Next]_vars
    PROVE  TipsAreIndexed'
  <1>1. CASE UNCHANGED <<blockDB, height, tips>>
    BY <1>1 DEF TipsAreIndexed
  <1>2. CASE PutBlock
    BY <1>2 DEF PutBlock, TipsAreIndexed
  <1>3. CASE PutIndex
    BY <1>3, HeightsStay DEF PutIndex, TipsAreIndexed, Indexed, TypeOK
  <1>4. CASE UpdateTip \/ ReorgTip
    <2>1. Indexed(cur) /\ cur \in blockDB
      BY <1>4 DEF UpdateTip, ReorgTip, CallOK, Saved, Saving, PCs, IndexIsTree, Indexed
    <2> QED
      BY <1>4, <2>1 DEF UpdateTip, ReorgTip, TipsWith, TipsAreIndexed, Indexed
  <1> QED
    BY <1>1, <1>2, <1>3, <1>4, TreeFrame

LEMMA ActiveExistsStep ==
    ASSUME TypeOK, IndexIsTree, TipsAreIndexed, CallOK, ActiveExists, [Next]_vars
    PROVE  ActiveExists'
  <1>1. CASE UNCHANGED <<blockDB, height, tips>>
    BY <1>1 DEF ActiveExists, IsActive
  <1>2. CASE PutBlock
    BY <1>2 DEF PutBlock, ActiveExists, IsActive
  <1>3. CASE PutIndex
    <2>1. tips' = tips /\ \A t \in tips : height'[t] = height[t]
      BY <1>3, HeightsStay DEF PutIndex, TipsAreIndexed, Indexed, TypeOK
    <2> QED
      BY <2>1 DEF ActiveExists, IsActive
  <1>4. CASE UpdateTip \/ ReorgTip
    <2>1. tips' = tips \cup {cur} /\ height' = height
      BY <1>4 DEF UpdateTip, ReorgTip, TipsWith
    <2>2. Indexed(cur)
      BY <1>4 DEF UpdateTip, ReorgTip, CallOK, Saved, Saving, PCs
    <2>3. \A u \in tips \cup {cur} : u \in Nat /\ height[u] \in Nat
      BY <2>2, BlockAssumption DEF TipsAreIndexed, Indexed, TypeOK, Heights
    <2>4. CASE tips = {}
      BY <2>1, <2>3, <2>4 DEF ActiveExists, IsActive
    <2>5. CASE tips # {}
      <3>1. PICK t \in tips : IsActive(t)
        BY <2>5 DEF ActiveExists
      <3>2. CASE height[cur] < height[t] \/ (height[cur] = height[t] /\ t <= cur)
        BY <2>1, <3>1, <3>2 DEF ActiveExists, IsActive
      <3>3. CASE ~(height[cur] < height[t] \/ (height[cur] = height[t] /\ t <= cur))
        <4>1. \A u \in tips : height[u] < height[cur] \/ (height[u] = height[cur] /\ cur <= u)
          BY <2>3, <3>1, <3>3 DEF IsActive
        <4> DEFINE c == cur
        <4>2. c \in tips' /\ \A u \in tips' : height'[u] < height'[c]
                                           \/ (height'[u] = height'[c] /\ c <= u)
          BY <2>1, <2>3, <4>1
        <4> QED
          BY <2>1, <4>2 DEF ActiveExists, IsActive
      <3> QED
        BY <3>2, <3>3
    <2> QED
      BY <2>4, <2>5
  <1> QED
    BY <1>1, <1>2, <1>3, <1>4, TreeFrame
-----------------------------------------------------------------------------
(* The call in progress *)

LEMMA CallOKStep ==
    ASSUME TypeOK, IndexIsTree, TipsAreIndexed, CallOK, [Next]_vars
    PROVE  CallOK'
  <1> USE DEF CallOK, Saving, Saved
  <1>1. CASE Initialize
    BY <1>1 DEF Initialize, PCs
  <1>2. ASSUME NEW b \in Block, NEW t \in {"message", "miner"}, Receive(b, t)
        PROVE  CallOK'
    <2>1. Indexed(Prev[b]) /\ ~Indexed(b)
      BY <1>2 DEF Receive, ExtendActive, Reorg, AddSide, Fresh, OnActiveTip, Overtakes,
         OnSide, Indexed, TipsAreIndexed, TypeOK
    <2>2. PICK m \in {"extend", "reorg", "side"} : Enter(b, t, m)
      BY <1>2 DEF Receive, ExtendActive, Reorg, AddSide
    <2> QED
      BY <2>1, <2>2 DEF Enter, diskVars, Indexed, PCs
  <1>3. ASSUME NEW b \in Block, ReorgDies(b) PROVE CallOK'
    BY <1>3 DEF ReorgDies, Die, PCs
  <1>4. ASSUME NEW b \in Block, AddOrphan(b) PROVE CallOK'
    BY <1>4 DEF AddOrphan, Fresh, diskVars, callVars, Indexed, PCs
  <1>5. CASE PutBlock
    BY <1>5 DEF PutBlock, Goto, callVars, Indexed, PCs
  <1>6. CASE PutPrev
    BY <1>6 DEF PutPrev, Goto, callVars, Indexed, PCs
  <1>7. CASE PutIndex
    <2>1. HeightOf(cur) \in Nat
      BY <1>7, HeightOfType DEF PutIndex
    <2>2. height'[cur] # Absent
      BY <1>7, <2>1 DEF PutIndex, TypeOK, Absent
    <2> QED
      BY <1>7, <2>2 DEF PutIndex, Goto, callVars, Indexed, PCs, TypeOK
  <1>8. CASE UpdateTip \/ ReorgTip
    BY <1>8 DEF UpdateTip, ReorgTip, Goto, Return, callVars, Indexed, PCs
  <1>9. CASE ForkPasses \/ ForkFails
    BY <1>9 DEF ForkPasses, ForkFails, Goto, Return, diskVars, callVars, Indexed, PCs
  <1>10. CASE ForkDies
    BY <1>10 DEF ForkDies, Die, PCs
  <1>11. CASE DeleteTx \/ UnCache
    BY <1>11 DEF DeleteTx, UnCache, Goto, callVars, Indexed, PCs
  <1>12. CASE PutTx
    BY <1>12 DEF PutTx, Goto, callVars, Indexed, PCs
  <1>13. CASE Cache
    BY <1>13 DEF Cache, AfterTxs, Goto, Return, callVars, Indexed, PCs
  <1>14. CASE ProcOrphanTx \/ Finish
    BY <1>14 DEF ProcOrphanTx, Finish, Goto, Return, diskVars, callVars, Indexed, PCs
  <1>15. ASSUME NEW t \in RelayedTx, AcceptTx(t) PROVE CallOK'
    BY <1>15 DEF AcceptTx, diskVars, callVars, Indexed
  <1>16. CASE GetNewBlockTxs
    BY <1>16 DEF GetNewBlockTxs, diskVars, callVars, Indexed
  <1>17. CASE Crash
    BY <1>17 DEF Crash, Die, PCs
  <1>18. CASE UNCHANGED vars
    BY <1>18 DEF vars, Indexed
  <1> QED
    BY <1>1, <1>2, <1>3, <1>4, <1>5, <1>6, <1>7, <1>8, <1>9, <1>10, <1>11, <1>12,
       <1>13, <1>14, <1>15, <1>16, <1>17, <1>18 DEF Next, AcceptBlockStep
-----------------------------------------------------------------------------
(* The theorems *)

\* The inductive invariant holds in every reachable state.
THEOREM Invariance == Spec => []IInv
  <1>1. Init => IInv
    <2> SUFFICES ASSUME Init PROVE IInv
      OBVIOUS
    <2>1. IndexIsTree /\ TipsAreIndexed /\ ActiveExists
      BY DEF Init, IndexIsTree, TipsAreIndexed, ActiveExists
    <2>2. CallOK
      BY DEF Init, CallOK, Saving, Saved
    <2> QED
      BY <2>1, <2>2, InitType DEF IInv
  <1>2. IInv /\ [Next]_vars => IInv'
    BY TypeStep, IndexIsTreeStep, TipsAreIndexedStep, CallOKStep, ActiveExistsStep
       DEF IInv
  <1> QED
    BY <1>1, <1>2, PTL DEF Spec

\* Whatever order blocks arrive in and wherever the process dies: SaveBlock never
\* computes a height from a parent that is not in the index, an indexed block is stored
\* and stands one above its indexed parent, and a tip found at any start of the process
\* is indexed and stored.
THEOREM IndexCorrect == Spec => []IndexSound
  BY Invariance, PTL DEF IInv, IndexSound

\* GetActiveTip, a CHOOSE, returns the tip that the scan of the map returns.
LEMMA ActiveTipIsActive ==
    ASSUME ActiveExists, tips # {}
    PROVE  IsActive(GetActiveTip)
  BY DEF ActiveExists, IsActive, GetActiveTip

\* The height of the active chain never decreases, because no step removes a
\* tip or changes the height of a block that has one.
THEOREM ActiveHeightMonotonic == Spec => ActiveHeightNeverDrops
  <1>1. IInv /\ IInv' /\ [Next]_vars
          => [tips # {} => tips' # {} /\ height'[GetActiveTip'] >= height[GetActiveTip]]_vars
    <2> SUFFICES ASSUME IInv, IInv', [Next]_vars, tips # {}
                 PROVE  tips' # {} /\ height'[GetActiveTip'] >= height[GetActiveTip]
      OBVIOUS
    <2>1. \A t \in tips : t \in tips' /\ height'[t] = height[t]
      <3>1. CASE UNCHANGED <<blockDB, height, tips>> \/ PutBlock
        BY <3>1 DEF PutBlock
      <3>2. CASE PutIndex
        BY <3>2, HeightsStay DEF PutIndex, IInv, TipsAreIndexed, Indexed, TypeOK
      <3>3. CASE UpdateTip \/ ReorgTip
        BY <3>3 DEF UpdateTip, ReorgTip, TipsWith
      <3> QED
        BY <3>1, <3>2, <3>3, TreeFrame
    <2>2. tips' # {}
      BY <2>1
    <2>3. IsActive(GetActiveTip)
      BY ActiveTipIsActive DEF IInv
    <2>4. IsActive(GetActiveTip)'
      BY <2>2 DEF IInv, ActiveExists, IsActive, GetActiveTip
    <2> QED
      BY <2>1, <2>2, <2>3, <2>4 DEF IsActive, IInv, TypeOK, Heights, Absent
  <1> QED
    BY <1>1, Invariance, PTL DEF Spec, ActiveHeightNeverDrops

\* A transaction is waiting or being mined, never both: AcceptTx refuses what
\* either pool holds, GetNewBlockTxs moves, and the others only remove.
THEOREM PoolsStayDisjoint == Spec => []PoolsDisjoint
  <1>1. Init => PoolsDisjoint
    BY DEF Init, PoolsDisjoint
  <1>2. PoolsDisjoint /\ [Next]_vars => PoolsDisjoint'
    <2> SUFFICES ASSUME PoolsDisjoint, [Next]_vars PROVE PoolsDisjoint'
      OBVIOUS
    <2>1. ASSUME NEW t \in RelayedTx, AcceptTx(t) PROVE PoolsDisjoint'
      BY <2>1 DEF AcceptTx, PoolsDisjoint
    <2>2. CASE GetNewBlockTxs
      BY <2>2 DEF GetNewBlockTxs, PoolsDisjoint
    <2>3. pool' \subseteq pool /\ miningPool' \subseteq miningPool => PoolsDisjoint'
      BY DEF PoolsDisjoint
    <2>4. \/ \E t \in RelayedTx : AcceptTx(t)
          \/ GetNewBlockTxs
          \/ pool' \subseteq pool /\ miningPool' \subseteq miningPool
      BY DEF Next, Initialize, Receive, ExtendActive, Reorg, AddSide, Enter, ReorgDies,
         AddOrphan, AcceptBlockStep, PutBlock, PutPrev, PutIndex, UpdateTip, ForkPasses,
         ForkFails, ForkDies, DeleteTx, UnCache, ReorgTip, PutTx, Cache, ProcOrphanTx,
         Finish, Crash, Die, poolVars, vars
    <2> QED
      BY <2>1, <2>2, <2>3, <2>4
  <1> QED
    BY <1>1, <1>2, PTL DEF Spec
=============================================================================
