--------------------------- MODULE GpuMinerProofs ---------------------------
(***************************************************************************)
(* Proofs about GpuMiner, for every width of the nonce, every number of    *)
(* hashes per run and any number of results, peers' blocks and stops.      *)
(***************************************************************************)
EXTENDS GpuMiner, TLAPS

\* The block of the loop is the last one created, results are about blocks that
\* exist, and a block that does not exist yet has no nonce and was not sent.
Created ==
    /\ block = made
    /\ pc \in {"submit", "kernel"} => made > 0
    /\ pc = "switch" /\ runState = "RUNING" => made > 0
    /\ \A i \in 1 .. Len(results) : results[i].block <= made
    /\ \A b \in Blocks : b > made => nonce[b] = 0 /\ sent[b] = Unsent

\* Without peers the block being mined stands on the tip until it is sent, and
\* is the tip afterwards if it was solved.
OwnChain ==
    peerBlocks = 0 /\ made > 0 =>
        /\ sent[made] = Unsent => prev[made] = tip
        /\ sent[made] \in wins[made] => tip = made

\* Only the block of the loop is unsent when the loop has more to do with it.
SentOnce == made > 0 /\ pc # "create" => sent[made] = Unsent

IInv == TypeOK /\ Created /\ NonceSolvesItsBlock /\ OwnChain /\ SentOnce /\ NoSelfFork
-----------------------------------------------------------------------------
(* Results *)

Result == [block : Blocks, offset : Nonce]

LEMMA HeadOfResults ==
    ASSUME TypeOK, Created, results # <<>>
    PROVE  /\ Head(results) \in Result
           /\ Head(results).block \in Blocks /\ Head(results).block <= made
           /\ Tail(results) \in Seq(Result)
           /\ \A j \in 1 .. Len(Tail(results)) : Tail(results)[j].block <= made
  <1>1. results \in Seq(Result)
    BY DEF TypeOK, Result
  <1>2. Len(results) > 0 /\ Head(results) = results[1]
    BY <1>1
  <1>3. Tail(results) \in Seq(Result) /\ Len(Tail(results)) = Len(results) - 1
    BY <1>1
  <1>4. \A j \in 1 .. Len(Tail(results)) : Tail(results)[j] = results[j + 1]
    BY <1>1, <1>2
  <1>5. Head(results) \in Result
    BY <1>1, <1>2
  <1> QED
    BY <1>1, <1>2, <1>3, <1>4, <1>5 DEF Created, Result

LEMMA NonceInRange ==
    ASSUME NEW n \in Nat
    PROVE  n % NonceSpace \in Nonce
  BY MinerAssumption DEF Nonce
-----------------------------------------------------------------------------
(* The inductive step *)

LEMMA SwitchStep == IInv /\ Switch => IInv'
  <1> SUFFICES ASSUME IInv, Switch PROVE IInv'
    OBVIOUS
  <1> USE DEF IInv, Switch, blockVars, chainVars
  <1>1. TypeOK'
    BY DEF TypeOK
  <1>2. Created'
    BY DEF Created, TypeOK
  <1>3. NonceSolvesItsBlock' /\ OwnChain' /\ SentOnce' /\ NoSelfFork'
    BY DEF NonceSolvesItsBlock, OwnChain, SentOnce, NoSelfFork
  <1> QED
    BY <1>1, <1>2, <1>3

LEMMA ClaimStep == IInv /\ Claim => IInv'
  <1> SUFFICES ASSUME IInv, Claim PROVE IInv'
    OBVIOUS
  <1> USE DEF IInv, Claim, blockVars, chainVars
  <1>1. TypeOK'
    BY DEF TypeOK
  <1>2. Created'
    BY DEF Created, TypeOK, NoBlock
  <1>3. NonceSolvesItsBlock' /\ OwnChain' /\ SentOnce' /\ NoSelfFork'
    BY DEF NonceSolvesItsBlock, OwnChain, SentOnce, NoSelfFork
  <1> QED
    BY <1>1, <1>2, <1>3

LEMMA SubmitStep == IInv /\ Submit => IInv'
  <1> SUFFICES ASSUME IInv, Submit PROVE IInv'
    OBVIOUS
  <1> USE DEF IInv, Submit, blockVars, chainVars
  <1>1. block = made /\ made \in Blocks /\ sent[made] = Unsent
    BY DEF Created, TypeOK, Blocks, SentOnce
  <1>2. tip' \in {tip, made}
    BY <1>1 DEF AcceptOwn
  <1>3. TypeOK'
    BY <1>1, <1>2 DEF TypeOK, Blocks
  <1>4. Created'
    BY <1>1 DEF Created, TypeOK
  <1>5. NonceSolvesItsBlock' /\ SentOnce'
    BY DEF NonceSolvesItsBlock, SentOnce
  <1>6. OwnChain'
    <2> SUFFICES ASSUME peerBlocks = 0
                 PROVE  sent'[made] # Unsent /\ (sent'[made] \in wins[made] => tip' = made)
      BY DEF OwnChain
    <2>1. prev[made] = tip
      BY <1>1 DEF OwnChain, Blocks
    <2>2. sent'[made] = nonce[made] /\ nonce[made] \in Nonce
      BY <1>1 DEF TypeOK
    <2> QED
      BY <1>1, <2>1, <2>2, MinerAssumption DEF AcceptOwn, Nonce, Unsent
  <1>7. NoSelfFork'
    <2> SUFFICES ASSUME NEW b \in Blocks, NEW c \in Blocks, c = b + 1, c <= made,
                        sent'[b] \in wins[b], peerBlocks = 0
                 PROVE  prev[c] = b
      BY DEF NoSelfFork
    <2>1. b # made
      BY <1>1 DEF Blocks
    <2> QED
      BY <1>1, <2>1 DEF NoSelfFork, TypeOK
  <1> QED
    BY <1>3, <1>4, <1>5, <1>6, <1>7

LEMMA CreateStep == IInv /\ Create => IInv'
  <1> SUFFICES ASSUME IInv, Create PROVE IInv'
    OBVIOUS
  <1> DEFINE n == made + 1
  <1> USE DEF IInv, Create, blockVars, chainVars
  <1>1. n \in Blocks /\ made \in Nat
    BY MinerAssumption DEF Blocks, TypeOK
  <1>2. PICK w \in WinSets : wins' = [wins EXCEPT ![n] = w]
    OBVIOUS
  <1>3. w \in SUBSET Nonce
    BY MinerAssumption DEF Nonce
  <1>4. nonce[n] = 0 /\ sent[n] = Unsent
    BY <1>1 DEF Created, TypeOK, Blocks
  <1>5. TypeOK'
    <2>1. made' \in 0 .. MaxBlocks /\ block' \in Blocks \cup {NoBlock} /\ 0 \in Nonce
      BY <1>1, MinerAssumption DEF Blocks, Nonce
    <2>2. wins' \in [Blocks -> SUBSET Nonce]
      BY <1>2, <1>3 DEF TypeOK
    <2>3. prev' \in [Blocks -> Int]
      BY DEF TypeOK
    <2> QED
      BY <2>1, <2>2, <2>3 DEF TypeOK
  <1>6. Created'
    <2>1. \A i \in 1 .. Len(results') : results'[i].block <= made'
      <3> SUFFICES ASSUME NEW i \in 1 .. Len(results) PROVE results[i].block <= n
        OBVIOUS
      <3>1. results[i].block \in Nat
        <4>1. results \in Seq(Result)
          BY DEF TypeOK, Result
        <4>2. results[i] \in Result
          BY <4>1
        <4> QED
          BY <4>2 DEF Result, Blocks
      <3>2. results[i].block <= made
        BY DEF Created
      <3> QED
        BY <1>1, <3>1, <3>2
    <2>2. \A b \in Blocks : b > made' => nonce'[b] = 0 /\ sent'[b] = Unsent
      BY <1>1 DEF Created, Blocks
    <2>3. block' = made' /\ made' > 0 /\ pc' = "kernel"
      BY <1>1
    <2> QED
      BY <2>1, <2>2, <2>3 DEF Created
  <1>7. NonceSolvesItsBlock'
    BY <1>1, <1>2, <1>4 DEF NonceSolvesItsBlock, TypeOK
  <1>8. OwnChain'
    BY <1>1, <1>2, <1>3, <1>4, MinerAssumption DEF OwnChain, TypeOK, Nonce, Unsent
  <1>9. SentOnce'
    BY <1>1, <1>4 DEF SentOnce
  <1>10. NoSelfFork'
    <2> SUFFICES ASSUME NEW b \in Blocks, NEW c \in Blocks, c = b + 1, c <= n,
                        sent[b] \in wins'[b], peerBlocks = 0
                 PROVE  prev'[c] = b
      BY DEF NoSelfFork
    <2>1. CASE c <= made
      BY <1>1, <1>2, <2>1 DEF NoSelfFork, TypeOK, Blocks
    <2>2. CASE c = n
      <3>1. b = made
        BY <1>1, <2>2 DEF Blocks
      <3>2. tip = made
        BY <1>1, <1>2, <3>1 DEF OwnChain, TypeOK, Blocks
      <3> QED
        BY <1>1, <2>2, <3>1, <3>2 DEF TypeOK
    <2> QED
      BY <1>1, <2>1, <2>2 DEF Blocks
  <1> QED
    BY <1>5, <1>6, <1>7, <1>8, <1>9, <1>10

LEMMA KernelStep == IInv /\ Kernel => IInv'
  <1> SUFFICES ASSUME IInv, Kernel PROVE IInv'
    OBVIOUS
  <1> USE DEF IInv, Kernel, blockVars, chainVars
  <1>1. block = made /\ made \in Blocks
    BY DEF Created, TypeOK, Blocks
  <1>2. nonceOffset' \in Nonce
    <2>1. nonceOffset + ThreadCount \in Nat
      BY MinerAssumption DEF TypeOK, Nonce
    <2> QED
      BY <2>1, NonceInRange DEF Advance
  <1>3. results \in Seq(Result) /\ [block |-> block, offset |-> nonceOffset] \in Result
    BY <1>1 DEF TypeOK, Result
  <1>4. results' \in Seq(Result)
    BY <1>3
  <1>5. TypeOK'
    BY <1>2, <1>4 DEF TypeOK, Result
  <1>6. \A i \in 1 .. Len(results') : results'[i].block <= made
    BY <1>1, <1>3 DEF Created, Blocks, Result
  <1>7. Created'
    BY <1>1, <1>6 DEF Created, Blocks
  <1>8. NonceSolvesItsBlock' /\ OwnChain' /\ SentOnce' /\ NoSelfFork'
    BY DEF NonceSolvesItsBlock, OwnChain, SentOnce, NoSelfFork
  <1> QED
    BY <1>5, <1>7, <1>8

LEMMA CheckStep == IInv /\ (CheckNothing \/ CheckFound) => IInv'
  <1> SUFFICES ASSUME IInv, CheckNothing \/ CheckFound PROVE IInv'
    OBVIOUS
  <1> USE DEF IInv, CheckNothing, CheckFound, blockVars, chainVars
  <1>1. /\ Head(results) \in Result
        /\ Head(results).block \in Blocks /\ Head(results).block <= made
        /\ results' \in Seq(Result)
        /\ \A j \in 1 .. Len(results') : results'[j].block <= made
    BY HeadOfResults
  <1>2. /\ nonce' \in [Blocks -> Nonce]
        /\ \A b \in Blocks : \/ nonce'[b] = nonce[b]
                             \/ b <= made /\ nonce'[b] \in wins[b]
    <2>1. CASE CheckNothing
      BY <2>1 DEF TypeOK
    <2>2. CASE CheckFound
      <3>1. PICK i \in Hits(Head(results)) :
                nonce' = [nonce EXCEPT ![Head(results).block] = NonceAt(Head(results), i)]
        BY <2>2
      <3>2. NonceAt(Head(results), i) \in wins[Head(results).block]
        BY DEF Hits
      <3>3. NonceAt(Head(results), i) \in Nonce
        BY <1>1, <3>2 DEF TypeOK
      <3> QED
        BY <1>1, <3>1, <3>2, <3>3 DEF TypeOK
    <2> QED
      BY <2>1, <2>2
  <1>3. TypeOK'
    BY <1>1, <1>2 DEF TypeOK, Result
  <1>4. Created'
    <2>1. \A b \in Blocks : b > made => nonce'[b] = nonce[b]
      BY <1>2 DEF TypeOK, Blocks
    <2>2. /\ block' = block /\ made' = made /\ pc' = pc /\ runState' = runState
          /\ sent' = sent
      OBVIOUS
    <2> QED
      BY <1>1, <2>1, <2>2 DEF Created
  <1>5. NonceSolvesItsBlock'
    BY <1>2 DEF NonceSolvesItsBlock
  <1>6. OwnChain' /\ SentOnce' /\ NoSelfFork'
    BY DEF OwnChain, SentOnce, NoSelfFork
  <1> QED
    BY <1>3, <1>4, <1>5, <1>6

LEMMA ResetStep == IInv /\ (Reset \/ Stop) => IInv'
  <1> SUFFICES ASSUME IInv, Reset \/ Stop PROVE IInv'
    OBVIOUS
  <1> USE DEF IInv, Reset, Stop, blockVars, chainVars
  <1>1. TypeOK'
    BY DEF TypeOK
  <1>2. Created'
    BY DEF Created, TypeOK
  <1>3. NonceSolvesItsBlock' /\ OwnChain' /\ SentOnce' /\ NoSelfFork'
    BY DEF NonceSolvesItsBlock, OwnChain, SentOnce, NoSelfFork
  <1> QED
    BY <1>1, <1>2, <1>3

LEMMA PeerStep == IInv /\ PeerBlock => IInv'
  <1> SUFFICES ASSUME IInv, PeerBlock PROVE IInv'
    OBVIOUS
  <1> USE DEF IInv, PeerBlock, blockVars
  <1>1. TypeOK' /\ peerBlocks' # 0
    BY DEF TypeOK
  <1>2. Created'
    BY DEF Created, TypeOK
  <1>3. NonceSolvesItsBlock' /\ SentOnce'
    BY DEF NonceSolvesItsBlock, SentOnce
  <1>4. OwnChain' /\ NoSelfFork'
    BY <1>1 DEF OwnChain, NoSelfFork
  <1> QED
    BY <1>1, <1>2, <1>3, <1>4
-----------------------------------------------------------------------------
(* The theorems *)

\* The inductive invariant holds in every reachable state.
THEOREM Invariance == Spec => []IInv
  <1>1. Init => IInv
    <2> SUFFICES ASSUME Init PROVE IInv
      OBVIOUS
    <2> USE DEF Init
    <2>1. TypeOK
      BY MinerAssumption DEF TypeOK, Nonce, Blocks, NoBlock
    <2>2. Created
      BY DEF Created, NoBlock
    <2>3. NonceSolvesItsBlock /\ OwnChain /\ SentOnce
      BY DEF NonceSolvesItsBlock, OwnChain, SentOnce
    <2>4. NoSelfFork
      BY DEF NoSelfFork, Blocks
    <2> QED
      BY <2>1, <2>2, <2>3, <2>4 DEF IInv
  <1>2. IInv /\ [Next]_vars => IInv'
    <2>1. IInv /\ UNCHANGED vars => IInv'
      BY DEF vars, IInv, TypeOK, Created, NonceSolvesItsBlock, OwnChain, SentOnce,
         NoSelfFork
    <2> QED
      BY <2>1, SwitchStep, ClaimStep, SubmitStep, CreateStep, KernelStep, CheckStep,
         ResetStep, PeerStep DEF Next, MinerStep, CheckerStep
  <1> QED
    BY <1>1, <1>2, PTL DEF Spec

\* The offset stays a nonce however far the search goes, a nonce written to a block
\* solves that block, and the mining loop never forks itself.
THEOREM MiningCorrect == Spec => []MiningSound
  BY Invariance, PTL DEF IInv, MiningSound
=============================================================================
