------------------------------ MODULE GpuMiner ------------------------------
(***************************************************************************)
(* The mining loop (BTC_SHA256_GPU::SyncStart, run by Miner::StartGPU), the *)
(* thread that looks through its results (CheckResults), and the two that  *)
(* interfere: peers whose blocks move the active tip, and Stop.            *)
(*                                                                         *)
(* A block is a number, given out in the order of creation.  Which of its  *)
(* nonces hash below the target is chosen when it is created.  Nonces are  *)
(* unsigned integers of the width that NonceSpace gives them.              *)
(***************************************************************************)
EXTENDS Integers, Sequences

CONSTANTS
    NonceSpace,     \* 2^32 in the code
    ThreadCount,    \* hashes per run of the kernel
    WinSets,        \* the sets of winning nonces a block may have
    MaxBlocks,      \* bound on blocks created
    MaxResults,     \* bound on results waiting for the checking thread
    MaxPeerBlocks,  \* bound on blocks received from peers
    MaxStops        \* bound on calls of Stop

ASSUME MinerAssumption ==
    /\ NonceSpace \in Nat \ {0}
    /\ ThreadCount \in 1 .. NonceSpace
    /\ WinSets \subseteq SUBSET (0 .. NonceSpace - 1)
    /\ MaxBlocks \in Nat

Nonce   == 0 .. NonceSpace - 1
Blocks  == 1 .. MaxBlocks
NoBlock == 0
Unsent  == -1

VARIABLES
    runState,       \* _runState, an atomic
    pc,             \* where the mining loop is
    block,          \* its block, or NoBlock
    nonceOffset,    \* first nonce of the next run of the kernel
    results,        \* CheckResults posted and not yet run: block and offset
    checker,        \* "reset" between the two writes of a CheckResults
    made,           \* blocks created so far
    nonce,          \* Block::_nNonce
    wins,           \* nonces of a block that hash below the target
    prev,           \* Block::_hashPrevBlock
    sent,           \* the nonce a block was submitted with, or Unsent
    tip,            \* the active tip: a block, 0, or minus a peer's block
    tipPrev,        \* its parent
    peerBlocks,     \* blocks received from peers
    stops           \* calls of Stop

blockVars == <<made, nonce, wins, prev>>
chainVars == <<tip, tipPrev, peerBlocks>>
vars == <<runState, pc, block, nonceOffset, results, checker, made, nonce, wins,
          prev, sent, tip, tipPrev, peerBlocks, stops>>

Init ==
    /\ runState    = "RESTERT"
    /\ pc          = "switch"
    /\ block       = NoBlock
    /\ nonceOffset = 0
    /\ results     = <<>>
    /\ checker     = "idle"
    /\ made        = 0
    /\ nonce       = [b \in Blocks |-> 0]
    /\ wins        = [b \in Blocks |-> {}]
    /\ prev        = [b \in Blocks |-> 0]
    /\ sent        = [b \in Blocks |-> Unsent]
    /\ tip         = 0
    /\ tipPrev     = 0
    /\ peerBlocks  = 0
    /\ stops       = 0
-----------------------------------------------------------------------------
(* The mining loop *)

\* The switch reads the state.
Switch ==
    /\ pc = "switch"
    /\ pc' = CASE runState = "RESTERT" -> "claim"
               [] runState = "STOP"    -> "returned"
               [] OTHER                -> "kernel"
    /\ UNCHANGED <<runState, block, nonceOffset, results, checker, blockVars, sent,
                   chainVars, stops>>

\* Mutated form: the found block is dropped.
ClaimDrops ==
    /\ pc = "claim"
    /\ runState' = "RUNING"
    /\ pc' = "create"
    /\ UNCHANGED <<block, nonceOffset, results, checker, blockVars, sent, chainVars,
                   stops>>

\* The case RESTERT first stores RUNING.
Claim ==
    /\ pc = "claim"
    /\ runState' = "RUNING"
    /\ pc' = IF block = NoBlock THEN "create" ELSE "submit"
    /\ UNCHANGED <<block, nonceOffset, results, checker, blockVars, sent, chainVars,
                   stops>>

\* AcceptBlock of an own block: it needs a nonce that solves it.  On the active
\* tip it becomes the new tip; beside the active tip, at the same height, it
\* does if its hash is smaller; further back it does not.
AcceptOwn(b) ==
    IF nonce[b] \notin wins[b] THEN {tip}
    ELSE IF prev[b] = tip THEN {b}
    ELSE IF prev[b] = tipPrev THEN {tip, b}
    ELSE {tip}

\* Mutated form: the block is submitted with the offset the search has reached.
SubmitOffset ==
    /\ pc = "submit"
    /\ sent' = [sent EXCEPT ![block] = nonceOffset]
    /\ tip' \in AcceptOwn(block)
    /\ tipPrev' = IF tip' = tip THEN tipPrev ELSE prev[block]
    /\ pc' = "create"
    /\ UNCHANGED <<runState, block, nonceOffset, results, checker, blockVars,
                   peerBlocks, stops>>

\* The callback for a found block.
Submit ==
    /\ pc = "submit"
    /\ sent' = [sent EXCEPT ![block] = nonce[block]]
    /\ tip' \in AcceptOwn(block)
    /\ tipPrev' = IF tip' = tip THEN tipPrev ELSE prev[block]
    /\ pc' = "create"
    /\ UNCHANGED <<runState, block, nonceOffset, results, checker, blockVars,
                   peerBlocks, stops>>

\* The callback for a new block (CreateNewBlock), and the reset of the offset.
Create ==
    /\ pc = "create"
    /\ made < MaxBlocks
    /\ made' = made + 1
    /\ block' = made + 1
    /\ prev' = [prev EXCEPT ![made + 1] = tip]
    /\ \E w \in WinSets : wins' = [wins EXCEPT ![made + 1] = w]
    /\ nonceOffset' = 0
    /\ pc' = "kernel"
    /\ UNCHANGED <<runState, results, checker, nonce, sent, chainVars, stops>>

\* The kernel runs, its output is posted, and the offset moves on.  The sum is
\* computed in the width of the offset, so the test for an overflow that
\* follows it never succeeds.
Advance(o) == (o + ThreadCount) % NonceSpace

Kernel ==
    /\ pc = "kernel"
    /\ Len(results) < MaxResults
    /\ results' = Append(results, [block |-> block, offset |-> nonceOffset])
    /\ nonceOffset' = Advance(nonceOffset)
    /\ pc' = "switch"
    /\ UNCHANGED <<runState, block, checker, blockVars, sent, chainVars, stops>>
-----------------------------------------------------------------------------
(* The thread that checks the results *)

\* The nonce of the i-th hash of a result.
NonceAt(r, i) == (r.offset + i) % NonceSpace

Hits(r) == {i \in 0 .. ThreadCount - 1 : NonceAt(r, i) \in wins[r.block]}

CheckNothing ==
    /\ checker = "idle"
    /\ results # <<>>
    /\ Hits(Head(results)) = {}
    /\ results' = Tail(results)
    /\ UNCHANGED <<runState, pc, block, nonceOffset, checker, blockVars, sent,
                   chainVars, stops>>

\* Mutated form: the nonce goes to the block being mined.
CheckFoundCurrent ==
    /\ checker = "idle"
    /\ results # <<>>
    /\ LET r == Head(results) IN
          \E i \in Hits(r) :
              /\ \A j \in Hits(r) : i <= j
              /\ nonce' = [nonce EXCEPT ![block] = NonceAt(r, i)]
    /\ results' = Tail(results)
    /\ checker' = "reset"
    /\ UNCHANGED <<runState, pc, block, nonceOffset, made, wins, prev, sent,
                   chainVars, stops>>

\* The first hash below the target counts; its nonce goes to the block that
\* was captured with the result.
CheckFound ==
    /\ checker = "idle"
    /\ results # <<>>
    /\ LET r == Head(results) IN
          \E i \in Hits(r) :
              /\ \A j \in Hits(r) : i <= j
              /\ nonce' = [nonce EXCEPT ![r.block] = NonceAt(r, i)]
    /\ results' = Tail(results)
    /\ checker' = "reset"
    /\ UNCHANGED <<runState, pc, block, nonceOffset, made, wins, prev, sent,
                   chainVars, stops>>

Reset ==
    /\ checker = "reset"
    /\ runState' = "RESTERT"
    /\ checker' = "idle"
    /\ UNCHANGED <<pc, block, nonceOffset, results, blockVars, sent, chainVars, stops>>
-----------------------------------------------------------------------------
(* The others *)

\* A peer's block on the active tip is accepted.  AcceptBlock resets the miner
\* only when its argument isLocalMining is set, which no caller does.
PeerBlock ==
    /\ peerBlocks < MaxPeerBlocks
    /\ peerBlocks' = peerBlocks + 1
    /\ tip' = -(peerBlocks + 1)
    /\ tipPrev' = tip
    /\ UNCHANGED <<runState, pc, block, nonceOffset, results, checker, blockVars,
                   sent, stops>>

Stop ==
    /\ stops < MaxStops
    /\ stops' = stops + 1
    /\ runState' = "STOP"
    /\ UNCHANGED <<pc, block, nonceOffset, results, checker, blockVars, sent,
                   chainVars>>
-----------------------------------------------------------------------------
MinerStep   == Switch \/ Claim \/ Submit \/ Create \/ Kernel
CheckerStep == CheckNothing \/ CheckFound \/ Reset

Next == MinerStep \/ CheckerStep \/ PeerBlock \/ Stop

Spec == Init /\ [][Next]_vars

\* Both threads keep running.
FairSpec == Spec /\ WF_vars(MinerStep) /\ WF_vars(CheckerStep)
-----------------------------------------------------------------------------
(* Properties *)

\* Every variable keeps its type.
TypeOK ==
    /\ runState \in {"RUNING", "RESTERT", "STOP"}
    /\ pc \in {"switch", "claim", "submit", "create", "kernel", "returned"}
    /\ block \in Blocks \cup {NoBlock}
    /\ nonceOffset \in Nonce
    /\ results \in Seq([block : Blocks, offset : Nonce])
    /\ checker \in {"idle", "reset"}
    /\ made \in 0 .. MaxBlocks
    /\ nonce \in [Blocks -> Nonce]
    /\ wins \in [Blocks -> SUBSET Nonce]
    /\ prev \in [Blocks -> Int]
    /\ sent \in [Blocks -> Nonce \cup {Unsent}]
    /\ tip \in Int
    /\ tipPrev \in Int
    /\ peerBlocks \in Nat
    /\ stops \in Nat

\* A nonce that CheckResults writes to a block solves that block, however late
\* the result is looked at and whatever block is being mined by then.
NonceSolvesItsBlock == \A b \in Blocks : nonce[b] # 0 => nonce[b] \in wins[b]

\* Once a solution has been written to the block being mined, that block is
\* submitted with a solution, unless Stop is called: the two threads lose no block (the order of the
\* two writes of CheckResults, and of the reads of the loop).
FoundIsSubmitted ==
    \A b \in Blocks :
        (block = b /\ sent[b] = Unsent /\ nonce[b] # 0)
            ~> (sent[b] \in wins[b] \/ stops > 0)

\* A block that has a solution is submitted in the end, unless Stop is called.
SolvableIsSubmitted ==
    \A b \in Blocks : (block = b /\ wins[b] # {}) ~> (sent[b] # Unsent \/ stops > 0)

\* A block is created on the tip that the submission of the one before it left,
\* unless a peer's block came in between: the loop never forks itself.
NoSelfFork ==
    \A b, c \in Blocks :
        (c = b + 1 /\ c <= made /\ sent[b] \in wins[b] /\ peerBlocks = 0) => prev[c] = b

\* What the miner hands in is its own: the variables keep their types, a nonce that
\* was found solves the block it is written to, and the loop never forks its own chain.
MiningSound == TypeOK /\ NonceSolvesItsBlock /\ NoSelfFork
=============================================================================
