---------------------------- MODULE BlockCheck ----------------------------
(***************************************************************************)
(* CheckBlock on blocks that extend the active chain: the transactions,    *)
(* the Merkle root, the difficulty the chain asks for and the proof of     *)
(* work.  A chain is the times and difficulties of its blocks.  A hash of  *)
(* two hashes is the pair of them, so that no two inputs collide.  The     *)
(* code is built for one network; net holds the switches it declares for   *)
(* the others.                                                             *)
(***************************************************************************)
EXTENDS ArithUint256, Sequences, Functions, FiniteSetsExt

CONSTANTS
    Networks,     \* records [powLimit, minDifficulty, noRetargeting, genesisBits]
    Candidate,    \* by height, blocks received: [vtx, coinbases, sound, root, time, bits, hash]
    OtherBits,    \* difficulties a block may have besides the right one
    Interval,     \* DifficultyAdjustmentInterval(), 2016
    Spacing,      \* s_PowTargetSpacing
    MaxHeight     \* bound on the height of the chain

ASSUME ChainAssumption ==
    /\ Interval \in Nat \ {0} /\ Spacing \in Nat \ {0} /\ MaxHeight \in Nat
    /\ \A n \in Networks : n.powLimit \in Number
    /\ \A h \in 1..MaxHeight : \A c \in Candidate[h] :
          /\ c = [vtx |-> c.vtx, coinbases |-> c.coinbases, sound |-> c.sound, root |-> c.root,
                  time |-> c.time, bits |-> c.bits, hash |-> c.hash]
          /\ c.time \in Nat

VARIABLES
    net,      \* the network the program is built for
    chain,    \* the active chain, the genesis block first: <<[time, bits], ...>>
    pc,       \* where CheckBlock is
    block,    \* its argument
    txHashes  \* the level ComputeMerkleRoot is at

blockVars == <<net, chain, pc, block, txHashes>>

Timespan == Interval * Spacing
Tip == chain[Len(chain)]
None == [vtx |-> <<>>]

-----------------------------------------------------------------------------
(* The Merkle root *)

PairHash(l, r) == <<l, r>>

\* An odd level gets a copy of its last hash.
EvenLevel(h) == IF Len(h) % 2 = 1 THEN Append(h, h[Len(h)]) ELSE h

\* A level is hashed in place: the output is written over inputs already read.
MerkleLevel(h) ==
    LET p == EvenLevel(h)
        done[n \in 0..Len(p) \div 2] ==
            IF n = 0 THEN p
            ELSE LET d == done[n - 1] IN [d EXCEPT ![n] = PairHash(d[2 * n - 1], d[2 * n])]
    IN  SubSeq(done[Len(p) \div 2], 1, Len(p) \div 2)

-----------------------------------------------------------------------------
(* The difficulty *)

\* The first block back from the tip that is the genesis block or not at the limit.
RealBlock ==
    CHOOSE i \in 1..Len(chain) :
        /\ i = 1 \/ chain[i].bits # GetCompact(net.powLimit)
        /\ \A j \in i + 1..Len(chain) : chain[j].bits = GetCompact(net.powLimit)

\* Mutated form: the lower limit of the step is half as high.
LimitedByEight(t) ==
    IF t >= 0 /\ t < Timespan \div 8 THEN Timespan \div 8
    ELSE IF t < 0 \/ t > Timespan * 4 THEN Timespan * 4
    ELSE t

\* The comparisons are of unsigned numbers: a negative time span is a large one.
Limited(t) ==
    IF t >= 0 /\ t < Timespan \div 4 THEN Timespan \div 4
    ELSE IF t < 0 \/ t > Timespan * 4 THEN Timespan * 4
    ELSE t

CalculateNextWorkRequired(firstTime) ==
    IF net.noRetargeting THEN Tip.bits
    ELSE LET new == Div(MulWord(SetCompact(Tip.bits).target, Limited(Tip.time - firstTime)), FromWord(Timespan))
         IN  GetCompact(IF Less(net.powLimit, new) THEN net.powLimit ELSE new)

GetNextWorkRequired(time) ==
    IF Len(chain) % Interval # 0
    THEN IF net.minDifficulty
         THEN IF time > Tip.time + Spacing * 2
              THEN GetCompact(net.powLimit)
              ELSE chain[RealBlock].bits
         ELSE Tip.bits
    ELSE CalculateNextWorkRequired(chain[Len(chain) - (Interval - 1)].time)

\* Mutated form: a hash equal to the target is refused.
CheckProofOfWorkStrict(hash, bits) ==
    LET c == SetCompact(bits)
    IN  /\ ~c.negative /\ ~c.overflow /\ c.target # FromWord(0)
        /\ ~Less(net.powLimit, c.target)
        /\ Less(hash, c.target)

CheckProofOfWork(hash, bits) ==
    LET c == SetCompact(bits)
    IN  /\ ~c.negative /\ ~c.overflow /\ c.target # FromWord(0)
        /\ ~Less(net.powLimit, c.target)
        /\ ~Less(c.target, hash)

-----------------------------------------------------------------------------
(* CheckBlock *)

BlockInit ==
    /\ net \in Networks
    /\ chain = <<[time |-> 0, bits |-> net.genesisBits]>>
    /\ pc = "idle" /\ block = None /\ txHashes = <<>>

\* A block comes whose parent is the tip; its difficulty is the right one or another.
Receive ==
    /\ pc = "idle" /\ Len(chain) <= MaxHeight
    /\ \E c \in Candidate[Len(chain)] : \E bits \in OtherBits \cup {GetNextWorkRequired(c.time)} :
          block' = [c EXCEPT !.bits = bits]
    /\ pc' = "txs"
    /\ UNCHANGED <<net, chain, txHashes>>

\* The loop over the transactions.  sound: the limits on weight, inputs and signatures.
TxsPass(b) ==
    /\ b.vtx # <<>> /\ b.sound
    /\ IsInjective(b.vtx)
    /\ b.coinbases = {1}

\* Mutated form: a transaction may be there twice.
CheckTxsTwice ==
    /\ pc = "txs"
    /\ IF block.vtx # <<>> /\ block.sound /\ block.coinbases = {1}
       THEN pc' = "merkle" /\ txHashes' = [i \in DOMAIN block.vtx |-> <<block.vtx[i]>>]
       ELSE pc' = "failed" /\ UNCHANGED txHashes
    /\ UNCHANGED <<net, chain, block>>

CheckTxs ==
    /\ pc = "txs"
    /\ IF TxsPass(block)
       THEN pc' = "merkle" /\ txHashes' = [i \in DOMAIN block.vtx |-> <<block.vtx[i]>>]
       ELSE pc' = "failed" /\ UNCHANGED txHashes
    /\ UNCHANGED <<net, chain, block>>

\* One turn of the loop of ComputeMerkleRoot.
HashLevel ==
    /\ pc = "merkle" /\ Len(txHashes) > 1
    /\ txHashes' = MerkleLevel(txHashes)
    /\ UNCHANGED <<net, chain, pc, block>>

\* The root, then the difficulty, then the work.
CheckHeader ==
    /\ pc = "merkle" /\ Len(txHashes) = 1
    /\ pc' = IF /\ block.root = txHashes[1]
                /\ block.bits = GetNextWorkRequired(block.time)
                /\ CheckProofOfWork(block.hash, block.bits)
             THEN "passed" ELSE "failed"
    /\ UNCHANGED <<net, chain, block, txHashes>>

\* AcceptBlock saves a block that passed and makes it the tip.
Save ==
    /\ pc = "passed"
    /\ chain' = Append(chain, [time |-> block.time, bits |-> block.bits])
    /\ pc' = "idle" /\ block' = None /\ txHashes' = <<>>
    /\ UNCHANGED net

\* AcceptBlock returns: the block failed here, or CheckTransactions refuses its transactions.
Refuse ==
    /\ pc \in {"passed", "failed"}
    /\ pc' = "idle" /\ block' = None /\ txHashes' = <<>>
    /\ UNCHANGED <<net, chain>>

BlockNext == Receive \/ CheckTxs \/ HashLevel \/ CheckHeader \/ Save \/ Refuse

BlockSpec == BlockInit /\ [][BlockNext]_blockVars

-----------------------------------------------------------------------------
(* What a block promises, on integers and trees *)

ValueOf(a) == MapThenSumSet(LAMBDA i : a[i] * Limb^i, Limbs)

\* The node at height h over position i of the tree; a missing right child is the left one.
MerkleTree(s) ==
    LET levels == CHOOSE d \in 0..Len(s) : 2^d >= Len(s) /\ (d = 0 \/ 2^(d - 1) < Len(s))
        node[h \in 0..levels, i \in 0..Len(s) - 1] ==
            IF h = 0 THEN <<s[i + 1]>>
            ELSE PairHash(node[h - 1, 2 * i],
                        node[h - 1, IF (2 * i + 1) * 2^(h - 1) < Len(s) THEN 2 * i + 1 ELSE 2 * i])
    IN  node[levels, 0]

\* The largest number with a mantissa below the sign bit that is not above n.
Truncated(n) ==
    LET e == Min({k \in 0..NumberBytes : n \div ByteSize^k < SignBit})
    IN  (n \div ByteSize^e) * ByteSize^e

TargetOf(bits) == ValueOf(SetCompact(bits).target)

Retargets == Len(chain) % Interval = 0

\* The target the chain asks of its next block.
RequiredTarget(time) ==
    LET limit == Truncated(ValueOf(net.powLimit))
        old   == TargetOf(Tip.bits)
        span  == Limited(Tip.time - chain[Len(chain) - (Interval - 1)].time)
        below == {i \in 1..Len(chain) : TargetOf(chain[i].bits) # limit}
    IN  IF Retargets
        THEN IF net.noRetargeting THEN old
             ELSE Truncated(Min({(old * span) \div Timespan, ValueOf(net.powLimit)}))
        ELSE IF ~net.minDifficulty THEN old
        ELSE IF time > Tip.time + 2 * Spacing \/ below = {} THEN limit
        ELSE TargetOf(chain[Max(below)].bits)

-----------------------------------------------------------------------------
(* Properties *)

\* The states of a check: a chain of blocks, and a level of hashes to take the root
\* of whenever ComputeMerkleRoot reads the first one.
BlockTypeOK ==
    /\ net \in Networks
    /\ Len(chain) \in 1..MaxHeight + 1
    /\ pc \in {"idle", "txs", "merkle", "passed", "failed"}
    /\ pc \in {"merkle", "passed"} => Len(txHashes) >= 1
    /\ pc = "idle" <=> block = None

\* A block that CheckBlock passes is the only list of different transactions with its
\* Merkle root: the copy that ComputeMerkleRoot adds to an odd level, which its
\* mutated flag never reports, cannot stand for a transaction of the block.
RootIdentifiesTxs ==
    pc = "passed" =>
        \A c \in Candidate[Len(chain)] :
            (c.vtx # <<>> /\ IsInjective(c.vtx) /\ MerkleTree(c.vtx) = block.root) => c.vtx = block.vtx

\* The target of a block that passes is the one integer arithmetic gives for its
\* place in the chain, rounded down as the compact form is, and its hash is not above
\* it: no carry, shift or rounding of the limbs shows in GetNextWorkRequired.
TargetIsExact ==
    pc = "passed" =>
        /\ TargetOf(block.bits) = RequiredTarget(block.time)
        /\ ValueOf(block.hash) <= RequiredTarget(block.time)

\* CheckBlock fails no block that has good transactions, their Merkle tree's root, the
\* difficulty asked of it and a hash within its target.  So the difficulty asked can
\* always be met: it is never zero, negative, or out of range.
GoodBlockPasses ==
    pc = "failed" =>
        ~ /\ TxsPass(block)
          /\ block.root = MerkleTree(block.vtx)
          /\ block.bits = GetNextWorkRequired(block.time)
          /\ ValueOf(block.hash) <= RequiredTarget(block.time)

\* A retarget changes the target by at most the factor CalculateNextWorkRequired limits
\* it to, whatever the times of the blocks are.
RetargetIsLimited ==
    (pc = "passed" /\ Retargets /\ ~net.noRetargeting) =>
        LET old == TargetOf(Tip.bits)
            new == TargetOf(block.bits)
        IN  /\ new <= 4 * old
            /\ new >= Truncated((old * (Timespan \div 4)) \div Timespan)

Regtest == net.noRetargeting /\ net.genesisBits = GetCompact(net.powLimit)

\* On the network of the build, without retargeting and with a genesis block at the
\* limit, every block has the difficulty of the limit, whatever its time and height.
RegtestStaysAtLimit ==
    Regtest =>
        \A i \in DOMAIN chain : chain[i].bits = GetCompact(net.powLimit)

\* GetCompact then SetCompact rounds down to the mantissa's precision: no number
\* becomes negative, overflows or grows.  Checked of the hashes of the blocks.
CompactRoundsDown ==
    block # None =>
        LET c == SetCompact(GetCompact(block.hash))
        IN  /\ ~c.negative /\ ~c.overflow
            /\ ValueOf(c.target) = Truncated(ValueOf(block.hash))

\* The difficulty of every block that passes is exact, and the compact form of a
\* number only rounds it down.
TargetsAreExact == BlockTypeOK /\ TargetIsExact /\ CompactRoundsDown

\* Retargeting is limited, and without it the difficulty stays where it was.
RetargetIsSound == RetargetIsLimited /\ RegtestStaysAtLimit
=============================================================================
