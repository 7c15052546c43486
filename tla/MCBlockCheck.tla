--------------------------- MODULE MCBlockCheck ---------------------------
(***************************************************************************)
(* An instance of BlockCheck with numbers of four limbs of four bits and   *)
(* bytes of two bits, and a retarget with every second block.                  *)
(***************************************************************************)
EXTENDS BlockCheck

NumberOf(n) == [i \in Limbs |-> (n \div Limb^i) % Limb]

Network(limit, minDifficulty, noRetargeting) ==
    [powLimit |-> NumberOf(limit), genesisBits |-> GetCompact(NumberOf(limit)),
     minDifficulty |-> minDifficulty, noRetargeting |-> noRetargeting]

\* The network of the build, and the ones its switches are there for.
AllNetworks == {Network(32767, TRUE, TRUE), Network(255, TRUE, FALSE), Network(255, FALSE, FALSE)}

\* Up to seven transactions, in and out of order, and lists with the copies of a tree.
TxLists ==
    {<<>>} \cup {[i \in 1..n |-> i] : n \in 1..7}
    \cup {<<1, 3, 2>>, <<1, 2, 2>>, <<1, 2, 3, 3>>, <<1, 2, 3, 4, 5, 5>>, <<1, 2, 3, 4, 5, 6, 5, 6>>}

Roots == {MerkleTree(l) : l \in TxLists \ {<<>>}}

Received(vtx, root, time, hash) ==
    [vtx |-> vtx, coinbases |-> {1} \cap DOMAIN vtx, sound |-> TRUE,
     root |-> root, time |-> time, bits |-> 0, hash |-> NumberOf(hash)]

TxCandidates ==
    {Received(l, r, 0, 0) : l \in TxLists, r \in Roots}
    \cup {[Received(<<1, 2>>, MerkleTree(<<1, 2>>), 0, 0) EXCEPT !.coinbases = s] : s \in {{}, {2}, {1, 2}}}
    \cup {[Received(<<1, 2>>, MerkleTree(<<1, 2>>), 0, 0) EXCEPT !.sound = FALSE]}

HashCandidates ==
    {Received(<<1>>, MerkleTree(<<1>>), 0, h) :
        h \in 0..260 \cup {n \in 0..65535 : n % 211 = 0} \cup 31740..31750 \cup {32767, 32768, 65535}}

TimeCandidates ==
    {Received(<<1>>, MerkleTree(<<1>>), t, h) : t \in {0, 5, 40}, h \in {0, 40}}

\* Transactions and hashes vary in the first block, times in all of them.
AllCandidates ==
    [h \in 1..MaxHeight |->
        IF h = 1 THEN TxCandidates \cup HashCandidates \cup TimeCandidates ELSE TimeCandidates]

\* A target out of range and one in range, besides the right one.
SomeBits == {10 * 64 + 1, 4 * 64 + 5}
=============================================================================
