------------------------------ MODULE MCScript ------------------------------
(***************************************************************************)
(* Instances of Interpreter and SigHash: the spends that are verified and  *)
(* the signed transactions that are changed.  The checker of the           *)
(* interpreter is that of SigHash.                                         *)
(***************************************************************************)
EXTENDS Standard

Bytes(n, b) == [i \in 1..n |-> b]
Padded(s, n) == s \o Bytes(n - Len(s), 0)
Cat(seqs) == LET c[i \in 0..Len(seqs)] == IF i = 0 THEN << >> ELSE c[i - 1] \o seqs[i]
             IN  c[Len(seqs)]
PushAll(vs) == Cat([i \in DOMAIN vs |-> PushData(vs[i])])
SeqsUpTo(S, n) == UNION {[1..k -> S] : k \in 0..n}

\* A hash is a number of bytes that tells the values of the instance apart.
MCHashOf(opcode, v) ==
    LET n == Len(v)
        k == IF n < 8 THEN n ELSE 8
    IN  Padded(<< opcode, n % 256 >> \o SubSeq(v, 1, k) \o SubSeq(v, n - k + 1, n),
               IF opcode \in {Op.OP_SHA256, Op.OP_HASH256} THEN 32 ELSE 20)
H160(s) == MCHashOf(Op.OP_HASH160, s)
H256(s) == MCHashOf(Op.OP_SHA256, s)

Key(i) == << 2 >> \o Bytes(32, i)
LongKey == << 4 >> \o Bytes(64, 4)
OddKey == << 6 >> \o Bytes(64, 4)
Der(r, s) == << 48, 6, 2, 1, r, 2, 1, s >>
Sig(i) == Append(Der(i, 1), 1)
HighSig(i) == Append(Der(i, 100), 1)
LooseSig(i) == << 48, 7, 2, 1, i, 2, 2, 0, 1, 1 >>
MCCheckLowS(der) == der[Len(der)] < 64

Tx0 == [version |-> 2, locktime |-> 40, hasWitness |-> TRUE,
        vin |-> << [prevout |-> 1, sequence |-> 69], [prevout |-> 2, sequence |-> 2047] >>,
        vout |-> << 5, 6 >>]

\* A checker of the instance names the scripts that the owners of the keys have signed for
\* the first input of its transaction.
Made(c) == {[sig |-> s[1], key |-> s[2],
             hash |-> SignatureHash(script, c.tx, 0, 1, 7, ver, Precomputed(c.tx))] :
            s \in {<< Der(i, e), Key(i) >> : i \in 1..3, e \in {1, 100}}
                  \cup {<< SubSeq(LooseSig(1), 1, 9), Key(1) >>, << Der(4, 1), LongKey >>,
                        << Der(5, 1), OddKey >>},
            script \in c.codes, ver \in {"BASE", "WITNESS_V0"}}
MCCheckSig(c, sig, key, script, ver) ==
    TxCheckSig([tx |-> c.tx, nIn |-> 0, amount |-> 7, made |-> Made(c)], sig, key, script, ver)

All == {"P2SH", "STRICTENC", "DERSIG", "LOW_S", "NULLDUMMY", "SIGPUSHONLY", "MINIMALDATA",
        "DISCOURAGE_UPGRADABLE_NOPS", "CLEANSTACK", "CHECKLOCKTIMEVERIFY", "CHECKSEQUENCEVERIFY",
        "WITNESS", "DISCOURAGE_UPGRADABLE_WITNESS_PROGRAM", "MINIMALIF", "NULLFAIL",
        "WITNESS_PUBKEYTYPE", "CONST_SCRIPTCODE"}
Basic == {"P2SH", "WITNESS"}
With(S) == {Basic \cup {f} : f \in S}
\* The flags of blocks as the heights of the rules are passed.
Heights == [segwitDefined |-> TRUE, BIP66Height |-> 1, BIP65Height |-> 2, CSVHeight |-> 3,
            SegwitHeight |-> 4]
BlockFlags == {GetBlockScriptFlags(h, FALSE, Heights) : h \in 0..4}

Spend(sig, pub, wit, flags, t, codes) ==
    [sig |-> sig, pub |-> pub, wit |-> wit, flags |-> flags, checker |-> [tx |-> t, nIn |-> 0, codes |-> codes]]
\* A spend that nobody has signed, and one of a signed output script.
Plain(sig, pub, flags) == Spend(sig, pub, << >>, flags, Tx0, {})
Signed(sig, pub, flags) == Spend(sig, pub, << >>, flags, Tx0, {pub})

-----------------------------------------------------------------------------
(* Spends *)

Nums == {<< >>, << 2 >>, << 128 >>, << 129 >>, << 200, 0 >>, << 1, 0 >>, << 255, 127 >>,
         << 0, 1, 0 >>}
Row(n) == [i \in 1..n |-> << i + 1 >>]

\* Every opcode, on every pair of numbers and on stacks of several depths.
OpSpends ==
    {Plain(PushAll(vs), << o >>, {{}, All}) : vs \in SeqsUpTo(Nums, 2), o \in 139..165}
    \cup {Plain(PushAll(vs), << o >>, {{}, All}) :
        vs \in SeqsUpTo({<< >>, << 1 >>, << 255, 127 >>}, 2), o \in 79..187}
    \cup {Plain(PushAll(Row(n) \o << << k >> >>), << o >>, {{}, All}) :
        n \in 2..8, k \in {1, 3, 5}, o \in 105..130}
    \cup {Plain(PushAll(<< a, b, c >>), << Op.OP_WITHIN >>, {{}, All}) :
        a, b, c \in {<< >>, << 2 >>, << 129 >>, << 200, 0 >>, << 0, 1, 0 >>}}

\* Results of opcodes as operands of opcodes.
ChainOps == {Op.OP_1ADD, Op.OP_NEGATE, Op.OP_ABS, Op.OP_ADD, Op.OP_SUB, Op.OP_DUP, Op.OP_SIZE,
             Op.OP_NOT, Op.OP_DEPTH, Op.OP_ROLL}
ChainSpends ==
    {Plain(PushAll(vs), o, {{}, All}) :
        vs \in {<< a, b >> : a, b \in {<< 255, 127 >>, << 255, 255 >>}},
        o \in [1..2 -> ChainOps]}

\* Branches, with a signature check in them, and every opcode in one that is not taken.
BranchSpends ==
    {Plain(<< Op.OP_1, Op.OP_1 >>, o, {{}, All}) :
        o \in SeqsUpTo({Op.OP_1, Op.OP_IF, Op.OP_NOTIF, Op.OP_ELSE, Op.OP_ENDIF, Op.OP_CHECKSIG}, 4)}
    \cup {Plain(<< Op.OP_1 >>, << Op.OP_0, Op.OP_IF, o >> \o p \o << Op.OP_ENDIF >>, {{}, All}) :
        o \in 76..187, p \in {<< >>, << 1, 1 >>}}

\* One and several signatures, right, wrong, in several encodings and for several keys.
SigFlags == {{}, Basic, All} \cup With({"STRICTENC", "LOW_S", "NULLFAIL", "NULLDUMMY", "DERSIG"})
SigForms == {Sig(1), Sig(2), HighSig(1), LooseSig(1), << >>, Append(Der(1, 1), 0),
             << 48, 1 >>, Append(Der(4, 1), 1), Append(Der(5, 1), 1)}
PayToKey(k, o) == PushData(k) \o << o >>
SigSpends ==
    {Signed(PushData(s), PayToKey(k, o), SigFlags) :
        s \in SigForms, k \in {Key(1), LongKey, OddKey, << 2, 1 >>},
        o \in {Op.OP_CHECKSIG, Op.OP_CHECKSIGVERIFY}}

MultiSig(m, keys, n, o) == << m >> \o PushAll(keys) \o << n, o >>
Sigs == {Sig(1), Sig(2), Sig(3), HighSig(2), << >>, << 48, 1 >>}
MultiSigSpends ==
    {Signed(PushAll(<< d >> \o s), MultiSig(80 + Len(s), << Key(1), Key(2), Key(3) >>, 83, o), SigFlags) :
        d \in {<< >>, << 1 >>}, s \in SeqsUpTo(Sigs, 3) \ {<< >>},
        o \in {Op.OP_CHECKMULTISIG}}
    \cup {Signed(PushAll(<< << >> >> \o s), MultiSig(m, k, n, o), {{}, All}) :
        s \in {<< >>, << Sig(1) >>, << Sig(2), Sig(1) >>},
        k \in {<< >>, << Key(1) >>, << Key(1), Key(1) >>, << Key(1), << 2 >>, Key(2) >>},
        m \in {Op.OP_1NEGATE, Op.OP_0, 81, 82}, n \in {Op.OP_1NEGATE, Op.OP_0, 81, 83, 84},
        o \in {Op.OP_CHECKMULTISIG, Op.OP_CHECKMULTISIGVERIFY}}

\* Code separators, and signatures inside the code that they sign.
CodeOps == {<< Op.OP_CODESEPARATOR >>, << Op.OP_NOP >>, PushData(Sig(1)) \o << Op.OP_DROP >>,
            << 10 >> \o PushData(Sig(1)) \o << Op.OP_DROP >>}
CodeSpends ==
    {Spend(PushData(Sig(1)), a \o b \o PayToKey(Key(1), Op.OP_CHECKSIG), << >>, {{}, Basic, All}, Tx0, {c}) :
        a, b \in CodeOps,
        c \in {PayToKey(Key(1), Op.OP_CHECKSIG), << Op.OP_NOP >> \o PayToKey(Key(1), Op.OP_CHECKSIG),
               << Op.OP_DROP >> \o PayToKey(Key(1), Op.OP_CHECKSIG)}}

\* Lock times, as blocks and as times.
LockSpends ==
    {Spend(PushData(n), << o >>, << >>, {{}, Basic, All} \cup BlockFlags,
           [Tx0 EXCEPT !.locktime = l, !.vin[1].sequence = q, !.version = v], {}) :
        n \in {serialize(i) : i \in {-1, 0, 5, 6, 39, 40, 41, 60, 69, 70, 1029, 70000}}
              \cup {<< 5, 0, 0 >>, << 5, 0, 0, 0 >>},
        o \in {Op.OP_CHECKLOCKTIMEVERIFY, Op.OP_CHECKSEQUENCEVERIFY},
        l \in {0, 40, 60}, q \in {5, 69, 1029, 2047}, v \in {1, 2}}

\* Scripts named by hash, in the output, in a script named by hash and in the witness.
Inner == {PayToKey(Key(1), Op.OP_CHECKSIG), MultiSig(81, << Key(1), Key(2) >>, 82, Op.OP_CHECKMULTISIG),
          << Op.OP_IF, Op.OP_1, Op.OP_ELSE, Op.OP_0, Op.OP_ENDIF >>, << Op.OP_1 >>, << Op.OP_DEPTH >>,
          << Op.OP_CODESEPARATOR >> \o PayToKey(Key(1), Op.OP_CHECKSIG), << 2, 1 >>, << >>,
          PayToKey(LongKey, Op.OP_CHECKSIG)}
P2SH(s) == << Op.OP_HASH160 >> \o PushData(H160(s)) \o << Op.OP_EQUAL >>
P2WSH(s) == << Op.OP_0 >> \o PushData(H256(s))
P2WPKH(k) == << Op.OP_0 >> \o PushData(H160(k))
PayToHash(k) == << Op.OP_DUP, Op.OP_HASH160 >> \o PushData(H160(k))
                \o << Op.OP_EQUALVERIFY, Op.OP_CHECKSIG >>
HashFlags == {{}, {"P2SH"}, Basic, All}
             \cup With({"CLEANSTACK", "MINIMALIF", "WITNESS_PUBKEYTYPE", "SIGPUSHONLY",
                        "DISCOURAGE_UPGRADABLE_WITNESS_PROGRAM"})
Args == {<< >>, << Sig(1) >>, << << >>, Sig(1) >>, << << 1 >> >>, << << 2 >> >>,
         << << >>, Sig(2) >>, << << 1 >>, << >> >>, << Append(Der(4, 1), 1) >>}
HashSpends ==
    {Spend(PushAll(a \o << s >>), P2SH(s), w, HashFlags, Tx0, {s}) :
        a \in Args, s \in Inner, w \in {<< >>, << << 1 >> >>}}
    \cup {Spend(PushAll(<< Sig(1) >>) \o p \o PushData(<< Op.OP_DEPTH >>), P2SH(<< Op.OP_DEPTH >>),
                << >>, HashFlags, Tx0, {}) : p \in {<< >>, << Op.OP_NOP >>, << Op.OP_DUP >>}}
    \cup {Spend(x, P2WSH(s), a \o << IF right THEN s ELSE << Op.OP_1 >> >>, HashFlags, Tx0, {s}) :
        a \in Args, s \in Inner, right \in BOOLEAN, x \in {<< >>}}
    \cup {Spend(<< Op.OP_1 >>, P2WSH(s), << << 1 >>, s >>, HashFlags, Tx0, {s}) : s \in Inner}
    \cup {Spend(x \o PushData(P2WSH(s)), P2SH(P2WSH(s)), a \o << s >>, HashFlags, Tx0, {s}) :
        a \in Args, s \in Inner, x \in {<< >>, << Op.OP_1 >>}}
    \cup {Spend(<< >>, P2WPKH(k), a \o << l >>, HashFlags, Tx0, {PayToHash(k)}) :
        a \in Args, k, l \in {Key(1), LongKey}}
    \cup {Spend(<< >>, << v >> \o PushData(Bytes(n, b)), w, HashFlags, Tx0, {}) :
        v \in {Op.OP_0, 81, 96}, n \in {1, 2, 20, 33, 40, 41}, b \in {0, 1},
        w \in {<< >>, << << 1 >> >>}}

\* The limits: sizes of elements and scripts, depths and numbers of operations.
LimitSpends ==
    {Plain(<< Op.OP_1 >>, PushData(Bytes(n, 1)), {{}, All}) : n \in {0, 1, 2, 75, 76, 100, 101}}
    \cup {Plain(<< Op.OP_1 >>, << Op.OP_PUSHDATA2, n, 0 >> \o Bytes(n, 3), {{}, All}) : n \in {0, 1, 76}}
    \cup {Plain(<< Op.OP_1 >>, Bytes(n, Op.OP_1), {{}, All}) : n \in 7..10}
    \cup {Plain(<< Op.OP_1 >>, Bytes(n, Op.OP_NOP), {{}, All}) : n \in 4..7}
    \cup {Plain(<< Op.OP_1 >>, PushData(Bytes(n, 1)) \o PushData(Bytes(60, 1)), {{}, All}) :
             n \in 57..59}
    \cup {Plain(Bytes(n, Op.OP_1), << o, p >>, {{}, All}) :
             n \in 6..9, o \in {Op.OP_TOALTSTACK, Op.OP_2DROP, Op.OP_DEPTH}, p \in {Op.OP_3DUP, Op.OP_DUP}}
    \cup {Spend(<< >>, P2WSH(<< Op.OP_DEPTH >>), Append(w, << Op.OP_DEPTH >>), HashFlags, Tx0, {}) :
             w \in {[i \in 1..n |-> << >>] : n \in 8..10} \cup {<< Bytes(n, 1) >> : n \in {100, 101}}}

MCSpends == OpSpends \cup ChainSpends \cup BranchSpends \cup SigSpends \cup MultiSigSpends
            \cup CodeSpends \cup LockSpends \cup HashSpends \cup LimitSpends

-----------------------------------------------------------------------------
(* Signed transactions *)

SomeCode == PushData(Key(1)) \o << Op.OP_CHECKSIG >>
MCCodes == {SomeCode, << Op.OP_CODESEPARATOR >> \o SomeCode, << Op.OP_NOP >> \o SomeCode}
MCSignatures ==
    {[tx |-> [Tx0 EXCEPT !.vout = o], nIn |-> i, type |-> t, ver |-> v,
      code |-> << Op.OP_CODESEPARATOR >> \o SomeCode, amount |-> 7] :
        o \in {<< 5 >>, << 5, 6 >>}, i \in {0, 1},
        t \in {1, 2, 3, 129, 130, 131, 0}, v \in {"BASE", "WITNESS_V0"}}
=============================================================================
