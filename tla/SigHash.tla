------------------------------ MODULE SigHash ------------------------------
(***************************************************************************)
(* What a signature signs: SignatureHash and the checker of signatures and *)
(* lock times of script/interpreter.cpp.  A transaction is signed once and *)
(* then changed field by field.  A hash is what was hashed.                *)
(***************************************************************************)
EXTENDS Script, FiniteSets

CONSTANTS
    LOCKTIME_THRESHOLD,             \* lock times from here on are times (500000000)
    SEQUENCE_FINAL,                 \* (2^32 - 1)
    SEQUENCE_LOCKTIME_TYPE_FLAG,    \* (2^22)
    SEQUENCE_LOCKTIME_MASK,         \* a run of low bits (2^16 - 1)
    Signatures,     \* what is signed: [tx, nIn, type, ver, code, amount]
    Versions, LockTimes, InputSequences, Outputs, Codes, Amounts,   \* what fields change to
    MaxEdits        \* bound on the changes

VARIABLES
    signed, \* what the signature was made for
    tx,     \* the transaction as it is now
    code,   \* the script that is verified now
    amount, \* the value of the output that is spent now
    edits   \* changes so far

sigVars == << signed, tx, code, amount, edits >>

ASSUME LockAssumption ==
    /\ SEQUENCE_LOCKTIME_MASK \in Nat
    /\ SEQUENCE_LOCKTIME_MASK < SEQUENCE_LOCKTIME_TYPE_FLAG
    /\ SEQUENCE_LOCKTIME_TYPE_FLAG < SEQUENCE_LOCKTIME_DISABLE_FLAG

Hash(x) == << "hash", x >>
NullHash == << >>
AnyoneCanPay(type) == type >= 128
IsSingle(type) == type % 32 = 3
IsNone(type) == type % 32 = 2

-----------------------------------------------------------------------------
(* The form of a transaction that is signed *)

\* SerializeScriptCode: the size without code separators, and the bytes up to where the
\* last instruction was read to, without code separators.
IsSeparator(g) == g.opcode = Op.OP_CODESEPARATOR
CodeBytes(s, ops) ==
    LET bytes[i \in 0..Len(ops)] ==
            IF i = 0 THEN << >>
            ELSE bytes[i - 1] \o
                 (IF IsSeparator(ops[i]) THEN << >>
                  ELSE SubSeq(s, (IF i = 1 THEN 0 ELSE ops[i - 1].pc) + 1, ops[i].pc))
        nCodeSeparators == Cardinality({i \in DOMAIN ops : IsSeparator(ops[i])})
    IN  << Len(s) - nCodeSeparators, bytes[Len(ops)] >>
ScriptCode(s) == CodeBytes(s, OpsFrom(s, 0))

\* Mutated form: the sequence numbers of other inputs are always signed.
SerializeInputSequences(t, script, nIn, type, n) ==
    LET i == IF AnyoneCanPay(type) THEN nIn ELSE n
    IN  << t.vin[i + 1].prevout, IF i # nIn THEN << 0, << >> >> ELSE ScriptCode(script),
           t.vin[i + 1].sequence >>

\* Inputs are counted from 0, sequences from 1.
SerializeInput(t, script, nIn, type, n) ==
    LET i == IF AnyoneCanPay(type) THEN nIn ELSE n
    IN  << t.vin[i + 1].prevout,
           IF i # nIn THEN << 0, << >> >> ELSE ScriptCode(script),
           IF i # nIn /\ (IsSingle(type) \/ IsNone(type)) THEN 0 ELSE t.vin[i + 1].sequence >>

\* TxOut() has the value -1.
SerializeOutput(t, nIn, type, n) ==
    IF IsSingle(type) /\ n # nIn THEN -1 ELSE t.vout[n + 1]

Serialize(t, script, nIn, type) ==
    LET nInputs == IF AnyoneCanPay(type) THEN 1 ELSE Len(t.vin)
        nOutputs == IF IsNone(type) THEN 0 ELSE IF IsSingle(type) THEN nIn + 1 ELSE Len(t.vout)
    IN  << t.version,
           [n \in 1..nInputs |-> SerializeInput(t, script, nIn, type, n - 1)],
           [n \in 1..nOutputs |-> SerializeOutput(t, nIn, type, n - 1)],
           t.locktime >>

GetPrevoutHash(t) == Hash([n \in DOMAIN t.vin |-> t.vin[n].prevout])
GetSequenceHash(t) == Hash([n \in DOMAIN t.vin |-> t.vin[n].sequence])
GetOutputsHash(t) == Hash(t.vout)

\* PrecomputedTransactionData: made for transactions with a witness.
Precomputed(t) ==
    [ready |-> t.hasWitness, prevouts |-> GetPrevoutHash(t), sequence |-> GetSequenceHash(t),
     outputs |-> GetOutputsHash(t)]

WitnessSignatureHash(script, t, nIn, type, value, cache) ==
    LET part == IsSingle(type) \/ IsNone(type)
        hashPrevouts ==
            IF AnyoneCanPay(type) THEN NullHash
            ELSE IF cache.ready THEN cache.prevouts ELSE GetPrevoutHash(t)
        hashSequence ==
            IF AnyoneCanPay(type) \/ part THEN NullHash
            ELSE IF cache.ready THEN cache.sequence ELSE GetSequenceHash(t)
        hashOutputs ==
            IF ~part THEN IF cache.ready THEN cache.outputs ELSE GetOutputsHash(t)
            ELSE IF IsSingle(type) /\ nIn < Len(t.vout) THEN Hash(<< t.vout[nIn + 1] >>)
            ELSE NullHash
    IN  Hash(<< t.version, hashPrevouts, hashSequence, t.vin[nIn + 1].prevout, script, value,
                t.vin[nIn + 1].sequence, hashOutputs, t.locktime, type >>)

SignatureHash(script, t, nIn, type, value, ver, cache) ==
    IF ver = "WITNESS_V0" THEN WitnessSignatureHash(script, t, nIn, type, value, cache)
    ELSE IF IsSingle(type) /\ nIn >= Len(t.vout) THEN << "one" >>
    ELSE Hash(<< Serialize(t, script, nIn, type), type >>)

\* CPubKey::IsValid.
GetLen(header) == IF header \in {2, 3} THEN 33 ELSE IF header \in {4, 6, 7} THEN 65 ELSE 0
ValidSize(key) == Len(key) > 0 /\ GetLen(key[1]) = Len(key)

\* GenericTransactionSignatureChecker::CheckSig.  A checker has the transaction, the input,
\* its amount, and the signatures that owners of keys have made: [sig, key, hash].
TxCheckSig(c, sig, key, script, ver) ==
    /\ ValidSize(key)
    /\ sig # << >>
    /\ LET n == Len(sig)
       IN  [sig |-> SubSeq(sig, 1, n - 1), key |-> key,
            hash |-> SignatureHash(script, c.tx, c.nIn, sig[n], c.amount, ver, Precomputed(c.tx))]
           \in c.made

-----------------------------------------------------------------------------
(* Lock times *)

TxCheckLockTime(c, nLockTime) ==
    /\ (c.tx.locktime < LOCKTIME_THRESHOLD) = (nLockTime < LOCKTIME_THRESHOLD)
    /\ nLockTime <= c.tx.locktime
    /\ c.tx.vin[c.nIn + 1].sequence # SEQUENCE_FINAL

HasFlag(n, flag) == (n \div flag) % 2 = 1

\* The bits of the type flag and of the mask, which is one less than a power of two.
Masked(n) ==
    (IF HasFlag(n, SEQUENCE_LOCKTIME_TYPE_FLAG) THEN SEQUENCE_LOCKTIME_TYPE_FLAG ELSE 0)
    + (n % (SEQUENCE_LOCKTIME_MASK + 1))

TxCheckSequence(c, nSequence) ==
    LET mine == c.tx.vin[c.nIn + 1].sequence
    IN  /\ c.tx.version \notin {0, 1}     \* compared unsigned
        /\ ~HasFlag(mine, SEQUENCE_LOCKTIME_DISABLE_FLAG)
        /\ (Masked(mine) < SEQUENCE_LOCKTIME_TYPE_FLAG)
             = (Masked(nSequence) < SEQUENCE_LOCKTIME_TYPE_FLAG)
        /\ Masked(nSequence) <= Masked(mine)

\* NetMessageTransaction::IsFinalTx.
IsFinalTx(t, nBlockHeight, nBlockTime) ==
    \/ t.locktime = 0
    \/ t.locktime < (IF t.locktime < LOCKTIME_THRESHOLD THEN nBlockHeight ELSE nBlockTime)
    \/ \A i \in DOMAIN t.vin : t.vin[i].sequence = SEQUENCE_FINAL

-----------------------------------------------------------------------------
(* One signature and a transaction that changes *)

SigInit ==
    /\ signed \in Signatures
    /\ tx = signed.tx
    /\ code = signed.code
    /\ amount = signed.amount
    /\ edits = 0

Edit ==
    /\ edits < MaxEdits
    /\ edits' = edits + 1
    /\ UNCHANGED signed

\* The transaction is changed after it was signed: by others, or because it is another one.
EditTx ==
    /\ Edit
    /\ \/ \E v \in Versions : tx' = [tx EXCEPT !.version = v]
       \/ \E l \in LockTimes : tx' = [tx EXCEPT !.locktime = l]
       \/ \E i \in DOMAIN tx.vin, q \in InputSequences : tx' = [tx EXCEPT !.vin[i].sequence = q]
       \/ \E i \in DOMAIN tx.vin : tx' = [tx EXCEPT !.vin[i].prevout = @ + 10]
       \/ \E i \in DOMAIN tx.vout, o \in Outputs : tx' = [tx EXCEPT !.vout[i] = o]
       \/ tx' = [tx EXCEPT !.hasWitness = ~@]
    /\ UNCHANGED << code, amount >>

\* Inputs and outputs come and go at the end; the input that is verified stays.
EditShape ==
    /\ Edit
    /\ \/ \E o \in Outputs : tx' = [tx EXCEPT !.vout = Append(@, o)]
       \/ tx.vout # << >> /\ tx' = [tx EXCEPT !.vout = SubSeq(@, 1, Len(@) - 1)]
       \/ \E q \in InputSequences :
             tx' = [tx EXCEPT !.vin = Append(@, [prevout |-> 9, sequence |-> q])]
       \/ /\ Len(tx.vin) > signed.nIn + 1
          /\ tx' = [tx EXCEPT !.vin = SubSeq(@, 1, Len(@) - 1)]
    /\ UNCHANGED << code, amount >>

\* The output that is spent is another one.
EditSpent ==
    /\ Edit
    /\ \/ \E c \in Codes : code' = c /\ UNCHANGED amount
       \/ \E a \in Amounts : amount' = a /\ UNCHANGED code
    /\ UNCHANGED tx

SigNext == EditTx \/ EditShape \/ EditSpent

-----------------------------------------------------------------------------
(* Properties *)

theSig == << 48, 6, 2, 1, 1, 2, 1, 1 >>
theKey == << 2 >> \o [i \in 1..32 |-> 7]
SignedHash ==
    SignatureHash(signed.code, signed.tx, signed.nIn, signed.type, signed.amount, signed.ver,
                  Precomputed(signed.tx))
Checker == [tx |-> tx, nIn |-> signed.nIn, amount |-> amount,
            made |-> {[sig |-> theSig, key |-> theKey, hash |-> SignedHash]}]
IsGood == TxCheckSig(Checker, Append(theSig, signed.type), theKey, code, signed.ver)

\* The fields a signature of this type is about, said field by field.
Covered(t, script, value) ==
    LET i == signed.nIn + 1
        acp == AnyoneCanPay(signed.type)
        all == ~IsSingle(signed.type) /\ ~IsNone(signed.type)
        ins == IF acp THEN << t.vin[i] >> ELSE t.vin
        ops == SelectSeq(OpsFrom(script, 0), LAMBDA g : g.opcode # Op.OP_CODESEPARATOR)
    IN  [version |-> t.version, locktime |-> t.locktime,
         own |-> t.vin[i].sequence,
         prevouts |-> [k \in DOMAIN ins |-> ins[k].prevout],
         sequences |-> IF all THEN [k \in DOMAIN ins |-> ins[k].sequence] ELSE << >>,
         outputs |-> IF all THEN t.vout
                     ELSE IF IsSingle(signed.type) /\ i <= Len(t.vout) THEN << t.vout[i] >> ELSE << >>,
         code |-> IF signed.ver = "BASE" THEN [k \in DOMAIN ops |-> << ops[k].opcode, ops[k].data >>]
                  ELSE << script >>,
         amount |-> IF signed.ver = "BASE" THEN 0 ELSE value]

\* A base signature for the single output of an input beyond the outputs signs the number one.
SignsOne(t) == signed.ver = "BASE" /\ IsSingle(signed.type) /\ signed.nIn >= Len(t.vout)

\* A signature stays good through any changes of the transaction to which the flags of its
\* type (interpreter.h, SIGHASH_ALL to SIGHASH_ANYONECANPAY) leave it open, and through no others.
SignatureBinds ==
    IsGood <=> \/ SignsOne(tx) /\ SignsOne(signed.tx)
               \/ /\ ~SignsOne(tx) /\ ~SignsOne(signed.tx)
                  /\ Covered(tx, code, amount) = Covered(signed.tx, signed.code, signed.amount)

\* If an input passes OP_CHECKLOCKTIMEVERIFY for n and its transaction is final in a block,
\* then the block is beyond n: the sequence numbers cannot be used to get around the lock.
LockTimeHolds ==
    \A n \in LockTimes, h \in LockTimes, t \in LockTimes :
        /\ h > 0
        /\ TxCheckLockTime(Checker, n)
        /\ IsFinalTx(tx, h, t)
        => n < (IF n < LOCKTIME_THRESHOLD THEN h ELSE t)
=============================================================================
