------------------------------- MODULE Script -------------------------------
(***************************************************************************)
(* Scripts as the bytes they are: script/script.{h,cpp}.  Instructions are *)
(* read and appended byte by byte, numbers have a sign bit in their last   *)
(* byte, and the forms of scripts that the rest of the code treats apart   *)
(* are recognised by their bytes.                                          *)
(***************************************************************************)
EXTENDS Integers, Sequences, Functions

CONSTANTS
    MAX_SCRIPT_ELEMENT_SIZE,    \* bytes of a stack element (520 in the code)
    MAX_PUBKEYS_PER_MULTISIG,   \* (20)
    SEQUENCE_LOCKTIME_DISABLE_FLAG  \* (2^31)

ASSUME ScriptAssumption ==
    {MAX_SCRIPT_ELEMENT_SIZE, MAX_PUBKEYS_PER_MULTISIG, SEQUENCE_LOCKTIME_DISABLE_FLAG} \subseteq Nat

Byte == 0..255

\* The opcodes by name.  1 to 75 push that many bytes and have no name.
Op == [ OP_0 |-> 0, OP_PUSHDATA1 |-> 76, OP_PUSHDATA2 |-> 77, OP_PUSHDATA4 |-> 78,
        OP_1NEGATE |-> 79, OP_RESERVED |-> 80, OP_1 |-> 81, OP_16 |-> 96,
        OP_NOP |-> 97, OP_VER |-> 98, OP_IF |-> 99, OP_NOTIF |-> 100, OP_VERIF |-> 101,
        OP_VERNOTIF |-> 102, OP_ELSE |-> 103, OP_ENDIF |-> 104, OP_VERIFY |-> 105,
        OP_RETURN |-> 106,
        OP_TOALTSTACK |-> 107, OP_FROMALTSTACK |-> 108, OP_2DROP |-> 109, OP_2DUP |-> 110,
        OP_3DUP |-> 111, OP_2OVER |-> 112, OP_2ROT |-> 113, OP_2SWAP |-> 114,
        OP_IFDUP |-> 115, OP_DEPTH |-> 116, OP_DROP |-> 117, OP_DUP |-> 118, OP_NIP |-> 119,
        OP_OVER |-> 120, OP_PICK |-> 121, OP_ROLL |-> 122, OP_ROT |-> 123, OP_SWAP |-> 124,
        OP_TUCK |-> 125,
        OP_CAT |-> 126, OP_SUBSTR |-> 127, OP_LEFT |-> 128, OP_RIGHT |-> 129, OP_SIZE |-> 130,
        OP_INVERT |-> 131, OP_AND |-> 132, OP_OR |-> 133, OP_XOR |-> 134, OP_EQUAL |-> 135,
        OP_EQUALVERIFY |-> 136, OP_RESERVED1 |-> 137, OP_RESERVED2 |-> 138,
        OP_1ADD |-> 139, OP_1SUB |-> 140, OP_2MUL |-> 141, OP_2DIV |-> 142, OP_NEGATE |-> 143,
        OP_ABS |-> 144, OP_NOT |-> 145, OP_0NOTEQUAL |-> 146, OP_ADD |-> 147, OP_SUB |-> 148,
        OP_MUL |-> 149, OP_DIV |-> 150, OP_MOD |-> 151, OP_LSHIFT |-> 152, OP_RSHIFT |-> 153,
        OP_BOOLAND |-> 154, OP_BOOLOR |-> 155, OP_NUMEQUAL |-> 156, OP_NUMEQUALVERIFY |-> 157,
        OP_NUMNOTEQUAL |-> 158, OP_LESSTHAN |-> 159, OP_GREATERTHAN |-> 160,
        OP_LESSTHANOREQUAL |-> 161, OP_GREATERTHANOREQUAL |-> 162, OP_MIN |-> 163,
        OP_MAX |-> 164, OP_WITHIN |-> 165,
        OP_RIPEMD160 |-> 166, OP_SHA1 |-> 167, OP_SHA256 |-> 168, OP_HASH160 |-> 169,
        OP_HASH256 |-> 170, OP_CODESEPARATOR |-> 171, OP_CHECKSIG |-> 172,
        OP_CHECKSIGVERIFY |-> 173, OP_CHECKMULTISIG |-> 174, OP_CHECKMULTISIGVERIFY |-> 175,
        OP_NOP1 |-> 176, OP_CHECKLOCKTIMEVERIFY |-> 177, OP_CHECKSEQUENCEVERIFY |-> 178,
        OP_NOP4 |-> 179, OP_NOP10 |-> 185, OP_INVALIDOPCODE |-> 255 ]

-----------------------------------------------------------------------------
(* Reading and appending instructions *)

\* The little-endian number in the n bytes after position pc.
ReadLE(s, pc, n) ==
    LET sum[i \in 0..n] == IF i = 0 THEN 0 ELSE sum[i - 1] + s[pc + i] * 256^(i - 1)
    IN  sum[n]

WriteLE(x, n) == [i \in 1..n |-> (x \div 256^(i - 1)) % 256]

\* The bytes of the length that an OP_PUSHDATA carries.
LengthBytes(opcode) ==
    CASE opcode = Op.OP_PUSHDATA1 -> 1
      [] opcode = Op.OP_PUSHDATA2 -> 2
      [] opcode = Op.OP_PUSHDATA4 -> 4
      [] OTHER -> 0

ReadFails(at) == [ok |-> FALSE, opcode |-> Op.OP_INVALIDOPCODE, data |-> << >>, pc |-> at]

\* A push of the size bytes behind position at.
ReadPush(s, opcode, at, size) ==
    IF Len(s) - at < size THEN ReadFails(at)
    ELSE [ok |-> TRUE, opcode |-> opcode, data |-> SubSeq(s, at + 1, at + size), pc |-> at + size]

\* The push whose opcode is before position at, with n bytes of length.
ReadLength(s, opcode, at, n) ==
    IF Len(s) - at < n THEN ReadFails(at)
    ELSE ReadPush(s, opcode, at + n, IF n = 0 THEN opcode ELSE ReadLE(s, at, n))

\* GetScriptOp.  pc counts the bytes read; a failure leaves it where the code stopped.
GetScriptOp(s, pc) ==
    IF pc >= Len(s) THEN ReadFails(pc)
    ELSE IF s[pc + 1] > Op.OP_PUSHDATA4
         THEN [ok |-> TRUE, opcode |-> s[pc + 1], data |-> << >>, pc |-> pc + 1]
    ELSE ReadLength(s, s[pc + 1], pc + 1, LengthBytes(s[pc + 1]))

\* The results of reading a script from pc on: up to its end or the first failure.
ThenOps(g, ops) == IF g.ok THEN << g >> \o ops[g.pc] ELSE << g >>
OpsFrom(s, from) ==
    LET ops[pc \in 0..Len(s)] ==
            IF pc = Len(s) THEN << >> ELSE ThenOps(GetScriptOp(s, pc), ops)
    IN  ops[from]

\* operator<< of a vector.
PushData(b) ==
    LET n == Len(b)
    IN  (IF n < Op.OP_PUSHDATA1 THEN << n >>
         ELSE IF n <= 255 THEN << Op.OP_PUSHDATA1, n >>
         ELSE IF n <= 65535 THEN << Op.OP_PUSHDATA2 >> \o WriteLE(n, 2)
         ELSE << Op.OP_PUSHDATA4 >> \o WriteLE(n, 4)) \o b

DecodeOP_N(opcode) == IF opcode = Op.OP_0 THEN 0 ELSE opcode - (Op.OP_1 - 1)
EncodeOP_N(n) == IF n = 0 THEN Op.OP_0 ELSE Op.OP_1 + n - 1

-----------------------------------------------------------------------------
(* Numbers: CScriptNum *)

\* The bytes of a magnitude, least significant first.
Magnitude(n) == WriteLE(n, CHOOSE k \in 0..4 : n < 256^k /\ (k = 0 \/ n >= 256^(k - 1)))

serialize(value) ==
    LET bytes == Magnitude(IF value < 0 THEN -value ELSE value)
        n == Len(bytes)
    IN  IF value = 0 THEN << >>
        ELSE IF bytes[n] >= 128 THEN Append(bytes, IF value < 0 THEN 128 ELSE 0)
        ELSE IF value < 0 THEN [bytes EXCEPT ![n] = @ + 128]
        ELSE bytes

set_vch(v) ==
    LET n == Len(v)
    IN  IF n = 0 THEN 0
        ELSE IF v[n] >= 128 THEN -ReadLE([v EXCEPT ![n] = @ - 128], 0, n)
        ELSE ReadLE(v, 0, n)

\* The constructor from bytes throws unless this holds.
IsNum(v, fRequireMinimal, nMaxNumSize) ==
    LET n == Len(v)
    IN  /\ n <= nMaxNumSize
        /\ fRequireMinimal /\ n > 0 /\ v[n] % 128 = 0 => n > 1 /\ v[n - 1] >= 128

\* operator<< of an integer.
PushInt(n) ==
    IF n = -1 \/ n \in 1..16 THEN << n + (Op.OP_1 - 1) >>
    ELSE IF n = 0 THEN << Op.OP_0 >>
    ELSE PushData(serialize(n))

-----------------------------------------------------------------------------
(* Forms of scripts *)

IsPayToScriptHash(s) ==
    Len(s) = 23 /\ s[1] = Op.OP_HASH160 /\ s[2] = 20 /\ s[23] = Op.OP_EQUAL

IsPayToWitnessScriptHash(s) == Len(s) = 34 /\ s[1] = Op.OP_0 /\ s[2] = 32

\* One small number and one push of the whole rest.
IsWitnessProgram(s) ==
    /\ Len(s) \in 4..42
    /\ s[1] = Op.OP_0 \/ s[1] \in Op.OP_1..Op.OP_16
    /\ s[2] + 2 = Len(s)
WitnessVersion(s) == DecodeOP_N(s[1])
WitnessProgram(s) == SubSeq(s, 3, Len(s))

IsPushOnly(s, from) == \A g \in Range(OpsFrom(s, from)) : g.ok /\ g.opcode <= Op.OP_16

HasValidOps(s) ==
    \A g \in Range(OpsFrom(s, 0)) :
        g.ok /\ g.opcode <= Op.OP_NOP10 /\ Len(g.data) <= MAX_SCRIPT_ELEMENT_SIZE

\* What an instruction adds to the count, with the opcode before it.
SigOps(opcode, last, fAccurate) ==
    IF opcode \in {Op.OP_CHECKSIG, Op.OP_CHECKSIGVERIFY} THEN 1
    ELSE IF opcode \notin {Op.OP_CHECKMULTISIG, Op.OP_CHECKMULTISIGVERIFY} THEN 0
    ELSE IF fAccurate /\ last \in Op.OP_1..Op.OP_16 THEN DecodeOP_N(last)
    ELSE MAX_PUBKEYS_PER_MULTISIG
SumSigOps(ops, fAccurate) ==
    LET n[i \in 0..Len(ops)] ==
            IF i = 0 THEN 0
            ELSE n[i - 1] + SigOps(ops[i].opcode,
                                   IF i = 1 THEN Op.OP_INVALIDOPCODE ELSE ops[i - 1].opcode,
                                   fAccurate)
    IN  n[Len(ops)]

\* GetSigOpCount: signature checks a script may make, an unknown number of keys as the most.
GetSigOpCount(s, fAccurate) == SumSigOps(OpsFrom(s, 0), fAccurate)

\* The last push of a script that only pushes; empty if there is none.
LastData(ops) == IF ops = << >> THEN << >> ELSE ops[Len(ops)].data
LastPush(s) == LastData(OpsFrom(s, 0))

\* GetSigOpCount of an output with the script that spends it.
GetSigOpCountP2SH(s, scriptSig) ==
    IF ~IsPayToScriptHash(s) THEN GetSigOpCount(s, TRUE)
    ELSE IF ~IsPushOnly(scriptSig, 0) THEN 0
    ELSE GetSigOpCount(LastPush(scriptSig), TRUE)

\* WitnessSigOps and CountWitnessSigOps, for a witness that may be empty.
WitnessSigOps(prog, wit) ==
    IF WitnessVersion(prog) # 0 THEN 0
    ELSE IF Len(WitnessProgram(prog)) = 20 THEN 1
    ELSE IF Len(WitnessProgram(prog)) = 32 /\ wit # << >> THEN GetSigOpCount(wit[Len(wit)], TRUE)
    ELSE 0

CountWitnessSigOps(scriptSig, s, wit, F) ==
    IF "WITNESS" \notin F THEN 0
    ELSE IF IsWitnessProgram(s) THEN WitnessSigOps(s, wit)
    ELSE IF IsPayToScriptHash(s) /\ IsPushOnly(scriptSig, 0) /\ IsWitnessProgram(LastPush(scriptSig))
         THEN WitnessSigOps(LastPush(scriptSig), wit)
    ELSE 0
=============================================================================
