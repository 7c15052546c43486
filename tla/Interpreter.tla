---------------------------- MODULE Interpreter ----------------------------
(***************************************************************************)
(* VerifyScript and EvalScript of script/interpreter.cpp.  One spend is    *)
(* verified side by side under several sets of flags: run[F] is the        *)
(* verification under the flags F, and a step executes one instruction of  *)
(* each run that has not ended, or leads from one script to the next.      *)
(***************************************************************************)
EXTENDS Script, FiniteSets

CONSTANTS
    MAX_OPS_PER_SCRIPT,     \* (201)
    MAX_SCRIPT_SIZE,        \* (10000)
    MAX_STACK_SIZE,         \* (1000)
    nDefaultMaxNumSize,     \* bytes of an operand (4)
    nLockNumSize,           \* bytes of an operand of the two lock-time opcodes (5)
    Spends,                 \* spends to verify, each with the sets of flags to verify it under
    CheckSig(_, _, _, _, _),    \* checker.CheckSig(sig, key, code, version) of a spend
    CheckLockTime(_, _),        \* checker.CheckLockTime
    CheckSequence(_, _),        \* checker.CheckSequence
    CheckLowS(_),               \* CPubKey::CheckLowS
    HashOf(_, _)                \* what a hash opcode makes of a value

VARIABLES
    spend,  \* [sig, pub: scripts, wit: witness stack, flags: sets of flags, checker]
    run     \* the verification under each set of flags

vars == << spend, run >>

ASSUME LimitAssumption ==
    /\ {MAX_OPS_PER_SCRIPT, MAX_SCRIPT_SIZE, MAX_STACK_SIZE} \subseteq Nat
    /\ {nDefaultMaxNumSize, nLockNumSize} \subseteq Nat
    /\ nDefaultMaxNumSize < nLockNumSize

\* VerifyScript asserts that these flags come with those they need.
LegalFlags(F) ==
    /\ "CLEANSTACK" \in F => {"P2SH", "WITNESS"} \subseteq F
    /\ "WITNESS" \in F => "P2SH" \in F

\* Callers give flags that go together (GetBlockScriptFlags does).
ASSUME SpendsAssumption == \A sp \in Spends : \A F \in sp.flags : LegalFlags(F)

\* ScriptValidation::GetBlockScriptFlags, from the heights at which rules come into force
\* (params.h) and whether the block is the one that predates P2SH.
GetBlockScriptFlags(height, isException, at) ==
    LET early == (IF isException THEN {} ELSE {"P2SH"})
                 \cup (IF ~isException /\ at.segwitDefined THEN {"WITNESS"} ELSE {})
        From(h, f) == IF height >= h THEN {f} ELSE {}
    IN  early \cup From(at.BIP66Height, "DERSIG") \cup From(at.BIP65Height, "CHECKLOCKTIMEVERIFY")
        \cup From(at.CSVHeight, "CHECKSEQUENCEVERIFY")
        \cup From(at.SegwitHeight, "NULLDUMMY")

-----------------------------------------------------------------------------
(* Values *)

vchFalse == << >>
vchTrue == << 1 >>
Bool(b) == IF b THEN vchTrue ELSE vchFalse

\* Some byte is not zero, other than the sign of a negative zero.
CastToBool(v) == \E i \in DOMAIN v : v[i] # 0 /\ ~(i = Len(v) /\ v[i] = 128)

Top(s, i) == s[Len(s) - i + 1]
Drop(s, n) == SubSeq(s, 1, Len(s) - n)

IsCompressedPubKey(k) == Len(k) = 33 /\ k[1] \in {2, 3}
IsCompressedOrUncompressedPubKey(k) == IsCompressedPubKey(k) \/ (Len(k) = 65 /\ k[1] = 4)

\* An integer of n bytes at position at (the first is 1): not negative, not padded.
IsCanonicalInt(sig, at, n) ==
    /\ n # 0
    /\ sig[at] < 128
    /\ n > 1 /\ sig[at] = 0 => sig[at + 1] >= 128

\* <30> <total> <02> <lenR> <R> <02> <lenS> <S> <hashtype>
IsValidSignatureEncoding(sig) ==
    LET n == Len(sig)
        lenR == sig[4]
        lenS == sig[6 + lenR]
    IN  /\ n \in 9..73
        /\ sig[1] = 48
        /\ sig[2] = n - 3
        /\ 5 + lenR < n
        /\ lenR + lenS + 7 = n
        /\ sig[3] = 2 /\ IsCanonicalInt(sig, 5, lenR)
        /\ sig[lenR + 5] = 2 /\ IsCanonicalInt(sig, lenR + 7, lenS)

IsDefinedHashtypeSignature(sig) == sig[Len(sig)] % 128 \in 1..3

CheckSignatureEncoding(sig, F) ==
    IF sig = << >> THEN "OK"
    ELSE IF F \cap {"DERSIG", "LOW_S", "STRICTENC"} # {} /\ ~IsValidSignatureEncoding(sig)
         THEN "SIG_DER"
    ELSE IF "LOW_S" \in F /\ ~CheckLowS(Drop(sig, 1)) THEN "SIG_HIGH_S"
    ELSE IF "STRICTENC" \in F /\ ~IsDefinedHashtypeSignature(sig) THEN "SIG_HASHTYPE"
    ELSE "OK"

CheckPubKeyEncoding(key, F, ver) ==
    IF "STRICTENC" \in F /\ ~IsCompressedOrUncompressedPubKey(key) THEN "PUBKEYTYPE"
    ELSE IF "WITNESS_PUBKEYTYPE" \in F /\ ver = "WITNESS_V0" /\ ~IsCompressedPubKey(key)
         THEN "WITNESS_PUBKEYTYPE"
    ELSE "OK"

\* The error of checking a signature against a key, or "OK".
EncodingError(sig, key, F, ver) ==
    LET e == CheckSignatureEncoding(sig, F)
    IN  IF e # "OK" THEN e ELSE CheckPubKeyEncoding(key, F, ver)

CheckMinimalPush(data, opcode) ==
    LET n == Len(data)
    IN  IF n = 0 THEN opcode = Op.OP_0
        ELSE IF n = 1 /\ data[1] \in 1..16 \cup {129} THEN FALSE
        ELSE IF n <= 75 THEN opcode = n
        ELSE IF n <= 255 THEN opcode = Op.OP_PUSHDATA1
        ELSE IF n <= 65535 THEN opcode = Op.OP_PUSHDATA2
        ELSE TRUE

\* The script without the occurrences of b that begin an instruction.
ThenKept(s, pc, g, kept) ==
    IF g.ok THEN SubSeq(s, pc + 1, g.pc) \o kept[g.pc] ELSE SubSeq(s, pc + 1, Len(s))
FindAndDelete(s, b) ==
    LET n == Len(b)
        kept[pc \in 0..Len(s)] ==
            IF Len(s) - pc >= n /\ SubSeq(s, pc + 1, pc + n) = b THEN kept[pc + n]
            ELSE ThenKept(s, pc, GetScriptOp(s, pc), kept)
    IN  kept[0]

-----------------------------------------------------------------------------
(* Instructions.  Each takes the machine m and the flags F to the machine after it. *)

Fail(m, e) == [m EXCEPT !.err = e]
Put(m, s) == [m EXCEPT !.stack = s]
StackError(m) == Fail(m, "INVALID_STACK_OPERATION")

\* The opcodes that only move elements: how many they take, and which of these, counted
\* from the lowest, they leave.
Moves(opcode) ==
    CASE opcode = Op.OP_2DROP -> << 2, << >> >>
      [] opcode = Op.OP_2DUP -> << 2, << 1, 2, 1, 2 >> >>
      [] opcode = Op.OP_3DUP -> << 3, << 1, 2, 3, 1, 2, 3 >> >>
      [] opcode = Op.OP_2OVER -> << 4, << 1, 2, 3, 4, 1, 2 >> >>
      [] opcode = Op.OP_2ROT -> << 6, << 3, 4, 5, 6, 1, 2 >> >>
      [] opcode = Op.OP_2SWAP -> << 4, << 3, 4, 1, 2 >> >>
      [] opcode = Op.OP_DROP -> << 1, << >> >>
      [] opcode = Op.OP_DUP -> << 1, << 1, 1 >> >>
      [] opcode = Op.OP_NIP -> << 2, << 2 >> >>
      [] opcode = Op.OP_OVER -> << 2, << 1, 2, 1 >> >>
      [] opcode = Op.OP_ROT -> << 3, << 2, 3, 1 >> >>
      [] opcode = Op.OP_SWAP -> << 2, << 2, 1 >> >>
      [] opcode = Op.OP_TUCK -> << 2, << 2, 1, 2 >> >>
      [] OTHER -> << 0, << >> >>

DoMove(m, opcode) ==
    LET n == Moves(opcode)[1]
        picks == Moves(opcode)[2]
        base == Len(m.stack) - n
    IN  IF base < 0 THEN StackError(m)
        ELSE Put(m, Drop(m.stack, n) \o [i \in 1..Len(picks) |-> m.stack[base + picks[i]]])

DoAltStack(m, opcode) ==
    IF opcode = Op.OP_TOALTSTACK
    THEN IF m.stack = << >> THEN StackError(m)
         ELSE [m EXCEPT !.altstack = Append(@, Top(m.stack, 1)), !.stack = Drop(@, 1)]
    ELSE IF m.altstack = << >> THEN Fail(m, "INVALID_ALTSTACK_OPERATION")
         ELSE [m EXCEPT !.stack = Append(@, Top(m.altstack, 1)), !.altstack = Drop(@, 1)]

\* OP_IFDUP, OP_DEPTH, OP_SIZE.
DoInspect(m, opcode) ==
    LET s == m.stack
    IN  IF opcode = Op.OP_DEPTH THEN Put(m, Append(s, serialize(Len(s))))
        ELSE IF s = << >> THEN StackError(m)
        ELSE IF opcode = Op.OP_SIZE THEN Put(m, Append(s, serialize(Len(Top(s, 1)))))
        ELSE IF CastToBool(Top(s, 1)) THEN Put(m, Append(s, Top(s, 1)))
        ELSE m

Minimal(F) == "MINIMALDATA" \in F
IsOperand(v, F) == IsNum(v, Minimal(F), nDefaultMaxNumSize)
\* A number that does not read throws, and the catch of EvalScript turns that into this.
NumError(m) == Fail(m, "UNKNOWN_ERROR")

DoPick(m, opcode, F) ==
    LET s == Drop(m.stack, 1)
        n == set_vch(Top(m.stack, 1))
        at == Len(s) - n
    IN  IF Len(m.stack) < 2 THEN StackError(m)
        ELSE IF ~IsOperand(Top(m.stack, 1), F) THEN NumError(m)
        ELSE IF n < 0 \/ n >= Len(s) THEN StackError(m)
        ELSE IF opcode = Op.OP_PICK THEN Put(m, Append(s, s[at]))
        ELSE Put(m, SubSeq(s, 1, at - 1) \o SubSeq(s, at + 1, Len(s)) \o << s[at] >>)

\* The end of the opcodes with a VERIFY form: the value is dropped if it is true.
Verified(m, isVerify, ok, e) ==
    IF ~isVerify THEN Put(m, Append(m.stack, Bool(ok)))
    ELSE IF ok THEN m
    ELSE Fail(m, e)

DoEqual(m, opcode) ==
    IF Len(m.stack) < 2 THEN StackError(m)
    ELSE Verified(Put(m, Drop(m.stack, 2)), opcode = Op.OP_EQUALVERIFY,
                  Top(m.stack, 2) = Top(m.stack, 1), "EQUALVERIFY")

Truth(b) == IF b THEN 1 ELSE 0

Unary(opcode, n) ==
    CASE opcode = Op.OP_1ADD -> n + 1
      [] opcode = Op.OP_1SUB -> n - 1
      [] opcode = Op.OP_NEGATE -> -n
      [] opcode = Op.OP_ABS -> IF n < 0 THEN -n ELSE n
      [] opcode = Op.OP_NOT -> Truth(n = 0)
      [] opcode = Op.OP_0NOTEQUAL -> Truth(n # 0)

DoUnary(m, opcode, F) ==
    IF m.stack = << >> THEN StackError(m)
    ELSE IF ~IsOperand(Top(m.stack, 1), F) THEN NumError(m)
    ELSE Put(m, Append(Drop(m.stack, 1), serialize(Unary(opcode, set_vch(Top(m.stack, 1))))))

Binary(opcode, a, b) ==
    CASE opcode = Op.OP_ADD -> a + b
      [] opcode = Op.OP_SUB -> a - b
      [] opcode = Op.OP_BOOLAND -> Truth(a # 0 /\ b # 0)
      [] opcode = Op.OP_BOOLOR -> Truth(a # 0 \/ b # 0)
      [] opcode \in {Op.OP_NUMEQUAL, Op.OP_NUMEQUALVERIFY} -> Truth(a = b)
      [] opcode = Op.OP_NUMNOTEQUAL -> Truth(a # b)
      [] opcode = Op.OP_LESSTHAN -> Truth(a < b)
      [] opcode = Op.OP_GREATERTHAN -> Truth(a > b)
      [] opcode = Op.OP_LESSTHANOREQUAL -> Truth(a <= b)
      [] opcode = Op.OP_GREATERTHANOREQUAL -> Truth(a >= b)
      [] opcode = Op.OP_MIN -> IF a < b THEN a ELSE b
      [] opcode = Op.OP_MAX -> IF a > b THEN a ELSE b

DoBinary(m, opcode, F) ==
    LET r == serialize(Binary(opcode, set_vch(Top(m.stack, 2)), set_vch(Top(m.stack, 1))))
        rest == Put(m, Drop(m.stack, 2))
    IN  IF Len(m.stack) < 2 THEN StackError(m)
        ELSE IF ~(IsOperand(Top(m.stack, 2), F) /\ IsOperand(Top(m.stack, 1), F)) THEN NumError(m)
        ELSE IF opcode = Op.OP_NUMEQUALVERIFY
             THEN Verified(rest, TRUE, CastToBool(r), "NUMEQUALVERIFY")
        ELSE Put(rest, Append(rest.stack, r))

DoWithin(m, F) ==
    LET Arg(i) == set_vch(Top(m.stack, i))
    IN  IF Len(m.stack) < 3 THEN StackError(m)
        ELSE IF \E i \in 1..3 : ~IsOperand(Top(m.stack, i), F) THEN NumError(m)
        ELSE Put(m, Append(Drop(m.stack, 3), Bool(Arg(2) <= Arg(3) /\ Arg(3) < Arg(1))))

DoHash(m, opcode) ==
    IF m.stack = << >> THEN StackError(m)
    ELSE Put(m, Append(Drop(m.stack, 1), HashOf(opcode, Top(m.stack, 1))))

\* The part of the script that signatures sign, and whether it held one of them.
CodeWithout(m, sigs) ==
    LET scriptCode == SubSeq(m.script, m.begin + 1, Len(m.script))
        left[k \in 0..Len(sigs)] ==
            IF k = 0 THEN scriptCode ELSE FindAndDelete(left[k - 1], PushData(sigs[k]))
    IN  IF m.ver = "BASE" THEN left[Len(sigs)] ELSE scriptCode
HoldsSig(m, sigs) == Len(CodeWithout(m, sigs)) # Len(m.script) - m.begin

DoCheckSig(m, opcode, F, checker) ==
    LET sig == Top(m.stack, 2)
        key == Top(m.stack, 1)
        e == EncodingError(sig, key, F, m.ver)
        ok == CheckSig(checker, sig, key, CodeWithout(m, << sig >>), m.ver)
    IN  IF Len(m.stack) < 2 THEN StackError(m)
        ELSE IF "CONST_SCRIPTCODE" \in F /\ HoldsSig(m, << sig >>) THEN Fail(m, "SIG_FINDANDDELETE")
        ELSE IF e # "OK" THEN Fail(m, e)
        ELSE IF ~ok /\ "NULLFAIL" \in F /\ sig # << >> THEN Fail(m, "SIG_NULLFAIL")
        ELSE Verified([m EXCEPT !.stack = Drop(@, 2), !.checks = @ + 1],
                      opcode = Op.OP_CHECKSIGVERIFY, ok, "CHECKSIGVERIFY")

\* Mutated form: a key is used again after its signature.
TriedAgain(m, sigs, keys, checker) ==
    LET pairs[s \in 1..Len(sigs) + 1, k \in 1..Len(keys) + 1] ==
            IF s > Len(sigs) \/ Len(sigs) - s > Len(keys) - k THEN << >>
            ELSE << << s, k >> >> \o
                 (IF CheckSig(checker, sigs[s], keys[k], CodeWithout(m, sigs), m.ver)
                  THEN pairs[s + 1, k] ELSE pairs[s, k + 1])
    IN  pairs[1, 1]

\* The pairs of a signature and a key that CHECKMULTISIG looks at, in order: a signature
\* that does not fit a key is tried with the next one, until too few keys are left.
Tried(m, sigs, keys, checker) ==
    LET scriptCode == CodeWithout(m, sigs)
        pairs[s \in 1..Len(sigs) + 1, k \in 1..Len(keys) + 1] ==
            IF s > Len(sigs) \/ Len(sigs) - s > Len(keys) - k THEN << >>
            ELSE << << s, k >> >> \o
                 (IF CheckSig(checker, sigs[s], keys[k], scriptCode, m.ver)
                  THEN pairs[s + 1, k + 1] ELSE pairs[s, k + 1])
    IN  pairs[1, 1]

\* Every signature fits a key: the last pair is the last signature, and fits.
AllFit(m, sigs, keys, checker, tried) ==
    \/ sigs = << >>
    \/ LET last == tried[Len(tried)]
       IN  /\ last[1] = Len(sigs)
           /\ CheckSig(checker, sigs[last[1]], keys[last[2]], CodeWithout(m, sigs), m.ver)

PairErrors(m, sigs, keys, F, tried) ==
    {EncodingError(sigs[pair[1]], keys[pair[2]], F, m.ver) : pair \in Range(tried)} \ {"OK"}

\* What the pairs lead to; the code reports the first of the errors.
EndMultiSig(m, opcode, F, nKeys, sigs, errors, ok, nChecks) ==
    LET n == nKeys + Len(sigs) + 3
    IN  IF errors # {} THEN Fail(m, CHOOSE e \in errors : TRUE)
        ELSE IF ~ok /\ "NULLFAIL" \in F /\ \E k \in DOMAIN sigs : sigs[k] # << >>
             THEN Fail(m, "SIG_NULLFAIL")
        ELSE IF "NULLDUMMY" \in F /\ Top(m.stack, n) # << >> THEN Fail(m, "SIG_NULLDUMMY")
        ELSE Verified([m EXCEPT !.stack = Drop(@, n), !.nOpCount = @ + nKeys,
                                !.checks = @ + nChecks],
                      opcode = Op.OP_CHECKMULTISIGVERIFY, ok, "CHECKMULTISIGVERIFY")

CheckPairs(m, opcode, F, checker, sigs, keys, tried) ==
    EndMultiSig(m, opcode, F, Len(keys), sigs, PairErrors(m, sigs, keys, F, tried),
                AllFit(m, sigs, keys, checker, tried), Len(tried))

TakeSigs(m, opcode, F, checker, sigs, keys) ==
    IF "CONST_SCRIPTCODE" \in F /\ HoldsSig(m, sigs) THEN Fail(m, "SIG_FINDANDDELETE")
    ELSE CheckPairs(m, opcode, F, checker, sigs, keys, Tried(m, sigs, keys, checker))

TakeKeys(m, opcode, F, checker, nKeys, nSigs) ==
    IF nSigs < 0 \/ nSigs > nKeys THEN Fail(m, "SIG_COUNT")
    ELSE IF Len(m.stack) < nKeys + nSigs + 3 THEN StackError(m)
    ELSE TakeSigs(m, opcode, F, checker, [k \in 1..nSigs |-> Top(m.stack, nKeys + 2 + k)],
                  [k \in 1..nKeys |-> Top(m.stack, 1 + k)])

TakeKeyCount(m, opcode, F, checker, nKeys) ==
    IF nKeys < 0 \/ nKeys > MAX_PUBKEYS_PER_MULTISIG THEN Fail(m, "PUBKEY_COUNT")
    ELSE IF m.nOpCount + nKeys > MAX_OPS_PER_SCRIPT THEN Fail(m, "OP_COUNT")
    ELSE IF Len(m.stack) < nKeys + 2 THEN StackError(m)
    ELSE IF ~IsOperand(Top(m.stack, nKeys + 2), F) THEN NumError(m)
    ELSE TakeKeys(m, opcode, F, checker, nKeys, set_vch(Top(m.stack, nKeys + 2)))

\* ([dummy] [sig ...] num_of_signatures [pubkey ...] num_of_pubkeys -- bool); the topmost
\* signature and the topmost key come first.
DoCheckMultiSig(m, opcode, F, checker) ==
    IF m.stack = << >> THEN StackError(m)
    ELSE IF ~IsOperand(Top(m.stack, 1), F) THEN NumError(m)
    ELSE TakeKeyCount(m, opcode, F, checker, set_vch(Top(m.stack, 1)))

fExec(m) == \A i \in DOMAIN m.vfExec : m.vfExec[i]

DoIf(m, opcode, F) ==
    LET v == Top(m.stack, 1)
    IN  IF ~fExec(m) THEN [m EXCEPT !.vfExec = Append(@, FALSE)]
        ELSE IF m.stack = << >> THEN Fail(m, "UNBALANCED_CONDITIONAL")
        ELSE IF m.ver = "WITNESS_V0" /\ "MINIMALIF" \in F /\ v \notin {vchFalse, vchTrue}
             THEN Fail(m, "MINIMALIF")
        ELSE [m EXCEPT !.vfExec = Append(@, CastToBool(v) = (opcode = Op.OP_IF)),
                       !.stack = Drop(@, 1)]

DoElse(m) ==
    IF m.vfExec = << >> THEN Fail(m, "UNBALANCED_CONDITIONAL")
    ELSE [m EXCEPT !.vfExec[Len(m.vfExec)] = ~@]

DoEndIf(m) ==
    IF m.vfExec = << >> THEN Fail(m, "UNBALANCED_CONDITIONAL")
    ELSE [m EXCEPT !.vfExec = Drop(@, 1)]

DoVerify(m) ==
    IF m.stack = << >> THEN StackError(m)
    ELSE IF CastToBool(Top(m.stack, 1)) THEN Put(m, Drop(m.stack, 1))
    ELSE Fail(m, "VERIFY")

\* Mutated form: the flag makes the opcode take its operand.
DoLockDrops(m, opcode, F, checker) ==
    IF {"CHECKLOCKTIMEVERIFY", "CHECKSEQUENCEVERIFY"} \subseteq F /\ m.stack # << >>
    THEN Put(m, Drop(m.stack, 1)) ELSE m

\* OP_CHECKLOCKTIMEVERIFY and OP_CHECKSEQUENCEVERIFY: without their flag they do nothing,
\* and with it they leave the stack alone.
DoLock(m, opcode, F, checker) ==
    LET v == Top(m.stack, 1)
        n == set_vch(v)
        isTime == opcode = Op.OP_CHECKLOCKTIMEVERIFY
        off == ~isTime /\ (n \div SEQUENCE_LOCKTIME_DISABLE_FLAG) % 2 = 1
        met == IF isTime THEN CheckLockTime(checker, n) ELSE CheckSequence(checker, n)
    IN  IF (IF isTime THEN "CHECKLOCKTIMEVERIFY" ELSE "CHECKSEQUENCEVERIFY") \notin F THEN m
        ELSE IF m.stack = << >> THEN StackError(m)
        ELSE IF ~IsNum(v, Minimal(F), nLockNumSize) THEN NumError(m)
        ELSE IF n < 0 THEN Fail(m, "NEGATIVE_LOCKTIME")
        ELSE IF off \/ met THEN m
        ELSE Fail(m, "UNSATISFIED_LOCKTIME")

Disabled == {Op.OP_CAT, Op.OP_SUBSTR, Op.OP_LEFT, Op.OP_RIGHT, Op.OP_INVERT, Op.OP_AND, Op.OP_OR,
             Op.OP_XOR, Op.OP_2MUL, Op.OP_2DIV} \cup Op.OP_MUL..Op.OP_RSHIFT

\* The switch over the opcode.
Switch(m, opcode, F, checker) ==
    CASE opcode = Op.OP_1NEGATE \/ opcode \in Op.OP_1..Op.OP_16 ->
            Put(m, Append(m.stack, serialize(opcode - (Op.OP_1 - 1))))
      [] opcode = Op.OP_NOP -> m
      [] opcode \in {Op.OP_CHECKLOCKTIMEVERIFY, Op.OP_CHECKSEQUENCEVERIFY} ->
            DoLock(m, opcode, F, checker)
      [] opcode = Op.OP_NOP1 \/ opcode \in Op.OP_NOP4..Op.OP_NOP10 ->
            IF "DISCOURAGE_UPGRADABLE_NOPS" \in F THEN Fail(m, "DISCOURAGE_UPGRADABLE_NOPS") ELSE m
      [] opcode \in {Op.OP_IF, Op.OP_NOTIF} -> DoIf(m, opcode, F)
      [] opcode = Op.OP_ELSE -> DoElse(m)
      [] opcode = Op.OP_ENDIF -> DoEndIf(m)
      [] opcode = Op.OP_VERIFY -> DoVerify(m)
      [] opcode = Op.OP_RETURN -> Fail(m, "OP_RETURN")
      [] opcode \in {Op.OP_TOALTSTACK, Op.OP_FROMALTSTACK} -> DoAltStack(m, opcode)
      [] opcode \in {Op.OP_IFDUP, Op.OP_DEPTH, Op.OP_SIZE} -> DoInspect(m, opcode)
      [] opcode \in {Op.OP_PICK, Op.OP_ROLL} -> DoPick(m, opcode, F)
      [] opcode \in Op.OP_2DROP..Op.OP_TUCK \ {Op.OP_IFDUP, Op.OP_DEPTH, Op.OP_PICK, Op.OP_ROLL} ->
            DoMove(m, opcode)
      [] opcode \in {Op.OP_EQUAL, Op.OP_EQUALVERIFY} -> DoEqual(m, opcode)
      [] opcode \in {Op.OP_1ADD, Op.OP_1SUB} \cup Op.OP_NEGATE..Op.OP_0NOTEQUAL ->
            DoUnary(m, opcode, F)
      [] opcode \in {Op.OP_ADD, Op.OP_SUB} \cup Op.OP_BOOLAND..Op.OP_MAX -> DoBinary(m, opcode, F)
      [] opcode = Op.OP_WITHIN -> DoWithin(m, F)
      [] opcode \in Op.OP_RIPEMD160..Op.OP_HASH256 -> DoHash(m, opcode)
      [] opcode = Op.OP_CODESEPARATOR -> [m EXCEPT !.begin = m.pc]
      [] opcode \in {Op.OP_CHECKSIG, Op.OP_CHECKSIGVERIFY} -> DoCheckSig(m, opcode, F, checker)
      [] opcode \in {Op.OP_CHECKMULTISIG, Op.OP_CHECKMULTISIGVERIFY} ->
            DoCheckMultiSig(m, opcode, F, checker)
      [] OTHER -> Fail(m, "BAD_OPCODE")

\* Mutated form: a branch that is not taken pushes.
PerformAlways(m, g, F, checker) ==
    IF g.opcode <= Op.OP_PUSHDATA4 THEN Put(m, Append(m.stack, g.data))
    ELSE IF fExec(m) \/ g.opcode \in Op.OP_IF..Op.OP_ENDIF THEN Switch(m, g.opcode, F, checker)
    ELSE m

\* What an instruction that was read does: a push, the switch, or nothing in a branch that
\* is not executed.
Perform(m, g, F, checker) ==
    IF fExec(m) /\ g.opcode <= Op.OP_PUSHDATA4
    THEN IF Minimal(F) /\ ~CheckMinimalPush(g.data, g.opcode) THEN Fail(m, "MINIMALDATA")
         ELSE Put(m, Append(m.stack, g.data))
    ELSE IF fExec(m) \/ g.opcode \in Op.OP_IF..Op.OP_ENDIF THEN Switch(m, g.opcode, F, checker)
    ELSE m

\* The machine after the instruction is read and counted.
Fetched(m, g) ==
    [m EXCEPT !.pc = g.pc, !.nOpCount = @ + (IF g.opcode > Op.OP_16 THEN 1 ELSE 0)]

\* Mutated form: the second stack does not count.
TooDeepAlone(m) == Len(m.stack) > MAX_STACK_SIZE

TooDeep(m) == Len(m.stack) + Len(m.altstack) > MAX_STACK_SIZE

KeepDepth(m, r) == IF r.err = "" /\ TooDeep(r) THEN Fail(m, "STACK_SIZE") ELSE r

\* The instruction g, unless it was not read or is not allowed.
Take(m, g, F, checker) ==
    IF ~g.ok THEN Fail(m, "BAD_OPCODE")
    ELSE IF Len(g.data) > MAX_SCRIPT_ELEMENT_SIZE THEN Fail(m, "PUSH_SIZE")
    ELSE IF Fetched(m, g).nOpCount > MAX_OPS_PER_SCRIPT THEN Fail(m, "OP_COUNT")
    ELSE IF g.opcode \in Disabled THEN Fail(m, "DISABLED_OPCODE")
    ELSE IF g.opcode = Op.OP_CODESEPARATOR /\ m.ver = "BASE" /\ "CONST_SCRIPTCODE" \in F
         THEN Fail(m, "OP_CODESEPARATOR")
    ELSE KeepDepth(m, Perform(Fetched(m, g), g, F, checker))

\* One turn of the loop of EvalScript.
EvalOp(m, F, checker) == Take(m, GetScriptOp(m.script, m.pc), F, checker)

-----------------------------------------------------------------------------
(* VerifyScript: the script of the input, the script of the output on its stack, then *)
(* the script that the output names by hash, from the stack or from the witness.       *)

\* The start of EvalScript.
Enter(m, phase, script, stack, ver) ==
    LET n == [m EXCEPT !.phase = phase, !.script = script, !.stack = stack, !.ver = ver,
                       !.pc = 0, !.begin = 0, !.altstack = << >>, !.vfExec = << >>,
                       !.nOpCount = 0, !.checks = 0]
    IN  IF Len(script) > MAX_SCRIPT_SIZE THEN Fail(n, "SCRIPT_SIZE") ELSE n

\* The checks at the end; clean says that one element is left.
Conclude(m, sp, F, clean) ==
    IF ~LegalFlags(F) THEN Fail(m, "ASSERT")
    ELSE IF "CLEANSTACK" \in F /\ ~clean THEN Fail(m, "CLEANSTACK")
    ELSE IF "WITNESS" \in F /\ ~m.hadWitness /\ sp.wit # << >> THEN Fail(m, "WITNESS_UNEXPECTED")
    ELSE Fail(m, "OK")

\* VerifyWitnessProgram up to its EvalScript.  Its caller leaves one element on its stack.
EnterWitness(m, sp, F, prog) ==
    LET n == [m EXCEPT !.hadWitness = TRUE]
        program == WitnessProgram(prog)
        items == Drop(sp.wit, 1)
        Eval(script, stack) ==
            IF \E i \in DOMAIN stack : Len(stack[i]) > MAX_SCRIPT_ELEMENT_SIZE
            THEN Fail(n, "PUSH_SIZE")
            ELSE Enter(n, "witness", script, stack, "WITNESS_V0")
    IN  IF WitnessVersion(prog) # 0
        THEN IF "DISCOURAGE_UPGRADABLE_WITNESS_PROGRAM" \in F
             THEN Fail(n, "DISCOURAGE_UPGRADABLE_WITNESS_PROGRAM")
             ELSE Conclude(n, sp, F, TRUE)
        ELSE IF Len(program) = 32
        THEN IF sp.wit = << >> THEN Fail(n, "WITNESS_PROGRAM_WITNESS_EMPTY")
             ELSE IF HashOf(Op.OP_SHA256, Top(sp.wit, 1)) # program
                  THEN Fail(n, "WITNESS_PROGRAM_MISMATCH")
             ELSE Eval(Top(sp.wit, 1), items)
        ELSE IF Len(program) = 20
        THEN IF Len(sp.wit) # 2 THEN Fail(n, "WITNESS_PROGRAM_MISMATCH")
             ELSE Eval(<< Op.OP_DUP, Op.OP_HASH160 >> \o PushData(program)
                        \o << Op.OP_EQUALVERIFY, Op.OP_CHECKSIG >>, sp.wit)
        ELSE Fail(n, "WITNESS_PROGRAM_WRONG_LENGTH")

\* Mutated form: the stack that the output's script left is not put back.
EnterRedeemOnStack(m, sp) ==
    IF ~IsPushOnly(sp.sig, 0) THEN Fail(m, "SIG_PUSHONLY")
    ELSE Enter(m, "redeem", Top(m.stack, 1), Drop(m.stack, 1), "BASE")

EnterRedeem(m, sp) ==
    IF ~IsPushOnly(sp.sig, 0) THEN Fail(m, "SIG_PUSHONLY")
    ELSE IF m.copy = << >> THEN Fail(m, "ASSERT")
    ELSE Enter(m, "redeem", Top(m.copy, 1), Drop(m.copy, 1), "BASE")

IsTrue(stack) == stack # << >> /\ CastToBool(Top(stack, 1))

AfterSig(m, sp, F) ==
    [Enter(m, "pub", sp.pub, m.stack, "BASE") EXCEPT !.copy = m.stack]

AfterPub(m, sp, F) ==
    IF ~IsTrue(m.stack) THEN Fail(m, "EVAL_FALSE")
    ELSE IF "WITNESS" \in F /\ IsWitnessProgram(sp.pub)
    THEN IF sp.sig # << >> THEN Fail(m, "WITNESS_MALLEATED")
         ELSE EnterWitness(m, sp, F, sp.pub)
    ELSE IF "P2SH" \in F /\ IsPayToScriptHash(sp.pub) THEN EnterRedeem(m, sp)
    ELSE Conclude(m, sp, F, Len(m.stack) = 1)

AfterRedeem(m, sp, F) ==
    IF ~IsTrue(m.stack) THEN Fail(m, "EVAL_FALSE")
    ELSE IF "WITNESS" \in F /\ IsWitnessProgram(m.script)
    THEN IF sp.sig # PushData(m.script) THEN Fail(m, "WITNESS_MALLEATED_P2SH")
         ELSE EnterWitness(m, sp, F, m.script)
    ELSE Conclude(m, sp, F, Len(m.stack) = 1)

\* What VerifyWitnessProgram checks after its script.
AfterWitness(m, sp, F) ==
    IF Len(m.stack) # 1 THEN Fail(m, "CLEANSTACK")
    ELSE IF ~IsTrue(m.stack) THEN Fail(m, "EVAL_FALSE")
    ELSE Conclude(m, sp, F, TRUE)

\* The end of EvalScript and what its caller does next.
EndScript(m, sp, F) ==
    IF m.vfExec # << >> THEN Fail(m, "UNBALANCED_CONDITIONAL")
    ELSE CASE m.phase = "sig" -> AfterSig(m, sp, F)
           [] m.phase = "pub" -> AfterPub(m, sp, F)
           [] m.phase = "redeem" -> AfterRedeem(m, sp, F)
           [] OTHER -> AfterWitness(m, sp, F)

\* The start of VerifyScript.
Start(sp, F) ==
    LET m == [phase |-> "sig", script |-> sp.sig, ver |-> "BASE", pc |-> 0, begin |-> 0,
              stack |-> << >>, altstack |-> << >>, vfExec |-> << >>, nOpCount |-> 0,
              checks |-> 0, copy |-> << >>, hadWitness |-> FALSE, err |-> ""]
    IN  IF "SIGPUSHONLY" \in F /\ ~IsPushOnly(sp.sig, 0) THEN Fail(m, "SIG_PUSHONLY")
        ELSE Enter(m, "sig", sp.sig, << >>, "BASE")

Advance(m, sp, F) ==
    IF m.err # "" THEN m
    ELSE IF m.pc < Len(m.script) THEN EvalOp(m, F, sp.checker)
    ELSE EndScript(m, sp, F)

Init ==
    /\ spend \in Spends
    /\ run = [F \in spend.flags |-> Start(spend, F)]

Step ==
    /\ \E F \in spend.flags : run[F].err = ""
    /\ run' = [F \in spend.flags |-> Advance(run[F], spend, F)]
    /\ UNCHANGED spend

Next == Step

Spec == Init /\ [][Next]_vars

-----------------------------------------------------------------------------
(* Properties *)

Running(m) == m.err = ""
Failed(m) == m.err \notin {"", "OK"}
PhaseRank(m) == CASE m.phase = "sig" -> 1 [] m.phase = "pub" -> 2
                  [] m.phase = "redeem" -> 3 [] m.phase = "witness" -> 4
NextOp(m) == GetScriptOp(m.script, m.pc)

\* Every run is a machine with a script, stacks of byte vectors and a position in the script.
TypeOK ==
    /\ DOMAIN run = spend.flags
    /\ \A F \in spend.flags :
          /\ run[F].phase \in {"sig", "pub", "redeem", "witness"}
          /\ run[F].pc \in 0..Len(run[F].script) /\ run[F].begin \in 0..run[F].pc
          /\ \A i \in DOMAIN run[F].stack : \A j \in DOMAIN run[F].stack[i] :
                run[F].stack[i][j] \in Byte
          /\ run[F].hadWitness \in BOOLEAN

\* All flags are soft forks: what fails under some flags fails under more of them, and what
\* is good under more flags is good under fewer.  (The comment at the flags of interpreter.h.)
SoftFork ==
    \A F, G \in spend.flags :
        F \subseteq G =>
            /\ Failed(run[F]) => Failed(run[G])
            /\ run[G].err = "OK" => run[F].err = "OK"

\* The limits that bound the memory and the time of a script hold after every instruction of
\* every script, for results of opcodes too; only a stack that the witness brings may be
\* deeper, until the first instruction.
Limits ==
    \A F \in spend.flags : ~Failed(run[F]) =>
        /\ run[F].phase # "witness" \/ run[F].pc > 0 =>
              Len(run[F].stack) + Len(run[F].altstack) <= MAX_STACK_SIZE
        /\ run[F].nOpCount <= MAX_OPS_PER_SCRIPT
        /\ \A i \in DOMAIN run[F].stack : Len(run[F].stack[i]) <= MAX_SCRIPT_ELEMENT_SIZE

\* Scripts make no more signature checks than the counts of script.cpp and interpreter.cpp
\* say before they are run, from the input, the output and the witness.
SigOpsAreBounded ==
    \A F \in spend.flags :
        run[F].checks <=
            CASE run[F].phase = "sig" -> GetSigOpCount(spend.sig, FALSE)
              [] run[F].phase = "pub" -> GetSigOpCount(spend.pub, TRUE)
              [] run[F].phase = "redeem" -> GetSigOpCountP2SH(spend.pub, spend.sig)
              [] run[F].phase = "witness" ->
                    CountWitnessSigOps(spend.sig, spend.pub, spend.wit, F)

\* A value is taken as a minimal number exactly if it is what the number is written as, so
\* that results of arithmetic are operands again and no two minimal values are the same number.
NumbersAreCanonical ==
    \A F \in spend.flags : \A i \in DOMAIN run[F].stack :
        LET v == run[F].stack[i]
        IN  Len(v) <= nLockNumSize =>
               (IsNum(v, TRUE, nLockNumSize) <=> serialize(set_vch(v)) = v)

\* A script is run in place of a hash only if it has that hash; the script of the output has
\* been run before, on the same elements.
RunsWhatWasNamed ==
    \A F \in spend.flags :
        /\ run[F].phase = "redeem" =>
              HashOf(Op.OP_HASH160, run[F].script) = SubSeq(spend.pub, 3, 22)
        /\ run[F].phase = "witness" /\ run[F].copy = << >> /\ Len(spend.pub) = 34 =>
              HashOf(Op.OP_SHA256, run[F].script) = WitnessProgram(spend.pub)
        /\ run[F].phase = "witness" => spend.sig \in {<< >>, PushData(LastPush(spend.sig))}

\* No assertion of VerifyScript fails under flags that go together.
NoAssert == \A F \in spend.flags : LegalFlags(F) => run[F].err # "ASSERT"

Fit(m, checker, sig, key, code) == CheckSig(checker, sig, key, code, m.ver)
\* The signatures can be given keys of their own in the order of the keys.
InOrder(m, checker, sigs, keys, code) ==
    \E key \in [DOMAIN sigs -> DOMAIN keys] :
        /\ \A i, j \in DOMAIN sigs : i < j => key[i] < key[j]
        /\ \A i \in DOMAIN sigs : Fit(m, checker, sigs[i], keys[key[i]], code)
RightlyMatched(m, checker, r, sigs, keys) ==
    Running(r) => (CastToBool(Top(r.stack, 1))
                   <=> InOrder(m, checker, sigs, keys, CodeWithout(m, sigs)))

\* CHECKMULTISIG, which tries each key once and in order, accepts exactly if the signatures
\* can be given keys of their own in the order of the keys.
MultiSigMatches ==
    \A F \in spend.flags :
        LET m == run[F]
            nKeys == set_vch(Top(m.stack, 1))
            nSigs == set_vch(Top(m.stack, nKeys + 2))
        IN  /\ Running(m) /\ m.pc < Len(m.script) /\ fExec(m)
            /\ NextOp(m).opcode = Op.OP_CHECKMULTISIG
            => RightlyMatched(m, spend.checker, EvalOp(m, F, spend.checker),
                              [k \in 1..nSigs |-> Top(m.stack, nKeys + 2 + k)],
                              [k \in 1..nKeys |-> Top(m.stack, 1 + k)])

\* Instructions of a branch that is not taken touch neither stack and check no signature.
SkippedIsInert ==
    [][\A F \in spend.flags :
         /\ run[F].phase = run'[F].phase /\ ~fExec(run[F]) /\ Running(run'[F])
         => /\ run'[F].stack = run[F].stack
            /\ run'[F].altstack = run[F].altstack
            /\ run'[F].checks = run[F].checks
            /\ run'[F].begin = run[F].begin]_vars

\* Every verification ends: an instruction leads to a later one of the same script, a script
\* to a later one of the four, and nothing leads back.
AlwaysForward ==
    [][\A F \in spend.flags : Running(run[F]) =>
         \/ ~Running(run'[F])
         \/ run'[F].phase = run[F].phase /\ run'[F].pc > run[F].pc
         \/ PhaseRank(run'[F]) > PhaseRank(run[F])]_vars
=============================================================================
