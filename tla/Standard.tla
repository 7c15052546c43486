------------------------------ MODULE Standard ------------------------------
(***************************************************************************)
(* The forms of output scripts that have a destination, and the scripts of *)
(* destinations: script/standard.cpp.  A destination is a record of its    *)
(* kind and what it holds.                                                 *)
(***************************************************************************)
EXTENDS Interpreter, SigHash, FiniteSetsExt

PUBLIC_KEY_SIZE == 65
COMPRESSED_PUBLIC_KEY_SIZE == 33

\* The key of a pay-to-pubkey script, empty if it is none.
MatchPayToPubkey(s) ==
    LET n == Len(s) - 2
        key == SubSeq(s, 2, n + 1)
    IN  IF /\ n \in {PUBLIC_KEY_SIZE, COMPRESSED_PUBLIC_KEY_SIZE}
           /\ s[1] = n
           /\ s[n + 2] = Op.OP_CHECKSIG
           /\ ValidSize(key)
        THEN key ELSE << >>

MatchPayToPubkeyHash(s) ==
    /\ Len(s) = 25
    /\ SubSeq(s, 1, 3) = << Op.OP_DUP, Op.OP_HASH160, 20 >>
    /\ SubSeq(s, 24, 25) = << Op.OP_EQUALVERIFY, Op.OP_CHECKSIG >>

IsSmallInteger(opcode) == opcode \in Op.OP_1..Op.OP_16

NoMultisig == [ok |-> FALSE, required |-> 0, keys |-> << >>]
\* The keys are read as long as they have a valid size; the instruction that ends them gives
\* their number, and only OP_CHECKMULTISIG comes after it.
EndsKeys(g) == ~g.ok \/ ~ValidSize(g.data)
MultisigOf(s, first, end, keys) ==
    [ok |-> /\ IsSmallInteger(end.opcode)
            /\ Len(keys) = DecodeOP_N(end.opcode)
            /\ DecodeOP_N(first.opcode) <= Len(keys)
            /\ end.pc + 1 = Len(s),
     required |-> DecodeOP_N(first.opcode), keys |-> keys]
MultisigOps(s, ops) ==
    LET ends == {i \in 2..Len(ops) : EndsKeys(ops[i])}
        end == Min(ends)
    IN  IF ~ops[1].ok \/ ~IsSmallInteger(ops[1].opcode) \/ ends = {} THEN NoMultisig
        ELSE MultisigOf(s, ops[1], ops[end], [i \in 1..(end - 2) |-> ops[i + 1].data])
MatchMultisig(s) ==
    IF s = << >> THEN NoMultisig
    ELSE IF s[Len(s)] # Op.OP_CHECKMULTISIG THEN NoMultisig
    ELSE MultisigOps(s, OpsFrom(s, 0))

Solved(t, v) == [type |-> t, solutions |-> v]
SolvedMultisig(multi) ==
    IF multi.ok
    THEN Solved("MULTISIG", << << multi.required >> >> \o multi.keys \o << << Len(multi.keys) >> >>)
    ELSE Solved("NONSTANDARD", << >>)
SolvedWitness(version, program) ==
    IF version # 0 THEN Solved("WITNESS_UNKNOWN", << << version >>, program >>)
    ELSE IF Len(program) = 20 THEN Solved("WITNESS_V0_KEYHASH", << program >>)
    ELSE IF Len(program) = 32 THEN Solved("WITNESS_V0_SCRIPTHASH", << program >>)
    ELSE Solved("NONSTANDARD", << >>)

\* The type of a script and what is read from it.
Solver(s) ==
    IF IsPayToScriptHash(s) THEN Solved("SCRIPTHASH", << SubSeq(s, 3, 22) >>)
    ELSE IF IsWitnessProgram(s) THEN SolvedWitness(WitnessVersion(s), WitnessProgram(s))
    ELSE IF s # << >> /\ s[1] = Op.OP_RETURN /\ IsPushOnly(s, 1) THEN Solved("NULL_DATA", << >>)
    ELSE IF MatchPayToPubkey(s) # << >> THEN Solved("PUBKEY", << MatchPayToPubkey(s) >>)
    ELSE IF MatchPayToPubkeyHash(s) THEN Solved("PUBKEYHASH", << SubSeq(s, 4, 23) >>)
    ELSE SolvedMultisig(MatchMultisig(s))

NoDestination == [kind |-> "CNoDestination", data |-> << >>, version |-> 0]
Dest(kind, data) == [kind |-> kind, data |-> data, version |-> 0]
PKHash(key) == Dest("PKHash", HashOf(Op.OP_HASH160, key))

DestinationOf(r) ==
    CASE r.type = "PUBKEY" -> PKHash(r.solutions[1])
      [] r.type = "PUBKEYHASH" -> Dest("PKHash", r.solutions[1])
      [] r.type = "SCRIPTHASH" -> Dest("ScriptHash", r.solutions[1])
      [] r.type = "WITNESS_V0_KEYHASH" -> Dest("WitnessV0KeyHash", r.solutions[1])
      [] r.type = "WITNESS_V0_SCRIPTHASH" -> Dest("WitnessV0ScriptHash", r.solutions[1])
      [] r.type = "WITNESS_UNKNOWN" ->
            [Dest("WitnessUnknown", r.solutions[2]) EXCEPT !.version = r.solutions[1][1]]
      [] OTHER -> NoDestination
ExtractDestination(s) == DestinationOf(Solver(s))

OneDestination(d) ==
    IF d = NoDestination THEN [addresses |-> << >>, required |-> 0]
    ELSE [addresses |-> << d >>, required |-> 1]
KeysOf(r) == SubSeq(r.solutions, 2, Len(r.solutions) - 1)

\* Mutated form: the number of keys is taken for the number of signatures.
DestinationsSwapped(r) ==
    [addresses |-> << >>, required |-> IF r.type = "MULTISIG" THEN r.solutions[Len(r.solutions)][1] ELSE 1]

\* The addresses of a script and how many of them must sign; none if there is no destination.
DestinationsOf(r) ==
    IF r.type = "MULTISIG"
    THEN [addresses |-> [i \in 1..Len(r.solutions) - 2 |-> PKHash(KeysOf(r)[i])],
          required |-> r.solutions[1][1]]
    ELSE OneDestination(DestinationOf(r))
ExtractDestinations(s) == DestinationsOf(Solver(s))

GetScriptForDestination(d) ==
    CASE d.kind = "CNoDestination" -> << >>
      [] d.kind = "PKHash" -> << Op.OP_DUP, Op.OP_HASH160 >> \o PushData(d.data)
                              \o << Op.OP_EQUALVERIFY, Op.OP_CHECKSIG >>
      [] d.kind = "ScriptHash" -> << Op.OP_HASH160 >> \o PushData(d.data) \o << Op.OP_EQUAL >>
      [] d.kind \in {"WitnessV0KeyHash", "WitnessV0ScriptHash"} -> << Op.OP_0 >> \o PushData(d.data)
      [] d.kind = "WitnessUnknown" -> << EncodeOP_N(d.version) >> \o PushData(d.data)

GetScriptForRawPubKey(key) == PushData(key) \o << Op.OP_CHECKSIG >>

GetScriptForMultisig(nRequired, keys) ==
    LET pushes[i \in 0..Len(keys)] == IF i = 0 THEN << >> ELSE pushes[i - 1] \o PushData(keys[i])
    IN  << EncodeOP_N(nRequired) >> \o pushes[Len(keys)]
        \o << EncodeOP_N(Len(keys)), Op.OP_CHECKMULTISIG >>

-----------------------------------------------------------------------------
(* Properties *)

\* The script made again from what Solver read.
MadeFrom(r) ==
    CASE r.type = "PUBKEY" -> GetScriptForRawPubKey(r.solutions[1])
      [] r.type = "MULTISIG" -> GetScriptForMultisig(r.solutions[1][1], KeysOf(r))
      [] OTHER -> GetScriptForDestination(DestinationOf(r))
Datas(ops) == [i \in DOMAIN ops |-> ops[i].data]
ReadsAll(s, r, again) ==
    Datas(OpsFrom(again, 0)) = Datas(OpsFrom(s, 0)) /\ Solver(again) = r
MakesAgain(s, r) == r.type \in {"NONSTANDARD", "NULL_DATA"} \/ ReadsAll(s, r, MadeFrom(r))

\* What Solver reads from an output, here when it is about to be spent, is the whole of it:
\* the script made again from the destination, the key or the keys is the script that was
\* read, instruction by instruction.
SolverReadsAll ==
    (\A F \in spend.flags : run[F].phase = "sig" /\ run[F].pc = 0) =>
        MakesAgain(spend.pub, Solver(spend.pub))

SpentAs(r, sigs) ==
    /\ r.type # "NULL_DATA"
    /\ r.type = "MULTISIG" =>
          Cardinality({i \in DOMAIN sigs : sigs[i].data # << >>}) >= DestinationsOf(r).required

\* What Solver calls data is never spent, and what it calls a multisig is spent only with as
\* many signatures as it says are required.
SolverKnowsSpending ==
    (\E F \in spend.flags : run[F].err = "OK") =>
        SpentAs(Solver(spend.pub), OpsFrom(spend.sig, 0))
=============================================================================
