------------------------- MODULE InterpreterProofs -------------------------
(***************************************************************************)
(* All script flags are soft forks, for every script, witness, checker and *)
(* limit: under more flags a verification takes the same steps until it    *)
(* fails, or until the one under fewer flags has ended well.               *)
(***************************************************************************)
EXTENDS Interpreter, TLAPS

\* What holds between the results a and b of one step under fewer and under more flags.
Tighter(a, b) == Failed(b) \/ a = b

IsMachine(m) == "err" \in DOMAIN m

\* Fail sets the error of a machine.
LEMMA FailSets ==
    ASSUME NEW m, IsMachine(m), NEW e
    PROVE  Fail(m, e).err = e /\ IsMachine(Fail(m, e))
BY DEF Fail, IsMachine

\* The two errors that have a name of their own are failures.
LEMMA ErrorsFail ==
    ASSUME NEW m, IsMachine(m)
    PROVE  Failed(NumError(m)) /\ Failed(StackError(m))
BY DEF NumError, StackError, Fail, Failed, IsMachine

\* A number that reads under more flags reads under fewer.
LEMMA NumLoosens ==
    ASSUME NEW v, NEW F, NEW G, F \subseteq G, NEW n, IsNum(v, Minimal(G), n)
    PROVE  IsNum(v, Minimal(F), n)
BY DEF IsNum, Minimal

\* Encoding errors have names, and more flags find more of them.
LEMMA EncodingTightens ==
    ASSUME NEW sig, NEW key, NEW ver, NEW F, NEW G, F \subseteq G
    PROVE  /\ EncodingError(sig, key, F, ver) # ""
           /\ EncodingError(sig, key, G, ver) = "OK" => EncodingError(sig, key, F, ver) = "OK"
BY DEF EncodingError, CheckSignatureEncoding, CheckPubKeyEncoding

\* The instructions that read numbers.
LEMMA NumericTightens ==
    ASSUME NEW m, IsMachine(m), NEW op, NEW F, NEW G, F \subseteq G
    PROVE  /\ Tighter(DoPick(m, op, F), DoPick(m, op, G))
           /\ Tighter(DoUnary(m, op, F), DoUnary(m, op, G))
           /\ Tighter(DoBinary(m, op, F), DoBinary(m, op, G))
           /\ Tighter(DoWithin(m, F), DoWithin(m, G))
<1>1. \A v : IsOperand(v, G) => IsOperand(v, F)
  BY NumLoosens DEF IsOperand
<1>2. Failed(NumError(m)) /\ Failed(StackError(m))
  BY ErrorsFail
<1>3. Tighter(DoPick(m, op, F), DoPick(m, op, G))
  BY <1>1, <1>2 DEF DoPick, Tighter
<1>4. Tighter(DoUnary(m, op, F), DoUnary(m, op, G))
  BY <1>1, <1>2 DEF DoUnary, Tighter
<1>5. Tighter(DoBinary(m, op, F), DoBinary(m, op, G))
  BY <1>1, <1>2 DEF DoBinary, Tighter
<1>6. Tighter(DoWithin(m, F), DoWithin(m, G))
  BY <1>1, <1>2 DEF DoWithin, Tighter
<1> QED BY <1>3, <1>4, <1>5, <1>6

\* The lock-time opcodes are no-operations that may fail.
LEMMA LockTightens ==
    ASSUME NEW m, IsMachine(m), NEW op, NEW F, NEW G, F \subseteq G, NEW checker
    PROVE  Tighter(DoLock(m, op, F, checker), DoLock(m, op, G, checker))
<1>1. \A v : IsNum(v, Minimal(G), nLockNumSize) => IsNum(v, Minimal(F), nLockNumSize)
  BY NumLoosens
<1>2. \A e \in {"NEGATIVE_LOCKTIME", "UNSATISFIED_LOCKTIME"} : Failed(Fail(m, e))
  BY FailSets DEF Failed
<1>3. Failed(NumError(m)) /\ Failed(StackError(m))
  BY ErrorsFail
<1> QED BY <1>1, <1>2, <1>3 DEF DoLock, Tighter

\* Branches differ only in what a condition may be.
LEMMA IfTightens ==
    ASSUME NEW m, IsMachine(m), NEW op, NEW F, NEW G, F \subseteq G
    PROVE  Tighter(DoIf(m, op, F), DoIf(m, op, G))
BY FailSets DEF DoIf, Tighter, Failed

LEMMA CheckSigTightens ==
    ASSUME NEW m, IsMachine(m), NEW op, NEW F, NEW G, F \subseteq G, NEW checker
    PROVE  Tighter(DoCheckSig(m, op, F, checker), DoCheckSig(m, op, G, checker))
<1> DEFINE e(H) == EncodingError(Top(m.stack, 2), Top(m.stack, 1), H, m.ver)
<1>1. e(G) = "OK" => e(F) = "OK"
  BY EncodingTightens
<1>2. e(G) # ""
  BY EncodingTightens, G \subseteq G
<1>3. Failed(StackError(m))
  BY ErrorsFail
<1>4. e(G) # "OK" => Failed(Fail(m, e(G)))
  BY <1>2, FailSets DEF Failed
<1>5. \A x \in {"SIG_FINDANDDELETE", "SIG_NULLFAIL"} : Failed(Fail(m, x))
  BY FailSets DEF Failed
<1> HIDE DEF e
<1> QED
  BY <1>1, <1>3, <1>4, <1>5 DEF DoCheckSig, Tighter, e

\* CHECKMULTISIG looks at the same pairs under all flags, and finds more errors under more.
LEMMA PairsTighten ==
    ASSUME NEW m, IsMachine(m), NEW op, NEW F, NEW G, F \subseteq G, NEW checker,
           NEW sigs, NEW keys, NEW tried
    PROVE  Tighter(CheckPairs(m, op, F, checker, sigs, keys, tried),
                   CheckPairs(m, op, G, checker, sigs, keys, tried))
<1> DEFINE errors(H) == PairErrors(m, sigs, keys, H, tried)
           error(H) == CHOOSE e \in errors(H) : TRUE
           EncodingOf(pair, H) == EncodingError(sigs[pair[1]], keys[pair[2]], H, m.ver)
<1>1. \A pair : EncodingOf(pair, G) # "" /\ (EncodingOf(pair, G) = "OK" => EncodingOf(pair, F) = "OK")
  <2> TAKE pair
  <2>1. EncodingOf(pair, G) # ""
    BY EncodingTightens, G \subseteq G
  <2>2. EncodingOf(pair, G) = "OK" => EncodingOf(pair, F) = "OK"
    BY EncodingTightens
  <2> QED BY <2>1, <2>2
<1>2. \A H : errors(H) = {EncodingOf(pair, H) : pair \in Range(tried)} \ {"OK"}
  BY DEF PairErrors
<1> HIDE DEF errors, EncodingOf
<1>3. errors(G) = {} => errors(F) = {}
  BY <1>1, <1>2
<1>4. errors(G) # {} => Failed(Fail(m, error(G)))
  <2>1. SUFFICES ASSUME errors(G) # {} PROVE error(G) \notin {"", "OK"}
    BY FailSets DEF Failed
  <2>2. error(G) \in errors(G)
    BY <2>1
  <2>3. \A e \in errors(G) : e # "" /\ e # "OK"
    BY <1>1, <1>2
  <2> HIDE DEF error
  <2> QED BY <2>2, <2>3
<1>5. \A x \in {"SIG_NULLFAIL", "SIG_NULLDUMMY"} : Failed(Fail(m, x))
  BY FailSets DEF Failed
<1> QED
  BY <1>3, <1>4, <1>5 DEF CheckPairs, EndMultiSig, Tighter, errors

LEMMA MultiSigTightens ==
    ASSUME NEW m, IsMachine(m), NEW op, NEW F, NEW G, F \subseteq G, NEW checker
    PROVE  Tighter(DoCheckMultiSig(m, op, F, checker), DoCheckMultiSig(m, op, G, checker))
<1>1. \A x \in {"PUBKEY_COUNT", "OP_COUNT", "SIG_COUNT", "SIG_FINDANDDELETE"} : Failed(Fail(m, x))
  BY FailSets DEF Failed
<1>2. Failed(NumError(m)) /\ Failed(StackError(m))
  BY ErrorsFail
<1>3. \A v : IsOperand(v, G) => IsOperand(v, F)
  BY NumLoosens DEF IsOperand
<1>4. \A sigs, keys : Tighter(TakeSigs(m, op, F, checker, sigs, keys),
                              TakeSigs(m, op, G, checker, sigs, keys))
  BY <1>1, PairsTighten DEF TakeSigs, Tighter
<1>5. \A nKeys, nSigs : Tighter(TakeKeys(m, op, F, checker, nKeys, nSigs),
                                TakeKeys(m, op, G, checker, nKeys, nSigs))
  BY <1>1, <1>2, <1>4 DEF TakeKeys, Tighter
<1>6. \A nKeys : Tighter(TakeKeyCount(m, op, F, checker, nKeys),
                         TakeKeyCount(m, op, G, checker, nKeys))
  BY <1>1, <1>2, <1>3, <1>5 DEF TakeKeyCount, Tighter
<1> QED
  BY <1>2, <1>3, <1>6 DEF DoCheckMultiSig, Tighter

\* Every opcode.
LEMMA SwitchTightens ==
    ASSUME NEW m, IsMachine(m), NEW op, NEW F, NEW G, F \subseteq G, NEW checker
    PROVE  Tighter(Switch(m, op, F, checker), Switch(m, op, G, checker))
<1>1. Failed(Fail(m, "DISCOURAGE_UPGRADABLE_NOPS"))
  BY DEF Failed, Fail, IsMachine
<1> QED
  BY <1>1, NumericTightens, LockTightens, IfTightens, CheckSigTightens, MultiSigTightens
  DEF Switch, Tighter

\* One turn of the loop of EvalScript.
LEMMA EvalOpTightens ==
    ASSUME NEW m, IsMachine(m), NEW F, NEW G, F \subseteq G, NEW checker
    PROVE  Tighter(EvalOp(m, F, checker), EvalOp(m, G, checker))
<1> DEFINE g == GetScriptOp(m.script, m.pc)
           n == Fetched(m, g)
           r(H) == Perform(n, g, H, checker)
<1>1. IsMachine(n)
  BY DEF IsMachine, Fetched
<1>2. Tighter(r(F), r(G))
  <2>1. Tighter(Switch(n, g.opcode, F, checker), Switch(n, g.opcode, G, checker))
    BY <1>1, SwitchTightens
  <2>2. Failed(Fail(n, "MINIMALDATA"))
    BY <1>1 DEF Failed, Fail, IsMachine
  <2> HIDE DEF n, g
  <2> QED BY <2>1, <2>2 DEF Perform, Minimal, Tighter
<1>3. \A x \in {"BAD_OPCODE", "PUSH_SIZE", "OP_COUNT", "DISABLED_OPCODE", "OP_CODESEPARATOR",
              "STACK_SIZE"} : Failed(Fail(m, x))
  BY FailSets DEF Failed
<1>4. Failed(r(G)) => r(G).err # ""
  BY DEF Failed
<1> HIDE DEF r
<1> QED
  BY <1>2, <1>3, <1>4 DEF EvalOp, Take, KeepDepth, Tighter, r

-----------------------------------------------------------------------------
(* From script to script *)

\* Under flags that go together the last checks fail under more flags, or pass under fewer.
LEMMA ConcludeTightens ==
    ASSUME NEW m, IsMachine(m), NEW sp, NEW F, NEW G, F \subseteq G,
           LegalFlags(F), LegalFlags(G), NEW clean
    PROVE  Failed(Conclude(m, sp, G, clean)) \/ Conclude(m, sp, F, clean) = Fail(m, "OK")
BY DEF Conclude, Failed, Fail, IsMachine

\* Without the flag of witnesses, or without that of script hashes, nothing is checked at the end.
LEMMA ConcludeWithout ==
    ASSUME NEW m, IsMachine(m), NEW sp, NEW F, LegalFlags(F), NEW clean,
           "WITNESS" \notin F \/ "P2SH" \notin F
    PROVE  Conclude(m, sp, F, clean) = Fail(m, "OK")
BY DEF Conclude, LegalFlags

\* A step under more flags fails, or the step under fewer ends well, or they are the same.
Related(a, b) == Failed(b) \/ a.err = "OK" \/ a = b

LEMMA WitnessTightens ==
    ASSUME NEW m, IsMachine(m), NEW sp, NEW prog, NEW F, NEW G, F \subseteq G,
           LegalFlags(F), LegalFlags(G)
    PROVE  Related(EnterWitness(m, sp, F, prog), EnterWitness(m, sp, G, prog))
<1> DEFINE n == [m EXCEPT !.hadWitness = TRUE]
<1>1. IsMachine(n)
  BY DEF IsMachine
<1>2. Failed(Conclude(n, sp, G, TRUE)) \/ Conclude(n, sp, F, TRUE).err = "OK"
  <2>1. Failed(Conclude(n, sp, G, TRUE)) \/ Conclude(n, sp, F, TRUE) = Fail(n, "OK")
    BY <1>1, ConcludeTightens
  <2> HIDE DEF n
  <2> QED BY <2>1, <1>1, FailSets
<1>3. Failed(Fail(n, "DISCOURAGE_UPGRADABLE_WITNESS_PROGRAM"))
  BY DEF Failed, Fail, IsMachine
<1> QED
  BY <1>2, <1>3 DEF EnterWitness, Related

\* No script is both a witness program and a script hash.
LEMMA FormsDiffer == ASSUME NEW s, IsWitnessProgram(s) PROVE ~IsPayToScriptHash(s)
BY DEF IsWitnessProgram, IsPayToScriptHash, Op

LEMMA EndTightens ==
    ASSUME NEW m, IsMachine(m), NEW sp, NEW F, NEW G, F \subseteq G,
           LegalFlags(F), LegalFlags(G)
    PROVE  Related(EndScript(m, sp, F), EndScript(m, sp, G))
<1>1. \A clean : Failed(Conclude(m, sp, G, clean)) \/ Conclude(m, sp, F, clean).err = "OK"
  BY ConcludeTightens, FailSets
<1>2. \A clean : "WITNESS" \notin F \/ "P2SH" \notin F => Conclude(m, sp, F, clean).err = "OK"
  BY ConcludeWithout, FailSets
<1>3. \A prog : Related(EnterWitness(m, sp, F, prog), EnterWitness(m, sp, G, prog))
  BY WitnessTightens
<1>4. Related(AfterPub(m, sp, F), AfterPub(m, sp, G))
  BY <1>1, <1>2, <1>3, FormsDiffer DEF AfterPub, Related
<1>5. Related(AfterRedeem(m, sp, F), AfterRedeem(m, sp, G))
  BY <1>1, <1>2, <1>3 DEF AfterRedeem, Related
<1>6. Related(AfterWitness(m, sp, F), AfterWitness(m, sp, G))
  BY <1>1 DEF AfterWitness, Related
<1>7. AfterSig(m, sp, F) = AfterSig(m, sp, G)
  BY DEF AfterSig
<1> QED BY <1>4, <1>5, <1>6, <1>7 DEF EndScript, Related

-----------------------------------------------------------------------------
(* Every step gives a machine *)

LEMMA PutIsMachine == ASSUME NEW m, IsMachine(m), NEW s PROVE IsMachine(Put(m, s))
BY DEF Put, IsMachine

LEMMA VerifiedIsMachine ==
    ASSUME NEW m, IsMachine(m), NEW v, NEW ok, NEW e PROVE IsMachine(Verified(m, v, ok, e))
BY PutIsMachine, FailSets DEF Verified

LEMMA SwitchIsMachine ==
    ASSUME NEW m, IsMachine(m), NEW op, NEW F, NEW checker
    PROVE  IsMachine(Switch(m, op, F, checker))
<1>1. IsMachine(StackError(m)) /\ IsMachine(NumError(m))
  BY FailSets DEF StackError, NumError
<1>2. IsMachine(DoMove(m, op)) /\ IsMachine(DoHash(m, op)) /\ IsMachine(DoInspect(m, op))
  BY <1>1, PutIsMachine DEF DoMove, DoHash, DoInspect
<1>3. IsMachine(DoAltStack(m, op))
  BY <1>1, FailSets DEF DoAltStack, IsMachine
<1>4. IsMachine(DoPick(m, op, F)) /\ IsMachine(DoUnary(m, op, F)) /\ IsMachine(DoWithin(m, F))
  BY <1>1, PutIsMachine DEF DoPick, DoUnary, DoWithin
<1>5. IsMachine(DoEqual(m, op))
  BY <1>1, PutIsMachine, VerifiedIsMachine DEF DoEqual
<1>6. IsMachine(DoBinary(m, op, F))
  BY <1>1, PutIsMachine, VerifiedIsMachine DEF DoBinary
<1>7. IsMachine(DoCheckSig(m, op, F, checker))
  <2>1. \A s, n : IsMachine([m EXCEPT !.stack = s, !.checks = n])
    BY DEF IsMachine
  <2> QED BY <1>1, <2>1, VerifiedIsMachine, FailSets DEF DoCheckSig
<1>8. IsMachine(DoCheckMultiSig(m, op, F, checker))
  <2>1. \A s, n, c : IsMachine([m EXCEPT !.stack = s, !.nOpCount = n, !.checks = c])
    BY DEF IsMachine
  <2> QED BY <1>1, <2>1, VerifiedIsMachine, FailSets
    DEF DoCheckMultiSig, TakeKeyCount, TakeKeys, TakeSigs, CheckPairs, EndMultiSig
<1>9. IsMachine(DoIf(m, op, F)) /\ IsMachine(DoElse(m)) /\ IsMachine(DoEndIf(m))
  BY FailSets DEF DoIf, DoElse, DoEndIf, IsMachine
<1>10. IsMachine(DoVerify(m))
  BY <1>1, PutIsMachine, FailSets DEF DoVerify
<1>11. IsMachine(DoLock(m, op, F, checker))
  BY <1>1, FailSets DEF DoLock
<1>12. IsMachine([m EXCEPT !.begin = m.pc])
  BY DEF IsMachine
<1> QED
  BY <1>2, <1>3, <1>4, <1>5, <1>6, <1>7, <1>8, <1>9, <1>10, <1>11, <1>12, PutIsMachine, FailSets
  DEF Switch

LEMMA AdvanceIsMachine ==
    ASSUME NEW m, IsMachine(m), NEW sp, NEW F
    PROVE  IsMachine(Advance(m, sp, F))
<1>1. IsMachine(EvalOp(m, F, sp.checker))
  <2> DEFINE g == GetScriptOp(m.script, m.pc)
             n == Fetched(m, g)
  <2>1. IsMachine(n)
    BY DEF IsMachine, Fetched
  <2>2. IsMachine(Perform(n, g, F, sp.checker))
    <3> HIDE DEF n, g
    <3> QED BY <2>1, SwitchIsMachine, PutIsMachine, FailSets DEF Perform
  <2> QED BY <2>2, FailSets DEF EvalOp, Take, KeepDepth
<1>2. \A n : IsMachine(n) => \A clean : IsMachine(Conclude(n, sp, F, clean))
  BY FailSets DEF Conclude
<1>3. \A n : IsMachine(n) => \A phase, script, stack, ver : IsMachine(Enter(n, phase, script, stack, ver))
  <2> TAKE n
  <2> HAVE IsMachine(n)
  <2> TAKE phase, script, stack, ver
  <2>1. IsMachine([n EXCEPT !.phase = phase, !.script = script, !.stack = stack, !.ver = ver,
                            !.pc = 0, !.begin = 0, !.altstack = << >>, !.vfExec = << >>,
                            !.nOpCount = 0, !.checks = 0])
    BY DEF IsMachine
  <2> QED BY <2>1, FailSets DEF Enter
<1>4. \A prog : IsMachine(EnterWitness(m, sp, F, prog))
  <2> TAKE prog
  <2>1. IsMachine([m EXCEPT !.hadWitness = TRUE])
    BY DEF IsMachine
  <2> QED BY <2>1, <1>2, <1>3, FailSets DEF EnterWitness
<1>5. IsMachine(EnterRedeem(m, sp))
  BY <1>3, FailSets DEF EnterRedeem
<1>6. IsMachine(AfterSig(m, sp, F))
  <2>1. IsMachine(Enter(m, "pub", sp.pub, m.stack, "BASE"))
    BY <1>3
  <2> QED BY <2>1 DEF AfterSig, IsMachine
<1>7. IsMachine(AfterPub(m, sp, F))
  BY <1>2, <1>4, <1>5, FailSets DEF AfterPub
<1>8. IsMachine(AfterRedeem(m, sp, F)) /\ IsMachine(AfterWitness(m, sp, F))
  BY <1>2, <1>4, FailSets DEF AfterRedeem, AfterWitness
<1> QED
  BY <1>1, <1>6, <1>7, <1>8, FailSets DEF Advance, EndScript

-----------------------------------------------------------------------------
(* The theorem *)

\* The inductive invariant: the run under more flags has failed, the one under fewer has ended
\* well, or the two are in the same state.
InStep ==
    /\ spend \in Spends
    /\ run = [F \in spend.flags |-> run[F]]
    /\ \A F \in spend.flags : IsMachine(run[F])
    /\ \A F, G \in spend.flags : F \subseteq G => Related(run[F], run[G])

\* Runs that have ended stay as they are; the others take a step each.
LEMMA AdvanceTightens ==
    ASSUME NEW a, NEW b, IsMachine(a), IsMachine(b), Related(a, b), NEW sp,
           NEW F, NEW G, F \subseteq G, LegalFlags(F), LegalFlags(G)
    PROVE  Related(Advance(a, sp, F), Advance(b, sp, G))
<1>1. CASE Failed(b)
  BY <1>1 DEF Advance, Related, Failed
<1>2. CASE a.err = "OK"
  BY <1>2 DEF Advance, Related
<1>3. CASE a = b
  <2>1. Tighter(EvalOp(a, F, sp.checker), EvalOp(a, G, sp.checker))
    BY EvalOpTightens
  <2>2. Related(EndScript(a, sp, F), EndScript(a, sp, G))
    BY EndTightens
  <2> QED BY <1>3, <2>1, <2>2 DEF Advance, Related, Tighter
<1> QED BY <1>1, <1>2, <1>3 DEF Related

\* A spend is verified under more flags only as it is under fewer, or it fails: the flags of
\* interpreter.h are soft forks, for all scripts, witnesses, limits and checkers.
THEOREM FlagsAreSoftForks == Spec => []SoftFork
<1>1. Init => InStep
  <2> SUFFICES ASSUME Init PROVE InStep
    OBVIOUS
  <2>1. \A F \in spend.flags : run[F] = Start(spend, F)
    BY DEF Init
  <2>2. \A F : IsMachine(Start(spend, F))
    BY DEF Start, Enter, Fail, IsMachine
  <2>3. \A F, G : F \subseteq G => Related(Start(spend, F), Start(spend, G))
    <3> TAKE F, G
    <3> HAVE F \subseteq G
    <3> QED BY DEF Start, Enter, Fail, Related, Failed
  <2> QED BY <2>1, <2>2, <2>3 DEF InStep, Init
<1>2. InStep /\ [Next]_vars => InStep'
  <2> SUFFICES ASSUME InStep, [Next]_vars PROVE InStep'
    OBVIOUS
  <2>1. CASE UNCHANGED vars
    BY <2>1 DEF InStep, vars, Related, Failed, IsMachine
  <2>2. CASE Step
    <3>1. spend' = spend /\ run' = [F \in spend.flags |-> Advance(run[F], spend, F)]
      BY <2>2 DEF Step
    <3>2. \A F \in spend.flags : IsMachine(run'[F])
      BY <3>1, AdvanceIsMachine DEF InStep
    <3>3. ASSUME NEW F \in spend.flags, NEW G \in spend.flags, F \subseteq G
          PROVE  Related(run'[F], run'[G])
      <4>1. LegalFlags(F) /\ LegalFlags(G)
        BY SpendsAssumption DEF InStep
      <4>2. Related(Advance(run[F], spend, F), Advance(run[G], spend, G))
        BY <3>3, <4>1, AdvanceTightens DEF InStep
      <4> QED BY <3>1, <4>2
    <3> QED BY <3>1, <3>2, <3>3 DEF InStep, Related, Failed, IsMachine
  <2> QED BY <2>1, <2>2 DEF Next
<1>3. InStep => SoftFork
  BY DEF InStep, SoftFork, Related, Failed
<1> QED BY <1>1, <1>2, <1>3, PTL DEF Spec

\* The flags of a block (GetBlockScriptFlags) always go together, so the assertion of
\* VerifyScript about them holds, and blocks that are higher have more of them: with the
\* theorem before this one, what an early block refuses no later block takes.
THEOREM BlockFlagsTighten ==
    ASSUME NEW h \in Int, NEW k \in Int, h <= k, NEW isException \in BOOLEAN, NEW at,
           at.BIP66Height \in Int, at.BIP65Height \in Int, at.CSVHeight \in Int,
           at.SegwitHeight \in Int
    PROVE  /\ LegalFlags(GetBlockScriptFlags(h, isException, at))
           /\ GetBlockScriptFlags(h, isException, at) \subseteq GetBlockScriptFlags(k, isException, at)
BY DEF LegalFlags, GetBlockScriptFlags
=============================================================================
