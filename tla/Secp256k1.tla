----------------------------- MODULE Secp256k1 -----------------------------
(***************************************************************************)
(* The functions secp256k1 exports (secp256k1.c, the recovery and the ECDH *)
(* modules).  Each gives its return value and what it leaves in its output *)
(* argument: a function that fails leaves zeros there.  An argument that   *)
(* breaks the contract ends in the illegal-argument callback, which aborts *)
(* ("abort").  A parsed key is the storage of its point, a parsed          *)
(* signature [r, s] or [r, s, recid], a secret 32 bytes as a number.       *)
(*                                                                         *)
(* A context is [gen, verify]: the blinding of the generator (<<>> until   *)
(* it is built for signing) and whether the tables for verifying exist.    *)
(***************************************************************************)
EXTENDS Ecdsa

Result(ret, out) == [ret |-> ret, out |-> out]
NoPubkey == <<0, 0>>
NoSignature == [r |-> 0, s |-> 0]
NoRecoverable == [r |-> 0, s |-> 0, recid |-> [over |-> FALSE, odd |-> FALSE]]
Flag(ok) == IF ok THEN "ok" ELSE "fail"

\* secp256k1_context_create: s, b are what the generator of random numbers gives
\* for the first blinding.  secp256k1_context_randomize blinds again, after a
\* reset when there is no seed.
ContextCreate(sign, verify, s, b) ==
    [gen |-> IF sign THEN <<GenBlind(GenReset, FeSetInt(s), b)>> ELSE <<>>, verify |-> verify]
ContextRandomize(ctx, seeded, s, b) ==
    IF ctx.gen = <<>> THEN ctx
    ELSE [ctx EXCEPT !.gen = <<GenBlind(IF seeded THEN ctx.gen[1] ELSE GenReset, FeSetInt(s), b)>>]
ContextClone(ctx) == [gen |-> ctx.gen, verify |-> ctx.verify]

PubkeyLoad(pubkey) == [legal |-> ~FeIsZero(FeFromStorage(pubkey[1])), q |-> GeFromStorage(pubkey)]
PubkeySave(q) == GeToStorage(q)

\* What a function leaves of a point it computed, or of a signature it read.
SavePoint(p) == IF p.ok THEN Result("ok", PubkeySave(p.q)) ELSE Result("fail", NoPubkey)
SaveSignature(p) == Result(Flag(p.ok), [r |-> p.r, s |-> p.s])

EcPubkeyParse(input) == SavePoint(EckeyPubkeyParse(input))
EcPubkeySerialize(pubkey, compressed) ==
    IF PubkeyLoad(pubkey).legal THEN Result("ok", EckeyPubkeySerialize(PubkeyLoad(pubkey).q, compressed))
    ELSE Result("abort", <<>>)

EcdsaSignatureParseDer(input) == SaveSignature(SigParse(input))
EcdsaSignatureParseCompact(r, s) == SaveSignature(ParseCompact(r, s))
EcdsaSignatureNormalize(sig) ==
    Result(Flag(ScalarIsHigh(sig.s)), [sig EXCEPT !.s = ScalarCondNegate(@, ScalarIsHigh(@))])

\* A high s is refused before the key is looked at.
EcdsaVerify(ctx, sig, msg, pubkey) ==
    IF ~ctx.verify THEN "abort"
    ELSE IF ScalarIsHigh(sig.s) THEN "fail"
    ELSE IF ~PubkeyLoad(pubkey).legal THEN "abort"
    ELSE Flag(EcdsaSigVerify(sig.r, sig.s, PubkeyLoad(pubkey).q, SetB32Scalar(msg).r))

EcSeckeyVerify(seckey) == ~SetB32Scalar(seckey).overflow /\ seckey # 0

\* secp256k1_ecdsa_sign_recoverable: the first number that can be used of those the
\* nonce function gives for count 0, 1, 2 ... until it fails; secp256k1_ecdsa_sign is
\* the same loop without the recovery id.
RECURSIVE SignFirst(_, _, _, _)
SignOrSkip(sig, gen, seckey, m, nonces) ==
    IF sig.ok THEN Result("ok", [r |-> sig.r, s |-> sig.s, recid |-> sig.recid])
    ELSE SignFirst(gen, seckey, m, nonces)
SignFirst(gen, seckey, m, nonces) ==
    IF nonces = <<>> THEN Result("fail", NoRecoverable)
    ELSE IF ~EcSeckeyVerify(Head(nonces)) THEN SignFirst(gen, seckey, m, Tail(nonces))
    ELSE SignOrSkip(EcdsaSigSign(gen, seckey, m, Head(nonces)), gen, seckey, m, Tail(nonces))
EcdsaSignRecoverable(ctx, msg, seckey, nonces) ==
    IF ctx.gen = <<>> THEN Result("abort", NoRecoverable)
    ELSE IF ~EcSeckeyVerify(seckey) THEN Result("fail", NoRecoverable)
    ELSE SignFirst(ctx.gen[1], seckey, SetB32Scalar(msg).r, nonces)
EcdsaRecoverableSignatureConvert(sig) == [r |-> sig.r, s |-> sig.s]
ConvertResult(sig) == Result(sig.ret, EcdsaRecoverableSignatureConvert(sig.out))
EcdsaSign(ctx, msg, seckey, nonces) == ConvertResult(EcdsaSignRecoverable(ctx, msg, seckey, nonces))

WithRecid(p, recid) ==
    IF p.ok THEN Result("ok", [r |-> p.r, s |-> p.s, recid |-> recid]) ELSE Result("fail", NoRecoverable)
EcdsaRecoverableSignatureParseCompact(r, s, recid) == WithRecid(ParseCompact(r, s), recid)
EcdsaRecover(ctx, sig, msg) ==
    IF ~ctx.verify THEN Result("abort", NoPubkey)
    ELSE SavePoint(EcdsaSigRecover(sig.r, sig.s, SetB32Scalar(msg).r, sig.recid))

EcPubkeyCreate(ctx, seckey) ==
    IF ctx.gen = <<>> THEN Result("abort", NoPubkey)
    ELSE IF ~EcSeckeyVerify(seckey) THEN Result("fail", NoPubkey)
    ELSE Result("ok", PubkeySave(GeSetGej(EcmultGen(ctx.gen[1], seckey))))

EcPrivkeyNegate(seckey) == Result("ok", ScalarNegate(SetB32Scalar(seckey).r))
EcPubkeyNegate(pubkey) ==
    IF PubkeyLoad(pubkey).legal THEN Result("ok", PubkeySave(GeNeg(PubkeyLoad(pubkey).q)))
    ELSE Result("abort", NoPubkey)

\* Tweaks: one that is not below the order fails before the key is looked at, and
\* every failure leaves zeros for the key.
PrivkeyTweak(t, tweaked) ==
    IF ~SetB32Scalar(t).overflow /\ tweaked.ok THEN Result("ok", tweaked.key) ELSE Result("fail", 0)
PubkeyTweak(ctx, pubkey, t, tweaked) ==
    IF ~ctx.verify THEN Result("abort", pubkey)
    ELSE IF SetB32Scalar(t).overflow THEN Result("fail", NoPubkey)
    ELSE IF ~PubkeyLoad(pubkey).legal THEN Result("abort", NoPubkey)
    ELSE IF tweaked.ok THEN Result("ok", PubkeySave(tweaked.key)) ELSE Result("fail", NoPubkey)
EcPrivkeyTweakAdd(seckey, t) ==
    PrivkeyTweak(t, EckeyPrivkeyTweakAdd(SetB32Scalar(seckey).r, SetB32Scalar(t).r))
EcPubkeyTweakAdd(ctx, pubkey, t) ==
    PubkeyTweak(ctx, pubkey, t, EckeyPubkeyTweakAdd(GeFromStorage(pubkey), SetB32Scalar(t).r))
EcPrivkeyTweakMul(seckey, t) ==
    PrivkeyTweak(t, EckeyPrivkeyTweakMul(SetB32Scalar(seckey).r, SetB32Scalar(t).r))
EcPubkeyTweakMul(ctx, pubkey, t) ==
    PubkeyTweak(ctx, pubkey, t, EckeyPubkeyTweakMul(GeFromStorage(pubkey), SetB32Scalar(t).r))

\* secp256k1_ec_pubkey_combine, with the constant-time addition.
RECURSIVE SumOf(_, _)
SumOf(qj, pubkeys) ==
    IF pubkeys = <<>> THEN qj ELSE SumOf(GejAddGe(qj, PubkeyLoad(Head(pubkeys)).q), Tail(pubkeys))
SaveSum(qj) == IF qj.inf THEN Result("fail", NoPubkey) ELSE Result("ok", PubkeySave(GeSetGej(qj)))
EcPubkeyCombine(pubkeys) ==
    IF pubkeys = <<>> \/ \E i \in 1..Len(pubkeys) : ~PubkeyLoad(pubkeys[i]).legal THEN Result("abort", NoPubkey)
    ELSE SaveSum(SumOf(GejInfinity, pubkeys))

\* secp256k1_ecdh: what is hashed is the parity of y and x.
SharedSecret(pt) == <<FeIsOdd(FeNormalize(pt.y)), FeGetB32(FeNormalize(pt.x))>>
Ecdh(pubkey, scalar) ==
    IF ~PubkeyLoad(pubkey).legal THEN Result("abort", <<>>)
    ELSE IF ~EcSeckeyVerify(scalar) THEN Result("fail", <<>>)
    ELSE Result("ok", SharedSecret(GeSetGej(EcmultConst(PubkeyLoad(pubkey).q, SetB32Scalar(scalar).r))))
=============================================================================
