------------------------------- MODULE Ecdsa -------------------------------
(***************************************************************************)
(* Signatures over the curve (ecdsa_impl.h, the core of the recovery       *)
(* module) and keys as bytes (eckey_impl.h).                               *)
(*                                                                         *)
(* A public key in bytes is <<tag, x>> (33 bytes in the code) or           *)
(* <<tag, x, y>> (65 bytes), with the tags of the code.                    *)
(***************************************************************************)
EXTENDS Ecmult, Der

TagEven == 2
TagOdd == 3
TagUncompressed == 4
TagHybridEven == 6
TagHybridOdd == 7

FeSetB32(b) == [ok |-> b < P, fe |-> FeSetInt(b)]
OrderAsFe == FeSetInt(Order)
PMinusOrder == P - Order

\* A number read from a scalar stands for itself or, where that is still below
\* the prime, for itself plus the order.
FirstX(r) == FeSetB32(r).fe
SecondX(r) == FeAdd(FirstX(r), OrderAsFe)

\* secp256k1_ecdsa_sig_verify.
HasX(pr, r) ==
    /\ ~pr.inf
    /\ GejEqX(FirstX(r), pr) \/ (r < PMinusOrder /\ GejEqX(SecondX(r), pr))
EcdsaSigVerify(r, s, pubkey, m) ==
    /\ r # 0 /\ s # 0
    /\ HasX(EcmultOf(GejSetGe(pubkey), ScalarMul(ScalarInverse(s), r), <<ScalarMul(ScalarInverse(s), m)>>), r)

\* secp256k1_ecdsa_sig_sign: recid tells the parity of the point's y and whether
\* its x was reduced; a high s is negated, which negates the point.
LowSignature(r, s, over, odd, high) ==
    [ok |-> s # 0, r |-> r, s |-> ScalarCondNegate(s, high),
     recid |-> [over |-> over, odd |-> odd # high]]
SignatureOf(r, s, over, odd) == LowSignature(r, s, over, odd, ScalarIsHigh(s))
SignWithX(x, odd, sec, m, nonce) ==
    SignatureOf(x.r, ScalarMul(ScalarInverse(nonce), ScalarAdd(ScalarMul(x.r, sec), m)), x.overflow, odd)
SignWithPoint(rp, sec, m, nonce) ==
    SignWithX(SetB32Scalar(FeGetB32(FeNormalize(rp.x))), FeIsOdd(FeNormalize(rp.y)), sec, m, nonce)
EcdsaSigSign(gen, sec, m, nonce) == SignWithPoint(GeSetGej(EcmultGen(gen, nonce)), sec, m, nonce)

\* Mutated form: the x of a reduced r is taken as it is.
XOfAsItIs(r, over) == FirstX(r)

\* secp256k1_ecdsa_sig_recover.
XOf(r, over) == IF over THEN SecondX(r) ELSE FirstX(r)
Recovered(qj) == [ok |-> ~qj.inf, q |-> GeSetGejVar(qj)]
RecoverWith(x, rn, s, m) ==
    Recovered(EcmultOf(GejSetGe(x), ScalarMul(rn, s), <<ScalarNegate(ScalarMul(rn, m))>>))
EcdsaSigRecover(r, s, m, recid) ==
    IF \/ r = 0 \/ s = 0
       \/ recid.over /\ r >= PMinusOrder
       \/ ~XOnCurve(XOf(r, recid.over))
    THEN [ok |-> FALSE, q |-> GeInfinity]
    ELSE RecoverWith(GeSetXo(XOf(r, recid.over), recid.odd), ScalarInverse(r), s, m)
-----------------------------------------------------------------------------
\* secp256k1_eckey_pubkey_parse: [ok, q].
EckeyPubkeyParse(pub) ==
    LET tag == pub[1]
        x == FeSetB32(pub[2])
        y == FeSetB32(pub[3])
        hybrid == tag \in {TagHybridEven, TagHybridOdd}
        no == [ok |-> FALSE, q |-> GeInfinity]
    IN  CASE Len(pub) = 2 /\ tag \in {TagEven, TagOdd} ->
               IF x.ok /\ XOnCurve(x.fe) THEN [ok |-> TRUE, q |-> GeSetXo(x.fe, tag = TagOdd)] ELSE no
          [] Len(pub) = 3 /\ (tag = TagUncompressed \/ hybrid) ->
               IF ~x.ok \/ ~y.ok \/ (hybrid /\ FeIsOdd(y.fe) # (tag = TagHybridOdd)) THEN no
               ELSE [ok |-> GeIsValid(Ge(x.fe, y.fe, FALSE)), q |-> Ge(x.fe, y.fe, FALSE)]
          [] OTHER -> no

\* secp256k1_eckey_pubkey_serialize, of a point that is not infinity.
SerializeAt(x, y, compressed) ==
    IF compressed THEN <<IF FeIsOdd(y) THEN TagOdd ELSE TagEven, FeGetB32(x)>>
    ELSE <<TagUncompressed, FeGetB32(x), FeGetB32(y)>>
EckeyPubkeySerialize(q, compressed) == SerializeAt(FeNormalize(q.x), FeNormalize(q.y), compressed)

\* Mutated form: a sum that is infinity is a key.
EckeyPubkeyTweakAddAny(key, tweak) ==
    [ok |-> TRUE, key |-> GeSetGej(EcmultOf(GejSetGe(key), 1, <<tweak>>))]

\* The four tweaks: [ok, key].
EckeyPrivkeyTweakAdd(key, tweak) == [ok |-> ScalarAdd(key, tweak) # 0, key |-> ScalarAdd(key, tweak)]
TweakedSum(pt) == [ok |-> ~pt.inf, key |-> GeSetGej(pt)]
EckeyPubkeyTweakAdd(key, tweak) == TweakedSum(EcmultOf(GejSetGe(key), 1, <<tweak>>))
EckeyPrivkeyTweakMul(key, tweak) == [ok |-> tweak # 0, key |-> ScalarMul(key, tweak)]
EckeyPubkeyTweakMul(key, tweak) ==
    [ok |-> tweak # 0, key |-> GeSetGej(EcmultOf(GejSetGe(key), tweak, <<0>>))]
=============================================================================
