-------------------------------- MODULE Key --------------------------------
(***************************************************************************)
(* Private and public keys of the node (key.h, key.cpp, pubkey.h,          *)
(* pubkey.cpp) over secp256k1: making, importing, deriving and negating a  *)
(* key, signing, verifying and recovering, and the two global contexts.    *)
(*                                                                         *)
(* A client holds one extended private key xkey, one extended public key   *)
(* xpub and the last signature.  What a hash function or the generator of  *)
(* random numbers gives is chosen freely; the same choice is used by both  *)
(* sides of a derivation, whose inputs are the same bytes.                 *)
(***************************************************************************)
EXTENDS Secp256k1

CONSTANTS
    Secrets,        \* 32-byte strings offered as private keys
    Hashes,         \* messages to sign
    NonceStreams,   \* sequences the nonce function may give
    Blinds,         \* pairs for the blinding of the signing context
    Tweaks,         \* left halves of BIP32 hashes
    DepthLimit,     \* values of the depth byte (the code: 256)
    ChildByte,      \* values of a byte of a child number (the code: 256)
    HardenedChild,  \* the first hardened child number (the code: 2^31)
    MaxHandles,     \* bound on the number of verify handles
    MaxKeyOps       \* bound on the number of operations

VARIABLES
    signCtx,        \* secp256k1_context_sign: <<>> for nullptr
    handles,        \* ECCVerifyHandle::refcount
    xkey, xpub,     \* CExtKey and CExtPubKey
    linked,         \* xpub was neutered from xkey, and xkey not replaced since
    owed,           \* the tweak and child number of a derivation of xkey that xpub
                    \* has still to follow, or <<>>
    lastSig,        \* the last signature: <<>> or [hash, form, bytes, by]
    keyOps

keyVars == <<signCtx, handles, xkey, xpub, linked, owed, lastSig, keyOps>>
-----------------------------------------------------------------------------
(* CKey is [valid, compressed, data]; CPubKey its bytes, or Invalid.       *)

Invalid == <<255>>
NoKey == [valid |-> FALSE, compressed |-> FALSE, data |-> 0]
VerifyCtx == [gen |-> <<>>, verify |-> TRUE]

PubSize(pub) == IF pub[1] \in {2, 3} THEN 2 ELSE IF pub[1] \in {4, 6, 7} THEN 3 ELSE 0
PubSet(bytes) == IF bytes # <<>> /\ PubSize(bytes) = Len(bytes) THEN bytes ELSE Invalid
IsCompressed(pub) == PubSize(pub) = 2

KeySet(key, bytes, compressed) ==
    IF EcSeckeyVerify(bytes) THEN [valid |-> TRUE, compressed |-> compressed, data |-> bytes]
    ELSE [key EXCEPT !.valid = FALSE]
\* The CPubKey made of what a function of secp256k1 gave.
PubFrom(made, compressed) ==
    IF made.ret = "ok" THEN PubSet(EcPubkeySerialize(made.out, compressed).out) ELSE Invalid
GetPubKey(ctx, key) == PubFrom(EcPubkeyCreate(ctx, key.data), key.compressed)

\* ec_privkey_export_der and ec_privkey_import_der, in bytes of eight bits; the
\* curve's parameters in the middle are filler of the same length.
Filler(n) == [i \in 1..n |-> 0]
ExportDer(data, compressed) ==
    LET key32 == Append(Filler(31), data)
    IN  IF compressed THEN <<48, 129, 211, 2, 1, 1, 4, 32>> \o key32 \o Filler(141) \o Filler(33)
        ELSE <<48, 130, 1, 19, 2, 1, 1, 4, 32>> \o key32 \o Filler(173) \o Filler(65)
ImportDer(privkey) ==
    LET lenb == privkey[2] - 128
        body == SubSeq(privkey, lenb + 3, Len(privkey))
        len == IF lenb = 1 THEN privkey[3] ELSE privkey[4] + 256 * privkey[3]
        oslen == body[5]
        data == FoldLeft(LAMBDA n, b : n * 256 + b, 0, SubSeq(body, 6, 5 + oslen))
    IN  IF Len(privkey) < 2 \/ privkey[1] # 48 \/ lenb \notin 1..2 THEN 0
        ELSE IF Len(privkey) - 2 < lenb \/ Len(body) < len THEN 0
        ELSE IF Len(body) < 5 \/ SubSeq(body, 1, 4) # <<2, 1, 1, 4>> THEN 0
        ELSE IF oslen > 32 \/ Len(body) - 5 < oslen \/ ~EcSeckeyVerify(data) THEN 0
        ELSE data

\* CPubKey::Verify, CheckLowS and RecoverCompact.
VerifyWith(p, s, hash) ==
    /\ p.ret = "ok"
    /\ s.ok
    /\ EcdsaVerify(VerifyCtx, EcdsaSignatureNormalize([r |-> s.r, s |-> s.s]).out, hash, p.out) = "ok"
PubVerify(pub, hash, vchSig) ==
    PubSize(pub) > 0 /\ VerifyWith(EcPubkeyParse(pub), ParseDerLax(vchSig), hash)
IsLow(s) == s.ok /\ EcdsaSignatureNormalize([r |-> s.r, s |-> s.s]).ret = "fail"
CheckLowS(vchSig) == IsLow(ParseDerLax(vchSig))
RecoverParsed(s, hash, compressed) ==
    IF s.ret = "fail" THEN Invalid ELSE PubFrom(EcdsaRecover(VerifyCtx, s.out, hash), compressed)
RecoverCompact(hash, vchSig) ==
    LET header == vchSig[1] - 27
        recid == [odd |-> header % 2 = 1, over |-> (header \div 2) % 2 = 1]
    IN  RecoverParsed(EcdsaRecoverableSignatureParseCompact(vchSig[2], vchSig[3], recid), hash,
                      (header \div 4) % 2 = 1)

\* SigHasLowR: no zero byte is needed in front of r.
SigHasLowR(s) == s.r < ByteValues^ScalarBytes \div 2

\* CKey::Sign: with grinding, the counter moves on to the next sequence of nonces
\* until r is low.
\* <<>> where a call to the library fails, which the code asserts it does not.
RECURSIVE SignDer(_, _, _, _, _)
SerializeOrGrind(made, ctx, key, hash, streams, grind) ==
    IF made.ret # "ok" THEN <<>>
    ELSE IF grind /\ ~SigHasLowR(made.out) THEN SignDer(ctx, key, hash, streams, grind)
    ELSE SigSerialize(made.out.r, made.out.s, 6 + 2 * (ScalarBytes + 1)).sig
SignDer(ctx, key, hash, streams, grind) ==
    IF streams = <<>> THEN <<>>
    ELSE SerializeOrGrind(EcdsaSign(ctx, hash, key.data, Head(streams)), ctx, key, hash, Tail(streams), grind)
CompactBytes(made, compressed) ==
    IF made.ret # "ok" THEN <<>>
    ELSE <<27 + (IF made.out.recid.over THEN 2 ELSE 0) + (IF made.out.recid.odd THEN 1 ELSE 0)
              + (IF compressed THEN 4 ELSE 0), made.out.r, made.out.s>>
SignCompact(ctx, key, hash, stream) ==
    CompactBytes(EcdsaSignRecoverable(ctx, hash, key.data, stream), key.compressed)
-----------------------------------------------------------------------------
(* Extended keys. *)

ExtKey(depth, parent, child, chain, key) ==
    [depth |-> depth, parent |-> parent, child |-> child, chain |-> chain, key |-> key]
Master == ExtKey(0, Invalid, 0, 0, NoKey)

\* CExtKey::Encode and Decode; a child number is four bytes of ChildByte values.
ChildBytes(n) == [i \in 1..4 |-> (n \div ChildByte^(4 - i)) % ChildByte]
Encode(x) == <<x.depth, x.parent>> \o ChildBytes(x.child) \o <<x.chain, 0, x.key.data>>
Decode(code, into) ==
    ExtKey(code[1], code[2], FoldLeft(LAMBDA n, b : n * ChildByte + b, 0, SubSeq(code, 3, 6)), code[7],
           KeySet(into.key, code[9], TRUE))

\* CExtKey::Derive and CKey::Derive; CExtPubKey::Derive and CPubKey::Derive.
DeriveKey(ctx, x, t, child) ==
    LET r == EcPrivkeyTweakAdd(x.key.data, t)
    IN  ExtKey((x.depth + 1) % DepthLimit, GetPubKey(ctx, x.key), child, t,
               [valid |-> r.ret = "ok", compressed |-> TRUE, data |-> r.out])
TweakParsed(p, t) == IF p.ret = "ok" THEN PubFrom(EcPubkeyTweakAdd(VerifyCtx, p.out, t), TRUE) ELSE Invalid
DerivePub(x, t, child) ==
    ExtKey((x.depth + 1) % DepthLimit, x.key, child, t, TweakParsed(EcPubkeyParse(x.key), t))
-----------------------------------------------------------------------------
KeyInit ==
    /\ signCtx = <<>> /\ handles = 1    \* globalVerifyHandle
    /\ xkey = Master /\ xpub = [Master EXCEPT !.key = Invalid]
    /\ linked = FALSE /\ owed = <<>> /\ lastSig = <<>> /\ keyOps = 0

Counted == keyOps < MaxKeyOps /\ keyOps' = keyOps + 1
Usable32 == signCtx # <<>> /\ xkey.key.valid /\ xkey.key.data # 0

ECCStart ==
    /\ Counted /\ signCtx = <<>>
    /\ \E a, b \in Blinds :
           \E made \in {ContextCreate(TRUE, FALSE, a[1], a[2])} :
           \E ctx \in {ContextRandomize(made, TRUE, b[1], b[2])} : signCtx' = <<ctx>>
    /\ UNCHANGED <<handles, xkey, xpub, linked, owed, lastSig>>
ECCStop ==
    /\ Counted /\ signCtx' = <<>>
    /\ UNCHANGED <<handles, xkey, xpub, linked, owed, lastSig>>
HandleMade ==
    /\ Counted /\ handles < MaxHandles /\ handles' = handles + 1
    /\ UNCHANGED <<signCtx, xkey, xpub, linked, owed, lastSig>>
HandleDestroyed ==
    /\ Counted /\ handles > 0 /\ handles' = handles - 1
    /\ UNCHANGED <<signCtx, xkey, xpub, linked, owed, lastSig>>

\* The key is replaced; xpub no longer belongs to it.
Replace(x) ==
    /\ Counted /\ xkey' = x
    /\ linked' = FALSE /\ owed' = <<>> /\ lastSig' = <<>>
    /\ UNCHANGED <<signCtx, handles, xpub>>

MakeNewKey ==
    \E d \in Secrets, c \in BOOLEAN :
        /\ signCtx # <<>> /\ EcSeckeyVerify(d)
        /\ Replace([xkey EXCEPT !.key = [valid |-> TRUE, compressed |-> c, data |-> d]])
SetSeed ==
    \E d \in Secrets : signCtx # <<>> /\ Replace([Master EXCEPT !.chain = d, !.key = KeySet(xkey.key, d, TRUE)])
NegateKey ==
    /\ signCtx # <<>> /\ xkey.key.valid
    /\ Replace([xkey EXCEPT !.key.data = EcPrivkeyNegate(@).out])

\* CKey::Load: the bytes are written before they are checked, and fValid is not
\* touched when they are refused.
Load ==
    \E p \in {ExportDer(d, c) : d \in Secrets, c \in BOOLEAN} : \E data \in {ImportDer(p)} :
        /\ signCtx # <<>> /\ handles > 0 /\ xpub.key # Invalid
        /\ Replace([xkey EXCEPT !.key =
               IF data = 0 THEN [@ EXCEPT !.data = 0]
               ELSE [valid |-> TRUE, compressed |-> IsCompressed(xpub.key), data |-> data]])
DecodeKey ==
    /\ Usable32
    /\ Replace(Decode(Encode(xkey), xkey))

Neuter ==
    /\ Counted /\ Usable32
    /\ \E pub \in {GetPubKey(signCtx[1], xkey.key)} : xpub' = [xkey EXCEPT !.key = pub]
    /\ linked' = TRUE /\ owed' = <<>> /\ lastSig' = <<>>
    /\ UNCHANGED <<signCtx, handles, xkey>>

Derive ==
    /\ Counted /\ Usable32 /\ xkey.key.compressed /\ owed = <<>>
    /\ \E t \in Tweaks, child \in {0, HardenedChild} :
           /\ \E x \in {DeriveKey(signCtx[1], xkey, t, child)} : xkey' = x
           /\ linked' = (linked /\ child < HardenedChild)
           /\ owed' = IF linked /\ child < HardenedChild THEN <<t, child>> ELSE <<>>
    /\ lastSig' = <<>>
    /\ UNCHANGED <<signCtx, handles, xpub>>
Follow ==
    /\ Counted /\ handles > 0 /\ owed # <<>>
    /\ \E x \in {DerivePub(xpub, owed[1], owed[2])} : xpub' = x
    /\ owed' = <<>> /\ lastSig' = <<>>
    /\ UNCHANGED <<signCtx, handles, xkey, linked>>

\* CPubKey::Decompress, and CPubKey::RecoverCompact into the public key.
Decompress ==
    /\ Counted /\ handles > 0 /\ PubSize(xpub.key) > 0
    /\ \E p \in {EcPubkeyParse(xpub.key)} :
           /\ p.ret = "ok"
           /\ xpub' = [xpub EXCEPT !.key = PubSet(EcPubkeySerialize(p.out, FALSE).out)]
    /\ linked' = FALSE /\ owed' = <<>> /\ lastSig' = <<>>
    /\ UNCHANGED <<signCtx, handles, xkey>>
Recover ==
    /\ Counted /\ handles > 0 /\ lastSig # <<>> /\ lastSig.form = "compact"
    /\ \E q \in {RecoverCompact(lastSig.hash, lastSig.bytes)} :
           xpub' = IF q = Invalid THEN xpub ELSE [xpub EXCEPT !.key = q]
    /\ linked' = FALSE /\ owed' = <<>> /\ lastSig' = <<>>
    /\ UNCHANGED <<signCtx, handles, xkey>>

\* The public key of a secret, by the textbook addition.
BytesOfPoint(q, compressed) ==
    IF compressed THEN <<IF q[2] % 2 = 1 THEN TagOdd ELSE TagEven, q[1]>> ELSE <<TagUncompressed, q[1], q[2]>>
PubOf(data, compressed) == BytesOfPoint(Multiples[data + 1], compressed)

Signed32(hash, form, bytes) ==
    /\ lastSig' = [hash |-> hash, form |-> form, bytes |-> bytes, by |-> xkey.key.data, compressed |-> xkey.key.compressed]
    /\ UNCHANGED <<signCtx, handles, xkey, xpub, linked, owed>>
Sign ==
    /\ Counted /\ Usable32 /\ lastSig = <<>>
    /\ \E hash \in Hashes, grind \in BOOLEAN, n1, n2 \in NonceStreams :
           /\ grind \/ n1 = n2
           /\ \E bytes \in {SignDer(signCtx[1], xkey.key, hash, <<n1, n2>>, grind)} :
                  bytes # <<>> /\ Signed32(hash, IF grind THEN "ground" ELSE "der", bytes)
SignCompactly ==
    /\ Counted /\ Usable32 /\ lastSig = <<>>
    /\ \E hash \in Hashes, n \in NonceStreams :
           \E bytes \in {SignCompact(signCtx[1], xkey.key, hash, n)} :
               bytes # <<>> /\ Signed32(hash, "compact", bytes)

KeyNext ==
    \/ ECCStart \/ ECCStop \/ HandleMade \/ HandleDestroyed
    \/ MakeNewKey \/ SetSeed \/ NegateKey \/ Load \/ DecodeKey
    \/ Neuter \/ Derive \/ Follow \/ Decompress \/ Recover
    \/ Sign \/ SignCompactly
-----------------------------------------------------------------------------
\* A public key follows its private key through any chain of non-hardened
\* derivations: both sides reach the same child, with the same depth, parent and
\* chain code, and fail for the same tweaks (key.cpp CKey::Derive, pubkey.cpp
\* CPubKey::Derive).
KeysMatch ==
    linked /\ owed = <<>> =>
        /\ [xkey EXCEPT !.key = 0] = [xpub EXCEPT !.key = 0]
        /\ xkey.key.valid = (xpub.key # Invalid)
        /\ xkey.key.valid => xpub.key = PubOf(xkey.key.data, xkey.key.compressed)

\* A signature CKey::Sign lastSig verifies under the key's public key in either form,
\* is strict DER with a low s, and one lastSig with grinding has at most 70 bytes
\* (key.cpp SigHasLowR: "will be less than 71 bytes").
SignaturesVerify ==
    lastSig # <<>> /\ lastSig.form # "compact" =>
        /\ \A c \in BOOLEAN : PubVerify(PubOf(lastSig.by, c), lastSig.hash, lastSig.bytes)
        /\ EcdsaSignatureParseDer(lastSig.bytes).ret = "ok" /\ CheckLowS(lastSig.bytes)
        /\ lastSig.form = "ground" => Len(lastSig.bytes) <= 6 + 2 * ScalarBytes

\* CPubKey::RecoverCompact finds the signer's key, in the form the signer used, also
\* where the x of the nonce's point was reduced or s negated.
RecoveryFindsSigner ==
    lastSig # <<>> /\ lastSig.form = "compact" =>
        RecoverCompact(lastSig.hash, lastSig.bytes) = PubOf(lastSig.by, lastSig.compressed)

Candidates(r, s, hash) ==
    {EcdsaRecover(VerifyCtx, [r |-> r, s |-> s, recid |-> id], hash) : id \in [over : BOOLEAN, odd : BOOLEAN]}
VerifiesJust(keys, sig, hash) ==
    \A k \in 1..Order - 1 :
        (EcdsaVerify(VerifyCtx, sig, hash, Multiples[k + 1]) = "ok") <=> Multiples[k + 1] \in keys

\* Verification and recovery answer the same question: a signature verifies under
\* exactly the keys that one of the four recovery ids gives.
VerifyMeansRecoverable ==
    lastSig # <<>> /\ lastSig.form = "compact" =>
        VerifiesJust({f.out : f \in {r \in Candidates(lastSig.bytes[2], lastSig.bytes[3], lastSig.hash) : r.ret = "ok"}},
                     [r |-> lastSig.bytes[2], s |-> lastSig.bytes[3]], lastSig.hash)

\* Whatever the blinding of the signing context, multiplying the generator gives
\* the multiple asked for, and every element stays within its magnitude.
BlindingIsInvisible ==
    signCtx # <<>> /\ keyOps = 1 =>
        \A n \in Scalars : \A r \in {EcmultGen(signCtx[1].gen[1], n)} :
            GejHolds(r) /\ Stands(r) = Multiples[n + 1]

PublicOf(ctx, r) == IF r.ret = "ok" THEN EcPubkeyCreate(ctx, r.out) ELSE Result("fail", NoPubkey)
SumsAgree(d, q, t, sum, other) ==
    /\ EcPubkeyTweakAdd(VerifyCtx, q, t) = sum
    /\ other.ret = "ok" =>
           /\ EcPubkeyCombine(<<q, other.out>>) = sum
           /\ Ecdh(q, t).ret = "ok" /\ Ecdh(q, t) = Ecdh(other.out, d)

\* The functions that work on a secret and those that work on its public key agree,
\* failures included: negation, both tweaks, the sum of keys and the shared secret
\* of two parties (secp256k1.c, modules/ecdh).
ApiAgrees ==
    linked /\ owed = <<>> /\ xkey.key.valid /\ signCtx # <<>> =>
        \A d \in {xkey.key.data}, q \in {EcPubkeyParse(xpub.key).out} :
            /\ EcPubkeyNegate(q) = PublicOf(signCtx[1], EcPrivkeyNegate(d))
            /\ \A t \in Tweaks \cup Secrets :
                   /\ EcPubkeyTweakMul(VerifyCtx, q, t) = PublicOf(signCtx[1], EcPrivkeyTweakMul(d, t))
                   /\ SumsAgree(d, q, t, PublicOf(signCtx[1], EcPrivkeyTweakAdd(d, t)), EcPubkeyCreate(signCtx[1], t))

\* An extended key survives its encoding.
EncodingKeepsKey ==
    xkey.key.valid /\ xkey.key.compressed /\ xkey.key.data # 0 =>
        Decode(Encode(xkey), Master) = xkey
=============================================================================
