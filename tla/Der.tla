-------------------------------- MODULE Der --------------------------------
(***************************************************************************)
(* Encodings of a signature: the strict DER reader and the writer of       *)
(* secp256k1 (ecdsa_impl.h), the tolerant reader CPubKey uses (pubkey.cpp) *)
(* and the one shipped with the library (lax_der_parsing.c).               *)
(*                                                                         *)
(* A byte has ByteValues values (the code: 256), so that every test on    *)
(* bits is one on halves: 0x80 is ByteValues \div 2 and 0xFF is one less   *)
(* than ByteValues.  The tags 0x30 and 0x02 are 3 and 2.  A reader that    *)
(* refuses gives Refused.                                                  *)
(***************************************************************************)
EXTENDS ScalarLow, SequencesExt

CONSTANTS
    ByteValues,     \* values of a byte
    ScalarBytes,    \* bytes of a scalar (the code: 32)
    SizeBytes       \* bytes of a size_t (the code: 8)

Top == ByteValues \div 2
SequenceTag == 3
IntegerTag == 2
Refused == [ok |-> FALSE, r |-> 0, s |-> 0]

\* The number a string of bytes is, most significant byte first.
BigEndian(bytes) == FoldLeft(LAMBDA n, b : n * ByteValues + b, 0, bytes)
RECURSIVE Stripped(_)
Stripped(bytes) == IF bytes # <<>> /\ Head(bytes) = 0 THEN Stripped(Tail(bytes)) ELSE bytes

\* secp256k1_der_read_len: the length at the front of a string, -1 when it is not
\* in its shortest form or reaches past the end, and what follows it.
BadLength == [len |-> -1, rest |-> <<>>]
ReadLongLen(lenleft, digits, rest) ==
    IF Head(rest) = 0 \/ lenleft > SizeBytes THEN BadLength
    ELSE IF \E k \in 1..lenleft : BigEndian(SubSeq(digits, 1, k)) + lenleft - (k - 1) > Len(rest) - (k - 1)
    THEN BadLength
    ELSE IF BigEndian(digits) < Top THEN BadLength
    ELSE [len |-> BigEndian(digits), rest |-> SubSeq(rest, lenleft + 1, Len(rest))]
ReadLenFrom(b1, rest) ==
    IF b1 < Top THEN [len |-> b1, rest |-> rest]
    ELSE IF b1 \in {ByteValues - 1, Top} \/ b1 % Top > Len(rest) THEN BadLength
    ELSE ReadLongLen(b1 % Top, SubSeq(rest, 1, b1 % Top), rest)
ReadLen(sig) == IF sig = <<>> THEN BadLength ELSE ReadLenFrom(Head(sig), Tail(sig))

\* Mutated form: a padded integer is accepted.
PaddedAllowed(bytes) == FALSE

\* An integer with a first byte that its sign does not need.
PaddedInteger(bytes) ==
    /\ Len(bytes) > 1
    /\ \/ bytes[1] = 0 /\ bytes[2] < Top
       \/ bytes[1] = ByteValues - 1 /\ bytes[2] >= Top

\* secp256k1_der_parse_integer: a number that is negative, too long or not below
\* the order is read as 0.
NumberOf(digits) ==
    LET v == SetB32Scalar(BigEndian(digits))
    IN  IF Len(digits) > ScalarBytes \/ v.overflow THEN 0 ELSE v.r
ParseBytes(bytes, rest) ==
    IF PaddedInteger(bytes) THEN [ok |-> FALSE]
    ELSE [ok |-> TRUE, v |-> IF bytes[1] >= Top THEN 0 ELSE NumberOf(Stripped(bytes)), rest |-> rest]
ParseAfterLen(l) ==
    IF l.len <= 0 \/ l.len > Len(l.rest) THEN [ok |-> FALSE]
    ELSE ParseBytes(SubSeq(l.rest, 1, l.len), SubSeq(l.rest, l.len + 1, Len(l.rest)))
ParseInteger(sig) ==
    IF sig = <<>> \/ Head(sig) # IntegerTag THEN [ok |-> FALSE] ELSE ParseAfterLen(ReadLen(Tail(sig)))

\* secp256k1_ecdsa_sig_parse.
ParsedPair(r, s) == IF s.ok /\ s.rest = <<>> THEN [ok |-> TRUE, r |-> r.v, s |-> s.v] ELSE Refused
ParseSecond(r) == IF r.ok THEN ParsedPair(r, ParseInteger(r.rest)) ELSE Refused
ParsePair(l) == IF l.len = Len(l.rest) THEN ParseSecond(ParseInteger(l.rest)) ELSE Refused
SigParse(sig) ==
    IF sig = <<>> \/ Head(sig) # SequenceTag THEN Refused ELSE ParsePair(ReadLen(Tail(sig)))

\* The shortest bytes of a scalar whose top bit is clear.
RECURSIVE Bytes(_)
Bytes(n) == IF n < ByteValues THEN <<n>> ELSE Append(Bytes(n \div ByteValues), n % ByteValues)
SignedBytes(bytes) == IF Head(bytes) >= Top THEN <<0>> \o bytes ELSE bytes

\* secp256k1_ecdsa_sig_serialize, into a buffer of `size` bytes.
SerializePair(rp, sp, size) ==
    LET n == Len(rp) + Len(sp)
    IN  IF size < 6 + n THEN [ok |-> FALSE, size |-> 6 + n, sig |-> <<>>]
        ELSE [ok |-> TRUE, size |-> 6 + n,
              sig |-> <<SequenceTag, 4 + n, IntegerTag, Len(rp)>> \o rp \o <<IntegerTag, Len(sp)>> \o sp]
SigSerialize(r, s, size) == SerializePair(SignedBytes(Bytes(r)), SignedBytes(Bytes(s)), size)
-----------------------------------------------------------------------------
\* secp256k1_ecdsa_signature_parse_compact: both numbers, or zeros.
ParseCompact(r, s) ==
    LET a == SetB32Scalar(r)
        b == SetB32Scalar(s)
    IN  IF a.overflow \/ b.overflow THEN Refused ELSE [ok |-> TRUE, r |-> a.r, s |-> b.r]

\* The tolerant readers' integer: a long length may have leading zeros and fewer
\* than `limit` other bytes; the integer may be empty, padded or negative.
LaxBody(len, rest) ==
    IF len > Len(rest) THEN [ok |-> FALSE]
    ELSE [ok |-> TRUE, digits |-> Stripped(SubSeq(rest, 1, len)), rest |-> SubSeq(rest, len + 1, Len(rest))]
LaxLong(digits, rest, limit) ==
    IF Len(digits) >= limit THEN [ok |-> FALSE] ELSE LaxBody(BigEndian(digits), rest)
LaxLength(b1, body, limit) ==
    IF b1 < Top THEN LaxBody(b1, body)
    ELSE IF b1 - Top > Len(body) THEN [ok |-> FALSE]
    ELSE LaxLong(Stripped(SubSeq(body, 1, b1 - Top)), SubSeq(body, b1 - Top + 1, Len(body)), limit)
LaxInteger(input, limit) ==
    IF Len(input) < 2 \/ Head(input) # IntegerTag THEN [ok |-> FALSE]
    ELSE LaxLength(input[2], SubSeq(input, 3, Len(input)), limit)

\* The length of the sequence is skipped and not compared with anything, and what
\* follows the second integer is ignored.  A number that does not fit leaves a
\* signature of two zeros, which is read but never verifies.
LaxPair(r, s) ==
    IF ~s.ok THEN Refused
    ELSE IF Len(r.digits) > ScalarBytes \/ Len(s.digits) > ScalarBytes THEN [Refused EXCEPT !.ok = TRUE]
    ELSE [ParseCompact(BigEndian(r.digits), BigEndian(s.digits)) EXCEPT !.ok = TRUE]
LaxSecond(r, limit) == IF r.ok THEN LaxPair(r, LaxInteger(r.rest, limit)) ELSE Refused
LaxSequence(input, limit) ==
    LET skip == IF input[2] >= Top THEN 2 + input[2] - Top ELSE 2
    IN  IF Len(input) < 2 \/ Head(input) # SequenceTag THEN Refused
        ELSE IF skip > Len(input) THEN Refused
        ELSE LaxSecond(LaxInteger(SubSeq(input, skip + 1, Len(input)), limit), limit)

\* ecdsa_signature_parse_der_lax of pubkey.cpp, and of the library.
ParseDerLax(input) == LaxSequence(input, 4)
ContribParseDerLax(input) == LaxSequence(input, SizeBytes)
-----------------------------------------------------------------------------
\* Strings one byte away from a written signature.
Near(sig) ==
    {sig} \cup {[sig EXCEPT ![i] = b] : i \in 1..Len(sig), b \in 0..ByteValues - 1}
          \cup {RemoveAt(sig, i) : i \in 1..Len(sig)}
          \cup {InsertAt(sig, i, b) : i \in 1..Len(sig) + 1, b \in {0, 1, Top, ByteValues - 1}}

\* What is written is read back, and a string the strict reader takes for a pair
\* of scalars other than zero is the one the writer writes: no second encoding.
DerIsCanonical(r, s) ==
    \A w \in {SigSerialize(r, s, 6 + 2 * (ScalarBytes + 1))} :
        /\ w.ok /\ SigParse(w.sig) = [ok |-> TRUE, r |-> r, s |-> s]
        /\ ~SigSerialize(r, s, w.size - 1).ok
        /\ \A sig \in Near(w.sig) : \A p \in {SigParse(sig)} :
               p.ok /\ p.r # 0 /\ p.s # 0 => SigSerialize(p.r, p.s, Len(sig)).sig = sig

\* The tolerant readers take whatever the strict one takes and read the same
\* signature, or one with a zero where the strict reader has a zero; and the two of
\* them never differ.
LaxReadsStrict(r, s) ==
    \A sig \in Near(SigSerialize(r, s, 6 + 2 * (ScalarBytes + 1)).sig) :
        \A p \in {SigParse(sig)}, q \in {ParseDerLax(sig)} :
            /\ p.ok => q.ok /\ (q = p \/ 0 \in {p.r, p.s})
            /\ q = ContribParseDerLax(sig)
=============================================================================
