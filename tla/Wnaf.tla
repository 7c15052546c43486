-------------------------------- MODULE Wnaf --------------------------------
(***************************************************************************)
(* The signed-digit forms of a scalar that the multiplications of          *)
(* secp256k1 walk through: the sparse one of ecmult and strauss, the fixed *)
(* one of pippenger and the constant-time one of ecmult_const.  A form is  *)
(* the sequence of its digits, the lowest first.                           *)
(***************************************************************************)
EXTENDS ScalarLow, Sequences

Size(bits, w) == (bits + w - 1) \div w

\* Digits from bit on: zeros are skipped one at a time, a window of w bits makes
\* one odd digit and may carry into the next.
RECURSIVE WnafFrom(_, _, _, _)
WnafFrom(s, w, bit, carry) ==
    LET now == IF w > ScalarBits - bit THEN ScalarBits - bit ELSE w
        word == GetBits(s, bit, now) + carry
        high == (word \div 2^(w - 1)) % 2
    IN  IF bit >= ScalarBits THEN <<>>
        ELSE IF GetBits(s, bit, 1) = carry THEN <<0>> \o WnafFrom(s, w, bit + 1, carry)
        ELSE <<word - high * 2^w>> \o [i \in 1..now - 1 |-> 0] \o WnafFrom(s, w, bit + now, high)

Signed(digits, sign) == [i \in 1..Len(digits) |-> sign * digits[i]]

\* secp256k1_ecmult_wnaf: a scalar with its top bit set is negated first, so that
\* the last carry always finds room.
EcmultWnaf(a, w) ==
    IF GetBits(a, ScalarBits - 1, 1) = 1
    THEN Signed(WnafFrom(ScalarNegate(a), w, 0, 0), -1)
    ELSE WnafFrom(a, w, 0, 0)

\* secp256k1_wnaf_fixed: the digits up to the highest non-zero word, made odd by
\* borrowing from the digit below; a 1 after a negative digit, or a -1 after a
\* positive one, is folded into that digit.
RECURSIVE FixedFrom(_, _, _, _, _)
FixedFrom(wnaf, s, w, pos, maxPos) ==
    LET val == GetBits(s, pos * w, w)
        odd == IF val % 2 = 0
               THEN [wnaf EXCEPT ![pos] = @ - 2^w, ![pos + 1] = val + 1]
               ELSE [wnaf EXCEPT ![pos + 1] = val]
        folds == pos >= 2 /\ \/ odd[pos] = 1 /\ odd[pos - 1] < 0
                             \/ odd[pos] = -1 /\ odd[pos - 1] > 0
    IN  IF pos > maxPos THEN wnaf
        ELSE FixedFrom(IF folds THEN [odd EXCEPT ![pos - 1] = @ + odd[pos] * 2^w, ![pos] = 0] ELSE odd,
                       s, w, pos + 1, maxPos)
WnafFixed(s, w) ==
    LET size == Size(ScalarBits, w)
        skew == IF s # 0 /\ ScalarIsEven(s) THEN 1 ELSE 0
        nonzero == {0} \cup {pos \in 1..size - 1 : GetBits(s, pos * w, w) # 0}
        maxPos == CHOOSE pos \in nonzero : \A q \in nonzero : q <= pos
        first == <<GetBits(s, 0, w) + skew>> \o [i \in 1..size - 1 |-> 0]
    IN  [digits |-> IF s = 0 THEN [i \in 1..size |-> 0] ELSE FixedFrom(first, s, w, 1, maxPos),
         skew |-> skew]

\* secp256k1_wnaf_const: every digit odd.  The scalar is skewed by 1 or 2 to make
\* it odd and negated when it is high; minus one would overflow when skewed.
RECURSIVE ConstFrom(_, _, _, _)
ConstFrom(s, w, uLast, word) ==
    LET bits == s % 2^w
        sign == IF uLast > 0 THEN 1 ELSE -1
        even == IF bits % 2 = 0 THEN 1 ELSE 0
    IN  IF word * w >= ScalarBits THEN <<uLast>>
        ELSE <<uLast - sign * even * 2^w>> \o ConstFrom(ShrInt(s, w), w, bits + sign * even, word + 1)

\* Mutated form: minus one is not told apart.
NegOneIgnored(s) == FALSE

IsNegOne(s) == ScalarNegate(s) = 1
WnafConst(s, w) ==
    LET flip == ScalarIsHigh(s)
        bit == IF flip # ~ScalarIsEven(s) THEN 1 ELSE 0
        skewed == ScalarCondNegate(IF IsNegOne(s) THEN s ELSE (s + 2^bit) % 2^ScalarBits, flip)
        sign == (IF flip THEN -1 ELSE 1) * (IF IsNegOne(s) THEN -1 ELSE 1)
    IN  [digits |-> Signed(ConstFrom(ShrInt(skewed, w), w, skewed % 2^w, 0), sign),
         skew |-> 2^bit]
-----------------------------------------------------------------------------
RECURSIVE Evaluate(_, _)
Evaluate(digits, w) ==
    IF digits = <<>> THEN 0 ELSE Head(digits) + 2^w * Evaluate(Tail(digits), w)

Odd(d) == d % 2 = 1

\* Every form of a scalar evaluates to the scalar (less the skew the caller takes
\* off), and its digits stay inside the tables they index (ecmult_impl.h:359-365,
\* 673-679, ecmult_const_impl.h:39-45): sparse digits are odd, below 2^(w-1) and
\* w-1 zeros apart; fixed digits odd or zero below 2^w; constant-time ones odd.
WnafsRepresent(Samples, Windows) ==
    \A a \in Samples, w \in Windows :
        /\ LET d == EcmultWnaf(a, w)
           IN  /\ (Evaluate(d, 1) - a) % Order = 0
               /\ \A i \in 1..Len(d) : d[i] # 0 =>
                    /\ Odd(d[i]) /\ d[i] \in -(2^(w - 1) - 1)..2^(w - 1) - 1
                    /\ \A j \in i + 1..Len(d) : d[j] # 0 => j >= i + w
        /\ LET f == WnafFixed(a, w)
           IN  /\ Evaluate(f.digits, w) - f.skew = a
               /\ \A i \in 1..Len(f.digits) :
                    f.digits[i] # 0 => Odd(f.digits[i]) /\ f.digits[i] \in -2^w..2^w
        /\ LET c == WnafConst(a, w)
           IN  /\ (Evaluate(c.digits, w) - c.skew - a) % Order = 0
               /\ \A i \in 1..Len(c.digits) : Odd(c.digits[i]) /\ c.digits[i] \in -2^w..2^w
               /\ Len(c.digits) = Size(ScalarBits, w) + 1
=============================================================================
