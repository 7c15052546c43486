------------------------------ MODULE Scalar ------------------------------
(***************************************************************************)
(* Scalars as limbs: L words of B bits, 4 of 64 or 8 of 32 in the code.    *)
(* The order is 2^(L*B) - NC where NC has H + 1 limbs, H = L / 2, and its  *)
(* highest limb is 1, so that a product of 2L limbs is folded three times. *)
(* Columns are summed in an accumulator of three words (c0, c1, c2), with  *)
(* the carries of the macros muladd, muladd2, sumadd and extract.          *)
(***************************************************************************)
EXTENDS Integers, Sequences

CONSTANTS
    L, B,               \* words and bits of a word; L is even
    Order,              \* odd
    Encodings,          \* the numbers scalars are set to
    Shifts,             \* not 0
    MaxOps              \* bound on the operations of a behaviour

H == L \div 2
Base == 2^B
TotalBits == L * B
NC == 2^TotalBits - Order
Limbs(v, n) == [i \in 1..n |-> (v \div Base^(i - 1)) % Base]

Index == 1..L
N == Limbs(Order, L)
NC_ == Limbs(NC, H + 1)
NH == Limbs(Order \div 2, L)

Value(d) ==
    LET sum[i \in 0..L] == IF i = 0 THEN 0 ELSE sum[i - 1] + d[i] * Base^(i - 1)
    IN  sum[L]

VARIABLES x, y, ret, ops

vars == <<x, y, ret, ops>>

-----------------------------------------------------------------------------
(***************************************************************************)
(* Sums.                                                                   *)
(***************************************************************************)
\* d[i] + term(i) with carries from limb to limb; the carry out is kept.
Carried(term) ==
    LET t[i \in Index] == term[i] + (IF i = 1 THEN 0 ELSE t[i - 1] \div Base)
    IN  [d |-> [i \in Index |-> t[i] % Base], carry |-> t[L] \div Base]

\* secp256k1_scalar_check_overflow: from the top, the first limb that is not
\* N's own decides; the top limb of N is full, so it is never exceeded.
CheckOverflow(d) ==
    \/ d = N
    \/ \E i \in 1..L - 1 : d[i] > N[i] /\ \A j \in i + 1..L : d[j] >= N[j]

\* secp256k1_scalar_reduce: adding NC takes the order away, modulo 2^(L*B).
Reduce(d, overflow) ==
    Carried([i \in Index |-> d[i] + (IF i <= H + 1 THEN overflow * NC_[i] ELSE 0)]).d

Bit(b) == IF b THEN 1 ELSE 0

AddLimbs(a, b) ==
    LET s == Carried([i \in Index |-> a[i] + b[i]])
        overflow == s.carry + Bit(CheckOverflow(s.d))
    IN  [d |-> Reduce(s.d, overflow), overflow |-> overflow]

\* secp256k1_scalar_cadd_bit: a bit at or past the end adds nothing.
CaddBitLimbs(d, bit, flag) ==
    LET at == IF flag THEN bit ELSE bit + TotalBits
    IN  Carried([i \in Index |-> d[i] + (IF at \div B = i - 1 THEN 2^(at % B) ELSE 0)]).d

\* secp256k1_scalar_negate and secp256k1_scalar_cond_negate: ~d + N + 1, and
\* zero stays zero.
NegateLimbs(d) ==
    IF \A i \in Index : d[i] = 0 THEN d
    ELSE Carried([i \in Index |-> (Base - 1 - d[i]) + N[i] + Bit(i = 1)]).d

IsHigh(d) ==
    \E i \in Index : d[i] > NH[i] /\ \A j \in i + 1..L : d[j] = NH[j]

\* secp256k1_scalar_get_bits_var: bits that may straddle two limbs.
GetBitsVar(d, offset, count) ==
    LET i == offset \div B + 1
        low == d[i] \div 2^(offset % B)
    IN  IF (offset + count - 1) \div B = i - 1 THEN low % 2^count
        ELSE (low + ((d[i + 1] * 2^(B - (offset % B))) % Base)) % 2^count

\* secp256k1_scalar_shr_int, for shifts below the width of a limb.
ShrLimbs(d, n) ==
    [i \in Index |->
        (d[i] \div 2^n) + (IF i < L THEN (d[i + 1] * 2^(B - n)) % Base ELSE 0)]

-----------------------------------------------------------------------------
(***************************************************************************)
(* Products: an accumulator c and the limbs extracted from it.             *)
(***************************************************************************)
\* muladd: the high half takes the carry of the low one, c2 that of c1.
MulAdd(c, a, b) ==
    LET c0 == (c.c0 + (a * b)) % Base
        th == (a * b) \div Base + Bit(c0 < (a * b) % Base)
        c1 == (c.c1 + th) % Base
    IN  [c0 |-> c0, c1 |-> c1, c2 |-> (c.c2 + Bit(c1 < th)) % Base]

\* Mutated form: the second carry, when th2 wraps to zero, is dropped.
MulAdd2OneCarry(c, a, b) ==
    LET th == (a * b) \div Base
        tl == (a * b) % Base
        tl2 == (2 * tl) % Base
        th2a == (2 * th) % Base
        c0 == (c.c0 + tl2) % Base
        th2 == (th2a + Bit(tl2 < tl) + Bit(c0 < tl2)) % Base
        c1 == (c.c1 + th2) % Base
    IN  [c0 |-> c0, c1 |-> c1, c2 |-> (c.c2 + Bit(th2a < th) + Bit(c1 < th2)) % Base]

\* muladd2: twice the product, each doubling with a carry of its own.
MulAdd2(c, a, b) ==
    LET th == (a * b) \div Base
        tl == (a * b) % Base
        tl2 == (2 * tl) % Base
        th2a == (2 * th) % Base
        th2b == (th2a + Bit(tl2 < tl)) % Base
        c0 == (c.c0 + tl2) % Base
        th2 == (th2b + Bit(c0 < tl2)) % Base
        c1 == (c.c1 + th2) % Base
    IN  [c0 |-> c0, c1 |-> c1,
         c2 |-> (c.c2 + Bit(th2a < th) + Bit(c0 < tl2 /\ th2 = 0) + Bit(c1 < th2)) % Base]

SumAdd(c, a) ==
    LET c0 == (c.c0 + a) % Base
        c1 == (c.c1 + Bit(c0 < a)) % Base
    IN  [c0 |-> c0, c1 |-> c1, c2 |-> (c.c2 + Bit(c1 < Bit(c0 < a))) % Base]

\* The number an accumulator stands for; extract takes its lowest word off.
Number(c) == c.c0 + c.c1 * Base + c.c2 * Base^2

\* Columns 1..n of terms, one limb extracted after each, and what is left.  The
\* macros add as integers do (CarriesAreKept), so an accumulator is its number.
Summed(column, n) ==
    LET total(k) ==
            LET part[i \in 0..Len(column[k])] == IF i = 0 THEN 0 ELSE part[i - 1] + column[k][i]
            IN  part[Len(column[k])]
        sums == SubSeq([k \in 1..n |-> total(k)], 1, n)
        acc[k \in 1..n] ==
            ((IF k = 1 THEN 0 ELSE acc[k - 1] \div Base) + sums[k]) % Base^3
    IN  [l |-> SubSeq([k \in 1..n |-> acc[k] % Base], 1, n), rest |-> (acc[n] \div Base) % Base]

\* The pairs <<i, j>> of limbs whose product is in column k, by rising i.
Pairs(k) ==
    LET lo == IF k <= L THEN 1 ELSE k - L + 1
        hi == IF k <= L THEN k ELSE L
    IN  [i \in 1..hi - lo + 1 |-> <<lo + i - 1, k + 2 - lo - i>>]

\* secp256k1_scalar_mul_512: the columns of the product, all 2L limbs of it.
Mul512(a, b) ==
    LET column == [k \in 1..2 * L - 1 |->
            [i \in 1..Len(Pairs(k)) |-> a[Pairs(k)[i][1]] * b[Pairs(k)[i][2]]]]
        s == Summed(column, 2 * L - 1)
    IN  Append(s.l, s.rest)

\* secp256k1_scalar_sqr_512: mixed products once and doubled, then the square.
Sqr512(a) ==
    LET column == [k \in 1..2 * L - 1 |->
            LET half == SelectSeq(Pairs(k), LAMBDA p : p[1] <= p[2])
            IN  [i \in 1..Len(half) |->
                    (IF half[i][1] < half[i][2] THEN 2 ELSE 1) * a[half[i][1]] * a[half[i][2]]]]
        s == Summed(column, 2 * L - 1)
    IN  Append(s.l, s.rest)

\* low[1..L] + high[1..h] * NC, column by column: NC's highest limb is 1, so
\* that limb of the product is added and not multiplied.
Fold(low, high, h, n) ==
    LET digit(i) == IF i \in 1..h THEN high[i] ELSE 0
        column == [k \in 1..n |->
            <<IF k <= L THEN low[k] ELSE 0>> \o [j \in 1..H |-> digit(k - j + 1) * NC_[j]]
            \o <<digit(k - H)>>]
    IN  Summed(column, n)

\* secp256k1_scalar_reduce_512: 512 bits to 385, to 258, to 256, and at most
\* one order to take away.
To385(l) ==
    LET m == Fold(l, SubSeq(l, L + 1, 2 * L), L, L + H) IN Append(m.l, m.rest)

To258(m) ==
    LET high == SubSeq(m, L + 1, L + H + 1)
        p == Fold(m, high, H + 1, L)
    IN  Append(p.l, p.rest + high[H + 1])

To256(p) ==
    LET r == Carried([i \in Index |-> p[i] + (IF i <= H + 1 THEN NC_[i] * p[L + 1] ELSE 0)])
    IN  Reduce(r.d, r.carry + Bit(CheckOverflow(r.d)))

\* secp256k1_scalar_mul_shift_var: the limbs from shift on, and the bit below.
MulShiftLimbs(l, shift) ==
    LET low == shift % B
        word(i) == IF i + shift \div B <= 2 * L THEN l[i + shift \div B] ELSE 0
        d == [i \in Index |-> (word(i) \div 2^low)
                              + (IF low = 0 THEN 0 ELSE (word(i + 1) * 2^(B - low)) % Base)]
    IN  CaddBitLimbs(d, 0, (l[(shift - 1) \div B + 1] \div 2^((shift - 1) % B)) % 2 = 1)

-----------------------------------------------------------------------------
(***************************************************************************)
(* Two scalars under any sequence of operations.                           *)
(***************************************************************************)
Init == x = Limbs(0, L) /\ y = Limbs(0, L) /\ ret = 0 /\ ops = 0

Gives(d, v) == x' = d /\ ret' = v /\ UNCHANGED y

SetB32 ==
    \E b \in Encodings :
        LET over == Bit(CheckOverflow(Limbs(b, L))) IN Gives(Reduce(Limbs(b, L), over), over)

Add == LET s == AddLimbs(x, y) IN Gives(s.d, s.overflow)

\* The callers add a bit only where no overflow can follow (VERIFY_CHECK).
CaddBit ==
    \E bit \in Shifts, flag \in BOOLEAN :
        /\ Value(x) + Bit(flag) * 2^bit < Order
        /\ Gives(CaddBitLimbs(x, bit, flag), 0)

Negate ==
    \E flag \in BOOLEAN : Gives(IF flag THEN NegateLimbs(x) ELSE x, IF flag THEN -1 ELSE 1)

GivesReduced(l) == \E m \in {To385(l)} : \E p \in {To258(m)} : Gives(To256(p), 0)

Mul == \E l \in {Mul512(x, y)} : GivesReduced(l)
Sqr == \E l \in {Sqr512(x)} : GivesReduced(l)
Shr == \E n \in Shifts : n < B /\ Gives(ShrLimbs(x, n), x[1] % 2^n)
MulShr ==
    \E l \in {Mul512(x, y)}, n \in Shifts : Gives(MulShiftLimbs(l, TotalBits + n), 0)

Split ==
    /\ x' = [i \in Index |-> IF i <= H THEN x[i] ELSE 0]
    /\ y' = [i \in Index |-> IF i <= H THEN x[i + H] ELSE 0]
    /\ ret' = 0

Copy == y' = x /\ UNCHANGED <<x, ret>>

Next ==
    /\ ops < MaxOps /\ ops' = ops + 1
    /\ SetB32 \/ Add \/ CaddBit \/ Negate \/ Mul \/ Sqr \/ Shr \/ MulShr \/ Split \/ Copy

Spec == Init /\ [][Next]_vars

-----------------------------------------------------------------------------
Abstract ==
    INSTANCE ScalarRing WITH
        Order <- Order, ScalarBits <- TotalBits, Encodings <- Encodings, Shifts <- Shifts,
        x <- Value(x), y <- Value(y), ret <- ret

\* Every operation on limbs computes, and returns, what it does on integers
\* modulo the order: no carry of an accumulator or of a fold is lost, and the
\* result is always fully reduced.
ImplementsScalar == Abstract!Spec

\* muladd, muladd2 and sumadd keep every carry: on three words they add as on
\* one number, twice the product with both of its carries included.
CarriesAreKept ==
    ops = 0 =>
        \A c0, c1, a, b \in 0..Base - 1 : \A c2 \in 0..1 :
            LET c == [c0 |-> c0, c1 |-> c1, c2 |-> c2]
            IN  /\ Number(MulAdd(c, a, b)) = Number(c) + a * b
                /\ Number(MulAdd2(c, a, b)) = Number(c) + 2 * a * b
                /\ Number(SumAdd(c, a)) = Number(c) + a

\* The tests on limbs agree with the integers: above half the order (low S),
\* and windows of bits wherever they lie.
ScalarTestsAgree ==
    /\ IsHigh(x) <=> Value(x) > Order \div 2
    /\ \A offset \in 0..TotalBits - 1 : \A count \in 1..B :
          offset + count <= TotalBits =>
              GetBitsVar(x, offset, count) = (Value(x) \div 2^offset) % 2^count
=============================================================================
