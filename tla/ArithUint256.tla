--------------------------- MODULE ArithUint256 ---------------------------
(***************************************************************************)
(* The fixed-width numbers of arith_uint256.{h,cpp}.  A number is its      *)
(* limbs, least significant first, and every operator works limb by limb   *)
(* with the carries of the code.  The code has 8 limbs of 32 bits and      *)
(* bytes of 8 bits.                                                        *)
(***************************************************************************)
EXTENDS Integers

CONSTANTS
    WIDTH,      \* limbs of a number
    LimbBits,   \* bits of a limb
    ByteBits    \* bits of a byte, the unit of the compact form

\* Numbers are whole bytes, and two limbs hold the three bytes of a mantissa.
ASSUME WidthAssumption ==
    /\ WIDTH \in Nat /\ LimbBits \in Nat /\ ByteBits \in Nat
    /\ WIDTH >= 2 /\ ByteBits >= 1 /\ 2 * LimbBits >= 3 * ByteBits
    /\ (WIDTH * LimbBits) % ByteBits = 0

Limb == 2^LimbBits
Limbs == 0..WIDTH - 1
Number == [Limbs -> 0..Limb - 1]

\* operator=(uint64_t): two limbs are set, the others cleared.
FromWord(n) == [i \in Limbs |-> IF i < 2 THEN (n \div Limb^i) % Limb ELSE 0]
GetLow64(a) == a[0] + a[1] * Limb

\* Shifts: a whole number of limbs, and bits that move into the next limb.
ShiftLeft(a, shift) ==
    LET k == shift \div LimbBits
        s == shift % LimbBits
    IN  [i \in Limbs |->
            (IF i >= k THEN (a[i - k] * 2^s) % Limb ELSE 0)
          + (IF i > k /\ s # 0 THEN a[i - k - 1] \div 2^(LimbBits - s) ELSE 0)]

ShiftRight(a, shift) ==
    LET k == shift \div LimbBits
        s == shift % LimbBits
    IN  [i \in Limbs |->
            (IF i + k < WIDTH THEN a[i + k] \div 2^s ELSE 0)
          + (IF i + k + 1 < WIDTH /\ s # 0 THEN (a[i + k + 1] * 2^(LimbBits - s)) % Limb ELSE 0)]

\* A pass over the limbs that adds term[i] and the carry from the limb before.
Carried(term) ==
    LET carry[i \in 0..WIDTH] ==
            IF i = 0 THEN 0 ELSE (carry[i - 1] + term[i - 1]) \div Limb
    IN  [i \in Limbs |-> (carry[i] + term[i]) % Limb]

Add(a, b) == Carried([i \in Limbs |-> a[i] + b[i]])
MulWord(a, w) == Carried([i \in Limbs |-> w * a[i]])

Complement(a) == [i \in Limbs |-> Limb - 1 - a[i]]

\* operator++: a limb is stepped as long as every one before it became zero.
Increment(a) ==
    [i \in Limbs |-> IF \A j \in 0..i - 1 : a[j] = Limb - 1 THEN (a[i] + 1) % Limb ELSE a[i]]

Negate(a) == Increment(Complement(a))
Sub(a, b) == Add(a, Negate(b))

\* CompareTo: the most significant limb that differs decides.
Less(a, b) ==
    a # b /\ \E i \in Limbs : a[i] < b[i] /\ \A j \in i + 1..WIDTH - 1 : a[j] = b[j]

\* bits(): one more than the position of the highest bit set.
Bits(a) ==
    IF \A i \in Limbs : a[i] = 0 THEN 0
    ELSE LET pos == CHOOSE i \in Limbs : a[i] # 0 /\ \A j \in i + 1..WIDTH - 1 : a[j] = 0
             top == CHOOSE n \in 0..LimbBits - 1 : 2^n <= a[pos] /\ a[pos] < 2^(n + 1)
         IN  LimbBits * pos + top + 1

\* Mutated form: the remainder is compared with > where the code has >=.
DivStepStrict(s) ==
    [num |-> IF Less(s.div, s.num) THEN Sub(s.num, s.div) ELSE s.num,
     div |-> ShiftRight(s.div, 1),
     quot |-> IF Less(s.div, s.num)
              THEN [s.quot EXCEPT ![s.shift \div LimbBits] = @ + 2^(s.shift % LimbBits)]
              ELSE s.quot,
     shift |-> s.shift - 1]

\* One turn of the loop of operator/=.
DivStep(s) ==
    [num |-> IF Less(s.num, s.div) THEN s.num ELSE Sub(s.num, s.div),
     div |-> ShiftRight(s.div, 1),
     quot |-> IF Less(s.num, s.div) THEN s.quot
              ELSE [s.quot EXCEPT ![s.shift \div LimbBits] = @ + 2^(s.shift % LimbBits)],
     shift |-> s.shift - 1]

\* operator/= by a divisor that is not zero (zero throws).
Div(a, b) ==
    LET shift == Bits(a) - Bits(b)
        turn[n \in 0..shift + 1] ==
            IF n = 0 THEN [num |-> a, div |-> ShiftLeft(b, shift), quot |-> FromWord(0), shift |-> shift]
            ELSE DivStep(turn[n - 1])
    IN  IF shift < 0 THEN FromWord(0) ELSE turn[shift + 1].quot

-----------------------------------------------------------------------------
(***************************************************************************)
(* The compact form: a size in bytes above a mantissa of three bytes whose *)
(* highest bit is the sign.                                                *)
(***************************************************************************)
ByteSize == 2^ByteBits
SignBit == ByteSize^3 \div 2
NumberBytes == (WIDTH * LimbBits) \div ByteBits

SetCompact(c) ==
    LET size == c \div ByteSize^3
        word == IF size <= 3 THEN (c % SignBit) \div ByteSize^(3 - size) ELSE c % SignBit
    IN  [target |-> IF size <= 3 THEN FromWord(word)
                    ELSE ShiftLeft(FromWord(word), ByteBits * (size - 3)),
         negative |-> word # 0 /\ (c \div SignBit) % 2 = 1,
         overflow |-> /\ word # 0
                      /\ \/ size > NumberBytes + 2
                         \/ word > ByteSize - 1 /\ size > NumberBytes + 1
                         \/ word > ByteSize^2 - 1 /\ size > NumberBytes]

\* A mantissa that would reach the sign bit is moved down by a byte.
GetCompact(a) ==
    LET size == (Bits(a) + ByteBits - 1) \div ByteBits
        word == IF size <= 3 THEN GetLow64(a) * ByteSize^(3 - size)
                ELSE GetLow64(ShiftRight(a, ByteBits * (size - 3)))
    IN  IF word >= SignBit
        THEN (size + 1) * ByteSize^3 + word \div ByteSize
        ELSE size * ByteSize^3 + word
=============================================================================
