--------------------------- MODULE AdditionChain ---------------------------
(***************************************************************************)
(* The inverses and the square root of secp256k1 are powers: x^(p-2),      *)
(* x^((p+1)/4) and x^(n-2).  The code reaches each exponent by a fixed     *)
(* chain of squarings and multiplications; here an element is its          *)
(* exponent, as the set of the bits that are one, so a squaring moves the  *)
(* bits up and a multiplication adds two numbers.                          *)
(***************************************************************************)
EXTENDS Integers, Sequences

Sqr(e, n) == {i + n : i \in e}

\* Bits that both numbers have carry into the next.
RECURSIVE Mul(_, _)
Mul(e, f) ==
    IF e \cap f = {} THEN e \cup f
    ELSE Mul((e \cup f) \ (e \cap f), Sqr(e \cap f, 1))

One == {0}

\* e squared n times, and then multiplied by f.
SqrMul(e, n, f) == Mul(Sqr(e, n), f)

\* A block of ones beside itself.
Twice(e, n) == SqrMul(e, n, e)

\* The blocks of ones that both field chains are built from: xN has N ones, and x11,
\* x88, x176 and x220 are on the way.
OnesFrom44(x2, x3, x22, x44) ==
    [x2 |-> x2, x22 |-> x22, x223 |-> SqrMul(SqrMul(Twice(Twice(x44, 44), 88), 44, x44), 3, x3)]
OnesFrom22(x2, x3, x22) == OnesFrom44(x2, x3, x22, Twice(x22, 22))
OnesFrom3(x2, x3) == OnesFrom22(x2, x3, Twice(SqrMul(SqrMul(Twice(x3, 3), 3, x3), 2, x2), 11))
OnesFrom2(x2) == OnesFrom3(x2, SqrMul(x2, 1, One))
Ones == OnesFrom2(SqrMul(One, 1, One))

\* secp256k1_fe_sqrt.
FeSqrtExponent == Sqr(SqrMul(SqrMul(Ones.x223, 23, Ones.x22), 6, Ones.x2), 2)

\* secp256k1_fe_inv.
FeInvExponent ==
    SqrMul(SqrMul(SqrMul(SqrMul(Ones.x223, 23, Ones.x22), 5, One), 3, Ones.x2), 2, One)

Chained(first, then) ==
    [sqr |-> first.sqr + then.sqr, mul |-> SqrMul(first.mul, then.sqr, then.mul)]

\* What the windows lo..hi do to an element: so many squarings, then a factor.
RECURSIVE Windows(_, _, _)
Windows(w, lo, hi) ==
    IF lo = hi THEN [sqr |-> w[lo][1], mul |-> w[lo][2]]
    ELSE LET mid == (lo + hi) \div 2 IN Chained(Windows(w, lo, mid), Windows(w, mid + 1, hi))

\* secp256k1_scalar_inverse: the small powers u5..u13 and the blocks x2..x126,
\* then the squarings and the factor of each window of the lower half.
ScalarInverseExponent ==
    LET u2 == Sqr(One, 1)
        x2 == Mul(u2, One)
        u5 == Mul(u2, x2)
        x3 == Mul(u5, u2)
        u9 == Mul(x3, u2)
        u11 == Mul(u9, u2)
        u13 == Mul(u11, u2)
        x6 == SqrMul(u13, 2, u11)
        x8 == SqrMul(x6, 2, x2)
        x14 == SqrMul(x8, 6, x6)
        x28 == SqrMul(x14, 14, x14)
        x56 == SqrMul(x28, 28, x28)
        x112 == SqrMul(x56, 56, x56)
        x126 == SqrMul(x112, 14, x14)
        window ==
            << <<3, u5>>, <<4, x3>>, <<4, u5>>, <<5, u11>>, <<4, u11>>, <<4, x3>>, <<5, x3>>,
               <<6, u13>>, <<4, u5>>, <<3, x3>>, <<5, u9>>, <<6, u5>>, <<10, x3>>, <<4, x3>>,
               <<9, x8>>, <<5, u9>>, <<6, u11>>, <<4, u13>>, <<5, x2>>, <<6, u13>>, <<10, u13>>,
               <<4, u9>>, <<6, One>>, <<8, x6>> >>
        lower == Windows(window, 1, Len(window))
    IN  SqrMul(x126, lower.sqr, lower.mul)

\* A constant of the source, from its words of 16 bits, most significant first.
FromWords(w) ==
    {i \in 0..255 : (w[16 - (i \div 16)] \div 2^(i % 16)) % 2 = 1}

\* The field prime and the group order.
FieldPrime ==
    FromWords(<<65535, 65535, 65535, 65535, 65535, 65535, 65535, 65535,
                65535, 65535, 65535, 65535, 65535, 65534, 65535, 64559>>)
GroupOrder ==
    FromWords(<<65535, 65535, 65535, 65535, 65535, 65535, 65535, 65534,
                47790, 56550, 44872, 41019, 49106, 24204, 53302, 16705>>)

\* The chains end at the exponents of Fermat's theorem, p - 2 and n - 2, and at
\* (p + 1) / 4: a chain that is one squaring or one factor off is wrong for
\* almost every input, and right for 0 and 1.
ChainsReachTheirExponents ==
    /\ Mul(FeInvExponent, {1}) = FieldPrime
    /\ Sqr(FeSqrtExponent, 2) = Mul(FieldPrime, One)
    /\ Mul(ScalarInverseExponent, {1}) = GroupOrder
=============================================================================
