------------------------------- MODULE Field -------------------------------
(***************************************************************************)
(* The limbs of a field element: N words of which W bits carry the number  *)
(* and the rest is room for growth; the top one carries T bits.  The prime *)
(* is 2^(W(N-1)+T) - C with C = C0 + C1 * 2^W, so what passes the top is   *)
(* worth C.  The code has two such representations, 5 words of 52 bits     *)
(* (C0 = 0x1000003D1, C1 = 0) and 10 words of 26 bits (C0 = 0x3D1,         *)
(* C1 = 2^6): they share everything but the multiplication.                *)
(* Words and accumulators wrap at their width, as in the code.             *)
(***************************************************************************)
EXTENDS Integers, Sequences

CONSTANTS
    N, W, T, C0, C1,
    WordBits,       \* bits of a word (the code: 64 or 32)
    AccBits,        \* bits of the accumulators of a product (128 or 64)
    MaxMagnitude, MulMagnitude,
    Residues, Factors,
    MaxOps          \* bound on the operations of a behaviour

VARIABLES
    x, y,           \* two secp256k1_fe: limbs n, and the VERIFY fields
    ops

vars == <<x, y, ops>>

Limb == 2^W
Mask == Limb - 1
TopMask == 2^T - 1
Word == 2^WordBits
Acc == 2^AccBits
LimbIndex == 0..N - 1
Prime == 2^(W * (N - 1) + T) - C0 - C1 * Limb

\* What a vector of limbs is worth.
Value(n) ==
    LET sum[i \in 0..N] == IF i = 0 THEN 0 ELSE sum[i - 1] + n[i - 1] * Limb^(i - 1)
    IN  sum[N]

\* The limbs of a number below 2^(W(N-1)+T).
LimbsOf(a) == [i \in LimbIndex |-> (a \div Limb^i) % Limb]
PLimb == LimbsOf(Prime)

\* secp256k1_fe_verify: the limbs stay within what the magnitude allows.
Verify(a) ==
    LET m == IF a.normalized THEN 1 ELSE 2 * a.magnitude
    IN  /\ \A i \in 0..N - 2 : a.n[i] <= Mask * m
        /\ a.n[N - 1] <= TopMask * m
        /\ a.magnitude \in 0..MaxMagnitude
        /\ a.normalized => a.magnitude <= 1 /\ Value(a.n) < Prime

-----------------------------------------------------------------------------
(***************************************************************************)
(* Reduction.                                                              *)
(***************************************************************************)
\* One pass: over units of 2^(W(N-1)+T) come back as over * C at the bottom,
\* and carries move up; the top limb keeps what reaches it.
Pass(n, over) ==
    LET t[i \in LimbIndex] ==
            ( n[i]
              + (IF i = 0 THEN over * C0 ELSE IF i = 1 THEN over * C1 ELSE 0)
              + (IF i = 0 THEN 0 ELSE t[i - 1] \div Limb) ) % Word
    IN  [i \in LimbIndex |-> IF i = N - 1 THEN t[i] ELSE t[i] % Limb]

Over(n) == n[N - 1] \div 2^T
Below(n) == [n EXCEPT ![N - 1] = @ % 2^T]

\* The first pass of every normalization.
WeakPass(n) == Pass(Below(n), Over(n))

\* All higher limbs full, and the two lowest reach the prime.
AtLeastP(t) ==
    /\ t[N - 1] = TopMask
    /\ \A i \in 2..N - 2 : t[i] = Mask
    /\ t[1] + C1 + (t[0] + C0) \div Limb > Mask

\* secp256k1_fe_normalize: the final reduction is done always, by x = 0 or 1.
FinalPass(t) == Below(Pass(t, IF Over(t) # 0 \/ AtLeastP(t) THEN 1 ELSE 0))
NormalizeLimbs(n) == FinalPass(WeakPass(n))

\* secp256k1_fe_normalize_var: the same reduction, only when it is needed.
FinalPassVar(t) == IF Over(t) # 0 \/ AtLeastP(t) THEN Below(Pass(t, 1)) ELSE t
NormalizeLimbsVar(n) == FinalPassVar(WeakPass(n))

\* secp256k1_fe_normalizes_to_zero: after one pass zero is stored as 0 or as Prime.
NormalizesToZero(n) == LET t == WeakPass(n) IN t = LimbsOf(0) \/ t = PLimb

\* secp256k1_fe_normalizes_to_zero_var: the lowest limb decides most cases.
NormalizesToZeroVar(n) ==
    /\ ((n[0] + Over(n) * C0) % Word) % Limb \in {0, PLimb[0]}
    /\ NormalizesToZero(n)

\* secp256k1_fe_cmp_var: the highest limb that differs decides.
CmpVar(a, b) ==
    IF a = b THEN 0
    ELSE LET i == CHOOSE j \in LimbIndex : a[j] # b[j] /\ \A k \in j + 1..N - 1 : a[k] = b[k]
         IN  IF a[i] > b[i] THEN 1 ELSE -1

-----------------------------------------------------------------------------
(***************************************************************************)
(* Products.  Column k is the sum of the products of weight Limb^k.        *)
(***************************************************************************)
Sum(f, lo, hi) ==
    LET s[i \in lo - 1..hi] == IF i = lo - 1 THEN 0 ELSE s[i - 1] + f[i]
    IN  IF lo > hi THEN 0 ELSE s[hi]

Column(a, b, k) ==
    LET lo == IF k >= N THEN k - N + 1 ELSE 0
        hi == IF k >= N THEN N - 1 ELSE k
    IN  Sum([i \in lo..hi |-> a[i] * b[k - i]], lo, hi)

\* A column of a square: each pair once, doubled, and the middle one.
SquareColumn(a, k) ==
    LET lo == IF k >= N THEN k - N + 1 ELSE 0
        mid == (k - 1) \div 2
    IN  Sum([i \in lo..mid |-> ((a[i] * 2) % Word) * a[k - i]], lo, mid)
        + (IF k % 2 = 0 THEN a[k \div 2] * a[k \div 2] ELSE 0)

Spare == 2^(W - T)
R == C0 * Spare     \* what Limb^N is worth, with C1 = 0

\* secp256k1_fe_mul_inner of 5x52, for the columns p[0..2N-2] of the factors:
\* the columns are folded from the top, then from the bottom.
\* r[k] and what is left in the accumulators.
Fold5x52(c, d) == [r |-> c % Limb, c |-> c \div Limb, d |-> d \div Limb]
FoldColumn(p, k, c, d) == Fold5x52((c + p[k] + (d % Limb) * R) % Acc, d)
Lowest5x52(p, tx, d3) ==
    Fold5x52((p[0] + (((d3 % Limb) * Spare + tx) % Word) * (R \div Spare)) % Acc, d3)
Limbs5x52(step, tTop, c3) ==
    [i \in LimbIndex |->
        IF i <= N - 3 THEN step[i].r
        ELSE IF i = N - 2 THEN c3 % Limb
        ELSE (c3 \div Limb + tTop) % Word]
LastFold(step, tLow, tTop) == Limbs5x52(step, tTop, (step[N - 3].c + step[N - 3].d * R + tLow) % Acc)
FromBottom(p, tLow, tTop, tx, d3) ==
    LET step[k \in 0..N - 3] ==
            IF k = 0 THEN Lowest5x52(p, tx, d3)
            ELSE FoldColumn(p, k, step[k - 1].c, (step[k - 1].d + p[N + k]) % Acc)
    IN  LastFold(step, tLow, tTop)
FromTop(p, tLow, d2) ==
    FromBottom(p, tLow, d2 % 2^T, (d2 % Limb) \div 2^T, (d2 \div Limb + p[N]) % Acc)
FromLow(p, d1) == FromTop(p, d1 % Limb, (d1 \div Limb + p[N - 1] + (p[2 * N - 2] \div Limb) * R) % Acc)
Inner5x52(p) == FromLow(p, (p[N - 2] + (p[2 * N - 2] % Limb) * R) % Acc)

\* The columns a product folds: the last but one of Inner5x52's loop is p[2N-3],
\* the top one p[2N-2] is folded first.
Mul5x52(a, b) == Inner5x52([k \in 0..2 * N - 2 |-> Column(a, b, k) % Acc])
Sqr5x52(a) == Inner5x52([k \in 0..2 * N - 2 |-> SquareColumn(a, k) % Acc])

R0 == C0 * Spare
R1 == C1 * Spare

\* The columns of secp256k1_fe_mul_inner of 10x26: column N - 1 first, then for
\* each k column N + k is folded into column k.
Fold10x26(c, u, d) == [t |-> c % Limb, c |-> (c \div Limb + u * R1) % Acc, d |-> d \div Limb]
FoldInto(p, k, c, d) == Fold10x26((c + p[k] + (d % Limb) * R0) % Acc, d % Limb, d)
Columns10x26(p) ==
    LET step[k \in 0..N - 2] ==
            IF k = 0 THEN FoldInto(p, 0, 0, (p[N - 1] \div Limb + p[N]) % Acc)
            ELSE FoldInto(p, k, step[k - 1].c, (step[k - 1].d + p[N + k]) % Acc)
    IN  step

\* Mutated form: the limb before the top one keeps its carry.
TopLimbLostCarry(p, last) == (last.d * R0 + (p[N - 1] % Limb)) % Acc

\* The top limb, and what is left above it, which comes back into the lowest three.
TopLimb(p, last) == (last.c + last.d * R0 + (p[N - 1] % Limb)) % Acc
Limbs10x26(step, top, d0, d1) ==
    [i \in LimbIndex |->
        IF i = 0 THEN d0 % Limb ELSE IF i = 1 THEN d1 % Limb
        ELSE IF i = 2 THEN (d1 \div Limb + step[2].t) % Word
        ELSE IF i = N - 1 THEN top % 2^T ELSE step[i].t]
BackToSecond(step, top, c, d0) ==
    Limbs10x26(step, top, d0, (d0 \div Limb + c * (R1 \div Spare) + step[1].t) % Acc)
BackToFirst(step, top, c) == BackToSecond(step, top, c, (c * (R0 \div Spare) + step[0].t) % Acc)
BackFromTop(step, top) == BackToFirst(step, top, (top \div 2^T + step[N - 2].d * (R1 * Spare)) % Acc)
FromColumns(p, step) == BackFromTop(step, TopLimb(p, step[N - 2]))
Inner10x26(p) == FromColumns(p, Columns10x26(p))

Mul10x26(a, b) == Inner10x26([k \in 0..2 * N - 2 |-> Column(a, b, k) % Acc])
Sqr10x26(a) == Inner10x26([k \in 0..2 * N - 2 |-> SquareColumn(a, k) % Acc])

\* The build has one representation: 10x26 is the one whose C1 is not zero.
MulLimbs(a, b) == IF C1 = 0 THEN Mul5x52(a, b) ELSE Mul10x26(a, b)
SqrLimbs(a) == IF C1 = 0 THEN Sqr5x52(a) ELSE Sqr10x26(a)

-----------------------------------------------------------------------------
(***************************************************************************)
(* Two elements under any sequence of operations.  A caller keeps to the   *)
(* magnitudes the debug build checks (module Group shows the callers do).  *)
(***************************************************************************)
Clear == [n |-> LimbsOf(0), magnitude |-> 0, normalized |-> TRUE]

Init == x = Clear /\ y = Clear /\ ops = 0

Into(a) == x' = a /\ UNCHANGED y

\* secp256k1_fe_set_b32: a number not below Prime is refused (and no caller uses
\* the element then).
SetB32 ==
    \E a \in Residues :
        /\ ~AtLeastP(LimbsOf(a))
        /\ Into([n |-> LimbsOf(a), magnitude |-> 1, normalized |-> TRUE])

Normalize ==
    \E n \in {NormalizeLimbs(x.n), NormalizeLimbsVar(x.n)} :
        Into([n |-> n, magnitude |-> 1, normalized |-> TRUE])

NormalizeWeak == Into([x EXCEPT !.n = WeakPass(x.n), !.magnitude = 1])

\* secp256k1_fe_negate: the element taken from a multiple of Prime whose every limb
\* covers the limbs of an element of magnitude m.
Negate ==
    \E m \in {x.magnitude, x.magnitude + 1} :
        /\ m + 1 <= MaxMagnitude
        /\ Into([n |-> [i \in LimbIndex |-> (PLimb[i] * 2 * (m + 1) - x.n[i]) % Word],
                 magnitude |-> m + 1, normalized |-> FALSE])

MulInt ==
    \E k \in Factors :
        /\ x.magnitude * k <= MaxMagnitude
        /\ Into([n |-> [i \in LimbIndex |-> (x.n[i] * k) % Word],
                 magnitude |-> x.magnitude * k, normalized |-> FALSE])

Add ==
    /\ x.magnitude + y.magnitude <= MaxMagnitude
    /\ Into([n |-> [i \in LimbIndex |-> (x.n[i] + y.n[i]) % Word],
             magnitude |-> x.magnitude + y.magnitude, normalized |-> FALSE])

Mul ==
    /\ x.magnitude <= MulMagnitude /\ y.magnitude <= MulMagnitude
    /\ Into([n |-> MulLimbs(x.n, y.n), magnitude |-> 1, normalized |-> FALSE])

Sqr ==
    /\ x.magnitude <= MulMagnitude
    /\ Into([n |-> SqrLimbs(x.n), magnitude |-> 1, normalized |-> FALSE])

Cmov ==
    \E flag \in BOOLEAN :
        Into([n |-> IF flag THEN y.n ELSE x.n,
              magnitude |-> IF y.magnitude > x.magnitude THEN y.magnitude ELSE x.magnitude,
              normalized |-> x.normalized /\ y.normalized])

Copy == y' = x /\ UNCHANGED x

Next ==
    /\ ops < MaxOps /\ ops' = ops + 1
    /\ \/ SetB32 \/ Normalize \/ NormalizeWeak \/ Negate \/ MulInt
       \/ Add \/ Mul \/ Sqr \/ Cmov \/ Copy

Spec == Init /\ [][Next]_vars

-----------------------------------------------------------------------------
\* The limbs never outgrow what the magnitude allows, so no sum, multiple or
\* product of elements loses a carry: secp256k1_fe_verify, which only the debug
\* build evaluates, holds of every element in every state.
LimbsFit == Verify(x) /\ Verify(y)

\* The tests that look at limbs agree with the residue: zero in its two stored
\* forms after a pass, and order and parity once normalized.
TestsAgree ==
    LET z == NormalizeLimbs(x.n)
    IN  /\ NormalizesToZero(x.n) <=> Value(x.n) % Prime = 0
        /\ NormalizesToZeroVar(x.n) <=> Value(x.n) % Prime = 0
        /\ Value(z) = Value(x.n) % Prime
        /\ x.normalized /\ y.normalized =>
              CmpVar(x.n, y.n) = (IF Value(x.n) > Value(y.n) THEN 1
                                  ELSE IF Value(x.n) < Value(y.n) THEN -1 ELSE 0)

\* The element as its callers see it.
Residue(a) == [v |-> Value(a.n) % Prime, m |-> a.magnitude, n |-> a.normalized]

Abstract ==
    INSTANCE PrimeField WITH
        P <- Prime, MaxMagnitude <- MaxMagnitude, MulMagnitude <- MulMagnitude,
        Residues <- Residues, Factors <- Factors,
        x <- Residue(x), y <- Residue(y)

\* Every operation on limbs does to the residue what the contract of PrimeField
\* says, through every carry and fold: the limbs implement the prime field.
ImplementsField == Abstract!Spec
=============================================================================
