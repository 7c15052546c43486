------------------------------- MODULE Group -------------------------------
(***************************************************************************)
(* Points of y^2 = x^3 + CurveB and their formulas (group_impl.h), on the  *)
(* field elements of module FieldElement, so that every formula carries    *)
(* the magnitudes of the elements it combines.                             *)
(*                                                                         *)
(* An affine point is [x, y, inf] and a Jacobian one [x, y, z, inf], with  *)
(* x = X/Z^2 and y = Y/Z^3.  A formula that only sets the infinity flag    *)
(* leaves the coordinates of its first argument, which is also its result  *)
(* in the callers.  Formulas that can report the ratio between the old and *)
(* the new Z give [p, zr].                                                 *)
(***************************************************************************)
EXTENDS FieldElement

CONSTANT CurveB     \* the coefficient of the curve (the code: 7)

Gej(x, y, z, inf) == [x |-> x, y |-> y, z |-> z, inf |-> inf]
Ge(x, y, inf) == [x |-> x, y |-> y, inf |-> inf]
GejInfinity == Gej(FeClear, FeClear, FeClear, TRUE)
GeInfinity == Ge(FeClear, FeClear, TRUE)
GejClear == Gej(FeClear, FeClear, FeClear, FALSE)

\* Inverse (of zero: zero) and square root; the root is the one that is itself
\* a square, and there is none when squaring the candidate does not give a.
FeInv(a) ==
    IF a.m > MulMagnitude THEN Spoiled
    ELSE [v |-> IF a.v = 0 THEN 0 ELSE CHOOSE w \in 1..P - 1 : Times(a.v, w) = 1, m |-> 1, n |-> FALSE]
Squares == {Times(w, w) : w \in 0..P - 1}
FeIsQuad(a) == a.v \in Squares
FeSqrt(a) ==
    IF a.m > MulMagnitude THEN Spoiled
    ELSE [v |-> CHOOSE w \in Squares : Times(w, w) \in {a.v, (P - a.v) % P}, m |-> 1, n |-> FALSE]

GeSetGejZinv(a, zi) ==
    LET zi2 == FeSqr(zi)
    IN  Ge(FeMul(a.x, zi2), FeMul(a.y, FeMul(zi2, zi)), a.inf)
GeNeg(a) == [a EXCEPT !.y = FeNegate(FeNormalizeWeak(@), 1)]

\* The inverse of zero is zero, so the constant-time form needs no test.
GeSetGej(a) == GeSetGejZinv(a, FeInv(a.z))
GeSetGejVar(a) == IF a.inf THEN [GeInfinity EXCEPT !.inf = TRUE] ELSE GeSetGejZinv(a, FeInv(a.z))

\* One inversion for many points: the products of the z from the front, the
\* inverse of the last, and the single inverses peeled off from the back.
RECURSIVE Products(_, _)
Products(prod, z) ==
    IF Len(prod) = Len(z) THEN prod
    ELSE Products(Append(prod, FeMul(prod[Len(prod)], z[Len(prod) + 1])), z)
RECURSIVE Inverses(_, _, _, _)
Inverses(zi, u, prod, z) ==
    LET k == Len(z) - Len(zi)
    IN  IF k = 1 THEN <<u>> \o zi
        ELSE Inverses(<<FeMul(prod[k - 1], u)>> \o zi, FeMul(u, z[k]), prod, z)
InversesOf(z, prod) == Inverses(<<>>, FeInv(prod[Len(z)]), prod, z)
PlaceInverses(a, live, zi) ==
    [i \in 1..Len(a) |->
        IF a[i].inf THEN GeInfinity
        ELSE GeSetGejZinv(a[i], zi[CHOOSE k \in 1..Len(live) : live[k] = i])]
SetAllOf(a, live, z) == PlaceInverses(a, live, InversesOf(z, Products(<<z[1]>>, z)))
SetLive(a, live) == SetAllOf(a, live, [k \in 1..Len(live) |-> a[live[k]].z])
GeSetAllGejVar(a) == SetLive(a, SelectSeq([i \in 1..Len(a) |-> i], LAMBDA i : ~a[i].inf))

\* A table brought to the z of its last entry by the ratios between neighbours.
GeGlobalzSetTableGej(a, zr) ==
    LET last == Len(a)
        zs[i \in 1..last] == IF i = last - 1 THEN zr[last] ELSE FeMul(zs[i + 1], zr[i + 1])
    IN  [table |-> [i \in 1..last |->
                      IF i = last THEN Ge(a[i].x, FeNormalizeWeak(a[i].y), FALSE)
                      ELSE GeSetGejZinv(a[i], zs[i])],
         globalz |-> a[last].z]

\* The point with a given x whose y is a square, or whose y has a given parity.
Cubic(x) == FeAdd(FeSetInt(CurveB), FeMul(x, FeSqr(x)))
XOnCurve(x) == FeEqual(FeSqr(FeSqrt(Cubic(x))), Cubic(x))
GeSetXquad(x) == Ge(x, FeSqrt(Cubic(x)), FALSE)
WithParity(y, odd) == IF FeIsOdd(y) # odd THEN FeNegate(y, 1) ELSE y
GeSetXo(x, odd) == Ge(x, WithParity(FeNormalize(FeSqrt(Cubic(x))), odd), FALSE)

GejSetGe(a) == Gej(a.x, a.y, FeSetInt(1), a.inf)
GejNeg(a) == [a EXCEPT !.y = FeNegate(FeNormalizeWeak(@), 1)]
GejEqX(x, a) == FeEqual(FeMul(FeSqr(a.z), x), FeNormalizeWeak(a.x))

SixthTimesB(z2) == FeMulInt(FeMul(FeSqr(z2), z2), CurveB)
GejIsValid(a) ==
    /\ ~a.inf
    /\ FeEqual(FeSqr(a.y), FeNormalizeWeak(FeAdd(FeMul(FeSqr(a.x), a.x), SixthTimesB(FeSqr(a.z)))))
GeIsValid(a) ==
    /\ ~a.inf
    /\ FeEqual(FeSqr(a.y), FeNormalizeWeak(FeAdd(FeMul(FeSqr(a.x), a.x), FeSetInt(CurveB))))
GejHasQuadY(a) == ~a.inf /\ FeIsQuad(FeMul(a.y, a.z))
-----------------------------------------------------------------------------
DoubleRatio(a) == FeMulInt(FeNormalizeWeak(a.y), 2)
DoubledPoint(a, t1, t2, t3, t4) ==
    Gej(FeAdd(FeNegate(FeMulInt(t3, 4), 4), t2),
        FeAdd(FeMul(t1, FeAdd(FeMulInt(t3, 6), FeNegate(t2, 1))), FeNegate(t4, 2)),
        FeMulInt(FeMul(a.z, a.y), 2), FALSE)
DoubledFrom(a, t1, s) == DoubledPoint(a, t1, FeSqr(t1), FeMul(s, a.x), FeMulInt(FeSqr(s), 2))
GejDouble(a) ==
    IF a.inf THEN [p |-> a, zr |-> FeSetInt(1)]
    ELSE [p |-> DoubledFrom(a, FeMulInt(FeSqr(a.x), 3), FeMulInt(FeSqr(a.y), 2)),
          zr |-> DoubleRatio(a)]

ChordY(rx, s1, i, h3, t) ==
    FeAdd(FeMul(FeAdd(FeNegate(rx, 5), t), i), FeNegate(FeMul(h3, s1), 1))
ChordPoint(a, s1, i, h3, t, zr, rx) ==
    [p |-> Gej(rx, ChordY(rx, s1, i, h3, t), FeMul(a.z, zr), FALSE), zr |-> zr]
ProperChord(a, s1, i, h3, t, zr) ==
    ChordPoint(a, s1, i, h3, t, zr, FeAdd(FeNegate(FeAdd(FeMulInt(t, 2), h3), 3), FeSqr(i)))

\* Two points brought to one denominator, with the differences h of their x and i
\* of their y: equal, opposite or on a proper chord; bz is what the other point
\* adds to the new Z.
ChordBy(a, u1, s1, h, i, bz) ==
    CASE FeNormalizesToZero(h) /\ FeNormalizesToZero(i) -> GejDouble(a)
      [] FeNormalizesToZero(h) /\ ~FeNormalizesToZero(i) ->
           [p |-> [a EXCEPT !.inf = TRUE], zr |-> FeSetInt(0)]
      [] OTHER -> ProperChord(a, s1, i, FeMul(h, FeSqr(h)), FeMul(u1, FeSqr(h)),
                              IF bz = <<>> THEN h ELSE FeMul(h, bz[1]))
GejChord(a, u1, s1, u2, s2, bz) ==
    ChordBy(a, u1, s1, FeAdd(FeNegate(u1, 1), u2), FeAdd(FeNegate(s1, 1), s2), bz)

GejAdd(a, b) ==
    LET z22 == FeSqr(b.z)
        z12 == FeSqr(a.z)
    IN  IF a.inf THEN [p |-> b, zr |-> Spoiled]
        ELSE IF b.inf THEN [p |-> a, zr |-> FeSetInt(1)]
        ELSE GejChord(a, FeMul(a.x, z22), FeMul(FeMul(a.y, z22), b.z),
                      FeMul(b.x, z12), FeMul(FeMul(b.y, z12), a.z), <<b.z>>)

GejAddGeVar(a, b) ==
    LET z12 == FeSqr(a.z)
    IN  IF a.inf THEN [p |-> GejSetGe(b), zr |-> Spoiled]
        ELSE IF b.inf THEN [p |-> a, zr |-> FeSetInt(1)]
        ELSE GejChord(a, FeNormalizeWeak(a.x), FeNormalizeWeak(a.y),
                      FeMul(b.x, z12), FeMul(FeMul(b.y, z12), a.z), <<>>)

\* b stands for (b.x, b.y, 1/bzinv): the isomorphism moves bzinv to a's side.
GejAddZinv(a, b, bzinv) ==
    LET az == FeMul(a.z, bzinv)
        z12 == FeSqr(az)
    IN  IF b.inf THEN a
        ELSE IF a.inf THEN GejSetGe(GeSetGejZinv(b, bzinv))
        ELSE GejChord(a, FeNormalizeWeak(a.x), FeNormalizeWeak(a.y),
                      FeMul(b.x, z12), FeMul(FeMul(b.y, z12), az), <<>>).p

\* Mutated form: the degenerate slope 0/0 is not replaced by the other one.
NeverDegenerate(m, rr) == FALSE

\* Where the unified slope is 0/0 although the points are not opposite.
Degenerate(m, rr) == FeNormalizesToZero(m) /\ FeNormalizesToZero(rr)

\* The slope of the constant-time addition as a fraction num / den, one form for
\* sums and doublings, or the other form where that one is 0/0.
SlopeEither(u1, u2, s1, t, m, rr, degenerate) ==
    [t |-> t, m |-> m, degenerate |-> degenerate,
     num |-> FeCmov(FeMulInt(s1, 2), rr, ~degenerate),
     den |-> FeCmov(FeAdd(FeNegate(u2, 1), u1), m, ~degenerate)]
SlopeFrom(u1, u2, s1, t, m, rr) == SlopeEither(u1, u2, s1, t, m, rr, Degenerate(m, rr))
SlopeOf(u1, u2, s1, s2) ==
    SlopeFrom(u1, u2, s1, FeAdd(u1, u2), FeAdd(s1, s2),
              FeAdd(FeSqr(FeAdd(u1, u2)), FeMul(u1, FeNegate(u2, 1))))
Slope(a, b) ==
    LET zz == FeSqr(a.z)
    IN  SlopeOf(FeNormalizeWeak(a.x), FeMul(b.x, zz), FeNormalizeWeak(a.y),
                FeMul(FeMul(b.y, zz), a.z))

\* The constant-time addition; the second point must not be infinity.
AddedGe(a, b, l, z, x3, y3) ==
    IF a.inf \notin BOOLEAN \/ b.inf \/ ~Holds(l.num) \/ ~Holds(x3)
    THEN Gej(Spoiled, Spoiled, Spoiled, FALSE)
    ELSE Gej(FeCmov(FeMulInt(x3, 4), b.x, a.inf),
             FeCmov(FeMulInt(FeNormalizeWeak(FeNegate(y3, 3)), 4), b.y, a.inf),
             FeCmov(FeMulInt(z, 2), FeSetInt(1), a.inf),
             FeNormalizesToZero(z) /\ ~a.inf)
AddAtX(a, b, l, q, x3) ==
    AddedGe(a, b, l, FeMul(a.z, l.den), x3,
            FeAdd(FeMul(FeAdd(FeMulInt(x3, 2), q), l.num),
                  FeCmov(FeSqr(FeSqr(l.den)), l.m, l.degenerate)))
AddFrom(a, b, l, q) == AddAtX(a, b, l, q, FeNormalizeWeak(FeAdd(FeSqr(l.num), q)))
AddBySlope(a, b, l) == AddFrom(a, b, l, FeNegate(FeMul(FeSqr(l.den), l.t), 1))
GejAddGe(a, b) == AddBySlope(a, b, Slope(a, b))

GejRescale(a, s) ==
    LET zz == FeSqr(s)
    IN  [a EXCEPT !.x = FeMul(@, zz), !.y = FeMul(FeMul(@, zz), s), !.z = FeMul(@, s)]

GeToStorage(a) == <<FeToStorage(FeNormalize(a.x)), FeToStorage(FeNormalize(a.y))>>
GeFromStorage(s) == Ge(FeFromStorage(s[1]), FeFromStorage(s[2]), FALSE)
GeMulLambda(a, beta) == [a EXCEPT !.x = FeMul(@, beta)]
-----------------------------------------------------------------------------
(* The textbook group law on residues, to compare the formulas with. *)

Origin == <<>>
Quotient(v, d) == CHOOSE w \in 0..P - 1 : Times(w, d % P) = v % P
OnLine(p, slope, x) == <<x, (P + Times(slope, (P + p[1] - x) % P) - p[2]) % P>>
ThirdPoint(p, q, slope) == OnLine(p, slope, (2 * P + Times(slope, slope) - p[1] - q[1]) % P)
AffineSum(p, q) ==
    IF p = Origin THEN q
    ELSE IF q = Origin THEN p
    ELSE IF p[1] = q[1] /\ (p[2] + q[2]) % P = 0 THEN Origin
    ELSE ThirdPoint(p, q, IF p = q THEN Quotient(3 * Times(p[1], p[1]), 2 * p[2])
                          ELSE Quotient(P + q[2] - p[2], P + q[1] - p[1]))

\* The point a Jacobian or an affine record stands for.
StandsGe(a) == IF a.inf THEN Origin ELSE <<a.x.v, a.y.v>>
Stands(a) == StandsGe(GeSetGej(a))
GejHolds(a) == Holds(a.x) /\ Holds(a.y) /\ Holds(a.z)
GeHolds(a) == Holds(a.x) /\ Holds(a.y)
=============================================================================
