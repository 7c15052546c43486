------------------------------ MODULE PointSum ------------------------------
(***************************************************************************)
(* An accumulator that any sequence of the formulas and multiplications of *)
(* secp256k1 works on: each takes the result of another, with whatever Z   *)
(* and magnitudes that one left, and multiples of the generator.           *)
(***************************************************************************)
EXTENDS Ecmult

CONSTANTS
    Addends,        \* multiples of the generator to add
    Scales,         \* values of Z the second point may have
    Factors,        \* scalars to multiply by
    Spaces,         \* scratch spaces for the multiplication of many points
    MaxPointOps     \* bound on the number of steps

VARIABLES
    point,            \* a Jacobian point
    multiple,       \* what it should stand for, as a multiple of the generator
    ratio,          \* <<Z before, Z after, the ratio reported>> by the last formula,
                    \* or <<>>
    pointOps

pointVars == <<point, multiple, ratio, pointOps>>

Multiple(n) == Multiples[(n % Order) + 1]
Affine(n) == IF n = 0 THEN GeInfinity ELSE GeFromStorage(Multiple(n))
Jacobian(n, s) == IF n = 0 THEN GejInfinity ELSE GejRescale(GejSetGe(Affine(n)), FeSetInt(s))

PointInit ==
    \E n \in Addends, s \in Scales :
        /\ point = Jacobian(n, s) /\ multiple = n
        /\ ratio = <<>> /\ pointOps = 0

\* The accumulator becomes r, which should stand for n; zr is <<>> where the formula
\* reports no ratio.  From infinity, the formulas leave the ratio unset.
Becomes(r, n, zr) ==
    /\ pointOps' = pointOps + 1
    /\ point' = r /\ multiple' = n % Order
    /\ ratio' = IF zr = <<>> \/ point.inf THEN <<>> ELSE <<point.z, r.z, zr[1]>>

DoubleVar == \E r \in {GejDouble(point)} : Becomes(r.p, 2 * multiple, <<r.zr>>)
AddVar ==
    \E n \in Addends, s \in Scales : \E r \in {GejAdd(point, Jacobian(n, s))} :
        Becomes(r.p, multiple + n, <<r.zr>>)
AddGeVar ==
    \E n \in Addends : \E r \in {GejAddGeVar(point, Affine(n))} : Becomes(r.p, multiple + n, <<r.zr>>)
AddGe ==
    \E n \in Addends \ {0} : \E r \in {GejAddGe(point, Affine(n))} : Becomes(r, multiple + n, <<>>)

\* The point comes without its Z, which is given inverted.
AddZinvVar ==
    \E n \in Addends, s \in Scales :
        \E q \in {Jacobian(n, s)} : \E r \in {GejAddZinv(point, Ge(q.x, q.y, q.inf), FeInv(q.z))} :
            Becomes(r, multiple + n, <<>>)
Neg == \E r \in {GejNeg(point)} : Becomes(r, Order - multiple, <<>>)
ToAffine == \E q \in {GeSetGejVar(point)} : Becomes(GejSetGe(q), multiple, <<>>)

\* secp256k1_ecmult, with and without a scalar for the generator.
Multiply ==
    \E na, ng \in Factors : \E r \in {EcmultOf(point, na, <<ng>>)} : Becomes(r, na * multiple + ng, <<>>)

\* secp256k1_ecmult_const; its callers never pass infinity.
MultiplyConst ==
    /\ ~point.inf
    /\ \E n \in Factors \ {0} : \E r \in {EcmultConst(GeSetGejVar(point), n)} : Becomes(r, n * multiple, <<>>)

\* secp256k1_ecmult_multi_var over three points, one of them possibly infinity; a
\* scratch space that is too small or a callback that fails leaves the caller with
\* nothing.
MultiplyMany ==
    \E n1, n2 \in Factors, space \in Spaces, fails \in {{}, {3}} :
        /\ n1 # n2
        /\ \E q \in {GeSetGejVar(point)} :
           \E done \in {EcmultMulti(space, <<n1>>, <<n1, n2, 2>>, <<q, Affine(2), q>>, fails)} :
               IF done.ok THEN Becomes(done.r, n1 * multiple + 2 * n2 + 2 * multiple + n1, <<>>)
               ELSE Becomes(GejInfinity, 0, <<>>)

PointNext ==
    /\ pointOps < MaxPointOps
    /\ \/ DoubleVar \/ AddVar \/ AddGeVar \/ AddGe \/ AddZinvVar \/ Neg \/ ToAffine
       \/ Multiply \/ MultiplyConst \/ MultiplyMany
-----------------------------------------------------------------------------
\* The formulas and multiplications compute the group law on each other's results:
\* the accumulator stands for the multiple that was added up, is infinity exactly
\* for the multiple 0, and no element outgrows its limbs (group_impl.h,
\* ecmult_impl.h, ecmult_const_impl.h).
FormulasAddUp ==
    /\ GejHolds(point) /\ point.inf = (multiple = 0)
    /\ Stands(point) = Multiple(multiple)
    /\ GejIsValid(point) = (multiple # 0)
    /\ \A n \in 1..Order - 1 : multiple # 0 =>
           GejEqX(FeSetInt(Multiple(n)[1]), point) = (n \in {multiple, Order - multiple})

\* The ratio a formula reports is that of the Z after it to the Z before it; the
\* tables of ecmult_impl.h are brought to one Z by these ratios.
RatiosAreRight ==
    ratio # <<>> /\ ~point.inf =>
        Holds(ratio[3]) /\ FeNormalize(ratio[2]).v = FeNormalize(FeMul(ratio[1], ratio[3])).v
=============================================================================
