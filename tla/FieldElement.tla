--------------------------- MODULE FieldElement ---------------------------
(***************************************************************************)
(* What a field element of secp256k1 promises (field.h): a residue modulo  *)
(* the prime P, a magnitude that bounds how far its limbs may have grown,  *)
(* and whether it is normalized.  The limbs are in module Field; callers   *)
(* (module Group) rely only on the contracts of this module.               *)
(*                                                                         *)
(* An element used outside its contract is Spoiled: the debug build stops  *)
(* there (VERIFY_CHECK), the release build goes on with a wrong number.    *)
(***************************************************************************)
EXTENDS Integers, Sequences

CONSTANTS
    P,              \* the field prime
    MaxMagnitude,   \* the magnitude the limbs can hold (the code: 32)
    MulMagnitude    \* the largest magnitude a factor may have (the code: 8)

ASSUME FieldAssumption ==
    /\ P \in Nat /\ P > 3 /\ MaxMagnitude \in Nat /\ MulMagnitude \in 1..MaxMagnitude

Element == [v : 0..P - 1, m : 0..MaxMagnitude, n : BOOLEAN]
Spoiled == [v |-> 0, m |-> MaxMagnitude + 1, n |-> FALSE]
Holds(a) == a.m <= MaxMagnitude

FeSetInt(a) == [v |-> a % P, m |-> 1, n |-> TRUE]
FeClear == [v |-> 0, m |-> 0, n |-> TRUE]

FeNormalize(a) == IF Holds(a) THEN [a EXCEPT !.m = 1, !.n = TRUE] ELSE a
FeNormalizeWeak(a) == IF Holds(a) THEN [a EXCEPT !.m = 1] ELSE a

\* The magnitude the caller states must cover the element's own.
FeNegate(a, m) ==
    IF a.m <= m /\ m + 1 <= MaxMagnitude
    THEN [v |-> (P - a.v) % P, m |-> m + 1, n |-> FALSE] ELSE Spoiled

FeMulInt(a, k) ==
    IF Holds(a) /\ a.m * k <= MaxMagnitude
    THEN [v |-> (a.v * k) % P, m |-> a.m * k, n |-> FALSE] ELSE Spoiled

FeAdd(a, b) ==
    IF Holds(a) /\ Holds(b) /\ a.m + b.m <= MaxMagnitude
    THEN [v |-> (a.v + b.v) % P, m |-> a.m + b.m, n |-> FALSE] ELSE Spoiled

\* The product modulo P, for a large P four bits of a factor at a time (so that
\* the model checker's integers hold it for P below 2^27).
RECURSIVE LongTimes(_, _, _)
LongTimes(v, w, i) ==
    IF i = 7 THEN 0
    ELSE (((16 * LongTimes(v \div 16, w, i + 1)) % P) + (((v % 16) * w) % P)) % P
Times(v, w) == IF P < 2^15 THEN (v * w) % P ELSE LongTimes(v, w, 0)

FeMul(a, b) ==
    IF a.m <= MulMagnitude /\ b.m <= MulMagnitude
    THEN [v |-> Times(a.v, b.v), m |-> 1, n |-> FALSE] ELSE Spoiled
FeSqr(a) == FeMul(a, a)

\* The magnitude becomes the larger one whichever element was taken.
FeCmov(r, a, flag) ==
    IF Holds(r) /\ Holds(a)
    THEN [v |-> IF flag THEN a.v ELSE r.v,
          m |-> IF a.m > r.m THEN a.m ELSE r.m,
          n |-> r.n /\ a.n]
    ELSE Spoiled

\* Zero tests that reduce first, and tests that read the limbs as they are: an
\* element that is not normalized may stand for v + P, which reads otherwise.
FeNormalizesToZero(a) == Holds(a) /\ a.v = 0
FeIsZero(a) == a.n /\ a.v = 0
FeIsOdd(a) == IF a.n THEN a.v % 2 = 1 ELSE (a.v + P) % 2 = 1
FeEqual(a, b) == FeNormalizesToZero(FeAdd(FeNegate(a, 1), b))
FeCmp(a, b) == IF a.v > b.v THEN 1 ELSE IF a.v < b.v THEN -1 ELSE 0

\* Bytes and storage hold the residue; only a normalized element may be written.
FeGetB32(a) == IF a.n THEN a.v ELSE a.v + P
FeToStorage(a) == FeGetB32(a)
FeFromStorage(s) == [v |-> s % P, m |-> 1, n |-> TRUE]
=============================================================================
