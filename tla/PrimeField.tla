---------------------------- MODULE PrimeField ----------------------------
(***************************************************************************)
(* Two field elements under any sequence of the operations of field.h: the *)
(* abstract specification the limbs of module Field implement.             *)
(***************************************************************************)
EXTENDS FieldElement

CONSTANTS
    Residues,       \* the numbers elements are set to
    Factors         \* the small integers elements are multiplied by

VARIABLES x, y

vars == <<x, y>>

Init == x = FeClear /\ y = FeClear

\* A number that is not below P is refused, and the element must not be used.
SetB32 == \E a \in Residues : a < P /\ x' = FeSetInt(a) /\ UNCHANGED y

Normalize == x' \in {FeNormalize(x), FeNormalizeWeak(x)} /\ UNCHANGED y
Negate == \E m \in {x.m, x.m + 1} : x' = FeNegate(x, m) /\ UNCHANGED y
MulInt == \E k \in Factors : x' = FeMulInt(x, k) /\ UNCHANGED y
Add == x' = FeAdd(x, y) /\ UNCHANGED y
Mul == x' \in {FeMul(x, y), FeSqr(x)} /\ UNCHANGED y
Cmov == \E flag \in BOOLEAN : x' = FeCmov(x, y, flag) /\ UNCHANGED y
Copy == y' = x /\ UNCHANGED x

Next ==
    /\ SetB32 \/ Normalize \/ Negate \/ MulInt \/ Add \/ Mul \/ Cmov \/ Copy
    /\ Holds(x')

Spec == Init /\ [][Next]_vars
=============================================================================
