----------------------------- MODULE ScalarRing -----------------------------
(***************************************************************************)
(* Two scalars under any sequence of the operations of scalar.h: the       *)
(* abstract specification the limbs of module Scalar implement.            *)
(***************************************************************************)
EXTENDS ScalarLow

CONSTANTS
    Encodings,      \* the numbers scalars are set to
    Shifts          \* the shifts, and the bits that are added

VARIABLES
    x, y,   \* two scalars
    ret     \* what the last call returned

vars == <<x, y, ret>>

Init == x = 0 /\ y = 0 /\ ret = 0

\* x becomes r, and the call returns v.
Gives(r, v) == x' = r /\ ret' = v /\ UNCHANGED y

Flag(b) == IF b THEN 1 ELSE 0

SetB32 == \E b \in Encodings : Gives(b % Order, Flag(b >= Order))
Add == Gives(ScalarAdd(x, y), Flag(x + y >= Order))
CaddBit ==
    \E bit \in Shifts, flag \in BOOLEAN :
        x + Flag(flag) * 2^bit < Order /\ Gives(x + Flag(flag) * 2^bit, 0)
Negate == \E flag \in BOOLEAN : Gives(ScalarCondNegate(x, flag), IF flag THEN -1 ELSE 1)
Mul == Gives(ScalarMul(x, y), 0) \/ Gives(ScalarMul(x, x), 0)
Shr == \E n \in Shifts : Gives(ShrInt(x, n), x % 2^n)
MulShr == \E n \in Shifts : Gives(MulShift(x, y, ScalarBits + n), 0)
Split == x' = x % 2^(ScalarBits \div 2) /\ y' = x \div 2^(ScalarBits \div 2) /\ ret' = 0
Copy == y' = x /\ UNCHANGED <<x, ret>>

Next == SetB32 \/ Add \/ CaddBit \/ Negate \/ Mul \/ Shr \/ MulShr \/ Split \/ Copy

Spec == Init /\ [][Next]_vars
=============================================================================
