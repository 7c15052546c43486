----------------------------- MODULE ScalarLow -----------------------------
(***************************************************************************)
(* What a scalar of secp256k1 promises: an integer modulo the group order  *)
(* Order, as scalar_low_impl.h computes it for the exhaustive tests, in    *)
(* ScalarBits bits.  Module Scalar has the limbs of the production code.   *)
(***************************************************************************)
EXTENDS Integers

CONSTANTS
    Order,          \* the group order
    ScalarBits      \* bits of a scalar: Order < 2^ScalarBits < 2 * Order

ASSUME OrderAssumption ==
    /\ Order \in Nat /\ ScalarBits \in Nat
    /\ Order < 2^ScalarBits /\ 2^ScalarBits < 2 * Order /\ Order % 2 = 1

Scalars == 0..Order - 1

\* secp256k1_scalar_set_b32: a number that is not reduced is taken modulo the
\* order, and reported.
SetB32Scalar(b) == [r |-> b % Order, overflow |-> b >= Order]

ScalarAdd(a, b) == (a + b) % Order
ScalarNegate(a) == (Order - a) % Order
ScalarCondNegate(a, flag) == IF flag THEN ScalarNegate(a) ELSE a
ScalarMul(a, b) == (a * b) % Order
ScalarIsHigh(a) == a > Order \div 2
ScalarIsEven(a) == a % 2 = 0

\* secp256k1_scalar_inverse of the exhaustive tests: the last i with i * x = 1.
ScalarInverse(x) == IF x = 0 THEN 0 ELSE CHOOSE i \in Scalars : (i * x) % Order = 1

\* secp256k1_scalar_get_bits(_var) and secp256k1_scalar_shr_int.
GetBits(a, offset, count) == (a \div 2^offset) % 2^count
ShrInt(a, n) == a \div 2^n

\* secp256k1_scalar_mul_shift_var: the product, shifted and rounded.
MulShift(a, b, shift) == ((a * b) \div 2^shift) + (((a * b) \div 2^(shift - 1)) % 2)
=============================================================================
