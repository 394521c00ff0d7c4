------------------------------ MODULE FixedPoint ------------------------------
(***************************************************************************)
(* tempo-fixed/src/lib.rs: fixed-point numbers, as their raw integers of   *)
(* WordBits bits with FracBits bits of fraction (Q32.32 in the code).      *)
(* Everything saturates; a product is reduced by an arithmetic shift,      *)
(* which floors, a quotient truncates toward zero.                         *)
(***************************************************************************)
EXTENDS Integers

CONSTANTS WordBits, FracBits   \* 64 and 32

ASSUME FixedPointAssumption ==
  FracBits \in Nat \ {0} /\ WordBits \in Nat /\ WordBits > FracBits + 1

(* 1 << n *)
TwoTo[n \in Nat] == IF n = 0 THEN 1 ELSE 2 * TwoTo[n - 1]

One == TwoTo[FracBits]
Half == One \div 2
MaxRaw == TwoTo[WordBits - 1] - 1
MinRaw == -TwoTo[WordBits - 1]
Fx == MinRaw .. MaxRaw

(* sat *)
Saturated(v) == IF v > MaxRaw THEN MaxRaw ELSE IF v < MinRaw THEN MinRaw ELSE v

ShiftRight(v, n) == v \div 2 ^ n
Magnitude(v) == IF v < 0 THEN -v ELSE v

(* Integer division of the language: toward zero.                          *)
Truncated(a, b) ==
  LET q == Magnitude(a) \div Magnitude(b) IN IF (a < 0) = (b < 0) THEN q ELSE -q

(* What is divided by zero goes to the end it points to.                   *)
Extreme(sign) == IF sign > 0 THEN MaxRaw ELSE IF sign < 0 THEN MinRaw ELSE 0

FromInt(i) == i * One
FromRatio(num, den) ==
  IF den = 0 THEN Extreme(num) ELSE Saturated(Truncated(num * One, den))

Add(a, b) == Saturated(a + b)
Sub(a, b) == Saturated(a - b)
Neg(a) == Saturated(-a)
Mul(a, b) == Saturated((a * b) \div One)
Div(a, b) == IF b = 0 THEN Extreme(a) ELSE Saturated(Truncated(a * One, b))

(* Mutant: the remainder of the flooring division.                         *)
RemOfFloor(a, b) == IF b = 0 THEN 0 ELSE a - b * ((a * (IF b < 0 THEN -1 ELSE 1)) \div Magnitude(b))

Rem(a, b) == IF b = 0 THEN 0 ELSE a - b * Truncated(a, b)

(* checked_add, checked_sub, checked_mul, checked_div: nothing on overflow.*)
Nothing == MaxRaw + 1
Checked(v) == IF v \in Fx THEN v ELSE Nothing
CheckedAdd(a, b) == Checked(a + b)
CheckedSub(a, b) == Checked(a - b)
CheckedMul(a, b) == Checked((a * b) \div One)
CheckedDiv(a, b) == IF b = 0 THEN Nothing ELSE Checked(Truncated(a * One, b))

(* The mask clears the bits of the fraction, of negative numbers too.      *)
Whole(a) == a - (a % One)
Floor(a) == Whole(a)
Ceil(a) == Whole(Saturated(a + One - 1))
Round(a) == Whole(Saturated(a + Half))
Frac(a) == a % One
ToIntFloor(a) == a \div One
ToIntTrunc(a) == Truncated(a, One)

Abs(a) == IF a < 0 THEN Neg(a) ELSE a
Signum(a) == IF a > 0 THEN One ELSE IF a < 0 THEN -One ELSE 0
Smaller(a, b) == IF a < b THEN a ELSE b
Larger(a, b) == IF a > b THEN a ELSE b
Clamp(a, lo, hi) == IF a < lo THEN lo ELSE IF a > hi THEN hi ELSE a
Lerp(a, to, t) == Add(a, Mul(Sub(to, a), t))

(***************************************************************************)
(* Square root, bit by bit (isqrt_u128).                                   *)
(***************************************************************************)
(* The largest power of four not above n.                                  *)
TopBit(n) == CHOOSE k \in 0 .. WordBits : TwoTo[2 * k] <= n /\ n < TwoTo[2 * (k + 1)]

Isqrt(n) ==
  LET top == TopBit(n)
      after[k \in 0 .. top + 1] ==   \* once the bits from k on are done
        IF k = top + 1 THEN [x |-> 0, rem |-> n]
        ELSE LET s == after[k + 1]
                 bit == TwoTo[2 * k]
             IN IF s.rem >= s.x + bit
                THEN [x |-> s.x \div 2 + bit, rem |-> s.rem - (s.x + bit)]
                ELSE [s EXCEPT !.x = @ \div 2]
  IN IF n = 0 THEN 0 ELSE after[0].x

Sqrt(a) == IF a <= 0 THEN 0 ELSE Isqrt(a * One)
=============================================================================
