---------------------------- MODULE Transcendentals ----------------------------
(***************************************************************************)
(* tempo-fixed/src/lib.rs: the functions that are looked up in committed   *)
(* tables (tables.rs), functions from the indices 0 .. steps, and the      *)
(* sentinels beyond, to raw values.                                        *)
(***************************************************************************)
EXTENDS FixedPoint

CONSTANTS
  SinTable,  SinFracBits,                      \* over a turn; the bits below an index
  AtanTable, AtanFracBits,                     \* over the ratios [0, 1]
  Exp2Table, Log2Table, ExpFracBits,
  Pi, HalfPi, InvTau, Log2E, Ln2, InvSqrt2     \* committed, never computed

ASSUME TablesAssumption ==
  /\ {SinFracBits, AtanFracBits, ExpFracBits} \subseteq 0 .. FracBits - 1
  /\ DOMAIN SinTable = 0 .. 2 ^ (FracBits - SinFracBits)
  /\ DOMAIN AtanTable = 0 .. 2 ^ (FracBits - AtanFracBits) + 1
  /\ \A table \in {Exp2Table, Log2Table} : DOMAIN table = 0 .. 2 ^ (FracBits - ExpFracBits)

(***************************************************************************)
(* Table lookups with linear interpolation.                                *)
(***************************************************************************)
Index(f, bits) == f \div 2 ^ bits

Interpolated(table, f, bits) ==
  LET idx == Index(f, bits)
  IN table[idx] + ShiftRight((table[idx + 1] - table[idx]) * (f % 2 ^ bits), bits)

(* The fraction of a turn, positive whatever the sign.                     *)
Sin(a) == Saturated(Interpolated(SinTable, Mul(a, InvTau) % One, SinFracBits))
Cos(a) == Sin(Add(a, HalfPi))
Tan(a) == Div(Sin(a), Cos(a))

(* The ratio of the smaller to the larger coordinate, in [0, 1].           *)
Ratio(y, x) == IF Abs(y) <= Abs(x) THEN Div(Abs(y), Abs(x)) ELSE Div(Abs(x), Abs(y))

Atan2(y, x) ==
  LET octant   == Saturated(Interpolated(AtanTable, Ratio(y, x), AtanFracBits))
      quadrant == IF Abs(y) <= Abs(x) THEN octant ELSE Sub(HalfPi, octant)
      upper    == IF x < 0 THEN Sub(Pi, quadrant) ELSE quadrant
  IN IF y = 0 /\ x = 0 THEN 0 ELSE IF y < 0 THEN Neg(upper) ELSE upper

(* Integer bits of a positive number; the range of shifts is the word's.   *)
IntBits == WordBits - FracBits

Exp2(a) ==
  LET n == ToIntFloor(a)
      mantissa == Interpolated(Exp2Table, Frac(a), ExpFracBits)
  IN IF n >= IntBits - 1 THEN MaxRaw
     ELSE IF n < -(WordBits - 1) THEN 0
     ELSE Saturated(IF n >= 0 THEN mantissa * 2 ^ n ELSE ShiftRight(mantissa, -n))

(* The leading one of a positive raw value.                                *)
Msb(raw) == CHOOSE k \in 0 .. WordBits : 2 ^ k <= raw /\ raw < 2 ^ (k + 1)

(* What follows the leading one, as a fraction.                            *)
Normalised(raw) ==
  LET k == Msb(raw)
  IN IF k >= FracBits THEN (raw - 2 ^ k) \div 2 ^ (k - FracBits)
     ELSE (raw - 2 ^ k) * 2 ^ (FracBits - k)

Log2(a) ==
  IF a <= 0 THEN MinRaw
  ELSE Add(FromInt(Msb(a) - FracBits), Saturated(Interpolated(Log2Table, Normalised(a), ExpFracBits)))

Exp(a) == Exp2(Mul(a, Log2E))
Ln(a) == IF a <= 0 THEN MinRaw ELSE Mul(Log2(a), Ln2)
Powf(a, e) == IF a <= 0 THEN 0 ELSE Exp2(Mul(Log2(a), e))
=============================================================================
