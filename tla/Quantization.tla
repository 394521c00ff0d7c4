----------------------------- MODULE Quantization -----------------------------
(***************************************************************************)
(* tempo-wire/src/quantize.rs: fixed-point values as indices of steps, and *)
(* unit quaternions as their three smaller components.  Exact integers on  *)
(* raw values.                                                             *)
(***************************************************************************)
EXTENDS Vectors


Within(v, lo, hi) == IF v < lo THEN lo ELSE IF v > hi THEN hi ELSE v

(* The nearest multiple, a half away from zero: n is never negative.       *)
Nearest(n, den) == (n + den \div 2) \div den

MaxIndex(min, max, step) == (max - min) \div step

Quantize(v, min, max, step) ==
  Within(Nearest(Clamp(v, min, max) - min, step), 0, MaxIndex(min, max, step))

Dequantize(q, min, step) == Saturated(min + q * step)

UnitRange(bits) == 2 ^ bits - 1
QuantizeUnit(v, bits) ==
  Within(Nearest((Clamp(v, Neg(InvSqrt2), InvSqrt2) + InvSqrt2) * UnitRange(bits), 2 * InvSqrt2),
         0, UnitRange(bits))
DequantizeUnit(q, bits) == Saturated(Nearest(q * 2 * InvSqrt2, UnitRange(bits)) - InvSqrt2)

(* The first of the components of largest magnitude.                       *)
LargestOf(q) == CHOOSE i \in 1 .. 4 : /\ \A j \in 1 .. 4 : Abs(q[j]) <= Abs(q[i])
                                      /\ \A j \in 1 .. i - 1 : Abs(q[j]) < Abs(q[i])

(* Mutant: the sign of what is left out is lost.                           *)
SignKept(q, bits) ==
  LET i == LargestOf(q)
  IN [largest    |-> i - 1,
      components |-> [k \in 1 .. 3 |-> QuantizeUnit(RemoveAt(q, i)[k], bits)]]

CompressQuat(q, bits) ==
  LET i    == LargestOf(q)
      rest == RemoveAt(q, i)
  IN [largest    |-> i - 1,
      components |-> [k \in 1 .. 3 |-> QuantizeUnit(IF q[i] < 0 THEN Neg(rest[k]) ELSE rest[k], bits)]]

DecompressQuat(s, bits) ==
  LET rest == [k \in 1 .. 3 |-> DequantizeUnit(s.components[k], bits)]
      left == Sqrt(Larger(Sub(One, LengthSq(rest)), 0))
  IN InsertAt(rest, s.largest + 1, left)
=============================================================================
