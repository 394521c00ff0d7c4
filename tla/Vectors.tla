-------------------------------- MODULE Vectors --------------------------------
(***************************************************************************)
(* tempo-fixed/src/vector.rs: Vec2, Vec3 and Quat as tuples of fixed-point *)
(* numbers.  Addition saturates, so the order of evaluation is part of the *)
(* meaning: everything is evaluated left to right, as written.             *)
(***************************************************************************)
EXTENDS Transcendentals, SequencesExt


Zero(n) == [i \in 1 .. n |-> 0]

(* Componentwise, for any number of components.                            *)
VAdd(a, b) == [i \in DOMAIN a |-> Add(a[i], b[i])]
VSub(a, b) == [i \in DOMAIN a |-> Sub(a[i], b[i])]
VNeg(a) == [i \in DOMAIN a |-> Neg(a[i])]
VScale(a, s) == [i \in DOMAIN a |-> Mul(a[i], s)]
VLerp(a, to, t) == VAdd(a, VScale(VSub(to, a), t))

Dot(a, b) == FoldLeft(Add, 0, [i \in DOMAIN a |-> Mul(a[i], b[i])])
LengthSq(a) == Dot(a, a)
Length(a) == Sqrt(LengthSq(a))
VDistance(a, b) == Length(VSub(a, b))

(* What cannot be normalised becomes a given value.                        *)
NormalizedOr(a, degenerate) ==
  IF Length(a) = 0 THEN degenerate ELSE VScale(a, Div(One, Length(a)))
Normalize(a) == NormalizedOr(a, Zero(Len(a)))

Perp(a) == <<Neg(a[2]), a[1]>>
Angle(a) == Atan2(a[2], a[1])
RotatedBy(a, radians) ==
  LET s == Sin(radians)  c == Cos(radians)
  IN <<Sub(Mul(a[1], c), Mul(a[2], s)), Add(Mul(a[1], s), Mul(a[2], c))>>

Cross(a, b) ==
  LET minor(i, j) == Sub(Mul(a[i], b[j]), Mul(a[j], b[i]))
  IN <<minor(2, 3), minor(3, 1), minor(1, 2)>>

(***************************************************************************)
(* Quaternions <<x, y, z, w>>.                                             *)
(***************************************************************************)
Identity == <<0, 0, 0, One>>
Conjugate(q) == <<Neg(q[1]), Neg(q[2]), Neg(q[3]), q[4]>>
QNormalize(q) == NormalizedOr(q, Identity)
FromAxisAngle(axis, radians) ==
  Append(VScale(Normalize(axis), Sin(Mul(radians, Half))), Cos(Mul(radians, Half)))

(* Products left to right; those marked "-" enter negated.                 *)
Terms(p, q, terms) ==
  FoldLeft(Add, 0, [k \in 1 .. 4 |->
    LET t == Mul(p[terms[k][1]], q[terms[k][2]]) IN IF terms[k][3] = "-" THEN Neg(t) ELSE t])

QMul(p, q) ==
  << Terms(p, q, << <<4, 1, "+">>, <<1, 4, "+">>, <<2, 3, "+">>, <<3, 2, "-">> >>),
     Terms(p, q, << <<4, 2, "+">>, <<1, 3, "-">>, <<2, 4, "+">>, <<3, 1, "+">> >>),
     Terms(p, q, << <<4, 3, "+">>, <<1, 2, "+">>, <<2, 1, "-">>, <<3, 4, "+">> >>),
     FoldLeft(Sub, Mul(p[4], q[4]), [i \in 1 .. 3 |-> Mul(p[i], q[i])]) >>

Rotate(q, v) ==
  LET qv == SubSeq(q, 1, 3)
      t  == VScale(Cross(qv, v), FromInt(2))
  IN VAdd(VAdd(v, VScale(t, q[4])), Cross(qv, t))
=============================================================================
