------------------------------ MODULE Arithmetic ------------------------------
(***************************************************************************)
(* What a simulation computes on the fields of a component, by type, and   *)
(* the reference the results are compared with: the laws say what a number *)
(* is supposed to be, never how the code gets it.                          *)
(*                                                                         *)
(* A value is the tuple of its numbers; so is the second operand, of the   *)
(* same type.                                                              *)
(***************************************************************************)
EXTENDS Vectors

CONSTANT Tolerance   \* raw error the tables of the model allow a function

(* The trait implementations and methods of Fx.                            *)
OfNumber(op, a, b) ==
  CASE op = "add" -> Add(a, b)    [] op = "sub" -> Sub(a, b)      [] op = "mul" -> Mul(a, b)
    [] op = "div" -> Div(a, b)    [] op = "rem" -> Rem(a, b)      [] op = "atan2" -> Atan2(a, b)
    [] op = "sqrt" -> Sqrt(a)     [] op = "sin" -> Sin(a)         [] op = "cos" -> Cos(a)
    [] op = "tan" -> Tan(a)       [] op = "log2" -> Log2(a)       [] op = "exp" -> Exp(a)
    [] op = "ln" -> Ln(a)         [] op = "powf" -> Powf(a, b)    [] op = "frac" -> Frac(a)
    [] op = "floor" -> Floor(a)   [] op = "ceil" -> Ceil(a)       [] op = "round" -> Round(a)
    [] op = "abs" -> Abs(a)       [] op = "neg" -> Neg(a)         [] op = "signum" -> Signum(a)
    [] op = "min" -> Smaller(a, b) [] op = "max" -> Larger(a, b)  [] op = "clamp" -> Clamp(a, Neg(b), b)
    [] op = "lerp" -> Lerp(a, b, Half)

OfVector(op, a, b) ==
  CASE op = "add" -> VAdd(a, b)         [] op = "sub" -> VSub(a, b)
    [] op = "neg" -> VNeg(a)            [] op = "lerp" -> VLerp(a, b, Half)
    [] op = "normalize" -> Normalize(a) [] op = "scale" -> VScale(a, b[1])
    [] op = "perp" -> Perp(a)           [] op = "turn" -> RotatedBy(a, b[1])
    [] op = "cross" -> Cross(a, b)      [] op = "rotate" -> Rotate(FromAxisAngle(b, HalfPi), a)

OfRotation(op, a, b) ==
  CASE op = "mul" -> QMul(a, b)  [] op = "conjugate" -> Conjugate(a)  [] op = "normalize" -> QNormalize(a)

Operations ==
  [bool |-> {}, uint |-> {}, int |-> {}, enum |-> {}, string |-> {}, bytes |-> {},
   fx   |-> {"add", "sub", "mul", "div", "rem", "atan2", "sqrt", "sin", "cos", "tan", "log2", "exp",
             "ln", "powf", "frac", "floor", "ceil", "round", "abs", "neg", "signum", "min", "max",
             "clamp", "lerp"},
   vec2 |-> {"add", "sub", "neg", "lerp", "normalize", "scale", "perp", "turn"},
   vec3 |-> {"add", "sub", "neg", "lerp", "normalize", "scale", "cross", "rotate"},
   quat |-> {"mul", "conjugate", "normalize"}]

Apply(ty, op, a, b) ==
  CASE ty = "fx" -> <<OfNumber(op, a[1], b[1])>>
    [] ty \in {"vec2", "vec3"} -> OfVector(op, a, b)
    [] ty = "quat" -> OfRotation(op, a, b)

(* What is computed without a table.                                       *)
ExactOps == {"add", "sub", "mul", "div", "rem", "sqrt", "frac", "floor", "ceil", "round", "abs", "neg",
             "signum", "min", "max", "clamp", "lerp"}

-----------------------------------------------------------------------------
(***************************************************************************)
(* The laws.                                                               *)
(***************************************************************************)
Near(a, b, error) == Magnitude(a - b) <= error
Between(lo, v, hi) == lo <= v /\ v <= hi
Overflows(exact) == exact \notin Fx
(* r is v, or the end of the range v is beyond.                            *)
IsSaturated(r, v) == IF Overflows(v) THEN r = IF v > 0 THEN MaxRaw ELSE MinRaw ELSE r = v
(* What the checked operation says: the saturated result, or no result.    *)
IsChecked(c, r, v) == c = IF Overflows(v) THEN Nothing ELSE r
(* A half turn is where the quadrants of a point meet.                     *)
Toward(angle, y, x) == /\ Sin(angle) * y >= -(Tolerance * Magnitude(y))
                       /\ Cos(angle) * x >= -(Tolerance * Magnitude(x))

NumberLaw(op, a, b, r) ==
  CASE op = "add"   -> IsSaturated(r, a + b) /\ IsChecked(CheckedAdd(a, b), r, a + b)
    [] op = "sub"   -> IsSaturated(r, a - b) /\ IsChecked(CheckedSub(a, b), r, a - b)
    [] op = "mul"   -> IF CheckedMul(a, b) = Nothing THEN r = IF (a < 0) = (b < 0) THEN MaxRaw ELSE MinRaw
                       ELSE r = CheckedMul(a, b) /\ Between(r * One, a * b, r * One + One - 1)
    [] op = "div"   -> IF b = 0 THEN r = IF a > 0 THEN MaxRaw ELSE IF a < 0 THEN MinRaw ELSE 0
                       ELSE IF CheckedDiv(a, b) = Nothing THEN r = IF (a < 0) = (b < 0) THEN MaxRaw ELSE MinRaw
                       ELSE /\ Magnitude(r * b) <= Magnitude(a * One)
                            /\ Magnitude(a * One - r * b) < Magnitude(b)
                            /\ a % One = 0 /\ b % One = 0 => r = FromRatio(a \div One, b \div One)
    [] op = "rem"   -> b # 0 => /\ Magnitude(r) < Magnitude(b)
                                /\ (a - r) % Magnitude(b) = 0
                                /\ r # 0 => (r < 0) = (a < 0)
    [] op = "sqrt"  -> a > 0 => Between(r * r, a * One, (r + 1) * (r + 1) - 1)
    [] op \in {"sin", "cos"} -> Between(-One, r, One)
    [] op = "tan"   -> Near(Mul(r, Cos(a)), Sin(a), Tolerance) \/ r \in {MinRaw, MaxRaw}
    [] op = "atan2" -> Between(-Pi, r, Pi) /\ Toward(r, a, b)
    [] op = "log2"  -> a > One \div 16 => Near(Exp2(r), a, (Tolerance * a) \div One + 1)
    [] op = "exp"   -> Between(MinRaw, a, One * 4) => Near(Ln(r), a, Tolerance) \/ r <= Tolerance
    [] op = "ln"    -> a > One \div 16 => Near(Exp(r), a, (Tolerance * a) \div One + Tolerance)
    [] op = "powf"  -> (a > 0 /\ b = 0) => r = One
    [] op = "frac"  -> Floor(a) + r = a /\ Between(0, r, One - 1)
    [] op = "floor" -> r % One = 0 /\ Between(r, a, r + One - 1)
    [] op = "ceil"  -> r % One = 0 /\ (a <= MaxRaw - One => Between(r - One + 1, a, r))
    [] op = "round" -> r % One = 0 /\ (a <= MaxRaw - One => Between(r - Half, a, r + Half - 1))
                       /\ FromInt(ToIntTrunc(a)) = a - Rem(a, One)
    [] op = "abs"   -> IsSaturated(r, Magnitude(a)) /\ r = Larger(a, Neg(a))
    [] op = "neg"   -> IsSaturated(r, -a)
    [] op = "signum" -> Mul(Abs(a), r) = Larger(a, -MaxRaw)
    [] op \in {"min", "max"} -> {r, Add(a, b) - r} = {a, b} \/ Overflows(a + b)
    [] op = "clamp" -> b >= 0 => r = Larger(Neg(b), Smaller(a, b))
    [] op = "lerp"  -> ~Overflows(b - a) => Near(2 * r, a + b, 1)

(* A length the products of which do not saturate.                         *)
Moderate(a) == LengthSq(a) < MaxRaw

VectorLaw(op, a, b, r) ==
  CASE op = "normalize" -> IF Length(a) = 0 THEN r = Zero(Len(a))
                           ELSE Moderate(a) /\ Length(a) >= Half =>
                             /\ Near(Length(r), One, Tolerance)
                             /\ Len(a) = 2 => Toward(Angle(a), r[2], r[1])
    [] op = "sub"       -> VDistance(a, b) = VDistance(b, a) \/ ~Moderate(r)
    [] op = "perp"      -> Moderate(a) => Near(Dot(a, r), 0, 1)
    [] op = "cross"     -> Moderate(a) /\ Moderate(b) => Near(Dot(a, r), 0, (3 * Length(a)) \div One + 3)
    [] op \in {"turn", "rotate"} ->
         Moderate(a) /\ (IF op = "turn" THEN b[1] <= MaxRaw - HalfPi ELSE Moderate(b)) =>
           Near(Length(r), Length(a), (Tolerance * Length(a)) \div One + Tolerance)
    [] op = "lerp"      -> \A i \in DOMAIN a : ~Overflows(b[i] - a[i]) => Near(2 * r[i], a[i] + b[i], 1)
    [] OTHER            -> \A i \in DOMAIN a : r[i] \in Fx

IsUnit(q) == Near(LengthSq(q), One, Tolerance)

RotationLaw(op, a, b, r) ==
  IsUnit(a) /\ IsUnit(b) =>
    /\ Near(LengthSq(r), One, 3 * Tolerance)
    /\ op = "conjugate" => LET p == QMul(a, r) IN \A i \in 1 .. 4 : Near(p[i], Identity[i], Tolerance)

Law(ty, op, a, b, r) ==
  CASE ty = "fx" -> NumberLaw(op, a[1], b[1], r[1])
    [] ty \in {"vec2", "vec3"} -> VectorLaw(op, a, b, r)
    [] ty = "quat" -> RotationLaw(op, a, b, r)
=============================================================================
