------------------------------ MODULE FieldCodec ------------------------------
(***************************************************************************)
(* tempo-wire/src/value.rs: values of the declared types on the wire, and  *)
(* what a receiver will hold of them.  A value is [ty, v]: v is the tuple  *)
(* of its numbers, or of the bytes of a string.  Nothing but the value is  *)
(* written: both peers know the declaration.                               *)
(***************************************************************************)
EXTENDS Quantization, BitStream, Schema


CONSTANT IsUtf8(_)   \* whether bytes are a string

EnumBits(variants) ==
  CHOOSE b \in 0 .. variants : variants <= 2 ^ b /\ \A c \in 0 .. b - 1 : variants > 2 ^ c

P(f, p) == f.params[p]

LossyFx(f, x) ==
  IF IsQuantized(f)
  THEN Dequantize(Quantize(x, P(f, "min"), P(f, "max"), P(f, "quantize")), P(f, "min"), P(f, "quantize"))
  ELSE x

(* What the receiver holds after decoding the value.                       *)
LossyRoundTrip(f, value) ==
  CASE value.ty \in {"fx", "vec2", "vec3"} -> [value EXCEPT !.v = [i \in DOMAIN @ |-> LossyFx(f, @[i])]]
    [] value.ty = "quat" /\ Declares(f, "quantize_bits") ->
         [value EXCEPT !.v = DecompressQuat(CompressQuat(@, P(f, "quantize_bits")), P(f, "quantize_bits"))]
    [] OTHER -> value

(***************************************************************************)
(* Encoding: the stream with the value appended.                           *)
(***************************************************************************)
EncodeFx(s, f, x) ==
  IF IsQuantized(f)
  THEN WriteBits(s, Quantize(x, P(f, "min"), P(f, "max"), P(f, "quantize")),
                 QuantizedBits(P(f, "min"), P(f, "max"), P(f, "quantize")))
  ELSE WriteBits(s, x, WordBits)

EncodeAll(s, numbers, Write(_, _)) == FoldLeft(Write, s, numbers)

EncodeQuat(s, f, q) ==
  IF Declares(f, "quantize_bits")
  THEN LET c == CompressQuat(q, P(f, "quantize_bits"))
       IN EncodeAll(WriteBits(s, c.largest, 2), c.components,
                    LAMBDA t, n : WriteBits(t, n, P(f, "quantize_bits")))
  ELSE EncodeAll(s, q, LAMBDA t, n : WriteBits(t, n, WordBits))

CheckLen(f, len) == Declares(f, "max_len") => len <= P(f, "max_len")

(* The errors: another type, an enum out of range, a length too long.      *)
Encodable(f, value) ==
  /\ value.ty = f.ty
  /\ f.ty = "enum" => Declares(f, "variants") /\ value.v[1] < P(f, "variants")
  /\ f.ty \in {"string", "bytes"} => CheckLen(f, Len(value.v))

EncodeField(s, f, value) ==
  LET v == value.v
  IN CASE f.ty = "bool"                         -> WriteBits(s, v[1], 1)
       [] f.ty = "uint" /\ ~Declares(f, "bits") -> WriteVaruint(s, v[1])
       [] f.ty = "int" /\ ~Declares(f, "bits")  -> WriteVaruint(s, ZigZag(v[1]))
       [] f.ty \in {"uint", "int"} /\ Declares(f, "bits") -> WriteBits(s, v[1], P(f, "bits"))
       [] f.ty \in {"fx", "vec2", "vec3"}       -> EncodeAll(s, v, LAMBDA t, x : EncodeFx(t, f, x))
       [] f.ty = "quat"                         -> EncodeQuat(s, f, v)
       [] f.ty = "enum"                         -> WriteBits(s, v[1], EnumBits(P(f, "variants")))
       [] f.ty \in {"string", "bytes"}          -> WriteBytes(WriteVaruint(s, Len(v)), v)

(***************************************************************************)
(* Decoding: a reader that has read the numbers of the value, or failed.   *)
(***************************************************************************)
(* Mutant: the sign is not extended.                                       *)
Unextended(raw, bits) == raw

SignExtend(raw, bits) == IF raw < 2 ^ (bits - 1) THEN raw ELSE raw - 2 ^ bits

Map(r, f(_)) == IF r.ok THEN Push(Popped(r, 1), f(LastRead(r))) ELSE r
Repeated(r, n, Read(_)) == FoldLeft(LAMBDA t, i : Read(t), r, [i \in 1 .. n |-> i])
ReadSigned(r, bits) == LET extend(raw) == SignExtend(raw, bits) IN Map(ReadBits(r, bits), extend)

DecodeFx(r, f) ==
  LET dequantized(q) == Dequantize(q, P(f, "min"), P(f, "quantize"))
  IN IF IsQuantized(f)
     THEN Map(ReadBits(r, QuantizedBits(P(f, "min"), P(f, "max"), P(f, "quantize"))), dequantized)
     ELSE ReadSigned(r, WordBits)

DecodeQuat(r, f) ==
  LET k == P(f, "quantize_bits")
      c == Repeated(ReadBits(r, 2), 3, LAMBDA t : ReadBits(t, k))
      n == Len(c.out)
      q == DecompressQuat([largest |-> c.out[n - 3], components |-> SubSeq(c.out, n - 2, n)], k)
  IN IF ~Declares(f, "quantize_bits") THEN Repeated(r, 4, LAMBDA t : ReadSigned(t, WordBits))
     ELSE IF c.ok THEN [Popped(c, 4) EXCEPT !.out = @ \o q] ELSE c

DecodeEnum(r, f) ==
  LET d == ReadBits(r, EnumBits(P(f, "variants")))
  IN IF ~Declares(f, "variants") \/ (d.ok /\ LastRead(d) >= P(f, "variants")) THEN Failed(r) ELSE d

(* The length is checked before anything of that length is read.           *)
DecodeBytes(r, f) ==
  LET l == ReadVaruint(r, WordBits)
      len == LastRead(l)
      d == ReadBytes(Popped(l, 1), len)
  IN IF ~l.ok \/ ~CheckLen(f, len) \/ len > Remaining(l) \div ByteBits THEN Failed(r)
     ELSE IF f.ty = "string" /\ d.ok /\ ~IsUtf8(SubSeq(d.out, Len(r.out) + 1, Len(d.out)))
          THEN Failed(r) ELSE d

Decoded(r, f) ==
  LET Varint(u) == UnZigZag(u)
  IN CASE f.ty = "bool"                         -> ReadBits(r, 1)
       [] f.ty = "uint" /\ ~Declares(f, "bits") -> ReadVaruint(r, WordBits)
       [] f.ty = "uint" /\ Declares(f, "bits")  -> ReadBits(r, P(f, "bits"))
       [] f.ty = "int" /\ ~Declares(f, "bits")  -> Map(ReadVaruint(r, WordBits), Varint)
       [] f.ty = "int" /\ Declares(f, "bits")   -> ReadSigned(r, P(f, "bits"))
       [] f.ty = "fx"                           -> DecodeFx(r, f)
       [] f.ty = "vec2"                         -> Repeated(r, 2, LAMBDA t : DecodeFx(t, f))
       [] f.ty = "vec3"                         -> Repeated(r, 3, LAMBDA t : DecodeFx(t, f))
       [] f.ty = "quat"                         -> DecodeQuat(r, f)
       [] f.ty = "enum"                         -> DecodeEnum(r, f)
       [] f.ty \in {"string", "bytes"}          -> DecodeBytes(r, f)

(* The value in place of its numbers.                                      *)
DecodeField(r, f) ==
  LET d == Decoded(r, f)
      n == Len(r.out)
  IN IF d.ok THEN [d EXCEPT !.out = Append(SubSeq(@, 1, n), [ty |-> f.ty, v |-> SubSeq(@, n + 1, Len(@))])]
     ELSE Failed(r)
=============================================================================
