---------------------------- MODULE ComponentLayout ----------------------------
(***************************************************************************)
(* tempo-core/src/layout.rs: a component as a slot of bytes, its fields at *)
(* computed offsets in canonical order, numbers little end first.          *)
(***************************************************************************)
EXTENDS FieldCodec


WordBytes == WordBits \div ByteBits
EnumBytes == WordBytes \div 2

ArenaTypes == FieldTypes \ {"string", "bytes"}

(* How many words of a type, and their size.                               *)
Words == [vec2 |-> 2, vec3 |-> 3, quat |-> 4]
Arity(ty) == IF ty \in DOMAIN Words THEN Words[ty] ELSE 1
ByteSize(ty) == IF ty = "bool" THEN 1 ELSE IF ty = "enum" THEN EnumBytes ELSE WordBytes
SlotSize(ty) == Arity(ty) * ByteSize(ty)

Offset(fields, i) == FoldLeft(LAMBDA sum, f : sum + SlotSize(f.ty), 0, SubSeq(fields, 1, i - 1))

IsSupported(c) == \A i \in DOMAIN c.fields : c.fields[i].ty \in ArenaTypes

Layout(c) ==
  LET fs == CanonicalFields(c)
  IN [fields |-> [i \in DOMAIN fs |-> [desc |-> fs[i], offset |-> Offset(fs, i), size |-> SlotSize(fs[i].ty)]],
      stride |-> Offset(fs, Len(fs) + 1)]

(* to_le_bytes and from_le_bytes of a number.                              *)
ToBytes(n, size) == [i \in 1 .. size |-> (n \div 2 ^ (ByteBits * (i - 1))) % 2 ^ ByteBits]
FromBytes(bytes) == FoldLeft(LAMBDA v, b : v * 2 ^ ByteBits + b, 0, Reverse(bytes))

IsSigned(ty) == ty \notin {"bool", "enum", "uint"}

SlotRead(layout, slot, i) ==
  LET f    == layout.fields[i]
      size == ByteSize(f.desc.ty)
      word(k) == FromBytes(SubSeq(slot, f.offset + size * (k - 1) + 1, f.offset + size * k))
  IN [ty |-> f.desc.ty,
      v  |-> [k \in 1 .. Arity(f.desc.ty) |->
                IF IsSigned(f.desc.ty) THEN SignExtend(word(k), WordBits) ELSE word(k)]]

ReadAll(layout, slot) == [i \in DOMAIN layout.fields |-> SlotRead(layout, slot, i)]

(* A value of another type is refused, and the slot is as it was.          *)
SlotWrite(layout, slot, i, value) ==
  LET f     == layout.fields[i]
      bytes == FlattenSeq([k \in DOMAIN value.v |-> ToBytes(value.v[k], ByteSize(value.ty))])
  IN IF value.ty # f.desc.ty THEN slot
     ELSE [n \in DOMAIN slot |->
             IF n \in f.offset + 1 .. f.offset + f.size THEN bytes[n - f.offset] ELSE slot[n]]
=============================================================================
