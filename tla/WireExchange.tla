----------------------------- MODULE WireExchange -----------------------------
(***************************************************************************)
(* Two programs that declare their schemas on their own, compare the hash  *)
(* of the canonical forms, and then exchange a component as a bare stream  *)
(* of bits: the sender computes on the fields of its slot and encodes them *)
(* by its layout, the receiver decodes them by its own.                    *)
(*                                                                         *)
(* Components that have no slot, for a string or bytes in them, travel as  *)
(* commands: their values are the caller's.                                *)
(*                                                                         *)
(* Bounds: one message, components and values from small sets, operands    *)
(* among the samples.                                                      *)
(***************************************************************************)
EXTENDS ComponentLayout, Arithmetic

CONSTANTS
  Pools,          \* sets of declarations, one set per behaviour
  MaxComponents,
  Samples,        \* type -> tuples a field of it may be given
  Operands        \* type -> second operands of a computation

(* Declarations are records of names in the order of their numbers; what    *)
(* an Fx holds is in its range.                                            *)
IsDeclared(c) ==
  /\ c = [name |-> c.name, fields |-> c.fields] /\ c.name \in Nat
  /\ c.fields \in Seq(Range(c.fields))
  /\ \A f \in Range(c.fields) : f = [name |-> f.name, ty |-> f.ty, params |-> f.params] /\ f.name \in Nat

ASSUME DeclarationsAssumption == \A declarations \in Pools : \A c \in declarations : IsDeclared(c)
ASSUME OperandsAssumption ==
  /\ \A a \in Samples["fx"] : a[1] \in Fx
  /\ \A b \in Operands["fx"] : b[1] \in Fx

Absent == [none |-> TRUE]   \* not there yet

VARIABLES
  pool,     \* what may be declared
  schema,   \* peer -> its declarations, in the order of registration
  link,     \* "negotiating", "agreed" or "refused"
  slot,     \* the sender's component and its bytes
  last,     \* the last computation: operation, operands and result
  sent,     \* the values and the length of the message
  wire,     \* the message under way
  held      \* what the receiver made of it

WireVars == <<pool, schema, link, slot, last, sent, wire, held>>

Peers == {"sender", "receiver"}

WireInit ==
  /\ pool \in Pools
  /\ schema = [p \in Peers |-> <<>>]
  /\ link = "negotiating"
  /\ slot = Absent /\ last = Absent /\ sent = Absent /\ wire = Absent /\ held = Absent

Unfrozen(p) == link = "negotiating" /\ Len(schema[p]) < MaxComponents

(* A world refuses what has no slot; the schema alone takes it.            *)
RegisterComponent(p, c) ==
  /\ Unfrozen(p)
  /\ schema' = [schema EXCEPT ![p] = IF IsSupported(c) THEN Register(@, c) ELSE @]
  /\ UNCHANGED <<pool, link, slot, last, sent, wire, held>>

DeclareCommand(p, c) ==
  /\ Unfrozen(p) /\ ~IsSupported(c)
  /\ schema' = [schema EXCEPT ![p] = Register(@, c)]
  /\ UNCHANGED <<pool, link, slot, last, sent, wire, held>>

Negotiate ==
  /\ link = "negotiating" /\ \A p \in Peers : schema[p] # <<>>
  /\ link' = IF SchemaId(schema["sender"]) = SchemaId(schema["receiver"]) THEN "agreed" ELSE "refused"
  /\ UNCHANGED <<pool, schema, slot, last, sent, wire, held>>

Component(p) == Named(Components(schema[p]), slot.component)
Fields(p) == CanonicalFields(Component(p))

Attach(c) ==
  /\ link = "agreed" /\ slot = Absent
  /\ slot' = [component |-> c.name,
              bytes |-> IF IsSupported(c) THEN Zero(Layout(c).stride) ELSE <<>>]
  /\ UNCHANGED <<pool, schema, link, last, sent, wire, held>>

InArena == slot # Absent /\ sent = Absent /\ IsSupported(Component("sender"))
Stored(i) == SlotRead(Layout(Component("sender")), slot.bytes, i)
Overwritten(i, value) ==
  [slot EXCEPT !.bytes = SlotWrite(Layout(Component("sender")), @, i, value)]

(* A value of any type may be offered; one of another type is refused.     *)
Write(i, ty, v) ==
  /\ InArena
  /\ slot' = Overwritten(i, [ty |-> ty, v |-> v])
  /\ last' = Absent
  /\ UNCHANGED <<pool, schema, link, sent, wire, held>>

Compute(i, op, b) ==
  /\ InArena /\ last = Absent
  /\ LET value  == Stored(i)
         result == Apply(value.ty, op, value.v, b)
     IN /\ value.v \in Samples[value.ty]
        /\ slot' = Overwritten(i, [ty |-> value.ty, v |-> result])
        /\ last' = [op |-> op, ty |-> value.ty, a |-> value.v, b |-> b, result |-> result]
  /\ UNCHANGED <<pool, schema, link, sent, wire, held>>

(* A field that cannot be encoded is an error, and nothing is sent.        *)
SendValues(values) ==
  LET fs   == Fields("sender")
      bits == Finish(FoldLeft(LAMBDA s, i : EncodeField(s, fs[i], values[i]), <<>>,
                              [i \in DOMAIN fs |-> i]))
  IN /\ \A i \in DOMAIN fs : Encodable(fs[i], values[i])
     /\ sent' = [values |-> values, length |-> Len(bits)]
     /\ wire' = bits
     /\ last' = Absent
     /\ UNCHANGED <<pool, schema, link, slot, held>>

SendComponent == InArena /\ SendValues(ReadAll(Layout(Component("sender")), slot.bytes))

SendCommand(values) ==
  /\ slot # Absent /\ sent = Absent /\ ~IsSupported(Component("sender"))
  /\ Len(values) = Len(Fields("sender"))
  /\ \A i \in DOMAIN values : Fields("sender")[i].ty = "string" => IsUtf8(values[i])
  /\ SendValues([i \in DOMAIN values |-> [ty |-> Fields("sender")[i].ty, v |-> values[i]]])

(* The message loses its last byte.                                        *)
Truncate ==
  /\ wire # Absent /\ Len(wire) > 0
  /\ wire' = SubSeq(wire, 1, Len(wire) - ByteBits)
  /\ UNCHANGED <<pool, schema, link, slot, last, sent, held>>

ReceiveMessage ==
  /\ wire # Absent
  /\ LET r == FoldLeft(DecodeField, Reader(wire), Fields("receiver"))
     IN held' = [ok |-> r.ok, values |-> IF r.ok THEN r.out ELSE <<>>, length |-> Len(wire)]
  /\ wire' = Absent
  /\ UNCHANGED <<pool, schema, link, slot, last, sent>>

WireNext ==
  \/ \E p \in Peers, c \in pool : RegisterComponent(p, c) \/ DeclareCommand(p, c)
  \/ Negotiate
  \/ \E c \in Components(schema["sender"]) : Attach(c)
  \/ InArena /\ \E i \in DOMAIN Fields("sender") :
       \/ \E ty \in {Fields("sender")[i].ty, "bool"} : \E v \in Samples[ty] : Write(i, ty, v)
       \/ LET ty == Fields("sender")[i].ty
          IN \E op \in Operations[ty], b \in Operands[ty] : Compute(i, op, b)
  \/ SendComponent
  \/ \E v, w \in Samples["string"] : SendCommand(<<v>>) \/ SendCommand(<<v, w>>)
  \/ Truncate
  \/ ReceiveMessage

WireSpec == WireInit /\ [][WireNext]_WireVars

-----------------------------------------------------------------------------
(***************************************************************************)
(* Properties.                                                             *)
(***************************************************************************)
(* A number an integer field of declared width has room for.               *)
HasRoom(f, value) ==
  Declares(f, "bits") =>
    CASE value.ty = "uint" -> value.v[1] < 2 ^ P(f, "bits")
      [] value.ty = "int"  -> value.v[1] \in -(2 ^ (P(f, "bits") - 1)) .. 2 ^ (P(f, "bits") - 1) - 1
      [] OTHER             -> TRUE

(* A message that arrives whole is accepted, and the receiver holds under  *)
(* every field's name what lossy_round_trip foretells of the value sent:   *)
(* delta encoding compares with that instead of asking the receiver        *)
(* (value.rs lossy_round_trip, encode_field, decode_field).                *)
HeldAsForetold ==
  held # Absent /\ held.length = sent.length =>
    /\ held.ok
    /\ \A i \in DOMAIN Fields("sender"), j \in DOMAIN Fields("receiver") :
         LET f == Fields("sender")[i] IN
         f.name = Fields("receiver")[j].name /\ HasRoom(f, sent.values[i]) =>
           held.values[j] = LossyRoundTrip(f, sent.values[i])

(* A message that lost bytes is refused, never decoded to a shorter or a   *)
(* zero value (bits.rs read_bits, value.rs read_checked_len).              *)
TruncatedIsRefused == held # Absent /\ held.length < sent.length => ~held.ok

(* Equal schema ids mean the same slots, field for field, however each     *)
(* side ordered its declarations; different ids are never without a line   *)
(* of explanation (schema.rs canonical_form, diff; layout.rs new).         *)
AgreementIsExact ==
  LET a == schema["sender"]  b == schema["receiver"]
      arena(n) == Layout(Named(Components(a), n)) = Layout(Named(Components(b), n))
      nothing  == [components |-> {}, fields |-> {}]
  IN /\ (SchemaId(a) = SchemaId(b)) <=> (Diff(a, b) = nothing)
     /\ SchemaId(a) = SchemaId(b) =>
          \A c \in Components(a) : IsSupported(c) => arena(c.name)

(* What is computed on a number without a table is the number it should    *)
(* be: the exact root, truncation and flooring where they belong, and      *)
(* saturation at the ends only (tempo-fixed lib.rs).                       *)
NumbersAreExact ==
  last # Absent /\ last.ty = "fx" /\ last.op \in ExactOps =>
    NumberLaw(last.op, last.a[1], last.b[1], last.result[1])

(* Table lookups stay inside their tables and near the function, and       *)
(* vectors and rotations keep their lengths and angles (tempo-fixed        *)
(* lib.rs, vector.rs).                                                     *)
FunctionsAreLawful ==
  last # Absent /\ ~(last.ty = "fx" /\ last.op \in ExactOps) =>
    Law(last.ty, last.op, last.a, last.b, last.result)

(* Quantization picks the nearest step of the declared range, and a        *)
(* rotation comes back as itself or its negative, which is the same one,   *)
(* but for the steps of its components (quantize.rs).                      *)
QuantizedIsNearest ==
  held # Absent /\ held.ok =>
    \A i \in DOMAIN held.values :
      LET f == Fields("sender")[i]
          v == sent.values[i].v
          h == held.values[i].v
          top == P(f, "min") + MaxIndex(P(f, "min"), P(f, "max"), P(f, "quantize")) * P(f, "quantize")
          step == (2 * InvSqrt2) \div UnitRange(P(f, "quantize_bits"))
      IN /\ f.ty \in {"fx", "vec2", "vec3"} /\ IsQuantized(f) =>
              \A k \in DOMAIN v : 2 * Magnitude(h[k] - Within(v[k], P(f, "min"), top)) <= P(f, "quantize")
         /\ f.ty = "quat" /\ Declares(f, "quantize_bits") /\ IsUnit(v) =>
              \E sign \in {1, -1} : \A k \in 1 .. 4 : Near(h[k], sign * v[k], 2 * step)

(* What cannot be exact is near: a function read from a table to the       *)
(* table's precision, a value sent on a grid to half the grid's step       *)
(* (tempo-fixed lib.rs, tempo-wire quantize.rs).                           *)
ApproximationsAreNear ==
  /\ FunctionsAreLawful
  /\ QuantizedIsNearest
=============================================================================
