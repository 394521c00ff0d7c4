-------------------------------- MODULE Schema --------------------------------
(***************************************************************************)
(* tempo-wire/src/schema.rs: declarations of fields and components, what   *)
(* of them is refused, the canonical form two peers compare by its hash,   *)
(* and the difference that explains a mismatch.                            *)
(*                                                                         *)
(* A field is [name, ty, params]: params maps the parameters that were     *)
(* declared to their values.  base_priority is not among them, as it is no *)
(* part of the canonical form.  Names are numbers in the order of their    *)
(* bytes; 0 stands for what is no identifier.                              *)
(***************************************************************************)
EXTENDS Integers, SequencesExt, FiniteSets

CONSTANTS
  MaxBits,           \* 64: widest integer field
  MaxComponentBits   \* 30: widest component of a compressed quaternion

FieldTypes == {"bool", "uint", "int", "fx", "vec2", "vec3", "quat", "enum", "string", "bytes"}
QuantizeParams == {"quantize", "min", "max"}

Declares(f, p) == p \in DOMAIN f.params
IsQuantized(f) == QuantizeParams \subseteq DOMAIN f.params
IsIdentifier(name) == name > 0

(* Bits of the largest index of a quantized range.                         *)
QuantizedBits(min, max, step) ==
  LET largest == (max - min) \div step
  IN CHOOSE b \in 0 .. largest : largest < 2 ^ b /\ \A c \in 0 .. b - 1 : largest >= 2 ^ c

ValidField(f) ==
  /\ IsIdentifier(f.name)
  /\ Declares(f, "bits") => f.params["bits"] \in 1 .. MaxBits
  /\ \/ QuantizeParams \cap DOMAIN f.params = {}
     \/ /\ IsQuantized(f)
        /\ f.params["quantize"] > 0
        /\ f.params["min"] < f.params["max"]
  /\ f.ty = "enum" => Declares(f, "variants") /\ f.params["variants"] >= 1
  /\ Declares(f, "quantize_bits") => f.params["quantize_bits"] \in 1 .. MaxComponentBits

(* Sorted by name, equal names in the order they had.                      *)
IsNamedBefore(s, j, i) == s[j].name < s[i].name \/ (s[j].name = s[i].name /\ j < i)
ByName(s) ==
  LET Before(i) == Cardinality({j \in DOMAIN s : IsNamedBefore(s, j, i)})
  IN [k \in DOMAIN s |-> s[CHOOSE i \in DOMAIN s : Before(i) = k - 1]]

(* Mutant: fields are left in the order of their declaration.              *)
DeclaredOrder(c) == c.fields

CanonicalFields(c) == ByName(c.fields)

ValidComponent(c) ==
  /\ IsIdentifier(c.name)
  /\ \A i \in DOMAIN c.fields :
       /\ ValidField(c.fields[i])
       /\ \A j \in 1 .. i - 1 : c.fields[j].name # c.fields[i].name

(* A refused component leaves the schema as it was.                        *)
Register(schema, c) ==
  IF ValidComponent(c) /\ \A i \in DOMAIN schema : schema[i].name # c.name
  THEN Append(schema, c) ELSE schema

CanonicalComponents(schema) == ByName(schema)

(* A line of the canonical form: the parameters by name, those declared.   *)
WriteCanonical(f) == <<f.name, f.ty, f.params>>
CanonicalForm(schema) ==
  LET cs == CanonicalComponents(schema)
      lines(c) == LET fs == CanonicalFields(c) IN [i \in DOMAIN fs |-> WriteCanonical(fs[i])]
  IN [i \in DOMAIN cs |-> <<cs[i].name, lines(cs[i])>>]

(* A hash of the canonical form: no two forms have the same.               *)
SchemaId(schema) == CanonicalForm(schema)

Components(schema) == {schema[i] : i \in DOMAIN schema}
Named(set, name) == CHOOSE x \in set : x.name = name

(* What a mismatch report lists: names on one side only, and fields that   *)
(* are declared differently.  A field is <<component, field>>.             *)
Diff(local, remote) ==
  LET fields(c)   == {c.fields[i] : i \in DOMAIN c.fields}
      names(S)    == {x.name : x \in S}
      L == Components(local)
      R == Components(remote)
      shared == names(L) \cap names(R)
      differ(n) == LET a == fields(Named(L, n))  b == fields(Named(R, n))
                   IN {f \in names(a) \cup names(b) :
                        \/ f \notin names(a) \cap names(b)
                        \/ WriteCanonical(Named(a, f)) # WriteCanonical(Named(b, f))}
  IN [components |-> (names(L) \cup names(R)) \ shared,
      fields     |-> UNION {{<<n, f>> : f \in differ(n)} : n \in shared}]
=============================================================================
