-------------------------------- MODULE MCWire --------------------------------
(***************************************************************************)
(* Numbers of 16 bits with 8 bits of fraction, bytes of 4 bits, varint     *)
(* groups of 3, and tables of 16 and 8 steps, rounded as tempo-tablegen    *)
(* rounds them.                                                            *)
(***************************************************************************)
EXTENDS WireExchange


From0(s) == [i \in 0 .. Len(s) - 1 |-> s[i + 1]]

MCSin == From0(<<0, 98, 181, 237, 256, 237, 181, 98, 0, -98, -181, -237, -256, -237, -181, -98, 0>>)
MCAtan == From0(<<0, 32, 63, 92, 119, 143, 165, 184, 201, 201>>)
MCExp2 == From0(<<256, 279, 304, 332, 362, 395, 431, 470, 512>>)
MCLog2 == From0(<<0, 44, 82, 118, 150, 179, 207, 232, 256>>)

(* The string that is not one is the byte 15.                              *)
MCIsUtf8(bytes) == \A i \in DOMAIN bytes : bytes[i] # 15

Plain == [x \in {} |-> 0]
Field(name, ty, params) == [name |-> name, ty |-> ty, params |-> params]
Of(name, fields) == [name |-> name, fields |-> fields]

Ranged(step, min, max) == [quantize |-> step, min |-> min, max |-> max]

(* A field of every encoding, after a boolean that puts it off the byte    *)
(* boundary.                                                               *)
Flag == Field(1, "bool", Plain)
Encodings ==
  { Field(2, "uint", Plain), Field(2, "uint", [bits |-> 5]),
    Field(2, "int", Plain), Field(2, "int", [bits |-> 5]), Field(2, "int", [bits |-> 16]),
    Field(2, "fx", Plain), Field(2, "fx", Ranged(100, -1000, 1050)),
    Field(2, "vec2", Ranged(64, -512, 512)), Field(2, "vec3", Plain),
    Field(2, "quat", Plain), Field(2, "quat", [quantize_bits |-> 6]),
    Field(2, "enum", [variants |-> 3]), Field(2, "enum", [variants |-> 1]) }

Ordered(f) == Of(1, <<Flag, f>>)
Reversed(f) == Of(1, <<f, Flag>>)

(* Commands, of one field or two.                                          *)
Commands == { Of(1, <<Field(1, "string", [max_len |-> 3])>>),
              Of(1, <<Field(1, "bytes", Plain), Field(2, "bytes", [max_len |-> 3])>>) }

(* Declarations that agree, differ in a parameter, a field or a name, or   *)
(* are refused: two fields of a name, half a range, an empty range, a      *)
(* width out of bounds, an enum without variants, no identifier.           *)
Negotiable ==
  { Of(1, <<Flag, Field(2, "uint", [bits |-> 5])>>), Of(1, <<Field(2, "uint", [bits |-> 5]), Flag>>),
    Of(1, <<Flag, Field(2, "uint", [bits |-> 4])>>), Of(1, <<Flag>>), Of(2, <<Flag>>),
    Of(3, <<Flag, Flag>>), Of(3, <<Field(2, "fx", [quantize |-> 1])>>),
    Of(3, <<Field(2, "fx", Ranged(1, 5, 5))>>), Of(3, <<Field(2, "uint", [bits |-> 17])>>),
    Of(3, <<Field(2, "enum", Plain)>>), Of(3, <<Field(0, "bool", Plain)>>) }

MCPools == {{Ordered(f)} : f \in Encodings} \cup {{c} : c \in Commands} \cup {Negotiable}
           \cup {{Ordered(f), Reversed(f)} : f \in {g \in Encodings : g.ty \in {"int", "enum"}}}

Numbers == {-32768, -32767, -1100, -701, -256, -100, -3, -1, 0, 1, 7, 127, 256, 300, 402, 1024, 1061, 20000, 32767}
Tuples(S, n) == {[i \in 1 .. n |-> s[i]] : s \in [1 .. n -> S]}

MCSamples ==
  [bool   |-> {<<0>>, <<1>>},
   uint   |-> {<<0>>, <<1>>, <<7>>, <<8>>, <<31>>, <<33>>, <<4096>>, <<65535>>},
   int    |-> {<<0>>, <<1>>, <<-1>>, <<15>>, <<-16>>, <<17>>, <<32767>>, <<-32768>>},
   fx     |-> {<<n>> : n \in Numbers},
   vec2   |-> Tuples({-32768, -500, 0, 37, 600}, 2),
   vec3   |-> Tuples({-600, 0, 256}, 3) \cup {<<32767, 32767, 32767>>, <<32767, -32768, 1>>},
   quat   |-> {<<0, 0, 0, 256>>, <<0, 0, 0, -256>>, <<256, 0, 0, 0>>, <<128, -128, 128, -128>>,
               <<-181, 0, 181, 0>>, <<100, -50, -150, -172>>, <<0, -154, 0, 205>>, <<0, 0, 0, 0>>,
               <<32767, 32767, -32768, 32767>>},
   enum   |-> {<<0>>, <<1>>, <<2>>, <<3>>},
   string |-> {<<>>, <<1>>, <<2, 15>>, <<1, 2, 3>>, <<1, 2, 3, 4>>},
   bytes  |-> {<<>>}]

MCOperands ==
  [ty \in DOMAIN MCSamples |->
     CASE ty = "fx"   -> {<<n>> : n \in {-32768, -300, -1, 0, 3, 256, 402, 20000}}
       [] ty = "vec2" -> {<<-500, 37>>, <<402, 0>>, <<32767, -32768>>}
       [] ty = "vec3" -> {<<256, 0, 0>>, <<-600, 256, 256>>, <<32767, -32768, 1>>}
       [] OTHER       -> MCSamples[ty]]
=============================================================================
