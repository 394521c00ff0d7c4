------------------------------- MODULE BitStream -------------------------------
(***************************************************************************)
(* tempo-wire/src/bits.rs: the bit writer and the bit reader.  A stream is *)
(* the sequence of its bits in the order they are written, lowest first;   *)
(* bytes of ByteBits bits (8) matter only where a stream is aligned, words *)
(* of WordBits (64) only where a varint can be too long.                   *)
(*                                                                         *)
(* A reader is [bits, pos, ok, out]: what it reads is appended to out, and *)
(* after the first failure it reads no more (the ? of every call).         *)
(***************************************************************************)
EXTENDS Integers, SequencesExt

CONSTANTS ByteBits, GroupBits   \* 8 and 7: a byte, the payload of a varint group


(***************************************************************************)
(* The writer.                                                             *)
(***************************************************************************)
(* The low n bits of a value; what is above them is ignored.  A negative   *)
(* value has its two's complement.                                         *)
LowBits(v, n) == [i \in 1 .. n |-> (v \div 2 ^ (i - 1)) % 2]
WriteBits(s, v, n) == s \o LowBits(v, n)

Padding(pos) == (-pos) % ByteBits
Align(s) == WriteBits(s, 0, Padding(Len(s)))
WriteBytes(s, bytes) == FoldLeft(LAMBDA t, byte : WriteBits(t, byte, ByteBits), Align(s), bytes)
Finish(s) == Align(s)

Groups(v) == CHOOSE k \in 1 .. v + 1 : v < 2 ^ (GroupBits * k) /\ \A j \in 1 .. k - 1 : v >= 2 ^ (GroupBits * j)

(* Each group is a continuation bit and its payload, low group first.      *)
WriteVaruint(s, v) ==
  s \o FlattenSeq([k \in 1 .. Groups(v) |->
         <<IF k < Groups(v) THEN 1 ELSE 0>> \o LowBits(v \div 2 ^ (GroupBits * (k - 1)), GroupBits)])

ZigZag(v) == IF v >= 0 THEN 2 * v ELSE -(2 * v) - 1
UnZigZag(u) == IF u % 2 = 0 THEN u \div 2 ELSE -(u \div 2) - 1

(***************************************************************************)
(* The reader.                                                             *)
(***************************************************************************)
Reader(bits) == [bits |-> bits, pos |-> 0, ok |-> TRUE, out |-> <<>>]
Failed(r) == [r EXCEPT !.ok = FALSE]
Remaining(r) == Len(r.bits) - r.pos

Unsigned(bits) == FoldLeft(LAMBDA v, bit : 2 * v + bit, 0, Reverse(bits))
Push(r, v) == [r EXCEPT !.out = Append(@, v)]
LastRead(r) == r.out[Len(r.out)]
Popped(r, n) == [r EXCEPT !.out = SubSeq(@, 1, Len(@) - n)]

(* Mutant: what is missing at the end reads as zero.                       *)
ReadZeros(r, n) ==
  [Push(r, Unsigned([i \in 1 .. n |-> IF r.pos + i \in DOMAIN r.bits THEN r.bits[r.pos + i] ELSE 0]))
     EXCEPT !.pos = @ + n]

ReadBits(r, n) ==
  IF ~r.ok \/ n > Remaining(r) THEN Failed(r)
  ELSE [Push(r, Unsigned(SubSeq(r.bits, r.pos + 1, r.pos + n))) EXCEPT !.pos = @ + n]

(* Read groups until one has no continuation bit, or the stream ends, or   *)
(* the group would start past the word; bits a group in reach has beyond   *)
(* the word are shifted out.                                               *)
ReadVaruint(r, word) ==
  LET size      == GroupBits + 1
      starts(k) == r.pos + size * (k - 1)
      more(k)   == r.bits[starts(k) + 1] = 1
      ends(k)   == starts(k) + size > Len(r.bits)
      tooLong(k) == GroupBits * (k - 1) >= word
      last      == CHOOSE k \in 1 .. word + 1 :
                     /\ ends(k) \/ tooLong(k) \/ ~more(k)
                     /\ \A j \in 1 .. k - 1 : ~ends(j) /\ ~tooLong(j) /\ more(j)
      payload   == FlattenSeq([k \in 1 .. last |-> SubSeq(r.bits, starts(k) + 2, starts(k) + size)])
  IN IF ~r.ok \/ ends(last) \/ tooLong(last) THEN Failed(r)
     ELSE [Push(r, Unsigned(payload) % 2 ^ word) EXCEPT !.pos = starts(last + 1)]

ReaderAlign(r) == [r EXCEPT !.pos = @ + Padding(@)]
ReadBytes(r, n) ==
  LET a == ReaderAlign(r)
  IN IF ~r.ok \/ a.pos + n * ByteBits > Len(r.bits) THEN Failed(r)
     ELSE FoldLeft(LAMBDA t, i : ReadBits(t, ByteBits), a, [i \in 1 .. n |-> i])
=============================================================================
