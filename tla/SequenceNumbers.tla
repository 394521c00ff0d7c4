--------------------------- MODULE SequenceNumbers ---------------------------
(***************************************************************************)
(* tempo-reliability/src/sequence.rs: the wrapping packet sequence numbers *)
(* and the ring buffer keyed by them.                                      *)
(*                                                                         *)
(* A ring of `capacity` slots in which every read verifies the stored      *)
(* sequence is, to its callers, the SET of sequences it still holds, with  *)
(* at most one member per slot (RingPut).  The values stored beside the    *)
(* sequences are kept by the modules that need them.                       *)
(***************************************************************************)
EXTENDS Integers

CONSTANTS
  SeqCount,     \* size of the wire sequence space: 2^16 in the code
  WideMod,    \* size of the extended sequence space: 2^64 in the code
  Capacity    \* slots of a SequenceBuffer

ASSUME SeqCountAssumption ==
  /\ SeqCount \in Nat \ {0, 1}
  /\ SeqCount % 2 = 0
ASSUME WideModAssumption == WideMod \in Nat /\ WideMod > SeqCount /\ WideMod % SeqCount = 0
\* sequence.rs:66, "a sequence buffer needs at least one slot"
ASSUME CapacityAssumption == Capacity \in Nat \ {0}

Seqs == 0 .. SeqCount - 1

WrapNext(s) == (s + 1) % SeqCount
WrapSub(a, b) == (a - b) % SeqCount

IsNewer(a, b) ==
  /\ WrapSub(a, b) # 0
  /\ WrapSub(a, b) < SeqCount \div 2

Distance(a, b) ==
  LET d == WrapSub(a, b) IN IF d < SeqCount \div 2 THEN d ELSE d - SeqCount

AbsDiff(a, b) == IF a < b THEN b - a ELSE a - b

(* The candidate closest to what has been seen; the first one wins a tie,  *)
(* because the loop replaces its best only on a strictly smaller gap.      *)
Extend(wire, highest_seen) ==
  LET base == highest_seen - (highest_seen % SeqCount)
      candidate == << (base + wire) % WideMod,
                      (base + SeqCount + wire) % WideMod,
                      (base - SeqCount + wire) % WideMod >>
      gap(i) == AbsDiff(candidate[i], highest_seen)
      best == CHOOSE i \in 1 .. 3 :
                \A j \in 1 .. 3 : gap(i) < gap(j) \/ (gap(i) = gap(j) /\ i <= j)
  IN candidate[best]

SlotOf(s) == s % Capacity

(* The sequences a ring holds after storing s: s takes over its slot.      *)
RingPut(ring, s) == {x \in ring : SlotOf(x) # SlotOf(s)} \cup {s}
=============================================================================
