--------------------------- MODULE EntityAllocator ---------------------------
(***************************************************************************)
(* tempo-core/src/entity.rs: slots that are used again, and the            *)
(* generations that tell their occupants apart.  Slots are numbered from 1.*)
(***************************************************************************)
EXTENDS Integers, Sequences

CONSTANT GenMod      \* number of generations, 2^32 in the code

ASSUME EntityAllocatorAssumption == GenMod \in Nat \ {0}

Generations == 0 .. GenMod - 1

Allocator == [generations : Seq(Generations), alive : Seq(BOOLEAN),
              free : Seq(Nat \ {0}), live : Nat]

NoEntities == [generations |-> <<>>, alive |-> <<>>, free |-> <<>>, live |-> 0]

Entity(index, generation) == [index |-> index, generation |-> generation]

SlotCount(a) == Len(a.generations)

SlotLive(a, index) == index \in 1 .. SlotCount(a) /\ a.alive[index]
EntityAt(a, index) == Entity(index, a.generations[index])
Entities(a) == {EntityAt(a, index) : index \in {i \in 1 .. SlotCount(a) : a.alive[i]}}
IsAlive(a, e) == SlotLive(a, e.index) /\ a.generations[e.index] = e.generation

(* The handle that alloc returns next: the slot freed last, or a new one.  *)
Allocated(a) ==
  IF a.free # <<>> THEN EntityAt(a, a.free[Len(a.free)]) ELSE Entity(SlotCount(a) + 1, 0)

(* alloc                                                                   *)
Alloc(a) ==
  IF a.free # <<>>
  THEN [a EXCEPT !.alive[a.free[Len(a.free)]] = TRUE, !.free = SubSeq(@, 1, Len(@) - 1),
                 !.live = @ + 1]
  ELSE [a EXCEPT !.generations = Append(@, 0), !.alive = Append(@, TRUE),
                 !.live = @ + 1]

Resized(s, n, x) == [i \in 1 .. n |-> IF i <= Len(s) THEN s[i] ELSE x]

(* free.retain: all but one slot, in their order.                          *)
Without(free, index) ==
  LET kept[k \in 0 .. Len(free)] ==
        IF k = 0 THEN <<>>
        ELSE IF free[k] = index THEN kept[k - 1] ELSE Append(kept[k - 1], free[k])
  IN kept[Len(free)]

(* alloc_at: a slot and a generation chosen elsewhere.                     *)
AllocAt(a, e) ==
  LET n == IF e.index > SlotCount(a) THEN e.index ELSE SlotCount(a)
      alive == Resized(a.alive, n, FALSE)
  IN [generations |-> [Resized(a.generations, n, 0) EXCEPT ![e.index] = e.generation],
      alive |-> [alive EXCEPT ![e.index] = TRUE],
      free |-> Without(a.free, e.index),
      live |-> IF alive[e.index] THEN a.live ELSE a.live + 1]

(* Mutant: the generation stays.                                           *)
FreeSameGeneration(a, e) ==
  IF ~IsAlive(a, e) THEN a
  ELSE [a EXCEPT !.alive[e.index] = FALSE, !.live = @ - 1,
                 !.free = Append(@, e.index)]

(* free                                                                    *)
Free(a, e) ==
  IF ~IsAlive(a, e) THEN a
  ELSE [a EXCEPT !.alive[e.index] = FALSE, !.live = @ - 1,
                 !.generations[e.index] = (@ + 1) % GenMod,
                 !.free = Append(@, e.index)]
=============================================================================
