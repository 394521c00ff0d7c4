-------------------------------- MODULE World --------------------------------
(***************************************************************************)
(* tempo-core/src/world.rs and snapshot.rs: the replicated world, its      *)
(* snapshots and the ring they are kept in, as operators on their values.  *)
(*                                                                         *)
(* A column holds, per slot, whether the component is there and its        *)
(* fields; bytes and layouts are abstracted to one number per field.  The  *)
(* schema is fixed (frozen) and common to both peers.                      *)
(***************************************************************************)
EXTENDS EntityAllocator, FiniteSets

CONSTANTS
  Components,  \* registered components
  Fields,      \* the fields of each
  Values       \* what a field may hold

ASSUME WorldAssumption == 0 \in Values

Zeroed == [f \in Fields |-> 0]
Absent == [present |-> FALSE, data |-> Zeroed]
Cell == [present : BOOLEAN, data : [Fields -> Values]]
Column == Seq(Cell)

WorldState == [tick : Nat, entities : Allocator, columns : [Components -> Column]]

NoWorld == [tick |-> 0, entities |-> NoEntities, columns |-> [c \in Components |-> <<>>]]

Has(w, e, c) ==
  /\ IsAlive(w.entities, e)
  /\ e.index <= Len(w.columns[c]) /\ w.columns[c][e.index].present

(* ensure_slots: columns never shrink.                                     *)
EnsureSlots(column, n) ==
  IF Len(column) < n THEN Resized(column, n, Absent) ELSE column

GrowToFit(w) ==
  [w EXCEPT !.columns = [c \in Components |-> EnsureSlots(@[c], SlotCount(w.entities))]]

(* spawn, spawn_at                                                         *)
Spawn(w) == GrowToFit([w EXCEPT !.entities = Alloc(@)])
SpawnAt(w, e) == GrowToFit([w EXCEPT !.entities = AllocAt(@, e)])

(* Mutant: the components' data stay behind.                               *)
DespawnLeavesData(w, e) ==
  IF ~IsAlive(w.entities, e) THEN w
  ELSE [w EXCEPT
    !.entities = Free(@, e),
    !.columns = [c \in Components |->
      IF e.index <= Len(@[c]) THEN [@[c] EXCEPT ![e.index].present = FALSE] ELSE @[c]]]

(* despawn                                                                 *)
Despawn(w, e) ==
  IF ~IsAlive(w.entities, e) THEN w
  ELSE [w EXCEPT
    !.entities = Free(@, e),
    !.columns = [c \in Components |->
      IF e.index <= Len(@[c]) THEN [@[c] EXCEPT ![e.index] = Absent] ELSE @[c]]]

(* insert, of a component on a live entity: zeroed, unless it is there.    *)
Insert(w, e, c) ==
  [w EXCEPT !.columns[c] =
    LET column == EnsureSlots(@, e.index)
    IN IF column[e.index].present THEN column
       ELSE [column EXCEPT ![e.index] = [present |-> TRUE, data |-> Zeroed]]]

(* remove, from a live entity                                              *)
RemoveComponent(w, e, c) ==
  IF ~Has(w, e, c) THEN w ELSE [w EXCEPT !.columns[c][e.index] = Absent]

(* set, on a live entity: inserts the component if it is not there.        *)
SetField(w, e, c, f, v) ==
  [Insert(w, e, c) EXCEPT !.columns[c][e.index].data[f] = v]

(* clear_entities                                                          *)
ClearEntities(w) == [NoWorld EXCEPT !.tick = w.tick]

-----------------------------------------------------------------------------
(* snapshot: everything but the count of live entities.                    *)
Snapshot(w) ==
  [tick |-> w.tick, generations |-> w.entities.generations, alive |-> w.entities.alive,
   free |-> w.entities.free, columns |-> w.columns]

SnapshotState == [tick : Nat, generations : Seq(Generations), alive : Seq(BOOLEAN),
                  free : Seq(Nat \ {0}), columns : [Components -> Column]]

(* Mutant: the free list is not part of it.                                *)
RestoreNoFreeList(w, snap) ==
  [tick |-> snap.tick,
   entities |-> [generations |-> snap.generations, alive |-> snap.alive, free |-> w.entities.free,
                 live |-> Cardinality({i \in 1 .. Len(snap.alive) : snap.alive[i]})],
   columns |-> snap.columns]

(* restore, in a world of the same schema: the count is derived.           *)
Restore(w, snap) ==
  [tick |-> snap.tick,
   entities |-> [generations |-> snap.generations, alive |-> snap.alive, free |-> snap.free,
                 live |-> Cardinality({i \in 1 .. Len(snap.alive) : snap.alive[i]})],
   columns |-> snap.columns]

(* What the delta encoder asks of a baseline.                              *)
WasLive(snap, e) ==
  /\ e.index \in 1 .. Len(snap.alive)
  /\ snap.alive[e.index] /\ snap.generations[e.index] = e.generation
ColumnPresent(snap, c, index) ==
  index <= Len(snap.columns[c]) /\ snap.columns[c][index].present
ColumnSlot(snap, c, index) ==
  IF index <= Len(snap.columns[c]) THEN snap.columns[c][index].data ELSE Zeroed

-----------------------------------------------------------------------------
(* SnapshotRing of some capacity: the snapshots held; no two share a slot. *)
RingStore(ring, capacity, snap) ==
  {s \in ring : s.tick % capacity # snap.tick % capacity} \cup {snap}

RingHas(ring, tick) == \E s \in ring : s.tick = tick
RingGet(ring, tick) == CHOOSE s \in ring : s.tick = tick
=============================================================================
