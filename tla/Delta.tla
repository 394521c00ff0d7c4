-------------------------------- MODULE Delta --------------------------------
(***************************************************************************)
(* tempo-core/src/delta.rs: a snapshot as a delta against a baseline, and  *)
(* its application.                                                        *)
(*                                                                         *)
(* A delta is the function from the slots it reports to what it says of    *)
(* them: the gap encoding admits each slot once, in ascending order.       *)
(* Bits, gaps and varints are left out.  Quantization rounds a value down  *)
(* to a multiple of Step.                                                  *)
(***************************************************************************)
EXTENDS World, FiniteSetsExt

CONSTANTS
  Step,       \* quantization step of the quantized fields
  Quantized,  \* the fields that are sent in quantized form
  NONE        \* no baseline

ASSUME DeltaAssumption ==
  /\ Step \in Nat \ {0} /\ Quantized \subseteq Fields
  /\ Values \subseteq Int /\ \A v \in Values : v - (v % Step) \in Values
  /\ NONE \notin Nat /\ NONE \notin SnapshotState

(* lossy_round_trip: the value as the receiver will hold it.               *)
Sent(f, v) == IF f \in Quantized THEN v - (v % Step) ELSE v

HasBaseline(b) == b # NONE

Current(w, i) == EntityAt(w.entities, i)
IsSpawn(w, b, i) == ~HasBaseline(b) \/ ~WasLive(b, Current(w, i))
IsNewComponent(w, b, i, c) == IsSpawn(w, b, i) \/ ~ColumnPresent(b, c, i)

Carried(w, i) == {c \in Components : Has(w, Current(w, i), c)}
SentFields(w, i, c) == [f \in Fields |-> Sent(f, w.columns[c][i].data[f])]

(* Mutant: compares what the sender holds, the trap of delta.rs:7-18.      *)
DirtyRaw(w, b, i, c) ==
  {f \in Fields : IsNewComponent(w, b, i, c)
                  \/ ColumnSlot(b, c, i)[f] # w.columns[c][i].data[f]}

(* The fields of component c that differ from the baseline as they will be *)
(* held.                                                                   *)
Dirty(w, b, i, c) ==
  {f \in Fields : IsNewComponent(w, b, i, c)
                  \/ ColumnSlot(b, c, i)[f] # SentFields(w, i, c)[f]}

(* An entry: what is said of a live slot.                                  *)
Entry(w, b, i) ==
  [op |-> IF IsSpawn(w, b, i) THEN "spawn" ELSE "update",
   generation |-> Current(w, i).generation,
   dirty |-> [c \in Carried(w, i) |-> [f \in Dirty(w, b, i, c) |-> SentFields(w, i, c)[f]]]]

Departure == [op |-> "despawn", generation |-> 0, dirty |-> <<>>]

(* Mutant: a component that was removed is not a change.                   *)
ChangedByFields(w, b, i) ==
  IsSpawn(w, b, i) \/ \E c \in Carried(w, i) : Dirty(w, b, i, c) # {}

(* Is there anything to report of the live slot i?                         *)
Changed(w, b, i) ==
  \/ IsSpawn(w, b, i)
  \/ \E c \in Components : ColumnPresent(b, c, i) # (c \in Carried(w, i))
  \/ \E c \in Carried(w, i) : Dirty(w, b, i, c) # {}

SlotMax(w, b) ==
  IF HasBaseline(b) /\ Len(b.alive) > SlotCount(w.entities)
  THEN Len(b.alive) ELSE SlotCount(w.entities)

Reported(w, b, i) ==
  IF SlotLive(w.entities, i) THEN Changed(w, b, i)
  ELSE HasBaseline(b) /\ i <= Len(b.alive) /\ b.alive[i]

Entries(w, b) ==
  [i \in {j \in 1 .. SlotMax(w, b) : Reported(w, b, j)} |->
     IF SlotLive(w.entities, i) THEN Entry(w, b, i) ELSE Departure]

(* The bytes of encode_delta.                                              *)
EncodeDelta(w, b) ==
  [tick |-> w.tick, baseline |-> IF HasBaseline(b) THEN b.tick ELSE NONE,
   entries |-> Entries(w, b)]

(* DeltaResult::as_sent: the state the receiver will hold.                 *)
AsSent(w) ==
  [Snapshot(w) EXCEPT !.columns = [c \in Components |-> [i \in 1 .. Len(@[c]) |->
     IF SlotLive(w.entities, i) /\ c \in Carried(w, i)
     THEN [present |-> TRUE, data |-> SentFields(w, i, c)] ELSE @[c][i]]]]

-----------------------------------------------------------------------------
(* A component's fields, with those written that are dirty.                *)
Overlaid(data, dirty) == [f \in Fields |-> IF f \in DOMAIN dirty THEN dirty[f] ELSE data[f]]

(* Component by component: remove what is not carried, insert the others   *)
(* and set the fields that are dirty.                                      *)
Patched(w, e, dirty) ==
  LET inserted == [c \in Components |-> IF c \in DOMAIN dirty THEN Insert(w, e, c)
                                        ELSE RemoveComponent(w, e, c)]
  IN [w EXCEPT !.columns = [c \in Components |->
       IF c \notin DOMAIN dirty THEN inserted[c].columns[c]
       ELSE [inserted[c].columns[c] EXCEPT ![e.index].data = Overlaid(@, dirty[c])]]]

(* A spawn replaces whatever occupied the slot.                            *)
SpawnReplacing(w, e) ==
  IF SlotLive(w.entities, e.index) /\ ~IsAlive(w.entities, e)
  THEN SpawnAt(Despawn(w, EntityAt(w.entities, e.index)), e)
  ELSE SpawnAt(w, e)

Applied(w, i, entry) ==
  CASE entry.op = "despawn" ->
         IF SlotLive(w.entities, i) THEN Despawn(w, EntityAt(w.entities, i)) ELSE w
    [] entry.op = "spawn" ->
         LET e == Entity(i, entry.generation)
         IN Patched(SpawnReplacing(w, e), e, entry.dirty)
    [] entry.op = "update" -> Patched(w, EntityAt(w.entities, i), entry.dirty)

(* "update for an unknown entity": what was applied before stays.          *)
Unknown(w, i, entry) == entry.op = "update" /\ ~SlotLive(w.entities, i)

(* What becomes of the world at slot i, if all went well before.           *)
ApplySlot(r, entries, i) ==
  IF i \notin DOMAIN entries THEN r
  ELSE IF ~r.ok \/ Unknown(r.world, i, entries[i]) THEN [r EXCEPT !.ok = FALSE]
  ELSE [r EXCEPT !.world = Applied(@, i, entries[i])]

(* The world after each slot.                                              *)
Progress(w, entries, last) ==
  LET after[i \in 0 .. last] ==
        IF i = 0 THEN [ok |-> TRUE, world |-> w] ELSE ApplySlot(after[i - 1], entries, i)
  IN after

(* apply_delta; the baseline's tick is read and ignored.                   *)
ApplyDelta(w, delta) ==
  LET last == Max(DOMAIN delta.entries \cup {0})
      result == Progress(w, delta.entries, last)[last]
  IN IF result.ok THEN [result EXCEPT !.world.tick = delta.tick] ELSE result
=============================================================================
