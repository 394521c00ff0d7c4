--------------------------- MODULE RollbackSession ---------------------------
(***************************************************************************)
(* tempo-rollback/src/session.rs: the rollback loop of one participant, as *)
(* operators on the value of a session and its World.                      *)
(*                                                                         *)
(* The user's simulation step is a pure function of state and inputs       *)
(* (session.rs:17-20), of which nothing else is known: the world IS the    *)
(* sequence of input frames it was computed from, so two worlds are equal  *)
(* exactly when every deterministic simulation makes them equal.  A        *)
(* snapshot of tick t is the world of length t.                            *)
(***************************************************************************)
EXTENDS InputQueue, Sequences

CONSTANTS
  Players,       \* participants, all registered with add_player
  MaxRollback    \* RollbackConfig::max_rollback

ASSUME RollbackAssumption ==
  /\ MaxRollback \in Nat
  /\ MaxRollback < InputHistory   \* 8 and 128 by default

Frame == [Players -> Inputs]

Session == [inputs  : [Players -> PlayerInputs],
            world   : Seq(Frame),      \* the World; its tick is its length
            saved   : SUBSET Seq(Frame),
            current : Nat,
            refused : BOOLEAN]         \* is stats.refused above 0?

(* Slots of the ring of saved states.                                      *)
Ring == IF MaxRollback + 2 < 4 THEN 4 ELSE MaxRollback + 2

NewSession ==
  [inputs |-> [p \in Players |-> NoInputs], world |-> <<>>, saved |-> {},
   current |-> 0, refused |-> FALSE]

(* The frame the simulation is given for tick t.                           *)
FrameAt(s, t) == [p \in Players |-> InputFor(s.inputs[p], t)]
Predicted(s, first, last) == [p \in Players |-> Predict(s.inputs[p], first, last)]

(* SnapshotRing::store for each of the worlds, no two of which share a     *)
(* slot.                                                                   *)
Store(saved, worlds) ==
  {x \in saved : \A w \in worlds : Len(x) % Ring # Len(w) % Ring} \cup worlds

IsSaved(s, t) == \E x \in s.saved : Len(x) = t
SavedAt(s, t) == CHOOSE x \in s.saved : Len(x) = t

(* Mutant: save after simulating.                                          *)
AdvanceSavesAfter(s) ==
  LET t == s.current + 1
      world == Append(s.world, FrameAt(s, t))
  IN [s EXCEPT !.saved = Store(@, {world}), !.inputs = Predicted(s, t, t),
               !.world = world, !.current = t]

(* advance: save, then simulate the next tick.                             *)
Advance(s) ==
  LET t == s.current + 1
  IN [s EXCEPT !.saved = Store(@, {s.world}),
               !.inputs = Predicted(s, t, t),
               !.world = Append(@, FrameAt(s, t)),
               !.current = t]

(* Mutant: the states passed on the way are not saved again.               *)
ResimulateUnsaved(s, t) ==
  LET base == SavedAt(s, t - 1)
      world == [k \in 1 .. s.current |-> IF k < t THEN base[k] ELSE FrameAt(s, k)]
  IN [s EXCEPT !.inputs = Predicted(s, t, s.current), !.world = world]

(* The loop of rollback_to: ticks t to current once more, from the state   *)
(* saved before t.                                                         *)
Resimulate(s, t) ==
  LET base == SavedAt(s, t - 1)
      world == [k \in 1 .. s.current |-> IF k < t THEN base[k] ELSE FrameAt(s, k)]
  IN [s EXCEPT !.inputs = Predicted(s, t, s.current),
               !.world = world,
               !.saved = Store(@, {SubSeq(world, 1, n) : n \in t - 1 .. s.current - 1})]

InWindow(s, t) == s.current - (t - 1) <= MaxRollback

(* rollback_to                                                             *)
RollbackTo(s, t) ==
  IF t > s.current THEN s
  ELSE IF InWindow(s, t) /\ IsSaved(s, t - 1) THEN Resimulate(s, t)
  ELSE [s EXCEPT !.refused = TRUE]

Confirmed(s, p, t, input) == [s EXCEPT !.inputs[p] = Confirm(@, t, input)]

(* add_local_input, under RollbackConfig::input_delay: what confirm         *)
(* returns is discarded.                                                   *)
LocalTarget(s, delay) == s.current + delay + 1
AddLocalInput(s, delay, p, input) == Confirmed(s, p, LocalTarget(s, delay), input)

(* Mutant: what confirm returns is discarded here too.                     *)
AddRemoteInputUnheeded(s, p, t, input) == Confirmed(s, p, t, input)

(* add_remote_input                                                        *)
AddRemoteInput(s, p, t, input) ==
  IF Contradicts(s.inputs[p], t, input)
  THEN RollbackTo(Confirmed(s, p, t, input), t)
  ELSE Confirmed(s, p, t, input)

(* sync_test: the last tick once more; nothing is saved.                   *)
SyncTest(s) ==
  IF s.current = 0 \/ ~IsSaved(s, s.current - 1) THEN s
  ELSE [s EXCEPT !.world = Append(SavedAt(s, s.current - 1), FrameAt(s, s.current)),
                 !.inputs = Predicted(s, s.current, s.current)]

(* Mutant: the states saved before are kept.                               *)
ResetKeepsSaved(s, world) ==
  [s EXCEPT !.world = world, !.current = Len(world)]

(* reset, after the caller has replaced the World by another.              *)
Reset(s, world) ==
  [s EXCEPT !.world = world, !.current = Len(world), !.saved = {}]

(* confirmed_frame, 0 for None.                                            *)
ConfirmedFrame(s) ==
  CHOOSE t \in {s.inputs[p].last_confirmed : p \in Players} :
    \A p \in Players : t <= s.inputs[p].last_confirmed
=============================================================================
