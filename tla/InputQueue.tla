------------------------------ MODULE InputQueue ------------------------------
(***************************************************************************)
(* tempo-rollback/src/input.rs: one participant's inputs, confirmed and    *)
(* predicted, as operators on the value of a PlayerInputs.                 *)
(*                                                                         *)
(* The ring of slots verifies the tick on every read, so to its callers it *)
(* is the set of entries it still holds, at most one per slot (Put).       *)
(* Ticks are counted from 1, do not wrap (2^32 of them last two years at   *)
(* 60 Hz), and 0 stands for "no tick confirmed".                           *)
(***************************************************************************)
EXTENDS Integers

CONSTANTS
  Inputs,        \* the inputs a player can give
  Default,       \* I::default()
  InputHistory   \* slots of the ring

ASSUME InputQueueAssumption ==
  /\ Default \in Inputs
  /\ InputHistory \in Nat \ {0}   \* input.rs:100

Ticks == Nat \ {0}
Entry == [tick : Ticks, input : Inputs, confirmed : BOOLEAN]

(* last_known is what predictions repeat, the default input if there is    *)
(* none yet (input.rs:176).                                                *)
PlayerInputs == [slots : SUBSET Entry, last_confirmed : Nat, last_known : Inputs]

NoInputs == [slots |-> {}, last_confirmed |-> 0, last_known |-> Default]

SameSlot(t, u) == t % InputHistory = u % InputHistory

Put(slots, e) == {x \in slots : ~SameSlot(x.tick, e.tick)} \cup {e}

Known(q, t) == \E e \in q.slots : e.tick = t

(* What get_or_predict returns.                                            *)
InputFor(q, t) ==
  IF Known(q, t) THEN (CHOOSE e \in q.slots : e.tick = t).input ELSE q.last_known

(* Mutant: the two sources mixed up.                                       *)
ContradictsConfirmed(q, t, input) ==
  \E e \in q.slots : e.tick = t /\ e.confirmed /\ e.input # input

(* The input contradicts a prediction that is on record for its tick.      *)
Contradicts(q, t, input) ==
  \E e \in q.slots : e.tick = t /\ ~e.confirmed /\ e.input # input

(* confirm: a contradiction discards the predictions of later ticks, which *)
(* were extrapolated from a value now known to be wrong.                   *)
Confirm(q, t, input) ==
  LET wrong == IF Contradicts(q, t, input)
               THEN {e \in q.slots : ~e.confirmed /\ e.tick > t} ELSE {}
  IN [slots |-> Put(q.slots \ wrong, [tick |-> t, input |-> input, confirmed |-> TRUE]),
      last_confirmed |-> IF t > q.last_confirmed THEN t ELSE q.last_confirmed,
      last_known     |-> IF t > q.last_confirmed THEN input ELSE q.last_known]

(* get_or_predict for every tick from first to last: what was missing is   *)
(* on record as a prediction afterwards.  No two of the ticks share a slot *)
(* (last - first < InputHistory), so the order of the calls is immaterial. *)
Predict(q, first, last) ==
  LET missing == {t \in first .. last : ~Known(q, t)}
  IN [q EXCEPT !.slots =
        {x \in @ : \A t \in missing : ~SameSlot(x.tick, t)} \cup
        {[tick |-> t, input |-> q.last_known, confirmed |-> FALSE] : t \in missing}]
=============================================================================
