------------------------------ MODULE Predictor ------------------------------
(***************************************************************************)
(* tempo-predict/src/predict.rs: the history of predicted ticks and its    *)
(* reconciliation with the states the server sends.                        *)
(*                                                                         *)
(* The history is the sequence of [tick, input, state] from the oldest to  *)
(* the newest.  `simulate` and the comparison of states are the            *)
(* application's and the core's: parameters here.                          *)
(***************************************************************************)
EXTENDS Integers, Sequences

CONSTANTS
  MaxHistory,       \* Predictor::max_history
  Simulate(_, _),   \* the state after one tick under an input
  Agrees(_, _)      \* World::compare_with: is the predicted state close enough?

(* record: the oldest tick makes room.                                     *)
Record(history, tick, input, state) ==
  Append(IF Len(history) = MaxHistory THEN Tail(history) ELSE history,
         [tick |-> tick, input |-> input, state |-> state])

Positions(history, tick) == {k \in DOMAIN history : history[k].tick = tick}

(* Mutant: the states predicted before the correction stay in the history. *)
KeptHistory(history, pos, state) == SubSeq(history, pos + 1, Len(history))

(* The ticks after pos simulated again, from the authority's state.        *)
Rebuilt(history, pos, state) ==
  LET replayed[k \in pos .. Len(history)] ==
        IF k = pos THEN state ELSE Simulate(replayed[k - 1], history[k].input)
  IN [k \in 1 .. Len(history) - pos |->
        [history[pos + k] EXCEPT !.state = replayed[pos + k]]]

NewestState(history, otherwise) ==
  IF history = <<>> THEN otherwise ELSE history[Len(history)].state

Outcome(kind, history, world) == [kind |-> kind, history |-> history, world |-> world]

(* Mutant: every snapshot that is not held is adopted.                     *)
NeverOldNews(history, tick) == FALSE

IsOldNews(history, tick) == history # <<>> /\ history[1].tick > tick

Adopted(snap) == Outcome("Resynced", <<>>, snap.state)

Corrected(history, pos, snap) ==
  LET rebuilt == Rebuilt(history, pos, snap.state)
  IN Outcome("Corrected", rebuilt, NewestState(rebuilt, snap.state))

Confirmed(history, pos, world) ==
  Outcome("Confirmed", SubSeq(history, pos + 1, Len(history)), world)

(* reconcile *)
Reconcile(history, world, snap) ==
  LET held == Positions(history, snap.tick)
      pos  == CHOOSE k \in held : \A other \in held : k <= other
  IN CASE held = {} /\ IsOldNews(history, snap.tick)  -> Outcome("Stale", history, world)
       [] held = {} /\ ~IsOldNews(history, snap.tick) -> Adopted(snap)
       [] held # {} /\ Agrees(history[pos].state, snap.state)  -> Confirmed(history, pos, world)
       [] held # {} /\ ~Agrees(history[pos].state, snap.state) -> Corrected(history, pos, snap)
=============================================================================
