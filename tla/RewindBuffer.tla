----------------------------- MODULE RewindBuffer -----------------------------
(***************************************************************************)
(* tempo-core/src/rewind.rs: recent worlds, kept so that a hit can be      *)
(* judged in the world the shooter saw.                                    *)
(***************************************************************************)
EXTENDS World

CONSTANT MaxRewind   \* RewindConfig::max_rewind_ticks

ASSUME RewindAssumption == MaxRewind \in Nat \ {0}

HistoryCapacity == MaxRewind + 2

(* record: once per tick, after simulating.                                *)
Record(past, w) == RingStore(past, HistoryCapacity, Snapshot(w))

(* rewind: the world afterwards, the outcome and the world the query saw.  *)
Rewind(w, past, view) ==
  IF view < w.tick - MaxRewind THEN [world |-> w, outcome |-> "beyond cap"]
  ELSE IF view > w.tick THEN [world |-> w, outcome |-> "answered", seen |-> w]
  ELSE IF ~RingHas(past, view) THEN [world |-> w, outcome |-> "not recorded"]
  ELSE LET then == Restore(w, RingGet(past, view))
       IN [world |-> Restore(then, Snapshot(w)), outcome |-> "answered", seen |-> then]
=============================================================================
