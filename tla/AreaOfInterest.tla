---------------------------- MODULE AreaOfInterest ----------------------------
(***************************************************************************)
(* tempo-interest/src/aoi.rs.  SpatialGrid: entities by the cell they are  *)
(* in; a grid is [cells, positions], the occupied cells with their         *)
(* entities and the entities with their points <<x, y>>.                   *)
(* RelevanceTracker: what each observer sees, its changes told as events.  *)
(***************************************************************************)
EXTENDS FixedPoint, Sequences, Functions

CONSTANT CellSize

ASSUME CellSizeAssumption == CellSize \in 1 .. MaxRaw

Nobody == [x \in {} |-> {}]
NoEntities == [cells |-> Nobody, positions |-> Nobody]

CellOf(p) == <<ToIntFloor(Div(p[1], CellSize)), ToIntFloor(Div(p[2], CellSize))>>

(* An empty cell takes no room.                                            *)
Without(cells, cell, e) ==
  IF cell \notin DOMAIN cells THEN cells
  ELSE IF cells[cell] \subseteq {e} THEN Restrict(cells, DOMAIN cells \ {cell})
  ELSE [cells EXCEPT ![cell] = @ \ {e}]

With(cells, cell, e) ==
  [c \in DOMAIN cells \cup {cell} |->
     (IF c \in DOMAIN cells THEN cells[c] ELSE {}) \cup (IF c = cell THEN {e} ELSE {})]

(* Inserts, or moves from the cell it was in.                              *)
Insert(g, e, p) ==
  LET cells == IF e \in DOMAIN g.positions THEN Without(g.cells, CellOf(g.positions[e]), e) ELSE g.cells
  IN [cells     |-> With(cells, CellOf(p), e),
      positions |-> [x \in DOMAIN g.positions \cup {e} |-> IF x = e THEN p ELSE g.positions[x]]]

RemoveEntity(g, e) ==
  IF e \notin DOMAIN g.positions THEN g
  ELSE [cells     |-> Without(g.cells, CellOf(g.positions[e]), e),
        positions |-> Restrict(g.positions, DOMAIN g.positions \ {e})]

(* Each square is rounded down, and saturates.                             *)
LengthSq2(p, q) == Add(Mul(Sub(p[1], q[1]), Sub(p[1], q[1])), Mul(Sub(p[2], q[2]), Sub(p[2], q[2])))
IsNear(g, e, centre, radius) == LengthSq2(g.positions[e], centre) <= Mul(radius, radius)

(* Mutant: only as many cells as fit into the radius.                      *)
WholeCells(radius) == ToIntFloor(Div(radius, CellSize))

Reach(radius) == ToIntFloor(Div(radius, CellSize)) + 1

(* Ascending in the code; here a set.                                      *)
Query(g, centre, radius) ==
  LET c == CellOf(centre)
      around == {cell \in DOMAIN g.cells : \A i \in 1 .. 2 : Magnitude(cell[i] - c[i]) <= Reach(radius)}
  IN {e \in UNION {g.cells[cell] : cell \in around} : e \in DOMAIN g.positions /\ IsNear(g, e, centre, radius)}

(***************************************************************************)
(* RelevanceTracker: observer -> the entities it sees.  An entity is       *)
(* [index, generation].                                                    *)
(***************************************************************************)
Visible(tracker, o) == IF o \in DOMAIN tracker THEN tracker[o] ELSE {}

(* Sorted in the code; here a set: nothing enters and leaves at once.      *)
Changes(previous, current) ==
  {[kind |-> "entered", entity |-> e] : e \in current \ previous}
    \cup {[kind |-> "left", entity |-> e] : e \in previous \ current}

Update(tracker, o, now) ==
  [x \in DOMAIN tracker \cup {o} |-> IF x = o THEN now ELSE tracker[x]]

(* Mutant: what a client saw outlives its connection.                      *)
StillRemembered(tracker, o) == tracker

RemoveObserver(tracker, o) == Restrict(tracker, DOMAIN tracker \ {o})
=============================================================================
