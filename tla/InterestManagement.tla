-------------------------- MODULE InterestManagement --------------------------
(***************************************************************************)
(* A server that replicates to each observer what is near it               *)
(* (AreaOfInterest), as much of it as its budget carries (Priority), in    *)
(* the order the two modules' docs give: query, changes, forget what left, *)
(* accumulate, select.  The server is the application's, so are the        *)
(* entities: they appear, move and die, and their slots are used again.    *)
(***************************************************************************)
EXTENDS AreaOfInterest, Priority

LOCAL INSTANCE TLC

CONSTANTS
  Scenarios,       \* [slots, points, moving, size, observers (to their points), radius, budget]
  Radii,           \* the radii GridIsExact asks about
  MaxGeneration

ASSUME ScenariosAssumption ==
  /\ Radii \subseteq 0 .. MaxRaw
  /\ \A s \in Scenarios :
       /\ s.slots \subseteq Nat /\ IsFiniteSet(s.slots)
       /\ s.points \subseteq Fx \X Fx
       /\ IsFiniteSet(DOMAIN s.observers) /\ s.observers \in [DOMAIN s.observers -> Fx \X Fx]
       /\ s.size \in [s.slots -> Nat] /\ s.budget \in Nat

VARIABLES
  scenario,
  where,        \* the application: live entity -> point
  generation,   \* the application: slot -> generation
  grid,         \* SpatialGrid
  tracker,      \* RelevanceTracker
  entries,      \* PriorityAccumulator
  connected,    \* observers
  view,         \* observer -> what its client holds
  chosen,       \* observer -> what the last tick sent it
  parity        \* of the number of ticks

InterestVars == <<scenario, where, generation, grid, tracker, entries, connected, view, chosen, parity>>
server == <<tracker, entries, connected, view, chosen, parity>>

Entity(i) == [index |-> i, generation |-> generation[i]]
Observers == DOMAIN scenario.observers

InterestInit ==
  /\ scenario \in Scenarios
  /\ where = Nobody /\ grid = NoEntities
  /\ generation = [i \in scenario.slots |-> 0]
  /\ tracker = Nobody /\ entries = Nobody
  /\ connected = DOMAIN scenario.observers
  /\ view = [o \in connected |-> {}] /\ chosen = view /\ parity = 0

(***************************************************************************)
(* The application's entities                                              *)
(***************************************************************************)
Put(e, p) ==
  /\ where' = [x \in DOMAIN where \cup {e} |-> IF x = e THEN p ELSE where[x]]
  /\ grid' = Insert(grid, e, p)
  /\ UNCHANGED <<scenario, generation, server>>

Spawn(i, p) == Entity(i) \notin DOMAIN where /\ generation[i] <= MaxGeneration /\ Put(Entity(i), p)
Move(i, p) == scenario.moving /\ Entity(i) \in DOMAIN where /\ where[Entity(i)] # p /\ Put(Entity(i), p)

Despawn(i) ==
  /\ scenario.moving /\ Entity(i) \in DOMAIN where
  /\ where' = [x \in DOMAIN where \ {Entity(i)} |-> where[x]]
  /\ grid' = RemoveEntity(grid, Entity(i))
  /\ generation' = [generation EXCEPT ![i] = @ + 1]
  /\ UNCHANGED <<scenario, server>>

(***************************************************************************)
(* A tick: the sweep over the observers, each in the order the two modules *)
(* foresee.  part is what the sweep has made of [tracker, entries, view,   *)
(* chosen] so far.                                                         *)
(***************************************************************************)
Of(events, kind) == {c.entity : c \in {x \in events : x.kind = kind}}

(* The client: a baseline for what entered, a despawn for what left.       *)
Taken(held, events) == (held \cup Of(events, "entered")) \ Of(events, "left")

Gains(o, relevant) ==
  [e \in relevant |-> Gain(Sqrt(LengthSq2(grid.positions[e], scenario.observers[o])))]

Served(part, o) ==
  LET relevant == Query(grid, scenario.observers[o], scenario.radius)
      events   == Changes(Visible(part.tracker, o), relevant)
      kept     == Forget(part.entries, o, Of(events, "left"))
      selected == Select(Accumulate(kept, o, Gains(o, relevant)), o,
                         {[entity |-> e, size |-> scenario.size[e.index]] : e \in relevant},
                         scenario.budget)
  IN [tracker |-> Update(part.tracker, o, relevant),
      entries |-> selected.entries,
      view    |-> [part.view EXCEPT ![o] = Taken(@, events)],
      chosen  |-> [part.chosen EXCEPT ![o] = Range(selected.entities)]]

Swept(order) ==
  LET after[k \in 0 .. Len(order)] ==
        IF k = 0 THEN [tracker |-> tracker, entries |-> entries, view |-> view, chosen |-> chosen]
        ELSE Served(after[k - 1], order[k])
  IN after[Len(order)]

Tick ==
  /\ \E order \in Injection(1 .. Cardinality(connected), connected) :
       LET after == Swept(order)
       IN /\ tracker' = after.tracker /\ entries' = after.entries
          /\ view' = after.view /\ chosen' = after.chosen
  /\ parity' = 1 - parity
  /\ UNCHANGED <<scenario, where, generation, grid, connected>>

Disconnect(o) ==
  /\ o \in connected
  /\ connected' = connected \ {o}
  /\ tracker' = RemoveObserver(tracker, o)
  /\ entries' = ForgetObserver(entries, o)
  /\ view' = [view EXCEPT ![o] = {}] /\ chosen' = [chosen EXCEPT ![o] = {}]
  /\ UNCHANGED <<scenario, where, generation, grid, parity>>

Return(o) ==
  /\ o \notin connected
  /\ connected' = connected \cup {o}
  /\ UNCHANGED <<scenario, where, generation, grid, tracker, entries, view, chosen, parity>>

InterestNext ==
  \/ \E i \in scenario.slots, p \in scenario.points : Spawn(i, p) \/ Move(i, p)
  \/ \E i \in scenario.slots : Despawn(i)
  \/ \E o \in Observers : Disconnect(o) \/ Return(o)
  \/ Tick

AllObservers == UNION {DOMAIN s.observers : s \in Scenarios}
AllSlots == UNION {s.slots : s \in Scenarios}

(* The server ticks for ever: WF_InterestVars(Tick), told by the parity,   *)
(* which no other action changes.                                          *)
Ticks == parity' = 1 - parity
Fairness == WF_parity(Ticks)

InterestSpec == InterestInit /\ [][InterestNext]_InterestVars /\ Fairness

(***************************************************************************)
(* A query finds every entity within the radius, wherever the grid's cells *)
(* and the zero of the axes lie, after any moves and removals, and no      *)
(* other but for the rounding of the squares: the exact distance of what   *)
(* it returns is less than the radius and two units of the last bit, as    *)
(* long as the radius has a square.                                        *)
(***************************************************************************)
ExactSq(p, q) == (p[1] - q[1]) * (p[1] - q[1]) + (p[2] - q[2]) * (p[2] - q[2])

GridIsExact ==
  \A c \in scenario.points, r \in Radii :
    LET found == Query(grid, c, r)
    IN /\ \A e \in DOMAIN where : ExactSq(where[e], c) <= r * r => e \in found
       /\ \A e \in found : /\ e \in DOMAIN where
                           /\ Mul(r, r) < MaxRaw => ExactSq(where[e], c) < r * r + 2 * One

(***************************************************************************)
(* What a client holds, built from nothing but the events, is what the     *)
(* server thinks it sees, across moves, deaths, slots used again, and      *)
(* disconnects; only that is sent to it, and only for that is a priority   *)
(* kept.                                                                   *)
(***************************************************************************)
ViewFollowsRelevance ==
  /\ \A o \in Observers : view[o] = Visible(tracker, o) /\ chosen[o] \subseteq view[o]
  /\ \A pair \in DOMAIN entries : pair[1] \in connected /\ pair[2] \in view[pair[1]]

(***************************************************************************)
(* "Nothing starves" (priority.rs:18): an entity that fits the budget and  *)
(* stays in sight is sent again and again, however far away it is and      *)
(* whatever else is there.                                                 *)
(***************************************************************************)
Sees(o, i) == o \in connected /\ \E e \in Visible(tracker, o) : e.index = i
IsSent(o, i) == \E e \in chosen[o] : e.index = i

NobodyStarves ==
  \A o \in AllObservers, i \in AllSlots :
    <>[](Sees(o, i) /\ scenario.size[i] <= scenario.budget) => []<>(Sees(o, i) => IsSent(o, i))

-----------------------------------------------------------------------------
(***************************************************************************)
(* Scenarios for TLC, of numbers of 10 bits with 2 bits of fraction:       *)
(* positions up to 127, whose squares saturate from a distance of 12 on.   *)
(***************************************************************************)
At(x, y) == <<x, y>>   \* quarters

(* Entities that move, about the edges of the cells and about zero; the    *)
(* budget carries everything.                                              *)
Motion == [slots |-> {0, 1}, points |-> {At(0, 0), At(-1, -13), At(11, 12), At(13, 12), At(-60, 45)},
           moving |-> TRUE, size |-> [i \in 0 .. 1 |-> 1],
           observers |-> "a" :> At(0, 0) @@ "b" :> At(10, -20), radius |-> 20, budget |-> 2]

(* More in sight than the budget carries, near and far, small and large.   *)
Crowd == [slots |-> {0, 1, 2}, points |-> {At(0, 0), At(16, 0)},
          moving |-> FALSE, size |-> [i \in 0 .. 2 |-> IF i = 1 THEN 3 ELSE 2],
          observers |-> "a" :> At(0, 0), radius |-> 40, budget |-> 3]

(* A pair of which only one is carried, that goes out of sight and back.   *)
Passing == [slots |-> {0, 1}, points |-> {At(8, 0), At(60, 0)},
            moving |-> TRUE, size |-> [i \in 0 .. 1 |-> 2],
            observers |-> "a" :> At(0, 0), radius |-> 20, budget |-> 3]

MCScenarios == {Motion, Crowd, Passing}
MCRadii == {2, 12, 20, 41, 48}
=============================================================================
