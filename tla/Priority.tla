------------------------------- MODULE Priority -------------------------------
(***************************************************************************)
(* PriorityAccumulator and PriorityRule, tempo-interest/src/priority.rs:   *)
(* the priority an entity has gathered for an observer since it was sent,  *)
(* and the choice of what fits the budget.  entries maps <<observer,       *)
(* entity>> to [score, ticks].                                             *)
(***************************************************************************)
EXTENDS FixedPoint, Sequences, FiniteSets, Functions

CONSTANTS
  StalenessScale,   \* ticks after which the gain has doubled
  MaxTicks,         \* the counter's width: 2^32 - 1
  Base, HalfDistance

ASSUME PriorityAssumption ==
  StalenessScale \in 1 .. MaxRaw /\ MaxTicks \in Nat /\ {Base, HalfDistance} \subseteq Fx

Entry == [score |-> 0, ticks |-> 0]
EntryOf(entries, o, e) == IF <<o, e>> \in DOMAIN entries THEN entries[<<o, e>>] ELSE Entry
Score(entries, o, e) == EntryOf(entries, o, e).score

Gain(distance) == Div(Base, Add(One, Div(Larger(distance, 0), HalfDistance)))

(* The gain grows with the ticks since the entity was last sent.           *)
Grown(was, amount) ==
  LET ticks == IF was.ticks < MaxTicks THEN was.ticks + 1 ELSE MaxTicks
      staleness == Add(One, Div(Saturated(FromInt(ticks)), StalenessScale))
  IN [score |-> Add(was.score, Mul(amount, staleness)), ticks |-> ticks]

(* Called for each entity with a gain: gains maps it to the amount.  A     *)
(* call touches no other's entry.                                          *)
Accumulate(entries, o, gains) ==
  LET touched == {<<o, e>> : e \in DOMAIN gains}
  IN [pair \in DOMAIN entries \cup touched |->
        IF pair \in touched THEN Grown(EntryOf(entries, o, pair[2]), gains[pair[2]])
        ELSE entries[pair]]

Reset(entries, o, e) ==
  [pair \in DOMAIN entries \cup {<<o, e>>} |-> IF pair = <<o, e>> THEN Entry ELSE entries[pair]]

(* Called for each of the entities gone.                                   *)
Forget(entries, o, gone) == Restrict(entries, DOMAIN entries \ {<<o, e>> : e \in gone})
ForgetObserver(entries, o) == Restrict(entries, {pair \in DOMAIN entries : pair[1] # o})

(* By score, then by index; two candidates never have the same slot.       *)
IsAhead(entries, o, a, b) ==
  \/ Score(entries, o, a.entity) > Score(entries, o, b.entity)
  \/ Score(entries, o, a.entity) = Score(entries, o, b.entity) /\ a.entity.index < b.entity.index

Ranked(entries, o, candidates) ==
  LET Ahead(c) == Cardinality({d \in candidates : IsAhead(entries, o, d, c)})
  IN [k \in 1 .. Cardinality(candidates) |-> CHOOSE c \in candidates : Ahead(c) = k - 1]

(* Mutant: whatever was considered starts again.                           *)
StartsAgain(s, o, c) == [s EXCEPT !.deferred = @ + 1, !.entries = Reset(@, o, c.entity)]

Deferred(s, o, c) == [s EXCEPT !.deferred = @ + 1]
Chosen(s, o, c) ==
  [s EXCEPT !.entities = Append(@, c.entity), !.bytes = @ + c.size, !.entries = Reset(@, o, c.entity)]

(* What does not fit is passed over, and keeps its priority.               *)
Considered(s, o, c, budget) ==
  IF s.bytes + c.size > budget THEN Deferred(s, o, c) ELSE Chosen(s, o, c)

Select(entries, o, candidates, budget) ==
  LET ranked == Ranked(entries, o, candidates)
      after[k \in 0 .. Len(ranked)] ==
        IF k = 0 THEN [entities |-> <<>>, bytes |-> 0, deferred |-> 0, entries |-> entries]
        ELSE Considered(after[k - 1], o, ranked[k], budget)
  IN after[Len(ranked)]
=============================================================================
