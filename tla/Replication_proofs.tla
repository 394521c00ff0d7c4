-------------------------- MODULE Replication_proofs --------------------------
(***************************************************************************)
(* Proofs about the replicated world, for any components, fields, values,  *)
(* quantization, slots, ticks and rings.                                   *)
(*                                                                         *)
(* The authority first: nothing of the dead is left, slots are accounted   *)
(* for, and a handle is never handed out twice while generations do not    *)
(* wrap.  The invariant is local to the allocator: the free slots are dead *)
(* and distinct, as many as are not live, and no handle of a dead slot's   *)
(* present generation was ever handed out.                                 *)
(*                                                                         *)
(* Then the past, the replica, and the deltas between them.  Slot by slot, *)
(* what an entry says of a slot turns the slot of any world like the       *)
(* baseline into the slot as it was sent, and touches no other             *)
(* (SlotApplied); what has no entry is as it was sent already              *)
(* (ReportedIff); so the delta turns the whole world into the one that was *)
(* sent (DeltaCarries).  Induction on the slots uses sets of numbers       *)
(* (Induct).                                                               *)
(***************************************************************************)
EXTENDS Replication, FiniteSetTheorems, SequenceTheorems, FunctionTheorems,
        WellFoundedInduction, TLAPS

(***************************************************************************)
(* The allocator.                                                          *)
(***************************************************************************)
IsAllocator(a) ==
  a = [generations |-> a.generations, alive |-> a.alive, free |-> a.free, live |-> a.live]

SlotsTyped(a) ==
  /\ IsAllocator(a)
  /\ a.generations \in Seq(Nat) /\ a.alive \in Seq(BOOLEAN) /\ a.free \in Seq(Nat)
  /\ Len(a.alive) = Len(a.generations)
  /\ a.live \in Nat

GenerationsInRange(a) == \A i \in 1 .. Len(a.generations) : a.generations[i] < GenMod
FreeInRange(a) == \A j \in 1 .. Len(a.free) : a.free[j] \in 1 .. Len(a.generations)
Distinct(s) == \A j, k \in 1 .. Len(s) : j # k => s[j] # s[k]

Accounted(a) ==
  IsFiniteSet(Entities(a)) /\ a.live = Cardinality(Entities(a))

(* What only the authority's allocator has: no slot was skipped.           *)
NoneLost(a) == Len(a.free) + a.live = Len(a.generations)

AllocatorSound(a) ==
  /\ SlotsTyped(a) /\ GenerationsInRange(a)
  /\ FreeInRange(a) /\ FreeAreDead(a) /\ Accounted(a)

(* The generations of the handles handed out are not ahead of their slots. *)
Behind(a, handles) ==
  \A h \in handles :
    /\ h.index \in 1 .. Len(a.generations)
    /\ h.generation \in Nat
    /\ \/ h.generation < a.generations[h.index]
       \/ h.generation = a.generations[h.index] /\ a.alive[h.index]

Within(a, most) == \A i \in 1 .. Len(a.generations) : a.generations[i] <= most

LEMMA PopType ==
  ASSUME NEW s \in Seq(Nat), s # <<>>, NEW r, r = SubSeq(s, 1, Len(s) - 1)
  PROVE  /\ r \in Seq(Nat) /\ Len(r) = Len(s) - 1 /\ Len(s) > 0 /\ Len(s) \in Nat
         /\ \A i \in 1 .. Len(s) - 1 : r[i] = s[i]
<1> DEFINE n == Len(s) - 1
<1>1. Len(s) \in Nat /\ Len(s) > 0
  BY EmptySeq
<1>2. n \in Int /\ 1 \in Int /\ \A k \in 1 .. n : s[k] \in Nat
  BY <1>1, ElementOfSeq
<1>3. r = SubSeq(s, 1, n)
  OBVIOUS
<1> HIDE DEF n
<1>4. r \in Seq(Nat) /\ Len(r) = (IF 1 <= n THEN n - 1 + 1 ELSE 0)
      /\ \A k \in 1 .. n - 1 + 1 : r[k] = s[1 + k - 1]
  BY <1>2, <1>3, SubSeqProperties
<1>5. n \in Nat /\ n = Len(s) - 1
  BY <1>1 DEF n
<1> QED BY <1>1, <1>4, <1>5

LEMMA AppendFacts ==
  ASSUME NEW S, NEW q \in Seq(S), NEW x \in S, NEW n, n = Len(q)
  PROVE  Append(q, x)[n + 1] = x /\ \A k \in 1 .. n : Append(q, x)[k] = q[k]
BY AppendProperties

LEMMA OneMore ==
  ASSUME NEW S, IsFiniteSet(S), NEW x, x \notin S, NEW T, T = S \cup {x}
  PROVE  IsFiniteSet(T) /\ Cardinality(T) = Cardinality(S) + 1 /\ Cardinality(S) \in Nat
<1>1. /\ IsFiniteSet(S \cup {x})
      /\ Cardinality(S \cup {x}) = IF x \in S THEN Cardinality(S) ELSE Cardinality(S) + 1
  BY ONLY IsFiniteSet(S), FS_AddElement
<1>2. Cardinality(S) \in Nat
  BY ONLY IsFiniteSet(S), FS_CardinalityType
<1> QED BY <1>1, <1>2

LEMMA OneLess ==
  ASSUME NEW S, IsFiniteSet(S), NEW x \in S, NEW T, T = S \ {x}
  PROVE  IsFiniteSet(T) /\ Cardinality(T) = Cardinality(S) - 1 /\ Cardinality(S) \in Nat
<1>1. /\ IsFiniteSet(S \ {x})
      /\ Cardinality(S \ {x}) = IF x \in S THEN Cardinality(S) - 1 ELSE Cardinality(S)
  BY ONLY IsFiniteSet(S), FS_RemoveElement
<1>2. Cardinality(S) \in Nat
  BY ONLY IsFiniteSet(S), FS_CardinalityType
<1> QED BY <1>1, <1>2

LEMMA EntityFields ==
  ASSUME NEW i, NEW g
  PROVE  Entity(i, g).index = i /\ Entity(i, g).generation = g
BY DEF Entity

LEMMA EntitySlots ==
  ASSUME NEW a, SlotsTyped(a), NEW e
  PROVE  e \in Entities(a) <=>
           \E i \in 1 .. Len(a.generations) : a.alive[i] /\ e = Entity(i, a.generations[i])
BY DEF Entities, EntityAt, SlotCount

(* A slot is taken from the free list.                                     *)
LEMMA ReuseSound ==
  ASSUME NEW a, AllocatorSound(a), a.free # <<>>
  PROVE  /\ AllocatorSound(Alloc(a)) /\ (NoneLost(a) => NoneLost(Alloc(a)))
         /\ Alloc(a).generations = a.generations
         /\ Entities(Alloc(a)) = Entities(a) \cup {Allocated(a)}
         /\ Allocated(a) = Entity(a.free[Len(a.free)], a.generations[a.free[Len(a.free)]])
         /\ a.free[Len(a.free)] \in 1 .. Len(a.generations)
         /\ ~a.alive[a.free[Len(a.free)]]
         /\ Alloc(a).alive = [a.alive EXCEPT ![a.free[Len(a.free)]] = TRUE]
<1> DEFINE b == Alloc(a)
           n == Len(a.generations)
           i == a.free[Len(a.free)]
           r == SubSeq(a.free, 1, Len(a.free) - 1)
<1>1. /\ SlotsTyped(a) /\ IsAllocator(a) /\ a.free \in Seq(Nat) /\ n \in Nat
      /\ a.alive \in Seq(BOOLEAN) /\ Len(a.alive) = n /\ a.live \in Nat
  BY DEF AllocatorSound, SlotsTyped
<1>2. /\ r \in Seq(Nat) /\ Len(r) = Len(a.free) - 1 /\ Len(a.free) > 0 /\ Len(a.free) \in Nat
      /\ \A k \in 1 .. Len(a.free) - 1 : r[k] = a.free[k]
  BY <1>1, PopType
<1>3. i \in 1 .. n /\ ~a.alive[i]
  BY <1>1, <1>2 DEF AllocatorSound, FreeInRange, FreeAreDead, SlotLive, SlotCount
<1>4. b = [generations |-> a.generations, alive |-> [a.alive EXCEPT ![i] = TRUE],
           free |-> r, live |-> a.live + 1]
  BY <1>1 DEF Alloc, IsAllocator
<1>5. Allocated(a) = Entity(i, a.generations[i])
  BY DEF Allocated, EntityAt
<1> HIDE DEF b, i, r
<1>0. /\ b.alive = [a.alive EXCEPT ![i] = TRUE] /\ b.generations = a.generations
      /\ b.free = r /\ b.live = a.live + 1
  BY <1>4
<1>6. SlotsTyped(b) /\ Len(b.generations) = n /\ b.generations = a.generations
  BY <1>1, <1>2, <1>3, <1>4 DEF SlotsTyped, IsAllocator
<1>7. b.alive[i] /\ \A k \in 1 .. n : k # i => b.alive[k] = a.alive[k]
  BY <1>1, <1>3, <1>4
<1>8. Entities(b) = Entities(a) \cup {Allocated(a)}
  <2>1. \A e : e \in Entities(b) <=> \E k \in 1 .. n : b.alive[k] /\ e = Entity(k, a.generations[k])
    BY <1>6, EntitySlots
  <2>2. \A e : e \in Entities(a) <=> \E k \in 1 .. n : a.alive[k] /\ e = Entity(k, a.generations[k])
    BY <1>1, EntitySlots
  <2> QED BY <2>1, <2>2, <1>3, <1>5, <1>7
<1>9. Allocated(a) \notin Entities(a)
  <2> SUFFICES ASSUME NEW k \in 1 .. n, a.alive[k], Entity(i, a.generations[i]) = Entity(k, a.generations[k])
               PROVE  FALSE
    BY <1>1, <1>5, EntitySlots
  <2> QED BY <1>3, EntityFields
<1>10. Accounted(b)
  <2>1. IsFiniteSet(Entities(b)) /\ Cardinality(Entities(b)) = Cardinality(Entities(a)) + 1
    BY <1>8, <1>9, OneMore DEF AllocatorSound, Accounted
  <2>2. b.live = a.live + 1 /\ Len(b.free) = Len(a.free) - 1
    BY <1>2, <1>4
  <2> QED BY <1>1, <1>2, <1>6, <2>1, <2>2 DEF AllocatorSound, Accounted
<1>11. FreeInRange(b)
  <2>1. FreeInRange(a) /\ \A k \in 1 .. Len(r) : k \in 1 .. Len(a.free)
    BY <1>2 DEF AllocatorSound
  <2> QED BY <1>0, <1>2, <2>1 DEF FreeInRange
<1>12. FreeAreDead(b)
  <2> SUFFICES ASSUME NEW j \in 1 .. Len(r), NEW k \in 1 .. Len(r)
               PROVE  ~SlotLive(b, r[j]) /\ (j # k => r[j] # r[k])
    BY <1>0 DEF FreeAreDead
  <2>0. /\ r[j] = a.free[j] /\ r[k] = a.free[k]
        /\ j \in 1 .. Len(a.free) /\ k \in 1 .. Len(a.free) /\ j # Len(a.free)
        /\ Len(a.free) \in 1 .. Len(a.free)
    <3>1. j \in 1 .. Len(a.free) - 1 /\ k \in 1 .. Len(a.free) - 1
      BY <1>2
    <3>2. r[j] = a.free[j] /\ r[k] = a.free[k]
      BY <1>2, <3>1
    <3> DEFINE l == Len(a.free)
    <3>3. l \in Nat /\ l > 0 /\ j \in 1 .. l - 1 /\ k \in 1 .. l - 1
      BY <1>2, <3>1
    <3> HIDE DEF l
    <3>4. j \in 1 .. l /\ k \in 1 .. l /\ j # l /\ l \in 1 .. l
      BY <3>3
    <3> QED BY <3>2, <3>4 DEF l
  <2>1. r[j] \in 1 .. n
    BY <2>0 DEF AllocatorSound, FreeInRange
  <2>2. ~a.alive[r[j]] /\ r[j] # i /\ (j # k => r[j] # r[k])
    BY <2>0, <2>1 DEF AllocatorSound, FreeAreDead, SlotLive, SlotCount, i
  <2> QED BY <1>7, <2>1, <2>2 DEF SlotLive
<1>13. AllocatorSound(b)
  BY <1>6, <1>10, <1>11, <1>12 DEF AllocatorSound, GenerationsInRange
<1>14. NoneLost(a) => NoneLost(b)
  <2>1. /\ Len(b.free) = Len(a.free) - 1 /\ b.live = a.live + 1
        /\ Len(b.generations) = Len(a.generations) /\ a.live \in Nat /\ Len(a.free) \in Nat
    BY <1>0, <1>1, <1>2
  <2> DEFINE x == Len(a.free)
             l == a.live
  <2>2. x \in Nat /\ l \in Nat /\ Len(b.free) = x - 1 /\ b.live = l + 1
    BY <2>1
  <2> HIDE DEF x, l
  <2>3. Len(b.free) + b.live = x + l
    BY <2>2
  <2> QED BY <2>1, <2>3 DEF NoneLost, x, l
<1> QED BY <1>0, <1>3, <1>5, <1>8, <1>13, <1>14 DEF b, i

(* No slot is free: a new one.                                             *)
LEMMA GrowSound ==
  ASSUME NEW a, AllocatorSound(a), a.free = <<>>
  PROVE  /\ AllocatorSound(Alloc(a)) /\ (NoneLost(a) => NoneLost(Alloc(a)))
         /\ Alloc(a).generations = Append(a.generations, 0)
         /\ Alloc(a).alive = Append(a.alive, TRUE)
         /\ Entities(Alloc(a)) = Entities(a) \cup {Allocated(a)}
         /\ Allocated(a) = Entity(Len(a.generations) + 1, 0)
<1> DEFINE b == Alloc(a)
           n == Len(a.generations)
<1>1. /\ SlotsTyped(a) /\ IsAllocator(a) /\ n \in Nat /\ a.generations \in Seq(Nat)
      /\ a.alive \in Seq(BOOLEAN) /\ Len(a.alive) = n /\ a.live \in Nat
  BY DEF AllocatorSound, SlotsTyped
<1>2. b = [generations |-> Append(a.generations, 0), alive |-> Append(a.alive, TRUE),
           free |-> a.free, live |-> a.live + 1]
  BY <1>1 DEF Alloc, IsAllocator
<1>3. Allocated(a) = Entity(n + 1, 0)
  BY DEF Allocated, SlotCount
<1> HIDE DEF b
<1>0. /\ b.generations = Append(a.generations, 0) /\ b.alive = Append(a.alive, TRUE)
      /\ b.free = a.free /\ b.live = a.live + 1
  BY <1>2
<1>4. SlotsTyped(b) /\ Len(b.generations) = n + 1
  BY <1>1, <1>2 DEF SlotsTyped, IsAllocator
<1>5. /\ b.alive[n + 1] /\ b.generations[n + 1] = 0
      /\ \A k \in 1 .. n : b.alive[k] = a.alive[k] /\ b.generations[k] = a.generations[k]
  <2>1. Len(a.generations) = n /\ Len(a.alive) = n
    BY <1>1
  <2>2. /\ Append(a.generations, 0)[n + 1] = 0
        /\ \A k \in 1 .. n : Append(a.generations, 0)[k] = a.generations[k]
    BY <1>1, <2>1
  <2> DEFINE v == TRUE
  <2>3. v \in BOOLEAN /\ n = Len(a.alive) /\ a.alive \in Seq(BOOLEAN)
    BY <1>1
  <2> HIDE DEF n, v
  <2>4. Append(a.alive, v)[n + 1] = v /\ \A k \in 1 .. n : Append(a.alive, v)[k] = a.alive[k]
    BY ONLY <2>3, AppendFacts
  <2>5. b.alive = Append(a.alive, v) /\ v
    BY <1>0 DEF v
  <2> QED BY <1>0, <2>2, <2>4, <2>5
<1>6. Entities(b) = Entities(a) \cup {Allocated(a)}
  <2>1. \A e : e \in Entities(b) <=>
               \E k \in 1 .. n + 1 : b.alive[k] /\ e = Entity(k, b.generations[k])
    BY <1>4, EntitySlots
  <2>2. \A e : e \in Entities(a) <=> \E k \in 1 .. n : a.alive[k] /\ e = Entity(k, a.generations[k])
    BY <1>1, EntitySlots
  <2>3. ASSUME NEW e \in Entities(b) PROVE e \in Entities(a) \/ e = Entity(n + 1, 0)
    <3>1. PICK k \in 1 .. n + 1 : b.alive[k] /\ e = Entity(k, b.generations[k])
      BY <2>1
    <3>2. k = n + 1 \/ k \in 1 .. n
      BY <1>1
    <3> QED BY <1>5, <2>2, <3>1, <3>2
  <2>4. ASSUME NEW e \in Entities(a) PROVE e \in Entities(b)
    <3>1. PICK k \in 1 .. n : a.alive[k] /\ e = Entity(k, a.generations[k])
      BY <2>2
    <3>2. k \in 1 .. n + 1
      BY <1>1
    <3> QED BY <1>5, <2>1, <3>1, <3>2
  <2>5. n + 1 \in 1 .. n + 1
    BY <1>1
  <2>6. Entity(n + 1, 0) \in Entities(b)
    BY <1>5, <2>1, <2>5
  <2> QED BY <1>3, <2>3, <2>4, <2>6
<1>7. Allocated(a) \notin Entities(a)
  <2> SUFFICES ASSUME NEW k \in 1 .. n, Entity(n + 1, 0) = Entity(k, a.generations[k]) PROVE FALSE
    BY <1>1, <1>3, EntitySlots
  <2> QED BY <1>1, EntityFields
<1>8. Accounted(b)
  <2>1. IsFiniteSet(Entities(b)) /\ Cardinality(Entities(b)) = Cardinality(Entities(a)) + 1
    BY <1>6, <1>7, OneMore DEF AllocatorSound, Accounted
  <2>2. b.live = a.live + 1 /\ b.free = a.free /\ Len(a.free) = 0
    BY <1>2
  <2> QED BY <1>1, <1>4, <2>1, <2>2 DEF AllocatorSound, Accounted
<1>9. FreeInRange(b) /\ FreeAreDead(b)
  BY <1>2 DEF FreeInRange, FreeAreDead
<1>12. GenerationsInRange(b)
  <2>1. 0 < GenMod /\ GenerationsInRange(a)
    BY EntityAllocatorAssumption DEF AllocatorSound
  <2>2. \A k \in 1 .. n + 1 : k \in 1 .. n \/ k = n + 1
    BY <1>1
  <2> QED BY <1>4, <1>5, <2>1, <2>2 DEF GenerationsInRange
<1>10. AllocatorSound(b)
  BY <1>4, <1>8, <1>9, <1>12 DEF AllocatorSound
<1>11. NoneLost(a) => NoneLost(b)
  BY <1>0, <1>1, <1>4 DEF NoneLost
<1> QED BY <1>0, <1>3, <1>6, <1>10, <1>11 DEF b

(* Whether a slot is used again or new, no other slot is touched.          *)
OneBorn(a, b) ==
  /\ Len(b.generations) \in Nat /\ Len(a.generations) <= Len(b.generations)
  /\ \A k \in 1 .. Len(a.generations) : a.alive[k] => b.alive[k]

LEMMA AllocClean ==
  ASSUME NEW a, AllocatorSound(a)
  PROVE  AllocatorSound(Alloc(a)) /\ OneBorn(a, Alloc(a)) /\ (NoneLost(a) => NoneLost(Alloc(a)))
<1> DEFINE n == Len(a.generations)
           b == Alloc(a)
<1>1. n \in Nat /\ a.generations \in Seq(Nat) /\ a.alive \in Seq(BOOLEAN) /\ Len(a.alive) = n
  BY DEF AllocatorSound, SlotsTyped
<1>2. CASE a.free # <<>>
  <2> DEFINE i == a.free[Len(a.free)]
  <2>1. /\ AllocatorSound(b) /\ (NoneLost(a) => NoneLost(b)) /\ b.generations = a.generations
        /\ i \in 1 .. n /\ b.alive = [a.alive EXCEPT ![i] = TRUE]
    BY <1>2, ReuseSound
  <2> HIDE DEF i, b
  <2>2. \A k \in 1 .. n : a.alive[k] => b.alive[k]
    BY <1>1, <2>1
  <2> QED BY <1>1, <2>1, <2>2 DEF OneBorn, b
<1>3. CASE a.free = <<>>
  <2>1. /\ AllocatorSound(b) /\ (NoneLost(a) => NoneLost(b))
        /\ b.generations = Append(a.generations, 0) /\ b.alive = Append(a.alive, TRUE)
    BY <1>3, GrowSound
  <2> DEFINE v == TRUE
  <2>2. v \in BOOLEAN /\ n = Len(a.alive) /\ a.alive \in Seq(BOOLEAN)
    BY <1>1
  <2>3. Len(b.generations) = n + 1
    BY <1>1, <2>1
  <2>6. b.alive = Append(a.alive, v)
    BY <2>1
  <2> HIDE DEF n, b, v
  <2>4. \A k \in 1 .. n : Append(a.alive, v)[k] = a.alive[k]
    BY ONLY <2>2, AppendFacts
  <2>5. \A k \in 1 .. n : a.alive[k] => b.alive[k]
    BY <2>4, <2>6
  <2> QED BY <1>1, <2>1, <2>3, <2>5 DEF OneBorn, b, n
<1> QED BY <1>2, <1>3

LEMMA AllocSound ==
  ASSUME NEW a, AllocatorSound(a), NEW handles, Behind(a, handles),
         NEW most \in Nat, Within(a, most)
  PROVE  /\ AllocatorSound(Alloc(a)) /\ Within(Alloc(a), most)
         /\ Behind(Alloc(a), handles \cup {Allocated(a)})
         /\ Entities(Alloc(a)) = Entities(a) \cup {Allocated(a)}
         /\ Allocated(a) \notin handles
<1> DEFINE n == Len(a.generations)
           b == Alloc(a)
           new == Allocated(a)
<1>1. n \in Nat /\ a.generations \in Seq(Nat) /\ a.alive \in Seq(BOOLEAN) /\ Len(a.alive) = n
  BY DEF AllocatorSound, SlotsTyped
<1>2. CASE a.free # <<>>
  <2> DEFINE i == a.free[Len(a.free)]
  <2>1. /\ AllocatorSound(b) /\ b.generations = a.generations
        /\ Entities(b) = Entities(a) \cup {new} /\ new = Entity(i, a.generations[i])
        /\ i \in 1 .. n /\ ~a.alive[i] /\ b.alive = [a.alive EXCEPT ![i] = TRUE]
    BY <1>2, ReuseSound
  <2> HIDE DEF i, b, new
  <2>2. b.alive[i] /\ \A k \in 1 .. n : k # i => b.alive[k] = a.alive[k]
    BY <1>1, <2>1
  <2>3. new.index = i /\ new.generation = a.generations[i] /\ a.generations[i] \in Nat
    BY <1>1, <2>1, EntityFields
  <2>4. new \notin handles
    BY <1>1, <2>1, <2>3 DEF Behind
  <2>5. Behind(b, handles \cup {new})
    <3> SUFFICES ASSUME NEW h \in handles \cup {new}
                 PROVE  /\ h.index \in 1 .. n /\ h.generation \in Nat
                        /\ \/ h.generation < a.generations[h.index]
                           \/ h.generation = a.generations[h.index] /\ b.alive[h.index]
      BY <2>1 DEF Behind
    <3>1. CASE h = new
      BY <2>1, <2>2, <2>3, <3>1
    <3>2. CASE h \in handles
      <4>1. /\ h.index \in 1 .. n /\ h.generation \in Nat
            /\ \/ h.generation < a.generations[h.index]
               \/ h.generation = a.generations[h.index] /\ a.alive[h.index]
        BY <3>2 DEF Behind
      <4> QED BY <2>2, <4>1
    <3> QED BY <3>1, <3>2
  <2> QED BY <2>1, <2>4, <2>5 DEF Within, b, new
<1>3. CASE a.free = <<>>
  <2>1. /\ AllocatorSound(b) /\ b.generations = Append(a.generations, 0)
        /\ b.alive = Append(a.alive, TRUE)
        /\ Entities(b) = Entities(a) \cup {new} /\ new = Entity(n + 1, 0)
    BY <1>3, GrowSound
  <2> HIDE DEF b, new
  <2>2. /\ Len(b.generations) = n + 1 /\ b.generations[n + 1] = 0
        /\ \A k \in 1 .. n : b.generations[k] = a.generations[k]
    BY <1>1, <2>1
  <2> DEFINE v == TRUE
  <2>3. v \in BOOLEAN /\ n = Len(a.alive) /\ a.alive \in Seq(BOOLEAN)
    BY <1>1
  <2>4. b.alive = Append(a.alive, v) /\ v
    BY <2>1
  <2> HIDE DEF n, v
  <2>5. Append(a.alive, v)[n + 1] = v /\ \A k \in 1 .. n : Append(a.alive, v)[k] = a.alive[k]
    BY ONLY <2>3, AppendFacts
  <2>6. b.alive[n + 1] /\ \A k \in 1 .. n : b.alive[k] = a.alive[k]
    BY <2>4, <2>5
  <2> USE DEF n
  <2>7. new.index = n + 1 /\ new.generation = 0
    BY <2>1, EntityFields
  <2>8. new \notin handles
    BY <1>1, <2>7 DEF Behind
  <2>9. Behind(b, handles \cup {new})
    <3> SUFFICES ASSUME NEW h \in handles \cup {new}
                 PROVE  /\ h.index \in 1 .. n + 1 /\ h.generation \in Nat
                        /\ \/ h.generation < b.generations[h.index]
                           \/ h.generation = b.generations[h.index] /\ b.alive[h.index]
      BY <2>2 DEF Behind
    <3>1. CASE h = new
      BY <1>1, <2>2, <2>6, <2>7, <3>1
    <3>2. CASE h \in handles
      <4>1. /\ h.index \in 1 .. n /\ h.generation \in Nat
            /\ \/ h.generation < a.generations[h.index]
               \/ h.generation = a.generations[h.index] /\ a.alive[h.index]
        BY <3>2 DEF Behind
      <4>2. h.index \in 1 .. n + 1
        BY <1>1, <4>1
      <4> QED BY <2>2, <2>6, <4>1, <4>2
    <3> QED BY <3>1, <3>2
  <2>10. Within(b, most)
    <3> SUFFICES ASSUME NEW k \in 1 .. n + 1 PROVE b.generations[k] <= most
      BY <2>2 DEF Within
    <3>1. k \in 1 .. n \/ k = n + 1
      BY <1>1
    <3> QED BY <2>2, <3>1 DEF Within
  <2> QED BY <2>1, <2>8, <2>9, <2>10 DEF b, new
<1> QED BY <1>2, <1>3

(* An entity dies: its slot's generation moves on.                         *)
OneDied(a, b, i) ==
  /\ Len(b.generations) = Len(a.generations)
  /\ ~b.alive[i] /\ b.generations[i] = (a.generations[i] + 1) % GenMod
  /\ \A k \in 1 .. Len(a.generations) :
       k # i => b.alive[k] = a.alive[k] /\ b.generations[k] = a.generations[k]

LEMMA FreeSound ==
  ASSUME NEW a, AllocatorSound(a), NEW e \in Entities(a)
  PROVE  /\ IsAlive(a, e) /\ e.index \in 1 .. Len(a.generations) /\ a.alive[e.index]
         /\ AllocatorSound(Free(a, e)) /\ (NoneLost(a) => NoneLost(Free(a, e)))
         /\ Entities(Free(a, e)) \subseteq Entities(a)
         /\ OneDied(a, Free(a, e), e.index)
<1> DEFINE n == Len(a.generations)
           b == Free(a, e)
           i == e.index
<1>1. /\ SlotsTyped(a) /\ IsAllocator(a) /\ n \in Nat /\ a.generations \in Seq(Nat)
      /\ a.free \in Seq(Nat)
      /\ a.alive \in Seq(BOOLEAN) /\ Len(a.alive) = n /\ a.live \in Nat
  BY DEF AllocatorSound, SlotsTyped
<1>2. i \in 1 .. n /\ a.alive[i] /\ e = Entity(i, a.generations[i])
  BY <1>1, EntitySlots, EntityFields
<1>3. IsAlive(a, e)
  BY <1>2, EntityFields DEF IsAlive, SlotLive, SlotCount
<1>4. a.generations[i] \in Nat
  BY <1>1, <1>2
<1> DEFINE g == (a.generations[i] + 1) % GenMod
<1>8. g \in Nat /\ g < GenMod
  BY <1>4, EntityAllocatorAssumption
<1>6. b = [generations |-> [a.generations EXCEPT ![i] = g],
           alive |-> [a.alive EXCEPT ![i] = FALSE],
           free |-> Append(a.free, i), live |-> a.live - 1]
  BY <1>1, <1>3 DEF Free, IsAllocator
<1>7. /\ b.generations = [a.generations EXCEPT ![i] = g]
      /\ b.alive = [a.alive EXCEPT ![i] = FALSE]
      /\ b.free = Append(a.free, i) /\ b.live = a.live - 1
  BY <1>6
<1> HIDE DEF b, g
<1>9. /\ b.generations \in Seq(Nat) /\ Len(b.generations) = n /\ b.generations[i] = g
      /\ \A k \in 1 .. n : k # i => b.generations[k] = a.generations[k]
  BY <1>1, <1>2, <1>7, <1>8
<1>10. ~b.alive[i] /\ \A k \in 1 .. n : k # i => b.alive[k] = a.alive[k]
  BY <1>1, <1>2, <1>7
<1>11. /\ Len(b.free) = Len(a.free) + 1 /\ b.free[Len(a.free) + 1] = i
       /\ \A k \in 1 .. Len(a.free) : b.free[k] = a.free[k]
       /\ b.free \in Seq(Nat)
  BY <1>1, <1>2, <1>7
<1>12. Entities(b) = Entities(a) \ {e}
  <2>0. IsAllocator(b) /\ b.alive \in Seq(BOOLEAN) /\ Len(b.alive) = n
    BY <1>1, <1>2, <1>6, <1>7 DEF IsAllocator
  <2>1. \A x : x \in Entities(b) <=> \E k \in 1 .. n : b.alive[k] /\ x = Entity(k, b.generations[k])
    BY <1>9 DEF Entities, EntityAt, SlotCount
  <2>2. \A x : x \in Entities(a) <=> \E k \in 1 .. n : a.alive[k] /\ x = Entity(k, a.generations[k])
    BY <1>1, EntitySlots
  <2>3. ASSUME NEW x \in Entities(b) PROVE x \in Entities(a) /\ x # e
    <3>1. PICK k \in 1 .. n : b.alive[k] /\ x = Entity(k, b.generations[k])
      BY <2>1
    <3>2. k # i
      BY <1>10, <3>1
    <3>3. x.index = k /\ e.index = i
      BY <3>1, EntityFields
    <3> QED BY <1>9, <1>10, <2>2, <3>1, <3>2, <3>3
  <2>4. ASSUME NEW x \in Entities(a), x # e PROVE x \in Entities(b)
    <3>1. PICK k \in 1 .. n : a.alive[k] /\ x = Entity(k, a.generations[k])
      BY <2>2
    <3>2. k # i
      BY <1>2, <2>4, <3>1
    <3> QED BY <1>9, <1>10, <2>1, <3>1, <3>2
  <2> QED BY <2>3, <2>4
<1>13. /\ IsFiniteSet(Entities(b)) /\ Cardinality(Entities(b)) = a.live - 1
       /\ a.live - 1 \in Nat
  <2>1. IsFiniteSet(Entities(a)) /\ a.live = Cardinality(Entities(a))
    BY DEF AllocatorSound, Accounted
  <2>2. IsFiniteSet(Entities(b)) /\ Cardinality(Entities(b)) = Cardinality(Entities(a)) - 1
    BY <1>12, <2>1, OneLess
  <2>3. Cardinality(Entities(b)) \in Nat
    BY <2>2, FS_CardinalityType
  <2>4. Len(a.free) \in Nat
    BY <1>1
  <2> QED BY <1>1, <1>11, <2>1, <2>2, <2>3, <2>4
<1>14. SlotsTyped(b)
  <2>1. b.alive \in Seq(BOOLEAN) /\ Len(b.alive) = n
    BY <1>1, <1>2, <1>7
  <2>2. IsAllocator(b)
    BY <1>6 DEF IsAllocator
  <2> QED BY <1>7, <1>9, <1>11, <1>13, <2>1, <2>2 DEF SlotsTyped
<1>15. Accounted(b)
  BY <1>7, <1>9, <1>13 DEF Accounted
<1>16. \A k \in 1 .. Len(b.free) : k \in 1 .. Len(a.free) \/ k = Len(a.free) + 1
  BY <1>1, <1>11
<1>17. FreeInRange(b)
  BY <1>2, <1>9, <1>11, <1>16 DEF AllocatorSound, FreeInRange
<1>18. FreeAreDead(b)
  <2>1. \A k \in 1 .. Len(a.free) : a.free[k] \in 1 .. n /\ ~a.alive[a.free[k]] /\ a.free[k] # i
    BY <1>2 DEF AllocatorSound, FreeInRange, FreeAreDead, SlotLive, SlotCount
  <2>2. \A k \in 1 .. Len(b.free) : ~b.alive[b.free[k]]
    BY <1>10, <1>11, <1>16, <2>1
  <2>3. \A j, k \in 1 .. Len(a.free) : j # k => a.free[j] # a.free[k]
    BY DEF AllocatorSound, FreeAreDead
  <2>4. \A j, k \in 1 .. Len(b.free) : j # k => b.free[j] # b.free[k]
    BY <1>11, <1>16, <2>1, <2>3
  <2> QED BY <2>2, <2>4 DEF FreeAreDead, SlotLive
<1>20. GenerationsInRange(b)
  <2>1. GenerationsInRange(a)
    BY DEF AllocatorSound
  <2> QED BY <1>8, <1>9, <2>1 DEF GenerationsInRange
<1>21. AllocatorSound(b)
  BY <1>14, <1>15, <1>17, <1>18, <1>20 DEF AllocatorSound
<1>22. OneDied(a, b, i)
  BY <1>9, <1>10 DEF OneDied, g
<1>23. NoneLost(a) => NoneLost(b)
  <2>1. /\ Len(b.free) = Len(a.free) + 1 /\ b.live = a.live - 1
        /\ Len(b.generations) = Len(a.generations) /\ a.live \in Nat /\ Len(a.free) \in Nat
    BY <1>1, <1>7, <1>9, <1>11
  <2> QED BY ONLY <2>1 DEF NoneLost
<1> QED BY <1>2, <1>3, <1>12, <1>21, <1>22, <1>23 DEF b

LEMMA FreeKeepsBehind ==
  ASSUME NEW a, AllocatorSound(a), NEW handles, Behind(a, handles),
         NEW most \in Nat, Within(a, most), most + 1 < GenMod,
         NEW i \in 1 .. Len(a.generations), NEW b, OneDied(a, b, i)
  PROVE  Within(b, most + 1) /\ Behind(b, handles)
<1> DEFINE n == Len(a.generations)
<1>1. /\ a.generations[i] \in Nat /\ a.generations[i] <= most /\ GenMod \in Nat \ {0}
      /\ Len(b.generations) = n
  BY EntityAllocatorAssumption DEF AllocatorSound, SlotsTyped, Within, OneDied
<1>2. b.generations[i] = a.generations[i] + 1
  <2>1. (a.generations[i] + 1) % GenMod = a.generations[i] + 1
    BY <1>1
  <2> QED BY <2>1 DEF OneDied
<1>3. \A k \in 1 .. n : k # i => b.alive[k] = a.alive[k] /\ b.generations[k] = a.generations[k]
  BY DEF OneDied
<1>4. Within(b, most + 1)
  <2> SUFFICES ASSUME NEW k \in 1 .. n PROVE b.generations[k] <= most + 1
    BY <1>1 DEF Within
  <2>1. a.generations[k] \in Nat /\ a.generations[k] <= most
    BY DEF AllocatorSound, SlotsTyped, Within
  <2> QED BY <1>1, <1>2, <1>3, <2>1
<1>5. Behind(b, handles)
  <2> SUFFICES ASSUME NEW h \in handles
               PROVE  /\ h.index \in 1 .. n /\ h.generation \in Nat
                      /\ \/ h.generation < b.generations[h.index]
                         \/ h.generation = b.generations[h.index] /\ b.alive[h.index]
    BY <1>1 DEF Behind
  <2>1. /\ h.index \in 1 .. n /\ h.generation \in Nat
        /\ \/ h.generation < a.generations[h.index]
           \/ h.generation = a.generations[h.index] /\ a.alive[h.index]
    BY DEF Behind
  <2>2. CASE h.index = i
    BY <1>1, <1>2, <2>1, <2>2
  <2>3. CASE h.index # i
    BY <1>3, <2>1, <2>3
  <2> QED BY <2>2, <2>3
<1> QED BY <1>4, <1>5

(***************************************************************************)
(* The columns.                                                            *)
(***************************************************************************)
CellClean(cell, alive) == IF cell.present THEN alive ELSE cell.data = Zeroed

IsWorld(w) == w = [tick |-> w.tick, entities |-> w.entities, columns |-> w.columns]

WorldSound(w) ==
  /\ IsWorld(w) /\ w.tick \in Nat
  /\ AllocatorSound(w.entities)
  /\ w.columns \in [Components -> Column]
  /\ \A c \in Components : ColumnClean(w.columns[c], w.entities)

LEMMA AbsentCell ==
  Zeroed \in [Fields -> Values] /\ Absent \in Cell /\ ~Absent.present /\ Absent.data = Zeroed
BY WorldAssumption DEF Zeroed, Absent, Cell

LEMMA ColumnFacts ==
  ASSUME NEW w, WorldSound(w), NEW c \in Components
  PROVE  /\ w.columns[c] \in Seq(Cell) /\ Len(w.columns[c]) = Len(w.entities.generations)
         /\ Len(w.entities.generations) \in Nat /\ ColumnClean(w.columns[c], w.entities)
<1>1. w.columns[c] \in Seq(Cell) /\ DOMAIN w.columns[c] = 1 .. Len(w.entities.generations)
  BY DEF WorldSound, ColumnClean, SlotCount, Column
<1>2. Len(w.entities.generations) \in Nat
  BY DEF WorldSound, AllocatorSound, SlotsTyped
<1>3. Len(w.columns[c]) = Len(w.entities.generations)
  BY <1>1, <1>2
<1> QED BY <1>1, <1>2, <1>3 DEF WorldSound

(* A cell is overwritten.                                                  *)
LEMMA CellWritten ==
  ASSUME NEW a, NEW column \in Seq(Cell), ColumnClean(column, a),
         NEW i \in 1 .. Len(a.generations), Len(a.generations) = Len(column),
         NEW cell \in Cell, CellClean(cell, a.alive[i])
  PROVE  [column EXCEPT ![i] = cell] \in Seq(Cell) /\ ColumnClean([column EXCEPT ![i] = cell], a)
<1> DEFINE new == [column EXCEPT ![i] = cell]
<1>1. /\ new \in Seq(Cell) /\ DOMAIN new = DOMAIN column /\ i \in DOMAIN column /\ new[i] = cell
      /\ \A k \in DOMAIN column : k # i => new[k] = column[k]
  OBVIOUS
<1> HIDE DEF new
<1>2. ColumnClean(new, a)
  BY <1>1 DEF ColumnClean, CellClean
<1> QED BY <1>1, <1>2 DEF new

LEMMA OneColumn ==
  ASSUME NEW w, WorldSound(w), NEW c \in Components,
         NEW column \in Seq(Cell), ColumnClean(column, w.entities),
         NEW u, u = [w EXCEPT !.columns = [@ EXCEPT ![c] = column]]
  PROVE  WorldSound(u) /\ u.entities = w.entities /\ u.tick = w.tick
<1>1. /\ u.tick = w.tick /\ u.entities = w.entities /\ u.columns = [w.columns EXCEPT ![c] = column]
      /\ IsWorld(u)
  BY DEF WorldSound, IsWorld
<1>2. u.columns \in [Components -> Column] /\ u.columns[c] = column
      /\ \A d \in Components : d # c => u.columns[d] = w.columns[d]
  BY <1>1 DEF WorldSound, Column
<1>3. \A d \in Components : ColumnClean(u.columns[d], u.entities)
  BY <1>1, <1>2 DEF WorldSound
<1> QED BY <1>1, <1>2, <1>3 DEF WorldSound

LEMMA EntityInside ==
  ASSUME NEW w, WorldSound(w), NEW e \in Entities(w.entities)
  PROVE  e.index \in 1 .. Len(w.entities.generations) /\ w.entities.alive[e.index]
BY FreeSound DEF WorldSound

LEMMA InsertSound ==
  ASSUME NEW w, WorldSound(w), NEW e \in Entities(w.entities), NEW c \in Components
  PROVE  /\ WorldSound(Insert(w, e, c)) /\ Insert(w, e, c).entities = w.entities
         /\ Insert(w, e, c).tick = w.tick /\ Insert(w, e, c).columns[c][e.index].present
<1> DEFINE column == w.columns[c]
           i == e.index
           cell == [present |-> TRUE, data |-> Zeroed]
           new == IF column[i].present THEN column ELSE [column EXCEPT ![i] = cell]
<1>1. /\ column \in Seq(Cell) /\ Len(column) = Len(w.entities.generations)
      /\ Len(column) \in Nat /\ ColumnClean(column, w.entities)
  BY ColumnFacts
<1>2. i \in 1 .. Len(w.entities.generations) /\ w.entities.alive[i]
  BY EntityInside
<1>3. EnsureSlots(column, i) = column
  BY <1>1, <1>2 DEF EnsureSlots
<1>4. Insert(w, e, c) = [w EXCEPT !.columns = [@ EXCEPT ![c] = new]]
  BY <1>3 DEF Insert
<1>5. cell \in Cell /\ CellClean(cell, w.entities.alive[i]) /\ cell.present
  BY <1>2, AbsentCell DEF Cell, CellClean
<1> HIDE DEF column, i, cell
<1>6. new \in Seq(Cell) /\ ColumnClean(new, w.entities)
  BY <1>1, <1>2, <1>5, CellWritten
<1>7. new[i].present
  BY <1>1, <1>2, <1>5
<1> HIDE DEF new
<1> DEFINE u == Insert(w, e, c)
<1>9. u = [w EXCEPT !.columns = [@ EXCEPT ![c] = new]]
  BY <1>4
<1> HIDE DEF u
<1>8. WorldSound(u) /\ u.entities = w.entities /\ u.tick = w.tick
  BY <1>6, <1>9, OneColumn
<1>10. u.columns[c] = new
  BY <1>9 DEF WorldSound, IsWorld
<1> QED BY <1>7, <1>8, <1>10 DEF i, u

LEMMA SetFieldSound ==
  ASSUME NEW w, WorldSound(w), NEW e \in Entities(w.entities), NEW c \in Components,
         NEW f \in Fields, NEW v \in Values
  PROVE  /\ WorldSound(SetField(w, e, c, f, v)) /\ SetField(w, e, c, f, v).entities = w.entities
         /\ SetField(w, e, c, f, v).tick = w.tick
<1> DEFINE u == Insert(w, e, c)
           column == u.columns[c]
           i == e.index
           cell == [column[i] EXCEPT !.data = [@ EXCEPT ![f] = v]]
           new == [column EXCEPT ![i] = cell]
<1>1. WorldSound(u) /\ u.entities = w.entities /\ u.tick = w.tick /\ column[i].present
  BY InsertSound
<1>0. SetField(w, e, c, f, v) = [u EXCEPT !.columns = [@ EXCEPT ![c] = new]]
  BY DEF SetField
<1> HIDE DEF u
<1>2. /\ column \in Seq(Cell) /\ Len(column) = Len(u.entities.generations)
      /\ ColumnClean(column, u.entities)
  BY <1>1, ColumnFacts
<1>3. i \in 1 .. Len(u.entities.generations) /\ u.entities.alive[i]
  BY <1>1, EntityInside
<1>4. column[i] \in Cell
  BY <1>2, <1>3
<1> HIDE DEF column, i
<1>5. cell \in Cell /\ cell.present /\ CellClean(cell, u.entities.alive[i])
  BY <1>1, <1>3, <1>4 DEF Cell, CellClean
<1> HIDE DEF cell
<1>6. new \in Seq(Cell) /\ ColumnClean(new, u.entities)
  BY <1>2, <1>3, <1>5, CellWritten
<1> HIDE DEF new
<1> QED BY <1>0, <1>1, <1>6, OneColumn

LEMMA RemoveSound ==
  ASSUME NEW w, WorldSound(w), NEW e \in Entities(w.entities), NEW c \in Components
  PROVE  /\ WorldSound(RemoveComponent(w, e, c)) /\ RemoveComponent(w, e, c).entities = w.entities
         /\ RemoveComponent(w, e, c).tick = w.tick
<1>1. CASE ~Has(w, e, c)
  BY <1>1 DEF RemoveComponent
<1>2. CASE Has(w, e, c)
  <2> DEFINE column == w.columns[c]
             new == [column EXCEPT ![e.index] = Absent]
  <2>1. RemoveComponent(w, e, c) = [w EXCEPT !.columns = [@ EXCEPT ![c] = new]]
    BY <1>2 DEF RemoveComponent
  <2>2. /\ column \in Seq(Cell) /\ Len(column) = Len(w.entities.generations)
        /\ ColumnClean(column, w.entities)
    BY ColumnFacts
  <2>3. e.index \in 1 .. Len(w.entities.generations)
    BY EntityInside
  <2>4. Absent \in Cell /\ CellClean(Absent, w.entities.alive[e.index])
    BY AbsentCell DEF CellClean
  <2> HIDE DEF column
  <2>5. new \in Seq(Cell) /\ ColumnClean(new, w.entities)
    BY <2>2, <2>3, <2>4, CellWritten
  <2> HIDE DEF new
  <2> QED BY <2>1, <2>5, OneColumn
<1> QED BY <1>1, <1>2

(* The columns grow with the allocator; what was there stays.              *)
Grown(column, m, n) == [k \in 1 .. n |-> IF k <= m THEN column[k] ELSE Absent]

LEMMA GrownSound ==
  ASSUME NEW w, WorldSound(w), NEW b, AllocatorSound(b), OneBorn(w.entities, b),
         NEW u, u = GrowToFit([w EXCEPT !.entities = b])
  PROVE  /\ WorldSound(u) /\ u.entities = b /\ u.tick = w.tick
         /\ \A c \in Components :
              u.columns[c] = Grown(w.columns[c], Len(w.entities.generations), Len(b.generations))
<1> DEFINE a == w.entities
           m == Len(a.generations)
           n == Len(b.generations)
           columns == [c \in Components |-> EnsureSlots(w.columns[c], n)]
<1>1. IsWorld(w) /\ w.tick \in Nat /\ w.columns \in [Components -> Column]
  BY DEF WorldSound
<1>2. u = [tick |-> w.tick, entities |-> b, columns |-> columns]
  <2> DEFINE x == [tick |-> w.tick, entities |-> b, columns |-> w.columns]
  <2>1. [w EXCEPT !.entities = b] = x
    BY <1>1 DEF IsWorld
  <2>2. u = GrowToFit(x)
    BY <2>1
  <2>3. GrowToFit(x) = [tick |-> w.tick, entities |-> b, columns |-> columns]
    BY DEF GrowToFit, SlotCount
  <2> QED BY <2>2, <2>3
<1>3. n \in Nat /\ m <= n /\ \A k \in 1 .. m : a.alive[k] => b.alive[k]
  BY DEF OneBorn
<1>4. ASSUME NEW c \in Components
      PROVE  /\ EnsureSlots(w.columns[c], n) \in Seq(Cell)
             /\ ColumnClean(EnsureSlots(w.columns[c], n), b)
             /\ EnsureSlots(w.columns[c], n) = Grown(w.columns[c], m, n)
  <2> DEFINE column == w.columns[c]
             new == EnsureSlots(column, n)
  <2>1. column \in Seq(Cell) /\ Len(column) = m /\ m \in Nat /\ ColumnClean(column, a)
    BY <1>4, ColumnFacts
  <2>2. n \in Nat /\ m <= n
    BY <1>3
  <2> HIDE DEF column, n, m
  <2>3. new = Grown(column, m, n)
    <3>1. CASE m < n
      BY <2>1, <3>1 DEF EnsureSlots, Resized, Grown
    <3>2. CASE m = n
      BY <2>1, <2>2, <3>2 DEF EnsureSlots, Grown
    <3> QED BY <2>1, <2>2, <3>1, <3>2
  <2>4. \A k \in 1 .. n : (k <= m => k \in 1 .. m /\ column[k] \in Cell)
                           /\ (IF k <= m THEN column[k] ELSE Absent) \in Cell
    BY <2>1, AbsentCell
  <2> HIDE DEF new
  <2>5. new \in Seq(Cell) /\ DOMAIN new = 1 .. n
    BY <2>2, <2>3, <2>4 DEF Grown
  <2>6. ASSUME NEW k \in 1 .. n PROVE CellClean(new[k], b.alive[k])
    <3>1. CASE k <= m
      <4>1. k \in 1 .. m /\ new[k] = column[k] /\ k \in DOMAIN column
        BY <2>1, <2>3, <2>4, <3>1 DEF Grown
      <4>2. IF column[k].present THEN a.alive[k] ELSE column[k].data = Zeroed
        BY <2>1, <4>1 DEF ColumnClean
      <4> QED BY <1>3, <4>1, <4>2 DEF CellClean, m
    <3>2. CASE ~(k <= m)
      <4>1. new[k] = Absent
        BY <2>3, <3>2 DEF Grown
      <4> QED BY <4>1, AbsentCell DEF CellClean
    <3> QED BY <3>1, <3>2
  <2>7. ColumnClean(new, b)
    BY <2>5, <2>6 DEF ColumnClean, CellClean, SlotCount, n
  <2> QED BY <2>3, <2>5, <2>7 DEF new, column, m, n
<1>5. columns \in [Components -> Column] /\ \A c \in Components : ColumnClean(columns[c], b)
  BY <1>4 DEF Column
<1>6. \A c \in Components : columns[c] = Grown(w.columns[c], m, n)
  BY <1>4
<1> HIDE DEF columns
<1>7. u.tick = w.tick /\ u.entities = b /\ u.columns = columns /\ IsWorld(u)
  BY <1>2 DEF IsWorld
<1>8. WorldSound(u)
  BY <1>1, <1>5, <1>7 DEF WorldSound
<1> QED BY <1>6, <1>7, <1>8

LEMMA SpawnSound ==
  ASSUME NEW w, WorldSound(w)
  PROVE  WorldSound(Spawn(w)) /\ Spawn(w).entities = Alloc(w.entities) /\ Spawn(w).tick = w.tick
<1> DEFINE b == Alloc(w.entities)
           u == Spawn(w)
<1>1. AllocatorSound(b) /\ OneBorn(w.entities, b)
  BY AllocClean DEF WorldSound
<1>2. u = GrowToFit([w EXCEPT !.entities = b])
  BY DEF Spawn
<1> HIDE DEF b, u
<1>3. WorldSound(u) /\ u.entities = b /\ u.tick = w.tick
  BY <1>1, <1>2, GrownSound
<1> QED BY <1>3 DEF u, b

LEMMA DespawnSound ==
  ASSUME NEW w, WorldSound(w), NEW e \in Entities(w.entities)
  PROVE  /\ WorldSound(Despawn(w, e)) /\ Despawn(w, e).entities = Free(w.entities, e)
         /\ Despawn(w, e).tick = w.tick
<1> DEFINE a == w.entities
           b == Free(a, e)
           i == e.index
           Cleared(column) == IF i <= Len(column) THEN [column EXCEPT ![i] = Absent] ELSE column
           columns == [c \in Components |-> Cleared(w.columns[c])]
           u == Despawn(w, e)
<1>1. /\ IsAlive(a, e) /\ i \in 1 .. Len(a.generations)
      /\ AllocatorSound(b) /\ OneDied(a, b, i)
      /\ IsWorld(w) /\ w.tick \in Nat /\ w.columns \in [Components -> Column]
  BY FreeSound DEF WorldSound
<1>2. u = [tick |-> w.tick, entities |-> b, columns |-> columns]
  BY <1>1 DEF Despawn, IsWorld
<1> HIDE DEF b, u
<1>3. ASSUME NEW c \in Components
      PROVE  Cleared(w.columns[c]) \in Seq(Cell) /\ ColumnClean(Cleared(w.columns[c]), b)
  <2> DEFINE column == w.columns[c]
             new == [column EXCEPT ![i] = Absent]
  <2>1. /\ column \in Seq(Cell) /\ Len(column) = Len(a.generations)
        /\ Len(a.generations) \in Nat /\ ColumnClean(column, a)
    BY <1>3, ColumnFacts
  <2> HIDE DEF column
  <2>2. Cleared(column) = new
    BY <1>1, <2>1
  <2>3. /\ new \in Seq(Cell) /\ DOMAIN new = DOMAIN column /\ new[i] = Absent
        /\ \A k \in DOMAIN column : k # i => new[k] = column[k]
        /\ DOMAIN column = 1 .. Len(a.generations)
    BY <1>1, <2>1, AbsentCell
  <2> HIDE DEF new
  <2>4. ASSUME NEW k \in DOMAIN new PROVE CellClean(new[k], b.alive[k])
    <3>1. CASE k = i
      BY <2>3, <3>1, AbsentCell DEF CellClean
    <3>2. CASE k # i
      <4>1. new[k] = column[k] /\ b.alive[k] = a.alive[k] /\ k \in DOMAIN column
        BY <1>1, <2>3, <2>4, <3>2 DEF OneDied
      <4>2. IF column[k].present THEN a.alive[k] ELSE column[k].data = Zeroed
        BY <2>1, <4>1 DEF ColumnClean
      <4> QED BY <4>1, <4>2 DEF CellClean
    <3> QED BY <3>1, <3>2
  <2>5. DOMAIN new = 1 .. SlotCount(b)
    BY <1>1, <2>3 DEF OneDied, SlotCount
  <2>6. ColumnClean(new, b)
    BY <2>4, <2>5 DEF ColumnClean, CellClean
  <2> QED BY <2>2, <2>3, <2>6 DEF column
<1>4. columns \in [Components -> Column] /\ \A c \in Components : ColumnClean(columns[c], b)
  BY <1>3 DEF Column
<1> HIDE DEF columns
<1>5. u.tick = w.tick /\ u.entities = b /\ u.columns = columns /\ IsWorld(u)
  BY <1>2 DEF IsWorld
<1>6. WorldSound(u)
  BY <1>1, <1>4, <1>5 DEF WorldSound
<1> QED BY <1>5, <1>6 DEF u, b

(***************************************************************************)
(* The authority.                                                          *)
(***************************************************************************)
LEMMA NothingSound == ASSUME NEW t \in Nat, NEW w, w = [NoWorld EXCEPT !.tick = t]
  PROVE  /\ WorldSound(w) /\ NoneLost(w.entities) /\ w.tick = t
         /\ w.entities.generations = <<>> /\ w.columns = NoWorld.columns
<1> DEFINE a == NoEntities
<1>2. /\ a.generations = <<>> /\ a.alive = <<>> /\ a.free = <<>> /\ a.live = 0
      /\ IsAllocator(a)
  BY DEF NoEntities, IsAllocator
<1> HIDE DEF a
<1>3. Entities(a) = {}
  BY <1>2 DEF Entities, SlotCount
<1>4. Accounted(a)
  BY <1>2, <1>3, FS_EmptySet DEF Accounted
<1>5. SlotsTyped(a) /\ FreeInRange(a) /\ FreeAreDead(a)
  BY <1>2 DEF SlotsTyped, FreeInRange, FreeAreDead
<1>6. AllocatorSound(a)
  BY <1>2, <1>4, <1>5 DEF AllocatorSound, GenerationsInRange
<1>7. /\ w.entities = a /\ w.tick = t /\ IsWorld(w)
      /\ w.columns = [c \in Components |-> <<>>] /\ NoWorld.columns = w.columns
  BY DEF NoWorld, IsWorld, a
<1>8. w.columns \in [Components -> Column]
      /\ \A c \in Components : ColumnClean(w.columns[c], w.entities)
  <2> DEFINE none == <<>>
  <2>1. none \in Column /\ DOMAIN none = {} /\ Len(w.entities.generations) = 0 /\ 1 .. 0 = {}
    BY <1>2, <1>7 DEF Column
  <2>2. w.columns = [c \in Components |-> none]
    BY <1>7
  <2> HIDE DEF none
  <2> QED BY ONLY <2>1, <2>2 DEF ColumnClean, SlotCount
<1>9. NoneLost(a)
  BY <1>2 DEF NoneLost
<1> QED BY <1>2, <1>6, <1>7, <1>8, <1>9 DEF WorldSound

LEMMA AuthorityInit ==
  Init => WorldSound(server) /\ NoneLost(server.entities) /\ Behind(server.entities, handed)
<1> SUFFICES ASSUME Init
             PROVE  WorldSound(server) /\ NoneLost(server.entities) /\ Behind(server.entities, handed)
  OBVIOUS
<1>1. server = NoWorld /\ handed = {}
  BY DEF Init
<1>2. server = [NoWorld EXCEPT !.tick = 0]
  BY <1>1 DEF NoWorld
<1>3. WorldSound(server) /\ NoneLost(server.entities)
  BY <1>2, NothingSound
<1> QED BY <1>1, <1>3 DEF Behind

LEMMA AuthorityStep ==
  ASSUME WorldSound(server), [Next]_vars
  PROVE  /\ WorldSound(server')
         /\ NoneLost(server.entities) => NoneLost(server'.entities)
<1> DEFINE Good == /\ WorldSound(server')
                   /\ NoneLost(server.entities) => NoneLost(server'.entities)
<1>0. AllocatorSound(server.entities)
  BY DEF WorldSound
<1>1. CASE SpawnEntity
  BY <1>0, <1>1, SpawnSound, AllocClean DEF SpawnEntity, Simulate
<1>2. ASSUME NEW e \in Entities(server.entities), DespawnEntity(e) PROVE Good
  BY <1>0, <1>2, DespawnSound, FreeSound DEF DespawnEntity, Simulate
<1>3. ASSUME NEW e \in Entities(server.entities), NEW c \in Components, InsertEmpty(e, c)
      PROVE  Good
  BY <1>3, InsertSound DEF InsertEmpty, Simulate
<1>4. ASSUME NEW e \in Entities(server.entities), NEW c \in Components, Drop(e, c)
      PROVE  Good
  BY <1>4, RemoveSound DEF Drop, Simulate
<1>5. ASSUME NEW e \in Entities(server.entities), NEW c \in Components,
             NEW f \in Fields, NEW v \in NewValues, Write(e, c, f, v)
      PROVE  Good
  <2>1. v \in Values
    BY ReplicationAssumption
  <2> QED BY <1>5, <2>1, SetFieldSound DEF Write, Simulate
<1>6. CASE EndTick
  <2> DEFINE w == [server EXCEPT !.tick = @ + 1]
  <2>1. /\ w = [tick |-> server.tick + 1, entities |-> server.entities, columns |-> server.columns]
        /\ server.tick \in Nat
    BY DEF WorldSound, IsWorld
  <2>2. server' = w
    BY <1>6 DEF EndTick
  <2> HIDE DEF w
  <2>3. w.tick \in Nat /\ w.entities = server.entities /\ w.columns = server.columns /\ IsWorld(w)
    BY <2>1 DEF IsWorld
  <2> QED BY <2>2, <2>3 DEF WorldSound
<1>7. CASE UNCHANGED server
  BY <1>7
<1>8. ASSUME NEW d \in deltas, ReceiveDelta(d) PROVE UNCHANGED server
  BY <1>8 DEF ReceiveDelta
<1>9. ASSUME NEW t \in acks, ReceiveAck(t) PROVE UNCHANGED server
  BY <1>9 DEF ReceiveAck
<1>10. CASE UNCHANGED vars
  BY <1>7, <1>10 DEF vars
<1> QED BY <1>1, <1>2, <1>3, <1>4, <1>5, <1>6, <1>7, <1>8, <1>9, <1>10 DEF Next

CInv == WorldSound(server) /\ NoneLost(server.entities)

(* Nothing of a dead entity is left in the authority's world, whatever was *)
(* spawned, despawned and written in which order (world.rs:259-262), and   *)
(* every slot is counted as live or waits to be used again, once           *)
(* (entity.rs:60-64).                                                      *)
THEOREM AuthorityStaysClean == Spec => []AuthorityIsClean
<1>1. CInv => AuthorityIsClean
  BY DEF CInv, WorldSound, AllocatorSound, Accounted, NoneLost, AuthorityIsClean, Clean, SlotCount
<1>2. Init => CInv
  BY AuthorityInit DEF CInv
<1>3. CInv /\ [Next]_vars => CInv'
  BY AuthorityStep DEF CInv
<1> QED BY <1>1, <1>2, <1>3, PTL DEF Spec

(***************************************************************************)
(* Handles.                                                                *)
(***************************************************************************)
(* No slot is vacated as often as there are generations, if at most m      *)
(* operations fit in a tick.                                               *)
NoWrap(m) == (\A t \in 1 .. MaxTick : MaxOps[t] <= m) /\ MaxTick * m < GenMod

HInv(m) ==
  /\ WorldSound(server)
  /\ ops \in 0 .. m
  /\ Behind(server.entities, handed)
  /\ Within(server.entities, server.tick * m + ops)

(* A new entity's handle is new.                                           *)
NewHandles == (Entities(server'.entities) \ Entities(server.entities)) \cap handed = {}

LEMMA Products ==
  ASSUME NEW m \in Nat, NEW t \in Nat, NEW T \in Nat, t < T
  PROVE  t * m \in Nat /\ (t + 1) * m = t * m + m /\ t * m + m <= T * m
<1>1. t * m \in Nat /\ (t + 1) * m = t * m + m
  OBVIOUS
<1>2. PICK d \in Nat : T = t + 1 + d
  <2>1. T - t - 1 \in Nat /\ T = t + 1 + (T - t - 1)
    OBVIOUS
  <2> QED BY <2>1
<1>3. T * m = (t + 1) * m + d * m /\ d * m \in Nat
  BY <1>2
<1> QED BY <1>1, <1>3

LEMMA WithinMore ==
  ASSUME NEW a, AllocatorSound(a), NEW k \in Nat, NEW l \in Nat, k <= l, Within(a, k)
  PROVE  Within(a, l)
<1>1. \A i \in 1 .. Len(a.generations) : a.generations[i] \in Nat
  BY DEF AllocatorSound, SlotsTyped
<1> QED BY <1>1 DEF Within

LEMMA HandlesStep ==
  ASSUME NEW m \in Nat, NoWrap(m), HInv(m), [Next]_vars PROVE HInv(m)' /\ NewHandles
<1> DEFINE a == server.entities
           t == server.tick
           most == t * m + ops
<1>1. WorldSound(server')
  BY AuthorityStep DEF HInv
<1>2. AllocatorSound(a) /\ t \in Nat /\ ops \in Nat /\ ops <= m /\ Behind(a, handed) /\ Within(a, most)
  BY DEF HInv, WorldSound
<1>3. most \in Nat
  <2>1. t * m \in Nat
    BY <1>2
  <2> QED BY <1>2, <2>1
(* Another operation fits in the tick.                                     *)
<1>4. ASSUME t < MaxTick, ops < MaxOps[t + 1]
      PROVE  ops + 1 \in 0 .. m /\ most + 1 < GenMod /\ most + 1 \in Nat /\ most + 1 = t * m + (ops + 1)
  <2>1. t + 1 \in 1 .. MaxTick /\ MaxTick \in Nat
    BY <1>2, <1>4, ReplicationAssumption
  <2>2. MaxOps[t + 1] \in Nat /\ MaxOps[t + 1] <= m
    BY <2>1, ReplicationAssumption DEF NoWrap
  <2>3. ops + 1 <= m
    BY <1>2, <1>4, <2>2
  <2> DEFINE p == t * m
             q == MaxTick * m
  <2>4. p \in Nat /\ p + m <= q
    BY <1>2, <1>4, <2>1, Products
  <2>5. q < GenMod /\ q \in Nat /\ GenMod \in Nat
    BY <2>1, EntityAllocatorAssumption DEF NoWrap
  <2> HIDE DEF p, q
  <2>6. ops + 1 \in 0 .. m /\ p + ops + 1 < GenMod /\ p + ops + 1 \in Nat
        /\ p + ops + 1 = p + (ops + 1)
    BY <1>2, <2>3, <2>4, <2>5
  <2> QED BY <2>6 DEF p
<1> HIDE DEF most
(* An operation that leaves the allocator alone.                           *)
<1>5. ASSUME server'.entities = a, server'.tick = t, ops' = ops + 1, handed' = handed,
             t < MaxTick, ops < MaxOps[t + 1]
      PROVE  HInv(m)' /\ NewHandles
  <2>1. Within(a, t * m + (ops + 1))
    BY <1>2, <1>3, <1>4, <1>5, WithinMore
  <2> QED BY <1>1, <1>2, <1>4, <1>5, <2>1 DEF HInv, NewHandles
<1>6. CASE SpawnEntity
  <2>1. /\ server'.entities = Alloc(a) /\ server'.tick = t /\ ops' = ops + 1
        /\ t < MaxTick /\ ops < MaxOps[t + 1]
        /\ handed' = handed \cup {Allocated(a)}
    BY <1>6, SpawnSound DEF HInv, SpawnEntity, Simulate
  <2>2. /\ AllocatorSound(Alloc(a)) /\ Within(Alloc(a), most)
        /\ Behind(Alloc(a), handed \cup {Allocated(a)})
        /\ Entities(Alloc(a)) = Entities(a) \cup {Allocated(a)}
        /\ Allocated(a) \notin handed
    BY <1>2, <1>3, AllocSound
  <2>3. Within(Alloc(a), t * m + (ops + 1))
    BY <1>3, <1>4, <2>1, <2>2, WithinMore
  <2>4. NewHandles
    BY <2>1, <2>2 DEF NewHandles
  <2> QED BY <1>1, <1>4, <2>1, <2>2, <2>3, <2>4 DEF HInv
<1>7. ASSUME NEW e \in Entities(a), DespawnEntity(e) PROVE HInv(m)' /\ NewHandles
  <2>1. /\ server'.entities = Free(a, e) /\ server'.tick = t /\ ops' = ops + 1
        /\ t < MaxTick /\ ops < MaxOps[t + 1] /\ handed' = handed
    BY <1>7, DespawnSound DEF HInv, DespawnEntity, Simulate
  <2>2. /\ e.index \in 1 .. Len(a.generations) /\ OneDied(a, Free(a, e), e.index)
        /\ Entities(Free(a, e)) \subseteq Entities(a)
    BY <1>2, FreeSound
  <2>3. Within(Free(a, e), most + 1) /\ Behind(Free(a, e), handed)
    BY <1>2, <1>3, <1>4, <2>1, <2>2, FreeKeepsBehind
  <2>4. NewHandles
    BY <2>1, <2>2 DEF NewHandles
  <2> QED BY <1>1, <1>4, <2>1, <2>3, <2>4 DEF HInv
<1>8. ASSUME NEW e \in Entities(a), NEW c \in Components, InsertEmpty(e, c)
      PROVE  HInv(m)' /\ NewHandles
  <2>1. /\ server'.entities = a /\ server'.tick = t /\ ops' = ops + 1 /\ handed' = handed
        /\ t < MaxTick /\ ops < MaxOps[t + 1]
    BY <1>8, InsertSound DEF HInv, InsertEmpty, Simulate
  <2> QED BY <1>5, <2>1
<1>9. ASSUME NEW e \in Entities(a), NEW c \in Components, Drop(e, c)
      PROVE  HInv(m)' /\ NewHandles
  <2>1. /\ server'.entities = a /\ server'.tick = t /\ ops' = ops + 1 /\ handed' = handed
        /\ t < MaxTick /\ ops < MaxOps[t + 1]
    BY <1>9, RemoveSound DEF HInv, Drop, Simulate
  <2> QED BY <1>5, <2>1
<1>10. ASSUME NEW e \in Entities(a), NEW c \in Components,
              NEW f \in Fields, NEW v \in NewValues, Write(e, c, f, v)
       PROVE  HInv(m)' /\ NewHandles
  <2>1. v \in Values
    BY ReplicationAssumption
  <2>2. /\ server'.entities = a /\ server'.tick = t /\ ops' = ops + 1 /\ handed' = handed
        /\ t < MaxTick /\ ops < MaxOps[t + 1]
    BY <1>10, <2>1, SetFieldSound DEF HInv, Write, Simulate
  <2> QED BY <1>5, <2>2
<1>11. CASE EndTick
  <2>1. server'.entities = a /\ server'.tick = t + 1
    <3>1. server = [tick |-> t, entities |-> a, columns |-> server.columns]
      BY DEF HInv, WorldSound, IsWorld
    <3>2. server' = [server EXCEPT !.tick = @ + 1]
      BY <1>11 DEF EndTick
    <3> QED BY <3>1, <3>2
  <2>2. ops' = 0 /\ handed' = handed /\ t < MaxTick
    BY <1>11 DEF EndTick
  <2>3. Within(a, (t + 1) * m + 0)
    <3> DEFINE p == t * m
               q == (t + 1) * m
    <3>1. p \in Nat /\ q = p + m
      BY <1>2, <2>2, Products, ReplicationAssumption
    <3>2. most = p + ops
      BY DEF most
    <3> HIDE DEF p, q
    <3>3. most <= q + 0 /\ q + 0 \in Nat
      BY <1>2, <3>1, <3>2
    <3>4. Within(a, q + 0)
      BY <1>2, <1>3, <3>3, WithinMore
    <3> QED BY <3>4 DEF q
  <2> QED BY <1>1, <1>2, <2>1, <2>2, <2>3 DEF HInv, NewHandles
<1>12. CASE UNCHANGED <<server, ops, handed>>
  BY <1>12 DEF HInv, NewHandles
<1>13. ASSUME NEW d \in deltas, ReceiveDelta(d) PROVE UNCHANGED <<server, ops, handed>>
  BY <1>13 DEF ReceiveDelta
<1>14. ASSUME NEW u \in acks, ReceiveAck(u) PROVE UNCHANGED <<server, ops, handed>>
  BY <1>14 DEF ReceiveAck
<1>15. CASE UNCHANGED vars
  BY <1>12, <1>15 DEF vars
<1> QED BY <1>6, <1>7, <1>8, <1>9, <1>10, <1>11, <1>12, <1>13, <1>14, <1>15 DEF Next

(* A handle, once given up, never names another entity: spawn returns none *)
(* twice (entity.rs:7-9), while generations do not wrap.                   *)
THEOREM HandlesNeverReturn ==
  ASSUME NEW m \in Nat, NoWrap(m) PROVE Spec => HandlesAreUnique
<1>1. Init => HInv(m)
  <2> SUFFICES ASSUME Init PROVE HInv(m)
    OBVIOUS
  <2>1. Len(server.entities.generations) = 0 /\ ops = 0
    BY DEF Init, NoWorld, NoEntities
  <2> QED BY <2>1, AuthorityInit DEF HInv, Within
<1>2. HInv(m) /\ [Next]_vars => HInv(m)' /\ NewHandles
  BY HandlesStep
<1>3. NewHandles => (Entities(server'.entities) \ Entities(server.entities)) \cap handed = {}
  BY DEF NewHandles
<1> QED BY <1>1, <1>2, <1>3, PTL DEF Spec, HandlesAreUnique


(***************************************************************************)
(* Snapshots.                                                              *)
(***************************************************************************)
(* A column has no slot that the allocator does not have, and a snapshot   *)
(* says all of a world but how many entities live.                         *)
LiveSlots(alive) == {i \in 1 .. Len(alive) : alive[i]}

LEMMA SlotsCounted ==
  ASSUME NEW a, SlotsTyped(a)
  PROVE  /\ IsFiniteSet(LiveSlots(a.alive)) /\ IsFiniteSet(Entities(a))
         /\ Cardinality(Entities(a)) = Cardinality(LiveSlots(a.alive))
<1> DEFINE n == Len(a.generations)
           L == LiveSlots(a.alive)
           F == [i \in L |-> EntityAt(a, i)]
<1>1. n \in Nat /\ Len(a.alive) = n
  BY DEF SlotsTyped
<1>2. L \in SUBSET (1 .. n) /\ L = {i \in 1 .. n : a.alive[i]}
  BY <1>1 DEF LiveSlots
<1>3. IsFiniteSet(1 .. n)
  <2>1. 1 \in Int /\ n \in Int
    BY <1>1
  <2> QED BY ONLY <2>1, FS_Interval
<1>4. IsFiniteSet(L)
  BY <1>2, <1>3, FS_Subset
<1>5. Entities(a) = {EntityAt(a, i) : i \in L}
  BY <1>2 DEF Entities, SlotCount
<1> HIDE DEF L
<1>6. \A i \in L : F[i] = EntityAt(a, i) /\ F[i].index = i
  BY DEF EntityAt, Entity
<1>7. F \in [L -> Entities(a)]
  BY <1>5
<1> HIDE DEF F
<1>8. \A x \in Entities(a) : \E i \in L : F[i] = x
  BY <1>5, <1>6
<1>9. \A i, j \in L : F[i] = F[j] => i = j
  BY <1>6
<1>10. F \in Bijection(L, Entities(a))
  BY <1>7, <1>8, <1>9, Fun_IsBij
<1>11. ExistsBijection(L, Entities(a))
  BY <1>10 DEF ExistsBijection
<1>12. IsFiniteSet(Entities(a)) /\ Cardinality(L) = Cardinality(Entities(a))
  BY <1>4, <1>11, FS_Bijection
<1> QED BY <1>4, <1>12 DEF L

LEMMA LiveSlotsCounted ==
  ASSUME NEW a, AllocatorSound(a)
  PROVE  Cardinality(LiveSlots(a.alive)) = a.live
BY SlotsCounted DEF AllocatorSound, Accounted

(* Restoring the snapshot of a world is the world.                         *)
LEMMA RestoredWorld ==
  ASSUME NEW h, WorldSound(h), NEW w PROVE Restore(w, Snapshot(h)) = h
<1> DEFINE a == h.entities
           s == Snapshot(h)
<1>1. /\ h = [tick |-> h.tick, entities |-> a, columns |-> h.columns]
      /\ a = [generations |-> a.generations, alive |-> a.alive, free |-> a.free, live |-> a.live]
  BY DEF WorldSound, IsWorld, AllocatorSound, SlotsTyped, IsAllocator
<1>2. Cardinality({i \in 1 .. Len(a.alive) : a.alive[i]}) = a.live
  BY LiveSlotsCounted DEF WorldSound, LiveSlots
<1>3. /\ s.tick = h.tick /\ s.generations = a.generations /\ s.alive = a.alive
      /\ s.free = a.free /\ s.columns = h.columns
  BY DEF Snapshot
<1> HIDE DEF a, s
<1> QED BY <1>1, <1>2, <1>3 DEF Restore, s

(***************************************************************************)
(* The past.                                                               *)
(***************************************************************************)
LEMMA NoSharedSlot ==
  ASSUME NEW R \in Nat, R > 0, NEW a \in Nat, NEW b \in Nat, b < a, a - b < R
  PROVE  a % R # b % R
<1> DEFINE d == (a \div R) - (b \div R)
<1>1. /\ a = R * (a \div R) + (a % R) /\ b = R * (b \div R) + (b % R)
      /\ a \div R \in Int /\ b \div R \in Int /\ a % R \in Int /\ b % R \in Int
  OBVIOUS
<1>2. R * d = R * (a \div R) - R * (b \div R) /\ d \in Int
  BY <1>1
<1> SUFFICES ASSUME a % R = b % R PROVE FALSE
  OBVIOUS
<1>3. R * d = a - b
  BY <1>1, <1>2
<1> HIDE DEF d
<1>4. d >= 1 => R * d >= R
  BY <1>2
<1>5. d <= 0 => R * d <= 0
  BY <1>2
<1> QED BY <1>2, <1>3, <1>4, <1>5

LEMMA SoundTypes ==
  ASSUME NEW w, WorldSound(w)
  PROVE  w \in WorldState /\ Snapshot(w) \in SnapshotState
<1> DEFINE a == w.entities
           s == Snapshot(w)
<1>1. /\ a \in [generations : Seq(Nat), alive : Seq(BOOLEAN), free : Seq(Nat), live : Nat]
      /\ GenerationsInRange(a) /\ FreeInRange(a)
  BY DEF WorldSound, AllocatorSound, SlotsTyped, IsAllocator
<1> DEFINE gs == a.generations
           fs == a.free
<1>2. gs \in Seq(Generations)
  <2>1. gs \in Seq(Nat) /\ \A i \in 1 .. Len(gs) : gs[i] < GenMod
    BY <1>1 DEF GenerationsInRange
  <2> HIDE DEF gs
  <2>2. \A i \in 1 .. Len(gs) : gs[i] \in Nat
    BY <2>1
  <2>3. \A i \in 1 .. Len(gs) : gs[i] \in Generations
    BY <2>1, <2>2, EntityAllocatorAssumption DEF Generations
  <2>4. gs = [i \in 1 .. Len(gs) |-> gs[i]] /\ Len(gs) \in Nat
    BY <2>1
  <2> QED BY <2>3, <2>4
<1>3. fs \in Seq(Nat \ {0})
  <2>1. fs \in Seq(Nat) /\ \A j \in 1 .. Len(fs) : fs[j] \in 1 .. Len(gs)
    BY <1>1 DEF FreeInRange
  <2> HIDE DEF fs, gs
  <2>2. \A j \in 1 .. Len(fs) : fs[j] \in Nat \ {0}
    BY <2>1
  <2>3. fs = [j \in 1 .. Len(fs) |-> fs[j]] /\ Len(fs) \in Nat
    BY <2>1
  <2> QED BY <2>2, <2>3
<1>4. w = [tick |-> w.tick, entities |-> a, columns |-> w.columns]
      /\ w.tick \in Nat /\ w.columns \in [Components -> Column]
  BY DEF WorldSound, IsWorld
<1>5. s = [tick |-> w.tick, generations |-> gs, alive |-> a.alive, free |-> fs, columns |-> w.columns]
  BY DEF Snapshot
<1>6. a = [generations |-> gs, alive |-> a.alive, free |-> fs, live |-> a.live]
      /\ a.alive \in Seq(BOOLEAN) /\ a.live \in Nat
  BY <1>1
<1> HIDE DEF a, gs, fs, s
<1>7. a \in Allocator
  BY <1>2, <1>3, <1>6 DEF Allocator
<1>8. s \in SnapshotState
  BY <1>2, <1>3, <1>4, <1>5, <1>6 DEF SnapshotState
<1>9. w \in WorldState
  BY <1>4, <1>7 DEF WorldState
<1> QED BY <1>8, <1>9 DEF s

(* The server's world at each tick.                                        *)
Chronicle ==
  /\ WorldSound(server)
  /\ history \in Seq(WorldState) /\ Len(history) = server.tick
  /\ \A t \in 1 .. server.tick : WorldSound(history[t]) /\ history[t].tick = t

(* The rewind buffer holds snapshots of those worlds, the latest of them.  *)
Recorded ==
  /\ \A s \in past : \E t \in 1 .. server.tick : s = Snapshot(history[t])
  /\ \A t \in 1 .. server.tick :
       t + HistoryCapacity > server.tick => Snapshot(history[t]) \in past

LEMMA Ticks ==
  ASSUME WorldSound(server), [Next]_vars
  PROVE  \/ EndTick
         \/ /\ server'.tick = server.tick
            /\ UNCHANGED <<past, sent, deltas, history>>
<1> DEFINE Same == server'.tick = server.tick /\ UNCHANGED <<past, sent, deltas, history>>
<1>1. CASE SpawnEntity
  BY <1>1, SpawnSound DEF SpawnEntity, Simulate, wireVars
<1>2. ASSUME NEW e \in Entities(server.entities), DespawnEntity(e) PROVE Same
  BY <1>2, DespawnSound DEF DespawnEntity, Simulate, wireVars
<1>3. ASSUME NEW e \in Entities(server.entities), NEW c \in Components, InsertEmpty(e, c)
      PROVE  Same
  BY <1>3, InsertSound DEF InsertEmpty, Simulate, wireVars
<1>4. ASSUME NEW e \in Entities(server.entities), NEW c \in Components, Drop(e, c)
      PROVE  Same
  BY <1>4, RemoveSound DEF Drop, Simulate, wireVars
<1>5. ASSUME NEW e \in Entities(server.entities), NEW c \in Components,
             NEW f \in Fields, NEW v \in NewValues, Write(e, c, f, v)
      PROVE  Same
  <2>1. v \in Values
    BY ReplicationAssumption
  <2> QED BY <1>5, <2>1, SetFieldSound DEF Write, Simulate, wireVars
<1>6. ASSUME NEW d \in deltas, ReceiveDelta(d) PROVE Same
  BY <1>6 DEF ReceiveDelta, wireVars
<1>7. ASSUME NEW t \in acks, ReceiveAck(t) PROVE Same
  BY <1>7 DEF ReceiveAck
<1>8. CASE UNCHANGED vars
  BY <1>8 DEF vars
<1> QED BY <1>1, <1>2, <1>3, <1>4, <1>5, <1>6, <1>7, <1>8 DEF Next

(* What the end of a tick does to the chronicle.                           *)
LEMMA ChronicleTick ==
  ASSUME Chronicle, EndTick
  PROVE  /\ Chronicle' /\ server'.tick = server.tick + 1 /\ server.tick \in Nat
         /\ history'[server.tick + 1] = server'
         /\ \A t \in 1 .. server.tick : history'[t] = history[t]
<1> DEFINE w == [server EXCEPT !.tick = @ + 1]
           n == server.tick
<1>1. /\ w = [tick |-> n + 1, entities |-> server.entities, columns |-> server.columns] /\ n \in Nat
  BY DEF Chronicle, WorldSound, IsWorld
<1>2. server' = w /\ history' = Append(history, w)
  BY DEF EndTick
<1> HIDE DEF w, n
<1>3. w.tick = n + 1 /\ w.entities = server.entities /\ w.columns = server.columns /\ IsWorld(w)
  BY <1>1 DEF IsWorld
<1>4. WorldSound(w)
  BY <1>1, <1>3 DEF Chronicle, WorldSound
<1>5. w \in WorldState
  BY <1>4, SoundTypes
<1>6. history \in Seq(WorldState) /\ n = Len(history)
  BY DEF Chronicle, n
<1>7. /\ history'[n + 1] = w /\ \A t \in 1 .. n : history'[t] = history[t]
  BY <1>2, <1>5, <1>6, AppendFacts
<1>8. history' \in Seq(WorldState) /\ Len(history') = n + 1
  BY <1>2, <1>5, <1>6
<1>9. ASSUME NEW t \in 1 .. n + 1 PROVE WorldSound(history'[t]) /\ history'[t].tick = t
  <2>1. CASE t = n + 1
    BY <1>3, <1>4, <1>7, <2>1
  <2>2. CASE t # n + 1
    <3>1. t \in 1 .. n
      BY <1>1, <2>2
    <3> QED BY <1>7, <3>1 DEF Chronicle, n
  <2> QED BY <2>1, <2>2
<1>10. server'.tick = n + 1
  BY <1>2, <1>3
<1>11. Chronicle'
  BY <1>2, <1>4, <1>8, <1>9, <1>10 DEF Chronicle
<1> QED BY <1>1, <1>2, <1>7, <1>10, <1>11 DEF n

LEMMA ChronicleStep == ASSUME Chronicle, [Next]_vars PROVE Chronicle'
<1>1. WorldSound(server) /\ WorldSound(server')
  BY AuthorityStep DEF Chronicle
<1>2. CASE EndTick
  BY <1>2, ChronicleTick
<1>3. CASE server'.tick = server.tick /\ UNCHANGED <<past, sent, deltas, history>>
  BY <1>1, <1>3 DEF Chronicle
<1> QED BY <1>1, <1>2, <1>3, Ticks

LEMMA RecordedStep == ASSUME Chronicle, Recorded, [Next]_vars PROVE Recorded'
<1>1. WorldSound(server)
  BY DEF Chronicle
<1>2. CASE EndTick
  <2> DEFINE n == server.tick
             R == HistoryCapacity
             new == Snapshot(server')
  <2>1. /\ n \in Nat /\ server'.tick = n + 1 /\ history'[n + 1] = server'
        /\ \A t \in 1 .. n : history'[t] = history[t]
    BY <1>2, ChronicleTick
  <2>2. R \in Nat /\ R > 0
    BY RewindAssumption DEF HistoryCapacity
  <2>3. past' = {s \in past : s.tick % R # new.tick % R} \cup {new}
    BY <1>2 DEF EndTick, Record, RingStore
  <2>4. new.tick = n + 1
    BY <2>1 DEF Snapshot
  <2> HIDE DEF new, n, R
  <2>5. n + 1 \in 1 .. n + 1 /\ \A t \in 1 .. n + 1 : t \in 1 .. n \/ t = n + 1
    BY <2>1
  <2>6. \A t \in 1 .. n : t \in 1 .. n + 1
    BY <2>1
  <2>7. ASSUME NEW s \in past' PROVE \E t \in 1 .. n + 1 : s = Snapshot(history'[t])
    <3>1. CASE s = new
      BY <2>1, <2>5, <3>1 DEF new
    <3>2. CASE s \in past
      <4>1. PICK t \in 1 .. n : s = Snapshot(history[t])
        BY <3>2 DEF Recorded, n
      <4> QED BY <2>1, <2>6, <4>1
    <3> QED BY <2>3, <2>7, <3>1, <3>2
  <2>8. ASSUME NEW t \in 1 .. n + 1, t + R > n + 1 PROVE Snapshot(history'[t]) \in past'
    <3>1. CASE t = n + 1
      BY <2>1, <2>3, <3>1 DEF new
    <3>2. CASE t \in 1 .. n
      <4>1. t + R > n
        BY <2>1, <2>2, <2>8, <3>2
      <4>2. Snapshot(history[t]) \in past /\ history[t].tick = t
        BY <3>2, <4>1 DEF Recorded, Chronicle, n, R
      <4>3. Snapshot(history[t]).tick = t
        BY <4>2 DEF Snapshot
      <4>4. t \in Nat /\ n + 1 \in Nat /\ t < n + 1 /\ (n + 1) - t < R
        BY <2>1, <2>2, <2>8, <3>2
      <4>5. t % R # (n + 1) % R
        BY <2>2, <4>4, NoSharedSlot
      <4> QED BY <2>1, <2>3, <2>4, <3>2, <4>2, <4>3, <4>5
    <3> QED BY <2>5, <3>1, <3>2
  <2> QED BY <2>1, <2>7, <2>8 DEF Recorded, R
<1>3. CASE server'.tick = server.tick /\ UNCHANGED <<past, sent, deltas, history>>
  BY <1>3 DEF Recorded
<1> QED BY <1>1, <1>2, <1>3, Ticks

LEMMA ChronicleInit == Init => Chronicle /\ Recorded
<1> SUFFICES ASSUME Init PROVE Chronicle /\ Recorded
  OBVIOUS
<1>1. WorldSound(server)
  BY AuthorityInit
<1>2. server.tick = 0 /\ history = <<>> /\ past = {}
  BY DEF Init, NoWorld
<1>3. history \in Seq(WorldState) /\ Len(history) = 0 /\ 1 .. 0 = {}
  BY <1>2
<1> QED BY <1>1, <1>2, <1>3 DEF Chronicle, Recorded

LEMMA RewindFaithful == ASSUME Chronicle, Recorded PROVE RewindShowsThePast
<1> DEFINE n == server.tick
<1>1. n \in Nat /\ WorldSound(server) /\ MaxRewind \in Nat
  BY RewindAssumption DEF Chronicle, WorldSound
<1> SUFFICES ASSUME NEW view \in 0 .. n + 1, NEW r, r = Rewind(server, past, view)
             PROVE  /\ r.world = server
                    /\ view < n - MaxRewind => r.outcome = "beyond cap"
                    /\ view \in 1 .. n /\ view >= n - MaxRewind
                         => r.outcome = "answered" /\ r.seen = history[view]
                    /\ view > n => r.seen = server
  BY DEF RewindShowsThePast
<1>2. CASE view < n - MaxRewind
  <2>1. r = [world |-> server, outcome |-> "beyond cap"]
    BY <1>2 DEF Rewind
  <2>2. r.world = server /\ r.outcome = "beyond cap"
    BY ONLY <2>1
  <2>3. view \in Int /\ ~(view >= n - MaxRewind) /\ ~(view > n)
    BY <1>1, <1>2
  <2> QED BY <2>2, <2>3
<1>3. CASE ~(view < n - MaxRewind) /\ view > n
  <2>1. r = [world |-> server, outcome |-> "answered", seen |-> server]
    BY <1>3 DEF Rewind
  <2> QED BY <1>1, <1>3, <2>1
<1>4. CASE ~(view < n - MaxRewind) /\ ~(view > n) /\ ~RingHas(past, view)
  <2>1. r = [world |-> server, outcome |-> "not recorded"]
    BY <1>4 DEF Rewind
  <2>2. view \notin 1 .. n
    <3> SUFFICES ASSUME view \in 1 .. n PROVE FALSE
      OBVIOUS
    <3>1. view + HistoryCapacity > n
      BY <1>1, <1>4 DEF HistoryCapacity
    <3>2. Snapshot(history[view]) \in past /\ history[view].tick = view
      BY <3>1 DEF Recorded, Chronicle
    <3> QED BY <1>4, <3>2 DEF RingHas, Snapshot
  <2>3. r.world = server
    BY ONLY <2>1
  <2> QED BY <1>4, <2>2, <2>3
<1>5. CASE ~(view < n - MaxRewind) /\ ~(view > n) /\ RingHas(past, view)
  <2> DEFINE then == Restore(server, RingGet(past, view))
  <2>1. r = [world |-> Restore(then, Snapshot(server)), outcome |-> "answered", seen |-> then]
    BY <1>5 DEF Rewind
  <2>2. r.world = server
    BY <1>1, <2>1, RestoredWorld
  <2>3. RingGet(past, view) \in past /\ RingGet(past, view).tick = view
    BY <1>5 DEF RingHas, RingGet
  <2>4. PICK t \in 1 .. n : RingGet(past, view) = Snapshot(history[t])
    BY <2>3 DEF Recorded
  <2>5. WorldSound(history[t]) /\ history[t].tick = t
    BY DEF Chronicle
  <2>6. t = view
    BY <2>3, <2>4, <2>5 DEF Snapshot
  <2>7. then = history[view]
    BY <2>4, <2>5, <2>6, RestoredWorld
  <2> HIDE DEF then
  <2>8. r.outcome = "answered" /\ r.seen = history[view]
    BY <2>1, <2>7
  <2> QED BY <1>1, <1>5, <2>2, <2>8
<1> QED BY <1>2, <1>3, <1>4, <1>5

(* A rewind leaves the present as it was, whatever its outcome             *)
(* (rewind.rs:168), is never refused within the cap once ticks are         *)
(* recorded, and shows that tick's world: for every cap.                   *)
THEOREM RewindIsFaithful == Spec => []RewindShowsThePast
<1> DEFINE Inv == Chronicle /\ Recorded
<1>1. Init => Inv
  BY ChronicleInit
<1>2. Inv /\ [Next]_vars => Inv'
  BY ChronicleStep, RecordedStep
<1>3. Inv => RewindShowsThePast
  BY RewindFaithful
<1> QED BY <1>1, <1>2, <1>3, PTL DEF Spec

(***************************************************************************)
(* Induction, on sets of numbers.                                          *)
(***************************************************************************)
LEMMA Induct ==
  ASSUME NEW S, 0 \in S, \A n \in Nat : n \in S => n + 1 \in S PROVE \A n \in Nat : n \in S
<1> DEFINE T == Nat \ S
<1> SUFFICES ASSUME T # {} PROVE FALSE
  OBVIOUS
<1>1. PICK m \in T : \A u \in T : ~ (<<u, m>> \in OpToRel(<, Nat))
  BY WFMin, NatLessThanWellFounded
<1>2. m \in Nat /\ m \notin S /\ m # 0
  OBVIOUS
<1>3. m - 1 \in Nat /\ m - 1 < m /\ m = (m - 1) + 1
  BY <1>2
<1>4. m - 1 \in T
  BY <1>2, <1>3
<1>5. <<m - 1, m>> \in OpToRel(<, Nat)
  BY <1>2, <1>3 DEF OpToRel
<1> QED BY <1>1, <1>4, <1>5

(* The greatest of a bounded set of numbers.                               *)
LEMMA MaxIn ==
  ASSUME NEW S \in SUBSET Nat, NEW n \in Nat, \A x \in S : x <= n, S # {}
  PROVE  Max(S) \in S /\ \A x \in S : x <= Max(S)
<1> DEFINE B == {b \in Nat : \A x \in S : x <= b}
<1>1. n \in B /\ B \in SUBSET Nat
  OBVIOUS
<1>2. PICK m \in B : \A b \in B : ~ (<<b, m>> \in OpToRel(<, Nat))
  BY <1>1, WFMin, NatLessThanWellFounded
<1>3. m \in Nat /\ \A x \in S : x <= m
  BY <1>2
<1>4. m \in S
  <2> SUFFICES ASSUME m \notin S PROVE FALSE
    OBVIOUS
  <2>1. \A x \in S : x <= m /\ x # m /\ x \in Nat
    BY <1>3
  <2>2. m # 0
    <3>1. PICK x \in S : TRUE
      OBVIOUS
    <3> QED BY <2>1, <3>1
  <2>3. m - 1 \in Nat /\ m - 1 < m
    BY <1>3, <2>2
  <2>4. \A x \in S : x <= m - 1
    BY <1>3, <2>1
  <2>5. m - 1 \in B
    BY <2>3, <2>4
  <2>6. <<m - 1, m>> \in OpToRel(<, Nat)
    BY <1>3, <2>3 DEF OpToRel
  <2> QED BY <1>2, <2>5, <2>6
<1>5. \E x \in S : \A y \in S : x >= y
  BY <1>3, <1>4
<1>6. Max(S) \in S /\ \A y \in S : Max(S) >= y
  BY <1>5 DEF Max
<1> QED BY <1>6

(***************************************************************************)
(* The allocator of the replica.                                           *)
(***************************************************************************)
(* What is kept of a list, in which no slot occurs twice, up to its k-th.  *)
KeptOf(free, x, q, k) ==
  /\ q \in Seq(Nat) /\ Distinct(q)
  /\ \A j \in 1 .. Len(q) : q[j] # x /\ \E l \in 1 .. k : q[j] = free[l]

KeepNext(free, x, q, k) == IF free[k] = x THEN q ELSE Append(q, free[k])

LEMMA KeepOne ==
  ASSUME NEW free \in Seq(Nat), Distinct(free), NEW x, NEW k \in Nat, k + 1 <= Len(free),
         NEW q, KeptOf(free, x, q, k)
  PROVE  KeptOf(free, x, KeepNext(free, x, q, k + 1), k + 1)
<1> DEFINE y == free[k + 1]
           r == KeepNext(free, x, q, k + 1)
<1>0. k + 1 \in 1 .. Len(free) /\ Len(free) \in Nat
      /\ \A l \in 1 .. k : l \in 1 .. k + 1 /\ l \in 1 .. Len(free) /\ l # k + 1
  OBVIOUS
<1>1. y \in Nat /\ \A l \in 1 .. k : free[l] # y
  BY <1>0 DEF Distinct
<1>2. CASE y = x
  <2>1. r = q
    BY <1>2 DEF KeepNext
  <2> QED BY <1>0, <2>1 DEF KeptOf
<1>3. CASE y # x
  <2> DEFINE m == Len(q)
  <2>1. r = Append(q, y) /\ q \in Seq(Nat)
    BY <1>3 DEF KeepNext, KeptOf
  <2> HIDE DEF y, r
  <2>2. /\ r \in Seq(Nat) /\ Len(r) = m + 1 /\ m \in Nat /\ r[m + 1] = y
        /\ \A j \in 1 .. m : r[j] = q[j]
    BY <1>1, <2>1
  <2>3. \A j \in 1 .. m : q[j] # x /\ \E l \in 1 .. k : q[j] = free[l]
    BY DEF KeptOf
  <2>4. \A j \in 1 .. m : q[j] # y
    BY <1>1, <2>3
  <2> HIDE DEF m
  <2>5. \A j \in 1 .. m + 1 : j \in 1 .. m \/ j = m + 1
    BY <2>2
  <2>6. ASSUME NEW j \in 1 .. m + 1
        PROVE  r[j] # x /\ \E l \in 1 .. k + 1 : r[j] = free[l]
    <3>1. CASE j = m + 1
      <4>1. r[j] = free[k + 1] /\ k + 1 \in 1 .. k + 1
        BY <2>2, <3>1 DEF y
      <4> QED BY <1>3, <2>2, <3>1, <4>1
    <3>2. CASE j \in 1 .. m
      <4>1. PICK l \in 1 .. k : q[j] = free[l]
        BY <2>3, <3>2
      <4> QED BY <1>0, <2>2, <2>3, <3>2, <4>1
    <3> QED BY <2>5, <3>1, <3>2
  <2>7. Distinct(r)
    <3>1. \A i, j \in 1 .. m : i # j => q[i] # q[j]
      BY DEF KeptOf, Distinct, m
    <3> QED BY <2>2, <2>4, <2>5, <3>1 DEF Distinct
  <2> QED BY <2>2, <2>6, <2>7 DEF KeptOf, r
<1> QED BY <1>2, <1>3

LEMMA WithoutFacts ==
  ASSUME NEW free \in Seq(Nat), Distinct(free), NEW x
  PROVE  KeptOf(free, x, Without(free, x), Len(free))
<1> DEFINE n == Len(free)
           Run(f, m) == f = [k \in 0 .. m |-> IF k = 0 THEN <<>> ELSE KeepNext(free, x, f[k - 1], k)]
           S == {m \in Nat : \E f : Run(f, m)}
<1>1. n \in Nat
  OBVIOUS
<1>2. 0 \in S
  <2> DEFINE f == [k \in 0 .. 0 |-> <<>>]
  <2>1. Run(f, 0)
    OBVIOUS
  <2> QED BY <2>1
<1>3. ASSUME NEW m \in Nat, m \in S PROVE m + 1 \in S
  <2>1. PICK f : Run(f, m)
    BY <1>3
  <2> DEFINE g == [k \in 0 .. m + 1 |-> IF k = m + 1 THEN KeepNext(free, x, f[m], m + 1) ELSE f[k]]
  <2>2. /\ g[m + 1] = KeepNext(free, x, f[m], m + 1)
        /\ \A k \in 0 .. m : g[k] = f[k]
        /\ f[0] = <<>> /\ \A k \in 1 .. m : f[k] = KeepNext(free, x, f[k - 1], k)
    <3>1. \A k \in 0 .. m : k \in 0 .. m + 1 /\ k # m + 1
      OBVIOUS
    <3>2. f[0] = <<>> /\ \A k \in 1 .. m : f[k] = KeepNext(free, x, f[k - 1], k)
      BY <2>1
    <3> QED BY <3>1, <3>2
  <2> DEFINE h == [k \in 0 .. m + 1 |-> IF k = 0 THEN <<>> ELSE KeepNext(free, x, g[k - 1], k)]
  <2>3. \A k \in 0 .. m + 1 : g[k] = h[k]
    <3> SUFFICES ASSUME NEW k \in 0 .. m + 1
                 PROVE  g[k] = IF k = 0 THEN <<>> ELSE KeepNext(free, x, g[k - 1], k)
      OBVIOUS
    <3>0. k = 0 \/ k = m + 1 \/ k \in 1 .. m
      OBVIOUS
    <3>1. CASE k = 0
      BY <2>2, <3>1
    <3>2. CASE k = m + 1
      <4>1. m \in 0 .. m /\ k - 1 = m /\ k # 0
        BY <3>2
      <4>2. g[k - 1] = f[m]
        BY <2>2, <4>1
      <4> HIDE DEF g
      <4> QED BY <2>2, <3>2, <4>1, <4>2
    <3>3. CASE k \in 1 .. m
      <4>1. k - 1 \in 0 .. m /\ k # 0 /\ k \in 0 .. m
        BY <3>3
      <4> HIDE DEF g
      <4> QED BY <2>2, <3>3, <4>1
    <3> QED BY <3>0, <3>1, <3>2, <3>3
  <2>4. g = h
    BY <2>3
  <2> HIDE DEF g
  <2>5. Run(g, m + 1)
    BY <2>4
  <2> QED BY <2>5
<1> DEFINE r == CHOOSE f : Run(f, n)
<1>4. Run(r, n)
  <2>1. n \in S
    <3> HIDE DEF S
    <3> QED BY <1>1, <1>2, <1>3, Induct
  <2> QED BY <2>1
<1>5. Without(free, x) = r[n]
  BY DEF Without, KeepNext
<1> HIDE DEF r
<1>6. r[0] = <<>> /\ \A k \in 1 .. n : r[k] = KeepNext(free, x, r[k - 1], k)
  <2>1. 0 \in 0 .. n /\ \A k \in 1 .. n : k \in 0 .. n /\ k # 0
    BY <1>1
  <2> QED BY <1>4, <2>1
<1> DEFINE K == {m \in Nat : m <= n => KeptOf(free, x, r[m], m)}
<1>7. 0 \in K
  <2> DEFINE q == <<>>
  <2>1. q \in Seq(Nat) /\ Len(q) = 0 /\ 1 .. 0 = {}
    OBVIOUS
  <2> HIDE DEF q
  <2>2. KeptOf(free, x, q, 0)
    BY <2>1 DEF KeptOf, Distinct
  <2>3. KeptOf(free, x, r[0], 0)
    BY <1>6, <2>2 DEF q
  <2> QED BY <2>3
<1>8. ASSUME NEW m \in Nat, m \in K PROVE m + 1 \in K
  <2> SUFFICES ASSUME m + 1 <= n PROVE KeptOf(free, x, r[m + 1], m + 1)
    OBVIOUS
  <2>1. KeptOf(free, x, r[m], m) /\ m + 1 \in 1 .. n /\ (m + 1) - 1 = m
    BY <1>1, <1>8
  <2>2. r[m + 1] = KeepNext(free, x, r[m], m + 1)
    BY <1>6, <2>1
  <2> QED BY <2>1, <2>2, KeepOne
<1>9. n \in K
  <2> HIDE DEF K
  <2> QED BY <1>1, <1>7, <1>8, Induct
<1> QED BY <1>1, <1>5, <1>9

(* A slot is taken, whatever was there; slots in between are left dead.    *)
Taken(a, b, i, g) ==
  /\ Len(b.generations) = (IF i > Len(a.generations) THEN i ELSE Len(a.generations))
  /\ b.alive[i] /\ b.generations[i] = g
  /\ \A k \in 1 .. Len(a.generations) :
       k # i => b.alive[k] = a.alive[k] /\ b.generations[k] = a.generations[k]
  /\ \A k \in Len(a.generations) + 1 .. Len(b.generations) : k # i => ~b.alive[k]

LEMMA AllocAtSound ==
  ASSUME NEW a, AllocatorSound(a), NEW i \in Nat \ {0}, NEW g \in Generations,
         NEW b, b = AllocAt(a, Entity(i, g))
  PROVE  AllocatorSound(b) /\ OneBorn(a, b) /\ Taken(a, b, i, g)
<1> DEFINE n == Len(a.generations)
           m == IF i > n THEN i ELSE n
           gens == [k \in 1 .. m |-> IF k = i THEN g ELSE IF k <= n THEN a.generations[k] ELSE 0]
           alive == [k \in 1 .. m |-> IF k = i THEN TRUE ELSE IF k <= n THEN a.alive[k] ELSE FALSE]
           was == IF i <= n THEN a.alive[i] ELSE FALSE
           kept == Without(a.free, i)
<1>1. /\ SlotsTyped(a) /\ n \in Nat /\ a.generations \in Seq(Nat) /\ a.alive \in Seq(BOOLEAN)
      /\ Len(a.alive) = n /\ a.live \in Nat /\ a.free \in Seq(Nat)
  BY DEF AllocatorSound, SlotsTyped
<1>2. m \in Nat /\ i \in 1 .. m /\ n <= m /\ (i <= n => m = n) /\ (i > n => m = i)
  BY <1>1
<1>3. g \in Nat /\ g < GenMod /\ 0 < GenMod
  BY EntityAllocatorAssumption DEF Generations
<1>4. /\ b.generations = gens /\ b.alive = alive /\ b.free = kept
      /\ b.live = (IF was THEN a.live ELSE a.live + 1) /\ IsAllocator(b)
  <2> DEFINE e == Entity(i, g)
             p == Resized(a.alive, m, FALSE)
             q == Resized(a.generations, m, 0)
  <2>1. e.index = i /\ e.generation = g
    BY EntityFields
  <2>2. b = [generations |-> [q EXCEPT ![i] = g], alive |-> [p EXCEPT ![i] = TRUE],
             free |-> kept, live |-> IF p[i] THEN a.live ELSE a.live + 1]
    BY <2>1 DEF AllocAt, SlotCount
  <2>3. p = [k \in 1 .. m |-> IF k <= n THEN a.alive[k] ELSE FALSE]
    BY <1>1 DEF Resized
  <2>4. q = [k \in 1 .. m |-> IF k <= n THEN a.generations[k] ELSE 0]
    BY DEF Resized
  <2> HIDE DEF kept, m, n
  <2>5. [q EXCEPT ![i] = g] = gens
    BY <2>4
  <2>6. [p EXCEPT ![i] = TRUE] = alive
    BY <2>3
  <2>7. p[i] = was
    BY <1>2, <2>3
  <2> HIDE DEF p, q, gens, alive, was
  <2>8. b = [generations |-> gens, alive |-> alive, free |-> kept,
             live |-> IF was THEN a.live ELSE a.live + 1]
    BY <2>2, <2>5, <2>6, <2>7
  <2> QED BY <2>8 DEF IsAllocator
<1>5. /\ gens \in Seq(Nat) /\ Len(gens) = m /\ gens[i] = g
      /\ \A k \in 1 .. n : k # i => gens[k] = a.generations[k]
      /\ \A k \in 1 .. m : gens[k] < GenMod
  <2>1. \A k \in 1 .. n : a.generations[k] \in Nat /\ a.generations[k] < GenMod
    BY <1>1 DEF AllocatorSound, GenerationsInRange
  <2>2. \A k \in 1 .. m : k <= n => k \in 1 .. n
    OBVIOUS
  <2>3. \A k \in 1 .. n : k \in 1 .. m /\ k <= n
    BY <1>1, <1>2
  <2> HIDE DEF m, n
  <2> DEFINE G(k) == IF k = i THEN g ELSE IF k <= n THEN a.generations[k] ELSE 0
  <2>4. \A k \in 1 .. m : G(k) \in Nat /\ G(k) < GenMod
    BY <1>3, <2>1, <2>2
  <2>5. gens = [k \in 1 .. m |-> G(k)] /\ G(i) = g
        /\ \A k \in 1 .. n : k # i => G(k) = a.generations[k]
    BY <2>3
  <2> HIDE DEF G, gens
  <2> QED BY <1>2, <2>3, <2>4, <2>5
<1>6. /\ alive \in Seq(BOOLEAN) /\ Len(alive) = m /\ alive[i]
      /\ \A k \in 1 .. n : k # i => alive[k] = a.alive[k]
      /\ \A k \in n + 1 .. m : k # i => ~alive[k]
  <2>1. \A k \in 1 .. n : a.alive[k] \in BOOLEAN
    BY <1>1
  <2>2. /\ \A k \in 1 .. m : k <= n => k \in 1 .. n
        /\ \A k \in 1 .. n : k \in 1 .. m /\ k <= n
        /\ \A k \in n + 1 .. m : k \in 1 .. m /\ ~(k <= n)
    BY <1>1, <1>2
  <2> HIDE DEF m, n
  <2>3. alive \in [1 .. m -> BOOLEAN]
    BY <2>1, <2>2
  <2>4. alive[i] /\ \A k \in 1 .. n : k # i => alive[k] = a.alive[k]
    BY <1>2, <2>2
  <2>5. \A k \in n + 1 .. m : k # i => ~alive[k]
    BY <2>2
  <2> HIDE DEF alive
  <2>6. alive \in Seq(BOOLEAN) /\ Len(alive) = m
    BY <1>2, <2>3
  <2> QED BY <2>4, <2>5, <2>6
<1>7. KeptOf(a.free, i, kept, Len(a.free))
  <2>1. Distinct(a.free)
    BY DEF AllocatorSound, FreeAreDead, Distinct
  <2> QED BY <1>1, <2>1, WithoutFacts
<1>8. a.live = Cardinality(LiveSlots(a.alive)) /\ IsFiniteSet(LiveSlots(a.alive))
  BY <1>1, SlotsCounted, LiveSlotsCounted
<1> HIDE DEF m, gens, alive, kept
<1>9. LiveSlots(alive) = LiveSlots(a.alive) \cup {i} /\ (i \in LiveSlots(a.alive) <=> was)
  <2>1. \A k : k \in LiveSlots(a.alive) <=> k \in 1 .. n /\ a.alive[k]
    BY <1>1 DEF LiveSlots
  <2>2. \A k : k \in LiveSlots(alive) <=> k \in 1 .. m /\ alive[k]
    BY <1>6 DEF LiveSlots
  <2>3. \A k : k \in 1 .. m <=> k \in 1 .. n \/ k \in n + 1 .. m
    BY <1>1, <1>2
  <2>4. i \in 1 .. n <=> i <= n
    BY <1>1
  <2> QED BY <1>2, <1>6, <2>1, <2>2, <2>3, <2>4
<1>10. SlotsTyped(b)
  <2>1. kept \in Seq(Nat)
    BY <1>7 DEF KeptOf
  <2>2. b.live \in Nat
    BY <1>1, <1>4
  <2> QED BY <1>4, <1>5, <1>6, <2>1, <2>2 DEF SlotsTyped
<1>11. Accounted(b)
  <2>1. /\ IsFiniteSet(Entities(b))
        /\ Cardinality(Entities(b)) = Cardinality(LiveSlots(b.alive))
    BY <1>10, SlotsCounted
  <2>2. CASE was
    <3>1. LiveSlots(b.alive) = LiveSlots(a.alive)
      BY <1>4, <1>9, <2>2
    <3> QED BY <1>4, <1>8, <2>1, <2>2, <3>1 DEF Accounted
  <2>3. CASE ~was
    <3>1. Cardinality(LiveSlots(alive)) = Cardinality(LiveSlots(a.alive)) + 1
      <4> DEFINE S == LiveSlots(a.alive)
                 T == LiveSlots(alive)
      <4>1. IsFiniteSet(S) /\ i \notin S /\ T = S \cup {i}
        BY <1>8, <1>9, <2>3
      <4> HIDE DEF S, T
      <4>2. Cardinality(T) = Cardinality(S) + 1
        BY <4>1, OneMore
      <4> QED BY <4>2 DEF S, T
    <3> QED BY <1>4, <1>8, <2>1, <2>3, <3>1 DEF Accounted
  <2> QED BY <2>2, <2>3
<1>12. \A j \in 1 .. Len(kept) : kept[j] # i /\ kept[j] \in 1 .. n /\ ~a.alive[kept[j]]
  <2> SUFFICES ASSUME NEW j \in 1 .. Len(kept)
               PROVE  kept[j] # i /\ kept[j] \in 1 .. n /\ ~a.alive[kept[j]]
    OBVIOUS
  <2>1. PICK l \in 1 .. Len(a.free) : kept[j] = a.free[l]
    BY <1>7 DEF KeptOf
  <2>2. a.free[l] \in 1 .. n /\ ~a.alive[a.free[l]]
    BY DEF AllocatorSound, FreeInRange, FreeAreDead, SlotLive, SlotCount
  <2> QED BY <1>7, <2>1, <2>2 DEF KeptOf
<1>13. FreeInRange(b)
  <2>1. \A k \in 1 .. n : k \in 1 .. m
    BY <1>1, <1>2
  <2> QED BY <1>4, <1>5, <1>12, <2>1 DEF FreeInRange
<1>14. FreeAreDead(b)
  <2>1. \A j \in 1 .. Len(kept) : ~b.alive[kept[j]]
    BY <1>4, <1>6, <1>12
  <2>2. \A j, k \in 1 .. Len(kept) : j # k => kept[j] # kept[k]
    BY <1>7 DEF KeptOf, Distinct
  <2> QED BY <1>4, <2>1, <2>2 DEF FreeAreDead, SlotLive
<1>15. AllocatorSound(b)
  BY <1>4, <1>5, <1>10, <1>11, <1>13, <1>14 DEF AllocatorSound, GenerationsInRange
<1>16. Taken(a, b, i, g)
  <2>1. Len(b.generations) = IF i > Len(a.generations) THEN i ELSE Len(a.generations)
    BY <1>4, <1>5 DEF m
  <2> QED BY <1>4, <1>5, <1>6, <2>1 DEF Taken
<1>17. OneBorn(a, b)
  <2>1. \A k \in 1 .. n : a.alive[k] => b.alive[k]
    BY <1>4, <1>6
  <2>2. Len(b.generations) = m
    BY <1>4, <1>5
  <2> QED BY <1>2, <2>1, <2>2 DEF OneBorn
<1> QED BY <1>15, <1>16, <1>17

(***************************************************************************)
(* Slot by slot.                                                           *)
(***************************************************************************)
(* Two worlds have the same in a slot: nothing, or an entity of the same   *)
(* generation with the same components.                                    *)
SameSlot(u, v, i) ==
  /\ SlotLive(u.entities, i) <=> SlotLive(v.entities, i)
  /\ SlotLive(u.entities, i) =>
       /\ u.entities.generations[i] = v.entities.generations[i]
       /\ \A c \in Components : u.columns[c][i] = v.columns[c][i]

Alike(u, v) == \A i \in Nat \ {0} : SameSlot(u, v, i)

(* Nothing but slot i has changed.                                         *)
OnlySlot(u, v, i) == \A j \in Nat \ {0} : j # i => SameSlot(u, v, j)

LEMMA SameSlotTrans ==
  ASSUME NEW u, NEW v, NEW w, NEW i, SameSlot(u, v, i), SameSlot(v, w, i)
  PROVE  SameSlot(u, w, i) /\ SameSlot(v, u, i)
BY DEF SameSlot

LEMMA SameSlotFlip ==
  ASSUME NEW u, NEW v, NEW i PROVE SameSlot(u, v, i) <=> SameSlot(v, u, i)
BY DEF SameSlot

LEMMA OnlySlotTrans ==
  ASSUME NEW u, NEW v, NEW w, NEW i, OnlySlot(u, v, i), OnlySlot(v, w, i)
  PROVE  OnlySlot(u, w, i)
BY SameSlotTrans DEF OnlySlot

(* The cells of a slot.                                                    *)
LEMMA CellFacts ==
  ASSUME NEW w, WorldSound(w), NEW c \in Components,
         NEW i \in 1 .. Len(w.entities.generations)
  PROVE  /\ w.columns[c][i] \in Cell
         /\ w.columns[c][i].present => w.entities.alive[i]
         /\ ~w.columns[c][i].present => w.columns[c][i] = Absent
<1> DEFINE column == w.columns[c]
           cell == column[i]
<1>1. /\ column \in Seq(Cell) /\ Len(column) = Len(w.entities.generations)
      /\ ColumnClean(column, w.entities)
  BY ColumnFacts
<1>2. cell \in Cell /\ i \in DOMAIN column
  BY <1>1
<1>3. IF cell.present THEN w.entities.alive[i] ELSE cell.data = Zeroed
  BY <1>1, <1>2 DEF ColumnClean
<1> HIDE DEF cell
<1>4. cell = [present |-> cell.present, data |-> cell.data] /\ cell.present \in BOOLEAN
  BY <1>2 DEF Cell
<1>5. ~cell.present => cell = Absent
  BY <1>3, <1>4 DEF Absent
<1> QED BY <1>2, <1>3, <1>5 DEF cell

LEMMA LiveEntity ==
  ASSUME NEW w, WorldSound(w), NEW i, SlotLive(w.entities, i), NEW e, e = EntityAt(w.entities, i)
  PROVE  /\ e \in Entities(w.entities) /\ e.index = i /\ e.generation = w.entities.generations[i]
         /\ i \in 1 .. Len(w.entities.generations) /\ w.entities.alive[i]
         /\ w.entities.generations[i] \in Generations
<1>1. i \in 1 .. Len(w.entities.generations) /\ w.entities.alive[i]
  BY DEF SlotLive, SlotCount
<1>2. e \in Entities(w.entities)
  BY <1>1 DEF Entities, SlotCount
<1>3. w.entities.generations[i] \in Nat /\ w.entities.generations[i] < GenMod
  BY <1>1 DEF WorldSound, AllocatorSound, SlotsTyped, GenerationsInRange
<1>4. w.entities.generations[i] \in Generations
  BY <1>3, EntityAllocatorAssumption DEF Generations
<1> QED BY <1>1, <1>2, <1>4, EntityFields DEF EntityAt

LEMMA DespawnSlot ==
  ASSUME NEW w, WorldSound(w), NEW i, SlotLive(w.entities, i),
         NEW u, u = Despawn(w, EntityAt(w.entities, i))
  PROVE  /\ WorldSound(u) /\ u.tick = w.tick
         /\ ~SlotLive(u.entities, i) /\ OnlySlot(u, w, i)
<1> DEFINE a == w.entities
           e == EntityAt(a, i)
           n == Len(a.generations)
           b == u.entities
<1>1. e \in Entities(a) /\ e.index = i /\ i \in 1 .. n /\ n \in Nat
  <2>1. n \in Nat
    BY DEF WorldSound, AllocatorSound, SlotsTyped
  <2> QED BY <2>1, LiveEntity
<1>2. WorldSound(u) /\ u.tick = w.tick /\ b = Free(a, e) /\ AllocatorSound(a)
  BY <1>1, DespawnSound DEF WorldSound
<1>3. OneDied(a, b, i) /\ IsAlive(a, e)
  BY <1>1, <1>2, FreeSound
<1>4. u.columns = [c \in Components |->
         IF i <= Len(w.columns[c]) THEN [w.columns[c] EXCEPT ![i] = Absent] ELSE w.columns[c]]
  BY <1>1, <1>3 DEF Despawn, WorldSound, IsWorld
<1>5. ~SlotLive(b, i)
  BY <1>3 DEF OneDied, SlotLive
<1>6. ASSUME NEW j \in Nat \ {0}, j # i PROVE SameSlot(u, w, j)
  <2>1. SlotLive(b, j) <=> SlotLive(a, j)
    BY <1>3, <1>6 DEF OneDied, SlotLive, SlotCount
  <2>2. ASSUME j \in 1 .. n PROVE b.generations[j] = a.generations[j]
    BY <1>3, <1>6, <2>2 DEF OneDied
  <2>3. ASSUME j \in 1 .. n, NEW c \in Components PROVE u.columns[c][j] = w.columns[c][j]
    <3> DEFINE column == w.columns[c]
    <3>1. column \in Seq(Cell) /\ Len(column) = n
      BY ColumnFacts
    <3>2. u.columns[c] = IF i <= Len(column) THEN [column EXCEPT ![i] = Absent] ELSE column
      BY <1>4
    <3> HIDE DEF column
    <3>3. u.columns[c][j] = column[j]
      BY <1>6, <2>3, <3>1, <3>2
    <3> QED BY <3>3 DEF column
  <2> QED BY <2>1, <2>2, <2>3 DEF SameSlot, SlotLive, SlotCount
<1> QED BY <1>2, <1>5, <1>6 DEF OnlySlot

LEMMA SpawnAtSlot ==
  ASSUME NEW w, WorldSound(w), NEW i \in Nat \ {0}, NEW g \in Generations,
         NEW e, e = Entity(i, g), NEW u, u = SpawnAt(w, e)
  PROVE  /\ WorldSound(u) /\ u.tick = w.tick /\ OnlySlot(u, w, i)
         /\ SlotLive(u.entities, i) /\ e = EntityAt(u.entities, i)
         /\ ~SlotLive(w.entities, i) => \A c \in Components : u.columns[c][i] = Absent
<1> DEFINE a == w.entities
           n == Len(a.generations)
           b == AllocAt(a, e)
           m == Len(b.generations)
<1>1. AllocatorSound(a) /\ n \in Nat
  BY DEF WorldSound, AllocatorSound, SlotsTyped
<1>2. AllocatorSound(b) /\ OneBorn(a, b) /\ Taken(a, b, i, g)
  BY <1>1, AllocAtSound
<1>3. u = GrowToFit([w EXCEPT !.entities = b])
  BY DEF SpawnAt
<1> HIDE DEF b
<1>4. /\ WorldSound(u) /\ u.entities = b /\ u.tick = w.tick
      /\ \A c \in Components : u.columns[c] = Grown(w.columns[c], n, m)
  BY <1>2, <1>3, GrownSound
<1>5. m = (IF i > n THEN i ELSE n) /\ i \in 1 .. m /\ m \in Nat /\ n <= m
  BY <1>1, <1>2 DEF Taken
<1>6. SlotLive(b, i) /\ e = EntityAt(b, i)
  BY <1>2, <1>5 DEF Taken, SlotLive, SlotCount, EntityAt
<1>7. ASSUME NEW j \in Nat \ {0}, j # i PROVE SameSlot(u, w, j)
  <2>1. CASE j \in 1 .. n
    <3>1. j \in 1 .. m /\ j <= n
      BY <1>1, <1>5, <2>1
    <3>2. b.alive[j] = a.alive[j] /\ b.generations[j] = a.generations[j]
      BY <1>2, <1>7, <2>1 DEF Taken
    <3>3. \A c \in Components : u.columns[c][j] = w.columns[c][j]
      BY <1>4, <3>1 DEF Grown
    <3> QED BY <1>4, <2>1, <3>1, <3>2, <3>3 DEF SameSlot, SlotLive, SlotCount
  <2>2. CASE j \notin 1 .. n
    <3>1. j \in 1 .. m => j \in n + 1 .. m
      BY <1>1, <1>5, <2>2
    <3>2. j \in 1 .. m => ~b.alive[j]
      BY <1>2, <1>7, <3>1 DEF Taken
    <3> QED BY <1>4, <2>2, <3>2 DEF SameSlot, SlotLive, SlotCount
  <2> QED BY <2>1, <2>2
<1>8. ASSUME ~SlotLive(a, i), NEW c \in Components PROVE u.columns[c][i] = Absent
  <2>1. u.columns[c][i] = IF i <= n THEN w.columns[c][i] ELSE Absent
    <3> DEFINE column == w.columns[c]
    <3>1. u.columns[c] = Grown(column, n, m) /\ i \in 1 .. m
      BY <1>4, <1>5, <1>8
    <3> HIDE DEF n, m, column
    <3>2. u.columns[c][i] = IF i <= n THEN column[i] ELSE Absent
      BY <3>1 DEF Grown
    <3> QED BY <3>2 DEF column
  <2>2. ASSUME i <= n PROVE w.columns[c][i] = Absent
    <3>1. i \in 1 .. n
      BY <1>1, <2>2
    <3>2. ~a.alive[i]
      BY <1>8, <3>1 DEF SlotLive, SlotCount
    <3> QED BY <3>1, <3>2, CellFacts
  <2> QED BY <2>1, <2>2
<1> QED BY <1>4, <1>6, <1>7, <1>8 DEF OnlySlot

(* What is written by an entry is of the fields' type.                     *)
Writes(dirty) ==
  /\ DOMAIN dirty \subseteq Components
  /\ \A c \in DOMAIN dirty : \A f \in DOMAIN dirty[c] : dirty[c][f] \in Values

(* A component carried is there, with the fields written; the others go.   *)
PatchedCell(cell, dirty, c) ==
  IF c \in DOMAIN dirty
  THEN [present |-> TRUE, data |-> Overlaid(cell.data, dirty[c])]
  ELSE Absent

LEMMA SameOverwritten ==
  ASSUME NEW q \in Seq(Cell), NEW i \in 1 .. Len(q), NEW x, q[i] = x
  PROVE  [q EXCEPT ![i] = x] = q
OBVIOUS

PutData(q, i, patch) == [q EXCEPT ![i].data = Overlaid(@, patch)]
PutCell(q, i, cell) == [q EXCEPT ![i] = cell]

LEMMA DataWritten ==
  ASSUME NEW q, NEW i, NEW patch, NEW v, NEW x, x = q[i], x = [present |-> v, data |-> x.data]
  PROVE  PutData(q, i, patch) = PutCell(q, i, [present |-> v, data |-> Overlaid(x.data, patch)])
<1> DEFINE d == Overlaid(q[i].data, patch)
           z == x.data
<1>1. PutData(q, i, patch) = [q EXCEPT ![i] = [q[i] EXCEPT !.data = d]]
  BY DEF PutData
<1>2. d = Overlaid(z, patch) /\ x = [present |-> v, data |-> z]
  OBVIOUS
<1> HIDE DEF d, z
<1>3. [x EXCEPT !.data = d] = [present |-> v, data |-> d]
  BY ONLY <1>2
<1>4. [q EXCEPT ![i] = [q[i] EXCEPT !.data = d]] = [q EXCEPT ![i] = [present |-> v, data |-> d]]
  BY <1>3
<1> QED BY <1>1, <1>2, <1>4 DEF z, PutCell

LEMMA PatchedColumn ==
  ASSUME NEW w, WorldSound(w), NEW i, SlotLive(w.entities, i), NEW e, e = EntityAt(w.entities, i),
         NEW dirty, Writes(dirty), NEW c \in Components
  PROVE  Patched(w, e, dirty).columns[c] =
           PutCell(w.columns[c], i, PatchedCell(w.columns[c][i], dirty, c))
<1> SUFFICES Patched(w, e, dirty).columns[c] =
               [w.columns[c] EXCEPT ![i] = PatchedCell(w.columns[c][i], dirty, c)]
  BY DEF PutCell
<1> DEFINE column == w.columns[c]
           cell == column[i]
           n == Len(w.entities.generations)
           u == Patched(w, e, dirty)
<1>1. /\ e.index = i /\ i \in 1 .. n /\ w.entities.alive[i]
      /\ e.generation = w.entities.generations[i]
  BY LiveEntity
<1>2. column \in Seq(Cell) /\ Len(column) = n /\ n \in Nat
  BY ColumnFacts
<1>3. cell \in Cell /\ (~cell.present => cell = Absent)
  BY <1>1, CellFacts
<1>4. CASE c \in DOMAIN dirty
  <2> DEFINE q == Insert(w, e, c).columns[c]
             blank == [present |-> TRUE, data |-> Zeroed]
             v == TRUE
             Put(d) == [present |-> v, data |-> Overlaid(d, dirty[c])]
  <2>1. u.columns[c] = PutData(q, i, dirty[c])
    BY <1>1, <1>4 DEF Patched, PutData, WorldSound, IsWorld
  <2>2. q = IF cell.present THEN column ELSE [column EXCEPT ![i] = blank]
    <3>1. EnsureSlots(column, i) = column
      BY <1>1, <1>2 DEF EnsureSlots
    <3>2. Insert(w, e, c) = [w EXCEPT !.columns[c] =
            IF column[i].present THEN column ELSE [column EXCEPT ![i] = blank]]
      BY <1>1, <3>1 DEF Insert
    <3> HIDE DEF column, blank
    <3> QED BY <3>2 DEF WorldSound, IsWorld
  <2>3. PatchedCell(cell, dirty, c) = Put(cell.data)
    BY <1>4 DEF PatchedCell
  <2> HIDE DEF u, q, n
  <2>5. CASE cell.present
    <3>1. q = column /\ q[i] = cell
      BY <2>2, <2>5
    <3>2. cell = [present |-> v, data |-> cell.data]
      <4> HIDE DEF cell
      <4> QED BY <1>3, <2>5 DEF Cell
    <3>3. u.columns[c] = PutCell(q, i, Put(cell.data))
      <4> HIDE DEF cell, v
      <4> QED BY <2>1, <3>1, <3>2, DataWritten
    <3> QED BY <2>3, <3>1, <3>3 DEF u, PutCell
  <2>6. CASE ~cell.present
    <3>1. q = [column EXCEPT ![i] = blank] /\ i \in DOMAIN column
      BY <1>1, <1>2, <2>2, <2>6
    <3>2. blank = q[i] /\ blank = [present |-> v, data |-> blank.data]
      BY <3>1
    <3>3. cell.data = blank.data
      BY <1>3, <2>6 DEF Absent
    <3>4. u.columns[c] = PutCell(q, i, Put(blank.data))
      <4>1. q[i] = blank
        BY <3>2
      <4>2. blank = [present |-> v, data |-> blank.data]
        BY <3>2
      <4> HIDE DEF blank, v, cell
      <4>3. PutData(q, i, dirty[c]) = PutCell(q, i, Put(blank.data))
        BY <4>1, <4>2, DataWritten
      <4> QED BY <2>1, <4>3
    <3>5. Put(blank.data) = Put(cell.data)
      BY <3>3
    <3> HIDE DEF Put, blank
    <3>6. PutCell(q, i, Put(cell.data)) = [column EXCEPT ![i] = Put(cell.data)]
      BY <3>1 DEF PutCell
    <3> QED BY <2>3, <3>4, <3>5, <3>6 DEF u
  <2> QED BY <2>5, <2>6
<1>5. CASE c \notin DOMAIN dirty
  <2>1. u.columns[c] = RemoveComponent(w, e, c).columns[c]
    BY <1>5 DEF Patched
  <2>2. PatchedCell(cell, dirty, c) = Absent
    BY <1>5 DEF PatchedCell
  <2>3. Has(w, e, c) <=> cell.present
    BY <1>1, <1>2 DEF Has, IsAlive, SlotLive, SlotCount
  <2>4. CASE cell.present
    <3>1. RemoveComponent(w, e, c) = [w EXCEPT !.columns = [@ EXCEPT ![c] = [column EXCEPT ![i] = Absent]]]
      BY <1>1, <2>3, <2>4 DEF RemoveComponent
    <3> HIDE DEF column
    <3>2. RemoveComponent(w, e, c).columns[c] = [column EXCEPT ![i] = Absent]
      BY <3>1 DEF WorldSound, IsWorld
    <3> QED BY <2>1, <2>2, <3>2 DEF column
  <2>5. CASE ~cell.present
    <3>1. RemoveComponent(w, e, c) = w
      BY <2>3, <2>5 DEF RemoveComponent
    <3>2. [column EXCEPT ![i] = Absent] = column
      BY <1>1, <1>2, <1>3, <2>5, SameOverwritten
    <3> QED BY <2>1, <2>2, <3>1, <3>2
  <2> QED BY <2>4, <2>5
<1> QED BY <1>4, <1>5

LEMMA PatchedSlot ==
  ASSUME NEW w, WorldSound(w), NEW i, SlotLive(w.entities, i), NEW e, e = EntityAt(w.entities, i),
         NEW dirty, Writes(dirty), NEW u, u = Patched(w, e, dirty)
  PROVE  /\ WorldSound(u) /\ u.tick = w.tick /\ u.entities = w.entities /\ OnlySlot(u, w, i)
         /\ \A c \in Components : u.columns[c][i] = PatchedCell(w.columns[c][i], dirty, c)
<1> DEFINE a == w.entities
           n == Len(a.generations)
<1>1. i \in 1 .. n /\ a.alive[i] /\ n \in Nat
  <2>1. n \in Nat
    BY DEF WorldSound, AllocatorSound, SlotsTyped
  <2> QED BY <2>1, LiveEntity
<1>2. /\ IsWorld(w) /\ w.tick \in Nat /\ AllocatorSound(a)
  BY DEF WorldSound
<1>3. ASSUME NEW c \in Components
      PROVE  u.columns[c] = [w.columns[c] EXCEPT ![i] = PatchedCell(w.columns[c][i], dirty, c)]
  <2>1. Patched(w, e, dirty).columns[c] =
          PutCell(w.columns[c], i, PatchedCell(w.columns[c][i], dirty, c))
    BY <1>3, PatchedColumn
  <2> QED BY <2>1 DEF PutCell
<1>4. /\ u.tick = w.tick /\ u.entities = a /\ IsWorld(u)
      /\ u.columns = [c \in Components |-> u.columns[c]]
  BY <1>2 DEF Patched, IsWorld
<1>5. ASSUME NEW c \in Components
      PROVE  /\ u.columns[c] \in Seq(Cell) /\ ColumnClean(u.columns[c], a)
             /\ u.columns[c][i] = PatchedCell(w.columns[c][i], dirty, c)
             /\ \A k \in 1 .. n : k # i => u.columns[c][k] = w.columns[c][k]
  <2> DEFINE column == w.columns[c]
             new == PatchedCell(column[i], dirty, c)
  <2>1. column \in Seq(Cell) /\ Len(column) = n /\ ColumnClean(column, a)
    BY <1>5, ColumnFacts
  <2>2. column[i] \in Cell
    BY <1>1, <2>1
  <2> HIDE DEF column
  <2>3. new \in Cell /\ CellClean(new, a.alive[i])
    <3>1. CASE c \in DOMAIN dirty
      <4> DEFINE data == Overlaid(column[i].data, dirty[c])
      <4>1. \A f \in Fields : column[i].data[f] \in Values
        BY <2>2 DEF Cell
      <4>2. \A f \in DOMAIN dirty[c] : dirty[c][f] \in Values
        BY <3>1 DEF Writes
      <4>3. data \in [Fields -> Values]
        BY <4>1, <4>2 DEF Overlaid
      <4>4. new = [present |-> TRUE, data |-> data]
        BY <3>1 DEF PatchedCell
      <4> HIDE DEF data
      <4> QED BY <1>1, <4>3, <4>4 DEF Cell, CellClean
    <3>2. CASE c \notin DOMAIN dirty
      <4>1. new = Absent
        BY <3>2 DEF PatchedCell
      <4> QED BY <4>1, AbsentCell DEF CellClean
    <3> QED BY <3>1, <3>2
  <2>4. u.columns[c] = [column EXCEPT ![i] = new]
    BY <1>3, <1>5 DEF column
  <2> HIDE DEF new
  <2>5. [column EXCEPT ![i] = new] \in Seq(Cell) /\ ColumnClean([column EXCEPT ![i] = new], a)
    BY <1>1, <2>1, <2>3, CellWritten
  <2>6. u.columns[c][i] = new /\ \A k \in 1 .. n : k # i => u.columns[c][k] = column[k]
    BY <1>1, <2>1, <2>4
  <2> QED BY <2>4, <2>5, <2>6 DEF column, new
<1>6. u.columns \in [Components -> Column] /\ \A c \in Components : ColumnClean(u.columns[c], a)
  BY <1>4, <1>5 DEF Column
<1>7. WorldSound(u)
  BY <1>2, <1>4, <1>6 DEF WorldSound
<1>8. OnlySlot(u, w, i)
  BY <1>4, <1>5 DEF OnlySlot, SameSlot, SlotLive, SlotCount
<1> QED BY <1>4, <1>5, <1>7, <1>8

(***************************************************************************)
(* What is sent.                                                           *)
(***************************************************************************)
(* A world as the receiver will hold it.                                   *)
SentWorld(w) == [w EXCEPT !.columns = AsSent(w).columns]
SentCell(w, c, i) ==
  IF w.columns[c][i].present THEN [present |-> TRUE, data |-> SentFields(w, i, c)] ELSE Absent

LEMMA SentType == ASSUME NEW f, NEW v \in Values PROVE Sent(f, v) \in Values
BY DeltaAssumption DEF Sent

LEMMA CarriedFacts ==
  ASSUME NEW w, WorldSound(w), NEW i \in 1 .. Len(w.entities.generations), NEW c \in Components
  PROVE  /\ c \in Carried(w, i) <=> w.columns[c][i].present
         /\ w.columns[c][i].present => SlotLive(w.entities, i)
         /\ SentFields(w, i, c) \in [Fields -> Values]
<1> DEFINE a == w.entities
           cell == w.columns[c][i]
<1>1. /\ Len(w.columns[c]) = Len(a.generations) /\ Len(a.generations) \in Nat
  BY ColumnFacts
<1>2. cell \in Cell /\ (cell.present => a.alive[i])
  BY CellFacts
<1>3. SlotLive(a, i) <=> a.alive[i]
  BY DEF SlotLive, SlotCount
<1>4. Has(w, Current(w, i), c) <=> cell.present
  <2>1. /\ EntityAt(a, i).index = i /\ EntityAt(a, i).generation = a.generations[i]
    BY EntityFields DEF EntityAt
  <2> QED BY <1>1, <1>2, <1>3, <2>1 DEF Has, Current, IsAlive
<1>5. SentFields(w, i, c) \in [Fields -> Values]
  <2>1. \A f \in Fields : cell.data[f] \in Values
    BY <1>2 DEF Cell
  <2> QED BY <2>1, SentType DEF SentFields
<1> QED BY <1>2, <1>3, <1>4, <1>5 DEF Carried

LEMMA SentWorldSound ==
  ASSUME NEW w, WorldSound(w), NEW g, g = SentWorld(w)
  PROVE  /\ WorldSound(g) /\ g.entities = w.entities /\ g.tick = w.tick
         /\ Snapshot(g) = AsSent(w)
         /\ \A c \in Components : \A i \in 1 .. Len(w.entities.generations) :
              g.columns[c][i] = SentCell(w, c, i)
<1> DEFINE a == w.entities
           n == Len(a.generations)
           columns == AsSent(w).columns
           Said(c, i) == IF SlotLive(a, i) /\ c \in Carried(w, i)
                         THEN [present |-> TRUE, data |-> SentFields(w, i, c)]
                         ELSE w.columns[c][i]
<1>1. IsWorld(w) /\ w.tick \in Nat /\ AllocatorSound(a) /\ w.columns \in [Components -> Column]
  BY DEF WorldSound
<1>2. /\ columns = [c \in Components |-> [i \in 1 .. Len(w.columns[c]) |-> Said(c, i)]]
      /\ AsSent(w) = [tick |-> w.tick, generations |-> a.generations, alive |-> a.alive,
                      free |-> a.free, columns |-> columns]
  <2> DEFINE s == Snapshot(w)
             x == [c \in Components |-> [i \in 1 .. Len(s.columns[c]) |->
                     IF SlotLive(a, i) /\ c \in Carried(w, i)
                     THEN [present |-> TRUE, data |-> SentFields(w, i, c)] ELSE s.columns[c][i]]]
             y == [c \in Components |-> [i \in 1 .. Len(w.columns[c]) |-> Said(c, i)]]
  <2>1. AsSent(w) = [s EXCEPT !.columns = x]
    BY DEF AsSent
  <2>2. s.columns = w.columns
    BY DEF Snapshot
  <2>3. x = y
    BY <2>2
  <2>4. s = [tick |-> w.tick, generations |-> a.generations, alive |-> a.alive,
             free |-> a.free, columns |-> w.columns]
    BY DEF Snapshot
  <2> HIDE DEF s, x, y
  <2>5. /\ columns = x
        /\ AsSent(w) = [tick |-> w.tick, generations |-> a.generations, alive |-> a.alive,
                        free |-> a.free, columns |-> x]
    BY <2>1, <2>4
  <2> QED BY <2>3, <2>5 DEF y
<1>3. \A c \in Components : Len(w.columns[c]) = n /\ n \in Nat
  BY ColumnFacts
<1>4. ASSUME NEW c \in Components, NEW i \in 1 .. n
      PROVE  /\ Said(c, i) = SentCell(w, c, i)
             /\ SentCell(w, c, i) \in Cell /\ CellClean(SentCell(w, c, i), a.alive[i])
  <2> DEFINE cell == w.columns[c][i]
  <2>1. /\ cell \in Cell /\ (cell.present => a.alive[i]) /\ (~cell.present => cell = Absent)
    BY <1>4, CellFacts
  <2>2. /\ c \in Carried(w, i) <=> cell.present
        /\ cell.present => SlotLive(a, i)
        /\ SentFields(w, i, c) \in [Fields -> Values]
    BY <1>4, CarriedFacts
  <2>3. CASE cell.present
    <3> DEFINE data == SentFields(w, i, c)
    <3>1. SentCell(w, c, i) = [present |-> TRUE, data |-> data] /\ data \in [Fields -> Values]
          /\ Said(c, i) = [present |-> TRUE, data |-> data] /\ a.alive[i]
      BY <2>1, <2>2, <2>3 DEF SentCell
    <3> HIDE DEF data, Said
    <3> QED BY <3>1 DEF Cell, CellClean
  <2>4. CASE ~cell.present
    <3>1. SentCell(w, c, i) = Absent /\ Said(c, i) = Absent
      BY <2>1, <2>2, <2>4 DEF SentCell
    <3> QED BY <3>1, AbsentCell DEF CellClean
  <2> QED BY <2>3, <2>4
<1> HIDE DEF Said
<1>5. ASSUME NEW c \in Components
      PROVE  /\ columns[c] \in Seq(Cell) /\ ColumnClean(columns[c], a)
             /\ \A i \in 1 .. n : columns[c][i] = SentCell(w, c, i)
  <2>1. columns[c] = [i \in 1 .. n |-> SentCell(w, c, i)]
    BY <1>2, <1>3, <1>4, <1>5
  <2> HIDE DEF columns
  <2>2. columns[c] \in Seq(Cell) /\ DOMAIN columns[c] = 1 .. n
        /\ \A i \in 1 .. n : columns[c][i] = SentCell(w, c, i)
    BY <1>3, <1>4, <1>5, <2>1
  <2>3. ColumnClean(columns[c], a)
    BY <1>4, <1>5, <2>2 DEF ColumnClean, CellClean, SlotCount
  <2> QED BY <2>2, <2>3
<1>6. columns \in [Components -> Column]
  BY <1>2, <1>5 DEF Column
<1>8. g = [w EXCEPT !.columns = columns]
  BY DEF SentWorld
<1> HIDE DEF columns
<1>9. g.tick = w.tick /\ g.entities = a /\ g.columns = columns /\ IsWorld(g)
  BY <1>1, <1>8 DEF IsWorld
<1>10. WorldSound(g)
  BY <1>1, <1>5, <1>6, <1>9 DEF WorldSound
<1>11. Snapshot(g) = AsSent(w)
  BY <1>2, <1>9 DEF Snapshot
<1> QED BY <1>5, <1>9, <1>10, <1>11

(* The baseline stands for a world: that of which it is a snapshot, or one *)
(* in which nothing lives.                                                 *)
StandsFor(b, v) ==
  \/ b = NONE /\ \A i \in Nat \ {0} : ~SlotLive(v.entities, i)
  \/ b = Snapshot(v)

LEMMA BaselineFacts ==
  ASSUME NEW v, WorldSound(v), NEW b, b = Snapshot(v)
  PROVE  /\ HasBaseline(b) /\ b.tick = v.tick
         /\ b.alive = v.entities.alive /\ b.generations = v.entities.generations
         /\ b.columns = v.columns /\ Len(b.alive) = Len(v.entities.generations)
<1>1. b \in SnapshotState
  BY SoundTypes
<1>2. HasBaseline(b)
  BY <1>1, DeltaAssumption DEF HasBaseline
<1>3. Len(v.entities.alive) = Len(v.entities.generations)
  BY DEF WorldSound, AllocatorSound, SlotsTyped
<1> QED BY <1>2, <1>3 DEF Snapshot

LEMMA SpawnIff ==
  ASSUME NEW h, WorldSound(h), NEW v, WorldSound(v), NEW b, StandsFor(b, v),
         NEW i, SlotLive(h.entities, i)
  PROVE  /\ IsSpawn(h, b, i) <=>
              ~(SlotLive(v.entities, i) /\ v.entities.generations[i] = h.entities.generations[i])
         /\ ~IsSpawn(h, b, i) => b = Snapshot(v)
<1>1. /\ Current(h, i).index = i /\ Current(h, i).generation = h.entities.generations[i]
      /\ i \in Nat \ {0}
  <2>1. i \in 1 .. Len(h.entities.generations)
    BY LiveEntity
  <2>2. Len(h.entities.generations) \in Nat
    BY DEF WorldSound, AllocatorSound, SlotsTyped
  <2> QED BY <2>1, <2>2, EntityFields DEF Current, EntityAt
<1>2. CASE b = NONE /\ \A j \in Nat \ {0} : ~SlotLive(v.entities, j)
  BY <1>1, <1>2 DEF IsSpawn, HasBaseline
<1>3. CASE b = Snapshot(v)
  <2>1. HasBaseline(b) /\ b.alive = v.entities.alive /\ b.generations = v.entities.generations
        /\ Len(b.alive) = Len(v.entities.generations)
    BY <1>3, BaselineFacts
  <2>2. WasLive(b, Current(h, i)) <=>
          SlotLive(v.entities, i) /\ v.entities.generations[i] = h.entities.generations[i]
    BY <1>1, <2>1 DEF WasLive, SlotLive, SlotCount
  <2> QED BY <1>3, <2>1, <2>2 DEF IsSpawn
<1> QED BY <1>2, <1>3 DEF StandsFor

(* A component of a slot is like the baseline's if and only if there is    *)
(* nothing to say of it.                                                   *)
LEMMA CellSaid ==
  ASSUME NEW h, WorldSound(h), NEW v, WorldSound(v), NEW b, StandsFor(b, v),
         NEW i, SlotLive(h.entities, i), ~IsSpawn(h, b, i), NEW c \in Components
  PROVE  /\ ColumnPresent(b, c, i) <=> v.columns[c][i].present
         /\ Dirty(h, b, i, c) =
              IF v.columns[c][i].present
              THEN {f \in Fields : v.columns[c][i].data[f] # SentFields(h, i, c)[f]} ELSE Fields
         /\ SentCell(h, c, i) = v.columns[c][i] <=>
              /\ ColumnPresent(b, c, i) <=> c \in Carried(h, i)
              /\ c \in Carried(h, i) => Dirty(h, b, i, c) = {}
<1> DEFINE old == v.columns[c][i]
           data == SentFields(h, i, c)
<1>1. /\ b = Snapshot(v) /\ SlotLive(v.entities, i)
  BY SpawnIff
<1>2. /\ b.columns = v.columns
  BY <1>1, BaselineFacts
<1>3. /\ i \in 1 .. Len(v.entities.generations) /\ i \in 1 .. Len(h.entities.generations)
  BY <1>1, LiveEntity
<1>4. Len(v.columns[c]) = Len(v.entities.generations) /\ Len(v.entities.generations) \in Nat
  BY ColumnFacts
<1>5. i <= Len(b.columns[c])
  BY <1>2, <1>3, <1>4
<1>6. (ColumnPresent(b, c, i) <=> old.present) /\ ColumnSlot(b, c, i) = old.data
  BY <1>2, <1>5 DEF ColumnPresent, ColumnSlot
<1>7. Dirty(h, b, i, c) = {f \in Fields : ~old.present \/ old.data[f] # data[f]}
  BY <1>6 DEF Dirty, IsNewComponent
<1>8. /\ old \in Cell /\ (~old.present => old = Absent)
  BY <1>3, CellFacts
<1>9. (c \in Carried(h, i) <=> h.columns[c][i].present) /\ data \in [Fields -> Values]
  BY <1>3, CarriedFacts
<1>10. old = [present |-> old.present, data |-> old.data] /\ old.present \in BOOLEAN
       /\ old.data \in [Fields -> Values]
  <2> HIDE DEF old
  <2> QED BY <1>8 DEF Cell
<1> HIDE DEF old, data
<1>11. Dirty(h, b, i, c) = IF old.present THEN {f \in Fields : old.data[f] # data[f]} ELSE Fields
  BY <1>7
<1>12. old.present => (Dirty(h, b, i, c) = {} <=> old.data = data)
  BY <1>9, <1>10, <1>11
<1>13. CASE h.columns[c][i].present
  <2>1. SentCell(h, c, i) = [present |-> TRUE, data |-> data]
    BY <1>13 DEF SentCell, data
  <2>2. CASE old.present
    <3>1. old = [present |-> TRUE, data |-> old.data]
      BY <1>10, <2>2
    <3>2. SentCell(h, c, i) = old <=> old.data = data
      BY <2>1, <3>1
    <3> QED BY <1>6, <1>9, <1>11, <1>12, <1>13, <2>2, <3>2 DEF old, data
  <2>3. CASE ~old.present
    <3>1. SentCell(h, c, i).present
      BY <2>1
    <3>2. SentCell(h, c, i) # old
      BY <2>3, <3>1
    <3> QED BY <1>6, <1>9, <1>11, <1>13, <2>3, <3>2 DEF old, data
  <2> QED BY <2>2, <2>3
<1>14. CASE ~h.columns[c][i].present
  <2>1. SentCell(h, c, i) = Absent
    BY <1>14 DEF SentCell
  <2>2. Absent = old <=> ~old.present
    BY <1>8, AbsentCell
  <2> QED BY <1>6, <1>9, <1>11, <1>14, <2>1, <2>2 DEF old, data
<1> QED BY <1>13, <1>14

(* A slot is reported if and only if it differs from the baseline's.       *)
LEMMA ReportedIff ==
  ASSUME NEW h, WorldSound(h), NEW v, WorldSound(v), NEW b, StandsFor(b, v), NEW i \in Nat \ {0}
  PROVE  i \in DOMAIN Entries(h, b) <=> ~SameSlot(SentWorld(h), v, i)
<1> DEFINE g == SentWorld(h)
           n == Len(h.entities.generations)
<1>1. /\ g.entities = h.entities
      /\ \A c \in Components : \A j \in 1 .. n : g.columns[c][j] = SentCell(h, c, j)
  BY SentWorldSound
<1> HIDE DEF g
<1>2. n \in Nat /\ Len(v.entities.generations) \in Nat
  BY DEF WorldSound, AllocatorSound, SlotsTyped
<1>3. i \in DOMAIN Entries(h, b) <=> i \in 1 .. SlotMax(h, b) /\ Reported(h, b, i)
  BY DEF Entries
<1>4. CASE SlotLive(h.entities, i)
  <2>1. i \in 1 .. n /\ SlotMax(h, b) \in Nat /\ n <= SlotMax(h, b)
    <3>1. i \in 1 .. n
      BY <1>4, LiveEntity
    <3>2. HasBaseline(b) => Len(b.alive) \in Nat
      BY <1>2, BaselineFacts DEF StandsFor, HasBaseline
    <3> QED BY <1>2, <3>1, <3>2 DEF SlotMax, SlotCount
  <2>2. i \in DOMAIN Entries(h, b) <=> Changed(h, b, i)
    BY <1>2, <1>3, <1>4, <2>1 DEF Reported
  <2>3. IsSpawn(h, b, i) <=>
          ~(SlotLive(v.entities, i) /\ v.entities.generations[i] = h.entities.generations[i])
    BY <1>4, SpawnIff
  <2>4. CASE IsSpawn(h, b, i)
    <3>1. ~SameSlot(g, v, i)
      BY <1>1, <1>4, <2>3, <2>4 DEF SameSlot
    <3> QED BY <2>2, <2>4, <3>1 DEF Changed, g
  <2>5. CASE ~IsSpawn(h, b, i)
    <3>1. SameSlot(g, v, i) <=> \A c \in Components : SentCell(h, c, i) = v.columns[c][i]
      BY <1>1, <1>4, <2>1, <2>3, <2>5 DEF SameSlot
    <3>2. \A c \in Components :
            SentCell(h, c, i) = v.columns[c][i] <=>
              /\ ColumnPresent(b, c, i) <=> c \in Carried(h, i)
              /\ c \in Carried(h, i) => Dirty(h, b, i, c) = {}
      BY <1>4, <2>5, CellSaid
    <3>3. \A c \in Carried(h, i) : c \in Components
      BY DEF Carried
    <3>4. Changed(h, b, i) <=>
            \/ \E c \in Components : ~(ColumnPresent(b, c, i) <=> c \in Carried(h, i))
            \/ \E c \in Carried(h, i) : Dirty(h, b, i, c) # {}
      <4>1. \A c \in Components :
              (ColumnPresent(b, c, i) # (c \in Carried(h, i)))
                <=> ~(ColumnPresent(b, c, i) <=> c \in Carried(h, i))
        <5>1. \A c \in Components : ColumnPresent(b, c, i) \in BOOLEAN
          <6>1. ASSUME NEW c \in Components PROVE v.columns[c][i].present \in BOOLEAN
            <7>1. i \in 1 .. Len(v.entities.generations)
              BY <2>3, <2>5 DEF SlotLive, SlotCount
            <7>2. v.columns[c][i] \in Cell
              BY <7>1, CellFacts
            <7> QED BY <7>2 DEF Cell
          <6> QED BY DEF ColumnPresent
        <5> QED BY <5>1
      <4> QED BY <2>5, <4>1 DEF Changed
    <3> QED BY <2>2, <3>1, <3>2, <3>3, <3>4 DEF g
  <2> QED BY <2>4, <2>5
<1>5. CASE ~SlotLive(h.entities, i)
  <2>1. SameSlot(g, v, i) <=> ~SlotLive(v.entities, i)
    BY <1>1, <1>5 DEF SameSlot
  <2>2. i \in DOMAIN Entries(h, b) <=>
          i \in 1 .. SlotMax(h, b) /\ HasBaseline(b) /\ i <= Len(b.alive) /\ b.alive[i]
    BY <1>3, <1>5 DEF Reported
  <2>3. CASE b = NONE /\ \A j \in Nat \ {0} : ~SlotLive(v.entities, j)
    BY <2>1, <2>2, <2>3 DEF HasBaseline, g
  <2>4. CASE b = Snapshot(v)
    <3>1. /\ HasBaseline(b) /\ b.alive = v.entities.alive
          /\ Len(b.alive) = Len(v.entities.generations)
      BY <2>4, BaselineFacts
    <3>2. SlotMax(h, b) \in Nat /\ Len(b.alive) <= SlotMax(h, b)
      BY <1>2, <3>1 DEF SlotMax, SlotCount
    <3>3. i <= Len(b.alive) => i \in 1 .. SlotMax(h, b) /\ i \in 1 .. Len(b.alive)
      BY <1>2, <3>1, <3>2
    <3>4. SlotLive(v.entities, i) <=> i \in 1 .. Len(b.alive) /\ b.alive[i]
      BY <3>1 DEF SlotLive, SlotCount
    <3>5. i \in 1 .. Len(b.alive) => i <= Len(b.alive)
      BY <1>2, <3>1
    <3> QED BY <2>1, <2>2, <3>1, <3>3, <3>4, <3>5 DEF g
  <2> QED BY <2>3, <2>4 DEF StandsFor
<1> QED BY <1>4, <1>5

(***************************************************************************)
(* One entry is applied.                                                   *)
(***************************************************************************)
EntryTyped(entry) ==
  \/ entry.op = "despawn"
  \/ entry.op \in {"spawn", "update"} /\ entry.generation \in Generations /\ Writes(entry.dirty)

LEMMA ReplacedSlot ==
  ASSUME NEW w, WorldSound(w), NEW i \in Nat \ {0}, NEW g \in Generations,
         NEW e, e = Entity(i, g), NEW u, u = SpawnReplacing(w, e)
  PROVE  /\ WorldSound(u) /\ u.tick = w.tick /\ OnlySlot(u, w, i)
         /\ SlotLive(u.entities, i) /\ e = EntityAt(u.entities, i)
         /\ ~(SlotLive(w.entities, i) /\ w.entities.generations[i] = g)
              => \A c \in Components : u.columns[c][i] = Absent
<1>1. e.index = i /\ e.generation = g
  BY EntityFields
<1>2. CASE SlotLive(w.entities, i) /\ ~IsAlive(w.entities, e)
  <2> DEFINE x == Despawn(w, EntityAt(w.entities, i))
  <2>1. u = SpawnAt(x, e)
    BY <1>1, <1>2 DEF SpawnReplacing
  <2>2. WorldSound(x) /\ x.tick = w.tick /\ ~SlotLive(x.entities, i) /\ OnlySlot(x, w, i)
    BY <1>2, DespawnSlot
  <2> HIDE DEF x
  <2>3. /\ WorldSound(u) /\ u.tick = x.tick /\ OnlySlot(u, x, i)
        /\ SlotLive(u.entities, i) /\ e = EntityAt(u.entities, i)
        /\ \A c \in Components : u.columns[c][i] = Absent
    BY <2>1, <2>2, SpawnAtSlot
  <2> QED BY <2>2, <2>3, OnlySlotTrans
<1>3. CASE ~(SlotLive(w.entities, i) /\ ~IsAlive(w.entities, e))
  <2>1. u = SpawnAt(w, e)
    BY <1>1, <1>3 DEF SpawnReplacing
  <2>2. ~(SlotLive(w.entities, i) /\ w.entities.generations[i] = g) => ~SlotLive(w.entities, i)
    BY <1>1, <1>3 DEF IsAlive
  <2> QED BY <2>1, <2>2, SpawnAtSlot
<1> QED BY <1>2, <1>3

(* Whatever an entry says and to whatever world it comes, the world stays  *)
(* sound, and other slots are left alone.                                  *)
LEMMA AppliedSound ==
  ASSUME NEW w, WorldSound(w), NEW i \in Nat \ {0}, NEW entry, EntryTyped(entry),
         ~Unknown(w, i, entry), NEW u, u = Applied(w, i, entry)
  PROVE  WorldSound(u) /\ u.tick = w.tick /\ OnlySlot(u, w, i)
<1>0. \A x : OnlySlot(x, x, i)
  BY DEF OnlySlot, SameSlot
<1>1. CASE entry.op = "despawn"
  <2>1. u = IF SlotLive(w.entities, i) THEN Despawn(w, EntityAt(w.entities, i)) ELSE w
    BY <1>1 DEF Applied
  <2>2. CASE SlotLive(w.entities, i)
    BY <2>1, <2>2, DespawnSlot
  <2>3. CASE ~SlotLive(w.entities, i)
    BY <1>0, <2>1, <2>3
  <2> QED BY <2>2, <2>3
<1>2. CASE entry.op = "spawn"
  <2> DEFINE e == Entity(i, entry.generation)
             x == SpawnReplacing(w, e)
             dirty == entry.dirty
  <2>1. u = Patched(x, e, dirty)
    BY <1>2 DEF Applied
  <2>2. entry.generation \in Generations /\ Writes(dirty)
    BY <1>2 DEF EntryTyped
  <2>3. /\ WorldSound(x) /\ x.tick = w.tick /\ OnlySlot(x, w, i)
        /\ SlotLive(x.entities, i) /\ e = EntityAt(x.entities, i)
    BY <2>2, ReplacedSlot
  <2> HIDE DEF e, x, dirty
  <2>4. WorldSound(u) /\ u.tick = x.tick /\ OnlySlot(u, x, i)
    BY <2>1, <2>2, <2>3, PatchedSlot
  <2> QED BY <2>3, <2>4, OnlySlotTrans
<1>3. CASE entry.op = "update"
  <2> DEFINE e == EntityAt(w.entities, i)
             dirty == entry.dirty
  <2>1. u = Patched(w, e, dirty)
    BY <1>3 DEF Applied
  <2>2. SlotLive(w.entities, i) /\ Writes(dirty) /\ e = EntityAt(w.entities, i)
    BY <1>3 DEF EntryTyped, Unknown
  <2> HIDE DEF e, dirty
  <2> QED BY <2>1, <2>2, PatchedSlot
<1> QED BY <1>1, <1>2, <1>3 DEF EntryTyped

(* What an entry says of a live slot.                                      *)
LEMMA EntryFacts ==
  ASSUME NEW h, WorldSound(h), NEW b, NEW i, SlotLive(h.entities, i),
         NEW entry, entry = Entry(h, b, i)
  PROVE  /\ EntryTyped(entry)
         /\ entry.op = (IF IsSpawn(h, b, i) THEN "spawn" ELSE "update")
         /\ entry.generation = h.entities.generations[i]
         /\ DOMAIN entry.dirty = Carried(h, i)
         /\ \A c \in Carried(h, i) :
              entry.dirty[c] = [f \in Dirty(h, b, i, c) |-> SentFields(h, i, c)[f]]
<1> DEFINE patch(c) == [f \in Dirty(h, b, i, c) |-> SentFields(h, i, c)[f]]
           dirty == [c \in Carried(h, i) |-> patch(c)]
<1>1. i \in 1 .. Len(h.entities.generations) /\ h.entities.generations[i] \in Generations
  BY LiveEntity
<1>2. Current(h, i).generation = h.entities.generations[i]
  BY EntityFields DEF Current, EntityAt
<1>3. /\ entry.op = (IF IsSpawn(h, b, i) THEN "spawn" ELSE "update")
      /\ entry.generation = h.entities.generations[i]
      /\ entry.dirty = dirty
  BY <1>2 DEF Entry
<1>4. Writes(dirty)
  <2>1. ASSUME NEW c \in Carried(h, i), NEW f \in Dirty(h, b, i, c)
        PROVE  SentFields(h, i, c)[f] \in Values
    <3>1. c \in Components /\ f \in Fields
      BY DEF Carried, Dirty
    <3> QED BY <1>1, <3>1, CarriedFacts
  <2>2. Carried(h, i) \subseteq Components
    BY DEF Carried
  <2> QED BY <2>1, <2>2 DEF Writes
<1>5. EntryTyped(entry)
  BY <1>1, <1>3, <1>4 DEF EntryTyped
<1> QED BY <1>3, <1>5

LEMMA EntriesFacts ==
  ASSUME NEW h, WorldSound(h), NEW b, NEW i \in DOMAIN Entries(h, b)
  PROVE  /\ i \in 1 .. SlotMax(h, b) /\ EntryTyped(Entries(h, b)[i])
         /\ SlotLive(h.entities, i) => Entries(h, b)[i] = Entry(h, b, i)
         /\ ~SlotLive(h.entities, i) => Entries(h, b)[i] = Departure
<1>1. /\ i \in 1 .. SlotMax(h, b)
      /\ Entries(h, b)[i] = IF SlotLive(h.entities, i) THEN Entry(h, b, i) ELSE Departure
  BY DEF Entries
<1>2. EntryTyped(Departure)
  BY DEF EntryTyped, Departure
<1> QED BY <1>1, <1>2, EntryFacts

(* The fields that are not dirty are as they will be held already.         *)
LEMMA PatchedLike ==
  ASSUME NEW h, WorldSound(h), NEW b, NEW i, SlotLive(h.entities, i),
         NEW w, WorldSound(w), SlotLive(w.entities, i),
         w.entities.generations[i] = h.entities.generations[i],
         \A c \in Carried(h, i) : \A f \in Fields \ Dirty(h, b, i, c) :
           w.columns[c][i].data[f] = SentFields(h, i, c)[f],
         NEW u, u = Patched(w, EntityAt(w.entities, i), Entry(h, b, i).dirty)
  PROVE  SameSlot(u, SentWorld(h), i)
<1> DEFINE dirty == Entry(h, b, i).dirty
           g == SentWorld(h)
<1>1. /\ Writes(dirty) /\ DOMAIN dirty = Carried(h, i)
      /\ \A c \in Carried(h, i) :
           dirty[c] = [f \in Dirty(h, b, i, c) |-> SentFields(h, i, c)[f]]
  BY EntryFacts DEF EntryTyped
<1>2. /\ g.entities = h.entities /\ i \in 1 .. Len(h.entities.generations)
      /\ \A c \in Components : g.columns[c][i] = SentCell(h, c, i)
  BY SentWorldSound, LiveEntity
<1> HIDE DEF dirty, g
<1>3. /\ u.entities = w.entities
      /\ \A c \in Components : u.columns[c][i] = PatchedCell(w.columns[c][i], dirty, c)
  <2>1. u = Patched(w, EntityAt(w.entities, i), dirty)
    BY DEF dirty
  <2> QED BY <1>1, <2>1, PatchedSlot
<1>4. ASSUME NEW c \in Components PROVE PatchedCell(w.columns[c][i], dirty, c) = SentCell(h, c, i)
  <2>1. (c \in Carried(h, i) <=> h.columns[c][i].present) /\ SentFields(h, i, c) \in [Fields -> Values]
    BY <1>2, CarriedFacts
  <2>2. CASE c \in Carried(h, i)
    <3> DEFINE data == w.columns[c][i].data
               said == SentFields(h, i, c)
               D == Dirty(h, b, i, c)
               patch == [f \in D |-> said[f]]
    <3>1. D \in SUBSET Fields /\ said \in [Fields -> Values] /\ \A f \in Fields \ D : data[f] = said[f]
      BY <2>1, <2>2 DEF Dirty
    <3>2. dirty[c] = patch
      BY <1>1, <2>2
    <3> HIDE DEF data, said, D
    <3>3. Overlaid(data, patch) = said
      BY <3>1 DEF Overlaid
    <3> HIDE DEF patch
    <3>4. PatchedCell(w.columns[c][i], dirty, c) = [present |-> TRUE, data |-> said]
      BY <1>1, <2>2, <3>2, <3>3 DEF PatchedCell, data
    <3> QED BY <2>1, <2>2, <3>4 DEF SentCell, said
  <2>3. CASE c \notin Carried(h, i)
    BY <1>1, <2>1, <2>3 DEF PatchedCell, SentCell
  <2> QED BY <2>2, <2>3
<1> QED BY <1>2, <1>3, <1>4 DEF SameSlot, g

(* An entry brings its slot from what it was in the baseline to what it is *)
(* in the world that was sent, and is never one for an unknown entity.     *)
LEMMA SlotApplied ==
  ASSUME NEW h, WorldSound(h), NEW v, WorldSound(v), NEW b, StandsFor(b, v),
         NEW i \in Nat \ {0}, i \in DOMAIN Entries(h, b),
         NEW w, WorldSound(w), SameSlot(w, v, i), NEW entry, entry = Entries(h, b)[i]
  PROVE  ~Unknown(w, i, entry) /\ SameSlot(Applied(w, i, entry), SentWorld(h), i)
<1> DEFINE u == Applied(w, i, entry)
           g == SentWorld(h)
<1>1. g.entities = h.entities
  BY SentWorldSound
<1>2. CASE ~SlotLive(h.entities, i)
  <2>1. entry = Departure
    BY <1>2, EntriesFacts
  <2>2. entry.op = "despawn"
    BY <2>1 DEF Departure
  <2>3. u = IF SlotLive(w.entities, i) THEN Despawn(w, EntityAt(w.entities, i)) ELSE w
    BY <2>2 DEF Applied
  <2>4. ~SlotLive(u.entities, i)
    <3>1. CASE SlotLive(w.entities, i)
      BY <2>3, <3>1, DespawnSlot
    <3>2. CASE ~SlotLive(w.entities, i)
      BY <2>3, <3>2
    <3> QED BY <3>1, <3>2
  <2> HIDE DEF u, g
  <2>5. SameSlot(u, g, i)
    BY <1>1, <1>2, <2>4 DEF SameSlot
  <2> QED BY <2>2, <2>5 DEF Unknown, u, g
<1>3. CASE SlotLive(h.entities, i)
  <2>1. entry = Entry(h, b, i)
    BY <1>3, EntriesFacts
  <2>2. /\ EntryTyped(entry) /\ entry.op = (IF IsSpawn(h, b, i) THEN "spawn" ELSE "update")
        /\ entry.generation = h.entities.generations[i]
    BY <1>3, <2>1, EntryFacts
  <2>3. IsSpawn(h, b, i) <=>
          ~(SlotLive(v.entities, i) /\ v.entities.generations[i] = h.entities.generations[i])
    BY <1>3, SpawnIff
  <2>4. h.entities.generations[i] \in Generations
    BY <1>3, LiveEntity
  <2>5. CASE IsSpawn(h, b, i)
    <3> DEFINE e == Entity(i, h.entities.generations[i])
               x == SpawnReplacing(w, e)
    <3>1. entry.op = "spawn"
      BY <2>2, <2>5
    <3>2. u = Patched(x, e, entry.dirty)
      BY <2>2, <3>1 DEF Applied
    <3>3. /\ WorldSound(x) /\ SlotLive(x.entities, i) /\ e = EntityAt(x.entities, i)
      BY <2>4, ReplacedSlot
    <3> HIDE DEF x
    <3>4. x.entities.generations[i] = h.entities.generations[i]
      <4>1. EntityAt(x.entities, i).generation = x.entities.generations[i]
            /\ e.generation = h.entities.generations[i]
        BY EntityFields DEF EntityAt
      <4> QED BY <3>3, <4>1
    <3>5. \A c \in Carried(h, i) : Fields \ Dirty(h, b, i, c) = {}
      BY <2>5 DEF Dirty, IsNewComponent
    <3>6. SameSlot(u, g, i)
      BY <1>3, <2>1, <3>2, <3>3, <3>4, <3>5, PatchedLike
    <3> QED BY <3>1, <3>6 DEF Unknown
  <2>6. CASE ~IsSpawn(h, b, i)
    <3>1. entry.op = "update"
      BY <2>2, <2>6
    <3>2. u = Patched(w, EntityAt(w.entities, i), entry.dirty)
      BY <3>1 DEF Applied
    <3>3. /\ SlotLive(w.entities, i) /\ w.entities.generations[i] = h.entities.generations[i]
          /\ \A c \in Components : w.columns[c][i] = v.columns[c][i]
      BY <2>3, <2>6 DEF SameSlot
    <3>4. ASSUME NEW c \in Carried(h, i), NEW f \in Fields \ Dirty(h, b, i, c)
          PROVE  w.columns[c][i].data[f] = SentFields(h, i, c)[f]
      <4>1. c \in Components
        BY DEF Carried
      <4>2. Dirty(h, b, i, c) =
              IF v.columns[c][i].present
              THEN {k \in Fields : v.columns[c][i].data[k] # SentFields(h, i, c)[k]} ELSE Fields
        BY <1>3, <2>6, <4>1, CellSaid
      <4>3. v.columns[c][i].data[f] = SentFields(h, i, c)[f]
        BY <4>2
      <4> QED BY <3>3, <4>1, <4>3
    <3>5. SameSlot(u, g, i)
      BY <1>3, <2>1, <3>2, <3>3, <3>4, PatchedLike
    <3> QED BY <3>3, <3>5 DEF Unknown
  <2> QED BY <2>5, <2>6
<1> QED BY <1>2, <1>3

(***************************************************************************)
(* A delta is applied, slot after slot.                                    *)
(***************************************************************************)
LEMMA ProgressFacts ==
  ASSUME NEW w, NEW entries, NEW last \in Nat, NEW r, r = Progress(w, entries, last)
  PROVE  /\ r[0] = [ok |-> TRUE, world |-> w]
         /\ \A k \in 1 .. last : r[k] = ApplySlot(r[k - 1], entries, k)
<1> DEFINE start == [ok |-> TRUE, world |-> w]
           Run(f, m) == f = [k \in 0 .. m |-> IF k = 0 THEN start ELSE ApplySlot(f[k - 1], entries, k)]
           S == {m \in Nat : \E f : Run(f, m)}
<1>0. Progress(w, entries, last) = CHOOSE f : Run(f, last)
  BY DEF Progress
<1> HIDE DEF start
<1>1. 0 \in S
  <2> DEFINE f == [k \in 0 .. 0 |-> start]
  <2>1. Run(f, 0)
    OBVIOUS
  <2> QED BY <2>1
<1>2. ASSUME NEW m \in Nat, m \in S PROVE m + 1 \in S
  <2>1. PICK f : Run(f, m)
    BY <1>2
  <2> DEFINE g == [k \in 0 .. m + 1 |-> IF k = m + 1 THEN ApplySlot(f[m], entries, m + 1) ELSE f[k]]
  <2>2. /\ g[m + 1] = ApplySlot(f[m], entries, m + 1)
        /\ \A k \in 0 .. m : g[k] = f[k]
        /\ f[0] = start /\ \A k \in 1 .. m : f[k] = ApplySlot(f[k - 1], entries, k)
    <3>1. \A k \in 0 .. m : k \in 0 .. m + 1 /\ k # m + 1
      OBVIOUS
    <3>2. f[0] = start /\ \A k \in 1 .. m : f[k] = ApplySlot(f[k - 1], entries, k)
      BY <2>1
    <3> QED BY <3>1, <3>2
  <2> DEFINE h == [k \in 0 .. m + 1 |-> IF k = 0 THEN start ELSE ApplySlot(g[k - 1], entries, k)]
  <2>3. \A k \in 0 .. m + 1 : g[k] = h[k]
    <3> SUFFICES ASSUME NEW k \in 0 .. m + 1
                 PROVE  g[k] = IF k = 0 THEN start ELSE ApplySlot(g[k - 1], entries, k)
      OBVIOUS
    <3>0. k = 0 \/ k = m + 1 \/ k \in 1 .. m
      OBVIOUS
    <3>1. CASE k = 0
      BY <2>2, <3>1
    <3>2. CASE k = m + 1
      <4>1. m \in 0 .. m /\ k - 1 = m /\ k # 0
        BY <3>2
      <4>2. g[k - 1] = f[m]
        BY <2>2, <4>1
      <4> HIDE DEF g
      <4> QED BY <2>2, <3>2, <4>1, <4>2
    <3>3. CASE k \in 1 .. m
      <4>1. k - 1 \in 0 .. m /\ k # 0 /\ k \in 0 .. m
        BY <3>3
      <4> HIDE DEF g
      <4> QED BY <2>2, <3>3, <4>1
    <3> QED BY <3>0, <3>1, <3>2, <3>3
  <2>4. g = h
    BY <2>3
  <2> HIDE DEF g
  <2>5. Run(g, m + 1)
    BY <2>4
  <2> QED BY <2>5
<1>3. Run(r, last)
  <2>1. last \in S
    <3> HIDE DEF S
    <3> QED BY <1>1, <1>2, Induct
  <2> QED BY <1>0, <2>1
<1>4. 0 \in 0 .. last /\ \A k \in 1 .. last : k \in 0 .. last /\ k # 0
  OBVIOUS
<1>5. r[0] = start /\ \A k \in 1 .. last : r[k] = ApplySlot(r[k - 1], entries, k)
  BY <1>3, <1>4
<1> QED BY <1>5 DEF start

IsResult(x) == x = [ok |-> x.ok, world |-> x.world]

LEMMA ApplySlotFacts ==
  ASSUME NEW x, IsResult(x), NEW entries, NEW i, NEW y, y = ApplySlot(x, entries, i)
  PROVE  /\ IsResult(y)
         /\ i \notin DOMAIN entries => y = x
         /\ i \in DOMAIN entries /\ x.ok /\ ~Unknown(x.world, i, entries[i])
              => y.ok /\ y.world = Applied(x.world, i, entries[i])
         /\ i \in DOMAIN entries /\ ~(x.ok /\ ~Unknown(x.world, i, entries[i]))
              => ~y.ok /\ y.world = x.world
<1>1. CASE i \notin DOMAIN entries
  BY <1>1 DEF ApplySlot
<1>2. CASE i \in DOMAIN entries /\ ~(x.ok /\ ~Unknown(x.world, i, entries[i]))
  <2> DEFINE v == FALSE
  <2>1. y = [x EXCEPT !.ok = v]
    BY <1>2 DEF ApplySlot
  <2>2. ~v
    OBVIOUS
  <2> HIDE DEF v
  <2>3. y = [ok |-> v, world |-> x.world]
    BY <2>1 DEF IsResult
  <2>4. y.ok = v /\ y.world = x.world
    BY ONLY <2>3
  <2>5. IsResult(y)
    BY ONLY <2>3, <2>4 DEF IsResult
  <2> QED BY <1>2, <2>2, <2>4, <2>5
<1>3. CASE i \in DOMAIN entries /\ x.ok /\ ~Unknown(x.world, i, entries[i])
  <2> DEFINE u == Applied(x.world, i, entries[i])
             v == x.ok
             z == x.world
  <2>1. y = [x EXCEPT !.world = u]
    BY <1>3 DEF ApplySlot
  <2>2. x = [ok |-> v, world |-> z] /\ v
    BY <1>3 DEF IsResult
  <2> HIDE DEF u, v, z
  <2>3. y = [ok |-> v, world |-> u]
    BY ONLY <2>1, <2>2
  <2>4. y.ok = v /\ y.world = u
    BY ONLY <2>3
  <2>5. IsResult(y)
    BY ONLY <2>3, <2>4 DEF IsResult
  <2> QED BY <1>3, <2>2, <2>4, <2>5 DEF u
<1> QED BY <1>1, <1>2, <1>3

(* Deltas of the right type, whether or not they fit the world.            *)
DeltaTyped(d) ==
  /\ d.tick \in Nat /\ DOMAIN d.entries \subseteq Nat \ {0}
  /\ \E n \in Nat : \A i \in DOMAIN d.entries : i <= n
  /\ \A i \in DOMAIN d.entries : EntryTyped(d.entries[i])

(* The last slot that is reported.                                         *)
LEMMA LastSlot ==
  ASSUME NEW d, DeltaTyped(d), NEW last, last = Max(DOMAIN d.entries \cup {0})
  PROVE  last \in Nat /\ \A i \in DOMAIN d.entries : i \in 1 .. last
<1> DEFINE D == DOMAIN d.entries
           S == D \cup {0}
<1>1. PICK n \in Nat : \A i \in D : i <= n
  BY DEF DeltaTyped
<1>2. D \subseteq Nat \ {0} /\ S \in SUBSET Nat /\ S # {} /\ \A x \in S : x <= n
  BY <1>1 DEF DeltaTyped
<1> HIDE DEF D
<1>3. Max(S) \in S /\ \A x \in S : x <= Max(S)
  <2> HIDE DEF S
  <2> QED BY <1>2, MaxIn
<1>4. last = Max(S)
  BY DEF D
<1> HIDE DEF S
<1>5. last \in Nat /\ \A x \in S : x <= last
  BY <1>2, <1>3, <1>4
<1>6. \A i \in D : i \in S /\ i \in Nat \ {0}
  BY <1>2 DEF S
<1>7. \A i \in D : i \in 1 .. last
  BY <1>5, <1>6
<1> QED BY <1>5, <1>7 DEF D

(* At the end the tick is the delta's, if all went well.                   *)
LEMMA ApplyDeltaFacts ==
  ASSUME NEW w, NEW d, NEW last, last = Max(DOMAIN d.entries \cup {0}),
         NEW x, x = Progress(w, d.entries, last)[last], IsResult(x), IsWorld(x.world),
         NEW y, y = ApplyDelta(w, d)
  PROVE  /\ y.ok = x.ok
         /\ y.world.entities = x.world.entities /\ y.world.columns = x.world.columns
         /\ IsWorld(y.world) /\ (x.ok => y.world.tick = d.tick) /\ (~x.ok => y = x)
<1>1. y = IF x.ok THEN [x EXCEPT !.world.tick = d.tick] ELSE x
  BY DEF ApplyDelta
<1>2. CASE x.ok
  <2> DEFINE v == x.ok
             z == x.world
             u == [z EXCEPT !.tick = d.tick]
  <2>1. y = [x EXCEPT !.world = u]
    BY <1>1, <1>2
  <2>2. x = [ok |-> v, world |-> z] /\ v
    BY <1>2 DEF IsResult
  <2>3. u = [tick |-> d.tick, entities |-> z.entities, columns |-> z.columns]
    BY DEF IsWorld
  <2> HIDE DEF u, v, z
  <2>4. y = [ok |-> v, world |-> u]
    BY ONLY <2>1, <2>2
  <2>5. y.ok = v /\ y.world = u
    BY ONLY <2>4
  <2>6. IsWorld(u) /\ u.tick = d.tick /\ u.entities = z.entities /\ u.columns = z.columns
    BY <2>3 DEF IsWorld
  <2> QED BY <1>2, <2>5, <2>6 DEF v, z
<1>3. CASE ~x.ok
  BY <1>1, <1>3
<1> QED BY <1>2, <1>3

(* Whatever delta comes to whatever world, the world stays sound.          *)
LEMMA ApplySound ==
  ASSUME NEW w, WorldSound(w), NEW d, DeltaTyped(d), NEW y, y = ApplyDelta(w, d)
  PROVE  WorldSound(y.world) /\ (y.ok => y.world.tick = d.tick)
<1> DEFINE last == Max(DOMAIN d.entries \cup {0})
           r == Progress(w, d.entries, last)
           K == {k \in Nat : k <= last => IsResult(r[k]) /\ WorldSound(r[k].world)}
<1>1. last \in Nat /\ \A i \in DOMAIN d.entries : i \in 1 .. last
  BY LastSlot
<1> HIDE DEF last
<1>2. /\ r[0] = [ok |-> TRUE, world |-> w]
      /\ \A k \in 1 .. last : r[k] = ApplySlot(r[k - 1], d.entries, k)
  BY <1>1, ProgressFacts
<1> HIDE DEF r
<1>3. 0 \in K
  BY <1>2 DEF IsResult
<1>4. ASSUME NEW k \in Nat, k \in K PROVE k + 1 \in K
  <2> SUFFICES ASSUME k + 1 <= last PROVE IsResult(r[k + 1]) /\ WorldSound(r[k + 1].world)
    OBVIOUS
  <2> DEFINE x == r[k]
             z == r[k + 1]
             i == k + 1
  <2>1. /\ IsResult(x) /\ WorldSound(x.world) /\ i \in 1 .. last /\ i - 1 = k /\ i \in Nat \ {0}
    BY <1>1, <1>4
  <2>2. z = ApplySlot(x, d.entries, i)
    BY <1>2, <2>1
  <2> HIDE DEF x, z, i
  <2>3. /\ IsResult(z)
        /\ i \notin DOMAIN d.entries => z = x
        /\ i \in DOMAIN d.entries /\ x.ok /\ ~Unknown(x.world, i, d.entries[i])
             => z.world = Applied(x.world, i, d.entries[i])
        /\ i \in DOMAIN d.entries /\ ~(x.ok /\ ~Unknown(x.world, i, d.entries[i]))
             => z.world = x.world
    BY <2>1, <2>2, ApplySlotFacts
  <2>4. CASE i \in DOMAIN d.entries /\ x.ok /\ ~Unknown(x.world, i, d.entries[i])
    <3>1. EntryTyped(d.entries[i])
      BY <2>4 DEF DeltaTyped
    <3>2. WorldSound(z.world)
      BY <2>1, <2>3, <2>4, <3>1, AppliedSound
    <3> QED BY <2>3, <3>2 DEF z, i
  <2>5. CASE ~(i \in DOMAIN d.entries /\ x.ok /\ ~Unknown(x.world, i, d.entries[i]))
    <3>1. WorldSound(z.world)
      BY <2>1, <2>3, <2>5
    <3> QED BY <2>3, <3>1 DEF z, i
  <2> QED BY <2>4, <2>5
<1>5. IsResult(r[last]) /\ WorldSound(r[last].world)
  <2>1. last \in K
    <3> HIDE DEF K
    <3> QED BY <1>1, <1>3, <1>4, Induct
  <2> QED BY <1>1, <2>1
<1> DEFINE x == r[last]
<1>6. /\ y.ok = x.ok
      /\ y.world.entities = x.world.entities /\ y.world.columns = x.world.columns
      /\ IsWorld(y.world) /\ (x.ok => y.world.tick = d.tick) /\ (~x.ok => y = x)
  <2>1. x = Progress(w, d.entries, last)[last] /\ IsResult(x) /\ IsWorld(x.world)
    BY <1>5 DEF WorldSound, r
  <2> HIDE DEF x
  <2> QED BY <2>1, ApplyDeltaFacts DEF last
<1>7. d.tick \in Nat
  BY DEF DeltaTyped
<1> HIDE DEF x
<1>8. WorldSound(x.world)
  BY <1>5 DEF x
<1>9. CASE x.ok
  BY <1>6, <1>7, <1>8, <1>9 DEF WorldSound
<1>10. CASE ~x.ok
  BY <1>6, <1>8, <1>10
<1> QED BY <1>9, <1>10

LEMMA EncodedTyped ==
  ASSUME NEW h, WorldSound(h), NEW v, WorldSound(v), NEW b, StandsFor(b, v),
         NEW d, d = EncodeDelta(h, b)
  PROVE  DeltaTyped(d) /\ d.tick = h.tick /\ d.entries = Entries(h, b)
<1>1. /\ d.tick = h.tick /\ d.entries = Entries(h, b) /\ h.tick \in Nat
  BY DEF EncodeDelta, WorldSound
<1>2. SlotMax(h, b) \in Nat
  <2>1. Len(h.entities.generations) \in Nat /\ Len(v.entities.generations) \in Nat
    BY DEF WorldSound, AllocatorSound, SlotsTyped
  <2>2. HasBaseline(b) => Len(b.alive) \in Nat
    BY <2>1, BaselineFacts DEF StandsFor, HasBaseline
  <2> QED BY <2>1, <2>2 DEF SlotMax, SlotCount
<1>3. \A i \in DOMAIN Entries(h, b) : i \in 1 .. SlotMax(h, b) /\ EntryTyped(Entries(h, b)[i])
  BY EntriesFacts
<1> DEFINE D == DOMAIN Entries(h, b)
           n == SlotMax(h, b)
<1>4. \A i \in D : i \in Nat \ {0} /\ i <= n
  <2> HIDE DEF n, D
  <2>1. n \in Nat /\ \A i \in D : i \in 1 .. n
    BY <1>2, <1>3 DEF n, D
  <2> QED BY <2>1
<1> QED BY <1>1, <1>2, <1>3, <1>4 DEF DeltaTyped

(* Up to slot k the world is like the one sent, beyond like the baseline.  *)
Halfway(x, v, g, k) ==
  /\ IsResult(x) /\ x.ok /\ WorldSound(x.world)
  /\ \A j \in Nat \ {0} : IF j <= k THEN SameSlot(x.world, g, j) ELSE SameSlot(x.world, v, j)

LEMMA HalfwayOneMore ==
  ASSUME NEW h, WorldSound(h), NEW v, WorldSound(v), NEW b, StandsFor(b, v),
         NEW k \in Nat, NEW x, Halfway(x, v, SentWorld(h), k),
         NEW i, i = k + 1, NEW y, y = ApplySlot(x, Entries(h, b), i)
  PROVE  Halfway(y, v, SentWorld(h), i)
<1> DEFINE g == SentWorld(h)
           E == Entries(h, b)
<1>1. /\ IsResult(x) /\ x.ok /\ WorldSound(x.world) /\ i \in Nat \ {0} /\ ~(i <= k)
      /\ SameSlot(x.world, v, i)
  BY DEF Halfway
<1>2. /\ IsResult(y)
      /\ i \notin DOMAIN E => y = x
      /\ i \in DOMAIN E /\ ~Unknown(x.world, i, E[i]) => y.ok /\ y.world = Applied(x.world, i, E[i])
  BY <1>1, ApplySlotFacts
<1>3. i \in DOMAIN E <=> ~SameSlot(g, v, i)
  BY <1>1, ReportedIff
<1>4. y.ok /\ WorldSound(y.world) /\ OnlySlot(y.world, x.world, i) /\ SameSlot(y.world, g, i)
  <2>1. CASE i \notin DOMAIN E
    <3>1. SameSlot(x.world, g, i)
      BY <1>1, <1>3, <2>1, SameSlotTrans, SameSlotFlip
    <3>2. OnlySlot(x.world, x.world, i)
      BY DEF OnlySlot, SameSlot
    <3> QED BY <1>1, <1>2, <2>1, <3>1, <3>2
  <2>2. CASE i \in DOMAIN E
    <3>1. EntryTyped(E[i])
      BY <2>2, EntriesFacts
    <3>2. ~Unknown(x.world, i, E[i]) /\ SameSlot(Applied(x.world, i, E[i]), g, i)
      BY <1>1, <2>2, SlotApplied
    <3> HIDE DEF E, g
    <3>3. y.ok /\ y.world = Applied(x.world, i, E[i])
      BY <1>2, <2>2, <3>2
    <3>4. WorldSound(y.world) /\ OnlySlot(y.world, x.world, i)
      BY <1>1, <3>1, <3>2, <3>3, AppliedSound
    <3> QED BY <3>2, <3>3, <3>4
  <2> QED BY <2>1, <2>2
<1> HIDE DEF g, E
<1>5. ASSUME NEW j \in Nat \ {0}
      PROVE  IF j <= i THEN SameSlot(y.world, g, j) ELSE SameSlot(y.world, v, j)
  <2>1. CASE j = i
    BY <1>1, <1>4, <2>1
  <2>2. CASE j # i
    <3>1. SameSlot(y.world, x.world, j)
      BY <1>4, <2>2 DEF OnlySlot
    <3>2. j <= i <=> j <= k
      BY <2>2
    <3>3. IF j <= k THEN SameSlot(x.world, g, j) ELSE SameSlot(x.world, v, j)
      BY DEF Halfway, g
    <3> QED BY <3>1, <3>2, <3>3, SameSlotTrans
  <2> QED BY <2>1, <2>2
<1> QED BY <1>2, <1>4, <1>5 DEF Halfway, g

(* A delta, applied to a world that is like its baseline, makes the world  *)
(* that was sent.                                                          *)
LEMMA DeltaCarries ==
  ASSUME NEW h, WorldSound(h), NEW v, WorldSound(v), NEW b, StandsFor(b, v),
         NEW w, WorldSound(w), Alike(w, v), NEW d, d = EncodeDelta(h, b),
         NEW y, y = ApplyDelta(w, d)
  PROVE  /\ y.ok /\ WorldSound(y.world) /\ y.world.tick = h.tick
         /\ Alike(y.world, SentWorld(h))
<1> DEFINE g == SentWorld(h)
           E == Entries(h, b)
           last == Max(DOMAIN E \cup {0})
           r == Progress(w, E, last)
           K == {k \in Nat : k <= last => Halfway(r[k], v, g, k)}
<1>1. DeltaTyped(d) /\ d.tick = h.tick /\ d.entries = E
  BY EncodedTyped
<1>2. last \in Nat /\ \A i \in DOMAIN E : i \in 1 .. last
  BY <1>1, LastSlot
<1> HIDE DEF last
<1>3. /\ r[0] = [ok |-> TRUE, world |-> w]
      /\ \A k \in 1 .. last : r[k] = ApplySlot(r[k - 1], E, k)
  BY <1>2, ProgressFacts
<1> HIDE DEF r, g
<1>4. 0 \in K
  <2> DEFINE x == r[0]
  <2>1. IsResult(x) /\ x.ok /\ x.world = w
    BY <1>3 DEF IsResult
  <2> HIDE DEF x
  <2>2. \A j \in Nat \ {0} : ~(j <= 0)
    OBVIOUS
  <2>3. Halfway(x, v, g, 0)
    BY <2>1, <2>2 DEF Halfway, Alike
  <2> QED BY <2>3 DEF x
<1>5. ASSUME NEW k \in Nat, k \in K PROVE k + 1 \in K
  <2> SUFFICES ASSUME k + 1 <= last PROVE Halfway(r[k + 1], v, g, k + 1)
    OBVIOUS
  <2>1. Halfway(r[k], v, g, k) /\ k + 1 \in 1 .. last /\ (k + 1) - 1 = k
    BY <1>2, <1>5
  <2>2. r[k + 1] = ApplySlot(r[k], E, k + 1)
    BY <1>3, <2>1
  <2> DEFINE i == k + 1
  <2> HIDE DEF K
  <2>3. r[i] = ApplySlot(r[k], E, i) /\ i = k + 1
    BY <2>2
  <2> HIDE DEF i
  <2>4. Halfway(r[i], v, g, i)
    BY <2>1, <2>3, HalfwayOneMore DEF g
  <2> QED BY <2>4 DEF i
<1> DEFINE x == r[last]
<1>6. Halfway(x, v, g, last)
  <2>1. last \in K
    <3> HIDE DEF K
    <3> QED BY <1>2, <1>4, <1>5, Induct
  <2> QED BY <1>2, <2>1
<1>7. x = Progress(w, d.entries, last)[last] /\ last = Max(DOMAIN d.entries \cup {0})
  BY <1>1 DEF r, last
<1> HIDE DEF x
<1>8. IsResult(x) /\ x.ok /\ WorldSound(x.world)
  BY <1>6 DEF Halfway
<1>9. /\ y.ok = x.ok /\ y.world.entities = x.world.entities /\ y.world.columns = x.world.columns
  BY <1>7, <1>8, ApplyDeltaFacts DEF WorldSound
<1>10. WorldSound(y.world) /\ (y.ok => y.world.tick = d.tick)
  BY <1>1, ApplySound
<1>11. ASSUME NEW j \in Nat \ {0} PROVE SameSlot(y.world, g, j)
  <2>1. SameSlot(y.world, x.world, j)
    BY <1>9 DEF SameSlot
  <2>2. SameSlot(x.world, g, j)
    <3>1. CASE j <= last
      BY <1>6, <3>1 DEF Halfway
    <3>2. CASE ~(j <= last)
      <4>1. SameSlot(x.world, v, j)
        BY <1>6, <3>2 DEF Halfway
      <4>2. j \notin DOMAIN E
        BY <1>2, <3>2
      <4>3. SameSlot(g, v, j)
        BY <4>2, ReportedIff DEF g
      <4> QED BY <4>1, <4>3, SameSlotTrans, SameSlotFlip
    <3> QED BY <3>1, <3>2
  <2> QED BY <2>1, <2>2, SameSlotTrans
<1> QED BY <1>1, <1>8, <1>9, <1>10, <1>11 DEF Alike, g

(***************************************************************************)
(* What can be observed.                                                   *)
(***************************************************************************)
Carries(w, e) == {c \in Components : Has(w, e, c)}
Shown(w, e) == [c \in Carries(w, e) |-> w.columns[c][e.index].data]

LEMMA SlotOf ==
  ASSUME NEW w, WorldSound(w), NEW e \in Entities(w.entities)
  PROVE  SlotLive(w.entities, e.index) /\ e = EntityAt(w.entities, e.index) /\ e.index \in Nat \ {0}
<1>1. SlotsTyped(w.entities) /\ Len(w.entities.generations) \in Nat
  BY DEF WorldSound, AllocatorSound, SlotsTyped
<1>2. PICK k \in 1 .. Len(w.entities.generations) :
        w.entities.alive[k] /\ e = Entity(k, w.entities.generations[k])
  BY <1>1, EntitySlots
<1>3. e.index = k
  BY <1>2, EntityFields
<1> QED BY <1>1, <1>2, <1>3 DEF SlotLive, SlotCount, EntityAt

LEMMA CarriesIff ==
  ASSUME NEW w, WorldSound(w), NEW e \in Entities(w.entities), NEW c \in Components
  PROVE  /\ c \in Carries(w, e) <=> w.columns[c][e.index].present
         /\ c \in Carries(w, e) => Shown(w, e)[c] = w.columns[c][e.index].data
<1> DEFINE a == w.entities
           n == Len(a.generations)
           i == e.index
<1>1. n \in Nat
  BY DEF WorldSound, AllocatorSound, SlotsTyped
<1>2. SlotLive(a, i) /\ e = EntityAt(a, i) /\ i \in 1 .. n
  BY SlotOf DEF SlotLive, SlotCount
<1>3. IsAlive(a, e)
  BY <1>2, EntityFields DEF IsAlive, EntityAt
<1>4. Len(w.columns[c]) = n
  BY ColumnFacts
<1>5. Has(w, e, c) <=> w.columns[c][i].present
  BY <1>1, <1>2, <1>3, <1>4 DEF Has
<1> QED BY <1>5 DEF Carries, Shown

LEMMA ObservedShown == ASSUME NEW w PROVE Observed(w) = [e \in Entities(w.entities) |-> Shown(w, e)]
BY DEF Observed, Shown, Carries

LEMMA AlikeEntities ==
  ASSUME NEW u, WorldSound(u), NEW v, WorldSound(v), NEW e \in Entities(u.entities),
         SameSlot(u, v, e.index)
  PROVE  e \in Entities(v.entities) /\ Shown(u, e) = Shown(v, e)
<1> DEFINE i == e.index
<1>1. SlotLive(u.entities, i) /\ e = EntityAt(u.entities, i) /\ i \in Nat \ {0}
  BY SlotOf
<1> HIDE DEF i
<1>2. /\ SlotLive(v.entities, i) /\ e = EntityAt(v.entities, i)
      /\ \A c \in Components : u.columns[c][i] = v.columns[c][i]
  BY <1>1 DEF SameSlot, EntityAt, i
<1>3. e \in Entities(v.entities)
  BY <1>2, LiveEntity
<1>4. Carries(u, e) = Carries(v, e)
  <2>1. \A c \in Components : c \in Carries(u, e) <=> c \in Carries(v, e)
    BY <1>2, <1>3, CarriesIff DEF i
  <2>2. Carries(u, e) \subseteq Components /\ Carries(v, e) \subseteq Components
    BY DEF Carries
  <2> QED BY <2>1, <2>2
<1>5. \A c \in Carries(u, e) : u.columns[c][i].data = v.columns[c][i].data
  BY <1>2 DEF Carries
<1> QED BY <1>3, <1>4, <1>5 DEF Shown, i

(* What looks alike is alike, and only that.                               *)
LEMMA ObservedAlike ==
  ASSUME NEW u, WorldSound(u), NEW v, WorldSound(v)
  PROVE  Observed(u) = Observed(v) <=> Alike(u, v)
<1>1. ASSUME Alike(u, v) PROVE Observed(u) = Observed(v)
  <2>1. \A e \in Entities(u.entities) : e.index \in Nat \ {0}
    BY SlotOf
  <2>2. \A e \in Entities(v.entities) : e.index \in Nat \ {0}
    BY SlotOf
  <2>3. \A e \in Entities(u.entities) : e \in Entities(v.entities) /\ Shown(u, e) = Shown(v, e)
    BY <1>1, <2>1, AlikeEntities DEF Alike
  <2>4. \A e \in Entities(v.entities) : e \in Entities(u.entities)
    BY <1>1, <2>2, AlikeEntities, SameSlotFlip DEF Alike
  <2>5. Entities(u.entities) = Entities(v.entities)
    BY <2>3, <2>4
  <2> QED BY <2>3, <2>5, ObservedShown
<1>2. ASSUME Observed(u) = Observed(v) PROVE Alike(u, v)
  <2>1. DOMAIN Observed(u) = Entities(u.entities) /\ DOMAIN Observed(v) = Entities(v.entities)
    BY ObservedShown
  <2>2. Entities(u.entities) = Entities(v.entities)
    BY <1>2, <2>1
  <2>3. ASSUME NEW e \in Entities(u.entities) PROVE Shown(u, e) = Shown(v, e)
    <3>1. Observed(u)[e] = Shown(u, e) /\ Observed(v)[e] = Shown(v, e)
      BY <2>2, ObservedShown
    <3> QED BY <1>2, <3>1
  <2> SUFFICES ASSUME NEW i \in Nat \ {0} PROVE SameSlot(u, v, i)
    BY DEF Alike
  <2>4. ASSUME SlotLive(u.entities, i) PROVE SlotLive(v.entities, i) /\ SameSlot(u, v, i)
    <3> DEFINE e == EntityAt(u.entities, i)
    <3>1. e \in Entities(u.entities) /\ e.index = i /\ e.generation = u.entities.generations[i]
          /\ i \in 1 .. Len(u.entities.generations)
      BY <2>4, LiveEntity
    <3> HIDE DEF e
    <3>2. e \in Entities(v.entities)
      BY <2>2, <3>1
    <3>3. PICK k \in 1 .. Len(v.entities.generations) :
            v.entities.alive[k] /\ e = Entity(k, v.entities.generations[k])
      BY <3>2, EntitySlots DEF WorldSound, AllocatorSound
    <3>4. k = i /\ v.entities.generations[i] = u.entities.generations[i]
      BY <3>1, <3>3, EntityFields
    <3>5. SlotLive(v.entities, i)
      BY <3>3, <3>4 DEF SlotLive, SlotCount
    <3>6. ASSUME NEW c \in Components PROVE u.columns[c][i] = v.columns[c][i]
      <4>1. Carries(u, e) = Carries(v, e)
        <5>1. DOMAIN Shown(u, e) = Carries(u, e) /\ DOMAIN Shown(v, e) = Carries(v, e)
          BY DEF Shown
        <5> QED BY <2>3, <3>1, <5>1
      <4>2. /\ c \in Carries(u, e) <=> u.columns[c][i].present
            /\ c \in Carries(v, e) <=> v.columns[c][i].present
        BY <3>1, <3>2, CarriesIff
      <4>3. /\ u.columns[c][i] \in Cell
            /\ ~u.columns[c][i].present => u.columns[c][i] = Absent
        BY <3>1, CellFacts
      <4>4. /\ v.columns[c][i] \in Cell
            /\ ~v.columns[c][i].present => v.columns[c][i] = Absent
        BY <3>3, <3>4, CellFacts
      <4>5. CASE c \notin Carries(u, e)
        BY <4>1, <4>2, <4>3, <4>4, <4>5
      <4>6. CASE c \in Carries(u, e)
        <5>1. u.columns[c][i].data = v.columns[c][i].data
          BY <2>3, <3>1, <3>2, <4>1, <4>6, CarriesIff
        <5>2. u.columns[c][i].present /\ v.columns[c][i].present
          BY <4>1, <4>2, <4>6
        <5> DEFINE x == u.columns[c][i]
                   y == v.columns[c][i]
        <5>3. x \in Cell /\ y \in Cell /\ x.data = y.data /\ x.present /\ y.present
          BY <4>3, <4>4, <5>1, <5>2
        <5> HIDE DEF x, y
        <5>4. x = y
          BY <5>3 DEF Cell
        <5> QED BY <5>4 DEF x, y
      <4> QED BY <4>5, <4>6
    <3> QED BY <2>4, <3>4, <3>5, <3>6 DEF SameSlot
  <2>5. ASSUME SlotLive(v.entities, i) PROVE SlotLive(u.entities, i)
    <3> DEFINE e == EntityAt(v.entities, i)
    <3>1. e \in Entities(v.entities) /\ e.index = i
      BY <2>5, LiveEntity
    <3> HIDE DEF e
    <3>2. e \in Entities(u.entities)
      BY <2>2, <3>1
    <3>3. PICK k \in 1 .. Len(u.entities.generations) :
            u.entities.alive[k] /\ e = Entity(k, u.entities.generations[k])
      BY <3>2, EntitySlots DEF WorldSound, AllocatorSound
    <3>4. k = i
      BY <3>1, <3>3, EntityFields
    <3> QED BY <3>3, <3>4 DEF SlotLive, SlotCount
  <2> QED BY <2>4, <2>5 DEF SameSlot
<1> QED BY <1>1, <1>2

LEMMA ObservedAsSent ==
  ASSUME NEW h, WorldSound(h) PROVE ObservedSent(h) = Observed(SentWorld(h))
<1> DEFINE g == SentWorld(h)
           n == Len(h.entities.generations)
           Told(e) == [c \in Carries(h, e) |-> SentFields(h, e.index, c)]
<1>1. /\ WorldSound(g) /\ g.entities = h.entities
      /\ \A c \in Components : \A i \in 1 .. n : g.columns[c][i] = SentCell(h, c, i)
  BY SentWorldSound
<1> HIDE DEF g
<1>2. ObservedSent(h) = [e \in Entities(h.entities) |-> Told(e)]
  BY DEF ObservedSent, Carries, SentFields
<1>3. ASSUME NEW e \in Entities(h.entities) PROVE Told(e) = Shown(g, e)
  <2>1. e.index \in 1 .. n
    BY EntityInside
  <2>2. ASSUME NEW c \in Components
        PROVE  /\ c \in Carries(g, e) <=> c \in Carries(h, e)
               /\ c \in Carries(h, e) => g.columns[c][e.index].data = SentFields(h, e.index, c)
    <3>1. g.columns[c][e.index] = SentCell(h, c, e.index)
      BY <1>1, <2>1
    <3>2. /\ c \in Carries(h, e) <=> h.columns[c][e.index].present
          /\ c \in Carries(g, e) <=> g.columns[c][e.index].present
      BY <1>1, CarriesIff
    <3> DEFINE x == g.columns[c][e.index]
               y == h.columns[c][e.index]
               d == SentFields(h, e.index, c)
    <3>3. x = IF y.present THEN [present |-> TRUE, data |-> d] ELSE Absent
      BY <3>1 DEF SentCell
    <3> HIDE DEF x, y, d
    <3>4. (x.present <=> y.present) /\ (y.present => x.data = d)
      BY <3>3 DEF Absent
    <3> QED BY <3>2, <3>4 DEF x, y, d
  <2>3. Carries(g, e) = Carries(h, e)
    <3>1. Carries(g, e) \subseteq Components /\ Carries(h, e) \subseteq Components
      BY DEF Carries
    <3> QED BY <2>2, <3>1
  <2>4. \A c \in Carries(h, e) : g.columns[c][e.index].data = SentFields(h, e.index, c)
    BY <2>2 DEF Carries
  <2> QED BY <2>3, <2>4 DEF Shown
<1> QED BY <1>1, <1>2, <1>3, ObservedShown DEF g

(***************************************************************************)
(* What is sent.                                                           *)
(***************************************************************************)
(* Snapshots kept and deltas under way are of the server's worlds, and a   *)
(* delta's baseline, if any, is one of the states that were sent.          *)
Encoded(d) ==
  \E t \in 1 .. server.tick :
    \/ d = EncodeDelta(history[t], NONE)
    \/ \E u \in 1 .. server.tick : d = EncodeDelta(history[t], AsSent(history[u]))

Posted ==
  /\ \A s \in sent : \E t \in 1 .. server.tick : s = AsSent(history[t])
  /\ \A d \in deltas : Encoded(d)

(* A world in which nothing lives.                                         *)
LEMMA NothingLives ==
  ASSUME NEW t \in Nat, NEW w, w = [NoWorld EXCEPT !.tick = t]
  PROVE  WorldSound(w) /\ w.tick = t /\ \A i \in Nat \ {0} : ~SlotLive(w.entities, i)
<1>1. WorldSound(w) /\ w.tick = t /\ w.entities.generations = <<>>
  BY NothingSound
<1>2. Len(w.entities.generations) = 0
  BY <1>1
<1> QED BY <1>1, <1>2 DEF SlotLive, SlotCount

LEMMA EmptyWorld ==
  WorldSound(NoWorld) /\ NoWorld.tick = 0 /\ \A i \in Nat \ {0} : ~SlotLive(NoWorld.entities, i)
<1>1. NoWorld = [NoWorld EXCEPT !.tick = 0]
  BY DEF NoWorld
<1> QED BY <1>1, NothingLives

(* A delta as encoded from the world of tick t against baseline b, which   *)
(* stands for world v.                                                     *)
From(d, t, v, b) ==
  /\ d = EncodeDelta(history[t], b) /\ WorldSound(v) /\ StandsFor(b, v)
  /\ \/ b = NONE /\ v = NoWorld /\ d.baseline = NONE
     \/ \E u \in 1 .. server.tick : v = SentWorld(history[u]) /\ d.baseline = u /\ u # NONE

(* The world that a delta's baseline stands for.                           *)
LEMMA EncodedAgainst ==
  ASSUME Chronicle, NEW d, Encoded(d)
  PROVE  \E t \in 1 .. server.tick : \E v, b : From(d, t, v, b)
<1>1. PICK t \in 1 .. server.tick :
        \/ d = EncodeDelta(history[t], NONE)
        \/ \E u \in 1 .. server.tick : d = EncodeDelta(history[t], AsSent(history[u]))
  BY DEF Encoded
<1>2. ASSUME d = EncodeDelta(history[t], NONE) PROVE From(d, t, NoWorld, NONE)
  <2>1. StandsFor(NONE, NoWorld) /\ WorldSound(NoWorld)
    BY EmptyWorld DEF StandsFor
  <2>2. d.baseline = NONE
    BY <1>2 DEF EncodeDelta, HasBaseline
  <2> QED BY <1>2, <2>1, <2>2 DEF From
<1>3. ASSUME NEW u \in 1 .. server.tick, d = EncodeDelta(history[t], AsSent(history[u]))
      PROVE  From(d, t, SentWorld(history[u]), AsSent(history[u]))
  <2> DEFINE h == history[u]
             v == SentWorld(h)
             b == AsSent(h)
  <2>1. WorldSound(h) /\ h.tick = u
    BY DEF Chronicle
  <2>2. WorldSound(v) /\ v.tick = u /\ Snapshot(v) = b
    BY <2>1, SentWorldSound
  <2>3. HasBaseline(b) /\ b.tick = u
    BY <2>2, BaselineFacts
  <2>4. d.baseline = u
    BY <1>3, <2>3 DEF EncodeDelta
  <2>5. server.tick \in Nat
    BY DEF Chronicle, WorldSound
  <2>6. u # NONE
    BY <2>5, DeltaAssumption
  <2>7. StandsFor(b, v)
    BY <2>2 DEF StandsFor
  <2> QED BY <1>3, <2>2, <2>4, <2>6, <2>7 DEF From
<1> QED BY <1>1, <1>2, <1>3

LEMMA PostedTick ==
  ASSUME Chronicle, Posted, EndTick PROVE Posted'
<1> DEFINE n == server.tick
           w == [server EXCEPT !.tick = @ + 1]
<1>1. /\ n \in Nat /\ server'.tick = n + 1 /\ history'[n + 1] = server'
      /\ \A t \in 1 .. n : history'[t] = history[t]
  BY ChronicleTick
<1>2. /\ server' = w
      /\ deltas' = deltas \cup {EncodeDelta(w, Baseline)}
      /\ sent' \subseteq sent \cup {AsSent(w)}
  BY DEF EndTick, RingStore
<1> HIDE DEF w, n
<1>3. n + 1 \in 1 .. n + 1 /\ \A t \in 1 .. n : t \in 1 .. n + 1
  BY <1>1
<1>4. ASSUME NEW s \in sent' PROVE \E t \in 1 .. n + 1 : s = AsSent(history'[t])
  <2>1. CASE s = AsSent(w)
    BY <1>1, <1>2, <1>3, <2>1
  <2>2. CASE s \in sent
    <3>1. PICK t \in 1 .. n : s = AsSent(history[t])
      BY <2>2 DEF Posted, n
    <3> QED BY <1>1, <1>3, <3>1
  <2> QED BY <1>2, <1>4, <2>1, <2>2
<1>5. ASSUME NEW d \in deltas'
      PROVE  \E t \in 1 .. n + 1 :
               \/ d = EncodeDelta(history'[t], NONE)
               \/ \E u \in 1 .. n + 1 : d = EncodeDelta(history'[t], AsSent(history'[u]))
  <2>1. CASE d = EncodeDelta(w, Baseline)
    <3>1. CASE Baseline = NONE
      BY <1>1, <1>2, <1>3, <2>1, <3>1
    <3>2. CASE Baseline # NONE
      <4>1. Baseline = RingGet(sent, acked) /\ RingHas(sent, acked)
        BY <3>2 DEF Baseline
      <4>2. Baseline \in sent
        BY <4>1 DEF RingHas, RingGet
      <4>3. PICK u \in 1 .. n : Baseline = AsSent(history[u])
        BY <4>2 DEF Posted, n
      <4> QED BY <1>1, <1>2, <1>3, <2>1, <4>3
    <3> QED BY <3>1, <3>2
  <2>2. CASE d \in deltas
    <3>1. PICK t \in 1 .. n :
            \/ d = EncodeDelta(history[t], NONE)
            \/ \E u \in 1 .. n : d = EncodeDelta(history[t], AsSent(history[u]))
      BY <2>2 DEF Posted, Encoded, n
    <3>2. t \in 1 .. n + 1 /\ history'[t] = history[t]
      BY <1>1, <1>3
    <3>3. CASE d = EncodeDelta(history[t], NONE)
      BY <3>2, <3>3
    <3>4. ASSUME NEW u \in 1 .. n, d = EncodeDelta(history[t], AsSent(history[u]))
          PROVE  \E x \in 1 .. n + 1 : d = EncodeDelta(history'[t], AsSent(history'[x]))
      BY <1>1, <1>3, <3>2, <3>4
    <3> QED BY <3>1, <3>2, <3>3, <3>4
  <2> QED BY <1>2, <1>5, <2>1, <2>2
<1> QED BY <1>1, <1>4, <1>5 DEF Posted, Encoded

LEMMA PostedStep == ASSUME Chronicle, Posted, [Next]_vars PROVE Posted'
<1>1. WorldSound(server)
  BY DEF Chronicle
<1>2. CASE EndTick
  BY <1>2, PostedTick
<1>3. CASE server'.tick = server.tick /\ UNCHANGED <<past, sent, deltas, history>>
  BY <1>3 DEF Posted, Encoded
<1> QED BY <1>1, <1>2, <1>3, Ticks

LEMMA PostedInit == Init => Posted
BY DEF Init, Posted

(***************************************************************************)
(* The replica.                                                            *)
(***************************************************************************)
LEMMA OnlyReceives ==
  ASSUME WorldSound(server), [Next]_vars
  PROVE  UNCHANGED <<client, held>> \/ \E d \in deltas : ReceiveDelta(d)
<1>1. ASSUME NEW w, Simulate(w) PROVE UNCHANGED <<client, held>>
  BY <1>1 DEF Simulate, clientVars
<1>2. CASE SpawnEntity
  BY <1>1, <1>2 DEF SpawnEntity
<1>3. ASSUME NEW e \in Entities(server.entities), DespawnEntity(e) PROVE UNCHANGED <<client, held>>
  BY <1>1, <1>3 DEF DespawnEntity
<1>4. ASSUME NEW e, NEW c \in Components, InsertEmpty(e, c) \/ Drop(e, c)
      PROVE  UNCHANGED <<client, held>>
  BY <1>1, <1>4 DEF InsertEmpty, Drop
<1>5. ASSUME NEW e, NEW c \in Components, NEW f \in Fields, NEW v \in NewValues, Write(e, c, f, v)
      PROVE  UNCHANGED <<client, held>>
  BY <1>1, <1>5 DEF Write
<1>6. CASE EndTick
  BY <1>6 DEF EndTick, clientVars
<1>7. ASSUME NEW t \in acks, ReceiveAck(t) PROVE UNCHANGED <<client, held>>
  BY <1>7 DEF ReceiveAck, clientVars
<1>8. CASE UNCHANGED vars
  BY <1>8 DEF vars
<1> QED BY <1>2, <1>3, <1>4, <1>5, <1>6, <1>7, <1>8 DEF Next

(* Nothing that arrives, in whatever order and against whatever copy, and  *)
(* nothing that is kept to apply a later delta to, is less than a world.   *)
Replica ==
  /\ WorldSound(client)
  /\ \A s \in held : WorldSound(Restore(NoWorld, s))

LEMMA BaseSound ==
  ASSUME Replica, NEW d, Acknowledged => Holds(d) PROVE WorldSound(Base(d))
<1>1. CASE ~Acknowledged
  BY <1>1 DEF Base, Replica
<1>2. CASE Acknowledged /\ d.baseline = NONE
  <2>1. client.tick \in Nat
    BY DEF Replica, WorldSound
  <2>2. Base(d) = [NoWorld EXCEPT !.tick = client.tick]
    BY <1>2 DEF Base, ClearEntities
  <2> QED BY <2>1, <2>2, NothingLives
<1>3. CASE Acknowledged /\ d.baseline # NONE
  <2>1. RingGet(held, d.baseline) \in held
    BY <1>3 DEF Holds, RingHas, RingGet
  <2>2. Base(d) = Restore(NoWorld, RingGet(held, d.baseline))
    BY <1>3 DEF Base, Restore
  <2> QED BY <2>1, <2>2 DEF Replica
<1> QED BY <1>1, <1>2, <1>3

LEMMA ReplicaStep ==
  ASSUME Chronicle, Posted, Replica, [Next]_vars PROVE Replica'
<1>1. CASE UNCHANGED <<client, held>>
  BY <1>1 DEF Replica
<1>2. ASSUME NEW d \in deltas, ReceiveDelta(d) PROVE Replica'
  <2> DEFINE result == ApplyDelta(Base(d), d)
             new == result.world
  <2>1. /\ Acknowledged => Holds(d)
        /\ client' = new /\ held' \subseteq held \cup {Snapshot(new)}
    BY <1>2 DEF ReceiveDelta, RingStore
  <2>2. WorldSound(Base(d))
    BY <2>1, BaseSound
  <2>3. PICK t \in 1 .. server.tick : \E v, b : From(d, t, v, b)
    BY EncodedAgainst DEF Posted
  <2>4. DeltaTyped(d)
    BY <2>3, EncodedTyped DEF Chronicle, From
  <2>5. WorldSound(new)
    BY <2>2, <2>4, ApplySound
  <2> HIDE DEF new
  <2>6. WorldSound(Restore(NoWorld, Snapshot(new)))
    BY <2>5, RestoredWorld
  <2> QED BY <2>1, <2>5, <2>6 DEF Replica
<1>3. WorldSound(server)
  BY DEF Chronicle
<1> QED BY <1>1, <1>2, <1>3, OnlyReceives

LEMMA ReplicaInit == Init => Replica
<1> SUFFICES ASSUME Init PROVE Replica
  OBVIOUS
<1>1. client = NoWorld /\ held = {}
  BY DEF Init
<1> QED BY <1>1, EmptyWorld DEF Replica

LEMMA SoundClean == ASSUME NEW w, WorldSound(w) PROVE Clean(w)
BY DEF WorldSound, AllocatorSound, Accounted, Clean

(* Nothing of the dead is left and no slot is miscounted, in the replica   *)
(* either: whichever deltas arrive, repeatedly or out of order, against    *)
(* the baseline they were made for or, as in the demo, another.            *)
THEOREM DeadSlotsStayClean == Spec => []DeadSlotsAreClean
<1> DEFINE Inv == CInv /\ Chronicle /\ Posted /\ Replica
<1>1. Init => Inv
  BY AuthorityInit, ChronicleInit, PostedInit, ReplicaInit DEF CInv
<1>2. Inv /\ [Next]_vars => Inv'
  BY AuthorityStep, ChronicleStep, PostedStep, ReplicaStep DEF CInv
<1>3. Inv => DeadSlotsAreClean
  <2> SUFFICES ASSUME Inv PROVE DeadSlotsAreClean
    OBVIOUS
  <2>1. Clean(server) /\ Clean(client)
    BY SoundClean DEF CInv, Replica
  <2>2. Len(server.entities.free) + server.entities.live = SlotCount(server.entities)
    BY DEF CInv, NoneLost, SlotCount
  <2> QED BY <2>1, <2>2 DEF DeadSlotsAreClean, AuthorityIsClean
<1> HIDE DEF Inv
<1> QED BY <1>1, <1>2, <1>3, PTL DEF Spec

(* What is told of a world is nothing if, and only if, it looks to the     *)
(* receiver like the one it has (delta.rs:7-18): for every quantization.   *)
THEOREM SilentIffUnchanged == Spec => []UnchangedIsSilent
<1> DEFINE Inv == Chronicle /\ Posted
<1>1. Init => Inv
  BY ChronicleInit, PostedInit
<1>2. Inv /\ [Next]_vars => Inv'
  BY ChronicleStep, PostedStep
<1>3. Inv => UnchangedIsSilent
  <2> SUFFICES ASSUME Chronicle, Posted, NEW s \in sent
               PROVE  (DOMAIN EncodeDelta(server, s).entries = {})
                        <=> (ObservedSent(server) = Observed(Restore(NoWorld, s)))
    BY DEF UnchangedIsSilent
  <2>1. PICK t \in 1 .. server.tick : s = AsSent(history[t])
    BY DEF Posted
  <2> DEFINE v == SentWorld(history[t])
             g == SentWorld(server)
             E == DOMAIN Entries(server, s)
  <2>2. WorldSound(server) /\ WorldSound(history[t])
    BY DEF Chronicle
  <2>3. WorldSound(v) /\ Snapshot(v) = s /\ WorldSound(g)
    BY <2>1, <2>2, SentWorldSound
  <2>4. Restore(NoWorld, s) = v /\ ObservedSent(server) = Observed(g)
    BY <2>2, <2>3, RestoredWorld, ObservedAsSent
  <2> HIDE DEF v
  <2>5. StandsFor(s, v)
    BY <2>3 DEF StandsFor
  <2>6. \A i \in Nat \ {0} : i \in E <=> ~SameSlot(g, v, i)
    BY <2>2, <2>3, <2>5, ReportedIff
  <2>7. E \subseteq Nat \ {0} /\ EncodeDelta(server, s).entries = Entries(server, s)
    BY <2>2, <2>3, <2>5, EncodedTyped DEF DeltaTyped
  <2> HIDE DEF g, E
  <2>8. E = {} <=> Alike(g, v)
    BY <2>6, <2>7 DEF Alike
  <2>9. Alike(g, v) <=> Observed(g) = Observed(v)
    BY <2>3, ObservedAlike
  <2> QED BY <2>4, <2>7, <2>8, <2>9 DEF E
<1> HIDE DEF Inv
<1> QED BY <1>1, <1>2, <1>3, PTL DEF Spec

(***************************************************************************)
(* With acknowledged baselines, the replica is the server's world.         *)
(***************************************************************************)
(* The replica, and each state it keeps, is what the server's world of     *)
(* that tick was sent as.                                                  *)
Mirror(w) == w.tick \in 1 .. server.tick /\ Alike(w, SentWorld(history[w.tick]))

Mirrored ==
  /\ client.tick > 0 => Mirror(client)
  /\ \A s \in held : Mirror(Restore(NoWorld, s))

(* The past does not change.                                               *)
LEMMA MirrorStays ==
  ASSUME Chronicle, [Next]_vars, NEW w, Mirror(w)
  PROVE  w.tick \in 1 .. server'.tick /\ Alike(w, SentWorld(history'[w.tick]))
<1>1. WorldSound(server)
  BY DEF Chronicle
<1>2. CASE EndTick
  <2>1. /\ server.tick \in Nat /\ server'.tick = server.tick + 1
        /\ \A t \in 1 .. server.tick : history'[t] = history[t]
    BY <1>2, ChronicleTick
  <2>2. w.tick \in 1 .. server.tick + 1
    BY <2>1 DEF Mirror
  <2> QED BY <2>1, <2>2 DEF Mirror
<1>3. CASE server'.tick = server.tick /\ UNCHANGED <<past, sent, deltas, history>>
  BY <1>3 DEF Mirror
<1> QED BY <1>1, <1>2, <1>3, Ticks

LEMMA BaseMirrors ==
  ASSUME Acknowledged, Chronicle, Replica, Mirrored, NEW d, Holds(d), NEW v,
         \/ v = NoWorld /\ d.baseline = NONE
         \/ \E u \in 1 .. server.tick : v = SentWorld(history[u]) /\ d.baseline = u /\ u # NONE
  PROVE  Alike(Base(d), v)
<1>1. CASE v = NoWorld /\ d.baseline = NONE
  <2>1. client.tick \in Nat
    BY DEF Replica, WorldSound
  <2>2. Base(d) = [NoWorld EXCEPT !.tick = client.tick]
    BY <1>1 DEF Base, ClearEntities
  <2>3. \A i \in Nat \ {0} : ~SlotLive(Base(d).entities, i) /\ ~SlotLive(v.entities, i)
    BY <1>1, <2>1, <2>2, NothingLives, EmptyWorld
  <2> QED BY <2>3 DEF Alike, SameSlot
<1>2. ASSUME NEW u \in 1 .. server.tick, v = SentWorld(history[u]), d.baseline = u, u # NONE
      PROVE  Alike(Base(d), v)
  <2> DEFINE s == RingGet(held, d.baseline)
  <2>1. s \in held /\ s.tick = u
    BY <1>2 DEF Holds, RingHas, RingGet
  <2>2. Base(d) = Restore(NoWorld, s) /\ Restore(NoWorld, s).tick = s.tick
    BY <1>2 DEF Base, Restore
  <2> QED BY <1>2, <2>1, <2>2 DEF Mirrored, Mirror
<1> QED BY <1>1, <1>2

LEMMA MirroredStep ==
  ASSUME Acknowledged, Chronicle, Posted, Replica, Mirrored, [Next]_vars PROVE Mirrored'
<1>1. CASE UNCHANGED <<client, held>>
  <2>1. client.tick > 0 =>
          client.tick \in 1 .. server'.tick /\ Alike(client, SentWorld(history'[client.tick]))
    BY MirrorStays DEF Mirrored
  <2>2. \A s \in held :
          LET w == Restore(NoWorld, s)
          IN w.tick \in 1 .. server'.tick /\ Alike(w, SentWorld(history'[w.tick]))
    BY MirrorStays DEF Mirrored
  <2> QED BY <1>1, <2>1, <2>2 DEF Mirrored, Mirror
<1>2. ASSUME NEW d \in deltas, ReceiveDelta(d) PROVE Mirrored'
  <2> DEFINE new == ApplyDelta(Base(d), d).world
  <2>1. /\ Holds(d) /\ client' = new /\ held' \subseteq held \cup {Snapshot(new)}
        /\ server' = server /\ history' = history
    BY <1>2 DEF ReceiveDelta, RingStore, wireVars
  <2>2. PICK t \in 1 .. server.tick : \E v, b : From(d, t, v, b)
    BY EncodedAgainst DEF Posted
  <2>3. PICK v, b : From(d, t, v, b)
    BY <2>2
  <2>4. WorldSound(Base(d)) /\ WorldSound(history[t]) /\ history[t].tick = t
    BY <2>1, BaseSound DEF Chronicle
  <2>5. Alike(Base(d), v)
    BY <2>1, <2>3, BaseMirrors DEF From
  <2>6. WorldSound(new) /\ new.tick = t /\ Alike(new, SentWorld(history[t]))
    BY <2>3, <2>4, <2>5, DeltaCarries DEF From
  <2> HIDE DEF new
  <2>7. Restore(NoWorld, Snapshot(new)) = new
    BY <2>6, RestoredWorld
  <2>8. Mirror(new)
    BY <2>6 DEF Mirror
  <2> QED BY <2>1, <2>7, <2>8 DEF Mirrored, Mirror
<1>3. WorldSound(server)
  BY DEF Chronicle
<1> QED BY <1>1, <1>2, <1>3, OnlyReceives

LEMMA MirroredInit == Init => Mirrored
<1> SUFFICES ASSUME Init PROVE Mirrored
  OBVIOUS
<1>1. client.tick = 0 /\ held = {}
  BY EmptyWorld DEF Init
<1> QED BY <1>1 DEF Mirrored

(* A replica that receives deltas against states it has acknowledged is    *)
(* the server's world at the replica's tick, as quantized, however many    *)
(* deltas and acknowledgements were lost, repeated and reordered, and      *)
(* whatever the rings of baselines have forgotten (wire-protocol.md:300).  *)
THEOREM ReceiverHoldsWhatWasSent ==
  ASSUME Acknowledged = TRUE PROVE Spec => []ReceiverHoldsSent
<1> DEFINE Inv == Chronicle /\ Posted /\ Replica /\ Mirrored
<1>1. Init => Inv
  BY ChronicleInit, PostedInit, ReplicaInit, MirroredInit
<1>2. Inv /\ [Next]_vars => Inv'
  BY ChronicleStep, PostedStep, ReplicaStep, MirroredStep
<1>3. Inv => ReceiverHoldsSent
  <2> SUFFICES ASSUME Chronicle, Replica, Mirrored, client.tick > 0
               PROVE  Observed(client) = ObservedSent(history[client.tick])
    BY DEF ReceiverHoldsSent
  <2> DEFINE h == history[client.tick]
  <2>1. client.tick \in 1 .. server.tick /\ Alike(client, SentWorld(h))
    BY DEF Mirrored, Mirror
  <2>2. WorldSound(client) /\ WorldSound(h)
    BY <2>1 DEF Chronicle, Replica
  <2> HIDE DEF h
  <2>3. WorldSound(SentWorld(h)) /\ ObservedSent(h) = Observed(SentWorld(h))
    BY <2>2, SentWorldSound, ObservedAsSent
  <2> QED BY <2>1, <2>2, <2>3, ObservedAlike DEF h
<1> HIDE DEF Inv
<1> QED BY <1>1, <1>2, <1>3, PTL DEF Spec
=============================================================================
