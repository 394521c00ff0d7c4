------------------------- MODULE RollbackMesh_proofs -------------------------
(***************************************************************************)
(* Proofs about rollback sessions, for any players, inputs, window, input  *)
(* history and input delay, and any number of peers and ticks.  The        *)
(* invariant behind them speaks of one session: its world has as many      *)
(* frames as ticks, every saved state is a prefix of the world, and, until *)
(* the world is replaced, every prefix within the window is saved.         *)
(***************************************************************************)
EXTENDS RollbackMesh, SequenceTheorems, WellFoundedInduction, TLAPS

(* What rollback restores is the past of the present world.                *)
SavedPast(s) ==
  \A x \in s.saved : Len(x) < s.current /\ x = SubSeq(s.world, 1, Len(x))

Sound(s) == s \in Session /\ Len(s.world) = s.current /\ SavedPast(s)

Covered(s) == \A t \in 1 .. s.current : InWindow(s, t) => IsSaved(s, t - 1)

Given == [player : Players, tick : Ticks, input : Inputs]

IInv ==
  /\ game \in Games
  /\ given \subseteq Given
  /\ resyncs \in [Peers -> Nat]
  /\ session \in [Peers -> Session]
  /\ \A p \in Peers : Sound(session[p]) /\ (resyncs[p] = 0 => Covered(session[p]))

(***************************************************************************)
(* The ring of saved states: ticks less than its size apart do not share a *)
(* slot.                                                                   *)
(***************************************************************************)
LEMMA NoSharedSlot ==
  ASSUME NEW R \in Nat, R > 0, NEW a \in Nat, NEW b \in Nat, b < a, a - b < R
  PROVE  a % R # b % R
<1> DEFINE d == (a \div R) - (b \div R)
<1>1. /\ a = R * (a \div R) + (a % R) /\ b = R * (b \div R) + (b % R)
      /\ a \div R \in Int /\ b \div R \in Int /\ a % R \in Int /\ b % R \in Int
  OBVIOUS
<1>2. R * d = R * (a \div R) - R * (b \div R) /\ d \in Int
  BY <1>1
<1> SUFFICES ASSUME a % R = b % R PROVE FALSE
  OBVIOUS
<1>3. R * d = a - b
  BY <1>1, <1>2
<1> HIDE DEF d
<1>4. d >= 1 => R * d >= R
  BY <1>2
<1>5. d <= 0 => R * d <= 0
  BY <1>2
<1> QED BY <1>2, <1>3, <1>4, <1>5

LEMMA RingIsWide == Ring \in Nat /\ Ring > MaxRollback /\ Ring > 0
BY RollbackAssumption DEF Ring

(***************************************************************************)
(* The input queue returns and keeps inputs.                               *)
(***************************************************************************)
LEMMA InputForType ==
  ASSUME NEW q \in PlayerInputs, NEW t PROVE InputFor(q, t) \in Inputs
<1>1. CASE Known(q, t)
  <2> DEFINE e == CHOOSE e \in q.slots : e.tick = t
  <2>1. e \in q.slots
    BY <1>1 DEF Known
  <2>2. e \in Entry
    BY <2>1 DEF PlayerInputs
  <2> QED BY <1>1, <2>2 DEF InputFor, Entry
<1>2. CASE ~Known(q, t)
  BY <1>2 DEF InputFor, PlayerInputs
<1> QED BY <1>1, <1>2

LEMMA ConfirmType ==
  ASSUME NEW q \in PlayerInputs, NEW t \in Ticks, NEW input \in Inputs
  PROVE  Confirm(q, t, input) \in PlayerInputs
<1> DEFINE c == Confirm(q, t, input)
<1>1. c.slots \subseteq q.slots \cup {[tick |-> t, input |-> input, confirmed |-> TRUE]}
  BY DEF Confirm, Put
<1>2. c.slots \in SUBSET Entry
  <2>1. q.slots \subseteq Entry
    BY DEF PlayerInputs
  <2>2. [tick |-> t, input |-> input, confirmed |-> TRUE] \in Entry
    BY DEF Entry
  <2> HIDE DEF c
  <2> QED BY <1>1, <2>1, <2>2
<1>3. c.last_confirmed \in Nat /\ c.last_known \in Inputs
  BY DEF Confirm, PlayerInputs, Ticks
<1>4. c = [slots |-> c.slots, last_confirmed |-> c.last_confirmed, last_known |-> c.last_known]
  BY DEF Confirm
<1> QED BY <1>2, <1>3, <1>4 DEF PlayerInputs

LEMMA PredictType ==
  ASSUME NEW q \in PlayerInputs, NEW first \in Ticks, NEW last \in Nat
  PROVE  Predict(q, first, last) \in PlayerInputs
<1> DEFINE c == Predict(q, first, last)
           missing == {t \in first .. last : ~Known(q, t)}
           new == {[tick |-> t, input |-> q.last_known, confirmed |-> FALSE] : t \in missing}
<1>1. q = [slots |-> q.slots, last_confirmed |-> q.last_confirmed, last_known |-> q.last_known]
      /\ q.slots \subseteq Entry /\ q.last_known \in Inputs /\ q.last_confirmed \in Nat
  BY DEF PlayerInputs
<1>2. new \subseteq Entry
  <2> SUFFICES ASSUME NEW t \in missing
               PROVE  [tick |-> t, input |-> q.last_known, confirmed |-> FALSE] \in Entry
    OBVIOUS
  <2>1. t \in Ticks
    BY DEF Ticks
  <2> QED BY <1>1, <2>1 DEF Entry
<1>3. c.slots \subseteq q.slots \cup new
  BY <1>1 DEF Predict
<1>4. c = [slots |-> c.slots, last_confirmed |-> q.last_confirmed, last_known |-> q.last_known]
  <2> DEFINE kept == {x \in q.slots : \A t \in missing : ~SameSlot(x.tick, t)} \cup new
  <2>1. c = [q EXCEPT !.slots = kept]
    BY DEF Predict
  <2> HIDE DEF c, kept
  <2> QED BY <1>1, <2>1
<1>5. c.slots \in SUBSET Entry
  <2> HIDE DEF c, new
  <2> QED BY <1>1, <1>2, <1>3
<1> HIDE DEF c
<1>6. c \in PlayerInputs
  BY <1>1, <1>4, <1>5 DEF PlayerInputs
<1> QED BY <1>6 DEF c

LEMMA FramesType ==
  ASSUME NEW s \in Session
  PROVE  /\ \A t : FrameAt(s, t) \in Frame
         /\ \A first \in Ticks, last \in Nat :
              Predicted(s, first, last) \in [Players -> PlayerInputs]
BY InputForType, PredictType DEF FrameAt, Predicted, Frame, Session

(***************************************************************************)
(* Worlds and their prefixes.                                              *)
(***************************************************************************)
LEMMA PrefixType ==
  ASSUME NEW w \in Seq(Frame), NEW n \in 0 .. Len(w)
  PROVE  /\ SubSeq(w, 1, n) \in Seq(Frame)
         /\ Len(SubSeq(w, 1, n)) = n
         /\ \A k \in 1 .. n : SubSeq(w, 1, n)[k] = w[k]
<1>1. n \in Int /\ 1 \in Int /\ \A k \in 1 .. n : w[k] \in Frame
  BY ElementOfSeq
<1> DEFINE x == SubSeq(w, 1, n)
<1>2. x \in Seq(Frame) /\ Len(x) = (IF 1 <= n THEN n - 1 + 1 ELSE 0)
      /\ \A k \in 1 .. n - 1 + 1 : x[k] = w[1 + k - 1]
  BY <1>1, SubSeqProperties
<1> HIDE DEF x
<1>3. x \in Seq(Frame) /\ Len(x) = n /\ \A k \in 1 .. n : x[k] = w[k]
  BY <1>1, <1>2
<1> QED BY <1>3 DEF x

LEMMA SamePrefix ==
  ASSUME NEW v \in Seq(Frame), NEW w \in Seq(Frame), NEW n \in 0 .. Len(v), n <= Len(w),
         \A k \in 1 .. n : v[k] = w[k]
  PROVE  SubSeq(v, 1, n) = SubSeq(w, 1, n)
<1>1. /\ SubSeq(v, 1, n) \in Seq(Frame) /\ SubSeq(w, 1, n) \in Seq(Frame)
      /\ Len(SubSeq(v, 1, n)) = n /\ Len(SubSeq(w, 1, n)) = n
      /\ \A k \in 1 .. n : SubSeq(v, 1, n)[k] = SubSeq(w, 1, n)[k]
  BY PrefixType
<1> QED BY <1>1, SeqEqual

LEMMA FullPrefix ==
  ASSUME NEW w \in Seq(Frame) PROVE SubSeq(w, 1, Len(w)) = w
<1>1. Len(w) \in 0 .. Len(w)
  OBVIOUS
<1>2. /\ SubSeq(w, 1, Len(w)) \in Seq(Frame) /\ Len(SubSeq(w, 1, Len(w))) = Len(w)
      /\ \A k \in 1 .. Len(w) : SubSeq(w, 1, Len(w))[k] = w[k]
  BY <1>1, PrefixType
<1> QED BY <1>2, SeqEqual

LEMMA SavedAtType ==
  ASSUME NEW s \in Session, NEW t, IsSaved(s, t)
  PROVE  SavedAt(s, t) \in s.saved /\ SavedAt(s, t) \in Seq(Frame) /\ Len(SavedAt(s, t)) = t
<1>1. SavedAt(s, t) \in s.saved /\ Len(SavedAt(s, t)) = t
  BY DEF SavedAt, IsSaved
<1> QED BY <1>1 DEF Session

(***************************************************************************)
(* One session, operation by operation.                                    *)
(***************************************************************************)
LEMMA NewSound == Sound(NewSession) /\ Covered(NewSession)
<1>1. NoInputs \in PlayerInputs
  BY InputQueueAssumption DEF NoInputs, PlayerInputs
<1>2. NewSession \in Session
  BY <1>1 DEF NewSession, Session
<1> QED BY <1>2 DEF Sound, SavedPast, Covered, NewSession

(* An input only changes the queue of its player.                          *)
LEMMA ConfirmedSound ==
  ASSUME NEW s, Sound(s), NEW p \in Players, NEW t \in Ticks, NEW input \in Inputs
  PROVE  /\ Sound(Confirmed(s, p, t, input))
         /\ Covered(s) => Covered(Confirmed(s, p, t, input))
<1> DEFINE u == Confirmed(s, p, t, input)
<1>1. s \in Session
  BY DEF Sound
<1>2. Confirm(s.inputs[p], t, input) \in PlayerInputs
  BY <1>1, ConfirmType DEF Session
<1>3. u \in Session
  BY <1>1, <1>2 DEF Confirmed, Session
<1>4. u.world = s.world /\ u.saved = s.saved /\ u.current = s.current
  BY <1>1 DEF Confirmed, Session
<1> HIDE DEF u
<1>5. Sound(u)
  BY <1>3, <1>4 DEF Sound, SavedPast
<1>6. Covered(s) => Covered(u)
  BY <1>4 DEF Covered, InWindow, IsSaved
<1> QED BY <1>5, <1>6 DEF u

LEMMA AdvanceSound ==
  ASSUME NEW s, Sound(s)
  PROVE  Sound(Advance(s)) /\ (Covered(s) => Covered(Advance(s)))
<1> DEFINE u == Advance(s)
           t == s.current + 1
<1>1. /\ s \in Session /\ s.world \in Seq(Frame) /\ s.current \in Nat /\ s.saved \subseteq Seq(Frame)
      /\ Len(s.world) = s.current
  BY DEF Sound, Session
<1>2. /\ u.world = Append(s.world, FrameAt(s, t)) /\ u.saved = Store(s.saved, {s.world})
      /\ u.current = t /\ u.refused = s.refused /\ u.inputs = Predicted(s, t, t)
  BY <1>1 DEF Advance, Session
<1>3. FrameAt(s, t) \in Frame /\ Predicted(s, t, t) \in [Players -> PlayerInputs]
  BY <1>1, FramesType DEF Ticks
<1>4. u.world \in Seq(Frame) /\ Len(u.world) = t /\ \A k \in 1 .. s.current : u.world[k] = s.world[k]
  BY <1>1, <1>2, <1>3
<1>5. u.saved \subseteq Seq(Frame)
  BY <1>1, <1>2 DEF Store
<1>6. u \in Session
  <2> DEFINE i == Predicted(s, t, t)
             w == Append(s.world, FrameAt(s, t))
             v == Store(s.saved, {s.world})
  <2>1. DOMAIN s = {"inputs", "world", "saved", "current", "refused"}
        /\ s = [inputs |-> s.inputs, world |-> s.world, saved |-> s.saved,
                current |-> s.current, refused |-> s.refused]
        /\ s.refused \in BOOLEAN
    BY <1>1 DEF Session
  <2>2. u = [s EXCEPT !.saved = v, !.inputs = i, !.world = w, !.current = t]
    BY DEF Advance
  <2>3. i \in [Players -> PlayerInputs] /\ w \in Seq(Frame) /\ v \in SUBSET Seq(Frame) /\ t \in Nat
    <3> HIDE DEF u
    <3>1. i = u.inputs /\ w = u.world /\ v = u.saved
      BY <1>2
    <3> HIDE DEF i, w, v
    <3>2. t \in Nat
      BY <1>1
    <3> QED BY <3>1, <3>2, <1>2, <1>3, <1>4, <1>5
  <2> HIDE DEF u, i, w, v, t
  <2>4. u = [inputs |-> i, world |-> w, saved |-> v, current |-> t, refused |-> s.refused]
    BY <2>1, <2>2
  <2> QED BY <2>1, <2>3, <2>4 DEF Session
<1> HIDE DEF u
<1>7. SavedPast(u)
  <2> SUFFICES ASSUME NEW x \in u.saved
               PROVE  Len(x) < u.current /\ x = SubSeq(u.world, 1, Len(x))
    BY DEF SavedPast
  <2>1. Len(x) \in 0 .. s.current /\ x = SubSeq(s.world, 1, Len(x))
    <3>1. CASE x = s.world
      BY <3>1, <1>1, FullPrefix
    <3>2. CASE x \in s.saved
      BY <3>2, <1>1 DEF Sound, SavedPast
    <3> QED BY <3>1, <3>2, <1>2 DEF Store
  <2>2. SubSeq(s.world, 1, Len(x)) = SubSeq(u.world, 1, Len(x))
    BY <2>1, <1>1, <1>4, SamePrefix
  <2> QED BY <2>1, <2>2, <1>1, <1>2
<1>8. ASSUME Covered(s) PROVE Covered(u)
  <2> SUFFICES ASSUME NEW v \in 1 .. u.current, InWindow(u, v) PROVE IsSaved(u, v - 1)
    BY DEF Covered
  <2>1. CASE v - 1 = s.current
    BY <2>1, <1>1, <1>2 DEF IsSaved, Store
  <2>2. CASE v - 1 < s.current
    <3>1. v \in 1 .. s.current /\ InWindow(s, v)
      BY <2>2, <1>1, <1>2, RollbackAssumption DEF InWindow
    <3>2. PICK x \in s.saved : Len(x) = v - 1
      BY <3>1, <1>8 DEF Covered, IsSaved
    <3>3. v - 1 \in Nat /\ s.current - (v - 1) < Ring
      BY <2>2, <1>1, <1>2, RollbackAssumption, RingIsWide DEF InWindow
    <3>4. Len(x) % Ring # Len(s.world) % Ring
      <4>1. s.current % Ring # (v - 1) % Ring
        BY <3>3, <2>2, <1>1, RingIsWide, NoSharedSlot
      <4> QED BY <4>1, <3>2, <1>1
    <3>5. x \in u.saved
      BY <3>2, <3>4, <1>2 DEF Store
    <3> QED BY <3>2, <3>5 DEF IsSaved
  <2> QED BY <2>1, <2>2, <1>1, <1>2
<1> QED BY <1>1, <1>2, <1>4, <1>6, <1>7, <1>8 DEF Sound, u

LEMMA ResimulateSound ==
  ASSUME NEW s, Sound(s), NEW t \in 1 .. s.current, IsSaved(s, t - 1)
  PROVE  Sound(Resimulate(s, t)) /\ (Covered(s) => Covered(Resimulate(s, t)))
<1> DEFINE base == SavedAt(s, t - 1)
           i == Predicted(s, t, s.current)
           w == [k \in 1 .. s.current |-> IF k < t THEN base[k] ELSE FrameAt(s, k)]
           anew == {SubSeq(w, 1, n) : n \in t - 1 .. s.current - 1}
           v == Store(s.saved, anew)
           u == Resimulate(s, t)
<1>1. /\ s \in Session /\ s.world \in Seq(Frame) /\ s.current \in Nat /\ s.saved \subseteq Seq(Frame)
      /\ Len(s.world) = s.current /\ t \in Nat
  BY DEF Sound, Session
<1>2. /\ base \in s.saved /\ base \in Seq(Frame) /\ Len(base) = t - 1
      /\ base = SubSeq(s.world, 1, t - 1)
  BY <1>1, SavedAtType DEF Sound, SavedPast
<1>3. \A k \in 1 .. t - 1 : base[k] \in Frame /\ base[k] = s.world[k]
  <2> HIDE DEF base
  <2>1. t - 1 \in 0 .. Len(s.world)
    BY <1>1
  <2>2. \A k \in 1 .. t - 1 : SubSeq(s.world, 1, t - 1)[k] = s.world[k]
    BY <2>1, <1>1, PrefixType
  <2> QED BY <2>1, <2>2, <1>1, <1>2, ElementOfSeq
<1>4. i \in [Players -> PlayerInputs] /\ \A k : FrameAt(s, k) \in Frame
  BY <1>1, FramesType DEF Ticks
<1> HIDE DEF base, i
<1>5. w \in Seq(Frame) /\ Len(w) = s.current /\ \A k \in 1 .. t - 1 : w[k] = s.world[k]
  <2>1. \A k \in 1 .. s.current : (IF k < t THEN base[k] ELSE FrameAt(s, k)) \in Frame
    BY <1>1, <1>3, <1>4
  <2>2. w \in [1 .. s.current -> Frame]
    BY <2>1
  <2> QED BY <2>2, <1>1, <1>3
<1> HIDE DEF w
<1>6. \A n \in t - 1 .. s.current - 1 :
        SubSeq(w, 1, n) \in Seq(Frame) /\ Len(SubSeq(w, 1, n)) = n
  BY <1>1, <1>5, PrefixType
<1>7. v \in SUBSET Seq(Frame)
  BY <1>1, <1>6 DEF Store
<1>8. u \in Session /\ u.world = w /\ u.saved = v /\ u.current = s.current
  <2>1. DOMAIN s = {"inputs", "world", "saved", "current", "refused"}
        /\ s.refused \in BOOLEAN
    BY <1>1 DEF Session
  <2>2. u = [s EXCEPT !.inputs = i, !.world = w, !.saved = v]
    BY DEF Resimulate, i, w, base
  <2> HIDE DEF u, v
  <2>3. u = [inputs |-> i, world |-> w, saved |-> v, current |-> s.current, refused |-> s.refused]
    BY <2>1, <2>2, <1>1 DEF Session
  <2> QED BY <2>1, <2>3, <1>1, <1>4, <1>5, <1>7 DEF Session
<1> HIDE DEF u
<1>9. SavedPast(u)
  <2> SUFFICES ASSUME NEW x \in v PROVE Len(x) < s.current /\ x = SubSeq(w, 1, Len(x))
    BY <1>8 DEF SavedPast
  <2>1. CASE x \in anew
    BY <2>1, <1>1, <1>6
  <2>2. CASE x \in s.saved /\ \A y \in anew : Len(x) % Ring # Len(y) % Ring
    <3>1. Len(x) \in Nat /\ Len(x) < s.current /\ x = SubSeq(s.world, 1, Len(x))
      BY <2>2, <1>1 DEF Sound, SavedPast
    <3>2. Len(x) < t - 1
      <4> SUFFICES ASSUME Len(x) >= t - 1 PROVE FALSE
        BY <3>1, <1>1
      <4>1. Len(x) \in t - 1 .. s.current - 1
        BY <3>1, <1>1
      <4>2. SubSeq(w, 1, Len(x)) \in anew /\ Len(SubSeq(w, 1, Len(x))) = Len(x)
        BY <4>1, <1>6
      <4> QED BY <4>2, <2>2
    <3>3. SubSeq(s.world, 1, Len(x)) = SubSeq(w, 1, Len(x))
      BY <3>1, <3>2, <1>1, <1>5, SamePrefix
    <3> QED BY <3>1, <3>3
  <2> QED BY <2>1, <2>2 DEF Store
<1>10. ASSUME Covered(s) PROVE Covered(u)
  <2> SUFFICES ASSUME NEW z \in 1 .. s.current, InWindow(u, z) PROVE \E x \in v : Len(x) = z - 1
    BY <1>8 DEF Covered, IsSaved
  <2>1. CASE z - 1 >= t - 1
    <3>1. z - 1 \in t - 1 .. s.current - 1
      BY <2>1, <1>1
    <3> DEFINE y == SubSeq(w, 1, z - 1)
    <3>2. y \in v
      BY <3>1 DEF Store
    <3>3. Len(y) = z - 1
      BY <3>1, <1>6
    <3> HIDE DEF y
    <3> WITNESS y \in v
    <3> QED BY <3>3
  <2>2. CASE z - 1 < t - 1
    <3>1. InWindow(s, z)
      BY <1>8 DEF InWindow
    <3>2. PICK x \in s.saved : Len(x) = z - 1
      BY <3>1, <1>10 DEF Covered, IsSaved
    <3>3. ASSUME NEW n \in t - 1 .. s.current - 1 PROVE (z - 1) % Ring # n % Ring
      <4>1. /\ z - 1 \in Nat /\ n \in Nat /\ Ring \in Nat /\ Ring > 0
            /\ z - 1 < n /\ n - (z - 1) < Ring
        BY <2>2, <3>1, <1>1, RingIsWide, RollbackAssumption DEF InWindow
      <4> QED BY <4>1, NoSharedSlot
    <3>4. x \in v
      BY <3>2, <3>3, <1>6 DEF Store
    <3> QED BY <3>2, <3>4
  <2>3. z - 1 >= t - 1 \/ z - 1 < t - 1
    BY <1>1
  <2> QED BY <2>1, <2>2, <2>3
<1> QED BY <1>1, <1>5, <1>8, <1>9, <1>10 DEF Sound, u

LEMMA RollbackToSound ==
  ASSUME NEW s, Sound(s), NEW t \in Ticks
  PROVE  Sound(RollbackTo(s, t)) /\ (Covered(s) => Covered(RollbackTo(s, t)))
<1> DEFINE u == [s EXCEPT !.refused = TRUE]
<1>1. s \in Session
  BY DEF Sound
<1>2. u \in Session /\ u.world = s.world /\ u.saved = s.saved /\ u.current = s.current
  BY <1>1 DEF Session
<1> HIDE DEF u
<1>3. Sound(u) /\ (Covered(s) => Covered(u))
  BY <1>2 DEF Sound, SavedPast, Covered, InWindow, IsSaved
<1>4. CASE t <= s.current /\ InWindow(s, t) /\ IsSaved(s, t - 1)
  <2>1. t \in 1 .. s.current
    BY <1>4, <1>1 DEF Ticks, Session
  <2> QED BY <2>1, <1>1, <1>4, ResimulateSound DEF RollbackTo, Session, Ticks
<1>5. CASE t > s.current
  BY <1>5 DEF RollbackTo
<1>6. CASE ~(t > s.current) /\ ~(InWindow(s, t) /\ IsSaved(s, t - 1))
  BY <1>3, <1>6 DEF RollbackTo, u
<1> QED BY <1>1, <1>4, <1>5, <1>6 DEF Session, Ticks

LEMMA SyncTestSound ==
  ASSUME NEW s, Sound(s)
  PROVE  Sound(SyncTest(s)) /\ (Covered(s) => Covered(SyncTest(s)))
<1>1. /\ s \in Session /\ s.world \in Seq(Frame) /\ s.current \in Nat /\ s.saved \subseteq Seq(Frame)
      /\ Len(s.world) = s.current
  BY DEF Sound, Session
<1>2. CASE s.current = 0 \/ ~IsSaved(s, s.current - 1)
  BY <1>2 DEF SyncTest
<1>3. CASE s.current # 0 /\ IsSaved(s, s.current - 1)
  <2> DEFINE n == s.current - 1
             base == SavedAt(s, n)
             w == Append(base, FrameAt(s, s.current))
             i == Predicted(s, s.current, s.current)
             u == SyncTest(s)
  <2>1. n \in 0 .. s.current - 1 /\ n + 1 = s.current
    BY <1>1, <1>3
  <2>2. base \in Seq(Frame) /\ Len(base) = n /\ base = SubSeq(s.world, 1, n)
    BY <1>1, <1>3, SavedAtType DEF Sound, SavedPast
  <2>3. FrameAt(s, s.current) \in Frame /\ i \in [Players -> PlayerInputs]
    BY <1>1, <1>3, FramesType DEF Ticks
  <2> HIDE DEF base, i
  <2>4. w \in Seq(Frame) /\ Len(w) = s.current /\ \A k \in 1 .. n : w[k] = base[k]
    BY <2>1, <2>2, <2>3
  <2>5. \A k \in 1 .. n : base[k] = s.world[k]
    BY <2>1, <2>2, <1>1, PrefixType
  <2> HIDE DEF w
  <2>6. u \in Session /\ u.world = w /\ u.saved = s.saved /\ u.current = s.current
    <3>1. DOMAIN s = {"inputs", "world", "saved", "current", "refused"} /\ s.refused \in BOOLEAN
      BY <1>1 DEF Session
    <3>2. u = [s EXCEPT !.world = w, !.inputs = i]
      BY <1>3 DEF SyncTest, w, i, base
    <3> HIDE DEF u
    <3>3. u = [inputs |-> i, world |-> w, saved |-> s.saved, current |-> s.current, refused |-> s.refused]
      BY <3>1, <3>2, <1>1 DEF Session
    <3> QED BY <3>1, <3>3, <1>1, <2>3, <2>4 DEF Session
  <2> HIDE DEF u
  <2>7. SavedPast(u)
    <3> SUFFICES ASSUME NEW x \in s.saved PROVE Len(x) < s.current /\ x = SubSeq(w, 1, Len(x))
      BY <2>6 DEF SavedPast
    <3>1. Len(x) \in Nat /\ Len(x) < s.current /\ x = SubSeq(s.world, 1, Len(x))
      BY <1>1 DEF Sound, SavedPast
    <3>2. SubSeq(s.world, 1, Len(x)) = SubSeq(w, 1, Len(x))
      <4>1. Len(x) \in 0 .. Len(s.world) /\ Len(x) <= Len(w)
        BY <3>1, <1>1, <2>4
      <4>2. \A k \in 1 .. Len(x) : s.world[k] = w[k]
        BY <3>1, <1>1, <2>1, <2>4, <2>5
      <4> QED BY <4>1, <4>2, <1>1, <2>4, SamePrefix
    <3> QED BY <3>1, <3>2
  <2>8. Covered(s) => Covered(u)
    BY <2>6 DEF Covered, InWindow, IsSaved
  <2> QED BY <1>1, <2>4, <2>6, <2>7, <2>8 DEF Sound, u
<1> QED BY <1>2, <1>3

(* A replaced world has no past that could be restored.                    *)
LEMMA ResetSound ==
  ASSUME NEW s, Sound(s), NEW world \in Seq(Frame)
  PROVE  Sound(Reset(s, world))
<1> DEFINE u == Reset(s, world)
<1>1. s \in Session
  BY DEF Sound
<1>2. /\ u \in Session /\ u.world = world /\ u.saved = {} /\ u.current = Len(world)
  <2>1. /\ DOMAIN s = {"inputs", "world", "saved", "current", "refused"}
        /\ s.refused \in BOOLEAN /\ s.inputs \in [Players -> PlayerInputs]
        /\ Len(world) \in Nat /\ {} \in SUBSET Seq(Frame)
    BY <1>1 DEF Session
  <2>2. u = [s EXCEPT !.world = world, !.current = Len(world), !.saved = {}]
    BY DEF Reset
  <2> HIDE DEF u
  <2>3. u = [inputs |-> s.inputs, world |-> world, saved |-> {}, current |-> Len(world),
             refused |-> s.refused]
    BY <2>1, <2>2, <1>1 DEF Session
  <2> QED BY <2>1, <2>3 DEF Session
<1> HIDE DEF u
<1>3. Sound(u)
  BY <1>2 DEF Sound, SavedPast
<1> QED BY <1>3 DEF u

(***************************************************************************)
(* The mesh: every step leaves one session to one of the operations above. *)
(***************************************************************************)
LEMMA MaxTickType == game \in Games /\ resyncs \in [Peers -> Nat] => MaxTick \in Nat
BY GamesAssumption DEF MaxTick, Peers

LEMMA DelayType == ASSUME IInv, NEW p \in Players PROVE game.delay[p] \in Nat
BY GamesAssumption DEF IInv

LEMMA InitSound == Init => IInv
<1> SUFFICES ASSUME Init PROVE IInv
  OBVIOUS
<1>1. Sound(NewSession) /\ Covered(NewSession) /\ NewSession \in Session
  BY NewSound DEF Sound
<1> QED BY <1>1 DEF Init, IInv

(* Replacing the session of p by one as sound.                             *)
LEMMA OneSession ==
  ASSUME IInv, NEW p \in Peers, NEW s, session' = [session EXCEPT ![p] = s],
         Sound(s), Covered(session[p]) => Covered(s),
         game' = game, given' \subseteq Given, resyncs' = resyncs
  PROVE  IInv'
<1>1. s \in Session
  BY DEF Sound
<1>2. Peers' = Peers /\ session' \in [Peers -> Session]
  BY <1>1 DEF IInv, Peers
<1>3. ASSUME NEW q \in Peers
      PROVE  Sound(session'[q]) /\ (resyncs[q] = 0 => Covered(session'[q]))
  <2>1. CASE q = p
    BY <2>1, session'[q] = s DEF IInv
  <2>2. CASE q # p
    BY <2>2, session'[q] = session[q] DEF IInv
  <2> QED BY <2>1, <2>2
<1> QED BY <1>2, <1>3 DEF IInv

LEMMA StepSound == IInv /\ [Next]_vars => IInv'
<1> SUFFICES ASSUME IInv, [Next]_vars PROVE IInv'
  OBVIOUS
<1>1. ASSUME NEW p \in Peers
      PROVE  /\ p \in Players /\ Sound(session[p]) /\ session[p] \in Session
             /\ session[p].current \in Nat
  BY GamesAssumption DEF IInv, Peers, Session
<1>2. ASSUME NEW p \in Peers, NEW input \in Inputs, GiveLocalInput(p, input) PROVE IInv'
  <2> DEFINE t == LocalTarget(session[p], game.delay[p])
             s == AddLocalInput(session[p], game.delay[p], p, input)
  <2>1. t \in Ticks
    BY <1>1, DelayType DEF LocalTarget, Ticks
  <2>2. Sound(s) /\ (Covered(session[p]) => Covered(s))
    BY <2>1, <1>1, ConfirmedSound DEF AddLocalInput
  <2>3. given' \subseteq Given
    BY <2>1, <1>1, <1>2 DEF GiveLocalInput, IInv, Given
  <2>4. session' = [session EXCEPT ![p] = s] /\ game' = game /\ resyncs' = resyncs
    BY <1>2 DEF GiveLocalInput
  <2> QED BY <2>2, <2>3, <2>4, OneSession
<1>3. ASSUME NEW p \in Peers, AdvanceFrame(p) PROVE IInv'
  <2>1. /\ session' = [session EXCEPT ![p] = Advance(session[p])]
        /\ game' = game /\ resyncs' = resyncs /\ given' \subseteq Given
    BY <1>3 DEF AdvanceFrame, IInv
  <2> QED BY <2>1, <1>1, AdvanceSound, OneSession
<1>4. ASSUME NEW p \in Peers, NEW r \in given, ReceiveInput(p, r) PROVE IInv'
  <2> DEFINE c == Confirmed(session[p], r.player, r.tick, r.input)
             s == AddRemoteInput(session[p], r.player, r.tick, r.input)
  <2>1. r.player \in Players /\ r.tick \in Ticks /\ r.input \in Inputs
    BY DEF IInv, Given
  <2>2. Sound(c) /\ (Covered(session[p]) => Covered(c))
    BY <2>1, <1>1, ConfirmedSound
  <2> HIDE DEF c
  <2>3. Sound(RollbackTo(c, r.tick)) /\ (Covered(c) => Covered(RollbackTo(c, r.tick)))
    BY <2>1, <2>2, RollbackToSound
  <2>4. s = c \/ s = RollbackTo(c, r.tick)
    BY DEF AddRemoteInput, c
  <2>5. /\ session' = [session EXCEPT ![p] = s]
        /\ game' = game /\ resyncs' = resyncs /\ given' \subseteq Given
    BY <1>4 DEF ReceiveInput, IInv
  <2> HIDE DEF s
  <2>6. Sound(s) /\ (Covered(session[p]) => Covered(s))
    BY <2>2, <2>3, <2>4
  <2> QED BY <2>5, <2>6, OneSession
<1>5. ASSUME NEW p \in Peers, NEW t \in 1 .. session[p].current, RollBack(p, t) PROVE IInv'
  <2>1. t \in Ticks
    BY <1>1 DEF Ticks
  <2>2. /\ session' = [session EXCEPT ![p] = RollbackTo(session[p], t)]
        /\ game' = game /\ resyncs' = resyncs /\ given' \subseteq Given
    BY <1>5 DEF RollBack, IInv
  <2> QED BY <2>1, <2>2, <1>1, RollbackToSound, OneSession
<1>6. ASSUME NEW p \in Peers, TestSync(p) PROVE IInv'
  <2>1. /\ session' = [session EXCEPT ![p] = SyncTest(session[p])]
        /\ game' = game /\ resyncs' = resyncs /\ given' \subseteq Given
    BY <1>6 DEF TestSync, IInv
  <2> QED BY <2>1, <1>1, SyncTestSound, OneSession
<1>7. ASSUME NEW p \in Peers, NEW q \in Peers \ {p}, Resync(p, q) PROVE IInv'
  <2> DEFINE s == Reset(session[p], session[q].world)
  <2>1. Sound(s)
    BY <1>1, ResetSound DEF Session
  <2> HIDE DEF s
  <2>2. /\ session' = [session EXCEPT ![p] = s]
        /\ resyncs' = [resyncs EXCEPT ![p] = @ + 1] /\ game' = game /\ given' = given
    BY <1>7 DEF Resync, s
  <2>3. Peers' = Peers /\ session' \in [Peers -> Session] /\ resyncs' \in [Peers -> Nat]
    BY <2>1, <2>2 DEF IInv, Sound, Peers
  <2>4. ASSUME NEW z \in Peers
        PROVE  Sound(session'[z]) /\ (resyncs'[z] = 0 => Covered(session'[z]))
    <3>1. CASE z = p
      BY <3>1, <2>1, <2>2 DEF IInv
    <3>2. CASE z # p
      BY <3>2, <2>2 DEF IInv
    <3> QED BY <3>1, <3>2
  <2> QED BY <2>2, <2>3, <2>4 DEF IInv
<1>8. ASSUME NEW p \in Players \ Peers, NEW t \in 1 .. MaxTick, NEW input \in Inputs,
             GiveOtherInput(p, t, input)
      PROVE  IInv'
  <2>1. t \in Ticks
    BY MaxTickType DEF IInv, Ticks
  <2>2. given' \subseteq Given /\ UNCHANGED <<game, session, resyncs>>
    BY <2>1, <1>8 DEF GiveOtherInput, IInv, Given
  <2> QED BY <2>2 DEF IInv, Peers
<1>9. CASE UNCHANGED vars
  BY <1>9 DEF vars, IInv, Peers
<1> QED BY <1>2, <1>3, <1>4, <1>5, <1>6, <1>7, <1>8, <1>9 DEF Next

(* Every session has as many frames as ticks, and every frame an input of  *)
(* every player (session.rs, input.rs).                                    *)
SessionsTypeOK ==
  \A p \in Peers : session[p] \in Session /\ Len(session[p].world) = session[p].current

THEOREM SessionsAreTyped == Spec => []SessionsTypeOK
<1>1. IInv => SessionsTypeOK
  BY DEF IInv, Sound, SessionsTypeOK
<1> QED BY <1>1, InitSound, StepSound, PTL DEF Spec

(* No rollback ever restores a past that was corrected or replaced since:  *)
(* every saved state is a prefix of the present world (session.rs:240-267, *)
(* 310-314).                                                               *)
THEOREM SavedStaysThePast == Spec => []SavedStatesAreThePast
<1>1. IInv => SavedStatesAreThePast
  BY DEF IInv, Sound, SavedPast, SavedStatesAreThePast
<1> QED BY <1>1, InitSound, StepSound, PTL DEF Spec

(* No rollback within the window is refused for want of a saved state: a   *)
(* ring of max_rollback + 2 slots reaches back far enough (session.rs:110- *)
(* 114).                                                                   *)
THEOREM WindowStaysSaved == Spec => []WindowIsSaved
<1>1. IInv => WindowIsSaved
  BY DEF IInv, Covered, WindowIsSaved
<1> QED BY <1>1, InitSound, StepSound, PTL DEF Spec

(***************************************************************************)
(* Truth: rollback corrects every wrong guess, provided the ring of inputs *)
(* has room for how late and how early inputs come.                        *)
(*                                                                         *)
(* The invariant speaks of a session's queues, its world and the inputs it *)
(* was told: of the ticks not too far back each simulated one is on record *)
(* with the input it was simulated with, and each input told is on record  *)
(* as confirmed; a correction breaks this from its tick on, and simulating *)
(* again from there restores it.                                           *)
(***************************************************************************)
(* No input comes so late or so early that its slot is still needed for    *)
(* another tick.                                                           *)
RingSuffices ==
  \A g \in Games : g.lag + g.ahead < InputHistory /\ MaxRollback + g.ahead < InputHistory

(***************************************************************************)
(* One queue.                                                              *)
(***************************************************************************)
OneEach(q) == \A e, f \in q.slots : SameSlot(e.tick, f.tick) => e = f

Fact(z, t, input) == [player |-> z, tick |-> t, input |-> input]
Conf(t, input) == [tick |-> t, input |-> input, confirmed |-> TRUE]

Unambiguous(facts) ==
  \A r1, r2 \in facts : r1.player = r2.player /\ r1.tick = r2.tick => r1.input = r2.input

(* What is confirmed was told, and what was told is confirmed, from lo on. *)
Remembers(q, z, facts, lo) ==
  /\ \A e \in q.slots : e.confirmed => Fact(z, e.tick, e.input) \in facts
  /\ \A r \in facts : r.player = z /\ lo <= r.tick => Conf(r.tick, r.input) \in q.slots

LEMMA TicksApart ==
  ASSUME NEW lo \in Int, NEW hi \in Int, hi - lo < InputHistory,
         NEW a \in Ticks, NEW b \in Ticks, lo <= a, a <= hi, lo <= b, b <= hi
  PROVE  SameSlot(a, b) <=> a = b
<1>1. InputHistory \in Nat /\ InputHistory > 0 /\ a \in Nat /\ b \in Nat
  BY InputQueueAssumption DEF Ticks
<1>2. CASE a = b
  BY <1>2 DEF SameSlot
<1>3. CASE a < b
  <2>0. b - a < InputHistory
    BY <1>1
  <2>1. b % InputHistory # a % InputHistory
    BY <1>1, <1>3, <2>0, NoSharedSlot
  <2> QED BY <2>1, <1>1, <1>3 DEF SameSlot
<1>4. CASE b < a
  <2>0. a - b < InputHistory
    BY <1>1
  <2>1. a % InputHistory # b % InputHistory
    BY <1>1, <1>4, <2>0, NoSharedSlot
  <2> QED BY <2>1, <1>1, <1>4 DEF SameSlot
<1> QED BY <1>1, <1>2, <1>3, <1>4

LEMMA EntryTypes ==
  ASSUME NEW q \in PlayerInputs, NEW e \in q.slots
  PROVE  e \in Entry /\ e.tick \in Ticks /\ e.tick \in Nat /\ e.input \in Inputs
         /\ e.confirmed \in BOOLEAN /\ e = [tick |-> e.tick, input |-> e.input, confirmed |-> e.confirmed]
<1>1. e \in Entry
  BY DEF PlayerInputs
<1> QED BY <1>1 DEF Entry, Ticks

(* The input found for a tick on record is the one on record.              *)
LEMMA InputOnRecord ==
  ASSUME NEW q \in PlayerInputs, OneEach(q), NEW e \in q.slots
  PROVE  InputFor(q, e.tick) = e.input
<1> DEFINE f == CHOOSE x \in q.slots : x.tick = e.tick
<1>1. f \in q.slots /\ f.tick = e.tick
  OBVIOUS
<1>2. Known(q, e.tick)
  BY DEF Known
<1>3. InputFor(q, e.tick) = f.input
  BY <1>2 DEF InputFor
<1> HIDE DEF f
<1>4. f = e
  BY <1>1 DEF OneEach, SameSlot
<1> QED BY <1>3, <1>4

(* What confirming an input for tick t leaves on record.                   *)
Leaves(q, c, t, input, lo, hi) ==
  \A e \in q.slots :
    /\ lo <= e.tick /\ e.tick <= hi /\ e.tick # t
    /\ e.tick < t \/ ~Contradicts(q, t, input)
    => e \in c.slots

LEMMA ConfirmRemembers ==
  ASSUME NEW q \in PlayerInputs, OneEach(q), NEW z \in Players, NEW facts \in SUBSET Given,
         NEW lo \in Int, NEW hi \in Int, hi - lo < InputHistory,
         \A r \in facts : r.tick <= hi, Remembers(q, z, facts, lo),
         NEW t \in Ticks, lo <= t, t <= hi, NEW input \in Inputs,
         Unambiguous(facts \cup {Fact(z, t, input)}),
         NEW c, c = Confirm(q, t, input)
  PROVE  /\ OneEach(c)
         /\ Remembers(c, z, facts \cup {Fact(z, t, input)}, lo)
         /\ Conf(t, input) \in c.slots
         /\ Leaves(q, c, t, input, lo, hi)
<1> DEFINE wrong == IF Contradicts(q, t, input) THEN {e \in q.slots : ~e.confirmed /\ e.tick > t} ELSE {}
           new == Conf(t, input)
<1>1. c.slots = {x \in q.slots \ wrong : ~SameSlot(x.tick, t)} \cup {new}
  BY DEF Confirm, Put, Conf
<1>2. new.tick = t /\ new.input = input /\ new.confirmed = TRUE
  BY DEF Conf
<1>3. \A e \in wrong : e.confirmed = FALSE /\ e.tick > t /\ Contradicts(q, t, input)
  <2>1. \A e \in q.slots : e.confirmed \in BOOLEAN
    BY EntryTypes
  <2> QED BY <2>1
<1> HIDE DEF wrong, new
<1>4. \A e \in q.slots : lo <= e.tick /\ e.tick <= hi /\ e.tick # t => ~SameSlot(e.tick, t)
  BY EntryTypes, TicksApart
<1>5. OneEach(c)
  BY <1>1, <1>2 DEF OneEach, SameSlot
<1>6. \A e \in q.slots :
        /\ lo <= e.tick /\ e.tick <= hi /\ e.tick # t
        /\ e.confirmed \/ e.tick < t \/ ~Contradicts(q, t, input)
        => e \in c.slots
  <2> SUFFICES ASSUME NEW e \in q.slots, lo <= e.tick, e.tick <= hi, e.tick # t,
                      e.confirmed \/ e.tick < t \/ ~Contradicts(q, t, input)
               PROVE  e \in c.slots
    OBVIOUS
  <2>1. e.tick \in Nat /\ t \in Nat
    BY EntryTypes DEF Ticks
  <2>2. e \notin wrong
    BY <1>3, <2>1
  <2> QED BY <1>1, <1>4, <2>2
<1>7. \A e \in c.slots : e.confirmed => Fact(z, e.tick, e.input) \in facts \cup {Fact(z, t, input)}
  BY <1>1, <1>2 DEF Remembers
<1>8. \A r \in facts \cup {Fact(z, t, input)} :
        r.player = z /\ lo <= r.tick => Conf(r.tick, r.input) \in c.slots
  <2> SUFFICES ASSUME NEW r \in facts \cup {Fact(z, t, input)}, r.player = z, lo <= r.tick
               PROVE  Conf(r.tick, r.input) \in c.slots
    OBVIOUS
  <2>1. CASE r.tick = t
    <3>1. Fact(z, t, input).player = z /\ Fact(z, t, input).tick = t /\ Fact(z, t, input).input = input
      BY DEF Fact
    <3>2. r.input = input
      BY <2>1, <3>1 DEF Unambiguous
    <3> QED BY <1>1, <2>1, <3>2 DEF new
  <2>2. CASE r.tick # t
    <3>1. r \in facts
      BY <2>2 DEF Fact
    <3>2. Conf(r.tick, r.input) \in q.slots /\ r.tick <= hi
      BY <3>1 DEF Remembers
    <3>3. Conf(r.tick, r.input).tick = r.tick /\ Conf(r.tick, r.input).confirmed
      BY DEF Conf
    <3> QED BY <1>6, <2>2, <3>2, <3>3
  <2> QED BY <2>1, <2>2
<1>9. Remembers(c, z, facts \cup {Fact(z, t, input)}, lo)
  BY <1>7, <1>8 DEF Remembers
<1> QED BY <1>1, <1>5, <1>6, <1>9 DEF new, Leaves

(* What predicting the ticks from first to last leaves on record.          *)
Completes(q, c, first, last, lo, hi) ==
  /\ \A e \in q.slots : lo <= e.tick /\ e.tick <= hi => e \in c.slots
  /\ \A t \in first .. last : \E e \in c.slots : e.tick = t /\ e.input = InputFor(q, t)

LEMMA PredictRemembers ==
  ASSUME NEW q \in PlayerInputs, OneEach(q), NEW z \in Players, NEW facts \in SUBSET Given,
         NEW lo \in Int, NEW hi \in Int, hi - lo < InputHistory,
         \A r \in facts : r.tick <= hi, Remembers(q, z, facts, lo),
         NEW first \in Ticks, NEW last \in Nat, lo <= first, last <= hi,
         NEW c, c = Predict(q, first, last)
  PROVE  /\ OneEach(c)
         /\ Remembers(c, z, facts, lo)
         /\ Completes(q, c, first, last, lo, hi)
<1> DEFINE missing == {t \in first .. last : ~Known(q, t)}
           Guess(t) == [tick |-> t, input |-> q.last_known, confirmed |-> FALSE]
<1>1. c.slots = {x \in q.slots : \A t \in missing : ~SameSlot(x.tick, t)} \cup {Guess(t) : t \in missing}
  <2>1. DOMAIN q = {"slots", "last_confirmed", "last_known"}
    BY DEF PlayerInputs
  <2> QED BY <2>1 DEF Predict
<1>2. \A t : Guess(t).tick = t /\ Guess(t).input = q.last_known /\ Guess(t).confirmed = FALSE
  OBVIOUS
<1>3. \A t \in missing : t \in Ticks /\ lo <= t /\ t <= hi /\ t \in first .. last /\ ~Known(q, t)
  BY DEF Ticks
<1> HIDE DEF missing, Guess
<1>4. \A e \in q.slots : lo <= e.tick /\ e.tick <= hi => e \in c.slots
  <2> SUFFICES ASSUME NEW e \in q.slots, lo <= e.tick, e.tick <= hi, NEW t \in missing
               PROVE  ~SameSlot(e.tick, t)
    BY <1>1
  <2>1. e.tick \in Ticks /\ t \in Ticks /\ lo <= t /\ t <= hi /\ t # e.tick
    BY <1>3, EntryTypes DEF Known
  <2> QED BY <2>1, TicksApart
<1>5. OneEach(c)
  <2>1. \A t, u \in missing : SameSlot(t, u) => t = u
    BY <1>3, TicksApart
  <2> QED BY <1>1, <1>2, <2>1 DEF OneEach, SameSlot
<1>6. Remembers(c, z, facts, lo)
  <2>1. \A e \in c.slots : e.confirmed => e \in q.slots
    BY <1>1, <1>2
  <2>2. ASSUME NEW r \in facts, r.player = z, lo <= r.tick
        PROVE  Conf(r.tick, r.input) \in c.slots
    <3>1. Conf(r.tick, r.input) \in q.slots /\ r.tick <= hi /\ Conf(r.tick, r.input).tick = r.tick
      BY <2>2 DEF Remembers, Conf
    <3> QED BY <1>4, <2>2, <3>1
  <2> QED BY <2>1, <2>2 DEF Remembers
<1>7. ASSUME NEW t \in first .. last
      PROVE  \E e \in c.slots : e.tick = t /\ e.input = InputFor(q, t)
  <2>1. CASE Known(q, t)
    <3>1. PICK e \in q.slots : e.tick = t
      BY <2>1 DEF Known
    <3>2. e \in c.slots
      <4>1. lo <= t /\ t <= hi
        BY DEF Ticks
      <4> QED BY <1>4, <3>1, <4>1
    <3>3. e.input = InputFor(q, t)
      BY <3>1, InputOnRecord
    <3> QED BY <3>1, <3>2, <3>3
  <2>2. CASE ~Known(q, t)
    <3>1. t \in missing
      BY <2>2 DEF missing
    <3>2. Guess(t) \in c.slots
      BY <1>1, <3>1
    <3>3. InputFor(q, t) = q.last_known
      BY <2>2 DEF InputFor
    <3> QED BY <1>2, <3>2, <3>3
  <2> QED BY <2>1, <2>2
<1> QED BY <1>4, <1>5, <1>6, <1>7 DEF Completes

(***************************************************************************)
(* The queues of a session and its world up to a tick.                     *)
(***************************************************************************)
OnRecord(q, z, world, lo, upto) ==
  \A t \in 1 .. upto : lo <= t => \E e \in q.slots : e.tick = t /\ e.input = world[t][z]

True(world, facts, upto) ==
  \A r \in facts : r.tick <= upto => world[r.tick][r.player] = r.input

Truthful(inputs, world, facts, lo, upto) ==
  /\ \A z \in Players :
       /\ OneEach(inputs[z]) /\ Remembers(inputs[z], z, facts, lo)
       /\ OnRecord(inputs[z], z, world, lo, upto)
  /\ True(world, facts, upto)

LEMMA TruthfulWeaker ==
  ASSUME NEW facts \in SUBSET Given, NEW inputs, NEW world,
         NEW lo \in Int, NEW lo2 \in Int, lo <= lo2, NEW n \in Int, NEW n2 \in Int, n2 <= n,
         Truthful(inputs, world, facts, lo, n)
  PROVE  Truthful(inputs, world, facts, lo2, n2)
<1>1. \A r \in facts : r.tick \in Int
  BY DEF Given, Ticks
<1>2. ASSUME NEW z \in Players
      PROVE  Remembers(inputs[z], z, facts, lo2) /\ OnRecord(inputs[z], z, world, lo2, n2)
  BY <1>1 DEF Truthful, Remembers, OnRecord
<1>3. True(world, facts, n2)
  BY <1>1 DEF Truthful, True
<1> QED BY <1>2, <1>3 DEF Truthful

(* An input is told.  If it contradicts what a tick was simulated with,    *)
(* the ticks before it are still truthful.                                 *)
LEMMA ConfirmTruthful ==
  ASSUME NEW inputs \in [Players -> PlayerInputs], NEW world, NEW facts \in SUBSET Given,
         NEW lo \in Int, NEW hi \in Int, hi - lo < InputHistory,
         \A r \in facts : r.tick <= hi,
         NEW n \in Nat, n <= hi, Truthful(inputs, world, facts, lo, n),
         NEW z \in Players, NEW t \in Ticks, lo <= t, t <= hi, NEW input \in Inputs,
         Unambiguous(facts \cup {Fact(z, t, input)}),
         NEW m \in Int, m <= n, m < t \/ ~Contradicts(inputs[z], t, input),
         NEW after, after = [inputs EXCEPT ![z] = Confirm(@, t, input)]
  PROVE  Truthful(after, world, facts \cup {Fact(z, t, input)}, lo, m)
<1> DEFINE q == inputs[z]
           c == Confirm(q, t, input)
           more == facts \cup {Fact(z, t, input)}
<1>1. Truthful(inputs, world, facts, lo, m)
  BY TruthfulWeaker
<1>2. q \in PlayerInputs /\ OneEach(q) /\ Remembers(q, z, facts, lo) /\ OnRecord(q, z, world, lo, m)
  BY <1>1 DEF Truthful
<1>3. Fact(z, t, input).player = z /\ Fact(z, t, input).tick = t /\ Fact(z, t, input).input = input
  BY DEF Fact
<1>4. after[z] = c /\ \A y \in Players : y # z => after[y] = inputs[y]
  OBVIOUS
<1>0. c = Confirm(q, t, input)
  OBVIOUS
<1> HIDE DEF q, c
<1>5. /\ OneEach(c) /\ Remembers(c, z, more, lo) /\ Conf(t, input) \in c.slots
      /\ Leaves(q, c, t, input, lo, hi)
  BY <1>0, <1>2, ConfirmRemembers
(* What t was simulated with, if it is not contradicted, is the truth.     *)
<1>6. ASSUME t <= m PROVE input = world[t][z]
  <2>1. t \in 1 .. m /\ ~Contradicts(q, t, input)
    BY <1>6 DEF Ticks, q
  <2>2. PICK e \in q.slots : e.tick = t /\ e.input = world[t][z]
    BY <1>2, <2>1 DEF OnRecord
  <2>3. CASE e.confirmed
    <3>1. Fact(z, t, e.input) \in facts
      BY <1>2, <2>2, <2>3 DEF Remembers
    <3>2. Fact(z, t, e.input).player = z /\ Fact(z, t, e.input).tick = t
          /\ Fact(z, t, e.input).input = e.input
      BY DEF Fact
    <3>3. e.input = input
      BY <1>3, <3>1, <3>2 DEF Unambiguous
    <3> QED BY <2>2, <3>3
  <2>4. CASE ~e.confirmed
    BY <2>1, <2>2, <2>4 DEF Contradicts
  <2> QED BY <2>3, <2>4
<1>7. OnRecord(c, z, world, lo, m)
  <2> SUFFICES ASSUME NEW u \in 1 .. m, lo <= u
               PROVE  \E e \in c.slots : e.tick = u /\ e.input = world[u][z]
    BY DEF OnRecord
  <2>1. CASE u = t
    <3>1. Conf(t, input).tick = t /\ Conf(t, input).input = input
      BY DEF Conf
    <3> QED BY <1>5, <1>6, <2>1, <3>1
  <2>2. CASE u # t
    <3>1. PICK e \in q.slots : e.tick = u /\ e.input = world[u][z]
      BY <1>2 DEF OnRecord
    <3>2. u <= hi /\ (u < t \/ ~Contradicts(q, t, input))
      BY DEF q, Ticks
    <3>3. e \in c.slots
      BY <1>5, <2>2, <3>1, <3>2 DEF Leaves
    <3> QED BY <3>1, <3>3
  <2> QED BY <2>1, <2>2
<1>8. ASSUME NEW y \in Players, y # z
      PROVE  OneEach(inputs[y]) /\ Remembers(inputs[y], y, more, lo) /\ OnRecord(inputs[y], y, world, lo, m)
  <2>1. OneEach(inputs[y]) /\ Remembers(inputs[y], y, facts, lo) /\ OnRecord(inputs[y], y, world, lo, m)
    BY <1>1 DEF Truthful
  <2> QED BY <1>3, <1>8, <2>1 DEF Remembers
<1>9. True(world, more, m)
  BY <1>1, <1>3, <1>6 DEF Truthful, True
<1>10. \A y \in Players : OneEach(after[y]) /\ Remembers(after[y], y, more, lo)
                         /\ OnRecord(after[y], y, world, lo, m)
  BY <1>4, <1>5, <1>7, <1>8
<1> QED BY <1>9, <1>10 DEF Truthful

Predictions(inputs, from, n) == [z \in Players |-> Predict(inputs[z], from, n)]
FrameOf(inputs, k) == [z \in Players |-> InputFor(inputs[z], k)]

(* Ticks are simulated, or simulated again, with what the queues say.      *)
LEMMA ReplayTruthful ==
  ASSUME NEW inputs \in [Players -> PlayerInputs], NEW world, NEW facts \in SUBSET Given,
         NEW lo \in Int, NEW hi \in Int, hi - lo < InputHistory,
         \A r \in facts : r.tick <= hi,
         NEW from \in Ticks, NEW n \in Nat, lo <= from, n <= hi,
         Truthful(inputs, world, facts, lo, from - 1),
         NEW after, after = Predictions(inputs, from, n),
         NEW anew, \A k \in 1 .. from - 1 : anew[k] = world[k],
         \A k \in from .. n : anew[k] = FrameOf(inputs, k)
  PROVE  Truthful(after, anew, facts, lo, n)
<1>1. ASSUME NEW z \in Players
      PROVE  /\ OneEach(after[z]) /\ Remembers(after[z], z, facts, lo)
             /\ OnRecord(after[z], z, anew, lo, n)
  <2> DEFINE q == inputs[z]
             c == Predict(q, from, n)
  <2>1. q \in PlayerInputs /\ OneEach(q) /\ Remembers(q, z, facts, lo)
        /\ OnRecord(q, z, world, lo, from - 1) /\ after[z] = c
    BY DEF Truthful, Predictions
  <2>0. c = Predict(q, from, n)
    OBVIOUS
  <2> HIDE DEF q, c
  <2>2. /\ OneEach(c) /\ Remembers(c, z, facts, lo)
        /\ Completes(q, c, from, n, lo, hi)
    BY <2>0, <2>1, PredictRemembers
  <2>3. OnRecord(c, z, anew, lo, n)
    <3> SUFFICES ASSUME NEW t \in 1 .. n, lo <= t
                 PROVE  \E e \in c.slots : e.tick = t /\ e.input = anew[t][z]
      BY DEF OnRecord
    <3>0. from \in Nat
      BY DEF Ticks
    <3>1. CASE t < from
      <4>1. t \in 1 .. from - 1 /\ t <= hi
        BY <3>0, <3>1
      <4>2. PICK e \in q.slots : e.tick = t /\ e.input = world[t][z]
        BY <2>1, <4>1 DEF OnRecord
      <4> QED BY <2>2, <4>1, <4>2 DEF Completes
    <3>2. CASE from <= t
      <4>1. t \in from .. n
        BY <3>0, <3>2
      <4>2. anew[t][z] = InputFor(q, t)
        BY <4>1 DEF q, FrameOf
      <4> QED BY <2>2, <4>1, <4>2 DEF Completes
    <3> QED BY <3>0, <3>1, <3>2
  <2> QED BY <2>1, <2>2, <2>3
<1>2. ASSUME NEW r \in facts, r.tick <= n PROVE anew[r.tick][r.player] = r.input
  <2>1. r.tick \in Ticks /\ r.tick \in Nat /\ r.player \in Players /\ from \in Nat
    BY DEF Given, Ticks
  <2>2. CASE r.tick < from
    <3>1. r.tick \in 1 .. from - 1 /\ r.tick <= from - 1
      BY <2>1, <2>2 DEF Ticks
    <3> QED BY <3>1 DEF Truthful, True
  <2>3. CASE from <= r.tick
    <3> DEFINE q == inputs[r.player]
    <3>1. Conf(r.tick, r.input) \in q.slots /\ q \in PlayerInputs /\ OneEach(q)
      BY <2>1, <2>3 DEF Truthful, Remembers
    <3>2. Conf(r.tick, r.input).tick = r.tick /\ Conf(r.tick, r.input).input = r.input
      BY DEF Conf
    <3> HIDE DEF q
    <3>3. InputFor(q, r.tick) = r.input
      BY <3>1, <3>2, InputOnRecord
    <3>4. r.tick \in from .. n
      BY <1>2, <2>1, <2>3
    <3>5. anew[r.tick] = [z \in Players |-> InputFor(inputs[z], r.tick)]
      BY <3>4 DEF FrameOf
    <3>6. anew[r.tick][r.player] = InputFor(q, r.tick)
      BY <2>1, <3>5 DEF q
    <3> QED BY <3>3, <3>6
  <2> QED BY <2>1, <2>2, <2>3
<1> QED BY <1>1, <1>2 DEF Truthful, True

(***************************************************************************)
(* One session, operation by operation.  `far` is how many ticks back its  *)
(* queues still matter, `ahead` how early an input may come.               *)
(***************************************************************************)
Correct(s, facts, far) ==
  ~s.refused => Truthful(s.inputs, s.world, facts, s.current - far, s.current)

Bounded(s, facts, ahead) == facts \subseteq Given /\ \A r \in facts : r.tick <= s.current + ahead

LEMMA SoundFacts ==
  ASSUME NEW s, Sound(s)
  PROVE  /\ s \in Session /\ s.inputs \in [Players -> PlayerInputs] /\ s.current \in Nat
         /\ s.world \in Seq(Frame) /\ Len(s.world) = s.current /\ s.refused \in BOOLEAN
         /\ s = [inputs |-> s.inputs, world |-> s.world, saved |-> s.saved,
                 current |-> s.current, refused |-> s.refused]
BY DEF Sound, Session

(* With the input, all is truthful up to any tick before it, and, if it    *)
(* contradicts nothing, up to the present.                                 *)
TruthfulWith(s, u, more, far, z, t, input) ==
  \A m \in Int :
    m <= s.current /\ (m < t \/ ~Contradicts(s.inputs[z], t, input)) /\ ~s.refused
    => Truthful(u.inputs, u.world, more, s.current - far, m)

LEMMA ConfirmedCorrect ==
  ASSUME NEW s, Sound(s), NEW far \in Nat, NEW ahead \in Nat, far + ahead < InputHistory,
         NEW facts, Bounded(s, facts, ahead), Correct(s, facts, far),
         NEW z \in Players, NEW t \in Ticks, NEW input \in Inputs,
         s.current - far <= t, t <= s.current + ahead,
         Unambiguous(facts \cup {Fact(z, t, input)}),
         NEW u, u = Confirmed(s, z, t, input)
  PROVE  /\ u.world = s.world /\ u.current = s.current /\ u.refused = s.refused
         /\ Bounded(u, facts \cup {Fact(z, t, input)}, ahead)
         /\ TruthfulWith(s, u, facts \cup {Fact(z, t, input)}, far, z, t, input)
<1>1. /\ s.inputs \in [Players -> PlayerInputs] /\ s.current \in Nat
      /\ s = [inputs |-> s.inputs, world |-> s.world, saved |-> s.saved,
              current |-> s.current, refused |-> s.refused]
  BY SoundFacts
<1>2. /\ u.inputs = [s.inputs EXCEPT ![z] = Confirm(@, t, input)]
      /\ u.world = s.world /\ u.current = s.current /\ u.refused = s.refused
  BY <1>1 DEF Confirmed
<1>3. Bounded(u, facts \cup {Fact(z, t, input)}, ahead)
  <2>1. Fact(z, t, input) \in Given /\ Fact(z, t, input).tick = t
    BY DEF Fact, Given
  <2> QED BY <1>2, <2>1 DEF Bounded
<1>4. ASSUME NEW m \in Int, m <= s.current,
             m < t \/ ~Contradicts(s.inputs[z], t, input), ~s.refused
      PROVE  Truthful(u.inputs, u.world, facts \cup {Fact(z, t, input)}, s.current - far, m)
  <2> DEFINE lo == s.current - far
             hi == s.current + ahead
             i == s.inputs
             w == s.world
             n == s.current
             v == u.inputs
  <2>1. /\ lo \in Int /\ hi \in Int /\ hi - lo < InputHistory /\ n \in Nat /\ n <= hi
        /\ facts \in SUBSET Given /\ \A r \in facts : r.tick <= hi
        /\ Truthful(i, w, facts, lo, n) /\ lo <= t /\ t <= hi /\ i \in [Players -> PlayerInputs]
        /\ v = [i EXCEPT ![z] = Confirm(@, t, input)]
        /\ m <= n /\ (m < t \/ ~Contradicts(i[z], t, input))
    BY <1>1, <1>2, <1>4, InputQueueAssumption DEF Bounded, Correct
  <2> HIDE DEF lo, hi, i, w, n, v
  <2>2. Truthful(v, w, facts \cup {Fact(z, t, input)}, lo, m)
    BY <2>1, ConfirmTruthful
  <2> QED BY <1>2, <2>2 DEF v, w, lo
<1> QED BY <1>2, <1>3, <1>4 DEF TruthfulWith

LEMMA AdvanceCorrect ==
  ASSUME NEW s, Sound(s), NEW far \in Nat, NEW ahead \in Nat, far + ahead < InputHistory,
         NEW facts, Bounded(s, facts, ahead), Correct(s, facts, far),
         NEW u, u = Advance(s)
  PROVE  Correct(u, facts, far) /\ u.current = s.current + 1 /\ (~u.refused => ~s.refused)
<1> DEFINE n == s.current + 1
           lo == n - far
           hi == n + ahead
           i == s.inputs
           w == s.world
<1>1. /\ i \in [Players -> PlayerInputs] /\ s.current \in Nat
      /\ w \in Seq(Frame) /\ Len(w) = s.current
      /\ s = [inputs |-> i, world |-> w, saved |-> s.saved,
              current |-> s.current, refused |-> s.refused]
  BY SoundFacts
<1>2. /\ u.inputs = Predictions(i, n, n)
      /\ u.world = Append(w, FrameOf(i, n))
      /\ u.current = n /\ u.refused = s.refused
  BY <1>1 DEF Advance, Predicted, FrameAt, Predictions, FrameOf
<1>3. (\A k \in 1 .. n - 1 : u.world[k] = w[k])
      /\ \A k \in n .. n : u.world[k] = FrameOf(i, k)
  BY <1>1, <1>2
<1>4. ASSUME ~s.refused PROVE Truthful(u.inputs, u.world, facts, lo, n)
  <2>1. /\ lo \in Int /\ hi \in Int /\ hi - lo < InputHistory /\ n \in Ticks /\ n \in Nat
        /\ n <= hi /\ lo <= n
        /\ facts \in SUBSET Given /\ \A r \in facts : r.tick <= hi
    <3>1. \A r \in facts : r.tick \in Nat
      BY DEF Bounded, Given, Ticks
    <3> QED BY <1>1, <3>1, InputQueueAssumption DEF Bounded, Ticks
  <2>2. Truthful(i, w, facts, lo, n - 1)
    <3>1. Truthful(i, w, facts, s.current - far, s.current)
      BY <1>4 DEF Correct
    <3>2. s.current - far \in Int /\ s.current \in Int /\ n - 1 \in Int
          /\ s.current - far <= lo /\ n - 1 <= s.current
      BY <1>1
    <3> HIDE DEF lo, n, i, w
    <3> QED BY <3>1, <3>2, <2>1, TruthfulWeaker
  <2> DEFINE v == u.inputs
             x == u.world
  <2>3. v = Predictions(i, n, n)
    BY <1>2
  <2>4. (\A k \in 1 .. n - 1 : x[k] = w[k])
        /\ \A k \in n .. n : x[k] = FrameOf(i, k)
    BY <1>3
  <2> HIDE DEF lo, hi, n, i, w, v, x
  <2>5. Truthful(v, x, facts, lo, n)
    BY <1>1, <2>1, <2>2, <2>3, <2>4, ReplayTruthful
  <2> QED BY <2>5 DEF v, x
<1> QED BY <1>2, <1>4 DEF Correct

(* The same ticks again, whether rolled back to or for the sync test.      *)
LEMMA AgainCorrect ==
  ASSUME NEW s, Sound(s), NEW far \in Nat, NEW ahead \in Nat, far + ahead < InputHistory,
         NEW facts, Bounded(s, facts, ahead),
         NEW t \in 1 .. s.current, s.current - far <= t,
         Truthful(s.inputs, s.world, facts, s.current - far, t - 1),
         NEW v, v = Predicted(s, t, s.current),
         NEW x, \A k \in 1 .. t - 1 : x[k] = s.world[k],
         \A k \in t .. s.current : x[k] = FrameAt(s, k)
  PROVE  Truthful(v, x, facts, s.current - far, s.current)
<1> DEFINE n == s.current
           lo == n - far
           hi == n + ahead
           i == s.inputs
           w == s.world
<1>1. i \in [Players -> PlayerInputs] /\ n \in Nat
  BY SoundFacts
<1>2. /\ lo \in Int /\ hi \in Int /\ hi - lo < InputHistory /\ t \in Ticks
      /\ n <= hi /\ lo <= t
      /\ facts \in SUBSET Given /\ \A r \in facts : r.tick <= hi
  BY <1>1, InputQueueAssumption DEF Bounded, Ticks
<1>3. v = Predictions(i, t, n)
  BY DEF Predicted, Predictions
<1>4. (\A k \in 1 .. t - 1 : x[k] = w[k])
      /\ \A k \in t .. n : x[k] = FrameOf(i, k)
  BY DEF FrameAt, FrameOf
<1>5. Truthful(i, w, facts, lo, t - 1)
  OBVIOUS
<1> HIDE DEF lo, hi, n, i, w
<1>6. Truthful(v, x, facts, lo, n)
  BY <1>1, <1>2, <1>3, <1>4, <1>5, ReplayTruthful
<1> QED BY <1>6 DEF lo, n

(* What is restored is the past of the present world.                      *)
LEMMA RestoredPast ==
  ASSUME NEW s, Sound(s), NEW t \in 1 .. s.current, IsSaved(s, t - 1)
  PROVE  /\ SavedAt(s, t - 1) \in Seq(Frame) /\ Len(SavedAt(s, t - 1)) = t - 1
         /\ \A k \in 1 .. t - 1 : SavedAt(s, t - 1)[k] = s.world[k]
<1>1. /\ s \in Session /\ s.world \in Seq(Frame) /\ s.current \in Nat /\ Len(s.world) = s.current
  BY SoundFacts
<1> DEFINE base == SavedAt(s, t - 1)
<1>2. base \in Seq(Frame) /\ Len(base) = t - 1 /\ base = SubSeq(s.world, 1, t - 1)
  BY <1>1, SavedAtType DEF Sound, SavedPast
<1> HIDE DEF base
<1>3. t - 1 \in 0 .. Len(s.world)
  BY <1>1
<1>4. \A k \in 1 .. t - 1 : SubSeq(s.world, 1, t - 1)[k] = s.world[k]
  BY <1>1, <1>3, PrefixType
<1> QED BY <1>2, <1>4 DEF base

LEMMA ResimulateFields ==
  ASSUME NEW s, Sound(s), NEW t \in 1 .. s.current, IsSaved(s, t - 1),
         NEW u, u = Resimulate(s, t)
  PROVE  /\ u.current = s.current /\ u.refused = s.refused
         /\ u.inputs = Predicted(s, t, s.current)
         /\ u.world = [k \in 1 .. s.current |->
                         IF k < t THEN s.world[k] ELSE FrameAt(s, k)]
<1>1. /\ s.current \in Nat
      /\ s = [inputs |-> s.inputs, world |-> s.world, saved |-> s.saved,
              current |-> s.current, refused |-> s.refused]
  BY SoundFacts
<1>2. \A k \in 1 .. t - 1 : SavedAt(s, t - 1)[k] = s.world[k]
  BY RestoredPast
<1> DEFINE base == SavedAt(s, t - 1)
           w == [k \in 1 .. s.current |-> IF k < t THEN base[k] ELSE FrameAt(s, k)]
           i == Predicted(s, t, s.current)
           v == Store(s.saved, {SubSeq(w, 1, n) : n \in t - 1 .. s.current - 1})
<1>3. u = [s EXCEPT !.inputs = i, !.world = w, !.saved = v]
  BY DEF Resimulate
<1>4. w = [k \in 1 .. s.current |-> IF k < t THEN s.world[k] ELSE FrameAt(s, k)]
  BY <1>1, <1>2
<1> HIDE DEF w, i, v
<1>5. u.current = s.current /\ u.refused = s.refused /\ u.inputs = i /\ u.world = w
  BY <1>1, <1>3
<1> QED BY <1>4, <1>5 DEF i

LEMMA ResimulateCorrect ==
  ASSUME NEW s, Sound(s), NEW far \in Nat, NEW ahead \in Nat, far + ahead < InputHistory,
         NEW facts, Bounded(s, facts, ahead),
         NEW t \in 1 .. s.current, s.current - far <= t, IsSaved(s, t - 1),
         ~s.refused => Truthful(s.inputs, s.world, facts, s.current - far, t - 1),
         NEW u, u = Resimulate(s, t)
  PROVE  Correct(u, facts, far) /\ u.current = s.current /\ u.refused = s.refused
<1>1. /\ u.current = s.current /\ u.refused = s.refused /\ u.inputs = Predicted(s, t, s.current)
      /\ u.world = [k \in 1 .. s.current |-> IF k < t THEN s.world[k] ELSE FrameAt(s, k)]
  BY ResimulateFields
<1>2. s.current \in Nat
  BY SoundFacts
<1>3. (\A k \in 1 .. t - 1 : u.world[k] = s.world[k])
      /\ \A k \in t .. s.current : u.world[k] = FrameAt(s, k)
  BY <1>1, <1>2
<1>4. ASSUME ~s.refused PROVE Truthful(u.inputs, u.world, facts, s.current - far, s.current)
  BY <1>1, <1>3, <1>4, AgainCorrect
<1> QED BY <1>1, <1>4 DEF Correct

(* rollback_to refuses, or simulates again what is no longer truthful.     *)
LEMMA RollbackToCorrect ==
  ASSUME NEW s, Sound(s), NEW far \in Nat, MaxRollback <= far,
         NEW ahead \in Nat, far + ahead < InputHistory,
         NEW facts, Bounded(s, facts, ahead), NEW t \in Ticks,
         ~s.refused => Truthful(s.inputs, s.world, facts, s.current - far,
                                IF t <= s.current THEN t - 1 ELSE s.current),
         NEW u, u = RollbackTo(s, t)
  PROVE  Correct(u, facts, far) /\ u.current = s.current /\ (~u.refused => ~s.refused)
<1>1. s.current \in Nat /\ t \in Nat /\ t > 0 /\ s.refused \in BOOLEAN
      /\ s = [inputs |-> s.inputs, world |-> s.world, saved |-> s.saved,
              current |-> s.current, refused |-> s.refused]
  BY SoundFacts DEF Ticks
<1>2. CASE t > s.current
  <2>1. u = s /\ ~(t <= s.current)
    BY <1>1, <1>2 DEF RollbackTo
  <2> QED BY <2>1 DEF Correct
<1>3. CASE t <= s.current /\ InWindow(s, t) /\ IsSaved(s, t - 1)
  <2>1. t \in 1 .. s.current /\ ~(t > s.current)
    BY <1>1, <1>3
  <2>2. u = Resimulate(s, t)
    BY <1>3, <2>1 DEF RollbackTo
  <2>3. s.current - far <= t
    BY <1>1, <1>3, RollbackAssumption DEF InWindow
  <2>4. ~s.refused => Truthful(s.inputs, s.world, facts, s.current - far, t - 1)
    BY <1>3
  <2> QED BY <1>3, <2>1, <2>2, <2>3, <2>4, ResimulateCorrect
<1>4. CASE ~(t > s.current) /\ ~(InWindow(s, t) /\ IsSaved(s, t - 1))
  <2>1. u = [s EXCEPT !.refused = TRUE]
    BY <1>4 DEF RollbackTo
  <2>2. u.refused = TRUE /\ u.current = s.current
    BY <1>1, <2>1
  <2> QED BY <2>2 DEF Correct
<1> QED BY <1>1, <1>2, <1>3, <1>4

LEMMA RollbackToCurrent ==
  ASSUME NEW s, Sound(s), NEW t PROVE RollbackTo(s, t).current = s.current
<1>1. s = [inputs |-> s.inputs, world |-> s.world, saved |-> s.saved,
           current |-> s.current, refused |-> s.refused]
  BY SoundFacts
<1> QED BY <1>1 DEF RollbackTo, Resimulate

LEMMA CorrectUpto ==
  ASSUME NEW s, Sound(s), NEW far \in Nat, NEW facts, NEW ahead, Bounded(s, facts, ahead),
         Correct(s, facts, far), NEW m \in Int, m <= s.current
  PROVE  ~s.refused => Truthful(s.inputs, s.world, facts, s.current - far, m)
<1> SUFFICES ASSUME ~s.refused PROVE Truthful(s.inputs, s.world, facts, s.current - far, m)
  OBVIOUS
<1>1. s.current \in Nat /\ facts \in SUBSET Given
  BY SoundFacts DEF Bounded
<1> DEFINE lo == s.current - far
           i == s.inputs
           w == s.world
           n == s.current
<1>2. lo \in Int /\ lo <= lo /\ n \in Int /\ m <= n
  BY <1>1
<1>3. Truthful(i, w, facts, lo, n)
  BY DEF Correct
<1> HIDE DEF lo, i, w, n
<1>4. Truthful(i, w, facts, lo, m)
  BY <1>1, <1>2, <1>3, TruthfulWeaker
<1> QED BY <1>4 DEF lo, i, w

LEMMA AddRemoteCorrect ==
  ASSUME NEW s, Sound(s), NEW far \in Nat, MaxRollback <= far,
         NEW ahead \in Nat, far + ahead < InputHistory,
         NEW facts, Bounded(s, facts, ahead), Correct(s, facts, far),
         NEW z \in Players, NEW t \in Ticks, NEW input \in Inputs,
         s.current - far <= t, t <= s.current + ahead,
         Unambiguous(facts \cup {Fact(z, t, input)}),
         NEW u, u = AddRemoteInput(s, z, t, input)
  PROVE  /\ Correct(u, facts \cup {Fact(z, t, input)}, far)
         /\ u.current = s.current /\ (~u.refused => ~s.refused)
<1> DEFINE c == Confirmed(s, z, t, input)
           more == facts \cup {Fact(z, t, input)}
<1>1. /\ c.world = s.world /\ c.current = s.current /\ c.refused = s.refused
      /\ Bounded(c, more, ahead)
      /\ TruthfulWith(s, c, more, far, z, t, input)
  BY ConfirmedCorrect
<1>2. Sound(c)
  BY ConfirmedSound
<1>3. s.current \in Nat /\ t \in Nat
  BY SoundFacts DEF Ticks
<1>4. CASE ~Contradicts(s.inputs[z], t, input)
  <2>1. u = c
    BY <1>4 DEF AddRemoteInput
  <2>2. ~s.refused => Truthful(c.inputs, c.world, more, s.current - far, s.current)
    <3>1. s.current \in Int /\ s.current <= s.current
      BY <1>3
    <3> QED BY <1>1, <1>4, <3>1 DEF TruthfulWith
  <2> HIDE DEF c, more
  <2>3. Correct(c, more, far)
    BY <1>1, <2>2 DEF Correct
  <2> QED BY <1>1, <2>1, <2>3 DEF more
<1>5. CASE Contradicts(s.inputs[z], t, input)
  <2>1. u = RollbackTo(c, t)
    BY <1>5 DEF AddRemoteInput
  <2> DEFINE m == IF t <= s.current THEN t - 1 ELSE s.current
  <2>2. m \in Int /\ m <= s.current /\ m < t
    BY <1>3
  <2>3. ~s.refused => Truthful(c.inputs, c.world, more, s.current - far, m)
    BY <1>1, <2>2 DEF TruthfulWith
  <2> HIDE DEF c, more
  <2>4. ~c.refused => Truthful(c.inputs, c.world, more, c.current - far,
                               IF t <= c.current THEN t - 1 ELSE c.current)
    BY <1>1, <2>3
  <2>5. Correct(u, more, far) /\ u.current = c.current /\ (~u.refused => ~c.refused)
    BY <1>1, <1>2, <2>1, <2>4, RollbackToCorrect
  <2> QED BY <1>1, <2>5 DEF more
<1> QED BY <1>4, <1>5

(* A tick that has no world yet contradicts nothing.                       *)
LEMMA AddLocalCorrect ==
  ASSUME NEW s, Sound(s), NEW far \in Nat, NEW ahead \in Nat, far + ahead < InputHistory,
         NEW facts, Bounded(s, facts, ahead), Correct(s, facts, far),
         NEW z \in Players, NEW t \in Ticks, NEW input \in Inputs,
         s.current - far <= t, t <= s.current + ahead, s.current < t,
         Unambiguous(facts \cup {Fact(z, t, input)}),
         NEW v, v = Confirmed(s, z, t, input)
  PROVE  /\ Correct(v, facts \cup {Fact(z, t, input)}, far)
         /\ v.current = s.current /\ (~v.refused => ~s.refused)
<1> DEFINE u == Confirmed(s, z, t, input)
           more == facts \cup {Fact(z, t, input)}
<1>1. s.current \in Nat /\ t \in Nat
  BY SoundFacts DEF Ticks
<1>2. /\ u.world = s.world /\ u.current = s.current /\ u.refused = s.refused
      /\ Bounded(u, more, ahead) /\ TruthfulWith(s, u, more, far, z, t, input)
  BY ConfirmedCorrect
<1>3. ~s.refused => Truthful(u.inputs, u.world, more, s.current - far, s.current)
  <2>1. s.current \in Int /\ s.current <= s.current
    BY <1>1
  <2> QED BY <1>1, <1>2, <2>1 DEF TruthfulWith
<1>4. v = u
  OBVIOUS
<1> HIDE DEF u, more
<1>5. Correct(u, more, far)
  BY <1>2, <1>3 DEF Correct
<1> QED BY <1>2, <1>4, <1>5 DEF more

LEMMA SyncTestCorrect ==
  ASSUME NEW s, Sound(s), NEW far \in Nat, NEW ahead \in Nat, far + ahead < InputHistory,
         NEW facts, Bounded(s, facts, ahead), Correct(s, facts, far),
         NEW u, u = SyncTest(s)
  PROVE  Correct(u, facts, far) /\ u.current = s.current /\ (~u.refused => ~s.refused)
<1> DEFINE t == s.current
<1>1. /\ s.current \in Nat /\ s.world \in Seq(Frame) /\ Len(s.world) = s.current
      /\ s = [inputs |-> s.inputs, world |-> s.world, saved |-> s.saved,
              current |-> s.current, refused |-> s.refused]
  BY SoundFacts
<1>2. CASE s.current = 0 \/ ~IsSaved(s, s.current - 1)
  BY <1>2 DEF SyncTest
<1>3. CASE s.current # 0 /\ IsSaved(s, s.current - 1)
  <2> DEFINE base == SavedAt(s, t - 1)
             w == Append(base, FrameAt(s, t))
             i == Predicted(s, t, t)
  <2>1. t \in 1 .. s.current /\ s.current - far <= t /\ IsSaved(s, t - 1)
    BY <1>1, <1>3
  <2>2. u = [s EXCEPT !.world = w, !.inputs = i]
    BY <1>3 DEF SyncTest
  <2>3. base \in Seq(Frame) /\ Len(base) = t - 1 /\ \A k \in 1 .. t - 1 : base[k] = s.world[k]
    BY <2>1, RestoredPast
  <2> HIDE DEF base, i
  <2>4. (\A k \in 1 .. t - 1 : w[k] = s.world[k]) /\ \A k \in t .. s.current : w[k] = FrameAt(s, k)
    BY <2>1, <2>3
  <2> HIDE DEF w
  <2>5. u.world = w /\ u.inputs = i /\ u.current = s.current /\ u.refused = s.refused
    BY <1>1, <2>2
  <2>6. ~s.refused => Truthful(s.inputs, s.world, facts, s.current - far, t - 1)
    <3> DEFINE m == t - 1
    <3>1. m \in Int /\ m <= s.current
      BY <1>1
    <3> HIDE DEF m
    <3>2. ~s.refused => Truthful(s.inputs, s.world, facts, s.current - far, m)
      BY <3>1, CorrectUpto
    <3> QED BY <3>2 DEF m
  <2>7. i = Predicted(s, t, s.current)
    BY DEF i
  <2>8. ~s.refused => Truthful(i, w, facts, s.current - far, s.current)
    BY <2>1, <2>4, <2>6, <2>7, AgainCorrect
  <2> QED BY <2>5, <2>8 DEF Correct
<1> QED BY <1>2, <1>3

(***************************************************************************)
(* The mesh.                                                               *)
(***************************************************************************)
Far == IF game.lag < MaxRollback THEN MaxRollback ELSE game.lag

(* No input is given further ahead of a session than its game allows.      *)
InTimeFor(p) == \A r \in given : r.tick <= session[p].current + game.ahead

TInv ==
  /\ IInv
  /\ heard \in [Peers -> SUBSET given]
  /\ Unambiguous(given)
  /\ \A p \in Peers :
       resyncs[p] = 0 => InTimeFor(p) /\ Correct(session[p], heard[p], Far)

LEMMA FarFacts ==
  ASSUME IInv, RingSuffices
  PROVE  /\ Far \in Nat /\ MaxRollback <= Far /\ game.lag <= Far /\ game.lag \in Nat
         /\ game.ahead \in Nat /\ Far + game.ahead < InputHistory
<1>1. game \in Games /\ game.lag \in Nat /\ game.ahead \in Nat /\ MaxRollback \in Nat
  BY GamesAssumption, RollbackAssumption DEF IInv
<1>2. game.lag + game.ahead < InputHistory /\ MaxRollback + game.ahead < InputHistory
  BY <1>1 DEF RingSuffices
<1> QED BY <1>1, <1>2 DEF Far

LEMMA PeerFacts ==
  ASSUME TInv, NEW p \in Peers
  PROVE  /\ p \in Players /\ Sound(session[p]) /\ session[p].current \in Nat
         /\ heard[p] \subseteq given /\ heard[p] \subseteq Given
         /\ resyncs[p] = 0 =>
              /\ Bounded(session[p], heard[p], game.ahead)
              /\ Correct(session[p], heard[p], Far)
<1>1. p \in Players /\ Sound(session[p])
  BY GamesAssumption DEF TInv, IInv, Peers
<1>2. heard[p] \subseteq given /\ given \subseteq Given
  BY DEF TInv, IInv
<1> QED BY <1>1, <1>2, SoundFacts DEF TInv, InTimeFor, Bounded

LEMMA UnambiguousSubset ==
  ASSUME NEW facts, Unambiguous(facts), NEW some \in SUBSET facts PROVE Unambiguous(some)
BY DEF Unambiguous

LEMMA TInitSound == Init => TInv
<1> SUFFICES ASSUME Init PROVE TInv
  OBVIOUS
<1>1. IInv
  BY InitSound
<1>2. heard \in [Peers -> SUBSET given] /\ Unambiguous(given) /\ given = {}
  BY DEF Init, Unambiguous
<1>3. ASSUME NEW p \in Peers PROVE InTimeFor(p) /\ Correct(session[p], heard[p], Far)
  <2>1. session[p] = NewSession /\ heard[p] = {}
    BY DEF Init
  <2>2. \A z \in Players : NewSession.inputs[z].slots = {}
    BY DEF NewSession, NoInputs
  <2>3. NewSession.current = 0
    BY DEF NewSession
  <2> QED BY <1>2, <2>1, <2>2, <2>3
       DEF InTimeFor, Correct, Truthful, OneEach, Remembers, OnRecord, True
<1> QED BY <1>1, <1>2, <1>3 DEF TInv

(* The session of p becomes s, and it is told what makes facts.            *)
LEMMA OneTruthful ==
  ASSUME TInv, IInv', NEW p \in Peers, NEW s, session' = [session EXCEPT ![p] = s],
         NEW facts, heard' = [heard EXCEPT ![p] = facts], facts \subseteq given',
         game' = game, resyncs' = resyncs, given \subseteq given', Unambiguous(given'),
         \A q \in Peers : resyncs[q] = 0 =>
           \A r \in given' : r.tick <= session[q].current + game.ahead,
         s.current \in Nat, session[p].current <= s.current,
         resyncs[p] = 0 => Correct(s, facts, Far)
  PROVE  TInv'
<1>1. Peers' = Peers /\ Far' = Far
  BY DEF Peers, Far
<1>2. heard' \in [Peers -> SUBSET given']
  BY DEF TInv
<1>3. ASSUME NEW q \in Peers, resyncs[q] = 0
      PROVE  InTimeFor(q)' /\ Correct(session'[q], heard'[q], Far)
  <2>1. session \in [Peers -> Session] /\ heard \in [Peers -> SUBSET given]
    BY DEF TInv, IInv
  <2>2. CASE q = p
    <3>1. session'[q] = s /\ heard'[q] = facts /\ Correct(s, facts, Far)
      BY <1>3, <2>1, <2>2
    <3>2. \A r \in given' : r.tick \in Nat
      BY DEF IInv, Given, Ticks
    <3>3. session[p].current \in Nat /\ game.ahead \in Nat
      BY PeerFacts, GamesAssumption DEF TInv, IInv
    <3>4. \A r \in given' : r.tick <= s.current + game.ahead
      BY <1>3, <2>2, <3>2, <3>3
    <3> QED BY <3>1, <3>4 DEF InTimeFor
  <2>3. CASE q # p
    <3>1. session'[q] = session[q] /\ heard'[q] = heard[q]
      BY <2>1, <2>3
    <3> QED BY <1>3, <3>1 DEF InTimeFor, TInv
  <2> QED BY <2>2, <2>3
<1>4. \A q \in Peers : resyncs'[q] = 0 => InTimeFor(q)' /\ Correct(session'[q], heard'[q], Far)
  BY <1>3
<1> QED BY <1>1, <1>2, <1>4 DEF TInv

LEMMA TStepSound == ASSUME TInv, RingSuffices, [Next]_vars PROVE TInv'
<1>1. IInv'
  BY StepSound DEF TInv
<1>2. /\ Far \in Nat /\ MaxRollback <= Far /\ game.lag <= Far /\ game.lag \in Nat
      /\ game.ahead \in Nat /\ Far + game.ahead < InputHistory
  BY FarFacts DEF TInv
<1>3. \A q \in Peers : resyncs[q] = 0 =>
        \A r \in given : r.tick <= session[q].current + game.ahead
  BY DEF TInv, InTimeFor
<1>4. Unambiguous(given)
  BY DEF TInv
(* An input that was not given yet.                                        *)
<1>5. ASSUME NEW z \in Players, NEW t, NEW input, ~HasGiven(z, t),
             given' = given \cup {Fact(z, t, input)},
             \A q \in Peers : t <= session[q].current + game.ahead
      PROVE  /\ Unambiguous(given')
             /\ \A q \in Peers : resyncs[q] = 0 =>
                  \A r \in given' : r.tick <= session[q].current + game.ahead
  <2>1. Fact(z, t, input).player = z /\ Fact(z, t, input).tick = t
    BY DEF Fact
  <2>2. \A r \in given : ~(r.player = z /\ r.tick = t)
    BY <1>5 DEF HasGiven
  <2>3. Unambiguous(given')
    BY <1>4, <1>5, <2>1, <2>2 DEF Unambiguous
  <2> QED BY <1>3, <1>5, <2>1, <2>3
<1>6. ASSUME NEW p \in Peers, NEW input \in Inputs, GiveLocalInput(p, input) PROVE TInv'
  <2> DEFINE t == LocalTarget(session[p], game.delay[p])
             s == Confirmed(session[p], p, t, input)
             facts == heard[p] \cup {Fact(p, t, input)}
  <2>1. /\ p \in Players /\ Sound(session[p]) /\ session[p].current \in Nat
        /\ heard[p] \subseteq given
        /\ resyncs[p] = 0 => Bounded(session[p], heard[p], game.ahead)
                             /\ Correct(session[p], heard[p], Far)
    BY PeerFacts
  <2>2. /\ ~HasGiven(p, t) /\ \A q \in Peers : t <= session[q].current + game.ahead
        /\ session' = [session EXCEPT ![p] = s] /\ given' = given \cup {Fact(p, t, input)}
        /\ heard' = [heard EXCEPT ![p] = facts] /\ game' = game /\ resyncs' = resyncs
    BY <1>6 DEF GiveLocalInput, AddLocalInput, Fact
  <2>3. t \in Ticks /\ session[p].current < t
        /\ session[p].current - Far <= t /\ t <= session[p].current + game.ahead
    <3>1. game.delay[p] \in Nat
      BY <2>1, DelayType DEF TInv
    <3> QED BY <1>2, <2>1, <2>2, <3>1 DEF LocalTarget, Ticks
  <2> HIDE DEF t
  <2>4. /\ Unambiguous(given')
        /\ \A q \in Peers : resyncs[q] = 0 =>
             \A r \in given' : r.tick <= session[q].current + game.ahead
    BY <1>5, <2>1, <2>2
  <2>5. facts \subseteq given' /\ Unambiguous(facts)
    BY <2>1, <2>2, <2>4, UnambiguousSubset
  <2>6. s.current = session[p].current /\ (resyncs[p] = 0 => Correct(s, facts, Far))
    <3>1. s.current = session[p].current
      BY <2>1, SoundFacts DEF Confirmed
    <3>2. ASSUME resyncs[p] = 0 PROVE Correct(s, facts, Far)
      <4> DEFINE a == game.ahead
                 b == session[p]
                 h == heard[p]
      <4>1. /\ Sound(b) /\ Far \in Nat /\ a \in Nat /\ Far + a < InputHistory
            /\ Bounded(b, h, a) /\ Correct(b, h, Far)
            /\ b.current - Far <= t /\ t <= b.current + a /\ b.current < t
            /\ Unambiguous(h \cup {Fact(p, t, input)}) /\ s = Confirmed(b, p, t, input)
            /\ p \in Players /\ t \in Ticks /\ input \in Inputs
        BY <1>2, <2>1, <2>3, <2>5, <3>2
      <4> HIDE DEF a, b, h, s
      <4>2. Correct(s, h \cup {Fact(p, t, input)}, Far)
        BY <4>1, AddLocalCorrect
      <4> QED BY <4>2 DEF h
    <3> QED BY <3>1, <3>2
  <2> HIDE DEF s, facts
  <2>7. s.current \in Nat /\ session[p].current <= s.current /\ given \subseteq given'
    BY <2>1, <2>2, <2>6
  <2> QED BY <1>1, <2>2, <2>4, <2>5, <2>6, <2>7, OneTruthful
(* A step of one session that gives no input.                              *)
<1>7. ASSUME NEW p \in Peers, NEW s, session' = [session EXCEPT ![p] = s],
             NEW facts \in SUBSET given, heard' = [heard EXCEPT ![p] = facts],
             UNCHANGED <<game, given, resyncs>>,
             s.current = session[p].current \/ s.current = session[p].current + 1,
             resyncs[p] = 0 => Correct(s, facts, Far)
      PROVE  TInv'
  <2>1. session[p].current \in Nat
    BY PeerFacts
  <2>2. s.current \in Nat /\ session[p].current <= s.current
    BY <1>7, <2>1
  <2> QED BY <1>1, <1>3, <1>4, <1>7, <2>2, OneTruthful
<1>8. ASSUME NEW p \in Peers, UNCHANGED heard
      PROVE  heard' = [heard EXCEPT ![p] = heard[p]] /\ heard[p] \in SUBSET given
  BY <1>8 DEF TInv
<1>9. ASSUME NEW p \in Peers, AdvanceFrame(p) PROVE TInv'
  <2> DEFINE s == Advance(session[p])
  <2>1. /\ session' = [session EXCEPT ![p] = s] /\ UNCHANGED heard
        /\ UNCHANGED <<game, given, resyncs>>
    BY <1>9 DEF AdvanceFrame
  <2>2. s.current = session[p].current + 1
    BY PeerFacts, SoundFacts DEF Advance
  <2>3. resyncs[p] = 0 => Correct(s, heard[p], Far)
    BY <1>2, PeerFacts, AdvanceCorrect
  <2> HIDE DEF s
  <2> QED BY <1>7, <1>8, <2>1, <2>2, <2>3
<1>10. ASSUME NEW p \in Peers, NEW r \in given, ReceiveInput(p, r) PROVE TInv'
  <2> DEFINE s == AddRemoteInput(session[p], r.player, r.tick, r.input)
             facts == heard[p] \cup {r}
  <2>1. /\ session' = [session EXCEPT ![p] = s] /\ heard' = [heard EXCEPT ![p] = facts]
        /\ UNCHANGED <<game, given, resyncs>> /\ session[p].current - r.tick <= game.lag
    BY <1>10 DEF ReceiveInput
  <2>2. /\ r.player \in Players /\ r.tick \in Ticks /\ r.tick \in Nat /\ r.input \in Inputs
        /\ r = Fact(r.player, r.tick, r.input)
    BY DEF TInv, IInv, Given, Ticks, Fact
  <2>3. /\ Sound(session[p]) /\ session[p].current \in Nat /\ heard[p] \subseteq given
        /\ resyncs[p] = 0 => Bounded(session[p], heard[p], game.ahead)
                             /\ Correct(session[p], heard[p], Far)
    BY PeerFacts
  <2>4. facts \in SUBSET given /\ Unambiguous(facts)
    BY <1>4, <2>3, UnambiguousSubset
  <2>5. session[p].current - Far <= r.tick
    BY <1>2, <2>1, <2>2, <2>3
  <2>6. ASSUME resyncs[p] = 0 PROVE Correct(s, facts, Far) /\ s.current = session[p].current
    <3> DEFINE a == game.ahead
               b == session[p]
               h == heard[p]
               z == r.player
               t == r.tick
               i == r.input
    <3>1. /\ Sound(b) /\ Far \in Nat /\ MaxRollback <= Far /\ a \in Nat /\ Far + a < InputHistory
          /\ Bounded(b, h, a) /\ Correct(b, h, Far)
          /\ b.current - Far <= t /\ t <= b.current + a
          /\ Unambiguous(h \cup {Fact(z, t, i)}) /\ s = AddRemoteInput(b, z, t, i)
          /\ z \in Players /\ t \in Ticks /\ i \in Inputs
      BY <1>2, <1>3, <2>2, <2>3, <2>4, <2>5, <2>6
    <3> HIDE DEF a, b, h, z, t, i, s
    <3>2. Correct(s, h \cup {Fact(z, t, i)}, Far) /\ s.current = b.current /\ (~s.refused => ~b.refused)
      BY <3>1, AddRemoteCorrect
    <3> QED BY <2>2, <3>2 DEF h, b, z, t, i
  <2>7. s.current = session[p].current
    <3> DEFINE c == Confirmed(session[p], r.player, r.tick, r.input)
    <3>1. c.current = session[p].current /\ Sound(c)
      BY <2>2, <2>3, SoundFacts, ConfirmedSound DEF Confirmed
    <3> HIDE DEF c
    <3>2. RollbackTo(c, r.tick).current = c.current
      BY <2>2, <3>1, RollbackToCurrent
    <3> QED BY <3>1, <3>2 DEF AddRemoteInput, c
  <2> HIDE DEF s, facts
  <2> QED BY <1>7, <2>1, <2>4, <2>6, <2>7
<1>11. ASSUME NEW p \in Peers, NEW t \in 1 .. session[p].current, RollBack(p, t) PROVE TInv'
  <2> DEFINE s == RollbackTo(session[p], t)
  <2>1. /\ session' = [session EXCEPT ![p] = s] /\ UNCHANGED heard
        /\ UNCHANGED <<game, given, resyncs>>
    BY <1>11 DEF RollBack
  <2>2. Sound(session[p]) /\ session[p].current \in Nat /\ t \in Ticks
    BY PeerFacts DEF Ticks
  <2>3. s.current = session[p].current
    BY <2>2, RollbackToCurrent
  <2>4. ASSUME resyncs[p] = 0 PROVE Correct(s, heard[p], Far)
    <3> DEFINE a == game.ahead
               b == session[p]
               h == heard[p]
               m == t - 1
    <3>1. /\ Sound(b) /\ Far \in Nat /\ MaxRollback <= Far /\ a \in Nat /\ Far + a < InputHistory
          /\ Bounded(b, h, a) /\ Correct(b, h, Far) /\ s = RollbackTo(b, t)
          /\ m \in Int /\ m <= b.current /\ t <= b.current
      BY <1>2, <2>2, <2>4, PeerFacts
    <3> HIDE DEF a, b, h, m, s
    <3>2. ~b.refused => Truthful(b.inputs, b.world, h, b.current - Far, m)
      BY <3>1, CorrectUpto
    <3>3. ~b.refused => Truthful(b.inputs, b.world, h, b.current - Far,
                                 IF t <= b.current THEN t - 1 ELSE b.current)
      BY <3>1, <3>2 DEF m
    <3>4. Correct(s, h, Far) /\ s.current = b.current /\ (~s.refused => ~b.refused)
      BY <2>2, <3>1, <3>3, RollbackToCorrect
    <3> QED BY <3>4 DEF h
  <2> HIDE DEF s
  <2> QED BY <1>7, <1>8, <2>1, <2>3, <2>4
<1>12. ASSUME NEW p \in Peers, TestSync(p) PROVE TInv'
  <2> DEFINE s == SyncTest(session[p])
  <2>1. /\ session' = [session EXCEPT ![p] = s] /\ UNCHANGED heard
        /\ UNCHANGED <<game, given, resyncs>>
    BY <1>12 DEF TestSync
  <2>2. s.current = session[p].current
    BY PeerFacts, SoundFacts DEF SyncTest
  <2>3. resyncs[p] = 0 => Correct(s, heard[p], Far)
    BY <1>2, PeerFacts, SyncTestCorrect
  <2> HIDE DEF s
  <2> QED BY <1>7, <1>8, <2>1, <2>2, <2>3
<1>13. ASSUME NEW p \in Peers, NEW q \in Peers \ {p}, Resync(p, q) PROVE TInv'
  <2>1. /\ \A x \in Peers \ {p} : session'[x] = session[x] /\ resyncs'[x] = resyncs[x]
        /\ resyncs'[p] # 0 /\ UNCHANGED <<game, given, heard>>
    BY <1>13 DEF Resync, TInv, IInv
  <2>2. Peers' = Peers /\ Far' = Far
    BY <2>1 DEF Peers, Far
  <2>3. \A x \in Peers \ {p} : resyncs'[x] = 0 =>
          InTimeFor(x)' /\ Correct(session'[x], heard'[x], Far)
    BY <2>1 DEF TInv, InTimeFor
  <2> QED BY <1>1, <2>1, <2>2, <2>3 DEF TInv
<1>14. ASSUME NEW p \in Players \ Peers, NEW t \in 1 .. MaxTick, NEW input \in Inputs,
              GiveOtherInput(p, t, input)
       PROVE  TInv'
  <2>1. /\ given' = given \cup {Fact(p, t, input)} /\ UNCHANGED <<game, session, heard, resyncs>>
        /\ ~HasGiven(p, t) /\ \A q \in Peers : t <= session[q].current + game.ahead
    BY <1>14 DEF GiveOtherInput, Fact
  <2>2. /\ Unambiguous(given')
        /\ \A q \in Peers : resyncs[q] = 0 =>
             \A r \in given' : r.tick <= session[q].current + game.ahead
    BY <1>5, <2>1
  <2>3. Peers' = Peers /\ Far' = Far
    BY <2>1 DEF Peers, Far
  <2> QED BY <1>1, <2>1, <2>2, <2>3 DEF TInv, InTimeFor
<1>15. CASE UNCHANGED vars
  BY <1>1, <1>15 DEF vars, TInv, InTimeFor, Peers, Far
<1> QED BY <1>6, <1>9, <1>10, <1>11, <1>12, <1>13, <1>14, <1>15 DEF Next

LEMMA TruthInvariant == ASSUME RingSuffices PROVE Spec => []TInv
<1>1. TInv /\ [Next]_vars => TInv'
  BY TStepSound
<1> QED BY <1>1, TInitSound, PTL DEF Spec

(* No wrong prediction survives its correction, however late and in        *)
(* whatever order the inputs are learnt, whatever is rolled back or        *)
(* simulated again in between, as long as no rollback was refused          *)
(* (session.rs:205-290, input.rs:104-150).                                 *)
THEOREM TruthAlwaysPrevails == ASSUME RingSuffices PROVE Spec => []TruthPrevails
<1>1. TInv => TruthPrevails
  <2> SUFFICES ASSUME TInv, NEW p \in Peers, Undisturbed(p)
               PROVE  True(session[p].world, heard[p], session[p].current)
    BY DEF TruthPrevails, True
  <2>1. Correct(session[p], heard[p], Far) /\ ~session[p].refused
    BY PeerFacts DEF Undisturbed
  <2> QED BY <2>1 DEF Correct, Truthful
<1> QED BY <1>1, TruthInvariant, PTL

(***************************************************************************)
(* Simulating again.                                                       *)
(***************************************************************************)
(* The frame the queues give for a tick is the one it was simulated with.  *)
LEMMA FrameOnRecord ==
  ASSUME NEW s, Sound(s), ~s.refused, NEW far \in Nat, NEW facts, Correct(s, facts, far),
         NEW k \in 1 .. s.current, s.current - far <= k
  PROVE  FrameAt(s, k) = s.world[k]
<1>1. /\ s.inputs \in [Players -> PlayerInputs] /\ s.current \in Nat
      /\ s.world \in Seq(Frame) /\ Len(s.world) = s.current
  BY SoundFacts
<1>2. s.world[k] \in Frame
  BY <1>1
<1>3. ASSUME NEW z \in Players PROVE InputFor(s.inputs[z], k) = s.world[k][z]
  <2> DEFINE q == s.inputs[z]
  <2>1. q \in PlayerInputs /\ OneEach(q) /\ OnRecord(q, z, s.world, s.current - far, s.current)
    BY <1>1 DEF Correct, Truthful
  <2> HIDE DEF q
  <2>2. PICK e \in q.slots : e.tick = k /\ e.input = s.world[k][z]
    BY <2>1 DEF OnRecord
  <2>3. InputFor(q, k) = e.input
    BY <2>1, <2>2, InputOnRecord
  <2> QED BY <2>2, <2>3 DEF q
<1> QED BY <1>2, <1>3 DEF FrameAt, Frame

(* Rolling back a session whose queues are those of its world changes      *)
(* nothing, and neither does its sync test.                                *)
LEMMA RollbackSame ==
  ASSUME NEW s, Sound(s), ~s.refused, NEW far \in Nat, MaxRollback <= far,
         NEW facts, Correct(s, facts, far), NEW t \in 1 .. s.current
  PROVE  RollbackTo(s, t).world = s.world
<1>1. /\ s.current \in Nat /\ s.world \in Seq(Frame) /\ Len(s.world) = s.current
      /\ s = [inputs |-> s.inputs, world |-> s.world, saved |-> s.saved,
              current |-> s.current, refused |-> s.refused]
  BY SoundFacts
<1>2. ~(t > s.current) /\ MaxRollback \in Nat
  BY <1>1, RollbackAssumption
<1>3. CASE InWindow(s, t) /\ IsSaved(s, t - 1)
  <2> DEFINE u == Resimulate(s, t)
  <2>1. RollbackTo(s, t) = u
    BY <1>2, <1>3 DEF RollbackTo
  <2>2. u.world = [k \in 1 .. s.current |-> IF k < t THEN s.world[k] ELSE FrameAt(s, k)]
    BY <1>3, ResimulateFields
  <2>3. ASSUME NEW k \in 1 .. s.current, t <= k PROVE FrameAt(s, k) = s.world[k]
    <3>1. s.current - far <= k
      BY <1>1, <1>2, <1>3, <2>3 DEF InWindow
    <3> QED BY <3>1, FrameOnRecord
  <2> HIDE DEF u
  <2>4. u.world = [k \in 1 .. s.current |-> s.world[k]]
    BY <1>1, <2>2, <2>3
  <2> QED BY <1>1, <2>1, <2>4
<1>4. CASE ~(InWindow(s, t) /\ IsSaved(s, t - 1))
  <2>1. RollbackTo(s, t) = [s EXCEPT !.refused = TRUE]
    BY <1>2, <1>4 DEF RollbackTo
  <2> QED BY <1>1, <2>1
<1> QED BY <1>3, <1>4

LEMMA SyncTestSame ==
  ASSUME NEW s, Sound(s), ~s.refused, NEW far \in Nat, NEW facts, Correct(s, facts, far),
         NEW k \in 1 .. s.current
  PROVE  SyncTest(s).world[k] = s.world[k]
<1> DEFINE t == s.current
<1>1. /\ t \in Nat /\ s.world \in Seq(Frame) /\ Len(s.world) = t
      /\ s = [inputs |-> s.inputs, world |-> s.world, saved |-> s.saved,
              current |-> s.current, refused |-> s.refused]
  BY SoundFacts
<1>2. CASE t = 0 \/ ~IsSaved(s, t - 1)
  BY <1>2 DEF SyncTest
<1>3. CASE t # 0 /\ IsSaved(s, t - 1)
  <2> DEFINE base == SavedAt(s, t - 1)
             w == Append(base, FrameAt(s, t))
  <2>1. SyncTest(s).world = w
    BY <1>1, <1>3 DEF SyncTest
  <2>2. t \in 1 .. t /\ t - far <= t
    BY <1>1, <1>3
  <2>3. base \in Seq(Frame) /\ Len(base) = t - 1 /\ \A j \in 1 .. t - 1 : base[j] = s.world[j]
    BY <1>3, <2>2, RestoredPast
  <2>4. FrameAt(s, t) = s.world[t]
    BY <2>2, FrameOnRecord
  <2> HIDE DEF base
  <2>5. k \in 1 .. t - 1 \/ k = t
    BY <1>1
  <2> QED BY <1>1, <2>1, <2>3, <2>4, <2>5
<1> QED BY <1>2, <1>3

(* A remote input leaves alone what was simulated before its tick, and the *)
(* other players' inputs everywhere.                                       *)
LEMMA OthersStay ==
  ASSUME NEW s, Sound(s), ~s.refused, NEW far \in Nat, MaxRollback <= far,
         NEW facts, Correct(s, facts, far),
         NEW x \in Players, NEW t \in Ticks, NEW input \in Inputs,
         NEW u, u = AddRemoteInput(s, x, t, input),
         NEW z \in Players, NEW k \in 1 .. s.current, z # x \/ k < t
  PROVE  u.world[k][z] = s.world[k][z]
<1> DEFINE c == Confirmed(s, x, t, input)
<1>1. /\ s.current \in Nat /\ s.inputs \in [Players -> PlayerInputs] /\ t \in Nat /\ t > 0
      /\ s = [inputs |-> s.inputs, world |-> s.world, saved |-> s.saved,
              current |-> s.current, refused |-> s.refused]
  BY SoundFacts DEF Ticks
<1>2. /\ c.world = s.world /\ c.current = s.current /\ c.refused = s.refused
      /\ z # x => c.inputs[z] = s.inputs[z]
  BY <1>1 DEF Confirmed
<1>3. Sound(c)
  BY ConfirmedSound
<1>4. u = c \/ u = RollbackTo(c, t)
  BY DEF AddRemoteInput
<1> HIDE DEF c
<1>5. CASE u = c
  BY <1>2, <1>5
<1>6. CASE u = RollbackTo(c, t)
  <2>1. /\ c = [inputs |-> c.inputs, world |-> c.world, saved |-> c.saved,
                current |-> c.current, refused |-> c.refused]
    BY <1>3, SoundFacts
  <2>2. CASE t > c.current
    BY <1>2, <1>6, <2>2 DEF RollbackTo
  <2>3. CASE ~(t > c.current) /\ ~(InWindow(c, t) /\ IsSaved(c, t - 1))
    <3>1. u = [c EXCEPT !.refused = TRUE]
      BY <1>6, <2>3 DEF RollbackTo
    <3> QED BY <1>2, <2>1, <3>1
  <2>4. CASE ~(t > c.current) /\ InWindow(c, t) /\ IsSaved(c, t - 1)
    <3>1. u = Resimulate(c, t) /\ t \in 1 .. c.current
      BY <1>1, <1>2, <1>6, <2>4 DEF RollbackTo
    <3>2. u.world[k] = IF k < t THEN s.world[k] ELSE FrameAt(c, k)
      <4>1. k \in 1 .. c.current
        BY <1>2
      <4>2. u.world = [j \in 1 .. c.current |-> IF j < t THEN c.world[j] ELSE FrameAt(c, j)]
        BY <1>3, <2>4, <3>1, ResimulateFields
      <4> QED BY <1>2, <4>1, <4>2
    <3>3. ASSUME ~(k < t) PROVE FrameAt(c, k)[z] = s.world[k][z]
      <4>1. s.current - far <= k
        BY <1>1, <1>2, <2>4, <3>3, RollbackAssumption DEF InWindow
      <4>2. FrameAt(s, k) = s.world[k]
        BY <4>1, FrameOnRecord
      <4>3. FrameAt(c, k)[z] = FrameAt(s, k)[z]
        BY <1>2, <3>3 DEF FrameAt
      <4> QED BY <4>2, <4>3
    <3> QED BY <3>2, <3>3
  <2> QED BY <2>2, <2>3, <2>4
<1> QED BY <1>4, <1>5, <1>6

(* What a session of the mesh has simulated, its queues still give.        *)
LEMMA UndisturbedFacts ==
  ASSUME TInv, NEW p \in Peers, Undisturbed(p)
  PROVE  /\ Sound(session[p]) /\ ~session[p].refused /\ session[p].current \in Nat
         /\ Correct(session[p], heard[p], Far)
         /\ Far \in Nat /\ MaxRollback <= Far
<1>1. Sound(session[p]) /\ session[p].current \in Nat /\ Correct(session[p], heard[p], Far)
  BY PeerFacts DEF Undisturbed
<1>2. Far \in Nat /\ MaxRollback <= Far
  BY GamesAssumption, RollbackAssumption DEF Far, TInv, IInv
<1> QED BY <1>1, <1>2 DEF Undisturbed

(* Rolling back and simulating again changes nothing once the inputs known *)
(* are in the world: the sync test accuses no deterministic simulation     *)
(* (session.rs:240-267, 310-340, tests/rollback.rs:83).                    *)
THEOREM ReplayAlwaysReproduces == ASSUME RingSuffices PROVE Spec => []ResimulationReproduces
<1>1. TInv => ResimulationReproduces
  BY UndisturbedFacts, RollbackSame DEF ResimulationReproduces
<1> QED BY <1>1, TruthInvariant, PTL

(* Two peers that were told every player's input for a tick have simulated *)
(* the tick with the same frame: the network's delays, order and           *)
(* duplicates leave no trace in the worlds (ADR-0013:50).  It is stated    *)
(* per tick, as the ticks of an input delay never have an input.           *)
Complete(p, k) == \A z \in Players : \E r \in heard[p] : r.player = z /\ r.tick = k
FramesConverge ==
  \A p, q \in Peers : Undisturbed(p) /\ Undisturbed(q) =>
    \A k \in 1 .. session[p].current :
      k <= session[q].current /\ Complete(p, k) /\ Complete(q, k)
      => session[p].world[k] = session[q].world[k]

THEOREM FramesAlwaysConverge == ASSUME RingSuffices PROVE Spec => []FramesConverge
<1>1. TInv => FramesConverge
  <2> SUFFICES ASSUME TInv, NEW p \in Peers, NEW q \in Peers,
                      Undisturbed(p), Undisturbed(q),
                      NEW k \in 1 .. session[p].current, k <= session[q].current,
                      Complete(p, k), Complete(q, k)
               PROVE  session[p].world[k] = session[q].world[k]
    BY DEF FramesConverge
  <2>1. ASSUME NEW x \in Peers, Undisturbed(x), k <= session[x].current, Complete(x, k)
        PROVE  /\ session[x].world[k] \in Frame
               /\ \A z \in Players : Fact(z, k, session[x].world[k][z]) \in given
    <3>1. /\ session[x].world \in Seq(Frame) /\ Len(session[x].world) = session[x].current
          /\ session[x].current \in Nat /\ heard[x] \subseteq given /\ given \subseteq Given
      BY PeerFacts, SoundFacts DEF TInv, IInv
    <3>2. True(session[x].world, heard[x], session[x].current)
      BY <2>1, PeerFacts DEF Undisturbed, Correct, Truthful
    <3>3. ASSUME NEW z \in Players PROVE Fact(z, k, session[x].world[k][z]) \in given
      <4>1. PICK r \in heard[x] : r.player = z /\ r.tick = k
        BY <2>1 DEF Complete
      <4>2. r.input = session[x].world[k][z] /\ r \in given
        BY <2>1, <3>1, <3>2, <4>1 DEF True
      <4>3. r = Fact(r.player, r.tick, r.input)
        BY <3>1, <4>2 DEF Given, Fact
      <4> QED BY <4>1, <4>2, <4>3
    <3>4. session[x].world[k] \in Frame
      BY <2>1, <3>1
    <3> QED BY <3>3, <3>4
  <2>2. k <= session[p].current /\ k <= session[q].current
    BY PeerFacts
  <2> DEFINE f == session[p].world[k]
             g == session[q].world[k]
  <2>3. /\ f \in Frame /\ g \in Frame
        /\ \A z \in Players : Fact(z, k, f[z]) \in given /\ Fact(z, k, g[z]) \in given
    BY <2>1, <2>2
  <2> HIDE DEF f, g
  <2>4. ASSUME NEW z \in Players PROVE f[z] = g[z]
    <3>1. /\ Fact(z, k, f[z]).player = z /\ Fact(z, k, f[z]).tick = k /\ Fact(z, k, f[z]).input = f[z]
          /\ Fact(z, k, g[z]).player = z /\ Fact(z, k, g[z]).tick = k /\ Fact(z, k, g[z]).input = g[z]
      BY DEF Fact
    <3> QED BY <2>3, <3>1 DEF TInv, Unambiguous
  <2>5. f = g
    BY <2>3, <2>4 DEF Frame
  <2> QED BY <2>5 DEF f, g
<1> QED BY <1>1, TruthInvariant, PTL

(***************************************************************************)
(* What is final.                                                          *)
(***************************************************************************)
(* The confirmed frame is a tick, the least of the players'.               *)
LEMMA ConfirmedFrameType ==
  ASSUME NEW s \in Session, Players # {} PROVE ConfirmedFrame(s) \in Nat
<1> DEFINE T == {s.inputs[p].last_confirmed : p \in Players}
<1>1. T \in SUBSET Nat /\ T # {}
  BY DEF Session, PlayerInputs
<1> HIDE DEF T
<1>2. PICK t \in T : \A u \in T : ~ (<<u, t>> \in OpToRel(<, Nat))
  BY <1>1, WFMin, NatLessThanWellFounded
<1>3. \A u \in T : t <= u
  <2>1. \A u \in T : ~ (u < t)
    BY <1>1, <1>2 DEF OpToRel
  <2> QED BY <1>1, <2>1
<1>4. \A p \in Players : t <= s.inputs[p].last_confirmed
  BY <1>3 DEF T
<1>5. ConfirmedFrame(s) \in T
  BY <1>4 DEF ConfirmedFrame, T
<1> QED BY <1>1, <1>5

(* A rollback that is refused leaves the world alone.                      *)
LEMMA RefusalIsHarmless ==
  ASSUME NEW s, Sound(s), ~s.refused, NEW t \in Ticks, RollbackTo(s, t).refused
  PROVE  RollbackTo(s, t).world = s.world
<1>1. s.current \in Nat /\ t \in Nat /\ t > 0
      /\ s = [inputs |-> s.inputs, world |-> s.world, saved |-> s.saved,
              current |-> s.current, refused |-> s.refused]
  BY SoundFacts DEF Ticks
<1>2. CASE t > s.current
  BY <1>2 DEF RollbackTo
<1>3. CASE t <= s.current /\ InWindow(s, t) /\ IsSaved(s, t - 1)
  <2>1. t \in 1 .. s.current /\ ~(t > s.current)
    BY <1>1, <1>3
  <2>2. RollbackTo(s, t) = Resimulate(s, t)
    BY <1>3, <2>1 DEF RollbackTo
  <2>3. Resimulate(s, t).refused = s.refused
    BY <1>3, <2>1, ResimulateFields
  <2> QED BY <2>2, <2>3
<1>4. CASE ~(t > s.current) /\ ~(InWindow(s, t) /\ IsSaved(s, t - 1))
  <2>1. RollbackTo(s, t) = [s EXCEPT !.refused = TRUE]
    BY <1>4 DEF RollbackTo
  <2> QED BY <1>1, <2>1
<1> QED BY <1>1, <1>2, <1>3, <1>4

(* So does a step after which the session has refused its first.           *)
LEMMA FirstRefusal ==
  ASSUME TInv, [Next]_vars, NEW p \in Peers, ~session[p].refused, session'[p].refused,
         resyncs'[p] = resyncs[p]
  PROVE  session'[p].world = session[p].world
<1> DEFINE s == session[p]
<1>1. /\ Sound(s) /\ p \in Players /\ session \in [Peers -> Session] /\ resyncs \in [Peers -> Nat]
      /\ s.refused \in BOOLEAN
  BY PeerFacts, SoundFacts DEF TInv, IInv
<1>0. s = [inputs |-> s.inputs, world |-> s.world, saved |-> s.saved,
            current |-> s.current, refused |-> s.refused]
  BY <1>1, SoundFacts
<1> HIDE DEF s
<1>s. s = session[p]
  BY DEF s
<1>2. SUFFICES ASSUME session' # session PROVE session'[p].world = s.world
  BY DEF s
<1>3. ASSUME NEW q \in Peers, NEW x, session' = [session EXCEPT ![q] = x],
             q = p => ~x.refused \/ x.world = s.world
      PROVE  session'[p].world = s.world
  <2>1. CASE q = p
    BY <1>1, <1>3, <2>1
  <2>2. CASE q # p
    BY <1>1, <1>3, <1>s, <2>2
  <2> QED BY <2>1, <2>2
<1>4. ASSUME NEW q \in Peers, NEW input \in Inputs, GiveLocalInput(q, input)
      PROVE  session'[p].world = s.world
  <2>1. session' = [session EXCEPT ![q] = AddLocalInput(session[q], game.delay[q], q, input)]
    BY <1>4 DEF GiveLocalInput
  <2>2. AddLocalInput(s, game.delay[p], p, input).world = s.world
    BY <1>0 DEF AddLocalInput, Confirmed
  <2> QED BY <1>3, <2>1, <2>2, <1>s
<1>5. ASSUME NEW q \in Peers, AdvanceFrame(q) PROVE session'[p].world = s.world
  <2>1. session' = [session EXCEPT ![q] = Advance(session[q])]
    BY <1>5 DEF AdvanceFrame
  <2>2. ~Advance(s).refused
    BY <1>0, <1>s DEF Advance
  <2> QED BY <1>3, <2>1, <2>2, <1>s
<1>6. ASSUME NEW q \in Peers, NEW r \in given, ReceiveInput(q, r) PROVE session'[p].world = s.world
  <2> DEFINE c == Confirmed(s, r.player, r.tick, r.input)
  <2>1. session' = [session EXCEPT ![q] = AddRemoteInput(session[q], r.player, r.tick, r.input)]
    BY <1>6 DEF ReceiveInput
  <2>2. r.player \in Players /\ r.tick \in Ticks /\ r.input \in Inputs
    BY DEF TInv, IInv, Given
  <2>3. Sound(c) /\ c.refused = s.refused /\ c.world = s.world
    BY <1>0, <1>1, <2>2, ConfirmedSound DEF Confirmed
  <2>4. AddRemoteInput(s, r.player, r.tick, r.input) \in {c, RollbackTo(c, r.tick)}
    BY DEF AddRemoteInput
  <2> HIDE DEF c
  <2>5. RollbackTo(c, r.tick).refused => RollbackTo(c, r.tick).world = c.world
    BY <1>s, <2>2, <2>3, RefusalIsHarmless
  <2> DEFINE x == AddRemoteInput(session[q], r.player, r.tick, r.input)
  <2>6. q = p => ~x.refused \/ x.world = s.world
    BY <1>s, <2>3, <2>4, <2>5
  <2> HIDE DEF x
  <2>7. session' = [session EXCEPT ![q] = x]
    BY <2>1 DEF x
  <2> QED BY <1>3, <2>6, <2>7
<1>7. ASSUME NEW q \in Peers, NEW t \in 1 .. session[q].current, RollBack(q, t)
      PROVE  session'[p].world = s.world
  <2>1. session' = [session EXCEPT ![q] = RollbackTo(session[q], t)] /\ t \in Ticks
    BY <1>7, PeerFacts DEF RollBack, Ticks
  <2>2. RollbackTo(s, t).refused => RollbackTo(s, t).world = s.world
    BY <1>1, <1>s, <2>1, RefusalIsHarmless
  <2> QED BY <1>3, <2>1, <2>2, <1>s
<1>8. ASSUME NEW q \in Peers, TestSync(q) PROVE session'[p].world = s.world
  <2>1. session' = [session EXCEPT ![q] = SyncTest(session[q])]
    BY <1>8 DEF TestSync
  <2>2. ~SyncTest(s).refused
    BY <1>0, <1>s DEF SyncTest
  <2> QED BY <1>3, <2>1, <2>2, <1>s
<1>9. ASSUME NEW q \in Peers, NEW z \in Peers \ {q}, Resync(q, z) PROVE session'[p].world = s.world
  <2>1. /\ session' = [session EXCEPT ![q] = Reset(@, session[z].world)]
        /\ resyncs' = [resyncs EXCEPT ![q] = @ + 1]
    BY <1>9 DEF Resync
  <2>2. q # p
    BY <1>1, <2>1
  <2> QED BY <1>3, <2>1, <2>2
<1>10. UNCHANGED session => FALSE
  BY <1>2
<1> QED BY <1>4, <1>5, <1>6, <1>7, <1>8, <1>9, <1>10 DEF Next, vars, GiveOtherInput

(* What a session is told, it was told for good, and time does not go back.*)
LEMMA Onward ==
  ASSUME TInv, [Next]_vars, NEW p \in Peers, resyncs[p] = 0, resyncs'[p] = 0
  PROVE  heard[p] \subseteq heard'[p] /\ session[p].current <= session'[p].current
<1>1. /\ session \in [Peers -> Session] /\ heard \in [Peers -> SUBSET given]
      /\ resyncs \in [Peers -> Nat] /\ \A q \in Peers : Sound(session[q]) /\ session[q].current \in Nat
  BY PeerFacts DEF TInv, IInv
<1>2. ASSUME NEW q \in Peers, NEW s, session' = [session EXCEPT ![q] = s],
             q = p => session[p].current <= s.current
      PROVE  session[p].current <= session'[p].current
  BY <1>1, <1>2
<1>3. \A q \in Peers : session[q] =
        [inputs |-> session[q].inputs, world |-> session[q].world, saved |-> session[q].saved,
         current |-> session[q].current, refused |-> session[q].refused]
  BY <1>1, SoundFacts
<1>4. ASSUME NEW q \in Peers, NEW input \in Inputs, GiveLocalInput(q, input)
      PROVE  heard[p] \subseteq heard'[p] /\ session[p].current <= session'[p].current
  <2>1. /\ session' = [session EXCEPT ![q] = AddLocalInput(session[q], game.delay[q], q, input)]
        /\ heard[p] \subseteq heard'[p]
    BY <1>1, <1>4 DEF GiveLocalInput
  <2>2. AddLocalInput(session[q], game.delay[q], q, input).current = session[q].current
    BY <1>3 DEF AddLocalInput, Confirmed
  <2> QED BY <1>1, <1>2, <2>1, <2>2
<1>5. ASSUME NEW q \in Peers, AdvanceFrame(q)
      PROVE  heard[p] \subseteq heard'[p] /\ session[p].current <= session'[p].current
  <2>1. session' = [session EXCEPT ![q] = Advance(session[q])] /\ heard' = heard
    BY <1>5 DEF AdvanceFrame
  <2>2. Advance(session[q]).current = session[q].current + 1
    BY <1>3 DEF Advance
  <2> QED BY <1>1, <1>2, <2>1, <2>2
<1>6. ASSUME NEW q \in Peers, NEW r \in given, ReceiveInput(q, r)
      PROVE  heard[p] \subseteq heard'[p] /\ session[p].current <= session'[p].current
  <2> DEFINE c == Confirmed(session[q], r.player, r.tick, r.input)
             x == AddRemoteInput(session[q], r.player, r.tick, r.input)
  <2>1. session' = [session EXCEPT ![q] = x] /\ heard[p] \subseteq heard'[p]
    BY <1>1, <1>6 DEF ReceiveInput
  <2>2. r.player \in Players /\ r.tick \in Ticks /\ r.input \in Inputs
    BY DEF TInv, IInv, Given
  <2>3. Sound(c) /\ c.current = session[q].current
    BY <1>1, <1>3, <2>2, ConfirmedSound DEF Confirmed
  <2>4. x \in {c, RollbackTo(c, r.tick)}
    BY DEF AddRemoteInput
  <2> HIDE DEF c, x
  <2>5. RollbackTo(c, r.tick).current = c.current
    BY <2>2, <2>3, RollbackToCurrent
  <2> QED BY <1>1, <1>2, <2>1, <2>3, <2>4, <2>5
<1>7. ASSUME NEW q \in Peers, NEW t \in 1 .. session[q].current, RollBack(q, t)
      PROVE  heard[p] \subseteq heard'[p] /\ session[p].current <= session'[p].current
  <2>1. session' = [session EXCEPT ![q] = RollbackTo(session[q], t)] /\ heard' = heard
    BY <1>7 DEF RollBack
  <2>2. t \in Ticks
    BY <1>1 DEF Ticks
  <2>3. RollbackTo(session[q], t).current = session[q].current
    BY <1>1, <2>2, RollbackToCurrent
  <2> QED BY <1>1, <1>2, <2>1, <2>3
<1>8. ASSUME NEW q \in Peers, TestSync(q)
      PROVE  heard[p] \subseteq heard'[p] /\ session[p].current <= session'[p].current
  <2>1. session' = [session EXCEPT ![q] = SyncTest(session[q])] /\ heard' = heard
    BY <1>8 DEF TestSync
  <2>2. SyncTest(session[q]).current = session[q].current
    BY <1>3 DEF SyncTest
  <2> QED BY <1>1, <1>2, <2>1, <2>2
<1>9. ASSUME NEW q \in Peers, NEW z \in Peers \ {q}, Resync(q, z)
      PROVE  heard[p] \subseteq heard'[p] /\ session[p].current <= session'[p].current
  <2>1. /\ session' = [session EXCEPT ![q] = Reset(@, session[z].world)] /\ heard' = heard
        /\ resyncs' = [resyncs EXCEPT ![q] = @ + 1]
    BY <1>9 DEF Resync
  <2>2. q # p
    BY <1>1, <2>1
  <2> QED BY <1>1, <1>2, <2>1, <2>2
<1>10. session' = session /\ heard' = heard
       => heard[p] \subseteq heard'[p] /\ session[p].current <= session'[p].current
  BY <1>1
<1> QED BY <1>4, <1>5, <1>6, <1>7, <1>8, <1>9, <1>10 DEF Next, vars, GiveOtherInput

(* What a world that is truthful contains where every input was told.      *)
LEMMA ToldIsSimulated ==
  ASSUME NEW s, Sound(s), NEW facts, True(s.world, facts, s.current),
         NEW k \in 1 .. s.current
  PROVE  /\ s.world[k] \in Frame
         /\ \A r \in facts : r.tick = k => s.world[k][r.player] = r.input
<1>1. s.world \in Seq(Frame) /\ Len(s.world) = s.current /\ s.current \in Nat
  BY SoundFacts
<1>2. \A r \in facts : r.tick = k => s.world[k][r.player] = r.input
  BY <1>1 DEF True
<1> QED BY <1>1, <1>2

(* No player gives an input for a tick within its input delay.             *)
NoneBeforeFirst == \A r \in given : FirstInput(r.player) <= r.tick

LEMMA DelaysPass == ASSUME RingSuffices PROVE Spec => []NoneBeforeFirst
<1>1. Init => NoneBeforeFirst
  BY DEF Init, NoneBeforeFirst
<1>2. ASSUME TInv, NoneBeforeFirst, [Next]_vars PROVE NoneBeforeFirst'
  <2>1. \A q \in Peers : q \in Players /\ session[q].current \in Nat
    BY <1>2, PeerFacts
  <2>2. ASSUME NEW q \in Players, NEW t \in Nat, NEW input, FirstInput(q) <= t, game' = game,
               given' = given \cup {[player |-> q, tick |-> t, input |-> input]}
        PROVE  NoneBeforeFirst'
    BY <1>2, <2>2 DEF NoneBeforeFirst, FirstInput
  <2>3. ASSUME NEW q \in Peers, NEW input \in Inputs, GiveLocalInput(q, input)
        PROVE  NoneBeforeFirst'
    <3> DEFINE t == LocalTarget(session[q], game.delay[q])
    <3>1. t \in Nat /\ FirstInput(q) <= t
      BY <1>2, <2>1, DelayType DEF LocalTarget, FirstInput, TInv
    <3>2. game' = game /\ given' = given \cup {[player |-> q, tick |-> t, input |-> input]}
      BY <2>3 DEF GiveLocalInput
    <3> HIDE DEF t
    <3> QED BY <2>1, <2>2, <3>1, <3>2
  <2>4. ASSUME NEW q \in Players \ Peers, NEW t \in 1 .. MaxTick, NEW input \in Inputs,
               GiveOtherInput(q, t, input)
        PROVE  NoneBeforeFirst'
    <3>1. t \in Nat /\ FirstInput(q) <= t
      BY <2>4 DEF GiveOtherInput
    <3> QED BY <2>2, <2>4, <3>1 DEF GiveOtherInput
  <2>5. CASE UNCHANGED <<game, given>>
    BY <1>2, <2>5 DEF NoneBeforeFirst, FirstInput
  <2>6. ASSUME NEW q \in Peers,
               \/ AdvanceFrame(q) \/ TestSync(q)
               \/ \E r \in given : ReceiveInput(q, r)
               \/ \E t \in 1 .. session[q].current : RollBack(q, t)
               \/ \E y \in Peers \ {q} : Resync(q, y)
        PROVE  NoneBeforeFirst'
    BY <2>5, <2>6 DEF AdvanceFrame, TestSync, ReceiveInput, RollBack, Resync
  <2> QED BY <1>2, <2>3, <2>4, <2>5, <2>6 DEF Next, vars
<1> QED BY <1>1, <1>2, TruthInvariant, PTL DEF Spec

(* What stands for an input that an input delay rules out stays as it was  *)
(* first simulated.                                                        *)
LEMMA StandInsStay ==
  ASSUME TInv, NoneBeforeFirst, [Next]_vars, NEW p \in Peers, Undisturbed(p), resyncs'[p] = 0,
         NEW z \in Players, NEW k \in 1 .. session[p].current, k < FirstInput(z)
  PROVE  session'[p].world[k][z] = session[p].world[k][z]
<1> DEFINE s == session[p]
<1>1. /\ Sound(s) /\ ~s.refused /\ s.current \in Nat /\ Correct(s, heard[p], Far)
      /\ Far \in Nat /\ MaxRollback <= Far
      /\ session \in [Peers -> Session] /\ resyncs \in [Peers -> Nat] /\ p \in Players
      /\ s.world \in Seq(Frame) /\ Len(s.world) = s.current
      /\ s = [inputs |-> s.inputs, world |-> s.world, saved |-> s.saved,
              current |-> s.current, refused |-> s.refused]
  BY UndisturbedFacts, PeerFacts, SoundFacts DEF TInv, IInv
<1>2. resyncs[p] = 0 /\ s = session[p] /\ k \in 1 .. s.current
  BY DEF Undisturbed
<1> HIDE DEF s
<1>3. ASSUME NEW q \in Peers, NEW x, session' = [session EXCEPT ![q] = x],
             q = p => x.world[k][z] = s.world[k][z]
      PROVE  session'[p].world[k][z] = s.world[k][z]
  BY <1>1, <1>2, <1>3
<1>4. ASSUME NEW q \in Peers, NEW input \in Inputs, GiveLocalInput(q, input)
      PROVE  session'[p].world[k][z] = s.world[k][z]
  <2>1. session' = [session EXCEPT ![q] = AddLocalInput(session[q], game.delay[q], q, input)]
    BY <1>4 DEF GiveLocalInput
  <2>2. AddLocalInput(s, game.delay[p], p, input).world = s.world
    BY <1>1 DEF AddLocalInput, Confirmed
  <2> QED BY <1>2, <1>3, <2>1, <2>2
<1>5. ASSUME NEW q \in Peers, AdvanceFrame(q) PROVE session'[p].world[k][z] = s.world[k][z]
  <2>1. session' = [session EXCEPT ![q] = Advance(session[q])]
    BY <1>5 DEF AdvanceFrame
  <2>2. Advance(s).world = Append(s.world, FrameAt(s, s.current + 1))
    BY <1>1 DEF Advance
  <2>3. Advance(s).world[k] = s.world[k]
    BY <1>1, <1>2, <2>2
  <2> QED BY <1>2, <1>3, <2>1, <2>3
<1>6. ASSUME NEW q \in Peers, NEW r \in given, ReceiveInput(q, r)
      PROVE  session'[p].world[k][z] = s.world[k][z]
  <2> DEFINE x == AddRemoteInput(session[q], r.player, r.tick, r.input)
  <2>1. session' = [session EXCEPT ![q] = x]
    BY <1>6 DEF ReceiveInput
  <2>2. r.player \in Players /\ r.tick \in Ticks /\ r.tick \in Nat /\ r.input \in Inputs
    BY DEF TInv, IInv, Given, Ticks
  <2>3. z # r.player \/ k < r.tick
    <3>1. FirstInput(r.player) <= r.tick /\ FirstInput(z) \in Nat
      BY DelayType DEF NoneBeforeFirst, FirstInput, TInv
    <3> QED BY <1>1, <1>2, <2>2, <3>1
  <2>4. q = p => x.world[k][z] = s.world[k][z]
    <3> SUFFICES ASSUME q = p PROVE x.world[k][z] = s.world[k][z]
      OBVIOUS
    <3>1. x = AddRemoteInput(s, r.player, r.tick, r.input)
      BY <1>2
    <3>2. Sound(s) /\ ~s.refused /\ Far \in Nat /\ MaxRollback <= Far /\ Correct(s, heard[p], Far)
      BY <1>1
    <3>3. k \in 1 .. s.current
      BY <1>2
    <3> HIDE DEF x
    <3> QED BY <2>2, <2>3, <3>1, <3>2, <3>3, OthersStay
  <2> HIDE DEF x
  <2> QED BY <1>3, <2>1, <2>4
<1>7. ASSUME NEW q \in Peers, NEW t \in 1 .. session[q].current, RollBack(q, t)
      PROVE  session'[p].world[k][z] = s.world[k][z]
  <2>1. session' = [session EXCEPT ![q] = RollbackTo(session[q], t)]
    BY <1>7 DEF RollBack
  <2>2. q = p => RollbackTo(s, t).world = s.world
    BY <1>1, <1>2, RollbackSame
  <2> QED BY <1>2, <1>3, <2>1, <2>2
<1>8. ASSUME NEW q \in Peers, TestSync(q) PROVE session'[p].world[k][z] = s.world[k][z]
  <2>1. session' = [session EXCEPT ![q] = SyncTest(session[q])]
    BY <1>8 DEF TestSync
  <2>2. SyncTest(s).world[k] = s.world[k]
    BY <1>1, <1>2, SyncTestSame
  <2> QED BY <1>2, <1>3, <2>1, <2>2
<1>9. ASSUME NEW q \in Peers, NEW y \in Peers \ {q}, Resync(q, y)
      PROVE  session'[p].world[k][z] = s.world[k][z]
  <2>1. /\ session' = [session EXCEPT ![q] = Reset(@, session[y].world)]
        /\ resyncs' = [resyncs EXCEPT ![q] = @ + 1]
    BY <1>9 DEF Resync
  <2>2. q # p
    BY <1>1, <1>2, <2>1
  <2> QED BY <1>3, <2>1, <2>2
<1>10. session' = session => session'[p].world[k][z] = s.world[k][z]
  BY <1>2
<1> QED BY <1>2, <1>4, <1>5, <1>6, <1>7, <1>8, <1>9, <1>10 DEF Next, vars, GiveOtherInput

(* "State at or before it is final" (session.rs:152), once no input at or  *)
(* before the confirmed frame is missing: no late copy, correction,        *)
(* rollback, refusal or sync test changes it any more.                     *)
THEOREM CompleteStateStaysFinal == ASSUME RingSuffices PROVE Spec => CompleteStateIsFinal
<1> DEFINE Final(p) ==
      LET n == ConfirmedFrame(session[p])
      IN /\ Undisturbed(p) /\ resyncs'[p] = 0
         /\ NoneMissing(p, n)
         /\ n <= session[p].current
         => SubSeq(session'[p].world, 1, n) = SubSeq(session[p].world, 1, n)
<1>1. ASSUME TInv, TInv', NoneBeforeFirst, [Next]_vars, NEW p \in Peers PROVE Final(p)
  <2> DEFINE n == ConfirmedFrame(session[p])
             s == session[p]
             u == session'[p]
  <2> SUFFICES ASSUME Undisturbed(p), resyncs'[p] = 0, NoneMissing(p, n), n <= session[p].current
               PROVE  SubSeq(u.world, 1, n) = SubSeq(s.world, 1, n)
    OBVIOUS
  <2>1. /\ p \in Players /\ Sound(s) /\ ~s.refused /\ s \in Session /\ s.current \in Nat
        /\ Correct(s, heard[p], Far) /\ resyncs[p] = 0
    BY <1>1, PeerFacts, SoundFacts DEF Undisturbed
  <2>2. n \in Nat
    BY <2>1, ConfirmedFrameType
  <2>3. game' = game
    BY <1>1 DEF Next, vars, GiveLocalInput, AdvanceFrame, GiveOtherInput, ReceiveInput, RollBack,
                TestSync, Resync
  <2>4. Peers' = Peers /\ Far' = Far
    BY <2>3 DEF Peers, Far
  <2>5. Sound(u) /\ u.current \in Nat /\ Correct(u, heard'[p], Far) /\ u.refused \in BOOLEAN
    <3>1. Sound(u) /\ Correct(u, heard'[p], Far)
      BY <1>1, <2>4 DEF TInv, IInv
    <3> QED BY <3>1, SoundFacts
  <2>6. heard[p] \subseteq heard'[p] /\ s.current <= u.current
    BY <1>1, <2>1, Onward
  <2>7. CASE u.refused
    BY <1>1, <2>1, <2>7, FirstRefusal
  <2>8. ASSUME NEW z \in Players, NEW k \in 1 .. s.current, k < FirstInput(z)
        PROVE  u.world[k][z] = s.world[k][z]
    BY <1>1, <2>8, StandInsStay
  <2>9. CASE ~u.refused
    <3>1. True(s.world, heard[p], s.current) /\ True(u.world, heard'[p], u.current)
      BY <2>1, <2>5, <2>9 DEF Correct, Truthful
    <3>2. NoneMissing(p, n) /\ n <= s.current
      OBVIOUS
    <3> HIDE DEF n, s, u
    <3>3. ASSUME NEW k \in 1 .. n PROVE s.world[k] = u.world[k]
      <4>1. k \in 1 .. s.current /\ k \in 1 .. u.current
        BY <2>1, <2>2, <2>5, <2>6, <3>2
      <4> DEFINE f == s.world[k]
                 g == u.world[k]
      <4> HIDE DEF f, g
      <4>2. f \in Frame /\ \A r \in heard[p] : r.tick = k => f[r.player] = r.input
        <5>1. Sound(s) /\ True(s.world, heard[p], s.current) /\ k \in 1 .. s.current
          BY <2>1, <3>1, <4>1
        <5>2. /\ s.world[k] \in Frame
              /\ \A r \in heard[p] : r.tick = k => s.world[k][r.player] = r.input
          BY ONLY <5>1, ToldIsSimulated
        <5> QED BY <5>2 DEF f
      <4>3. g \in Frame /\ \A r \in heard'[p] : r.tick = k => g[r.player] = r.input
        <5>1. Sound(u) /\ True(u.world, heard'[p], u.current) /\ k \in 1 .. u.current
          BY <2>5, <3>1, <4>1
        <5>2. /\ u.world[k] \in Frame
              /\ \A r \in heard'[p] : r.tick = k => u.world[k][r.player] = r.input
          BY ONLY <5>1, ToldIsSimulated
        <5> QED BY <5>2 DEF g
      <4>4. ASSUME NEW z \in Players, FirstInput(z) <= k PROVE f[z] = g[z]
        <5>1. k \in FirstInput(z) .. n
          <6>1. FirstInput(z) \in Nat
            BY <1>1, DelayType DEF FirstInput, TInv
          <6> QED BY <2>2, <4>4, <6>1
        <5>2. PICK r \in heard[p] : r.player = z /\ r.tick = k
          BY <3>2, <5>1 DEF NoneMissing
        <5> QED BY <2>6, <4>2, <4>3, <5>2
      <4>5. ASSUME NEW z \in Players, k < FirstInput(z) PROVE f[z] = g[z]
        BY <2>8, <4>1, <4>5 DEF f, g
      <4>6. ASSUME NEW z \in Players PROVE FirstInput(z) <= k \/ k < FirstInput(z)
        <5>1. FirstInput(z) \in Nat
          BY <1>1, DelayType DEF FirstInput, TInv
        <5> QED BY <2>2, <5>1
      <4>7. f = g
        BY <4>2, <4>3, <4>4, <4>5, <4>6 DEF Frame
      <4> QED BY <4>7 DEF f, g
    <3>4. /\ s.world \in Seq(Frame) /\ u.world \in Seq(Frame)
          /\ n \in 0 .. Len(s.world) /\ n <= Len(u.world)
      <4>1. /\ s.world \in Seq(Frame) /\ u.world \in Seq(Frame)
            /\ Len(s.world) = s.current /\ Len(u.world) = u.current
        BY <2>1, <2>5, SoundFacts
      <4> QED BY <2>1, <2>2, <2>5, <2>6, <3>2, <4>1
    <3>5. SubSeq(s.world, 1, n) = SubSeq(u.world, 1, n)
      BY <3>3, <3>4, SamePrefix
    <3> QED BY <3>5
  <2> QED BY <2>5, <2>7, <2>9
<1>2. TInv /\ TInv' /\ NoneBeforeFirst /\ [Next]_vars => [\A p \in Peers : Final(p)]_vars
  BY <1>1
<1>3. Spec => []TInv
  BY TruthInvariant
<1>4. Spec => []NoneBeforeFirst
  BY DelaysPass
<1>5. Spec => [][\A p \in Peers : Final(p)]_vars
  BY <1>2, <1>3, <1>4, PTL DEF Spec
<1> QED BY <1>5 DEF CompleteStateIsFinal

(***************************************************************************)
(* Agreement.  Whatever their input delay, the inputs of a player whose    *)
(* session was never reset have no gap from the first on: each frame of    *)
(* the main loop gives the one of the next tick.                           *)
(***************************************************************************)
(* Only a peer whose world is replaced skips ticks, and so inputs.  The    *)
(* worlds of two others are compared only if there are others.             *)
NoThirdPeerSkips ==
  \A g \in Games : g.maxResyncs = 0 \/ \E x, y \in Players : g.peers \subseteq {x, y}

GapFree(z, n) == \A k \in FirstInput(z) .. n : HasGiven(z, k)
Paced(p) ==
  /\ GapFree(p, session[p].current + game.delay[p])
  /\ \A r \in given : r.player = p => r.tick <= session[p].current + game.delay[p] + 1

PacedInv ==
  /\ \A p \in Peers : (resyncs[p] = 0 => Paced(p)) /\ resyncs[p] <= game.maxResyncs
  /\ \A r \in given : r.player \notin Peers => GapFree(r.player, r.tick)

LEMMA PacedInit == Init => PacedInv
<1> SUFFICES ASSUME Init PROVE PacedInv
  OBVIOUS
<1>1. game \in Games /\ game.maxResyncs \in Nat
  BY GamesAssumption DEF Init
<1>2. \A p \in Peers : session[p] = NewSession /\ resyncs[p] = 0
  BY DEF Init
<1>3. NewSession.current = 0 /\ given = {}
  BY DEF NewSession, Init
<1>4. \A p \in Peers : game.delay[p] \in Nat
  BY <1>1, GamesAssumption DEF Peers
<1> QED BY <1>1, <1>2, <1>3, <1>4 DEF PacedInv, Paced, GapFree, FirstInput

(* What was given stays given, and the pace of a session that stands still *)
(* or advances over an input that was given is kept.                       *)
LEMMA PaceKept ==
  ASSUME TInv, PacedInv, given' = given, game' = game,
         NEW p \in Peers, NEW s, session' = [session EXCEPT ![p] = s], resyncs' = resyncs,
         s.current = session[p].current
         \/ (s.current = session[p].current + 1 /\ HasGiven(p, s.current + game.delay[p]))
  PROVE  PacedInv'
<1>1. /\ session \in [Peers -> Session] /\ \A q \in Peers : session[q].current \in Nat
      /\ Peers' = Peers /\ \A r \in given : r.tick \in Nat
      /\ game.delay[p] \in Nat
  BY PeerFacts, DelayType DEF TInv, IInv, Peers, Given, Ticks
<1>2. \A z : FirstInput(z)' = FirstInput(z)
  BY DEF FirstInput
<1>3. ASSUME NEW q \in Peers, resyncs[q] = 0 PROVE Paced(q)'
  <2>1. Paced(q)
    BY <1>3 DEF PacedInv
  <2>2. CASE q # p
    <3>1. session'[q] = session[q]
      BY <1>1, <2>2
    <3> QED BY <1>2, <2>1, <3>1 DEF Paced, GapFree, HasGiven
  <2>3. CASE q = p
    <3>1. session'[q] = s
      BY <1>1, <2>3
    <3>2. ASSUME NEW k \in FirstInput(p) .. s.current + game.delay[p] PROVE HasGiven(p, k)
      <4>1. FirstInput(p) \in Nat
        BY <1>1 DEF FirstInput
      <4>2. \/ k \in FirstInput(p) .. session[p].current + game.delay[p]
            \/ s.current = session[p].current + 1 /\ k = s.current + game.delay[p]
        BY <1>1, <4>1
      <4> QED BY <1>1, <2>1, <2>3, <4>2 DEF Paced, GapFree
    <3>3. \A r \in given : r.player = p => r.tick <= s.current + game.delay[p] + 1
      BY <1>1, <2>1, <2>3 DEF Paced
    <3> QED BY <1>2, <2>3, <3>1, <3>2, <3>3 DEF Paced, GapFree, HasGiven
  <2> QED BY <2>2, <2>3
<1> QED BY <1>1, <1>2, <1>3 DEF PacedInv, GapFree, HasGiven

LEMMA PacedStep ==
  ASSUME TInv, PacedInv, [Next]_vars PROVE PacedInv'
<1>1. /\ session \in [Peers -> Session] /\ resyncs \in [Peers -> Nat]
      /\ \A q \in Peers : Sound(session[q]) /\ session[q].current \in Nat /\ q \in Players
      /\ \A r \in given : r \in Given /\ r.tick \in Nat
      /\ \A z \in Players : game.delay[z] \in Nat
  BY PeerFacts, DelayType DEF TInv, IInv, Given, Ticks
<1>2. \A q \in Peers : session[q] =
        [inputs |-> session[q].inputs, world |-> session[q].world, saved |-> session[q].saved,
         current |-> session[q].current, refused |-> session[q].refused]
  BY <1>1, SoundFacts
<1>3. \A q \in Peers :
        LocalTarget(session[q], game.delay[q]) = session[q].current + game.delay[q] + 1
  BY <1>1 DEF LocalTarget
<1>4. ASSUME NEW p \in Peers, NEW input \in Inputs, GiveLocalInput(p, input) PROVE PacedInv'
  <2> DEFINE t == session[p].current + game.delay[p] + 1
  <2>1. /\ session' = [session EXCEPT ![p] = AddLocalInput(@, game.delay[p], p, input)]
        /\ given' = given \cup {Fact(p, t, input)} /\ UNCHANGED <<game, resyncs>>
    BY <1>3, <1>4 DEF GiveLocalInput, Fact
  <2>2. \A q \in Peers : session'[q].current = session[q].current
    <3>1. AddLocalInput(session[p], game.delay[p], p, input).current = session[p].current
      BY <1>2 DEF AddLocalInput, Confirmed
    <3> QED BY <1>1, <2>1, <3>1
  <2>3. Fact(p, t, input).player = p /\ Fact(p, t, input).tick = t
    BY DEF Fact
  <2> HIDE DEF t
  <2>4. Peers' = Peers /\ \A z, k : HasGiven(z, k) => HasGiven(z, k)'
    BY <2>1 DEF Peers, HasGiven
  <2>5. ASSUME NEW q \in Peers, resyncs[q] = 0 PROVE Paced(q)'
    <3>1. Paced(q)
      BY <2>5 DEF PacedInv
    <3>2. \A k \in FirstInput(q) .. session'[q].current + game.delay[q] : HasGiven(q, k)'
      BY <2>2, <2>4, <3>1 DEF Paced, GapFree
    <3>3. \A r \in given' : r.player = q => r.tick <= session'[q].current + game.delay[q] + 1
      BY <1>1, <2>1, <2>2, <2>3, <3>1 DEF Paced, t
    <3> QED BY <2>1, <3>2, <3>3 DEF Paced, GapFree, FirstInput
  <2>6. ASSUME NEW r \in given', r.player \notin Peers PROVE GapFree(r.player, r.tick)'
    <3>1. r \in given
      BY <2>1, <2>3, <2>6
    <3>2. GapFree(r.player, r.tick)
      BY <2>6, <3>1 DEF PacedInv
    <3> QED BY <2>1, <2>4, <3>2 DEF GapFree, FirstInput
  <2> QED BY <2>1, <2>4, <2>5, <2>6 DEF PacedInv
<1>5. ASSUME NEW p \in Peers, AdvanceFrame(p) PROVE PacedInv'
  <2> DEFINE s == Advance(session[p])
  <2>1. /\ session' = [session EXCEPT ![p] = s] /\ UNCHANGED <<game, given, resyncs>>
        /\ HasGiven(p, session[p].current + 1 + game.delay[p])
    <3>1. LocalTarget(session[p], game.delay[p]) = session[p].current + 1 + game.delay[p]
      BY <1>1 DEF LocalTarget
    <3> QED BY <1>5, <3>1 DEF AdvanceFrame
  <2>2. s.current = session[p].current + 1
    BY <1>2 DEF Advance
  <2> HIDE DEF s
  <2> QED BY <2>1, <2>2, PaceKept
<1>6. ASSUME NEW p \in Peers, NEW r \in given, ReceiveInput(p, r) PROVE PacedInv'
  <2> DEFINE c == Confirmed(session[p], r.player, r.tick, r.input)
             x == AddRemoteInput(session[p], r.player, r.tick, r.input)
  <2>1. session' = [session EXCEPT ![p] = x] /\ UNCHANGED <<game, given, resyncs>>
    BY <1>6 DEF ReceiveInput
  <2>2. r.player \in Players /\ r.tick \in Ticks /\ r.input \in Inputs
    BY <1>1 DEF Given
  <2>3. Sound(c) /\ c.current = session[p].current
    BY <1>1, <1>2, <2>2, ConfirmedSound DEF Confirmed
  <2>4. x \in {c, RollbackTo(c, r.tick)}
    BY DEF AddRemoteInput
  <2> HIDE DEF c, x
  <2>5. x.current = session[p].current
         \/ (x.current = session[p].current + 1 /\ HasGiven(p, x.current + game.delay[p]))
    BY <2>2, <2>3, <2>4, RollbackToCurrent
  <2> QED BY <2>1, <2>5, PaceKept
<1>7. ASSUME NEW p \in Peers, NEW t \in 1 .. session[p].current, RollBack(p, t) PROVE PacedInv'
  <2> DEFINE x == RollbackTo(session[p], t)
  <2>1. session' = [session EXCEPT ![p] = x] /\ UNCHANGED <<game, given, resyncs>>
    BY <1>7 DEF RollBack
  <2>2. t \in Ticks
    BY <1>1 DEF Ticks
  <2>3. x.current = session[p].current
    BY <1>1, <2>2, RollbackToCurrent
  <2> HIDE DEF x
  <2>9. x.current = session[p].current
         \/ (x.current = session[p].current + 1 /\ HasGiven(p, x.current + game.delay[p]))
    BY <2>3
  <2> QED BY <2>1, <2>9, PaceKept
<1>8. ASSUME NEW p \in Peers, TestSync(p) PROVE PacedInv'
  <2> DEFINE x == SyncTest(session[p])
  <2>1. session' = [session EXCEPT ![p] = x] /\ UNCHANGED <<game, given, resyncs>>
    BY <1>8 DEF TestSync
  <2>2. x.current = session[p].current
    BY <1>2 DEF SyncTest
  <2> HIDE DEF x
  <2>9. x.current = session[p].current
         \/ (x.current = session[p].current + 1 /\ HasGiven(p, x.current + game.delay[p]))
    BY <2>2
  <2> QED BY <2>1, <2>9, PaceKept
<1>9. ASSUME NEW p \in Peers, NEW q \in Peers \ {p}, Resync(p, q) PROVE PacedInv'
  <2>1. /\ \A x \in Peers \ {p} : session'[x] = session[x] /\ resyncs'[x] = resyncs[x]
        /\ resyncs'[p] = resyncs[p] + 1 /\ resyncs[p] < game.maxResyncs
        /\ UNCHANGED <<game, given>>
    BY <1>1, <1>9 DEF Resync
  <2>2. Peers' = Peers /\ game.maxResyncs \in Nat
    BY <2>1, GamesAssumption DEF Peers, TInv, IInv
  <2>3. ASSUME NEW x \in Peers
        PROVE  (resyncs'[x] = 0 => Paced(x)') /\ resyncs'[x] <= game.maxResyncs
    <3>1. CASE x = p
      BY <1>1, <2>1, <2>2, <3>1
    <3>2. CASE x # p
      BY <2>1, <3>2 DEF PacedInv, Paced, GapFree, HasGiven, FirstInput
    <3> QED BY <3>1, <3>2
  <2> QED BY <2>1, <2>2, <2>3 DEF PacedInv, GapFree, HasGiven, FirstInput
<1>10. ASSUME NEW p \in Players \ Peers, NEW t \in 1 .. MaxTick, NEW input \in Inputs,
              GiveOtherInput(p, t, input)
       PROVE  PacedInv'
  <2>1. /\ given' = given \cup {Fact(p, t, input)} /\ UNCHANGED <<game, session, heard, resyncs>>
        /\ \A u \in FirstInput(p) .. t - 1 : HasGiven(p, u)
    BY <1>10 DEF GiveOtherInput, Fact
  <2>2. Fact(p, t, input).player = p /\ Fact(p, t, input).tick = t /\ t \in Nat
    BY MaxTickType DEF Fact, TInv, IInv
  <2>3. /\ Peers' = Peers /\ HasGiven(p, t)' /\ \A z, k : HasGiven(z, k) => HasGiven(z, k)'
        /\ \A z : FirstInput(z)' = FirstInput(z)
    BY <2>1, <2>2 DEF Peers, HasGiven, FirstInput
  <2>4. ASSUME NEW q \in Peers, resyncs[q] = 0 PROVE Paced(q)'
    <3>1. Paced(q)
      BY <2>4 DEF PacedInv
    <3> QED BY <2>1, <2>2, <2>3, <3>1 DEF Paced, GapFree
  <2>5. ASSUME NEW r \in given', r.player \notin Peers PROVE GapFree(r.player, r.tick)'
    <3>1. CASE r \in given
      BY <2>3, <2>5, <3>1 DEF PacedInv, GapFree
    <3>2. CASE r = Fact(p, t, input)
      <4>1. ASSUME NEW k \in FirstInput(p) .. t PROVE HasGiven(p, k)'
        <5>1. k \in FirstInput(p) .. t - 1 \/ k = t
          BY <1>1, <2>2 DEF FirstInput
        <5> QED BY <2>1, <2>3, <5>1
      <4> QED BY <2>2, <2>3, <3>2, <4>1 DEF GapFree
    <3> QED BY <2>1, <3>1, <3>2
  <2> QED BY <2>1, <2>3, <2>4, <2>5 DEF PacedInv
<1>11. CASE UNCHANGED vars
  BY <1>11 DEF vars, PacedInv, Paced, GapFree, HasGiven, Peers, FirstInput
<1> QED BY <1>4, <1>5, <1>6, <1>7, <1>8, <1>9, <1>10, <1>11 DEF Next

(* Whatever their input delays, peers that know the same inputs up to tick *)
(* n have simulated the same frames from the first tick for which every    *)
(* player can have an input: of the guesses each made on the way nothing   *)
(* is left (ADR-0013:50).                                                  *)
THEOREM PeersAlwaysAgree ==
  ASSUME RingSuffices, NoThirdPeerSkips PROVE Spec => []PeersAgree
<1>1. ASSUME TInv, PacedInv, FramesConverge PROVE PeersAgree
  <2> SUFFICES ASSUME NEW p \in Peers, NEW q \in Peers, Undisturbed(p), Undisturbed(q),
                      NEW n \in 1 .. MaxTick, n <= session[p].current, n <= session[q].current,
                      KnowsAll(p, n), KnowsAll(q, n), \A z \in Players : HasGiven(z, n),
                      NEW k \in 1 .. n, Started(k)
               PROVE  session[p].world[k] = session[q].world[k]
    BY DEF PeersAgree
  <2> SUFFICES ASSUME p # q
               PROVE  session[p].world[k] = session[q].world[k]
    OBVIOUS
  <2>1. n \in Nat /\ k \in Nat /\ k <= n
    BY <1>1, MaxTickType DEF TInv, IInv
  <2>2. ASSUME NEW z \in Players PROVE HasGiven(z, k)
    <3>1. PICK r \in given : r.player = z /\ r.tick = n
      BY DEF HasGiven
    <3>2. game.delay[z] \in Nat /\ FirstInput(z) \in Nat /\ FirstInput(z) <= k
      BY <1>1, DelayType DEF Started, FirstInput, TInv
    <3>3. CASE z \notin Peers
      <4>1. GapFree(z, n)
        BY <1>1, <3>1, <3>3 DEF PacedInv
      <4> QED BY <2>1, <3>2, <4>1 DEF GapFree
    <3>4. CASE z \in Peers
      <4>1. resyncs[z] = 0
        <5>1. /\ resyncs[z] \in Nat /\ resyncs[z] <= game.maxResyncs /\ game \in Games
              /\ game.maxResyncs \in Nat
          BY <1>1, <3>4, GamesAssumption DEF TInv, IInv, PacedInv
        <5>2. CASE game.maxResyncs = 0
          BY <5>1, <5>2
        <5>3. CASE \E x, y \in Players : game.peers \subseteq {x, y}
          BY <3>4, <5>3 DEF Peers, Undisturbed
        <5> QED BY <5>1, <5>2, <5>3 DEF NoThirdPeerSkips
      <4>2. Paced(z) /\ session[z].current \in Nat
        BY <1>1, <3>4, <4>1, PeerFacts DEF PacedInv
      <4>3. n <= session[z].current + game.delay[z] + 1
        BY <3>1, <4>2 DEF Paced
      <4>4. k \in FirstInput(z) .. session[z].current + game.delay[z] \/ k = n
        BY <2>1, <3>2, <4>2, <4>3
      <4> QED BY <4>2, <4>4 DEF Paced, GapFree
    <3> QED BY <3>3, <3>4
  <2>3. Complete(p, k) /\ Complete(q, k)
    <3>1. ASSUME NEW z \in Players PROVE \E r \in given : r.player = z /\ r.tick = k /\ r.tick <= n
      BY <2>1, <2>2 DEF HasGiven
    <3> QED BY <3>1 DEF KnowsAll, Complete
  <2>4. session[p].current \in Nat /\ session[q].current \in Nat
    BY <1>1, PeerFacts
  <2>5. k \in 1 .. session[p].current /\ k <= session[q].current
    BY <2>1, <2>4
  <2> QED BY <1>1, <2>3, <2>5 DEF FramesConverge
<1>2. TInv /\ PacedInv /\ [Next]_vars => PacedInv'
  BY PacedStep
<1>3. Spec => []TInv
  BY TruthInvariant
<1>4. Spec => []FramesConverge
  BY FramesAlwaysConverge
<1>5. TInv /\ PacedInv /\ FramesConverge => PeersAgree
  BY <1>1
<1>6. Spec => []PacedInv
  BY <1>2, <1>3, PacedInit, PTL DEF Spec
<1> QED BY <1>3, <1>4, <1>5, <1>6, PTL
=============================================================================
