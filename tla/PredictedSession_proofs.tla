----------------------- MODULE PredictedSession_proofs -----------------------
(***************************************************************************)
(* Proofs about PredictedSession, for every link and every pattern of      *)
(* losses, whatever the constants.                                         *)
(*                                                                         *)
(* The argument, in the order of the module:                               *)
(*   - draining the link yields exactly what was due, however it orders it;*)
(*   - runs of the game: two that start apart and take the same inputs     *)
(*     never get further apart, so a state within the tolerance stays so;  *)
(*   - the predictor: each outcome of `reconcile` keeps the history a run  *)
(*     of the client's own inputs from the last snapshot corrected to      *)
(*     (Exact) and within the tolerance of the run from the latest snapshot*)
(*     (Near); where it corrects, the server's run took another input      *)
(*     (Caused);                                                           *)
(*   - the supply of inputs: whatever the server has yet to use is there,  *)
(*     on its way in time, or was only in the few datagrams just lost      *)
(*     (Supplied), so that it has used the client's own inputs (Heard);    *)
(*   - the invariant IInv, turn by turn, and what follows from it.         *)
(***************************************************************************)
EXTENDS PredictedSession, FiniteSetTheorems, SequenceTheorems, FunctionTheorems,
        WellFoundedInduction, TLAPS

(***************************************************************************)
(* The link.                                                               *)
(***************************************************************************)
(* Datagrams are told apart by their place in the order sent.              *)
Datagram(f) == f.deliver_at \in Int /\ f.seq \in Int

Ordered(S) ==
  /\ IsFiniteSet(S)
  /\ \A f \in S : Datagram(f)
  /\ \A f, g \in S : f.seq = g.seq => f = g

Before(S, f) == {g \in S : IsEarlier(g, f)}

LEMMA RankIsSmall ==
  ASSUME NEW S, Ordered(S), NEW f \in S
  PROVE  /\ IsFiniteSet(Before(S, f))
         /\ Cardinality(Before(S, f)) \in 0 .. Cardinality(S) - 1
<1>1. IsFiniteSet(S) /\ Before(S, f) \subseteq S BY DEF Ordered, Before
<1>2. IsFiniteSet(Before(S, f)) /\ Cardinality(Before(S, f)) <= Cardinality(S)
      /\ (Cardinality(Before(S, f)) = Cardinality(S) => Before(S, f) = S)
  BY <1>1, FS_Subset
<1>3. f \notin Before(S, f) BY DEF Before, IsEarlier, Ordered, Datagram
<1>4. Cardinality(S) \in Nat /\ Cardinality(Before(S, f)) \in Nat BY <1>1, <1>2, FS_CardinalityType
<1> QED BY <1>2, <1>3, <1>4

LEMMA RanksDiffer ==
  ASSUME NEW S, Ordered(S), NEW f \in S, NEW g \in S, IsEarlier(f, g)
  PROVE  Cardinality(Before(S, f)) < Cardinality(Before(S, g))
<1>1. Before(S, f) \subseteq Before(S, g) BY DEF Before, IsEarlier, Ordered, Datagram
<1>2. f \in Before(S, g) /\ f \notin Before(S, f) BY DEF Before, IsEarlier, Ordered, Datagram
<1>3. IsFiniteSet(Before(S, g)) BY RankIsSmall
<1>4. Cardinality(Before(S, f)) <= Cardinality(Before(S, g))
      /\ (Cardinality(Before(S, f)) = Cardinality(Before(S, g)) => Before(S, f) = Before(S, g))
  BY <1>1, <1>3, FS_Subset
<1>5. Cardinality(Before(S, f)) \in Int /\ Cardinality(Before(S, g)) \in Int BY RankIsSmall
<1> QED BY <1>2, <1>4, <1>5

LEMMA EveryRankIsTaken ==
  ASSUME NEW S, Ordered(S), NEW k \in 1 .. Cardinality(S)
  PROVE  \E f \in S : Cardinality(Before(S, f)) = k - 1
<1> DEFINE n == Cardinality(S)
           R == 0 .. n - 1
           rank == [f \in S |-> Cardinality(Before(S, f))]
           T == {rank[f] : f \in S}
<1>1. IsFiniteSet(S) /\ n \in Nat BY FS_CardinalityType DEF Ordered
<1>2. \A f \in S : rank[f] \in R BY RankIsSmall
<1>3. \A f, g \in S : rank[f] = rank[g] => f = g
  <2> SUFFICES ASSUME NEW f \in S, NEW g \in S, f # g PROVE rank[f] # rank[g]
    OBVIOUS
  <2>1. IsEarlier(f, g) \/ IsEarlier(g, f) BY DEF IsEarlier, Ordered, Datagram
  <2>2. rank[f] \in Int /\ rank[g] \in Int BY <1>2
  <2>3. rank[f] < rank[g] \/ rank[g] < rank[f] BY <2>1, RanksDiffer
  <2> QED BY <2>2, <2>3
<1>4. IsFiniteSet(T) /\ Cardinality(T) = n
  <2>1. rank \in Bijection(S, T)
    <3>1. rank \in [S -> T] OBVIOUS
    <3> HIDE DEF rank
    <3>2. \A t \in T : \E f \in S : rank[f] = t OBVIOUS
    <3> HIDE DEF T
    <3> QED BY <1>3, <3>1, <3>2, Fun_IsBij
  <2> HIDE DEF rank, T
  <2>2. ExistsBijection(S, T)
    BY <2>1 DEF ExistsBijection
  <2> QED BY <1>1, <2>2, FS_Bijection
<1>5. IsFiniteSet(R) /\ Cardinality(R) = n
  <2>1. 0 \in Int /\ n - 1 \in Int BY <1>1
  <2> QED BY <1>1, <2>1, FS_Interval
<1>6. T \subseteq R BY <1>2
<1>7. T = R
  <2> HIDE DEF T, R
  <2> QED BY <1>4, <1>5, <1>6, FS_Subset
<1>8. k - 1 \in T BY <1>1, <1>7
<1> QED BY <1>8

(* What drain hands out is what was due, all of it.                        *)
LEMMA DrainedIsDue ==
  ASSUME NEW net, NEW to, NEW now, Ordered(net.queue)
  PROVE  LET due == Deliverable(net, to, now)
             out == Drained(net, to, now)
         IN /\ out = [k \in 1 .. Len(out) |-> out[k]] /\ Len(out) \in Nat
            /\ \A k \in 1 .. Len(out) : \E f \in due : out[k] = f.data
            /\ \A f \in due : \E k \in 1 .. Len(out) : out[k] = f.data
<1> DEFINE due == Deliverable(net, to, now)
           out == Drained(net, to, now)
           n == Cardinality(due)
           At(k) == CHOOSE f \in due : Cardinality(Before(due, f)) = k - 1
<1>1. Ordered(due) /\ n \in Nat
  <2>1. due \subseteq net.queue BY DEF Deliverable
  <2>2. IsFiniteSet(due) BY <2>1, FS_Subset DEF Ordered
  <2> QED BY <2>1, <2>2, FS_CardinalityType DEF Ordered
<1>2. out = [k \in 1 .. n |-> At(k).data]
  BY DEF Drained, Before
<1>3. \A k \in 1 .. n : At(k) \in due /\ Cardinality(Before(due, At(k))) = k - 1
  <2> HIDE DEF due
  <2> QED BY <1>1, EveryRankIsTaken
<1>4. \A f \in due : \E k \in 1 .. n : At(k) = f
  <2> SUFFICES ASSUME NEW f \in due PROVE \E k \in 1 .. n : At(k) = f
    OBVIOUS
  <2> DEFINE k == Cardinality(Before(due, f)) + 1
  <2>1. k \in 1 .. n /\ Cardinality(Before(due, f)) = k - 1
    <3> HIDE DEF due
    <3> QED BY <1>1, RankIsSmall
  <2> HIDE DEF k
  <2> DEFINE g == At(k)
  <2>2. g \in due /\ Cardinality(Before(due, g)) = k - 1 BY <1>3, <2>1
  <2> HIDE DEF g, due
  <2>3. g = f
    <3>1. ~IsEarlier(f, g) /\ ~IsEarlier(g, f)
      <4>1. k - 1 \in Int BY <2>1
      <4> QED BY <1>1, <2>1, <2>2, <4>1, RanksDiffer
    <3> QED BY <1>1, <2>2, <3>1 DEF IsEarlier, Ordered, Datagram
  <2> QED BY <2>1, <2>3 DEF g
<1> HIDE DEF due, At
<1>5. Len(out) = n BY <1>1, <1>2
<1> HIDE DEF out
<1>6. \A k \in 1 .. n : out[k] = At(k).data BY <1>2
<1>7. \A k \in 1 .. n : \E f \in due : out[k] = f.data BY <1>3, <1>6
<1>8. \A f \in due : \E k \in 1 .. n : out[k] = f.data BY <1>4, <1>6
<1> QED BY <1>1, <1>2, <1>5, <1>7, <1>8 DEF due, out


-----------------------------------------------------------------------------
(***************************************************************************)
(* Arithmetic, induction.                                                  *)
(***************************************************************************)
LEMMA Constants ==
  /\ TickTime \in Nat \ {0} /\ Arena \in Nat /\ Thrust \in Nat /\ Step \in Nat \ {0}
  /\ Tolerance \in Nat /\ Tolerance >= Step /\ MaxHistory \in Nat \ {0} /\ Redundancy \in Nat \ {0}
  /\ SnapshotEvery \in Nat \ {0} /\ Inputs \subseteq Int /\ 0 \in Inputs /\ Unsaid \notin Int
BY TickTimeAssumption, WorldAssumption, ToleranceAssumption, HistoryAssumption,
   RateAssumption, UnsaidAssumption

LEMMA Induct ==
  ASSUME NEW S, 0 \in S, \A n \in Nat : n \in S => n + 1 \in S PROVE \A n \in Nat : n \in S
<1> DEFINE T == Nat \ S
<1> SUFFICES ASSUME T # {} PROVE FALSE
  OBVIOUS
<1>1. PICK m \in T : \A u \in T : ~ (<<u, m>> \in OpToRel(<, Nat))
  BY WFMin, NatLessThanWellFounded
<1>2. m \in Nat /\ m \notin S /\ m # 0
  OBVIOUS
<1>3. m - 1 \in Nat /\ m - 1 < m /\ m = (m - 1) + 1
  BY <1>2
<1>4. m - 1 \in T
  BY <1>2, <1>3
<1>5. <<m - 1, m>> \in OpToRel(<, Nat)
  BY <1>2, <1>3 DEF OpToRel
<1> QED BY <1>1, <1>4, <1>5

LEMMA Division ==
  ASSUME NEW a \in Int, NEW m \in Nat \ {0}
  PROVE  /\ a % m \in 0 .. m - 1 /\ a \div m \in Int
         /\ a = m * (a \div m) + (a % m)
OBVIOUS

LEMMA TimesMonotone ==
  ASSUME NEW a \in Int, NEW b \in Int, a <= b, NEW m \in Nat
  PROVE  a * m \in Int /\ b * m \in Int /\ a * m <= b * m
<1> DEFINE d == b - a
<1>1. d \in Nat /\ b = a + d
  OBVIOUS
<1> HIDE DEF d
<1>2. d * m \in Nat
  BY <1>1
<1>3. (a + d) * m = a * m + d * m
  BY <1>1
<1> QED BY <1>1, <1>2, <1>3

(***************************************************************************)
(* Runs of the game: each state is simulated from the one before it.       *)
(***************************************************************************)
IsRun(f, inputs, lo, hi) ==
  /\ \A k \in lo .. hi : f[k] \in Int
  /\ \A k \in lo + 1 .. hi : f[k] = Simulated(f[k - 1], inputs[k])

LEMMA SimulatedType ==
  ASSUME NEW x \in Int, NEW i \in Int
  PROVE  Simulated(x, i) \in Int /\ Simulated(x, i) >= -Arena /\ Simulated(x, i) <= Arena
<1> DEFINE y == i * Thrust
<1>1. y \in Int
  BY Constants
<1> HIDE DEF y
<1> QED BY <1>1, Constants DEF Simulated, Clamped, y

(* The game never makes a difference greater.                              *)
LEMMA SimulatedIsNonexpansive ==
  ASSUME NEW x \in Int, NEW y \in Int, NEW i \in Int, NEW d \in Int, Distance(x, y) <= d
  PROVE  Distance(Simulated(x, i), Simulated(y, i)) <= d
<1> DEFINE z == i * Thrust
<1>1. z \in Int
  BY Constants
<1> HIDE DEF z
<1>2. Distance(Clamped(x + z), Clamped(y + z)) <= d
  BY <1>1, Constants DEF Clamped, Distance
<1> QED BY <1>2 DEF Simulated, z

LEMMA Triangle ==
  ASSUME NEW x \in Int, NEW y \in Int, NEW z \in Int, NEW d \in Int,
         Distance(x, z) <= d, Distance(y, z) <= d
  PROVE  Distance(x, y) <= d + d
BY DEF Distance

LEMMA RunsStayNear ==
  ASSUME NEW lo \in Nat, NEW hi \in Nat, NEW f, NEW g, NEW in, NEW also, NEW d \in Int,
         IsRun(f, in, lo, hi), IsRun(g, also, lo, hi),
         \A k \in lo + 1 .. hi : in[k] = also[k] /\ in[k] \in Int,
         Distance(f[lo], g[lo]) <= d
  PROVE  \A k \in lo .. hi : Distance(f[k], g[k]) <= d
<1> DEFINE S == {n \in Nat : lo + n <= hi => Distance(f[lo + n], g[lo + n]) <= d}
<1>1. 0 \in S
  <2>1. lo + 0 = lo
    OBVIOUS
  <2> QED BY <2>1
<1>2. ASSUME NEW n \in Nat, n \in S PROVE n + 1 \in S
  <2> SUFFICES ASSUME lo + (n + 1) <= hi
               PROVE  Distance(f[lo + (n + 1)], g[lo + (n + 1)]) <= d
    OBVIOUS
  <2> DEFINE k == lo + (n + 1)
  <2>1. k \in lo + 1 .. hi /\ k \in lo .. hi /\ k - 1 \in lo .. hi /\ k - 1 = lo + n /\ lo + n <= hi
    OBVIOUS
  <2>2. Distance(f[k - 1], g[k - 1]) <= d
    BY <1>2, <2>1
  <2> HIDE DEF k, S
  <2>3. f[k - 1] \in Int /\ g[k - 1] \in Int /\ in[k] \in Int
    BY <2>1 DEF IsRun
  <2>4. f[k] = Simulated(f[k - 1], in[k]) /\ g[k] = Simulated(g[k - 1], in[k])
    BY <2>1 DEF IsRun
  <2>5. Distance(f[k], g[k]) <= d
    BY <2>2, <2>3, <2>4, SimulatedIsNonexpansive
  <2> QED BY <2>5 DEF k
<1>3. \A n \in Nat : n \in S
  <2> HIDE DEF S
  <2> QED BY <1>1, <1>2, Induct
<1> SUFFICES ASSUME NEW k \in lo .. hi PROVE Distance(f[k], g[k]) <= d
  OBVIOUS
<1>4. k - lo \in Nat /\ lo + (k - lo) = k /\ k <= hi
  OBVIOUS
<1>5. k - lo \in S
  BY <1>3, <1>4
<1> QED BY <1>4, <1>5

Follows(f, inputs, lo, hi) ==
  \A k \in lo + 1 .. hi : f[k] = Simulated(f[k - 1], inputs[k])

LEMMA RunsAgree ==
  ASSUME NEW lo \in Nat, NEW hi \in Nat, NEW f, NEW g, NEW in, NEW also,
         Follows(f, in, lo, hi), Follows(g, also, lo, hi),
         \A k \in lo + 1 .. hi : in[k] = also[k],
         f[lo] = g[lo]
  PROVE  \A k \in lo .. hi : f[k] = g[k]
<1> DEFINE S == {n \in Nat : lo + n <= hi => f[lo + n] = g[lo + n]}
<1>1. 0 \in S
  <2>1. lo + 0 = lo
    OBVIOUS
  <2> QED BY <2>1
<1>2. ASSUME NEW n \in Nat, n \in S PROVE n + 1 \in S
  <2> SUFFICES ASSUME lo + (n + 1) <= hi PROVE f[lo + (n + 1)] = g[lo + (n + 1)]
    OBVIOUS
  <2> DEFINE k == lo + (n + 1)
  <2>1. k \in lo + 1 .. hi /\ k - 1 = lo + n /\ lo + n <= hi
    OBVIOUS
  <2>2. f[k - 1] = g[k - 1]
    BY <1>2, <2>1
  <2> HIDE DEF k, S
  <2>3. f[k] = Simulated(f[k - 1], in[k]) /\ g[k] = Simulated(g[k - 1], in[k])
    BY <2>1 DEF Follows
  <2>4. f[k] = g[k]
    BY <2>2, <2>3
  <2> QED BY <2>4 DEF k
<1>3. \A n \in Nat : n \in S
  <2> HIDE DEF S
  <2> QED BY <1>1, <1>2, Induct
<1> SUFFICES ASSUME NEW k \in lo .. hi PROVE f[k] = g[k]
  OBVIOUS
<1>4. k - lo \in Nat /\ lo + (k - lo) = k /\ k <= hi
  OBVIOUS
<1>5. k - lo \in S
  BY <1>3, <1>4
<1> QED BY <1>4, <1>5

(* From every state there is a run.                                        *)
LEMMA RunExists ==
  ASSUME NEW lo \in Nat, NEW hi \in Nat, lo <= hi, NEW x \in Int, NEW in,
         \A k \in lo + 1 .. hi : in[k] \in Int
  PROVE  \E f : f = [k \in lo .. hi |-> f[k]] /\ f[lo] = x /\ IsRun(f, in, lo, hi)
<1> DEFINE R(f, h) == f = [k \in lo .. h |-> f[k]] /\ f[lo] = x /\ IsRun(f, in, lo, h)
           S == {n \in Nat : lo + n <= hi => \E f : R(f, lo + n)}
<1>1. 0 \in S
  <2> DEFINE f == [k \in lo .. lo + 0 |-> x]
  <2>1. R(f, lo + 0)
    BY DEF IsRun
  <2> QED BY <2>1
<1>2. ASSUME NEW n \in Nat, n \in S PROVE n + 1 \in S
  <2> SUFFICES ASSUME lo + (n + 1) <= hi PROVE \E f : R(f, lo + (n + 1))
    OBVIOUS
  <2> DEFINE h == lo + n
             j == lo + (n + 1)
  <2>0. h \in Nat /\ j \in Nat /\ j = h + 1 /\ lo <= h /\ j <= hi /\ h <= hi
    OBVIOUS
  <2>1. PICK f : R(f, h)
    BY <1>2, <2>0
  <2> HIDE DEF h, j, S
  <2> DEFINE g == [k \in lo .. j |-> IF k = j THEN Simulated(f[h], in[j]) ELSE f[k]]
  <2>2. f[h] \in Int /\ in[j] \in Int
    BY <2>0, <2>1 DEF IsRun
  <2>3. g[j] = Simulated(f[h], in[j]) /\ g[j] \in Int
    <3>1. j \in lo .. j
      BY <2>0
    <3>2. g[j] = Simulated(f[h], in[j])
      BY <3>1
    <3> QED BY <2>2, <3>2, SimulatedType
  <2>4. \A k \in lo .. h : g[k] = f[k] /\ f[k] \in Int
    BY <2>0, <2>1 DEF IsRun
  <2>5. g = [k \in lo .. j |-> g[k]]
    OBVIOUS
  <2> HIDE DEF g
  <2>6. \A k \in lo .. j : k = j \/ k \in lo .. h
    BY <2>0
  <2>7. \A k \in lo .. j : g[k] \in Int
    BY <2>3, <2>4, <2>6
  <2>8. ASSUME NEW k \in lo + 1 .. j PROVE g[k] = Simulated(g[k - 1], in[k])
    <3>1. k - 1 \in lo .. h /\ (k = j => k - 1 = h) /\ (k # j => k \in lo .. h /\ k \in lo + 1 .. h)
      BY <2>0
    <3>2. g[k - 1] = f[k - 1]
      BY <2>4, <3>1
    <3>3. CASE k = j
      BY <2>3, <3>1, <3>2, <3>3
    <3>4. CASE k # j
      <4>1. f[k] = Simulated(f[k - 1], in[k])
        BY <2>1, <3>1, <3>4 DEF IsRun
      <4> QED BY <2>4, <3>1, <3>2, <3>4, <4>1
    <3> QED BY <3>3, <3>4
  <2>9. g[lo] = x
    BY <2>0, <2>1, <2>4
  <2>10. R(g, j)
    BY <2>5, <2>7, <2>8, <2>9 DEF IsRun
  <2> QED BY <2>10 DEF j
<1>3. \A n \in Nat : n \in S
  <2> HIDE DEF S
  <2> QED BY <1>1, <1>2, Induct
<1>4. hi - lo \in Nat /\ lo + (hi - lo) = hi
  OBVIOUS
<1>5. hi - lo \in S
  BY <1>3, <1>4
<1> QED BY <1>4, <1>5

LEMMA RunExtends ==
  ASSUME NEW lo \in Nat, NEW hi \in Nat, lo <= hi, NEW f, NEW in, NEW longer,
         IsRun(f, in, lo, hi), \A k \in lo + 1 .. hi : longer[k] = in[k], longer[hi + 1] \in Int
  PROVE  \E g : /\ g[hi + 1] = Simulated(f[hi], longer[hi + 1])
                /\ \A k \in lo .. hi : g[k] = f[k]
                /\ IsRun(g, longer, lo, hi + 1)
<1> DEFINE j == hi + 1
           g == [k \in lo .. j |-> IF k = j THEN Simulated(f[hi], longer[j]) ELSE f[k]]
<1>0. j \in Nat /\ hi \in lo .. hi /\ j \notin lo .. hi /\ j \in lo .. j /\ lo .. hi \subseteq lo .. j
  OBVIOUS
<1>1. f[hi] \in Int /\ longer[j] \in Int
  BY <1>0 DEF IsRun
<1>2. g[j] = Simulated(f[hi], longer[j])
  BY <1>0
<1>3. \A k \in lo .. hi : g[k] = f[k] /\ f[k] \in Int
  BY <1>0 DEF IsRun
<1> HIDE DEF g
<1>4. g[j] \in Int
  BY <1>1, <1>2, SimulatedType
<1>5. \A k \in lo .. j : k = j \/ k \in lo .. hi
  OBVIOUS
<1>6. \A k \in lo .. j : g[k] \in Int
  BY <1>3, <1>4, <1>5
<1>7. ASSUME NEW k \in lo + 1 .. j PROVE g[k] = Simulated(g[k - 1], longer[k])
  <2>1. k - 1 \in lo .. hi /\ (k = j => k - 1 = hi) /\ (k # j => k \in lo .. hi /\ k \in lo + 1 .. hi)
    OBVIOUS
  <2>2. g[k - 1] = f[k - 1]
    BY <1>3, <2>1
  <2>3. CASE k = j
    BY <1>2, <2>1, <2>2, <2>3
  <2>4. CASE k # j
    <3>1. f[k] = Simulated(f[k - 1], in[k]) /\ longer[k] = in[k]
      BY <2>1, <2>4 DEF IsRun
    <3> QED BY <1>3, <2>1, <2>2, <2>4, <3>1
  <2> QED BY <2>3, <2>4
<1>8. IsRun(g, longer, lo, j)
  BY <1>6, <1>7 DEF IsRun
<1> QED BY <1>2, <1>3, <1>8

(***************************************************************************)
(* The replays of the model are runs.                                      *)
(***************************************************************************)
OwnInputs == [k \in 1 .. Newest |-> Own(k)]

LEMMA ReplayedIs ==
  ASSUME NEW t \in Nat, NEW f, IsRun(f, OwnInputs, t, Newest), f[t] = SentAt(t),
         Newest \in Nat, t <= Newest
  PROVE  ReplayedFrom(t) = f[Newest]
<1> DEFINE n == Newest
           Eq(h) == h = [k \in t .. n |-> IF k = t THEN SentAt(t) ELSE Simulated(h[k - 1], Own(k))]
           g == [k \in t .. n |-> f[k]]
           r == CHOOSE h : Eq(h)
<1>1. ReplayedFrom(t) = r[n]
  BY DEF ReplayedFrom
<1>2. Eq(g)
  <2> DEFINE e == [k \in t .. n |-> IF k = t THEN SentAt(t) ELSE Simulated(g[k - 1], Own(k))]
  <2>1. ASSUME NEW k \in t .. n PROVE g[k] = e[k]
    <3>1. CASE k = t
      BY <3>1
    <3>2. CASE k # t
      <4>1. k \in t + 1 .. n /\ k - 1 \in t .. n /\ k \in 1 .. n
        BY <3>2
      <4>2. f[k] = Simulated(f[k - 1], OwnInputs[k])
        BY <4>1 DEF IsRun
      <4>3. OwnInputs[k] = Own(k)
        BY <4>1 DEF OwnInputs
      <4>4. g[k] = f[k] /\ g[k - 1] = f[k - 1]
        BY <4>1
      <4>5. e[k] = Simulated(g[k - 1], Own(k))
        BY <3>2
      <4> QED BY <4>2, <4>3, <4>4, <4>5
    <3> QED BY <3>1, <3>2
  <2> QED BY <2>1
<1>3. Eq(r)
  <2> HIDE DEF g
  <2> QED BY <1>2
<1> HIDE DEF r, n
<1>4. r[t] = SentAt(t) /\ \A k \in t + 1 .. n : r[k] = Simulated(r[k - 1], OwnInputs[k])
  <2>1. t \in t .. n /\ \A k \in t + 1 .. n : k \in t .. n /\ k # t /\ k \in 1 .. n
    BY DEF n
  <2>2. r[t] = SentAt(t)
    BY <1>3, <2>1
  <2>3. ASSUME NEW k \in t + 1 .. n PROVE r[k] = Simulated(r[k - 1], OwnInputs[k])
    <3>1. r[k] = Simulated(r[k - 1], Own(k))
      BY <1>3, <2>1
    <3>2. OwnInputs[k] = Own(k)
      BY <2>1 DEF OwnInputs, n
    <3> QED BY <3>1, <3>2
  <2> QED BY <2>2, <2>3
<1>5. n \in Nat /\ n \in t .. n
  BY DEF n
<1>6. Follows(f, OwnInputs, t, n) /\ Follows(r, OwnInputs, t, n)
  BY <1>4 DEF Follows, IsRun, n
<1>7. \A k \in t .. n : f[k] = r[k]
  BY <1>4, <1>5, <1>6, RunsAgree
<1> QED BY <1>1, <1>5, <1>7 DEF n

Predicted == [tick : Nat, input : Int, state : Int]

Restated(entry, x) == [entry EXCEPT !.state = x]

Replays(f, h, pos, x) ==
  f[pos] = x /\ \A k \in pos + 1 .. Len(h) : f[k] = Simulated(f[k - 1], h[k].input)

LEMMA RebuiltIs ==
  ASSUME NEW h, Len(h) \in Nat, NEW pos \in 1 .. Len(h), NEW x, NEW f, Replays(f, h, pos, x)
  PROVE  LET g == P!Rebuilt(h, pos, x)
         IN /\ Len(g) = Len(h) - pos
            /\ \A k \in 1 .. Len(h) - pos : g[k] = Restated(h[pos + k], f[pos + k])
            /\ (\A k \in 1 .. Len(h) - pos : g[k] \in Predicted) => g \in Seq(Predicted)
<1> DEFINE last == Len(h)
           Eq(g) == g = [k \in pos .. last |->
                           IF k = pos THEN x ELSE Simulated(g[k - 1], h[k].input)]
           g0 == [k \in pos .. last |-> f[k]]
           r == CHOOSE g : Eq(g)
           in == [k \in pos .. last |-> h[k].input]
<1>0. f[pos] = x /\ \A k \in pos + 1 .. last : f[k] = Simulated(f[k - 1], h[k].input)
  BY DEF Replays
<1>1. P!Rebuilt(h, pos, x) = [k \in 1 .. last - pos |-> Restated(h[pos + k], r[pos + k])]
  BY DEF P!Rebuilt, Restated
<1>2. Eq(g0)
  <2> DEFINE e == [k \in pos .. last |-> IF k = pos THEN x ELSE Simulated(g0[k - 1], h[k].input)]
  <2>1. ASSUME NEW k \in pos .. last PROVE g0[k] = e[k]
    <3>1. CASE k = pos
      BY <1>0, <3>1
    <3>2. CASE k # pos
      <4>1. k \in pos + 1 .. last /\ k - 1 \in pos .. last
        BY <3>2
      <4>2. f[k] = Simulated(f[k - 1], h[k].input)
        BY <1>0, <4>1
      <4>3. g0[k] = f[k] /\ g0[k - 1] = f[k - 1]
        BY <4>1
      <4>4. e[k] = Simulated(g0[k - 1], h[k].input)
        BY <3>2
      <4> QED BY <4>2, <4>3, <4>4
    <3> QED BY <3>1, <3>2
  <2> QED BY <2>1
<1>3. Eq(r)
  <2> HIDE DEF g0
  <2> QED BY <1>2
<1> HIDE DEF r
<1>4. pos \in pos .. last /\ \A k \in pos + 1 .. last : k \in pos .. last /\ k # pos
  OBVIOUS
<1>5. r[pos] = x /\ \A k \in pos + 1 .. last : r[k] = Simulated(r[k - 1], in[k])
  BY <1>3, <1>4
<1>6. \A k \in pos + 1 .. last : f[k] = Simulated(f[k - 1], in[k])
  BY <1>0, <1>4
<1>7. Follows(f, in, pos, last) /\ Follows(r, in, pos, last)
  BY <1>5, <1>6 DEF Follows
<1>8. pos \in Nat /\ f[pos] = r[pos]
  BY <1>0, <1>5
<1> HIDE DEF in
<1>9. \A k \in pos .. last : f[k] = r[k]
  BY <1>7, <1>8, RunsAgree
<1>10. \A k \in 1 .. last - pos : pos + k \in pos .. last
  OBVIOUS
<1> DEFINE g == P!Rebuilt(h, pos, x)
           m == last - pos
<1>11. m \in Nat
  OBVIOUS
<1> HIDE DEF m
<1>12. g = [k \in 1 .. m |-> Restated(h[pos + k], r[pos + k])]
  BY <1>1 DEF m
<1> HIDE DEF g
<1>13. Len(g) = m /\ \A k \in 1 .. m : g[k] = Restated(h[pos + k], r[pos + k])
  BY <1>11, <1>12
<1>14. g = [k \in 1 .. m |-> g[k]]
  BY <1>12
<1>15. (\A k \in 1 .. m : g[k] \in Predicted) => g \in Seq(Predicted)
  BY <1>11, <1>14
<1>16. \A k \in 1 .. m : r[pos + k] = f[pos + k]
  BY <1>9, <1>10 DEF m
<1>17. \A k \in 1 .. m : g[k] = Restated(h[pos + k], f[pos + k])
  BY <1>13, <1>16
<1> QED BY <1>13, <1>15, <1>17 DEF g, m

(* Snapshot after snapshot.                                                *)
LEMMA ReconciledSteps ==
  ASSUME NEW start, NEW messages, NEW n \in Nat, n = Len(messages)
  PROVE  \E r : /\ Reconciled(start, messages) = r[n] /\ r[0] = start
                /\ \A k \in 1 .. n : r[k] = Taken(r[k - 1], messages[k])
<1> DEFINE Run(f, m) == f = [k \in 0 .. m |-> IF k = 0 THEN start ELSE Taken(f[k - 1], messages[k])]
           S == {m \in Nat : \E f : Run(f, m)}
           r == CHOOSE f : Run(f, n)
<1>0. Reconciled(start, messages) = r[n]
  BY DEF Reconciled
<1>1. 0 \in S
  <2> DEFINE f == [k \in 0 .. 0 |-> start]
  <2>1. Run(f, 0)
    OBVIOUS
  <2> QED BY <2>1
<1>2. ASSUME NEW m \in Nat, m \in S PROVE m + 1 \in S
  <2>1. PICK f : Run(f, m)
    BY <1>2
  <2> DEFINE g == [k \in 0 .. m + 1 |-> IF k = m + 1 THEN Taken(f[m], messages[m + 1]) ELSE f[k]]
  <2>2. /\ g[m + 1] = Taken(f[m], messages[m + 1])
        /\ \A k \in 0 .. m : g[k] = f[k]
        /\ f[0] = start /\ \A k \in 1 .. m : f[k] = Taken(f[k - 1], messages[k])
    <3>1. \A k \in 0 .. m : k \in 0 .. m + 1 /\ k # m + 1
      OBVIOUS
    <3>2. f[0] = start /\ \A k \in 1 .. m : f[k] = Taken(f[k - 1], messages[k])
      BY <2>1
    <3> QED BY <3>1, <3>2
  <2> DEFINE h == [k \in 0 .. m + 1 |-> IF k = 0 THEN start ELSE Taken(g[k - 1], messages[k])]
  <2>3. ASSUME NEW k \in 0 .. m + 1 PROVE g[k] = h[k]
    <3>0. k = 0 \/ k = m + 1 \/ k \in 1 .. m
      OBVIOUS
    <3>1. CASE k = 0
      BY <2>2, <3>1
    <3>2. CASE k = m + 1
      <4>1. m \in 0 .. m /\ k - 1 = m /\ k # 0
        BY <3>2
      <4>2. g[k - 1] = f[m]
        BY <2>2, <4>1
      <4>3. h[k] = Taken(g[k - 1], messages[k])
        BY <4>1
      <4> HIDE DEF g, h
      <4> QED BY <2>2, <3>2, <4>2, <4>3
    <3>3. CASE k \in 1 .. m
      <4>1. k - 1 \in 0 .. m /\ k # 0 /\ k \in 0 .. m
        BY <3>3
      <4>2. h[k] = Taken(g[k - 1], messages[k])
        BY <4>1
      <4> HIDE DEF g, h
      <4> QED BY <2>2, <3>3, <4>1, <4>2
    <3> QED BY <3>0, <3>1, <3>2, <3>3
  <2>4. g = h
    BY <2>3
  <2> HIDE DEF g
  <2>5. Run(g, m + 1)
    BY <2>4
  <2> QED BY <2>5
<1>3. Run(r, n)
  <2>1. n \in S
    <3> HIDE DEF S
    <3> QED BY <1>1, <1>2, Induct
  <2> QED BY <2>1
<1> HIDE DEF r
<1>4. 0 \in 0 .. n /\ \A k \in 1 .. n : k \in 0 .. n /\ k # 0
  OBVIOUS
<1>5. r[0] = start /\ \A k \in 1 .. n : r[k] = Taken(r[k - 1], messages[k])
  BY <1>3, <1>4
<1> QED BY <1>0, <1>5

-----------------------------------------------------------------------------
(***************************************************************************)
(* What the link is given and what becomes of it.                          *)
(***************************************************************************)
LEMMA ScenarioFacts ==
  ASSUME scenario \in Scenarios
  PROVE  /\ scenario.burst \in Nat /\ scenario.deltas \in BOOLEAN
         /\ scenario.link.latency \in Nat /\ scenario.link.jitter \in Nat
         /\ scenario.link.reorder_extra \in Nat
         /\ scenario.link.loss \in {"never", "maybe", "always"}
         /\ scenario.link.duplicate \in {"never", "maybe", "always"}
         /\ scenario.link.reorder \in {"never", "maybe", "always"}
BY ScenariosAssumption

LEMMA DelayFacts ==
  ASSUME scenario \in Scenarios
  PROVE  /\ \A d \in Delays(scenario.link) : d \in Nat
         /\ \E d \in Delays(scenario.link) : \A e \in Delays(scenario.link) : e <= d
<1> DEFINE c == scenario.link
<1>1. c.latency \in Nat /\ c.jitter \in Nat /\ c.reorder_extra \in Nat
      /\ c.reorder \in {"never", "maybe", "always"}
  BY ScenarioFacts
<1> HIDE DEF c
<1>2. Outcomes(c.reorder) = {FALSE} \/ Outcomes(c.reorder) = {TRUE}
      \/ Outcomes(c.reorder) = {TRUE, FALSE}
  BY <1>1 DEF Outcomes
<1>3. \A d \in Delays(c) :
        \E j \in 0 .. c.jitter, held \in Outcomes(c.reorder) :
          d = c.latency + j + IF held THEN c.reorder_extra ELSE 0
  BY DEF Delays
<1>4. \A d \in Delays(c) : d \in Nat
  BY <1>1, <1>3
<1>5. CASE TRUE \in Outcomes(c.reorder)
  <2> DEFINE d == c.latency + c.jitter + c.reorder_extra
  <2>1. d \in Delays(c)
    <3>1. PICK held \in Outcomes(c.reorder) : held
      BY <1>5
    <3>2. c.jitter \in 0 .. c.jitter /\ d = c.latency + c.jitter + IF held THEN c.reorder_extra ELSE 0
      BY <1>1, <3>1
    <3> HIDE DEF d
    <3> QED BY <3>2 DEF Delays
  <2>2. \A e \in Delays(c) : e <= d
    BY <1>1, <1>3
  <2> QED BY <1>4, <2>1, <2>2 DEF c
<1>6. CASE TRUE \notin Outcomes(c.reorder)
  <2> DEFINE d == c.latency + c.jitter
  <2>0. Outcomes(c.reorder) = {FALSE}
    BY <1>2, <1>6
  <2>1. d \in Delays(c)
    BY <1>1, <2>0 DEF Delays
  <2>2. \A e \in Delays(c) : e <= d
    BY <1>1, <1>3, <2>0
  <2> QED BY <1>4, <2>1, <2>2 DEF c
<1> QED BY <1>5, <1>6

LEMMA FateFacts ==
  ASSUME scenario \in Scenarios, NEW fate \in Fates(scenario.link)
  PROVE  /\ Len(fate) \in Nat /\ DOMAIN fate = 1 .. Len(fate)
         /\ \A k \in 1 .. Len(fate) : fate[k] \in Delays(scenario.link)
         /\ fate # <<>> => 1 \in 1 .. Len(fate)
<1>1. \/ fate = <<>>
      \/ fate \in [1 .. 1 -> Delays(scenario.link)]
      \/ fate \in [1 .. 2 -> Delays(scenario.link)]
  BY DEF Fates
<1>2. CASE fate = <<>>
  BY <1>2
<1>3. CASE fate \in [1 .. 1 -> Delays(scenario.link)]
  <2>1. Len(fate) = 1
    BY <1>3
  <2> QED BY <1>3, <2>1
<1>4. CASE fate \in [1 .. 2 -> Delays(scenario.link)]
  <2>1. Len(fate) = 2
    BY <1>4
  <2> QED BY <1>4, <2>1
<1> QED BY <1>1, <1>2, <1>3, <1>4

InOrder(net) ==
  /\ Ordered(net.queue) /\ net.next_seq \in Nat
  /\ \A f \in net.queue : f.seq < net.next_seq

Posted(f, to, data, now) ==
  f.to = to /\ f.data = data /\ \E d \in Delays(scenario.link) : f.deliver_at = now + d

(* Only copies of one datagram are added, and one of them unless it is     *)
(* lost.                                                                   *)
Joined(net, after, to, data, now, fate) ==
  /\ InOrder(after)
  /\ net.queue \subseteq after.queue
  /\ \A f \in after.queue : f \in net.queue \/ Posted(f, to, data, now)
  /\ fate # <<>> => \E f \in after.queue : Posted(f, to, data, now)

LEMMA EnqueueFacts ==
  ASSUME scenario \in Scenarios, NEW net, InOrder(net), NEW to, NEW data, NEW now \in Int,
         NEW fate \in Fates(scenario.link), NEW after, after = Enqueue(net, to, data, now, fate)
  PROVE  Joined(net, after, to, data, now, fate)
<1> DEFINE n == Len(fate)
           next == net.next_seq
           At(k) == [deliver_at |-> now + fate[k], seq |-> next + k - 1, to |-> to, data |-> data]
           new == {At(k) : k \in 1 .. n}
<1>1. /\ n \in Nat /\ DOMAIN fate = 1 .. n
      /\ \A k \in 1 .. n : fate[k] \in Delays(scenario.link) /\ fate[k] \in Nat
      /\ fate # <<>> => 1 \in 1 .. n
  BY FateFacts, DelayFacts
<1>2. after.queue = net.queue \cup new /\ after.next_seq = next + n
  BY <1>1 DEF Enqueue
<1> HIDE DEF n
<1>3. next \in Nat /\ \A f \in net.queue : f.seq < next
  BY DEF InOrder
<1>4. \A k \in 1 .. n : /\ At(k).deliver_at = now + fate[k] /\ At(k).deliver_at \in Int
                        /\ At(k).seq = next + k - 1
                        /\ At(k).to = to /\ At(k).data = data
  BY <1>1
<1> HIDE DEF At, next
<1>5. \A f \in new : \E k \in 1 .. n : f = At(k)
  OBVIOUS
<1>6. IsFiniteSet(1 .. n)
  <2>1. 1 \in Int /\ n \in Int
    BY <1>1
  <2> QED BY <2>1, FS_Interval
<1>7. IsFiniteSet(new)
  <2> DEFINE at == [k \in 1 .. n |-> At(k)]
  <2>1. at \in Surjection(1 .. n, new)
    <3>1. at \in [1 .. n -> new]
      OBVIOUS
    <3>2. \A f \in new : \E k \in 1 .. n : at[k] = f
      OBVIOUS
    <3> HIDE DEF at, new
    <3> QED BY <3>1, <3>2 DEF Surjection
  <2> HIDE DEF at, new
  <2> QED BY <1>6, <2>1, FS_Surjection
<1>8. Ordered(after.queue)
  <2>1. IsFiniteSet(after.queue)
    <3>1. IsFiniteSet(net.queue)
      BY DEF InOrder, Ordered
    <3> HIDE DEF new
    <3> QED BY <1>2, <1>7, <3>1, FS_Union
  <2>2. \A f \in new : Datagram(f) /\ f.seq >= next
    BY <1>1, <1>3, <1>4 DEF Datagram
  <2>3. \A f \in net.queue : Datagram(f)
    BY DEF InOrder, Ordered
  <2>4. ASSUME NEW f \in after.queue, NEW g \in after.queue, f.seq = g.seq PROVE f = g
    <3>1. CASE f \in net.queue /\ g \in net.queue
      BY <2>4, <3>1 DEF InOrder, Ordered
    <3>2. CASE f \in new /\ g \in new
      <4>1. PICK j \in 1 .. n, k \in 1 .. n : f = At(j) /\ g = At(k)
        BY <1>5, <3>2
      <4>2. j = k
        BY <1>3, <1>4, <2>4, <4>1
      <4> QED BY <4>1, <4>2
    <3> HIDE DEF new
    <3>3. CASE f \in net.queue /\ g \in new
      BY <1>3, <2>2, <2>3, <2>4, <3>3 DEF Datagram
    <3>4. CASE f \in new /\ g \in net.queue
      BY <1>3, <2>2, <2>3, <2>4, <3>4 DEF Datagram
    <3> QED BY <1>2, <3>1, <3>2, <3>3, <3>4
  <2> HIDE DEF new
  <2> QED BY <1>2, <2>1, <2>2, <2>3, <2>4 DEF Ordered
<1>9. InOrder(after)
  <2>1. \A f \in new : f.seq < next + n
    BY <1>1, <1>3, <1>4
  <2>2. \A f \in net.queue : f.seq \in Int
    BY DEF InOrder, Ordered, Datagram
  <2>3. \A f \in after.queue : f.seq < next + n
    <3> HIDE DEF new
    <3> QED BY <1>1, <1>2, <1>3, <2>1, <2>2
  <2> HIDE DEF new
  <2> QED BY <1>1, <1>2, <1>3, <1>8, <2>3 DEF InOrder
<1>10. \A f \in new : Posted(f, to, data, now)
  BY <1>1, <1>4, SMTT(30) DEF Posted
<1>11. fate # <<>> => \E f \in new : TRUE
  BY <1>1
<1> HIDE DEF new
<1> QED BY <1>2, <1>9, <1>10, <1>11 DEF Joined

LEMMA RemainingFacts ==
  ASSUME NEW net, InOrder(net), NEW to, NEW now, NEW rest, rest = Remaining(net, to, now),
         net = [queue |-> net.queue, next_seq |-> net.next_seq]
  PROVE  /\ InOrder(rest) /\ rest = [queue |-> rest.queue, next_seq |-> rest.next_seq]
         /\ rest.queue = {f \in net.queue : ~IsDeliverable(f, to, now)}
<1>1. /\ rest.queue = net.queue \ Deliverable(net, to, now) /\ rest.next_seq = net.next_seq
      /\ rest = [queue |-> rest.queue, next_seq |-> rest.next_seq]
  BY DEF Remaining
<1>2. rest.queue \subseteq net.queue
  BY <1>1
<1>3. IsFiniteSet(rest.queue)
  BY <1>2, FS_Subset DEF InOrder, Ordered
<1> QED BY <1>1, <1>2, <1>3 DEF InOrder, Ordered, Deliverable

(***************************************************************************)
(* The lead.                                                               *)
(***************************************************************************)
LEMMA CeilDivFacts ==
  ASSUME NEW a \in Nat, NEW b \in Nat \ {0}
  PROVE  CeilDiv(a, b) \in Nat /\ a <= CeilDiv(a, b) * b
<1> DEFINE x == a + b - 1
           q == x \div b
<1>1. x \in Nat
  OBVIOUS
<1>2. q \in Int /\ x % b \in 0 .. b - 1 /\ x = b * q + (x % b)
  BY <1>1, Division
<1>3. q >= 0
  BY <1>1
<1> HIDE DEF q
<1>4. b * q = q * b
  BY <1>2
<1>5. a <= q * b
  BY <1>2, <1>4
<1> QED BY <1>2, <1>3, <1>5 DEF CeilDiv, q

LEMMA LeadFacts == ASSUME scenario \in Scenarios PROVE Lead \in Nat \ {0}
<1> DEFINE a == scenario.link.latency
           v == scenario.link.jitter
           x == ((2 * a) \div 2) + 2 * v
<1>1. a \in Nat /\ v \in Nat
  BY ScenarioFacts
<1> HIDE DEF a, v
<1>2. x \in Nat
  BY <1>1
<1> HIDE DEF x
<1>3. CeilDiv(x, TickTime) \in Nat
  BY <1>2, Constants, CeilDivFacts
<1>4. Lead = CeilDiv(x, TickTime) + 1
  BY DEF Lead, TargetLead, JitterSigmas, SafetyTicks, x, a, v
<1> QED BY <1>3, <1>4

-----------------------------------------------------------------------------
(***************************************************************************)
(* The invariant.                                                          *)
(***************************************************************************)
(* The truth is a run of the game under the inputs that the server used.   *)
Frames == [k \in 0 .. Len(truth) |-> IF k = 0 THEN 0 ELSE truth[k]]
Used == [k \in 1 .. Len(applied) |-> applied[k].input]

Paced ==
  /\ scenario \in Scenarios
  /\ turn \in {"predict", "simulate", "reconcile"} /\ tick \in Nat \ {0}
  /\ played \in Seq(Inputs)
  /\ Len(played) = IF turn = "predict" THEN tick - 1 ELSE tick
  /\ truth \in Seq(Int) /\ applied \in Seq([input : Inputs, starved : BOOLEAN])
  /\ Len(truth) = IF turn = "reconcile" THEN tick ELSE tick - 1
  /\ Len(applied) = Len(truth)

(* One of the client's inputs, as it says it.                              *)
IsOwn(m) == m.tick \in Lead + 1 .. Newest /\ m.input \in Inputs /\ m.input = Own(m.tick)

Ruled ==
  /\ server.world = Frames[Len(truth)] /\ server.last_input \in Inputs
  /\ Len(truth) <= Lead => server.last_input = NoInput
  /\ \A m \in server.pending : IsOwn(m)
  /\ IsRun(Frames, Used, 0, Len(truth))

(* The client repeats its latest inputs.                                   *)
Remembered(recent) ==
  /\ recent \in Seq([tick : Nat, input : Inputs])
  /\ Len(recent) <= Len(played) /\ Len(recent) <= Redundancy
  /\ Len(recent) \in {Len(played), Redundancy}
  /\ \A i \in 1 .. Len(recent) : recent[i].tick = (Newest - Len(recent)) + i /\ IsOwn(recent[i])

WholeSnapshots == ~scenario.deltas

(* Every snapshot on its way is of a tick of the past, and, if whole, says *)
(* what the world was then.                                                *)
IsSnapshot(message) ==
  /\ message.tick \in 1 .. Len(truth) /\ message.said \in Int \cup {Unsaid}
  /\ WholeSnapshots => message.said = SentAt(message.tick)

IsWindow(message) == \A i \in DOMAIN message : IsOwn(message[i])

Carried ==
  /\ network = [queue |-> network.queue, next_seq |-> network.next_seq]
  /\ InOrder(network)
  /\ \A f \in network.queue : f.to = "client" => IsSnapshot(f.data)
  /\ \A f \in network.queue : f.to = "server" => IsWindow(f.data)

IsBase(b) ==
  /\ b = [tick |-> b.tick, corrected |-> b.corrected, corrections |-> b.corrections]
  /\ b.tick \in 0 .. Len(truth) /\ b.corrected \in 0 .. b.tick

(* The history ends with the newest tick, has no gap, and lies after the   *)
(* latest snapshot.                                                        *)
Aligned(world, history, b) ==
  /\ world \in Int /\ history \in Seq(Predicted) /\ IsBase(b)
  /\ Len(history) + b.tick <= Newest
  /\ \A k \in 1 .. Len(history) :
       /\ history[k].tick = (Newest - Len(history)) + k
       /\ history[k].input = Own(history[k].tick)
  /\ played # <<>> => Len(history) >= 1

(* What is held is exactly the run of the client's inputs from the last    *)
(* snapshot it was corrected to; and, up to the tolerance, the world is    *)
(* that from the latest snapshot taken.                                    *)
Exact(world, history, b) ==
  \E f : /\ IsRun(f, OwnInputs, b.corrected, Newest) /\ f[b.corrected] = SentAt(b.corrected)
         /\ world = f[Newest]
         /\ \A k \in 1 .. Len(history) : history[k].state = f[history[k].tick]

Near(world, b) ==
  \E f : /\ IsRun(f, OwnInputs, b.tick, Newest) /\ f[b.tick] = SentAt(b.tick)
         /\ Distance(world, f[Newest]) <= Tolerance

Caused(b) ==
  \A c \in b.corrections :
    /\ c.from \in Nat /\ c.to \in 0 .. Len(truth)
    /\ c.kind = "Corrected"
    /\ \E t \in c.from + 1 .. c.to : applied[t].input # Own(t)

Followed(world, history, b) ==
  WholeSnapshots => Exact(world, history, b) /\ Near(world, b) /\ Caused(b)

(* Every input that the server has yet to use has arrived, will arrive in  *)
(* time, or was in none but datagrams lost, and those not for long.        *)
IsInTime(f, t) ==
  /\ f.to = "server" /\ f.deliver_at <= t * TickTime
  /\ \E i \in DOMAIN f.data : f.data[i].tick = t

IsSupplied(t, n) ==
  \/ \E m \in server.pending : m.tick = t
  \/ \E f \in network.queue : IsInTime(f, t)
  \/ n < lost

Supplied ==
  \A s \in 1 .. Len(played) :
    s + Lead > Len(applied) => IsSupplied(s + Lead, Len(played) - s)

(* The server has used exactly the client's inputs, in their ticks.        *)
Heard ==
  \A t \in 1 .. Len(applied) : applied[t].input = Own(t) /\ (applied[t].starved => t <= Lead)

Shaped ==
  client = [world |-> client.world, recent |-> client.recent, history |-> client.history]

IInv ==
  /\ Paced /\ Shaped /\ Ruled /\ Carried /\ Remembered(client.recent)
  /\ Aligned(client.world, client.history, base)
  /\ Followed(client.world, client.history, base)
  /\ lost \in 0 .. scenario.burst
  /\ Bearable => Supplied /\ Heard

-----------------------------------------------------------------------------
LEMMA PacedFacts ==
  ASSUME Paced
  PROVE  /\ Lead \in Nat \ {0} /\ Newest \in Nat /\ Len(played) \in Nat /\ Newest = Len(played) + Lead
         /\ Len(truth) \in Nat /\ Len(truth) < Newest
         /\ \A k \in Nat : k <= Newest => Own(k) \in Int
         /\ \A k \in 1 .. Newest : OwnInputs[k] = Own(k) /\ OwnInputs[k] \in Int
<1>1. Lead \in Nat \ {0}
  BY LeadFacts DEF Paced
<1>2. Len(played) \in Nat /\ Len(truth) \in Nat /\ Len(truth) <= Len(played)
  BY DEF Paced
<1>3. Newest \in Nat /\ Len(truth) < Newest /\ Newest = Len(played) + Lead
  BY <1>1, <1>2 DEF Newest
<1>4. ASSUME NEW k \in Nat, k <= Newest PROVE Own(k) \in Int
  <2>1. CASE k <= Lead
    BY <2>1 DEF Own, NoInput
  <2>2. CASE ~(k <= Lead)
    <3>1. k - Lead \in 1 .. Len(played)
      BY <1>1, <1>2, <1>3, <1>4, <2>2
    <3>2. played[k - Lead] \in Inputs
      BY <3>1 DEF Paced
    <3> QED BY <2>2, <3>2, Constants DEF Own
  <2> QED BY <2>1, <2>2
<1>5. \A k \in 1 .. Newest : OwnInputs[k] = Own(k)
  BY DEF OwnInputs
<1> QED BY <1>1, <1>2, <1>3, <1>4, <1>5

(* What is sent of a position is within half a step of it.                 *)
LEMMA SentIsNear ==
  ASSUME NEW x \in Int
  PROVE  Sent(x) \in Int /\ Distance(Sent(x), x) <= Step \div 2
<1> DEFINE h == Step \div 2
           y == x + Arena + h
           q == y \div Step
<1>0. Step \in Nat \ {0} /\ Arena \in Nat
  BY Constants
<1>1. h \in Int /\ Step % 2 \in 0 .. 1 /\ Step = 2 * h + (Step % 2)
  BY <1>0, Division
<1> HIDE DEF h
<1>2. y \in Int
  BY <1>0, <1>1
<1>3. q \in Int /\ y % Step \in 0 .. Step - 1 /\ y = Step * q + (y % Step)
  <2> HIDE DEF y
  <2> QED BY <1>0, <1>2, Division
<1> HIDE DEF q
<1>4. Step * q = q * Step /\ q * Step \in Int
  BY <1>0, <1>3
<1>5. Sent(x) = -Arena + q * Step
  BY DEF Sent, q, y, h
<1> DEFINE z == q * Step
           r == y % Step
<1>6. z \in Int /\ r \in 0 .. Step - 1 /\ x + Arena + h = z + r
  BY <1>3, <1>4
<1> HIDE DEF z, r
<1>7. Sent(x) = -Arena + z
  BY <1>5 DEF z
<1>8. Sent(x) - x = h - r
  BY <1>0, <1>1, <1>6, <1>7
<1>9. Sent(x) \in Int
  BY <1>0, <1>6, <1>7
<1>10. h - r <= h /\ r - h <= h
  BY <1>0, <1>1, <1>6
<1> QED BY <1>1, <1>6, <1>8, <1>9, <1>10 DEF Distance, h

LEMMA SentAtIsNear ==
  ASSUME Paced, NEW t \in 0 .. Len(truth)
  PROVE  SentAt(t) \in Int /\ Frames[t] \in Int /\ Distance(SentAt(t), Frames[t]) <= Step \div 2
<1>0. Step \div 2 \in Nat
  <2>1. Step \in Nat
    BY Constants
  <2> QED BY <2>1
<1>1. CASE t = 0
  BY <1>0, <1>1 DEF SentAt, Frames, Distance
<1>2. CASE t # 0
  <2>1. t \in 1 .. Len(truth) /\ truth[t] \in Int
    BY <1>2 DEF Paced
  <2>2. SentAt(t) = Sent(truth[t]) /\ Frames[t] = truth[t]
    BY <1>2 DEF SentAt, Frames
  <2> QED BY <2>1, <2>2, SentIsNear
<1> QED BY <1>1, <1>2

(***************************************************************************)
(* One snapshot.                                                           *)
(***************************************************************************)
LEMMA RunSuffix ==
  ASSUME NEW f, NEW in, NEW lo \in Nat, NEW hi \in Nat, NEW from \in Nat, NEW to \in Nat,
         lo <= from, to <= hi, IsRun(f, in, lo, hi)
  PROVE  IsRun(f, in, from, to)
BY DEF IsRun

(* The tick before the first one held.                                     *)
Before1(h) == Newest - Len(h)

LEMMA HistoryFacts ==
  ASSUME Paced, NEW w, NEW h, NEW b, Aligned(w, h, b)
  PROVE  /\ Len(h) \in Nat /\ DOMAIN h = 1 .. Len(h) /\ Before1(h) \in Nat
         /\ b.tick \in Nat /\ b.tick <= Before1(h)
         /\ Newest = Before1(h) + Len(h)
         /\ b.corrected \in Nat /\ b.corrected <= b.tick
<1> DEFINE n == Len(h)
<1>1. /\ n \in Nat /\ DOMAIN h = 1 .. n /\ b.tick \in Nat /\ b.corrected \in Nat
      /\ b.corrected <= b.tick /\ n + b.tick <= Newest
  <2>1. h \in Seq(Predicted) /\ IsBase(b) /\ n + b.tick <= Newest
    BY DEF Aligned
  <2>2. Len(truth) \in Nat
    BY PacedFacts
  <2> QED BY <2>1, <2>2 DEF IsBase
<1>2. Newest \in Nat
  BY PacedFacts
<1> QED BY <1>1, <1>2 DEF Before1

LEMMA EntryFacts ==
  ASSUME Paced, NEW w, NEW h, NEW b, Aligned(w, h, b), NEW k \in 1 .. Len(h)
  PROVE  /\ h[k].tick = Before1(h) + k /\ Before1(h) + k \in 1 .. Newest
         /\ h[k].input = Own(Before1(h) + k) /\ h[k].input = OwnInputs[Before1(h) + k]
         /\ h[k].state \in Int /\ h[k].input \in Int
<1> DEFINE off == Before1(h)
<1>1. Len(h) \in Nat /\ off \in Nat /\ Newest = off + Len(h)
  BY HistoryFacts
<1>2. h[k] \in Predicted
  BY DEF Aligned
<1>3. h[k].tick = off + k /\ h[k].input = Own(h[k].tick)
  BY DEF Aligned, Before1
<1> HIDE DEF off
<1>4. off + k \in 1 .. Newest
  BY <1>1
<1>5. OwnInputs[off + k] = Own(off + k)
  BY <1>4, PacedFacts
<1>6. h[k].state \in Int /\ h[k].input \in Int
  BY <1>2 DEF Predicted
<1> QED BY <1>3, <1>4, <1>5, <1>6 DEF off

LEMMA ReconcileFacts ==
  ASSUME Paced, NEW w, NEW h, NEW b, Aligned(w, h, b), Len(h) >= 1, NEW snap,
         snap.tick \in Nat, snap.tick < Newest
  PROVE  \/ P!Reconcile(h, w, snap) = P!Outcome("Stale", h, w)
         \/ \E pos \in 1 .. Len(h) - 1 :
              /\ h[pos].tick = snap.tick /\ WithinTolerance(h[pos].state, snap.state)
              /\ P!Reconcile(h, w, snap) = P!Confirmed(h, pos, w)
         \/ \E pos \in 1 .. Len(h) - 1 :
              /\ h[pos].tick = snap.tick /\ ~WithinTolerance(h[pos].state, snap.state)
              /\ P!Reconcile(h, w, snap) = P!Corrected(h, pos, snap)
<1> DEFINE n == Len(h)
           off == Before1(h)
           pos == snap.tick - off
           held == P!Positions(h, snap.tick)
<1>0. n \in Nat /\ DOMAIN h = 1 .. n /\ off \in Nat /\ Newest = off + n
  BY HistoryFacts
<1>00. \A k \in 1 .. n : h[k].tick = off + k
  BY EntryFacts
<1> HIDE DEF n, off
<1>1. held = {k \in 1 .. n : h[k].tick = snap.tick}
  BY <1>0 DEF P!Positions
<1>2. CASE snap.tick <= off
  <2>1. held = {}
    <3>1. \A k \in 1 .. n : h[k].tick # snap.tick
      BY <1>0, <1>00, <1>2
    <3> QED BY <1>1, <3>1
  <2>2. P!IsOldNews(h, snap.tick)
    <3>1. 1 \in 1 .. n /\ h # <<>>
      BY <1>0 DEF n
    <3>2. h[1].tick = off + 1
      BY <1>00, <3>1
    <3> QED BY <1>0, <1>2, <3>1, <3>2 DEF P!IsOldNews
  <2> HIDE DEF held
  <2> QED BY <2>1, <2>2 DEF P!Reconcile, held
<1>3. CASE ~(snap.tick <= off)
  <2>1. pos \in 1 .. n - 1 /\ pos \in 1 .. n /\ off + pos = snap.tick
    BY <1>0, <1>3
  <2>2. h[pos].tick = snap.tick
    BY <1>00, <2>1
  <2>3. held = {pos}
    <3> HIDE DEF held
    <3>1. \A k \in 1 .. n : h[k].tick = snap.tick => k = pos
      BY <1>0, <1>00, <2>1
    <3> QED BY <1>1, <2>1, <2>2, <3>1
  <2> HIDE DEF pos
  <2>4. (CHOOSE k \in {pos} : \A other \in {pos} : k <= other) = pos
    BY <2>1
  <2>5. CASE WithinTolerance(h[pos].state, snap.state)
    <3>1. P!Reconcile(h, w, snap) = P!Confirmed(h, pos, w)
      BY <2>3, <2>4, <2>5 DEF P!Reconcile
    <3> QED BY <2>1, <2>2, <2>5, <3>1 DEF n
  <2>6. CASE ~WithinTolerance(h[pos].state, snap.state)
    <3>1. P!Reconcile(h, w, snap) = P!Corrected(h, pos, snap)
      BY <2>3, <2>4, <2>6 DEF P!Reconcile
    <3> QED BY <2>1, <2>2, <2>6, <3>1 DEF n
  <2> QED BY <2>5, <2>6
<1> QED BY <1>2, <1>3

(* The prediction is confirmed: what is held after it stays.               *)
LEMMA ConfirmedSound ==
  ASSUME Paced, NEW w, NEW h, NEW b, Aligned(w, h, b), Followed(w, h, b), NEW t \in 1 .. Len(truth),
         NEW pos \in 1 .. Len(h) - 1, h[pos].tick = t, NEW x,
         WholeSnapshots => x = SentAt(t), WithinTolerance(h[pos].state, x)
  PROVE  LET g == SubSeq(h, pos + 1, Len(h))
             a == [b EXCEPT !.tick = t]
         IN Aligned(w, g, a) /\ Followed(w, g, a) /\ b.tick <= a.tick
<1> DEFINE n == Len(h)
           g == SubSeq(h, pos + 1, n)
           a == [b EXCEPT !.tick = t]
           off == Before1(h)
<1> HIDE DEF g, a, off, n
<1>0. /\ n \in Nat /\ pos \in 1 .. n - 1 /\ DOMAIN h = 1 .. n /\ off \in Nat
      /\ b.tick \in Nat /\ b.tick <= off
      /\ b.corrected \in Nat /\ b.corrected <= b.tick /\ Newest = off + n
  BY HistoryFacts DEF off, n
<1>1. ASSUME NEW k \in 1 .. n PROVE h[k].tick = off + k /\ h[k].input = Own(off + k)
  BY EntryFacts DEF off, n
<1>2. Newest \in Nat /\ Len(truth) \in Nat /\ Len(truth) < Newest
  BY PacedFacts
<1>3. pos \in 1 .. n /\ t = off + pos
  BY <1>0, <1>1
<1>4. w \in Int /\ h \in Seq(Predicted) /\ IsBase(b)
  BY DEF Aligned
<1>5. /\ g \in Seq(Predicted) /\ Len(g) = n - pos
      /\ \A k \in 1 .. Len(g) : g[k] = h[pos + k]
  BY <1>0, <1>1, <1>4 DEF g, n
<1>6. /\ a = [tick |-> t, corrected |-> b.corrected, corrections |-> b.corrections]
      /\ IsBase(a) /\ b.tick <= a.tick
  <2>1. a = [tick |-> t, corrected |-> b.corrected, corrections |-> b.corrections]
    BY <1>4 DEF IsBase, a
  <2> QED BY <1>0, <1>1, <1>2, <1>3, <2>1 DEF IsBase
<1>7. \A k \in 1 .. Len(g) : pos + k \in 1 .. n
  BY <1>0, <1>5
<1>8. Aligned(w, g, a)
  <2>1. Len(g) + a.tick = Newest /\ Len(g) >= 1
    BY <1>0, <1>1, <1>2, <1>3, <1>5, <1>6
  <2>2. ASSUME NEW k \in 1 .. Len(g)
        PROVE  g[k].tick = (Newest - Len(g)) + k /\ g[k].input = Own(g[k].tick)
    <3>1. g[k].tick = off + (pos + k) /\ g[k].input = Own(off + (pos + k))
      BY <1>0, <1>1, <1>5, <1>7
    <3>2. off + (pos + k) = (Newest - Len(g)) + k
      BY <1>0, <1>1, <1>2, <1>3, <1>5
    <3> QED BY <3>1, <3>2
  <2> QED BY <1>2, <1>4, <1>5, <1>6, <2>1, <2>2 DEF Aligned
<1>9. ASSUME WholeSnapshots PROVE Exact(w, g, a) /\ Near(w, a) /\ Caused(a)
  <2>0. Exact(w, h, b) /\ Caused(b)
    BY <1>9 DEF Followed
  <2>1. PICK f : /\ IsRun(f, OwnInputs, b.corrected, Newest) /\ f[b.corrected] = SentAt(b.corrected)
                 /\ w = f[Newest]
                 /\ \A k \in 1 .. n : h[k].state = f[h[k].tick]
    BY <2>0 DEF Exact, n
  <2>2. Exact(w, g, a)
    <3>1. \A k \in 1 .. Len(g) : g[k].state = f[g[k].tick]
      BY <1>5, <1>7, <2>1
    <3>2. a.corrected = b.corrected
      BY <1>6
    <3> QED BY <2>1, <3>1, <3>2 DEF Exact
  <2>3. t \in Nat /\ t <= Newest /\ b.corrected <= t /\ t \in 0 .. Len(truth)
    BY <1>0, <1>1, <1>2, <1>3, SMTT(30)
  <2>4. SentAt(t) \in Int
    BY <2>3, SentAtIsNear
  <2>5. \A k \in t + 1 .. Newest : OwnInputs[k] \in Int
    <3>1. \A k \in t + 1 .. Newest : k \in 1 .. Newest
      BY <1>2, <2>3
    <3> QED BY <3>1, PacedFacts
  <2>6. PICK e : e[t] = SentAt(t) /\ IsRun(e, OwnInputs, t, Newest)
    BY <1>2, <2>3, <2>4, <2>5, RunExists
  <2>7. IsRun(f, OwnInputs, t, Newest)
    BY <1>0, <1>1, <1>2, <2>1, <2>3, RunSuffix
  <2>8. Distance(f[t], e[t]) <= Tolerance
    <3>1. h[pos].state = f[t] /\ x = SentAt(t)
      BY <1>3, <1>9, <2>1
    <3> QED BY <2>6, <3>1 DEF WithinTolerance
  <2>9. Newest \in t .. Newest
    BY <1>2, <2>3
  <2>10. Tolerance \in Int
    BY Constants
  <2>11. \A k \in t .. Newest : Distance(f[k], e[k]) <= Tolerance
    BY <1>2, <2>3, <2>5, <2>6, <2>7, <2>8, <2>10, RunsStayNear
  <2>12. Near(w, a)
    <3>1. a.tick = t
      BY <1>6
    <3> QED BY <2>1, <2>6, <2>9, <2>11, <3>1 DEF Near
  <2>13. Caused(a)
    <3>1. a.corrections = b.corrections
      BY <1>6
    <3> QED BY <2>0, <3>1 DEF Caused
  <2> QED BY <2>2, <2>12, <2>13
<1> QED BY <1>6, <1>8, <1>9 DEF Followed, g, a, n

(* The prediction is corrected: what is held is simulated again, and it    *)
(* was the server's input that differed.                                   *)
LEMMA CorrectedSound ==
  ASSUME Paced, Ruled, NEW w, NEW h, NEW b, Aligned(w, h, b), Followed(w, h, b),
         NEW t \in 1 .. Len(truth), NEW pos \in 1 .. Len(h) - 1, h[pos].tick = t, NEW x \in Int,
         WholeSnapshots => x = SentAt(t), ~WithinTolerance(h[pos].state, x)
  PROVE  LET g == P!Rebuilt(h, pos, x)
             v == P!NewestState(g, x)
             a == [tick |-> t, corrected |-> t,
                   corrections |-> b.corrections \cup
                                     {[kind |-> "Corrected", from |-> b.corrected, to |-> t]}]
         IN Aligned(v, g, a) /\ Followed(v, g, a) /\ b.tick <= a.tick
<1> DEFINE n == Len(h)
           c == [kind |-> "Corrected", from |-> b.corrected, to |-> t]
           g == P!Rebuilt(h, pos, x)
           v == P!NewestState(g, x)
           a == [tick |-> t, corrected |-> t, corrections |-> b.corrections \cup {c}]
           off == Before1(h)
<1> HIDE DEF g, a, off, n, v, c
<1>0. /\ n \in Nat /\ pos \in 1 .. n - 1 /\ DOMAIN h = 1 .. n /\ off \in Nat
      /\ b.tick \in Nat /\ b.tick <= off
      /\ b.corrected \in Nat /\ b.corrected <= b.tick /\ Newest = off + n
  BY HistoryFacts DEF off, n
<1>1. ASSUME NEW k \in 1 .. n
      PROVE  /\ h[k].tick = off + k /\ h[k].input = Own(off + k)
             /\ h[k].input = OwnInputs[off + k] /\ h[k].input \in Int /\ h[k].state \in Int
             /\ off + k \in 1 .. Newest
  BY EntryFacts DEF off, n
<1>2. Newest \in Nat /\ Len(truth) \in Nat /\ Len(truth) < Newest
  BY PacedFacts
<1>3. pos \in 1 .. n /\ t = off + pos /\ pos \in Nat
  BY <1>0, <1>1, SMTT(30)
<1>4. /\ a.tick = t /\ a.corrected = t /\ a.corrections = b.corrections \cup {c}
      /\ IsBase(a) /\ b.tick <= a.tick
  <2>1. a.tick = t /\ a.corrected = t /\ a.corrections = b.corrections \cup {c}
        /\ a = [tick |-> a.tick, corrected |-> a.corrected, corrections |-> a.corrections]
    BY DEF a
  <2>2. t \in 0 .. Len(truth) /\ t \in 0 .. t /\ b.tick <= t
    BY <1>0, <1>2, <1>3
  <2> QED BY <2>1, <2>2 DEF IsBase
<1>5. t \in Nat /\ t <= Newest
  BY <1>0, <1>2, <1>3
<1>6. \A k \in t + 1 .. Newest : OwnInputs[k] \in Int
  <2>1. \A k \in t + 1 .. Newest : k \in 1 .. Newest
    BY <1>2, <1>5
  <2> QED BY <2>1, PacedFacts
<1>7. PICK e : e[t] = x /\ IsRun(e, OwnInputs, t, Newest)
  BY <1>2, <1>5, <1>6, RunExists
<1>f. PICK f : f = [k \in pos .. n |-> e[off + k]]
  OBVIOUS
<1>8. /\ Len(g) = n - pos
      /\ \A k \in 1 .. n - pos : g[k] = Restated(h[pos + k], f[pos + k])
      /\ (\A k \in 1 .. n - pos : g[k] \in Predicted) => g \in Seq(Predicted)
  <2>1. f[pos] = x
    BY <1>0, <1>3, <1>7, <1>f
  <2>2. ASSUME NEW k \in pos + 1 .. n PROVE f[k] = Simulated(f[k - 1], h[k].input)
    <3>1. k \in 1 .. n /\ k \in pos .. n /\ k - 1 \in pos .. n /\ off + k \in t + 1 .. Newest
          /\ off + (k - 1) = (off + k) - 1
      BY <1>0, <1>3
    <3>2. f[k] = e[off + k] /\ f[k - 1] = e[(off + k) - 1]
      BY <1>f, <3>1
    <3>3. e[off + k] = Simulated(e[(off + k) - 1], OwnInputs[off + k])
      BY <1>7, <3>1 DEF IsRun
    <3>4. h[k].input = OwnInputs[off + k]
      BY <1>1, <3>1
    <3> QED BY <3>2, <3>3, <3>4
  <2>3. Len(h) \in Nat /\ pos \in 1 .. Len(h)
    BY <1>0, <1>3 DEF n
  <2>4. Replays(f, h, pos, x)
    BY <2>1, <2>2 DEF n, Replays
  <2>5. /\ Len(P!Rebuilt(h, pos, x)) = Len(h) - pos
        /\ \A k \in 1 .. Len(h) - pos : P!Rebuilt(h, pos, x)[k] = Restated(h[pos + k], f[pos + k])
        /\ (\A k \in 1 .. Len(h) - pos : P!Rebuilt(h, pos, x)[k] \in Predicted)
             => P!Rebuilt(h, pos, x) \in Seq(Predicted)
    BY <2>3, <2>4, RebuiltIs
  <2> QED BY <2>5 DEF g, n
<1>9. ASSUME NEW k \in 1 .. n - pos
      PROVE  /\ pos + k \in 1 .. n /\ off + (pos + k) \in t .. Newest
             /\ g[k].tick = off + (pos + k) /\ g[k].input = Own(off + (pos + k))
             /\ g[k].state = e[off + (pos + k)] /\ e[off + (pos + k)] \in Int
             /\ g[k] \in Predicted
  <2>1. pos + k \in 1 .. n /\ pos + k \in pos .. n /\ off + (pos + k) \in t .. Newest
    BY <1>0, <1>3
  <2>2. f[pos + k] = e[off + (pos + k)]
    BY <1>f, <2>1
  <2>3. e[off + (pos + k)] \in Int
    BY <1>7, <2>1 DEF IsRun
  <2>4. g[k] = Restated(h[pos + k], e[off + (pos + k)])
    BY <1>8, <2>2
  <2>5. h[pos + k] \in Predicted
    BY <2>1 DEF Aligned, n
  <2>6. g[k] \in Predicted /\ g[k].state = e[off + (pos + k)]
        /\ g[k].tick = h[pos + k].tick /\ g[k].input = h[pos + k].input
    BY <2>3, <2>4, <2>5 DEF Predicted, Restated
  <2> QED BY <1>1, <2>1, <2>3, <2>6
<1>10. n - pos \in Nat /\ n - pos >= 1 /\ n - pos \in 1 .. n - pos /\ off + (pos + (n - pos)) = Newest
  BY <1>0
<1>11. g \in Seq(Predicted) /\ Len(g) = n - pos
  <2>1. \A k \in 1 .. n - pos : g[k] \in Predicted
    BY <1>9
  <2> QED BY <1>8, <2>1
<1>12. v = e[Newest] /\ v \in Int
  <2>1. g # <<>>
    BY <1>10, <1>11
  <2>2. v = g[n - pos].state
    BY <1>11, <2>1 DEF P!NewestState, v
  <2> QED BY <1>9, <1>10, <2>2
<1>13. Aligned(v, g, a)
  <2>1. Len(g) + a.tick = Newest /\ Len(g) >= 1
    BY <1>0, <1>3, <1>4, <1>10, <1>11
  <2>2. ASSUME NEW k \in 1 .. Len(g)
        PROVE  g[k].tick = (Newest - Len(g)) + k /\ g[k].input = Own(g[k].tick)
    <3>1. g[k].tick = off + (pos + k) /\ g[k].input = Own(off + (pos + k))
      BY <1>9, <1>11
    <3>2. off + (pos + k) = (Newest - Len(g)) + k
      BY <1>0, <1>3, <1>11, SMTT(30)
    <3> QED BY <3>1, <3>2
  <2> QED BY <1>2, <1>4, <1>11, <1>12, <2>1, <2>2 DEF Aligned
<1>14. ASSUME WholeSnapshots PROVE Exact(v, g, a) /\ Near(v, a) /\ Caused(a)
  <2>0. Exact(w, h, b) /\ Caused(b) /\ x = SentAt(t)
    BY <1>14 DEF Followed
  <2>1. Exact(v, g, a)
    <3>1. \A k \in 1 .. Len(g) : g[k].state = e[g[k].tick]
      BY <1>9, <1>11
    <3> QED BY <1>4, <1>7, <1>12, <2>0, <3>1 DEF Exact
  <2>2. Near(v, a)
    <3>1. Distance(v, e[Newest]) <= Tolerance
      BY <1>12, Constants DEF Distance
    <3> QED BY <1>4, <1>7, <2>0, <3>1 DEF Near
  <2>3. \E k \in b.corrected + 1 .. t : applied[k].input # Own(k)
    <3> SUFFICES ASSUME \A k \in b.corrected + 1 .. t : applied[k].input = Own(k) PROVE FALSE
      OBVIOUS
    <3>1. PICK p : /\ IsRun(p, OwnInputs, b.corrected, Newest) /\ p[b.corrected] = SentAt(b.corrected)
                   /\ \A k \in 1 .. n : h[k].state = p[h[k].tick]
      BY <2>0 DEF Exact, n
    <3> DEFINE lo == b.corrected
               d == Step \div 2
    <3>2. lo \in Nat /\ lo <= t /\ lo \in 0 .. Len(truth) /\ t \in 0 .. Len(truth) /\ t <= Len(truth)
      BY <1>0, <1>2, <1>3
    <3> HIDE DEF lo
    <3>3. IsRun(p, OwnInputs, lo, t)
      BY <1>2, <1>5, <3>1, <3>2, RunSuffix DEF lo
    <3>4. IsRun(Frames, Used, lo, t)
      <4>1. IsRun(Frames, Used, 0, Len(truth))
        BY DEF Ruled
      <4> QED BY <1>2, <1>5, <3>2, <4>1, RunSuffix
    <3>5. \A k \in lo + 1 .. t : OwnInputs[k] = Used[k] /\ OwnInputs[k] \in Int
      <4> SUFFICES ASSUME NEW k \in lo + 1 .. t PROVE OwnInputs[k] = Used[k] /\ OwnInputs[k] \in Int
        OBVIOUS
      <4>1. k \in 1 .. Newest /\ k \in 1 .. Len(truth)
        BY <1>2, <1>5, <3>2
      <4>2. OwnInputs[k] = Own(k) /\ OwnInputs[k] \in Int
        BY <4>1, PacedFacts
      <4>3. Used[k] = applied[k].input
        BY <4>1 DEF Used, Paced
      <4> QED BY <4>2, <4>3 DEF lo
    <3>6. Distance(p[lo], Frames[lo]) <= d
      BY <3>1, <3>2, SentAtIsNear DEF lo
    <3>7. d \in Int /\ d + d <= Step
      BY Constants
    <3> HIDE DEF d
    <3>8. \A k \in lo .. t : Distance(p[k], Frames[k]) <= d
      BY <1>5, <3>2, <3>3, <3>4, <3>5, <3>6, <3>7, RunsStayNear
    <3>9. Distance(SentAt(t), Frames[t]) <= d /\ SentAt(t) \in Int /\ Frames[t] \in Int
      BY <3>2, SentAtIsNear DEF d
    <3>10. t \in lo .. t /\ t \in t .. t
      BY <1>5, <3>2
    <3>11. p[t] \in Int
      BY <3>3, <3>10 DEF IsRun
    <3>12. Distance(p[t], Frames[t]) <= d
      BY <3>8, <3>10
    <3>13. Distance(p[t], SentAt(t)) <= d + d
      BY <3>7, <3>9, <3>11, <3>12, Triangle
    <3>14. Distance(p[t], SentAt(t)) <= Tolerance
      <4>1. Distance(p[t], SentAt(t)) \in Int
        BY <3>9, <3>11 DEF Distance
      <4> QED BY <3>7, <3>13, <4>1, Constants
    <3>15. h[pos].state = p[t]
      BY <1>3, <3>1
    <3> QED BY <2>0, <3>14, <3>15 DEF WithinTolerance
  <2>4. Caused(a)
    <3>1. c.kind = "Corrected" /\ c.from = b.corrected /\ c.to = t
      BY DEF c
    <3>2. t \in 0 .. Len(truth)
      BY <1>2, <1>5
    <3> QED BY <1>0, <1>4, <2>0, <2>3, <3>1, <3>2 DEF Caused
  <2> QED BY <2>1, <2>2, <2>4
<1> QED BY <1>4, <1>13, <1>14 DEF Followed, g, a, v, c

Sound(c) == Aligned(c.world, c.history, c.base) /\ Followed(c.world, c.history, c.base)

LEMMA TakenSound ==
  ASSUME Paced, Ruled, played # <<>>, NEW c, Sound(c), NEW message, IsSnapshot(message)
  PROVE  Sound(Taken(c, message)) /\ c.base.tick <= Taken(c, message).base.tick
<1> DEFINE w == c.world
           h == c.history
           b == c.base
           t == message.tick
           x == Applied(w, message.said)
           snap == [tick |-> t, state |-> x]
           done == P!Reconcile(h, w, snap)
           d == Taken(c, message)
<1>1. d = [world |-> done.world, history |-> done.history, base |-> Noted(b, done.kind, t)]
  BY DEF Taken
<1>2. Aligned(w, h, b) /\ Followed(w, h, b)
  BY DEF Sound
<1>3. t \in 1 .. Len(truth) /\ t \in Nat /\ t < Newest
  BY PacedFacts DEF IsSnapshot
<1>4. x \in Int /\ (WholeSnapshots => x = SentAt(t))
  <2>1. w \in Int
    BY <1>2 DEF Aligned
  <2>2. WholeSnapshots => message.said = SentAt(t) /\ SentAt(t) \in Int
    <3>1. t \in 0 .. Len(truth)
      BY <1>3, PacedFacts
    <3> QED BY <3>1, SentAtIsNear DEF IsSnapshot
  <2> QED BY <2>1, <2>2, Constants DEF Applied, IsSnapshot
<1>5. snap.tick = t /\ snap.state = x
  OBVIOUS
<1>6. Len(h) >= 1 /\ b.tick \in Nat /\ b.tick <= b.tick
  <2>1. Len(h) >= 1
    BY <1>2 DEF Aligned
  <2>2. b.tick \in Nat
    BY <1>2, HistoryFacts
  <2> HIDE DEF h, b
  <2> QED BY <2>1, <2>2
<1> HIDE DEF w, h, b, t, x, snap, d, done
<1>7. CASE done = P!Outcome("Stale", h, w)
  <2>1. done.kind = "Stale" /\ done.world = w /\ done.history = h
    BY <1>7 DEF P!Outcome
  <2>2. d.world = w /\ d.history = h /\ d.base = b
    BY <1>1, <2>1 DEF Noted
  <2> QED BY <1>2, <1>6, <2>2 DEF Sound, d, b
<1>8. ASSUME NEW pos \in 1 .. Len(h) - 1, h[pos].tick = t, WithinTolerance(h[pos].state, x),
             done = P!Confirmed(h, pos, w)
      PROVE  Sound(d) /\ b.tick <= d.base.tick
  <2>1. done.kind = "Confirmed" /\ done.world = w /\ done.history = SubSeq(h, pos + 1, Len(h))
    BY <1>8 DEF P!Confirmed, P!Outcome
  <2>2. d.world = w /\ d.history = SubSeq(h, pos + 1, Len(h)) /\ d.base = [b EXCEPT !.tick = t]
    BY <1>1, <2>1 DEF Noted
  <2>3. /\ Aligned(w, SubSeq(h, pos + 1, Len(h)), [b EXCEPT !.tick = t])
        /\ Followed(w, SubSeq(h, pos + 1, Len(h)), [b EXCEPT !.tick = t])
        /\ b.tick <= [b EXCEPT !.tick = t].tick
    BY <1>2, <1>3, <1>4, <1>8, ConfirmedSound
  <2> QED BY <2>2, <2>3 DEF Sound
<1>9. ASSUME NEW pos \in 1 .. Len(h) - 1, h[pos].tick = t, ~WithinTolerance(h[pos].state, x),
             done = P!Corrected(h, pos, snap)
      PROVE  Sound(d) /\ b.tick <= d.base.tick
  <2> DEFINE g == P!Rebuilt(h, pos, x)
             v == P!NewestState(g, x)
             a == [tick |-> t, corrected |-> t,
                   corrections |-> b.corrections \cup
                                     {[kind |-> "Corrected", from |-> b.corrected, to |-> t]}]
  <2>1. done.kind = "Corrected" /\ done.world = v /\ done.history = g
    BY <1>5, <1>9 DEF P!Corrected, P!Outcome
  <2>2. d.world = v /\ d.history = g /\ d.base = a
    BY <1>1, <2>1 DEF Noted
  <2>3. Aligned(v, g, a) /\ Followed(v, g, a) /\ b.tick <= a.tick
    BY <1>2, <1>3, <1>4, <1>9, CorrectedSound
  <2> HIDE DEF g, v, a
  <2> QED BY <2>2, <2>3 DEF Sound
<1>10. \/ done = P!Outcome("Stale", h, w)
       \/ \E pos \in 1 .. Len(h) - 1 :
            /\ h[pos].tick = t /\ WithinTolerance(h[pos].state, x)
            /\ done = P!Confirmed(h, pos, w)
       \/ \E pos \in 1 .. Len(h) - 1 :
            /\ h[pos].tick = t /\ ~WithinTolerance(h[pos].state, x)
            /\ done = P!Corrected(h, pos, snap)
  BY <1>2, <1>3, <1>5, <1>6, ReconcileFacts DEF done
<1> QED BY <1>7, <1>8, <1>9, <1>10 DEF d, b

LEMMA ReconciledSound ==
  ASSUME Paced, Ruled, played # <<>>, NEW c, Sound(c), NEW messages, Len(messages) \in Nat,
         \A k \in 1 .. Len(messages) : IsSnapshot(messages[k])
  PROVE  Sound(Reconciled(c, messages)) /\ c.base.tick <= Reconciled(c, messages).base.tick
<1> DEFINE n == Len(messages)
<1>1. PICK r : /\ Reconciled(c, messages) = r[n] /\ r[0] = c
               /\ \A k \in 1 .. n : r[k] = Taken(r[k - 1], messages[k])
  BY ReconciledSteps
<1> DEFINE S == {k \in Nat : k <= n => Sound(r[k]) /\ c.base.tick <= r[k].base.tick}
<1>2. 0 \in S
  <2>1. c.base.tick \in Nat
    BY HistoryFacts DEF Sound
  <2> QED BY <1>1, <2>1
<1>3. ASSUME NEW k \in Nat, k \in S PROVE k + 1 \in S
  <2> SUFFICES ASSUME k + 1 <= n PROVE Sound(r[k + 1]) /\ c.base.tick <= r[k + 1].base.tick
    OBVIOUS
  <2>1. k + 1 \in 1 .. n /\ k <= n /\ (k + 1) - 1 = k
    OBVIOUS
  <2>2. Sound(r[k]) /\ c.base.tick <= r[k].base.tick
    BY <1>3, <2>1
  <2>3. r[k + 1] = Taken(r[k], messages[k + 1]) /\ IsSnapshot(messages[k + 1])
    BY <1>1, <2>1
  <2> HIDE DEF S, n
  <2>4. Sound(r[k + 1]) /\ r[k].base.tick <= r[k + 1].base.tick
    BY <2>2, <2>3, TakenSound
  <2>5. c.base.tick \in Nat /\ r[k].base.tick \in Nat /\ r[k + 1].base.tick \in Nat
    BY <2>2, <2>4, HistoryFacts DEF Sound
  <2> QED BY <2>2, <2>4, <2>5
<1>4. n \in S
  <2> HIDE DEF S
  <2> QED BY <1>2, <1>3, Induct
<1> QED BY <1>1, <1>4

-----------------------------------------------------------------------------
(***************************************************************************)
(* The initial state.                                                      *)
(***************************************************************************)
LEMMA InitSound == Init => IInv
<1> SUFFICES ASSUME Init PROVE IInv
  OBVIOUS
<1> USE DEF Init
<1>1. Len(played) = 0 /\ Len(truth) = 0 /\ Len(applied) = 0 /\ played = <<>> /\ truth = <<>>
      /\ NoInput = 0 /\ 0 \in Inputs
  BY Constants DEF NoInput
<1>2. Paced
  BY DEF Paced
<1>3. Newest = Lead /\ Newest \in Nat
  BY <1>1, <1>2, PacedFacts
<1>4. \A k \in 1 .. Newest : OwnInputs[k] = 0
  <2>1. \A k \in 1 .. Newest : Own(k) = 0
    BY <1>1, <1>3 DEF Own
  <2> QED BY <1>2, <2>1, PacedFacts
<1>5. Frames[0] = 0 /\ SentAt(0) = 0
  BY <1>1 DEF Frames, SentAt
<1>6. Ruled
  <2>1. IsRun(Frames, Used, 0, 0)
    BY <1>5 DEF IsRun
  <2> QED BY <1>1, <1>5, <2>1 DEF Ruled
<1>7. Carried
  <2>1. IsFiniteSet({})
    BY FS_EmptySet
  <2> QED BY <2>1 DEF Carried, NoTraffic, InOrder, Ordered
<1>8. Remembered(client.recent)
  BY <1>1, Constants DEF Remembered
<1>9. Aligned(client.world, client.history, base)
  BY <1>1, <1>3 DEF Aligned, IsBase
<1>10. PICK f : f = [k \in 0 .. Newest |-> 0]
  OBVIOUS
<1>11. IsRun(f, OwnInputs, 0, Newest) /\ f[0] = 0 /\ f[Newest] = 0
  <2>1. Simulated(0, 0) = 0
    BY Constants DEF Simulated, Clamped
  <2>2. \A k \in 0 .. Newest : f[k] = 0
    BY <1>10
  <2>3. \A k \in 1 .. Newest : k - 1 \in 0 .. Newest /\ k \in 0 .. Newest
    BY <1>3
  <2>4. 0 \in 0 .. Newest /\ Newest \in 0 .. Newest /\ 0 + 1 = 1
    BY <1>3
  <2> QED BY <1>4, <2>1, <2>2, <2>3, <2>4 DEF IsRun
<1>12. Followed(client.world, client.history, base)
  <2>1. Exact(client.world, client.history, base)
    BY <1>5, <1>11 DEF Exact
  <2>2. Near(client.world, base)
    BY <1>5, <1>11, Constants DEF Near, Distance
  <2>3. Caused(base)
    BY DEF Caused
  <2> QED BY <2>1, <2>2, <2>3 DEF Followed
<1>13. lost \in 0 .. scenario.burst
  BY <1>2, ScenarioFacts DEF Paced
<1>14. Supplied /\ Heard
  BY <1>1 DEF Supplied, Heard
<1>15. Shaped
  BY DEF Shaped
<1> QED BY <1>2, <1>6, <1>7, <1>8, <1>9, <1>12, <1>13, <1>14, <1>15 DEF IInv

-----------------------------------------------------------------------------
(***************************************************************************)
(* The client predicts.                                                    *)
(***************************************************************************)
Plays(input) == played' = Append(played, input) /\ scenario' = scenario

Said(input) == [tick |-> Newest + 1, input |-> input]

LEMMA OwnExtends ==
  ASSUME Paced, NEW input \in Inputs, Plays(input)
  PROVE  /\ Lead' = Lead /\ Newest' = Newest + 1 /\ Len(played') = Len(played) + 1
         /\ \A k \in Nat : k <= Newest => Own(k)' = Own(k)
         /\ \A k \in Nat : k = Newest + 1 => Own(k)' = input
         /\ \A k \in 1 .. Newest : OwnInputs'[k] = OwnInputs[k]
         /\ OwnInputs'[Newest + 1] = input /\ input \in Int
<1>0. Lead \in Nat \ {0} /\ Newest \in Nat /\ Len(played) \in Nat /\ Newest = Len(played) + Lead
  BY PacedFacts
<1>1. Lead' = Lead
  BY DEF Plays, Lead
<1>2. Len(played') = Len(played) + 1 /\ played'[Len(played) + 1] = input
      /\ \A k \in 1 .. Len(played) : played'[k] = played[k]
  BY DEF Plays, Paced
<1>3. Newest' = Newest + 1
  BY <1>0, <1>1, <1>2 DEF Newest
<1>4. ASSUME NEW k \in Nat, k <= Newest PROVE Own(k)' = Own(k)
  <2>1. CASE k <= Lead
    BY <1>1, <2>1 DEF Own
  <2>2. CASE ~(k <= Lead)
    <3>1. k - Lead \in 1 .. Len(played)
      BY <1>0, <1>4, <2>2
    <3> QED BY <1>1, <1>2, <2>2, <3>1 DEF Own
  <2> QED BY <2>1, <2>2
<1>5. ASSUME NEW k \in Nat, k = Newest + 1 PROVE Own(k)' = input
  <2>1. ~(k <= Lead) /\ k - Lead = Len(played) + 1
    BY <1>0, <1>5
  <2>2. ~(k <= Lead') /\ k - Lead' = Len(played) + 1
    BY <1>1, <2>1
  <2>3. played'[k - Lead'] = input
    BY <1>2, <2>2
  <2> QED BY <2>2, <2>3 DEF Own
<1>6. OwnInputs' = [k \in 1 .. Newest' |-> Own(k)']
  BY DEF OwnInputs
<1>7. \A k \in 1 .. Newest : k \in 1 .. Newest' /\ OwnInputs'[k] = Own(k)' /\ OwnInputs[k] = Own(k)
  BY <1>0, <1>3, <1>6 DEF OwnInputs
<1>8. OwnInputs'[Newest + 1] = input
  <2>1. PICK k \in Nat : k = Newest + 1
    BY <1>0
  <2>2. k \in 1 .. Newest'
    BY <1>0, <1>3, <2>1
  <2>3. OwnInputs'[k] = Own(k)'
    BY <1>6, <2>2
  <2>4. Own(k)' = input
    BY <1>5, <2>1
  <2> QED BY <2>1, <2>3, <2>4
<1> QED BY <1>0, <1>1, <1>2, <1>3, <1>4, <1>5, <1>7, <1>8, Constants

(* A history is the one before it with one entry more, and some of the     *)
(* oldest less.                                                            *)
Recorded(g, h, t, input, x) ==
  /\ g \in Seq(Predicted) /\ Len(g) \in 1 .. Len(h) + 1
  /\ g[Len(g)].tick = t /\ g[Len(g)].input = input /\ g[Len(g)].state = x
  /\ \A k \in 1 .. Len(g) - 1 :
       /\ (Len(h) - (Len(g) - 1)) + k \in 1 .. Len(h)
       /\ g[k] = h[(Len(h) - (Len(g) - 1)) + k]

LEMMA RecordFacts ==
  ASSUME NEW h \in Seq(Predicted), NEW t \in Nat, NEW input \in Int, NEW x \in Int,
         NEW g, g = P!Record(h, t, input, x)
  PROVE  Recorded(g, h, t, input, x)
<1> DEFINE e == [tick |-> t, input |-> input, state |-> x]
           kept == IF Len(h) = MaxHistory THEN Tail(h) ELSE h
           n == Len(h)
           m == Len(kept)
<1>0. n \in Nat
  OBVIOUS
<1>1. e \in Predicted /\ e.tick = t /\ e.input = input /\ e.state = x
  BY DEF Predicted
<1>2. g = Append(kept, e)
  BY DEF P!Record
<1> HIDE DEF e
<1>3. /\ kept \in Seq(Predicted) /\ m \in 0 .. n
      /\ \A k \in 1 .. m : (n - m) + k \in 1 .. n /\ kept[k] = h[(n - m) + k]
  <2>1. CASE n = MaxHistory
    <3>1. n >= 1 /\ h # <<>>
      BY <2>1, Constants
    <3>2. kept = Tail(h)
      BY <2>1
    <3> HIDE DEF kept
    <3>3. kept \in Seq(Predicted) /\ m = n - 1 /\ \A k \in 1 .. m : kept[k] = h[k + 1]
      BY <3>1, <3>2
    <3>4. \A k \in 1 .. m : (n - m) + k = k + 1 /\ k + 1 \in 1 .. n
      BY <3>1, <3>3
    <3> HIDE DEF n, m
    <3> QED BY <1>0, <3>1, <3>3, <3>4
  <2>2. CASE n # MaxHistory
    <3>1. kept = h
      BY <2>2
    <3> HIDE DEF kept
    <3>2. kept \in Seq(Predicted) /\ m = n /\ \A k \in 1 .. m : kept[k] = h[k]
      BY <3>1
    <3>3. \A k \in 1 .. m : (n - m) + k = k /\ k \in 1 .. n
      BY <1>0, <3>2
    <3> HIDE DEF n, m
    <3> QED BY <1>0, <3>2, <3>3
  <2> QED BY <2>1, <2>2
<1> HIDE DEF kept
<1>4. g \in Seq(Predicted) /\ Len(g) = m + 1 /\ g[m + 1] = e /\ \A k \in 1 .. m : g[k] = kept[k]
  BY <1>1, <1>2, <1>3
<1> HIDE DEF m
<1>5. Len(g) - 1 = m /\ m \in Nat
  BY <1>3, <1>4
<1> QED BY <1>0, <1>1, <1>3, <1>4, <1>5 DEF Recorded

LEMMA PredictedWorld ==
  ASSUME Paced, NEW w, NEW h, NEW b, Aligned(w, h, b), Followed(w, h, b), NEW input \in Inputs,
         Plays(input), UNCHANGED <<truth, applied>>,
         NEW v, v = Simulated(w, input), NEW g, g = P!Record(h, Newest + 1, input, v)
  PROVE  Aligned(v, g, b)' /\ Followed(v, g, b)'
<1>1. /\ Lead' = Lead /\ Newest' = Newest + 1 /\ Len(played') = Len(played) + 1
      /\ \A k \in Nat : k <= Newest => Own(k)' = Own(k)
      /\ \A k \in Nat : k = Newest + 1 => Own(k)' = input
      /\ \A k \in 1 .. Newest : OwnInputs'[k] = OwnInputs[k]
      /\ OwnInputs'[Newest + 1] = input /\ input \in Int
  BY OwnExtends
<1>2. /\ Newest \in Nat /\ Len(truth) \in Nat /\ Len(truth) < Newest /\ Len(played) \in Nat
  BY PacedFacts
<1> DEFINE n == Len(h)
           m == Len(g) - 1
           off == Before1(h)
<1>3. /\ n \in Nat /\ b.tick \in Nat /\ b.corrected \in Nat /\ b.corrected <= b.tick
      /\ Newest = off + n /\ off \in Nat /\ b.tick <= off
  BY HistoryFacts
<1>4. w \in Int /\ h \in Seq(Predicted) /\ IsBase(b)
  BY DEF Aligned
<1>5. v \in Int
  BY <1>1, <1>4, SimulatedType
<1>6. /\ g \in Seq(Predicted) /\ Len(g) \in 1 .. n + 1
      /\ g[Len(g)].tick = Newest + 1 /\ g[Len(g)].input = input /\ g[Len(g)].state = v
      /\ \A k \in 1 .. m : (n - m) + k \in 1 .. n /\ g[k] = h[(n - m) + k]
  <2>1. Newest + 1 \in Nat
    BY <1>2
  <2>2. input \in Int
    BY <1>1
  <2>3. Recorded(g, h, Newest + 1, input, v)
    BY <1>4, <1>5, <2>1, <2>2, RecordFacts
  <2> QED BY <2>3 DEF Recorded
<1>7. n \in Nat /\ m \in 0 .. n /\ Len(g) = m + 1
  BY <1>3, <1>6
<1> HIDE DEF n, m, off
<1>8. ASSUME NEW k \in 1 .. m
      PROVE  /\ g[k].tick = (Newest - m) + k /\ (Newest - m) + k \in 1 .. Newest
             /\ g[k].input = Own((Newest - m) + k) /\ g[k] = h[(n - m) + k]
             /\ (n - m) + k \in 1 .. n
  <2>1. (n - m) + k \in 1 .. n /\ (n - m) + k \in 1 .. Len(h) /\ g[k] = h[(n - m) + k]
    BY <1>6 DEF n
  <2>2. /\ h[(n - m) + k].tick = off + ((n - m) + k)
        /\ h[(n - m) + k].input = Own(off + ((n - m) + k))
        /\ off + ((n - m) + k) \in 1 .. Newest
    BY <2>1, EntryFacts DEF off
  <2>3. off + ((n - m) + k) = (Newest - m) + k
    BY <1>3, <1>7
  <2> QED BY <2>1, <2>2, <2>3
<1>9. Aligned(v, g, b)'
  <2>1. IsBase(b)'
    BY <1>4 DEF IsBase
  <2>2. Len(g) + b.tick <= Newest'
    BY <1>1, <1>3, <1>7
  <2>3. ASSUME NEW k \in 1 .. Len(g)
        PROVE  g[k].tick = (Newest' - Len(g)) + k /\ g[k].input = Own(g[k].tick)'
    <3>1. CASE k = Len(g)
      <4>1. g[k].tick = Newest + 1 /\ Newest + 1 \in Nat
        BY <1>2, <1>6, <3>1
      <4>2. PICK j \in Nat : j = Newest + 1
        BY <1>2
      <4>3. Own(j)' = input /\ g[k].tick = j
        BY <1>1, <4>1, <4>2
      <4>4. (Newest' - Len(g)) + k = Newest + 1
        BY <1>1, <1>2, <1>7, <3>1
      <4> QED BY <1>6, <3>1, <4>1, <4>3, <4>4
    <3>2. CASE k # Len(g)
      <4>1. k \in 1 .. m
        BY <1>7, <3>2
      <4>2. PICK j \in Nat : j = (Newest - m) + k /\ j <= Newest
        BY <1>8, <4>1
      <4>3. Own(j)' = Own(j)
        BY <1>1, <4>2
      <4>4. g[k].tick = j /\ g[k].input = Own(j)
        BY <1>8, <4>1, <4>2
      <4>5. (Newest' - Len(g)) + k = (Newest - m) + k
        BY <1>1, <1>2, <1>7
      <4> QED BY <4>2, <4>3, <4>4, <4>5
    <3> QED BY <3>1, <3>2
  <2>4. Len(g) >= 1
    BY <1>6
  <2> QED BY <1>5, <1>6, <2>1, <2>2, <2>3, <2>4 DEF Aligned
<1>10. SentAt(b.corrected)' = SentAt(b.corrected) /\ SentAt(b.tick)' = SentAt(b.tick)
  BY DEF SentAt
<1>11. ASSUME NEW lo \in Nat, lo <= Newest, NEW f, IsRun(f, OwnInputs, lo, Newest)
       PROVE  \E p : /\ p[Newest + 1] = Simulated(f[Newest], input)
                     /\ \A k \in lo .. Newest : p[k] = f[k]
                     /\ IsRun(p, OwnInputs', lo, Newest')
  <2>1. \A k \in lo + 1 .. Newest : OwnInputs'[k] = OwnInputs[k]
    <3>1. \A k \in lo + 1 .. Newest : k \in 1 .. Newest
      BY <1>2
    <3> QED BY <1>1, <3>1
  <2>2. OwnInputs'[Newest + 1] \in Int
    BY <1>1
  <2>3. \E p : /\ p[Newest + 1] = Simulated(f[Newest], OwnInputs'[Newest + 1])
               /\ \A k \in lo .. Newest : p[k] = f[k]
               /\ IsRun(p, OwnInputs', lo, Newest + 1)
    BY <1>2, <1>11, <2>1, <2>2, RunExtends
  <2> QED BY <1>1, <2>3
<1>12. ASSUME WholeSnapshots PROVE Exact(v, g, b)' /\ Near(v, b)' /\ Caused(b)'
  <2>0. Exact(w, h, b) /\ Near(w, b) /\ Caused(b)
    BY <1>12 DEF Followed
  <2>1. Exact(v, g, b)'
    <3>1. PICK f : /\ IsRun(f, OwnInputs, b.corrected, Newest)
                   /\ f[b.corrected] = SentAt(b.corrected)
                   /\ w = f[Newest]
                   /\ \A k \in 1 .. Len(h) : h[k].state = f[h[k].tick]
      BY <2>0 DEF Exact
    <3>2. b.corrected \in Nat /\ b.corrected <= Newest
      BY <1>3
    <3>3. PICK p : /\ p[Newest + 1] = Simulated(f[Newest], input)
                   /\ \A k \in b.corrected .. Newest : p[k] = f[k]
                   /\ IsRun(p, OwnInputs', b.corrected, Newest')
      BY <1>11, <3>1, <3>2
    <3>4. p[b.corrected] = SentAt(b.corrected) /\ v = p[Newest']
      <4>1. b.corrected \in b.corrected .. Newest
        BY <1>2, <3>2
      <4> QED BY <1>1, <3>1, <3>3, <4>1
    <3>5. ASSUME NEW k \in 1 .. Len(g) PROVE g[k].state = p[g[k].tick]
      <4>1. CASE k = Len(g)
        BY <1>6, <3>1, <3>3, <4>1
      <4>2. CASE k # Len(g)
        <5>1. k \in 1 .. m
          BY <1>7, <4>2
        <5> DEFINE j == (n - m) + k
        <5>2. j \in 1 .. n /\ j \in 1 .. Len(h) /\ g[k] = h[j]
          BY <1>8, <5>1 DEF n
        <5> HIDE DEF j
        <5>3. h[j].tick = off + j
          BY <5>2, EntryFacts DEF off
        <5>4. off + j \in b.corrected .. Newest
          <6>1. j \in Int /\ 1 <= j /\ j <= n
            BY <1>7, <5>2
          <6>2. b.corrected <= off + j /\ off + j <= Newest /\ off + j \in Int
            BY <1>3, <6>1
          <6> QED BY <1>2, <1>3, <6>2
        <5> QED BY <3>1, <3>3, <5>2, <5>3, <5>4
      <4> QED BY <4>1, <4>2
    <3> QED BY <1>10, <3>3, <3>4, <3>5 DEF Exact
  <2>2. Near(v, b)'
    <3>1. PICK f : /\ IsRun(f, OwnInputs, b.tick, Newest) /\ f[b.tick] = SentAt(b.tick)
                   /\ Distance(w, f[Newest]) <= Tolerance
      BY <2>0 DEF Near
    <3>2. b.tick \in Nat /\ b.tick <= Newest
      BY <1>3
    <3>3. PICK p : /\ p[Newest + 1] = Simulated(f[Newest], input)
                   /\ \A k \in b.tick .. Newest : p[k] = f[k]
                   /\ IsRun(p, OwnInputs', b.tick, Newest')
      BY <1>11, <3>1, <3>2
    <3>4. b.tick \in b.tick .. Newest /\ Newest \in b.tick .. Newest
      BY <1>2, <3>2
    <3>5. f[Newest] \in Int
      BY <3>1, <3>4 DEF IsRun
    <3>6. Distance(v, p[Newest']) <= Tolerance
      <4>1. Tolerance \in Int
        BY Constants
      <4>2. Distance(Simulated(w, input), Simulated(f[Newest], input)) <= Tolerance
        BY <1>1, <1>4, <3>1, <3>5, <4>1, SimulatedIsNonexpansive
      <4> QED BY <1>1, <3>3, <4>2
    <3>7. p[b.tick] = SentAt(b.tick)
      BY <3>1, <3>3, <3>4
    <3> QED BY <1>10, <3>3, <3>6, <3>7 DEF Near
  <2>3. Caused(b)'
    <3> SUFFICES ASSUME NEW c \in b.corrections
                 PROVE  /\ c.from \in Nat /\ c.to \in 0 .. Len(truth')
                        /\ c.kind = "Corrected"
                        /\ \E t \in c.from + 1 .. c.to : applied'[t].input # Own(t)'
      BY DEF Caused
    <3>1. /\ c.from \in Nat /\ c.to \in 0 .. Len(truth)
          /\ c.kind = "Corrected"
          /\ \E t \in c.from + 1 .. c.to : applied[t].input # Own(t)
      BY <2>0 DEF Caused
    <3>2. PICK t \in c.from + 1 .. c.to : applied[t].input # Own(t)
      BY <3>1
    <3>3. t \in Nat /\ t <= Newest
      <4>1. c.from \in Nat /\ c.to \in Int /\ c.to <= Len(truth)
        BY <1>2, <3>1
      <4>2. t \in Nat /\ t <= c.to
        BY <4>1
      <4>3. t <= Len(truth) /\ Len(truth) < Newest
        BY <1>2, <4>1, <4>2
      <4> QED BY <1>2, <4>2, <4>3
    <3>4. applied'[t].input # Own(t)'
      BY <1>1, <3>2, <3>3
    <3> QED BY <3>1, <3>4
  <2> QED BY <2>1, <2>2, <2>3
<1>13. Followed(v, g, b)'
  BY <1>12 DEF Followed, WholeSnapshots, Plays
<1> QED BY <1>9, <1>13

LEMMA OwnStays ==
  ASSUME Paced, NEW input \in Inputs, Plays(input)
  PROVE  \A m : IsOwn(m) => IsOwn(m)'
<1> SUFFICES ASSUME NEW m, IsOwn(m) PROVE IsOwn(m)'
  OBVIOUS
<1>1. Lead \in Nat \ {0} /\ Newest \in Nat
  BY PacedFacts
<1>2. Lead' = Lead /\ Newest' = Newest + 1 /\ \A k \in Nat : k <= Newest => Own(k)' = Own(k)
  BY OwnExtends
<1>3. m.tick \in Lead + 1 .. Newest /\ m.input \in Inputs /\ m.input = Own(m.tick)
  BY DEF IsOwn
<1>4. PICK k \in Nat : k = m.tick /\ k <= Newest /\ k \in Lead + 1 .. Newest + 1
  BY <1>1, <1>3
<1>5. Own(k)' = Own(k)
  BY <1>2, <1>4
<1> QED BY <1>2, <1>3, <1>4, <1>5 DEF IsOwn

(* A window is the one before it with one entry more, or one instead of    *)
(* the oldest.                                                             *)
Slides(g, recent, e) ==
  /\ g \in Seq([tick : Nat, input : Inputs])
  /\ Len(g) = (IF Len(recent) = Redundancy THEN Redundancy ELSE Len(recent) + 1)
  /\ g[Len(g)] = e
  /\ \A k \in 1 .. Len(g) - 1 :
       /\ (Len(recent) - (Len(g) - 1)) + k \in 1 .. Len(recent)
       /\ g[k] = recent[(Len(recent) - (Len(g) - 1)) + k]

LEMMA WindowFacts ==
  ASSUME NEW recent \in Seq([tick : Nat, input : Inputs]), Len(recent) <= Redundancy,
         NEW e \in [tick : Nat, input : Inputs], NEW g, g = Window(recent, e)
  PROVE  Slides(g, recent, e)
<1> DEFINE all == Append(recent, e)
           n == Len(recent)
<1>0. n \in Nat /\ Redundancy \in Nat \ {0} /\ n <= Redundancy
  BY Constants
<1>1. /\ all \in Seq([tick : Nat, input : Inputs]) /\ Len(all) = n + 1 /\ all[n + 1] = e
      /\ \A k \in 1 .. n : all[k] = recent[k]
  OBVIOUS
<1>2. g = IF Len(all) > Redundancy THEN Tail(all) ELSE all
  BY DEF Window
<1> HIDE DEF all
<1>3. CASE n = Redundancy
  <2>1. g = Tail(all) /\ all # <<>>
    BY <1>0, <1>1, <1>2, <1>3
  <2>2. /\ g \in Seq([tick : Nat, input : Inputs]) /\ Len(g) = n
        /\ \A k \in 1 .. n : g[k] = all[k + 1]
    BY <1>0, <1>1, <2>1
  <2> HIDE DEF n
  <2>3. g[n] = e
    BY <1>0, <1>1, <1>3, <2>2
  <2>4. ASSUME NEW k \in 1 .. n - 1 PROVE (n - (n - 1)) + k \in 1 .. n /\ g[k] = recent[(n - (n - 1)) + k]
    <3>1. (n - (n - 1)) + k = k + 1 /\ k + 1 \in 1 .. n /\ k \in 1 .. n
      BY <1>0
    <3> QED BY <1>1, <2>2, <3>1
  <2> QED BY <1>3, <2>2, <2>3, <2>4 DEF n, Slides
<1>4. CASE n # Redundancy
  <2>1. g = all
    BY <1>0, <1>1, <1>2, <1>4
  <2> HIDE DEF n
  <2>2. Len(g) = n + 1 /\ g[n + 1] = e /\ \A k \in 1 .. n : g[k] = recent[k]
    BY <1>1, <2>1
  <2>3. ASSUME NEW k \in 1 .. Len(g) - 1
        PROVE  (n - (Len(g) - 1)) + k \in 1 .. n /\ g[k] = recent[(n - (Len(g) - 1)) + k]
    <3>1. (n - (Len(g) - 1)) + k = k /\ k \in 1 .. n
      BY <1>0, <2>2
    <3> QED BY <2>2, <3>1
  <2> QED BY <1>1, <1>4, <2>1, <2>2, <2>3 DEF n, Slides
<1> QED BY <1>3, <1>4

LEMMA WindowRemembered ==
  ASSUME Paced, NEW recent, Remembered(recent), NEW input \in Inputs,
         Plays(input), NEW g, g = Window(recent, Said(input))
  PROVE  Remembered(g)' /\ IsWindow(g)'
<1> DEFINE e == Said(input)
           n == Len(recent)
           m == Len(g) - 1
<1>1. /\ Lead \in Nat \ {0} /\ Newest \in Nat /\ Len(played) \in Nat
      /\ Newest = Len(played) + Lead /\ Lead' = Lead
      /\ Newest' = Newest + 1 /\ Len(played') = Len(played) + 1
      /\ \A k \in Nat : k = Newest + 1 => Own(k)' = input
  BY PacedFacts, OwnExtends
<1>2. /\ recent \in Seq([tick : Nat, input : Inputs])
      /\ n \in Nat /\ n <= Len(played) /\ n <= Redundancy /\ n \in {Len(played), Redundancy}
      /\ \A i \in 1 .. n : recent[i].tick = (Newest - n) + i /\ IsOwn(recent[i])
  BY DEF Remembered
<1>3. e \in [tick : Nat, input : Inputs] /\ e.tick = Newest + 1 /\ e.input = input
  BY <1>1 DEF Said
<1>4. /\ g \in Seq([tick : Nat, input : Inputs])
      /\ Len(g) = (IF n = Redundancy THEN Redundancy ELSE n + 1)
      /\ g[Len(g)] = e
      /\ \A k \in 1 .. m : (n - m) + k \in 1 .. n /\ g[k] = recent[(n - m) + k]
  <2>1. g = Window(recent, e)
    OBVIOUS
  <2>2. recent \in Seq([tick : Nat, input : Inputs]) /\ Len(recent) <= Redundancy
    BY <1>2
  <2>3. e \in [tick : Nat, input : Inputs]
    BY <1>3
  <2> HIDE DEF e, n, m
  <2>4. Slides(g, recent, e)
    BY <2>1, <2>2, <2>3, WindowFacts
  <2> QED BY <2>4 DEF n, m, Slides
<1> HIDE DEF e, n, m
<1>5. Len(g) = m + 1 /\ m \in Nat /\ Redundancy \in Nat \ {0} /\ DOMAIN g = 1 .. Len(g)
  BY <1>2, <1>4, Constants DEF m
<1>6. Len(g) <= Len(played') /\ Len(g) <= Redundancy /\ Len(g) \in {Len(played'), Redundancy}
  BY <1>1, <1>2, <1>4, <1>5
<1>7. ASSUME NEW i \in 1 .. Len(g)
      PROVE  g[i].tick = (Newest' - Len(g)) + i /\ IsOwn(g[i])'
  <2>a. Newest \in Nat /\ Newest' = Newest + 1 /\ m \in Nat /\ Len(g) = m + 1
    BY <1>1, <1>5
  <2>b. i \in Int
    BY <2>a
  <2>0. i \in Int /\ (Newest' - Len(g)) + i = (Newest - m) + i
    BY <2>a, <2>b
  <2>1. CASE i = Len(g)
    <3>1. (Newest' - Len(g)) + i = Newest + 1
      <4>1. i = m + 1
        BY <2>a, <2>1
      <4> QED BY <2>a, <4>1
    <3>2. PICK k \in Nat : k = Newest + 1
      BY <1>1
    <3>3. g[i].tick = k /\ g[i].input = input
      BY <1>3, <1>4, <2>1, <3>2
    <3>4. Own(k)' = input /\ k \in Lead' + 1 .. Newest'
      BY <1>1, <3>2
    <3> QED BY <3>1, <3>2, <3>3, <3>4 DEF IsOwn
  <2>2. CASE i # Len(g)
    <3>1. i \in 1 .. m
      BY <1>5, <2>2
    <3>2. (n - m) + i \in 1 .. n /\ g[i] = recent[(n - m) + i]
      BY <1>4, <3>1
    <3>3. g[i].tick = (Newest - n) + ((n - m) + i) /\ IsOwn(g[i])
      BY <1>2, <3>2
    <3>4. (Newest - n) + ((n - m) + i) = (Newest' - Len(g)) + i
      <4>1. (Newest - n) + ((n - m) + i) = (Newest - m) + i
        BY <1>1, <1>2, <1>5, <2>0, SMTT(30)
      <4> QED BY <2>0, <4>1
    <3>5. IsOwn(g[i])'
      <4>1. PICK x : x = g[i]
        OBVIOUS
      <4> QED BY <3>3, <4>1, OwnStays
    <3> QED BY <3>3, <3>4, <3>5
  <2> QED BY <2>1, <2>2
<1>8. Remembered(g)'
  BY <1>4, <1>6, <1>7 DEF Remembered
<1> QED BY <1>5, <1>7, <1>8 DEF IsWindow

(* What the client repeats in time comes in time.                          *)
LEMMA BearableFacts ==
  ASSUME scenario \in Scenarios, Bearable
  PROVE  /\ scenario.burst \in Nat /\ scenario.burst < Redundancy /\ scenario.burst <= Lead
         /\ \A u, s \in Nat, d \in Delays(scenario.link) :
              u <= s + scenario.burst => u * TickTime + d <= (s + Lead) * TickTime
<1> DEFINE top == CHOOSE d \in Delays(scenario.link) : \A e \in Delays(scenario.link) : e <= d
           c == CeilDiv(top, TickTime)
           b == scenario.burst
           tt == TickTime
<1>1. top \in Nat /\ \A e \in Delays(scenario.link) : e \in Nat /\ e <= top
  BY DelayFacts
<1> HIDE DEF top
<1>2. c \in Nat /\ top <= c * tt
  BY <1>1, Constants, CeilDivFacts
<1>3. b \in Nat /\ b < Redundancy /\ b <= Slack
  BY ScenarioFacts DEF Bearable
<1>4. Slack = Lead - c
  BY DEF Slack, top
<1>5. Lead \in Nat /\ tt \in Nat
  BY LeadFacts, Constants
<1> HIDE DEF c, b, tt
<1>6. b <= Lead /\ b + c <= Lead
  BY <1>2, <1>3, <1>4, <1>5
<1>7. ASSUME NEW u \in Nat, NEW s \in Nat, NEW d \in Delays(scenario.link), u <= s + b
      PROVE  u * tt + d <= (s + Lead) * tt
  <2>1. u + c \in Nat /\ s + Lead \in Nat /\ u + c <= s + Lead
    BY <1>2, <1>3, <1>5, <1>6, <1>7
  <2>2. (u + c) * tt <= (s + Lead) * tt /\ (u + c) * tt \in Int /\ (s + Lead) * tt \in Int
    BY <1>5, <2>1, TimesMonotone
  <2>3. (u + c) * tt = u * tt + c * tt
    BY <1>2, <1>5
  <2>4. u * tt \in Int /\ c * tt \in Int
    BY <1>2, <1>5
  <2>5. d \in Nat /\ d <= top
    BY <1>1
  <2> DEFINE p == u * tt
             q == c * tt
             r == (s + Lead) * tt
  <2>6. p \in Int /\ q \in Int /\ r \in Int /\ p + q <= r /\ top <= q
    BY <1>2, <2>2, <2>3, <2>4
  <2> HIDE DEF p, q, r
  <2>7. p + d <= r
    BY <1>1, <2>5, <2>6
  <2> QED BY <2>7 DEF p, r
<1> QED BY <1>3, <1>6, <1>7 DEF b, tt

LEMMA PredictSound ==
  ASSUME IInv, ClientPredicts
  PROVE  IInv' /\ base' = base
<1>1. /\ Paced /\ Ruled /\ Carried /\ Remembered(client.recent)
      /\ Aligned(client.world, client.history, base)
      /\ Followed(client.world, client.history, base)
      /\ lost \in 0 .. scenario.burst /\ (Bearable => Supplied /\ Heard)
  BY DEF IInv
<1>2. /\ Lead \in Nat \ {0} /\ Newest \in Nat /\ Len(played) \in Nat
      /\ Newest = Len(played) + Lead /\ Len(truth) \in Nat /\ Len(truth) < Newest
  BY <1>1, PacedFacts
<1>3. /\ turn = "predict" /\ turn' = "simulate"
      /\ UNCHANGED <<scenario, tick, server, truth, applied, base>>
  BY DEF ClientPredicts
<1>4. tick \in Nat \ {0} /\ Len(played) = tick - 1 /\ ClientTick = Newest + 1
      /\ scenario \in Scenarios
  BY <1>1, <1>2, <1>3 DEF Paced, ClientTick
<1>5. PICK input \in Inputs, fate \in Fates(scenario.link) :
        /\ client' = [world |-> Simulated(client.world, input),
                      recent |-> Window(client.recent, Said(input)),
                      history |-> P!Record(client.history, Newest + 1, input,
                                           Simulated(client.world, input))]
        /\ played' = Append(played, input)
        /\ fate = <<>> => lost < scenario.burst
        /\ lost' = IF fate = <<>> THEN lost + 1 ELSE 0
        /\ network' = Enqueue(network, "server", Window(client.recent, Said(input)), Now, fate)
  BY <1>4 DEF ClientPredicts, Said
<1>6. PICK v, g, r, b :
        /\ v = Simulated(client.world, input) /\ r = Window(client.recent, Said(input))
        /\ g = P!Record(client.history, Newest + 1, input, v) /\ b = base
        /\ client'.world = v /\ client'.history = g /\ client'.recent = r /\ base' = b
  BY <1>3, <1>5
<1>7. Plays(input)
  BY <1>3, <1>5 DEF Plays
<1>8. /\ Lead' = Lead /\ Newest' = Newest + 1 /\ Len(played') = Len(played) + 1
      /\ \A k \in Nat : k <= Newest => Own(k)' = Own(k)
  BY <1>1, <1>7, OwnExtends
<1>9. \A m : IsOwn(m) => IsOwn(m)'
  BY <1>1, <1>7, OwnStays
<1>10. Paced'
  <2>1. played' \in Seq(Inputs)
    BY <1>1, <1>5 DEF Paced
  <2>2. Len(played') = tick'
    BY <1>3, <1>4, <1>8
  <2>3. Len(truth') = tick' - 1 /\ Len(applied') = Len(truth')
    BY <1>1, <1>3, <1>4 DEF Paced
  <2>4. truth' \in Seq(Int) /\ applied' \in Seq([input : Inputs, starved : BOOLEAN])
    BY <1>1, <1>3 DEF Paced
  <2> QED BY <1>3, <1>4, <2>1, <2>2, <2>3, <2>4 DEF Paced
<1>11. Ruled'
  <2>1. Frames' = Frames /\ Used' = Used
    BY <1>3 DEF Frames, Used
  <2>2. \A m \in server'.pending : IsOwn(m)'
    BY <1>1, <1>3, <1>9 DEF Ruled
  <2> QED BY <1>1, <1>3, <1>8, <2>1, <2>2 DEF Ruled
<1>12. Remembered(client.recent)' /\ IsWindow(r)'
  <2>1. Remembered(r)' /\ IsWindow(r)'
    BY <1>1, <1>6, <1>7, WindowRemembered
  <2> QED BY <1>6, <2>1
<1>13. Aligned(client.world, client.history, base)' /\ Followed(client.world, client.history, base)'
  <2>1. Aligned(v, g, b)' /\ Followed(v, g, b)'
    BY <1>1, <1>3, <1>6, <1>7, PredictedWorld
  <2> QED BY <1>6, <2>1
<1>14. /\ InOrder(network') /\ network.queue \subseteq network'.queue
       /\ \A f \in network'.queue : f \in network.queue \/ Posted(f, "server", r, Now)
       /\ fate # <<>> => \E f \in network'.queue : Posted(f, "server", r, Now)
       /\ Now = tick * TickTime /\ Now \in Int
  <2>1. Now = tick * TickTime /\ Now \in Int
    BY <1>4, Constants DEF Now
  <2>2. InOrder(network) /\ network' = Enqueue(network, "server", r, Now, fate)
    BY <1>1, <1>5, <1>6 DEF Carried
  <2>3. scenario \in Scenarios /\ Now \in Int
    BY <1>4, <2>1
  <2>4. PICK after : after = network' /\ after = Enqueue(network, "server", r, Now, fate)
    BY <2>2
  <2>5. Joined(network, after, "server", r, Now, fate)
    BY <2>2, <2>3, <2>4, EnqueueFacts
  <2> QED BY <2>1, <2>4, <2>5 DEF Joined
<1>15. Carried'
  <2>1. network' = [queue |-> network'.queue, next_seq |-> network'.next_seq]
    BY <1>5 DEF Enqueue
  <2>2. ASSUME NEW f \in network'.queue, f.to = "client" PROVE IsSnapshot(f.data)'
    <3>1. f \in network.queue
      BY <1>14, <2>2 DEF Posted
    <3>2. IsSnapshot(f.data)
      BY <1>1, <2>2, <3>1 DEF Carried
    <3> QED BY <1>3, <3>2 DEF IsSnapshot, WholeSnapshots, SentAt
  <2>3. ASSUME NEW f \in network'.queue, f.to = "server" PROVE IsWindow(f.data)'
    <3>1. CASE f \in network.queue
      BY <1>1, <1>9, <2>3, <3>1 DEF Carried, IsWindow
    <3>2. CASE Posted(f, "server", r, Now)
      BY <1>12, <3>2 DEF Posted
    <3> QED BY <1>14, <3>1, <3>2
  <2> QED BY <1>14, <2>1, <2>2, <2>3 DEF Carried
<1>16. lost' \in 0 .. scenario'.burst
  <2>1. scenario.burst \in Nat
    BY <1>4, ScenarioFacts
  <2> QED BY <1>1, <1>3, <1>5, <2>1
<1>17. Bearable' = Bearable
  BY <1>3 DEF Bearable, Slack, Lead
<1>18. ASSUME Bearable PROVE Heard'
  <2>1. Heard
    BY <1>1, <1>18
  <2>2. \A t \in 1 .. Len(applied) : t \in Nat /\ t <= Newest
    BY <1>1, <1>2 DEF Paced
  <2> QED BY <1>3, <1>8, <2>1, <2>2 DEF Heard
<1>19. ASSUME Bearable, NEW s \in 1 .. Len(played'), s + Lead' > Len(applied')
       PROVE  IsSupplied(s + Lead, Len(played) - s)'
  <2> DEFINE n == Len(played)
             t == s + Lead
  <2>0. n \in Nat /\ s \in 1 .. n + 1 /\ Len(played') = n + 1 /\ s \in Nat
    BY <1>2, <1>8
  <2>1. /\ scenario.burst \in Nat /\ scenario.burst < Redundancy /\ scenario.burst <= Lead
        /\ \A u, x \in Nat, d \in Delays(scenario.link) :
             u <= x + scenario.burst => u * TickTime + d <= (x + Lead) * TickTime
    BY <1>4, <1>19, BearableFacts
  <2>2. CASE fate = <<>>
    <3>1. lost' = lost + 1 /\ lost \in Nat
      BY <1>1, <1>5, <2>1, <2>2
    <3>2. CASE s = n + 1
      <4>1. Len(played') - s < lost'
        BY <2>0, <3>1, <3>2
      <4> QED BY <4>1 DEF IsSupplied
    <3>3. CASE s # n + 1
      <4>1. s \in 1 .. n /\ s + Lead > Len(applied)
        BY <1>3, <1>8, <1>19, <2>0, <3>3
      <4>2. IsSupplied(s + Lead, n - s)
        BY <1>1, <1>19, <4>1 DEF Supplied
      <4>3. n - s < lost => Len(played') - s < lost'
        BY <2>0, <3>1
      <4> QED BY <1>3, <1>8, <1>14, <4>2, <4>3 DEF IsSupplied, IsInTime
    <3> QED BY <3>2, <3>3
  <2>3. CASE fate # <<>>
    <3>1. lost' = 0
      BY <1>5, <2>3
    <3>2. ASSUME s + lost >= n + 1 PROVE \E f \in network'.queue : IsInTime(f, t)
      <4>1. PICK f \in network'.queue : Posted(f, "server", r, Now)
        BY <1>14, <2>3
      <4>2. PICK d \in Delays(scenario.link) : f.deliver_at = Now + d
        BY <4>1 DEF Posted
      <4>3. f.to = "server" /\ f.data = r
        BY <4>1 DEF Posted
      <4>4. tick = n + 1 /\ tick \in Nat /\ tick <= s + scenario.burst
        <5>1. tick = n + 1 /\ tick \in Nat
          BY <1>4
        <5>2. lost \in Nat /\ lost <= scenario.burst /\ scenario.burst \in Nat
          BY <1>1, <2>1
        <5> HIDE DEF n
        <5> QED BY <2>0, <3>2, <5>1, <5>2
      <4>5. f.deliver_at <= t * TickTime
        BY <1>14, <2>0, <2>1, <4>2, <4>4
      <4>6. /\ r \in Seq([tick : Nat, input : Inputs])
            /\ Len(r) \in {n + 1, Redundancy}
            /\ \A i \in 1 .. Len(r) : r[i].tick = ((Newest + 1) - Len(r)) + i
        BY <1>6, <1>8, <1>12, <2>0 DEF Remembered
      <4>7. lost < Redundancy /\ lost \in Nat /\ Redundancy \in Nat
        BY <1>1, <2>1, Constants
      <4> DEFINE i == t - ((Newest + 1) - Len(r))
                 k == Len(r)
      <4>8. k \in Nat /\ k \in {n + 1, Redundancy}
        BY <4>6
      <4> HIDE DEF k
      <4>9. s - (n + 1) + k \in 1 .. k
        BY <2>0, <3>2, <4>7, <4>8
      <4>10. i = s - (n + 1) + k /\ ((Newest + 1) - k) + i = t
        BY <1>2, <2>0, <4>8 DEF k
      <4> HIDE DEF i
      <4>11. i \in 1 .. Len(r) /\ r[i].tick = t /\ DOMAIN r = 1 .. Len(r)
        BY <4>6, <4>9, <4>10 DEF k
      <4> QED BY <4>3, <4>5, <4>11 DEF IsInTime
    <3>3. CASE s + lost >= n + 1
      <4>1. PICK f \in network'.queue : IsInTime(f, t)
        BY <3>2, <3>3
      <4>2. IsInTime(f, s + Lead)'
        BY <1>8, <4>1 DEF IsInTime
      <4> QED BY <4>2 DEF IsSupplied
    <3>4. CASE ~(s + lost >= n + 1)
      <4>0. lost \in Nat
        BY <1>1, <2>1
      <4>1. s \in 1 .. n /\ s + Lead > Len(applied) /\ ~(n - s < lost)
        BY <1>3, <1>8, <1>19, <2>0, <3>4, <4>0
      <4>2. IsSupplied(s + Lead, n - s)
        BY <1>1, <1>19, <4>1 DEF Supplied
      <4> QED BY <1>3, <1>8, <1>14, <4>1, <4>2 DEF IsSupplied, IsInTime
    <3> QED BY <3>3, <3>4
  <2> QED BY <2>2, <2>3
<1>20. ASSUME Bearable PROVE Supplied'
  BY <1>8, <1>19, <1>20 DEF Supplied
<1>21. Shaped'
  BY <1>5 DEF Shaped
<1> QED BY <1>3, <1>10, <1>11, <1>12, <1>13, <1>15, <1>16, <1>17, <1>18, <1>20, <1>21 DEF IInv

-----------------------------------------------------------------------------
(***************************************************************************)
(* The server simulates.                                                   *)
(***************************************************************************)
LEMMA PendingFacts ==
  ASSUME Ruled, Carried, NEW p, p = Pending(server.pending, Drained(network, "server", Now))
  PROVE  /\ server.pending \subseteq p /\ \A m \in p : IsOwn(m)
         /\ \A f \in network.queue :
              IsDeliverable(f, "server", Now) =>
                \A i \in DOMAIN f.data : \E m \in p : m.tick = f.data[i].tick
<1> DEFINE messages == Drained(network, "server", Now)
           due == Deliverable(network, "server", Now)
<1>1. /\ messages = [k \in 1 .. Len(messages) |-> messages[k]]
      /\ \A k \in 1 .. Len(messages) : \E f \in due : messages[k] = f.data
      /\ \A f \in due : \E k \in 1 .. Len(messages) : messages[k] = f.data
  <2>1. Ordered(network.queue)
    BY DEF Carried, InOrder
  <2> QED BY <2>1, DrainedIsDue
<1>2. p = Pending(server.pending, messages)
  OBVIOUS
<1>3. \A f : f \in due <=> f \in network.queue /\ IsDeliverable(f, "server", Now)
  BY DEF Deliverable
<1> HIDE DEF messages, due
<1>4. DOMAIN messages = 1 .. Len(messages)
  BY <1>1
<1>5. \A m : m \in InputsIn(messages) <=>
               \E k \in DOMAIN messages : \E i \in DOMAIN messages[k] : m = messages[k][i]
  BY DEF InputsIn
<1>6. \A m : m \in p <=> \/ m \in server.pending
                         \/ m \in InputsIn(messages) /\ \A known \in server.pending : known.tick # m.tick
  BY <1>2 DEF Pending
<1>7. ASSUME NEW m \in p PROVE IsOwn(m)
  <2>1. CASE m \in server.pending
    BY <2>1 DEF Ruled
  <2>2. CASE m \in InputsIn(messages)
    <3>1. PICK k \in DOMAIN messages : \E i \in DOMAIN messages[k] : m = messages[k][i]
      BY <1>5, <2>2
    <3>2. PICK f \in due : messages[k] = f.data
      BY <1>1, <1>4
    <3>3. f \in network.queue /\ f.to = "server"
      BY <1>3 DEF IsDeliverable
    <3>4. IsWindow(f.data)
      BY <3>3 DEF Carried
    <3> QED BY <3>1, <3>2, <3>4 DEF IsWindow
  <2> QED BY <1>6, <2>1, <2>2
<1>8. ASSUME NEW f \in network.queue, IsDeliverable(f, "server", Now), NEW i \in DOMAIN f.data
      PROVE  \E m \in p : m.tick = f.data[i].tick
  <2>1. PICK k \in DOMAIN messages : messages[k] = f.data
    BY <1>1, <1>3, <1>4, <1>8
  <2>2. f.data[i] \in InputsIn(messages)
    BY <1>5, <2>1
  <2>3. CASE \E known \in server.pending : known.tick = f.data[i].tick
    BY <1>6, <2>3
  <2>4. CASE ~\E known \in server.pending : known.tick = f.data[i].tick
    BY <1>6, <2>2, <2>4
  <2> QED BY <2>3, <2>4
<1>9. server.pending \subseteq p
  BY <1>6
<1> QED BY <1>7, <1>8, <1>9

LEMMA InputFacts ==
  ASSUME Paced, Ruled, turn = "simulate", NEW p, \A m \in p : IsOwn(m),
         NEW input, input = InputOr(p, server.last_input)
  PROVE  /\ input \in Inputs
         /\ InputsFor(p, tick) # {} => input = Own(tick)
         /\ tick <= Lead => input = NoInput /\ InputsFor(p, tick) = {}
<1>1. \A m : m \in InputsFor(p, tick) <=> m \in p /\ m.tick = tick
  BY DEF InputsFor
<1>2. CASE InputsFor(p, tick) = {}
  <2>1. input = server.last_input
    BY <1>2 DEF InputOr
  <2>2. server.last_input \in Inputs /\ (Len(truth) <= Lead => server.last_input = NoInput)
    BY DEF Ruled
  <2>3. tick <= Lead => Len(truth) <= Lead
    BY PacedFacts DEF Paced
  <2> QED BY <1>2, <2>1, <2>2, <2>3
<1>3. CASE InputsFor(p, tick) # {}
  <2> DEFINE m == CHOOSE m \in InputsFor(p, tick) : TRUE
  <2>1. m \in InputsFor(p, tick)
    BY <1>3
  <2>2. input = m.input
    BY <1>3 DEF InputOr
  <2> HIDE DEF m
  <2>3. IsOwn(m) /\ m.tick = tick
    BY <1>1, <2>1
  <2>4. Lead \in Nat /\ tick \in Nat
    BY PacedFacts DEF Paced
  <2> QED BY <1>3, <2>2, <2>3, <2>4 DEF IsOwn
<1> QED BY <1>2, <1>3

Serves(world, entry) ==
  /\ truth' = Append(truth, world) /\ applied' = Append(applied, entry)
  /\ UNCHANGED <<scenario, played>>

LEMMA TruthExtends ==
  ASSUME Paced, NEW world \in Int, NEW entry \in [input : Inputs, starved : BOOLEAN],
         Serves(world, entry)
  PROVE  /\ Lead' = Lead /\ Newest' = Newest /\ OwnInputs' = OwnInputs
         /\ \A k : Own(k)' = Own(k)
         /\ Len(truth') = Len(truth) + 1 /\ Len(applied') = Len(truth) + 1
         /\ truth' \in Seq(Int) /\ applied' \in Seq([input : Inputs, starved : BOOLEAN])
         /\ \A t \in 1 .. Len(truth) : applied'[t] = applied[t]
         /\ applied'[Len(truth) + 1] = entry
         /\ \A t \in 0 .. Len(truth) : SentAt(t)' = SentAt(t) /\ Frames'[t] = Frames[t]
         /\ \A t : t = Len(truth) + 1 => SentAt(t)' = Sent(world) /\ Frames'[t] = world
<1>1. scenario' = scenario /\ played' = played
  BY DEF Serves
<1>2. Lead' = Lead
  BY <1>1 DEF Lead
<1>3. Newest' = Newest
  BY <1>1, <1>2 DEF Newest
<1>4. \A k : Own(k)' = Own(k)
  BY <1>1, <1>2 DEF Own
<1>5. OwnInputs' = OwnInputs
  BY <1>3, <1>4 DEF OwnInputs
<1> DEFINE n == Len(truth)
<1>6. /\ n \in Nat /\ Len(truth') = n + 1 /\ truth'[n + 1] = world
      /\ truth' \in Seq(Int)
      /\ \A t \in 1 .. n : truth'[t] = truth[t]
  BY DEF Serves, Paced
<1>7. /\ Len(applied') = n + 1 /\ applied'[n + 1] = entry
      /\ applied' \in Seq([input : Inputs, starved : BOOLEAN])
      /\ \A t \in 1 .. n : applied'[t] = applied[t]
  <2>1. applied \in Seq([input : Inputs, starved : BOOLEAN]) /\ Len(applied) = n
    BY DEF Paced
  <2>2. applied' = Append(applied, entry)
    BY DEF Serves
  <2> QED BY <2>1, <2>2
<1>8. Frames' = [k \in 0 .. Len(truth') |-> IF k = 0 THEN 0 ELSE truth'[k]]
      /\ Frames = [k \in 0 .. n |-> IF k = 0 THEN 0 ELSE truth[k]]
  BY DEF Frames
<1> HIDE DEF n
<1>9. ASSUME NEW t \in 0 .. n PROVE SentAt(t)' = SentAt(t) /\ Frames'[t] = Frames[t]
  <2>1. t \in 0 .. Len(truth') /\ (t # 0 => truth'[t] = truth[t])
    BY <1>6
  <2>2. Frames'[t] = Frames[t]
    BY <1>8, <2>1
  <2> QED BY <2>1, <2>2 DEF SentAt
<1>10. ASSUME NEW t, t = n + 1 PROVE SentAt(t)' = Sent(world) /\ Frames'[t] = world
  <2>1. t \in 0 .. Len(truth') /\ t # 0 /\ truth'[t] = world
    BY <1>6, <1>10
  <2>2. Frames'[t] = world
    BY <1>8, <2>1
  <2> QED BY <2>1, <2>2 DEF SentAt
<1> QED BY <1>2, <1>3, <1>4, <1>5, <1>6, <1>7, <1>9, <1>10 DEF n

LEMMA SimulateSound ==
  ASSUME IInv, ServerSimulates
  PROVE  IInv' /\ base' = base
<1>1. /\ Paced /\ Ruled /\ Carried /\ Remembered(client.recent)
      /\ Aligned(client.world, client.history, base)
      /\ Followed(client.world, client.history, base)
      /\ lost \in 0 .. scenario.burst /\ (Bearable => Supplied /\ Heard)
  BY DEF IInv
<1>2. /\ Lead \in Nat \ {0} /\ Newest \in Nat /\ Len(played) \in Nat
      /\ Newest = Len(played) + Lead /\ Len(truth) \in Nat /\ Len(truth) < Newest
  BY <1>1, PacedFacts
<1>3. /\ turn = "simulate" /\ turn' = "reconcile"
      /\ UNCHANGED <<scenario, tick, client, lost, played, base>>
  BY DEF ServerSimulates
<1>4. /\ tick \in Nat \ {0} /\ Len(played) = tick /\ tick = Len(truth) + 1
      /\ Len(applied) = Len(truth) /\ scenario \in Scenarios
  BY <1>1, <1>2, <1>3 DEF Paced
<1>5. PICK p, input, world, rest, said :
        /\ p = Pending(server.pending, Drained(network, "server", Now))
        /\ input = InputOr(p, server.last_input) /\ world = Simulated(server.world, input)
        /\ rest = Remaining(network, "server", Now) /\ said = Delta(world, server.baseline)
  OBVIOUS
<1>6. /\ truth' = Append(truth, world)
      /\ applied' = Append(applied, [input |-> input, starved |-> InputsFor(p, tick) = {}])
      /\ server'.world = world /\ server'.pending = StillPending(p) /\ server'.last_input = input
      /\ \/ network' = rest
         \/ \E fate \in Fates(scenario.link) :
              network' = Enqueue(rest, "client", [tick |-> tick, said |-> said], Now, fate)
  <2>1. /\ truth' = Append(truth, world)
        /\ applied' = Append(applied, [input |-> input, starved |-> InputsFor(p, tick) = {}])
        /\ server' = [world |-> world, pending |-> StillPending(p), last_input |-> input,
                      baseline |-> IF tick % SnapshotEvery = 0 THEN Sent(world)
                                   ELSE server.baseline]
    BY <1>5 DEF ServerSimulates
  <2>2. \/ network' = rest
        \/ \E fate \in Fates(scenario.link) :
             network' = Enqueue(rest, "client", [tick |-> tick, said |-> said], Now, fate)
    BY <1>5 DEF ServerSimulates
  <2> QED BY <2>1, <2>2
<1>7. /\ server.pending \subseteq p /\ \A m \in p : IsOwn(m)
      /\ \A f \in network.queue :
           IsDeliverable(f, "server", Now) =>
             \A i \in DOMAIN f.data : \E m \in p : m.tick = f.data[i].tick
  BY <1>1, <1>5, PendingFacts
<1>8. /\ input \in Inputs /\ (InputsFor(p, tick) # {} => input = Own(tick))
      /\ (tick <= Lead => input = NoInput /\ InputsFor(p, tick) = {})
  BY <1>1, <1>3, <1>5, <1>7, InputFacts
<1>9. PICK entry \in [input : Inputs, starved : BOOLEAN] :
        /\ entry = [input |-> input, starved |-> InputsFor(p, tick) = {}]
        /\ entry.input = input /\ (entry.starved <=> InputsFor(p, tick) = {})
  <2> DEFINE e == [input |-> input, starved |-> InputsFor(p, tick) = {}]
  <2>1. (InputsFor(p, tick) = {}) \in BOOLEAN
    OBVIOUS
  <2>2. e \in [input : Inputs, starved : BOOLEAN]
    BY <1>8, <2>1
  <2>3. e.input = input /\ (e.starved <=> InputsFor(p, tick) = {})
    OBVIOUS
  <2> QED BY <2>2, <2>3
<1>10. world \in Int /\ server.world = Frames[Len(truth)] /\ input \in Int
  <2>1. server.world = Frames[Len(truth)] /\ IsRun(Frames, Used, 0, Len(truth))
    BY <1>1 DEF Ruled
  <2>2. Len(truth) \in 0 .. Len(truth)
    BY <1>2
  <2>3. server.world \in Int
    BY <2>1, <2>2 DEF IsRun
  <2> QED BY <1>5, <1>8, <2>1, <2>3, Constants, SimulatedType
<1>11. Serves(world, entry)
  BY <1>3, <1>6, <1>9 DEF Serves
<1> DEFINE n == Len(truth)
<1>12. /\ Lead' = Lead /\ Newest' = Newest /\ OwnInputs' = OwnInputs
       /\ \A k : Own(k)' = Own(k)
       /\ Len(truth') = n + 1 /\ Len(applied') = n + 1
       /\ truth' \in Seq(Int) /\ applied' \in Seq([input : Inputs, starved : BOOLEAN])
       /\ \A t \in 1 .. n : applied'[t] = applied[t]
       /\ applied'[n + 1] = entry
       /\ \A t \in 0 .. n : SentAt(t)' = SentAt(t) /\ Frames'[t] = Frames[t]
       /\ \A t : t = n + 1 => SentAt(t)' = Sent(world) /\ Frames'[t] = world
  BY <1>1, <1>10, <1>11, TruthExtends
<1>13. \A m : IsOwn(m) => IsOwn(m)'
  BY <1>3, <1>12 DEF IsOwn
<1>14. Paced'
  <2>1. played' \in Seq(Inputs)
    BY <1>1, <1>3 DEF Paced
  <2> QED BY <1>3, <1>4, <1>12, <2>1 DEF Paced
<1>15. Ruled'
  <2>1. server'.world = Frames'[Len(truth')]
    BY <1>6, <1>12
  <2>2. server'.last_input \in Inputs /\ (Len(truth') <= Lead' => server'.last_input = NoInput)
    BY <1>4, <1>6, <1>8, <1>12
  <2>3. ASSUME NEW m \in server'.pending PROVE IsOwn(m)'
    BY <1>6, <1>7, <1>13, <2>3 DEF StillPending
  <2>4. IsRun(Frames, Used, 0, n)
    BY <1>1 DEF Ruled
  <2>5. \A k \in 1 .. n : Used'[k] = Used[k]
    BY <1>4, <1>12 DEF Used
  <2>6. Used'[n + 1] = input
    <3>1. Used'[n + 1] = applied'[n + 1].input
      BY <1>2, <1>12 DEF Used
    <3> QED BY <1>9, <1>12, <3>1
  <2> HIDE DEF n
  <2>0. n \in Nat
    BY <1>2 DEF n
  <2>7. \A k \in 0 .. n + 1 : Frames'[k] \in Int
    <3>1. \A k \in 0 .. n + 1 : k \in 0 .. n \/ k = n + 1
      BY <2>0
    <3> QED BY <1>10, <1>12, <2>4, <3>1 DEF IsRun
  <2>8. ASSUME NEW k \in 1 .. n + 1 PROVE Frames'[k] = Simulated(Frames'[k - 1], Used'[k])
    <3>1. CASE k = n + 1
      <4>1. k - 1 = n /\ n \in 0 .. n
        BY <2>0, <3>1
      <4>2. Frames'[k - 1] = server.world
        BY <1>10, <1>12, <4>1 DEF n
      <4>3. Frames'[k] = world
        BY <1>12, <3>1
      <4> QED BY <1>5, <2>6, <3>1, <4>2, <4>3
    <3>2. CASE k # n + 1
      <4>1. k \in 1 .. n /\ k \in 0 .. n /\ k - 1 \in 0 .. n /\ k \in 0 + 1 .. n
        BY <2>0, <3>2
      <4>2. Frames[k] = Simulated(Frames[k - 1], Used[k])
        BY <2>4, <4>1 DEF IsRun
      <4> QED BY <1>12, <2>5, <4>1, <4>2
    <3> QED BY <3>1, <3>2
  <2>9. IsRun(Frames', Used', 0, Len(truth'))
    <3>1. \A k \in 0 + 1 .. n + 1 : k \in 1 .. n + 1
      BY <2>0
    <3> QED BY <1>12, <2>7, <2>8, <3>1 DEF IsRun
  <2> QED BY <2>1, <2>2, <2>3, <2>9 DEF Ruled
<1>16. Remembered(client.recent)'
  BY <1>1, <1>3, <1>12, <1>13 DEF Remembered
<1> HIDE DEF n
<1>17. n \in Nat /\ n = Len(truth) /\ tick = n + 1
  BY <1>2, <1>4 DEF n
<1>18. PICK w, h, b : w = client.world /\ h = client.history /\ b = base
                      /\ client'.world = w /\ client'.history = h /\ base' = b
  BY <1>3
<1>19. Aligned(w, h, b) /\ Followed(w, h, b)
  BY <1>1, <1>18
<1>20. b.tick \in 0 .. n /\ b.corrected \in 0 .. n /\ IsBase(b)
  <2>1. IsBase(b)
    BY <1>19 DEF Aligned
  <2> QED BY <1>17, <2>1 DEF IsBase
<1>21. Aligned(w, h, b)'
  <2>1. IsBase(b)'
    BY <1>12, <1>17, <1>20 DEF IsBase
  <2>2. played' = played
    BY <1>3
  <2> QED BY <1>12, <1>19, <2>1, <2>2 DEF Aligned
<1>22. Followed(w, h, b)'
  <2> SUFFICES ASSUME WholeSnapshots PROVE Exact(w, h, b)' /\ Near(w, b)' /\ Caused(b)'
    BY <1>3 DEF Followed, WholeSnapshots
  <2>1. Exact(w, h, b) /\ Near(w, b) /\ Caused(b)
    BY <1>19 DEF Followed
  <2>2. SentAt(b.corrected)' = SentAt(b.corrected) /\ SentAt(b.tick)' = SentAt(b.tick)
    <3>1. PICK c, t : c = b.corrected /\ t = b.tick
      OBVIOUS
    <3>2. SentAt(c)' = SentAt(c) /\ SentAt(t)' = SentAt(t)
      BY <1>12, <1>20, <3>1
    <3> QED BY <3>1, <3>2
  <2>3. Exact(w, h, b)'
    BY <1>12, <2>1, <2>2 DEF Exact
  <2>4. Near(w, b)'
    BY <1>12, <2>1, <2>2 DEF Near
  <2>5. ASSUME NEW c \in b.corrections
        PROVE  /\ c.from \in Nat /\ c.to \in 0 .. Len(truth')
               /\ c.kind = "Corrected"
               /\ \E t \in c.from + 1 .. c.to : applied'[t].input # Own(t)'
    <3>1. /\ c.from \in Nat /\ c.to \in 0 .. n
          /\ c.kind = "Corrected"
          /\ \E t \in c.from + 1 .. c.to : applied[t].input # Own(t)
      BY <1>17, <2>1 DEF Caused
    <3>2. PICK t \in c.from + 1 .. c.to : applied[t].input # Own(t)
      BY <3>1
    <3>3. t \in 1 .. n
      <4>1. t \in Int /\ c.from + 1 <= t /\ t <= c.to
        BY <3>1
      <4> QED BY <1>17, <3>1, <4>1
    <3>4. applied'[t].input # Own(t)'
      BY <1>12, <3>2, <3>3
    <3>5. c.to \in 0 .. Len(truth')
      BY <1>12, <1>17, <3>1
    <3> QED BY <3>1, <3>4, <3>5
  <2>6. Caused(b)'
    BY <2>5 DEF Caused
  <2> QED BY <2>3, <2>4, <2>6
<1>23. /\ InOrder(rest) /\ rest = [queue |-> rest.queue, next_seq |-> rest.next_seq]
       /\ rest.queue = {f \in network.queue : ~IsDeliverable(f, "server", Now)}
  <2>1. InOrder(network) /\ network = [queue |-> network.queue, next_seq |-> network.next_seq]
    BY <1>1 DEF Carried
  <2> QED BY <1>5, <2>1, RemainingFacts
<1>24. PICK message : message = [tick |-> tick, said |-> said]
                      /\ message.tick = tick /\ message.said = said
  <2> DEFINE m == [tick |-> tick, said |-> said]
  <2>1. m.tick = tick /\ m.said = said
    OBVIOUS
  <2> QED BY <2>1
<1>25. /\ InOrder(network') /\ rest.queue \subseteq network'.queue
       /\ network' = [queue |-> network'.queue, next_seq |-> network'.next_seq]
       /\ \A f \in network'.queue : f \in rest.queue \/ Posted(f, "client", message, Now)
  <2>1. CASE network' = rest
    BY <1>23, <2>1
  <2>2. CASE network' # rest
    <3>1. PICK fate \in Fates(scenario.link) :
            network' = Enqueue(rest, "client", message, Now, fate)
      BY <1>6, <1>24, <2>2
    <3>2. Now \in Int /\ scenario \in Scenarios /\ InOrder(rest)
      BY <1>4, <1>23, Constants DEF Now
    <3>3. PICK after : after = network' /\ after = Enqueue(rest, "client", message, Now, fate)
      BY <3>1
    <3>4. Joined(rest, after, "client", message, Now, fate)
      BY <3>2, <3>3, EnqueueFacts
    <3>5. network' = [queue |-> network'.queue, next_seq |-> network'.next_seq]
      BY <3>1 DEF Enqueue
    <3> QED BY <3>3, <3>4, <3>5 DEF Joined
  <2> QED BY <2>1, <2>2
<1>26. IsSnapshot(message)'
  <2>1. Sent(world) \in Int
    BY <1>10, SentIsNear
  <2>2. said \in Int \cup {Unsaid} /\ (WholeSnapshots => said = Sent(world))
    BY <1>5, <2>1 DEF Delta, WholeSnapshots
  <2>3. PICK t : t = message.tick
    OBVIOUS
  <2>4. t = n + 1 /\ t \in 1 .. Len(truth')
    BY <1>12, <1>17, <1>24, <2>3
  <2>5. SentAt(t)' = Sent(world)
    BY <1>12, <2>4
  <2>6. SentAt(message.tick)' = Sent(world)
    BY <2>3, <2>5
  <2>7. WholeSnapshots' => WholeSnapshots
    BY <1>3 DEF WholeSnapshots
  <2> QED BY <1>24, <2>2, <2>3, <2>4, <2>6, <2>7 DEF IsSnapshot
<1>27. Carried'
  <2>1. ASSUME NEW f \in network'.queue, f.to = "client" PROVE IsSnapshot(f.data)'
    <3>1. CASE f \in rest.queue
      <4>1. IsSnapshot(f.data)
        BY <1>1, <1>23, <2>1, <3>1 DEF Carried
      <4>2. PICK d, t : d = f.data /\ t = d.tick
        OBVIOUS
      <4>3. t \in 1 .. n /\ d.said \in Int \cup {Unsaid} /\ (WholeSnapshots => d.said = SentAt(t))
        BY <1>17, <4>1, <4>2 DEF IsSnapshot
      <4>4. t \in 0 .. n /\ t \in 1 .. Len(truth')
        BY <1>12, <1>17, <4>3
      <4>5. SentAt(t)' = SentAt(t)
        BY <1>12, <4>4
      <4>6. WholeSnapshots' => WholeSnapshots
        BY <1>3 DEF WholeSnapshots
      <4> QED BY <4>2, <4>3, <4>4, <4>5, <4>6 DEF IsSnapshot
    <3>2. CASE Posted(f, "client", message, Now)
      <4>1. f.data = message
        BY <3>2 DEF Posted
      <4> QED BY <1>26, <4>1
    <3> QED BY <1>25, <3>1, <3>2
  <2>2. ASSUME NEW f \in network'.queue, f.to = "server" PROVE IsWindow(f.data)'
    <3>1. f \in network.queue
      BY <1>23, <1>25, <2>2 DEF Posted
    <3>2. IsWindow(f.data)
      BY <1>1, <2>2, <3>1 DEF Carried
    <3> QED BY <1>13, <3>2 DEF IsWindow
  <2> QED BY <1>25, <2>1, <2>2 DEF Carried
<1>28. Bearable' = Bearable /\ lost' \in 0 .. scenario'.burst
  BY <1>1, <1>3 DEF Bearable, Slack, Lead
<1>29. \A s \in 1 .. Len(played) : s + Lead > n => IsSupplied(s + Lead, Len(played) - s)
       \/ ~Bearable
  BY <1>1, <1>4, <1>17 DEF Supplied
<1>30. ASSUME Bearable PROVE Heard'
  <2>1. Heard
    BY <1>1, <1>30
  <2>2. entry.input = Own(tick) /\ (entry.starved => tick <= Lead)
    <3>1. CASE tick <= Lead
      BY <1>8, <1>9, <3>1 DEF Own
    <3>2. CASE ~(tick <= Lead)
      <4> DEFINE s == tick - Lead
      <4>1. s \in 1 .. Len(played) /\ s + Lead = tick /\ s + Lead > n /\ Len(played) - s = Lead
        BY <1>2, <1>4, <1>17, <3>2
      <4>2. IsSupplied(tick, Lead)
        BY <1>29, <1>30, <4>1
      <4>3. ~(Lead < lost)
        <5>1. scenario.burst \in Nat /\ scenario.burst <= Lead
          BY <1>4, <1>30, BearableFacts
        <5> QED BY <1>1, <1>2, <5>1
      <4>4. \E m \in p : m.tick = tick
        <5>1. CASE \E m \in server.pending : m.tick = tick
          BY <1>7, <5>1
        <5>2. CASE \E f \in network.queue : IsInTime(f, tick)
          <6>1. PICK f \in network.queue : IsInTime(f, tick)
            BY <5>2
          <6>2. IsDeliverable(f, "server", Now)
            BY <6>1 DEF IsInTime, IsDeliverable, Now
          <6> QED BY <1>7, <6>1, <6>2 DEF IsInTime
        <5> QED BY <4>2, <4>3, <5>1, <5>2 DEF IsSupplied
      <4>5. InputsFor(p, tick) # {}
        BY <4>4 DEF InputsFor
      <4> QED BY <1>8, <1>9, <4>5
    <3> QED BY <3>1, <3>2
  <2>3. ASSUME NEW t \in 1 .. n + 1
        PROVE  applied'[t].input = Own(t)' /\ (applied'[t].starved => t <= Lead')
    <3>1. CASE t = n + 1
      BY <1>12, <1>17, <2>2, <3>1
    <3>2. CASE t # n + 1
      <4>1. t \in 1 .. n
        BY <1>17, <3>2
      <4>2. applied[t].input = Own(t) /\ (applied[t].starved => t <= Lead)
        BY <1>4, <1>17, <2>1, <4>1 DEF Heard
      <4> QED BY <1>12, <4>1, <4>2
    <3> QED BY <3>1, <3>2
  <2> QED BY <1>12, <2>3 DEF Heard
<1>31. ASSUME Bearable PROVE Supplied'
  <2> SUFFICES ASSUME NEW s \in 1 .. Len(played), s + Lead > n + 1
               PROVE  IsSupplied(s + Lead, Len(played) - s)'
    BY <1>3, <1>12 DEF Supplied
  <2>1. PICK t, k : t = s + Lead /\ k = Len(played) - s
    OBVIOUS
  <2>2. t > tick /\ t \in Int /\ t > n /\ tick \in Int
    BY <1>2, <1>17, <2>1
  <2>3. IsSupplied(t, k)
    BY <1>2, <1>17, <1>29, <1>31, <2>1, <2>2
  <2>4. IsSupplied(t, k)'
    <3>1. ASSUME \E m \in p : m.tick = t PROVE \E m \in server'.pending : m.tick = t
      BY <1>6, <2>2, <3>1 DEF StillPending
    <3>2. CASE \E m \in server.pending : m.tick = t
      BY <1>7, <3>1, <3>2 DEF IsSupplied
    <3>3. CASE \E f \in network.queue : IsInTime(f, t)
      <4>1. PICK f \in network.queue : IsInTime(f, t)
        BY <3>3
      <4>2. CASE IsDeliverable(f, "server", Now)
        BY <1>7, <3>1, <4>1, <4>2 DEF IsInTime, IsSupplied
      <4>3. CASE ~IsDeliverable(f, "server", Now)
        <5>1. f \in network'.queue
          BY <1>23, <1>25, <4>3
        <5>2. IsInTime(f, t)'
          BY <4>1 DEF IsInTime
        <5> QED BY <5>1, <5>2 DEF IsSupplied
      <4> QED BY <4>2, <4>3
    <3>4. CASE k < lost
      BY <1>3, <3>4 DEF IsSupplied
    <3> QED BY <2>3, <3>2, <3>3, <3>4 DEF IsSupplied
  <2>5. (s + Lead)' = t /\ (Len(played) - s)' = k
    BY <1>3, <1>12, <2>1
  <2> QED BY <2>4, <2>5
<1>32. /\ Aligned(client.world, client.history, base)'
       /\ Followed(client.world, client.history, base)'
  BY <1>18, <1>21, <1>22
<1>33. Shaped'
  BY <1>3 DEF IInv, Shaped
<1> QED BY <1>3, <1>14, <1>15, <1>16, <1>27, <1>28, <1>30, <1>31, <1>32, <1>33 DEF IInv

-----------------------------------------------------------------------------
(***************************************************************************)
(* The client reconciles.                                                  *)
(***************************************************************************)
LEMMA StartSound ==
  ASSUME Paced, NEW w, NEW h, NEW b, Aligned(w, h, b), Followed(w, h, b),
         NEW a, a = [b EXCEPT !.corrections = {}]
  PROVE  Aligned(w, h, a) /\ Followed(w, h, a) /\ a.tick = b.tick
<1>1. IsBase(b)
  BY DEF Aligned
<1>2. a.tick = b.tick /\ a.corrected = b.corrected /\ a.corrections = {} /\ IsBase(a)
  BY <1>1 DEF IsBase
<1>3. Aligned(w, h, a)
  BY <1>2 DEF Aligned
<1>4. ASSUME WholeSnapshots PROVE Exact(w, h, a) /\ Near(w, a) /\ Caused(a)
  <2>1. Exact(w, h, b) /\ Near(w, b)
    BY <1>4 DEF Followed
  <2>2. Exact(w, h, a)
    BY <1>2, <2>1 DEF Exact
  <2>3. Near(w, a)
    BY <1>2, <2>1 DEF Near
  <2>4. Caused(a)
    BY <1>2 DEF Caused
  <2> QED BY <2>2, <2>3, <2>4
<1> QED BY <1>2, <1>3, <1>4 DEF Followed

LEMMA ReconcileSound ==
  ASSUME IInv, ClientReconciles
  PROVE  IInv' /\ base.tick <= base'.tick
<1>1. /\ Paced /\ Ruled /\ Carried /\ Remembered(client.recent)
      /\ Aligned(client.world, client.history, base)
      /\ Followed(client.world, client.history, base)
      /\ lost \in 0 .. scenario.burst /\ (Bearable => Supplied /\ Heard)
  BY DEF IInv
<1>2. /\ turn = "reconcile" /\ turn' = "predict" /\ tick' = tick + 1
      /\ UNCHANGED <<scenario, server, lost, truth, applied, played>>
      /\ network' = Remaining(network, "client", Now)
  BY DEF ClientReconciles
<1>3. tick \in Nat \ {0} /\ Len(played) = tick /\ Len(truth) = tick /\ played # <<>>
  BY <1>1, <1>2 DEF Paced
<1>4. PICK a, start, messages, done :
        /\ a = [base EXCEPT !.corrections = {}]
        /\ start = [world |-> client.world, history |-> client.history, base |-> a]
        /\ start.world = client.world /\ start.history = client.history /\ start.base = a
        /\ messages = Drained(network, "client", Now) /\ done = Reconciled(start, messages)
  <2> DEFINE a == [base EXCEPT !.corrections = {}]
  <2> HIDE DEF a
  <2> DEFINE start == [world |-> client.world, history |-> client.history, base |-> a]
  <2>1. start.world = client.world /\ start.history = client.history /\ start.base = a
    OBVIOUS
  <2> HIDE DEF start
  <2> QED BY <2>1 DEF start, a
<1>5. client' = [client EXCEPT !.world = done.world, !.history = done.history]
      /\ base' = done.base
  BY <1>4 DEF ClientReconciles
<1>6. /\ client'.world = done.world /\ client'.history = done.history
      /\ client'.recent = client.recent /\ Shaped'
  <2>1. client = [world |-> client.world, recent |-> client.recent, history |-> client.history]
    BY DEF IInv, Shaped
  <2> QED BY <1>5, <2>1 DEF Shaped
<1>7. PICK w, h, b : w = client.world /\ h = client.history /\ b = base
  OBVIOUS
<1>8. Sound(start) /\ start.base.tick = base.tick
  <2>1. Aligned(w, h, b) /\ Followed(w, h, b) /\ a = [b EXCEPT !.corrections = {}]
    BY <1>1, <1>4, <1>7
  <2>2. Aligned(w, h, a) /\ Followed(w, h, a) /\ a.tick = b.tick
    BY <1>1, <2>1, StartSound
  <2>3. start.world = w /\ start.history = h /\ start.base = a /\ b = base
    BY <1>4, <1>7
  <2> QED BY <2>2, <2>3 DEF Sound
<1>9. Len(messages) \in Nat /\ \A k \in 1 .. Len(messages) : IsSnapshot(messages[k])
  <2> DEFINE due == Deliverable(network, "client", Now)
  <2>1. Ordered(network.queue)
    BY <1>1 DEF Carried, InOrder
  <2>2. /\ Len(messages) \in Nat
        /\ \A k \in 1 .. Len(messages) : \E f \in due : messages[k] = f.data
    BY <1>4, <2>1, DrainedIsDue
  <2>3. \A f \in due : f \in network.queue /\ f.to = "client"
    BY DEF Deliverable, IsDeliverable
  <2> HIDE DEF due
  <2>4. \A f \in due : IsSnapshot(f.data)
    BY <1>1, <2>3 DEF Carried
  <2> QED BY <2>2, <2>4
<1>10. Sound(done) /\ base.tick <= done.base.tick
  <2>1. Sound(Reconciled(start, messages)) /\ start.base.tick <= Reconciled(start, messages).base.tick
    BY <1>1, <1>3, <1>8, <1>9, ReconciledSound
  <2> QED BY <1>4, <1>8, <2>1
<1>11. Lead' = Lead
  BY <1>2 DEF Lead
<1>12. Newest' = Newest
  BY <1>2, <1>11 DEF Newest
<1>13. \A k : Own(k)' = Own(k) /\ SentAt(k)' = SentAt(k)
  BY <1>2, <1>11 DEF Own, SentAt
<1>14. OwnInputs' = OwnInputs /\ Frames' = Frames /\ Used' = Used
  BY <1>2, <1>12, <1>13 DEF OwnInputs, Frames, Used
<1>15. \A m : IsOwn(m)' <=> IsOwn(m)
  BY <1>11, <1>12, <1>13 DEF IsOwn
<1>16. Paced'
  BY <1>1, <1>2, <1>3 DEF Paced
<1>17. Ruled'
  BY <1>1, <1>2, <1>11, <1>14, <1>15 DEF Ruled
<1>18. Remembered(client.recent)'
  BY <1>1, <1>2, <1>6, <1>12, <1>15 DEF Remembered
<1>19. WholeSnapshots' <=> WholeSnapshots
  BY <1>2 DEF WholeSnapshots
<1>20. /\ InOrder(network') /\ network' = [queue |-> network'.queue, next_seq |-> network'.next_seq]
       /\ network'.queue = {f \in network.queue : ~IsDeliverable(f, "client", Now)}
  <2>1. InOrder(network) /\ network = [queue |-> network.queue, next_seq |-> network.next_seq]
    BY <1>1 DEF Carried
  <2>2. PICK rest : rest = network' /\ rest = Remaining(network, "client", Now)
    BY <1>2
  <2>3. /\ InOrder(rest) /\ rest = [queue |-> rest.queue, next_seq |-> rest.next_seq]
        /\ rest.queue = {f \in network.queue : ~IsDeliverable(f, "client", Now)}
    BY <2>1, <2>2, RemainingFacts
  <2> QED BY <2>2, <2>3
<1>21. Carried'
  <2>1. \A d : IsSnapshot(d) => IsSnapshot(d)'
    <3> SUFFICES ASSUME NEW d, IsSnapshot(d) PROVE IsSnapshot(d)'
      OBVIOUS
    <3>1. PICK t : t = d.tick
      OBVIOUS
    <3>2. SentAt(t)' = SentAt(t)
      BY <1>13
    <3> QED BY <1>2, <1>19, <3>1, <3>2 DEF IsSnapshot
  <2>2. \A d : IsWindow(d) => IsWindow(d)'
    BY <1>15 DEF IsWindow
  <2> QED BY <1>1, <1>20, <2>1, <2>2 DEF Carried
<1>22. Bearable' = Bearable /\ lost' \in 0 .. scenario'.burst
  BY <1>1, <1>2 DEF Bearable, Slack, Lead
<1>23. ASSUME Bearable PROVE Supplied' /\ Heard'
  <2>1. Supplied /\ Heard
    BY <1>1, <1>23
  <2>2. Heard'
    BY <1>2, <1>11, <1>13, <2>1 DEF Heard
  <2>3. ASSUME NEW s \in 1 .. Len(played), s + Lead > Len(applied)
        PROVE  IsSupplied(s + Lead, Len(played) - s)'
    <3>1. IsSupplied(s + Lead, Len(played) - s)
      BY <2>1, <2>3 DEF Supplied
    <3>2. PICK t : t = s + Lead
      OBVIOUS
    <3>3. \A f \in network.queue : IsInTime(f, t) => f \in network'.queue /\ IsInTime(f, t)'
      BY <1>20 DEF IsInTime, IsDeliverable
    <3>4. (s + Lead)' = t
      BY <1>11, <3>2
    <3>5. \A f \in network.queue : IsInTime(f, t) => IsInTime(f, s + Lead)'
      BY <3>3, <3>4 DEF IsInTime
    <3> QED BY <1>2, <1>11, <3>1, <3>2, <3>3, <3>5 DEF IsSupplied
  <2>4. Supplied'
    BY <1>2, <1>11, <2>3 DEF Supplied
  <2> QED BY <2>2, <2>4
<1>24. PICK v, g, c : /\ v = done.world /\ g = done.history /\ c = done.base
                      /\ client'.world = v /\ client'.history = g /\ base' = c
  BY <1>5, <1>6
<1>25. Aligned(v, g, c) /\ Followed(v, g, c)
  BY <1>10, <1>24 DEF Sound
<1>26. Aligned(v, g, c)'
  <2>1. IsBase(c)'
    BY <1>2, <1>25 DEF Aligned, IsBase
  <2> QED BY <1>2, <1>12, <1>13, <1>25, <2>1 DEF Aligned
<1>27. Followed(v, g, c)'
  <2> SUFFICES ASSUME WholeSnapshots PROVE Exact(v, g, c)' /\ Near(v, c)' /\ Caused(c)'
    BY <1>19 DEF Followed
  <2>1. Exact(v, g, c) /\ Near(v, c) /\ Caused(c)
    BY <1>25 DEF Followed
  <2>2. SentAt(c.corrected)' = SentAt(c.corrected) /\ SentAt(c.tick)' = SentAt(c.tick)
    BY <1>2 DEF SentAt
  <2>3. Exact(v, g, c)'
    BY <1>12, <1>14, <2>1, <2>2 DEF Exact
  <2>4. Near(v, c)'
    BY <1>12, <1>14, <2>1, <2>2 DEF Near
  <2>5. Caused(c)'
    BY <1>2, <1>13, <2>1 DEF Caused
  <2> QED BY <2>3, <2>4, <2>5
<1>28. /\ Aligned(client.world, client.history, base)'
       /\ Followed(client.world, client.history, base)'
  BY <1>24, <1>26, <1>27
<1>29. base.tick <= base'.tick
  BY <1>5, <1>10
<1> QED BY <1>6, <1>16, <1>17, <1>18, <1>21, <1>22, <1>23, <1>28, <1>29 DEF IInv

-----------------------------------------------------------------------------
(***************************************************************************)
(* The theorems.                                                           *)
(***************************************************************************)
LEMMA StepSound == ASSUME IInv, [Next]_vars PROVE IInv' /\ base.tick <= base'.tick
<1>1. base.tick \in Nat
  <2>1. Paced /\ Aligned(client.world, client.history, base)
    BY DEF IInv
  <2> QED BY <2>1, HistoryFacts
<1>2. CASE ClientPredicts
  BY <1>1, <1>2, PredictSound
<1>3. CASE ServerSimulates
  BY <1>1, <1>3, SimulateSound
<1>4. CASE ClientReconciles
  BY <1>4, ReconcileSound
<1>5. CASE UNCHANGED vars
  <2> USE DEF vars
  <2>1. Lead' = Lead
    BY <1>5 DEF Lead
  <2>2. Newest' = Newest /\ \A k : Own(k)' = Own(k)
    BY <1>5, <2>1 DEF Newest, Own
  <2>3. OwnInputs' = OwnInputs /\ Frames' = Frames /\ Used' = Used
    BY <1>5, <2>2 DEF OwnInputs, Frames, Used
  <2>4. \A m : IsOwn(m)' <=> IsOwn(m)
    BY <1>5, <2>1, <2>2 DEF IsOwn
  <2>5. Paced'
    BY <1>5 DEF IInv, Paced
  <2>6. Shaped' /\ Ruled' /\ Remembered(client.recent)'
    BY <1>5, <2>1, <2>2, <2>3, <2>4 DEF IInv, Shaped, Ruled, Remembered
  <2>7. Carried'
    BY <1>5, <2>4 DEF IInv, Carried, IsSnapshot, IsWindow, WholeSnapshots, SentAt
  <2>8. Aligned(client.world, client.history, base)'
    BY <1>5, <2>2 DEF IInv, Aligned, IsBase
  <2>9. Followed(client.world, client.history, base)'
    BY <1>5, <2>2, <2>3 DEF IInv, Followed, WholeSnapshots, Exact, Near, Caused, SentAt
  <2>10. lost' \in 0 .. scenario'.burst /\ (Bearable' => Supplied' /\ Heard')
    BY <1>5, <2>1, <2>2 DEF IInv, Bearable, Slack, Supplied, IsSupplied, IsInTime, Heard
  <2> QED BY <1>1, <1>5, <2>5, <2>6, <2>7, <2>8, <2>9, <2>10 DEF IInv
<1> QED BY <1>2, <1>3, <1>4, <1>5 DEF Next

(* The invariant holds of every session, whatever the link does.           *)
THEOREM SessionIsSound == Spec => []IInv
<1>1. IInv /\ [Next]_vars => IInv'
  BY StepSound
<1> QED BY <1>1, InitSound, PTL DEF Spec

(* When snapshots are whole, what the player sees is always, up to the     *)
(* tolerance, the latest state of the server taken into account, advanced  *)
(* by the player's own inputs (predict.rs:158-232).                        *)
THEOREM ClientAlwaysTracksServer == Spec => []ClientTracksServer
<1>1. IInv => ClientTracksServer
  <2> SUFFICES ASSUME IInv, WholeSnapshots
               PROVE  WithinTolerance(client.world, ReplayedFrom(base.tick))
    BY DEF ClientTracksServer, WholeSnapshots
  <2>1. Paced /\ Aligned(client.world, client.history, base) /\ Near(client.world, base)
    BY DEF IInv, Followed
  <2>2. Newest \in Nat /\ base.tick \in Nat /\ base.tick <= Newest
    <3>1. Newest \in Nat /\ Len(truth) \in Nat /\ Len(truth) < Newest
      BY <2>1, PacedFacts
    <3>2. base.tick \in 0 .. Len(truth)
      BY <2>1 DEF Aligned, IsBase
    <3> QED BY <3>1, <3>2
  <2>3. PICK f : /\ IsRun(f, OwnInputs, base.tick, Newest) /\ f[base.tick] = SentAt(base.tick)
                 /\ Distance(client.world, f[Newest]) <= Tolerance
    BY <2>1 DEF Near
  <2>4. ReplayedFrom(base.tick) = f[Newest]
    BY <2>2, <2>3, ReplayedIs
  <2> QED BY <2>3, <2>4 DEF WithinTolerance
<1> QED BY <1>1, SessionIsSound, PTL

(* A prediction is only given up when the server used another input than   *)
(* the client did, and never abandoned altogether (predict.rs:158-232).    *)
THEOREM CorrectionsHaveACause == Spec => []CorrectedForACause
<1>1. IInv => CorrectedForACause
  BY DEF IInv, Followed, Caused, CorrectedForACause, WholeSnapshots
<1> QED BY <1>1, SessionIsSound, PTL

(* Where losses are no longer than redundancy and lead cover, the server   *)
(* waits for no input after the first `lead` ticks (end_to_end.rs:64).     *)
THEOREM NeverStarvedAfterStartup == Spec => []StarvedOnlyAtStartup
<1>1. IInv => StarvedOnlyAtStartup
  BY DEF IInv, Paced, Heard, StarvedOnlyAtStartup
<1> QED BY <1>1, SessionIsSound, PTL

(* And then the two never disagree: nothing is ever corrected              *)
(* (end_to_end.rs:26, "A client whose prediction agreed with the server    *)
(* never has to correct").                                                 *)
NothingToCorrect == Bearable /\ ~scenario.deltas => base.corrections = {}

THEOREM BearableLossesCorrectNothing == Spec => []NothingToCorrect
<1>1. IInv => NothingToCorrect
  <2> SUFFICES ASSUME IInv, Bearable, WholeSnapshots, NEW c \in base.corrections PROVE FALSE
    BY DEF NothingToCorrect, WholeSnapshots
  <2>1. Paced /\ Heard /\ Caused(base)
    BY DEF IInv, Followed
  <2>2. /\ c.from \in Nat /\ c.to \in 0 .. Len(truth)
        /\ \E t \in c.from + 1 .. c.to : applied[t].input # Own(t)
    BY <2>1 DEF Caused
  <2>3. PICK t \in c.from + 1 .. c.to : applied[t].input # Own(t)
    BY <2>2
  <2>4. Len(truth) \in Nat /\ Len(applied) = Len(truth)
    BY <2>1 DEF Paced
  <2>5. t \in 1 .. Len(applied)
    <3>1. t \in Int /\ c.from + 1 <= t /\ t <= c.to
      BY <2>2
    <3> QED BY <2>2, <2>4, <3>1
  <2> QED BY <2>1, <2>3, <2>5 DEF Heard
<1> QED BY <1>1, SessionIsSound, PTL

(* However late or often snapshots arrive, the client never goes back to   *)
(* an older state of the server (predict.rs:158-186).                      *)
THEOREM SnapshotsNeverGoBack == Spec => NeverBackwards
<1>1. IInv /\ [Next]_vars => [base'.tick >= base.tick]_vars
  <2> SUFFICES ASSUME IInv, [Next]_vars PROVE base'.tick >= base.tick
    OBVIOUS
  <2>1. IInv' /\ base.tick <= base'.tick
    BY StepSound
  <2>2. base.tick \in Nat
    <3>1. Paced /\ Aligned(client.world, client.history, base)
      BY DEF IInv
    <3> QED BY <3>1, HistoryFacts
  <2>3. base'.tick \in Nat
    BY <2>1 DEF IInv, Paced, Aligned, IsBase
  <2> QED BY <2>1, <2>2, <2>3
<1> QED BY <1>1, SessionIsSound, PTL DEF Spec, NeverBackwards
=============================================================================
