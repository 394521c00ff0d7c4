-------------------------- MODULE ServedClient_proofs --------------------------
(***************************************************************************)
(* What TLAPS proves of the server's side of a client: the numbers it      *)
(* computes with (FixedPoint), what is replicated to it                    *)
(* (InterestManagement), the schema and the slots of what it is sent       *)
(* (WireExchange), and the packets that open for it once (SecureSession).  *)
(* The systems share no state: each has its own specification, and the     *)
(* first and the last part of this module serve nobody else.               *)
(***************************************************************************)
EXTENDS SecureSession, InterestManagement, WireExchange,
        FiniteSetTheorems, SequenceTheorems, FunctionTheorems, WellFoundedInduction, TLAPS

LEMMA Least ==
  ASSUME NEW T, T \subseteq Nat, T # {} PROVE \E m \in T : \A u \in T : ~ (<<u, m>> \in OpToRel(<, Nat))
BY WFMin, NatLessThanWellFounded

LEMMA Induct ==
  ASSUME NEW S, 0 \in S, \A n \in Nat : n \in S => n + 1 \in S PROVE \A n \in Nat : n \in S
<1> DEFINE T == Nat \ S
<1> SUFFICES ASSUME T # {} PROVE FALSE
  OBVIOUS
<1>1. PICK m \in T : \A u \in T : u >= m
  <2>1. PICK m \in T : \A u \in T : ~ (<<u, m>> \in OpToRel(<, Nat))
    BY Least
  <2>2. ASSUME NEW u \in T, ~(u >= m) PROVE FALSE
    <3>1. u \in Nat /\ m \in Nat /\ u < m
      BY <2>2
    <3>2. <<u, m>> \in OpToRel(<, Nat)
      BY <3>1 DEF OpToRel
    <3> QED BY <2>1, <3>2
  <2> QED BY <2>2
<1>2. m \in Nat /\ m \notin S /\ m # 0
  OBVIOUS
<1>3. m - 1 \in Nat /\ m = (m - 1) + 1
  BY <1>2
<1>4. m - 1 \in T
  BY <1>2, <1>3
<1> QED BY <1>1, <1>2, <1>4

(***************************************************************************)
(* Powers of two.                                                          *)
(***************************************************************************)
Doubles(f, m) == /\ f = [n \in 0 .. m |-> f[n]] /\ f[0] = 1
                 /\ \A n \in 1 .. m : f[n] = 2 * f[n - 1]

LEMMA DoublesAgree ==
  ASSUME NEW f, NEW m \in Nat, Doubles(f, m), NEW g, NEW k \in Nat, Doubles(g, k), k <= m
  PROVE  \A n \in 0 .. k : f[n] = g[n]
<1> DEFINE S == {n \in Nat : n <= k => f[n] = g[n]}
<1>1. 0 \in S BY DEF Doubles
<1>2. ASSUME NEW n \in Nat, n \in S PROVE n + 1 \in S
  <2>1. CASE n + 1 <= k
    <3>1. n + 1 \in 1 .. k /\ n + 1 \in 1 .. m /\ (n + 1) - 1 = n BY <2>1
    <3>2. f[n + 1] = 2 * f[n] /\ g[n + 1] = 2 * g[n] BY <3>1 DEF Doubles
    <3>3. f[n] = g[n] BY <1>2, <2>1
    <3> QED BY <3>2, <3>3
  <2> QED BY <2>1
<1> HIDE DEF S
<1>3. \A n \in Nat : n \in S BY <1>1, <1>2, Induct
<1> QED BY <1>3 DEF S

LEMMA DoublesExists == \A m \in Nat : \E f : Doubles(f, m)
<1> DEFINE S == {m \in Nat : \E f : Doubles(f, m)}
<1>1. 0 \in S
  <2> DEFINE f == [n \in 0 .. 0 |-> 1]
  <2>1. Doubles(f, 0) BY DEF Doubles
  <2> QED BY <2>1
<1>2. ASSUME NEW m \in Nat, m \in S PROVE m + 1 \in S
  <2>1. PICK f : Doubles(f, m) BY <1>2
  <2> DEFINE g == [n \in 0 .. m + 1 |-> IF n = m + 1 THEN 2 * f[m] ELSE f[n]]
  <2>2. g[0] = 1 /\ g = [n \in 0 .. m + 1 |-> g[n]] BY <2>1 DEF Doubles
  <2>3. ASSUME NEW n \in 1 .. m + 1 PROVE g[n] = 2 * g[n - 1]
    <3>1. n - 1 \in 0 .. m /\ n - 1 # m + 1 BY <2>3
    <3>2. g[n - 1] = f[n - 1] BY <3>1
    <3>3. CASE n = m + 1 
      <4>1. g[n] = 2 * f[m] /\ n - 1 = m BY <3>3
      <4> QED BY <4>1, <3>2
    <3>4. CASE n # m + 1
      <4>1. n \in 1 .. m BY <3>4
      <4>2. f[n] = 2 * f[n - 1] BY <4>1, <2>1 DEF Doubles
      <4>3. g[n] = f[n] BY <3>4
      <4> QED BY <4>2, <4>3, <3>2
    <3> QED BY <3>3, <3>4
  <2>4. Doubles(g, m + 1) 
    <3> HIDE DEF g
    <3> QED BY <2>2, <2>3 DEF Doubles
  <2> QED BY <2>4
<1> HIDE DEF S
<1>3. \A n \in Nat : n \in S BY <1>1, <1>2, Induct
<1> QED BY <1>3 DEF S

LEMMA TwoToDef == TwoTo[0] = 1 /\ \A n \in Nat : TwoTo[n + 1] = 2 * TwoTo[n]
<1> DEFINE D(f, n) == IF n = 0 THEN 1 ELSE 2 * f[n - 1]
           Eq(h) == h = [n \in Nat |-> D(h, n)]
           upTo(n) == CHOOSE f : Doubles(f, n)
           F == [n \in Nat |-> upTo(n)[n]]
           r == CHOOSE h : Eq(h)
<1>1. TwoTo = r
  BY DEF TwoTo
<1>2. \A n \in Nat : Doubles(upTo(n), n) BY DoublesExists
<1> HIDE DEF upTo
<1>3. F[0] = 1 BY <1>2 DEF Doubles
<1>4. ASSUME NEW n \in Nat, n # 0 PROVE F[n] = 2 * F[n - 1]
  <2>1. n - 1 \in Nat /\ n - 1 <= n /\ n \in 1 .. n /\ n - 1 \in 0 .. n - 1 BY <1>4
  <2>2. Doubles(upTo(n), n) /\ Doubles(upTo(n - 1), n - 1) BY <1>2, <2>1
  <2>3. upTo(n)[n - 1] = upTo(n - 1)[n - 1] BY <2>1, <2>2, DoublesAgree
  <2>4. upTo(n)[n] = 2 * upTo(n)[n - 1] BY <2>1, <2>2 DEF Doubles
  <2>5. F[n] = upTo(n)[n] /\ F[n - 1] = upTo(n - 1)[n - 1] BY <2>1
  <2> QED BY <2>3, <2>4, <2>5
<1>5. Eq(F)
  <2>1. \A n \in Nat : F[n] = D(F, n) BY <1>3, <1>4
  <2>2. F = [n \in Nat |-> F[n]] OBVIOUS
  <2> HIDE DEF F
  <2> QED BY <2>1, <2>2
<1>6. Eq(r)
  <2> HIDE DEF F
  <2> QED BY <1>5
<1> HIDE DEF r
<1>7. r[0] = 1 BY <1>6
<1>8. ASSUME NEW n \in Nat PROVE r[n + 1] = 2 * r[n]
  <2>1. n + 1 \in Nat /\ n + 1 # 0 /\ (n + 1) - 1 = n OBVIOUS
  <2>2. r[n + 1] = D(r, n + 1) BY <1>6, <2>1
  <2> QED BY <2>1, <2>2
<1> QED BY <1>1, <1>7, <1>8

LEMMA TwoToType == \A n \in Nat : TwoTo[n] \in Nat \ {0}
<1> DEFINE S == {n \in Nat : TwoTo[n] \in Nat \ {0}}
<1>1. 0 \in S BY TwoToDef
<1>2. ASSUME NEW n \in Nat, n \in S PROVE n + 1 \in S BY <1>2, TwoToDef
<1> HIDE DEF S
<1>3. \A n \in Nat : n \in S BY <1>1, <1>2, Induct
<1> QED BY <1>3 DEF S

LEMMA TwoToAdd == \A m, n \in Nat : TwoTo[m + n] = TwoTo[m] * TwoTo[n]
<1> TAKE m \in Nat
<1> DEFINE S == {n \in Nat : TwoTo[m + n] = TwoTo[m] * TwoTo[n]}
<1>1. 0 \in S BY TwoToDef, TwoToType
<1>2. ASSUME NEW n \in Nat, n \in S PROVE n + 1 \in S
  <2>1. m + n \in Nat /\ m + (n + 1) = (m + n) + 1 OBVIOUS
  <2>2. TwoTo[m + (n + 1)] = 2 * TwoTo[m + n] /\ TwoTo[n + 1] = 2 * TwoTo[n] BY <2>1, TwoToDef
  <2>3. TwoTo[m] \in Nat /\ TwoTo[n] \in Nat BY TwoToType
  <2>4. TwoTo[m + n] = TwoTo[m] * TwoTo[n] BY <1>2
  <2>5. 2 * (TwoTo[m] * TwoTo[n]) = TwoTo[m] * (2 * TwoTo[n]) BY <2>3
  <2>6. TwoTo[m + (n + 1)] = TwoTo[m] * TwoTo[n + 1] BY <2>2, <2>4, <2>5
  <2> QED BY <2>6
<1> HIDE DEF S
<1>3. \A n \in Nat : n \in S BY <1>1, <1>2, Induct
<1> QED BY <1>3 DEF S

LEMMA TwoToMonotone == \A m, n \in Nat : m <= n => TwoTo[m] <= TwoTo[n]
<1> TAKE m, n \in Nat
<1> HAVE m <= n
<1>1. n - m \in Nat /\ m + (n - m) = n OBVIOUS
<1>2. TwoTo[n] = TwoTo[m] * TwoTo[n - m] BY <1>1, TwoToAdd
<1>3. TwoTo[m] \in Nat /\ TwoTo[n - m] \in Nat \ {0} BY <1>1, TwoToType
<1>4. \A a \in Nat, b \in Nat \ {0} : a <= a * b OBVIOUS
<1> QED BY <1>2, <1>3, <1>4

LEMMA Division ==
  ASSUME NEW a \in Int, NEW m \in Nat \ {0}
  PROVE  /\ a % m \in 0 .. m - 1 /\ a \div m \in Int
         /\ a = m * (a \div m) + (a % m)
OBVIOUS

LEMMA FxConstants ==
  /\ FracBits \in Nat \ {0} /\ WordBits \in Nat /\ WordBits > FracBits + 1
  /\ One \in Nat /\ One >= 2 /\ Half \in Nat /\ One = 2 * Half
  /\ MaxRaw \in Nat /\ MinRaw \in Int /\ MinRaw = -MaxRaw - 1 /\ MaxRaw >= 2 * One - 1
  /\ \E scale \in Nat : MaxRaw + 1 = One * scale
  /\ (MaxRaw + 1) * One <= TwoTo[2 * WordBits]
<1>1. FracBits \in Nat \ {0} /\ WordBits \in Nat /\ WordBits > FracBits + 1
  BY FixedPointAssumption
<1>2. One \in Nat /\ One >= 2 /\ Half \in Nat /\ One = 2 * Half
  <2>1. FracBits - 1 \in Nat /\ (FracBits - 1) + 1 = FracBits BY <1>1
  <2>2. TwoTo[FracBits] = 2 * TwoTo[FracBits - 1] BY <2>1, TwoToDef
  <2>3. TwoTo[FracBits - 1] \in Nat \ {0} BY <2>1, TwoToType
  <2> QED BY <2>2, <2>3 DEF One, Half
<1>3. TwoTo[WordBits - 1] \in Nat /\ TwoTo[WordBits - 1] >= 2 * One
  <2>1. WordBits - 1 \in Nat /\ FracBits + 1 \in Nat /\ FracBits + 1 <= WordBits - 1 BY <1>1
  <2>2. TwoTo[FracBits + 1] <= TwoTo[WordBits - 1] BY <2>1, TwoToMonotone
  <2>3. TwoTo[FracBits + 1] = 2 * One BY <1>1, TwoToDef DEF One
  <2>4. TwoTo[WordBits - 1] \in Nat BY <2>1, TwoToType
  <2> QED BY <2>2, <2>3, <2>4
<1>4. MaxRaw \in Nat /\ MinRaw \in Int /\ MinRaw = -MaxRaw - 1 /\ MaxRaw >= 2 * One - 1 /\ MaxRaw + 1 = TwoTo[WordBits - 1]
  BY <1>2, <1>3 DEF MaxRaw, MinRaw
<1>5. \E scale \in Nat : MaxRaw + 1 = One * scale
  <2>1. WordBits - 1 - FracBits \in Nat /\ FracBits + (WordBits - 1 - FracBits) = WordBits - 1 BY <1>1
  <2>2. TwoTo[WordBits - 1] = One * TwoTo[WordBits - 1 - FracBits] BY <1>1, <2>1, TwoToAdd DEF One
  <2>3. TwoTo[WordBits - 1 - FracBits] \in Nat BY <2>1, TwoToType
  <2> QED BY <1>4, <2>2, <2>3
<1>6. (MaxRaw + 1) * One <= TwoTo[2 * WordBits]
  <2>1. WordBits - 1 \in Nat /\ (WordBits - 1) + FracBits \in Nat /\ (WordBits - 1) + FracBits <= 2 * WordBits BY <1>1
  <2>2. TwoTo[(WordBits - 1) + FracBits] = (MaxRaw + 1) * One BY <1>1, <1>4, <2>1, TwoToAdd DEF One
  <2>3. TwoTo[(WordBits - 1) + FracBits] <= TwoTo[2 * WordBits] BY <2>1, <1>1, TwoToMonotone
  <2> QED BY <2>2, <2>3
<1> QED BY <1>1, <1>2, <1>4, <1>5, <1>6

(***************************************************************************)
(* The square root.                                                        *)
(***************************************************************************)
LEMMA TopBitExists ==
  ASSUME NEW n \in Nat, n # 0, n < TwoTo[2 * (WordBits + 1)]
  PROVE  /\ TopBit(n) \in Nat /\ TopBit(n) <= WordBits
         /\ n < TwoTo[2 * (TopBit(n) + 1)]
<1>0. WordBits \in Nat BY FixedPointAssumption
<1> DEFINE S == {k \in Nat : TwoTo[2 * k] <= n}
           Good(k) == TwoTo[2 * k] <= n /\ n < TwoTo[2 * (k + 1)]
<1>1. 0 \in S
  <2>1. 2 * 0 = 0 OBVIOUS
  <2> QED BY <2>1, TwoToDef
<1>2. \E k \in 0 .. WordBits : Good(k)
  <2> SUFFICES ASSUME \A k \in 0 .. WordBits : ~Good(k) PROVE FALSE
    OBVIOUS
  <2> DEFINE T == {k \in Nat : k <= WordBits + 1 => TwoTo[2 * k] <= n}
  <2>1. 0 \in T BY <1>1
  <2>2. ASSUME NEW k \in Nat, k \in T PROVE k + 1 \in T
    <3>1. CASE k + 1 <= WordBits + 1
      <4>1. k \in 0 .. WordBits /\ TwoTo[2 * k] <= n BY <3>1, <2>2, <1>0
      <4>2. ~(n < TwoTo[2 * (k + 1)]) BY <4>1
      <4>3. TwoTo[2 * (k + 1)] \in Nat BY TwoToType
      <4> QED BY <4>2, <4>3
    <3> QED BY <3>1
  <2> HIDE DEF T
  <2>3. \A k \in Nat : k \in T BY <2>1, <2>2, Induct
  <2>4. WordBits + 1 \in T BY <2>3, <1>0
  <2>5. TwoTo[2 * (WordBits + 1)] <= n BY <2>4, <1>0 DEF T
  <2>6. TwoTo[2 * (WordBits + 1)] \in Nat BY <1>0, TwoToType
  <2> QED BY <2>5, <2>6
<1>3. TopBit(n) \in 0 .. WordBits /\ Good(TopBit(n))
  BY <1>2 DEF TopBit
<1> QED BY <1>0, <1>3

(* What is left of n, and how the root is kept, once the bits from k on    *)
(* are done.                                                               *)
Partial(s, n, k) ==
  \E root \in Nat : /\ s.x = root * TwoTo[k] /\ s.rem = n - root * root
                    /\ root * root <= n /\ n < (root + TwoTo[k]) * (root + TwoTo[k])

BitDone(s, k) ==
  LET bit == TwoTo[2 * k]
  IN IF s.rem >= s.x + bit THEN [x |-> s.x \div 2 + bit, rem |-> s.rem - (s.x + bit)]
     ELSE [s EXCEPT !.x = @ \div 2]

RootState == [x : Int, rem : Int]

LEMMA BitDoneType ==
  ASSUME NEW s \in RootState, NEW k \in Nat
  PROVE  BitDone(s, k) \in RootState
<1>1. TwoTo[2 * k] \in Nat BY TwoToType
<1> QED BY <1>1 DEF BitDone, RootState

LEMMA OneBit ==
  ASSUME NEW n \in Nat, NEW k \in Nat, NEW s \in RootState, Partial(s, n, k + 1)
  PROVE  Partial(BitDone(s, k), n, k)
<1>1. PICK r \in Nat : /\ s.x = r * TwoTo[k + 1] /\ s.rem = n - r * r
                       /\ r * r <= n /\ n < (r + TwoTo[k + 1]) * (r + TwoTo[k + 1])
  BY DEF Partial
<1>2. PICK t \in Nat \ {0} : t = TwoTo[k] BY TwoToType
<1>3. TwoTo[k + 1] = 2 * t BY <1>2, TwoToDef
<1>4. TwoTo[2 * k] = t * t
  <2>1. 2 * k = k + k OBVIOUS
  <2> QED BY <1>2, <2>1, TwoToAdd
<1>5. s.x = 2 * (r * t)
  <2>1. r * (2 * t) = 2 * (r * t) BY <1>2
  <2> QED BY <1>1, <1>3, <2>1
<1>6. s.x \div 2 = r * t
  <2>1. r * t \in Nat BY <1>2
  <2> QED BY <1>5, <2>1
<1>7. n < (r + 2 * t) * (r + 2 * t) BY <1>1, <1>3
<1>8. (r + t) * (r + t) = r * r + 2 * (r * t) + t * t BY <1>2
<1>9. r * t \in Nat /\ t * t \in Nat /\ r * r \in Nat BY <1>2
<1>10. CASE s.rem >= s.x + t * t
  <2>1. BitDone(s, k) = [x |-> r * t + t * t, rem |-> s.rem - (s.x + t * t)]
    BY <1>10, <1>4, <1>6 DEF BitDone
  <2>2. BitDone(s, k).x = r * t + t * t /\ BitDone(s, k).rem = s.rem - (s.x + t * t) BY <2>1
  <2>3. r * t + t * t = (r + t) * t BY <1>2
  <2>4. BitDone(s, k).rem = n - (r + t) * (r + t) BY <2>2, <1>1, <1>5, <1>8, <1>9
  <2>5. (r + t) * (r + t) <= n BY <1>10, <1>1, <1>5, <1>8, <1>9
  <2>6. r + t \in Nat /\ (r + t) + t = r + 2 * t BY <1>2
  <2>7. n < ((r + t) + t) * ((r + t) + t) BY <1>7, <2>6
  <2> QED BY <1>2, <2>2, <2>3, <2>4, <2>5, <2>6, <2>7 DEF Partial
<1>11. CASE ~(s.rem >= s.x + t * t)
  <2>1. BitDone(s, k) = [s EXCEPT !.x = r * t]
    BY <1>11, <1>4, <1>6 DEF BitDone
  <2>2. BitDone(s, k).x = r * t /\ BitDone(s, k).rem = n - r * r BY <2>1, <1>1 DEF RootState
  <2>3. n < (r + t) * (r + t) BY <1>11, <1>1, <1>5, <1>8, <1>9
  <2> QED BY <1>1, <1>2, <2>2, <2>3 DEF Partial
<1> QED BY <1>10, <1>11

LEMMA IsqrtIsFloor ==
  ASSUME NEW n \in Nat, n < TwoTo[2 * (WordBits + 1)]
  PROVE  /\ Isqrt(n) \in Nat
         /\ Isqrt(n) * Isqrt(n) <= n /\ n < (Isqrt(n) + 1) * (Isqrt(n) + 1)
<1>1. CASE n = 0
  BY <1>1 DEF Isqrt
<1>2. CASE n # 0
  <2>1. TopBit(n) \in Nat /\ n < TwoTo[2 * (TopBit(n) + 1)]
    BY <1>2, TopBitExists
  <2> DEFINE top == TopBit(n)
             first == [x |-> 0, rem |-> n]
             D(h, k) == IF k = top + 1 THEN first ELSE BitDone(h[k + 1], k)
             Eq(h) == h = [k \in 0 .. top + 1 |-> D(h, k)]
             r == CHOOSE h : Eq(h)
  <2>2. Isqrt(n) = r[0].x
    BY <1>2 DEF Isqrt, BitDone
  <2> HIDE DEF top
  <2>3. \E h : Eq(h)
    <3> DEFINE Downto(h, m) == /\ h \in [m .. top + 1 -> RootState] /\ h[top + 1] = first
                               /\ \A k \in m .. top : h[k] = BitDone(h[k + 1], k)
               S == {j \in Nat : j <= top + 1 => \E h : Downto(h, top + 1 - j)}
    <3>0. top \in Nat /\ first \in RootState BY <2>1 DEF top, RootState
    <3>1. 0 \in S
      <4> DEFINE h == [k \in top + 1 .. top + 1 |-> first]
      <4>1. Downto(h, top + 1) BY <3>0
      <4>2. top + 1 - 0 = top + 1 BY <3>0
      <4> QED BY <4>1, <4>2
    <3>2. ASSUME NEW j \in Nat, j \in S PROVE j + 1 \in S
      <4>1. CASE j + 1 <= top + 1
        <5> DEFINE m == top + 1 - j
        <5>1. m \in 1 .. top + 1 /\ top + 1 - (j + 1) = m - 1 /\ m - 1 \in 0 .. top BY <4>1, <3>0
        <5>2. PICK h : Downto(h, m) BY <3>2, <4>1, <3>0
        <5> DEFINE g == [k \in m - 1 .. top + 1 |-> IF k = m - 1 THEN BitDone(h[m], m - 1) ELSE h[k]]
        <5> HIDE DEF m
        <5>3. h[m] \in RootState /\ BitDone(h[m], m - 1) \in RootState
          BY <5>1, <5>2, BitDoneType
        <5>4. g \in [m - 1 .. top + 1 -> RootState] BY <5>1, <5>2, <5>3, <3>0
        <5>5. g[top + 1] = first BY <5>1, <5>2, <3>0
        <5>6. ASSUME NEW k \in m - 1 .. top PROVE g[k] = BitDone(g[k + 1], k)
          <6>1. k + 1 \in m .. top + 1 /\ k + 1 # m - 1 BY <5>1, <3>0
          <6>2. g[k + 1] = h[k + 1] BY <6>1, <5>1, <3>0
          <6>3. CASE k = m - 1
            <7>1. k + 1 = m /\ g[k] = BitDone(h[m], m - 1) BY <6>3, <5>1, <3>0
            <7> QED BY <7>1, <6>2, <6>3
          <6>4. CASE k # m - 1
            <7>1. k \in m .. top /\ g[k] = h[k] BY <6>4, <5>1, <3>0
            <7> QED BY <7>1, <5>2, <6>2
          <6> QED BY <6>3, <6>4
        <5> HIDE DEF g
        <5>7. Downto(g, m - 1) BY <5>4, <5>5, <5>6
        <5> HIDE DEF Downto
        <5>8. \E g1 : Downto(g1, top + 1 - (j + 1)) BY <5>7, <5>1
        <5> QED BY <5>8
      <4> QED BY <4>1
    <3> HIDE DEF S
    <3>3. \A j \in Nat : j \in S BY <3>1, <3>2, Induct
    <3>4. PICK h : Downto(h, 0)
      <4>1. top + 1 \in S /\ top + 1 - (top + 1) = 0 BY <3>3, <3>0
      <4> QED BY <4>1, <3>0 DEF S
    <3>5. \A k \in 0 .. top + 1 : h[k] = D(h, k) BY <3>4, <3>0
    <3>6. h = [k \in 0 .. top + 1 |-> h[k]] BY <3>4
    <3>7. Eq(h) BY <3>5, <3>6
    <3> QED BY <3>7
  <2>4. Eq(r) BY <2>3
  <2> HIDE DEF r
  <2>5. top \in Nat BY <2>1 DEF top
  <2>6. r[top + 1] = first BY <2>4, <2>5
  <2>7. ASSUME NEW k \in 0 .. top PROVE r[k] = BitDone(r[k + 1], k)
    <3>1. r[k] = D(r, k) BY <2>4, <2>5
    <3> QED BY <3>1, <2>5
  <2> DEFINE S == {j \in Nat : j <= top + 1 => /\ r[top + 1 - j] \in RootState
                                              /\ Partial(r[top + 1 - j], n, top + 1 - j)}
  <2>8. 0 \in S
    <3>1. top + 1 - 0 = top + 1 /\ r[top + 1].x = 0 /\ r[top + 1].rem = n BY <2>5, <2>6
    <3>2. PICK t \in Nat : t = TwoTo[top + 1] BY <2>5, TwoToType
    <3>3. TwoTo[2 * (top + 1)] = t * t
      <4>1. 2 * (top + 1) = (top + 1) + (top + 1) /\ top + 1 \in Nat BY <2>5
      <4> QED BY <4>1, <3>2, TwoToAdd
    <3>4. n < (0 + t) * (0 + t) BY <2>1, <3>2, <3>3 DEF top
    <3>5. Partial(r[top + 1], n, top + 1)
      <4>1. 0 \in Nat /\ r[top + 1].x = 0 * t /\ r[top + 1].rem = n - 0 * 0 /\ 0 * 0 <= n BY <3>1, <3>2
      <4> QED BY <4>1, <3>2, <3>4 DEF Partial
    <3>6. r[top + 1] \in RootState BY <2>6 DEF RootState
    <3> QED BY <3>1, <3>5, <3>6
  <2>9. ASSUME NEW j \in Nat, j \in S PROVE j + 1 \in S
    <3>1. CASE j + 1 <= top + 1
      <4> DEFINE k == top - j
      <4>1. k \in 0 .. top /\ k \in Nat /\ top + 1 - j = k + 1 /\ top + 1 - (j + 1) = k BY <3>1, <2>5
      <4> HIDE DEF k
      <4>2. r[k + 1] \in RootState /\ Partial(r[k + 1], n, k + 1) BY <2>9, <3>1, <4>1, <2>5
      <4>3. r[k] = BitDone(r[k + 1], k) BY <4>1, <2>7
      <4>4. r[k] \in RootState BY <4>1, <4>2, <4>3, BitDoneType
      <4>5. Partial(r[k], n, k) BY <4>1, <4>2, <4>3, OneBit
      <4> QED BY <4>1, <4>4, <4>5
    <3> QED BY <3>1
  <2> HIDE DEF S
  <2>10. \A j \in Nat : j \in S BY <2>8, <2>9, Induct
  <2>11. Partial(r[0], n, 0)
    <3>1. top + 1 \in S /\ top + 1 - (top + 1) = 0 BY <2>5, <2>10
    <3> QED BY <3>1, <2>5 DEF S
  <2>12. \E root \in Nat : r[0].x = root /\ root * root <= n /\ n < (root + 1) * (root + 1)
    BY <2>11, TwoToDef DEF Partial
  <2> QED BY <2>2, <2>12
<1> QED BY <1>1, <1>2

(* The root is the largest number whose square is not above the operand,   *)
(* for every operand of every width (lib.rs isqrt_u128).                   *)
LEMMA SqrtIsFloor ==
  ASSUME NEW a \in Fx, a > 0
  PROVE  /\ Sqrt(a) \in Nat
         /\ Sqrt(a) * Sqrt(a) <= a * One /\ a * One < (Sqrt(a) + 1) * (Sqrt(a) + 1)
<1>1. a \in Nat /\ a <= MaxRaw /\ One \in Nat /\ MaxRaw \in Nat /\ WordBits \in Nat
  BY FxConstants DEF Fx
<1>2. a * One \in Nat BY <1>1
<1>3. a * One <= (MaxRaw + 1) * One BY <1>1
<1>4. (MaxRaw + 1) * One <= TwoTo[2 * WordBits] BY FxConstants
<1>5. TwoTo[2 * (WordBits + 1)] = 4 * TwoTo[2 * WordBits] /\ TwoTo[2 * WordBits] \in Nat \ {0}
  <2>1. 2 * WordBits \in Nat /\ 2 * (WordBits + 1) = (2 * WordBits + 1) + 1 BY <1>1
  <2>2. TwoTo[2 * (WordBits + 1)] = 2 * (2 * TwoTo[2 * WordBits]) BY <2>1, TwoToDef
  <2>3. TwoTo[2 * WordBits] \in Nat \ {0} BY <2>1, TwoToType
  <2> QED BY <2>2, <2>3
<1>6. (MaxRaw + 1) * One \in Nat BY <1>1
<1>7. a * One < TwoTo[2 * (WordBits + 1)] BY <1>2, <1>3, <1>4, <1>5, <1>6
<1> DEFINE n == a * One
<1>8. Sqrt(a) = Isqrt(n) BY <1>1 DEF Sqrt
<1>9. n \in Nat /\ n < TwoTo[2 * (WordBits + 1)] BY <1>2, <1>7
<1> HIDE DEF n
<1>10. Isqrt(n) \in Nat /\ Isqrt(n) * Isqrt(n) <= n /\ n < (Isqrt(n) + 1) * (Isqrt(n) + 1)
  BY <1>9, IsqrtIsFloor
<1> QED BY <1>8, <1>10 DEF n

LEMMA SqrtType == \A a \in Int : a <= MaxRaw => Sqrt(a) \in Nat
<1> SUFFICES ASSUME NEW a \in Int, a <= MaxRaw PROVE Sqrt(a) \in Nat
  OBVIOUS
<1>1. CASE a <= 0
  BY <1>1 DEF Sqrt
<1>2. CASE a > 0
  <2>1. a \in Fx BY <1>2, FxConstants DEF Fx
  <2> QED BY <1>2, <2>1, SqrtIsFloor
<1> QED BY <1>1, <1>2

(***************************************************************************)
(* The laws of the numbers.                                                *)
(***************************************************************************)
LEMMA SaturatedIs ==
  ASSUME NEW v \in Int
  PROVE  /\ Saturated(v) \in Fx /\ Saturated(v) \in Int
         /\ v \in Fx => Saturated(v) = v
         /\ v \notin Fx => Saturated(v) = IF v > 0 THEN MaxRaw ELSE MinRaw
BY FxConstants DEF Saturated, Fx

LEMMA FxAreInts == \A a \in Fx : a \in Int /\ -a \in Int /\ Magnitude(a) \in Nat
BY FxConstants DEF Fx, Magnitude

LEMMA TruncatedIs ==
  ASSUME NEW a \in Int, NEW b \in Int, b # 0
  PROVE  LET t == Truncated(a, b)
         IN /\ t \in Int
            /\ Magnitude(t * b) <= Magnitude(a)
            /\ Magnitude(a - t * b) < Magnitude(b)
            /\ a - t * b # 0 => (a - t * b < 0) = (a < 0)
            /\ t # 0 => (t > 0) = ((a < 0) = (b < 0))
<1>1. PICK m \in Nat : m = Magnitude(a) BY DEF Magnitude
<1>2. PICK d \in Nat \ {0} : d = Magnitude(b) BY DEF Magnitude
<1>3. PICK q \in Nat : q = m \div d BY <1>1, <1>2
<1>4. m = d * q + (m % d) /\ m % d \in 0 .. d - 1 BY <1>3, Division
<1>5. d * q \in Nat BY <1>2
<1>6. Truncated(a, b) = IF (a < 0) = (b < 0) THEN q ELSE -q BY <1>1, <1>2, <1>3 DEF Truncated
<1>7. (b > 0 => b = d) /\ (b < 0 => b = -d) /\ (a >= 0 => a = m) /\ (a < 0 => a = -m) BY <1>1, <1>2 DEF Magnitude
<1>8. q * d = d * q /\ q * (-d) = -(d * q) /\ (-q) * d = -(d * q) /\ (-q) * (-d) = d * q BY <1>2
<1>9. Truncated(a, b) * b = IF a < 0 THEN -(d * q) ELSE d * q
  BY <1>6, <1>7, <1>8
<1> DEFINE t == Truncated(a, b)
           p == t * b
<1>10. t \in Int BY <1>6
<1>11. p \in Int /\ p = IF a < 0 THEN -(d * q) ELSE d * q BY <1>9, <1>5
<1>12. t # 0 => (t > 0) = ((a < 0) = (b < 0)) BY <1>6
<1> HIDE DEF t, p
<1>13. Magnitude(p) <= Magnitude(a) BY <1>1, <1>4, <1>5, <1>7, <1>11 DEF Magnitude
<1>14. Magnitude(a - p) < d BY <1>1, <1>2, <1>4, <1>5, <1>7, <1>11 DEF Magnitude
<1>15. a - p # 0 => (a - p < 0) = (a < 0) BY <1>1, <1>2, <1>4, <1>5, <1>7, <1>11
<1> QED BY <1>10, <1>12, <1>13, <1>14, <1>15, <1>2 DEF t, p

LEMMA AddIsLawful ==
  ASSUME NEW a \in Fx, NEW b \in Fx
  PROVE  NumberLaw("add", a, b, Add(a, b)) /\ NumberLaw("sub", a, b, Sub(a, b)) /\ NumberLaw("neg", a, b, Neg(a))
<1>1. a \in Int /\ b \in Int BY FxAreInts
<1> QED BY <1>1, SaturatedIs, FxConstants
    DEF NumberLaw, IsSaturated, IsChecked, Overflows, CheckedAdd, CheckedSub, Checked, Add, Sub, Neg

LEMMA MulIsLawful ==
  ASSUME NEW a \in Fx, NEW b \in Fx
  PROVE  NumberLaw("mul", a, b, Mul(a, b))
<1>1. a \in Int /\ b \in Int /\ One \in Nat /\ One >= 2 /\ MaxRaw \in Nat /\ MinRaw = -MaxRaw - 1 BY FxAreInts, FxConstants
<1>2. PICK p \in Int : p = a * b BY <1>1
<1>3. PICK q \in Int : q = p \div One BY <1>1, <1>2
<1>4. One * q <= p /\ p <= One * q + One - 1 BY <1>1, <1>3
<1>5. q * One = One * q BY <1>1
<1>6. Mul(a, b) = Saturated(q) /\ CheckedMul(a, b) = Checked(q) BY <1>2, <1>3 DEF Mul, CheckedMul
<1>7. CASE q \in Fx
  <2>1. Mul(a, b) = q /\ CheckedMul(a, b) = q /\ q # Nothing BY <1>7, <1>6, <1>1, SaturatedIs DEF Checked, Nothing, Fx
  <2>2. Between(q * One, a * b, q * One + One - 1) BY <1>2, <1>4, <1>5, <1>1 DEF Between
  <2> QED BY <2>1, <2>2 DEF NumberLaw
<1>8. CASE q \notin Fx
  <2>1. Mul(a, b) = (IF q > 0 THEN MaxRaw ELSE MinRaw) /\ CheckedMul(a, b) = Nothing
    BY <1>8, <1>6, SaturatedIs DEF Checked
  <2>2. q > 0 => p > 0
    <3>1. q > 0 => One * q > 0 BY <1>1
    <3> QED BY <3>1, <1>4, <1>1
  <2>3. q < 0 => p < 0
    <3>1. q < 0 => One * q <= -One BY <1>1
    <3> QED BY <3>1, <1>4, <1>1
  <2>4. q # 0 BY <1>8, <1>1 DEF Fx
  <2>5. p > 0 => (a < 0) = (b < 0)
    <3>1. a < 0 /\ b >= 0 => a * b <= 0 BY <1>1
    <3>2. a >= 0 /\ b < 0 => a * b <= 0 BY <1>1
    <3> QED BY <3>1, <3>2, <1>1, <1>2
  <2>6. p < 0 => (a < 0) # (b < 0)
    <3>1. a < 0 /\ b < 0 => a * b >= 0 BY <1>1
    <3>2. a >= 0 /\ b >= 0 => a * b >= 0 BY <1>1
    <3> QED BY <3>1, <3>2, <1>1, <1>2
  <2>7. Mul(a, b) = IF (a < 0) = (b < 0) THEN MaxRaw ELSE MinRaw BY <2>1, <2>2, <2>3, <2>4, <2>5, <2>6
  <2> QED BY <2>1, <2>7 DEF NumberLaw
<1> QED BY <1>7, <1>8

LEMMA DivIsLawful ==
  ASSUME NEW a \in Fx, NEW b \in Fx
  PROVE  NumberLaw("div", a, b, Div(a, b))
<1>1. a \in Int /\ b \in Int /\ One \in Nat /\ One >= 2 /\ MaxRaw \in Nat /\ MinRaw = -MaxRaw - 1 BY FxAreInts, FxConstants
<1>2. CASE b = 0
  BY <1>2 DEF NumberLaw, Div, Extreme
<1>3. CASE b # 0
  <2>1. PICK n \in Int : n = a * One BY <1>1
  <2>2. PICK t : t = Truncated(n, b) OBVIOUS
  <2>3. /\ t \in Int /\ Magnitude(t * b) <= Magnitude(n) /\ Magnitude(n - t * b) < Magnitude(b)
        /\ t # 0 => (t > 0) = ((n < 0) = (b < 0))
    BY <1>1, <1>3, <2>1, <2>2, TruncatedIs
  <2>4. Div(a, b) = Saturated(t) /\ CheckedDiv(a, b) = Checked(t) BY <1>3, <2>1, <2>2 DEF Div, CheckedDiv
  <2>5. CASE t \in Fx
    <3>1. Div(a, b) = t /\ CheckedDiv(a, b) = t /\ t # Nothing BY <2>5, <2>4, <1>1, <2>3, SaturatedIs DEF Checked, Nothing, Fx
    <3>2. ASSUME a % One = 0, b % One = 0 PROVE t = FromRatio(a \div One, b \div One)
      <4>1. PICK i \in Int : i = a \div One BY <1>1
      <4>2. PICK j \in Int : j = b \div One BY <1>1
      <4>3. a = One * i /\ b = One * j BY <4>1, <4>2, <3>2, <1>1
      <4>4. j # 0 BY <4>3, <1>3, <1>1
      <4>5. i * One = a BY <4>3, <1>1
      <4>6. Truncated(i * One, j) = t
        <5>1. PICK m \in Nat : m = Magnitude(a) BY <1>1 DEF Magnitude
        <5>2. PICK d \in Nat \ {0} : d = Magnitude(j) BY <4>4 DEF Magnitude
        <5>3. Magnitude(n) = m * One
          <6>1. (-a) * One = -(a * One) BY <1>1
          <6>2. a < 0 => a * One < 0 BY <1>1
          <6>3. a >= 0 => a * One >= 0 BY <1>1
          <6> QED BY <6>1, <6>2, <6>3, <5>1, <2>1, <1>1 DEF Magnitude
        <5>4. Magnitude(b) = d * One
          <6>1. One * (-j) = -(One * j) /\ One * (-j) = (-j) * One /\ One * j = j * One BY <1>1, <4>2
          <6>2. j < 0 => One * j < 0 BY <1>1
          <6>3. j >= 0 => One * j >= 0 BY <1>1
          <6> QED BY <6>1, <6>2, <6>3, <5>2, <4>3, <1>1 DEF Magnitude
        <5>5. (m * One) \div (d * One) = m \div d
          <6>1. PICK q \in Nat : q = m \div d BY <5>1, <5>2
          <6>2. d * q <= m /\ m < d * q + d BY <6>1, <5>1, <5>2
          <6>3. (d * q) * One <= m * One BY <6>2, <1>1, <5>1, <5>2
          <6>4. m * One < (d * q + d) * One
            <7>1. \A x, y \in Int : x < y => x * One < y * One BY <1>1
            <7>2. d * q + d \in Int BY <5>2
            <7> QED BY <7>1, <7>2, <6>2, <5>1
          <6>5. (d * q) * One = (d * One) * q /\ (d * q + d) * One = (d * One) * q + d * One BY <1>1, <5>2
          <6>6. PICK w \in Nat \ {0} : w = d * One BY <1>1, <5>2
          <6>7. PICK z \in Nat : z = m * One BY <1>1, <5>1
          <6>8. w * q <= z /\ z < w * q + w BY <6>3, <6>4, <6>5, <6>6, <6>7
          <6>9. z \div w = q BY <6>8
          <6> QED BY <6>9, <6>6, <6>7, <6>1
        <5>6. Magnitude(n) \div Magnitude(b) = Magnitude(a) \div Magnitude(j) BY <5>1, <5>2, <5>3, <5>4, <5>5
        <5>7. (n < 0) = (a < 0) /\ (b < 0) = (j < 0)
          <6>1. (a < 0 => a * One < 0) /\ (a >= 0 => a * One >= 0) BY <1>1
          <6>2. (j < 0 => One * j < 0) /\ (j >= 0 => One * j >= 0) BY <1>1
          <6> QED BY <6>1, <6>2, <2>1, <4>3, <1>1
        <5> QED BY <5>6, <5>7, <4>5, <2>2 DEF Truncated
      <4>7. FromRatio(i, j) = Saturated(t) BY <4>4, <4>6 DEF FromRatio
      <4> QED BY <4>7, <4>1, <4>2, <2>5, <2>3, SaturatedIs
    <3> QED BY <3>1, <3>2, <2>1, <2>3, <1>3 DEF NumberLaw
  <2>6. CASE t \notin Fx
    <3>1. Div(a, b) = (IF t > 0 THEN MaxRaw ELSE MinRaw) /\ CheckedDiv(a, b) = Nothing
      BY <2>6, <2>4, <2>3, SaturatedIs DEF Checked
    <3>2. t # 0 BY <2>6, <1>1 DEF Fx
    <3>3. (n < 0) = (a < 0)
      <4>1. (a < 0 => a * One < 0) /\ (a >= 0 => a * One >= 0) BY <1>1
      <4> QED BY <4>1, <2>1, <1>1
    <3> QED BY <3>1, <3>2, <3>3, <2>3, <1>3 DEF NumberLaw
  <2> QED BY <2>5, <2>6
<1> QED BY <1>2, <1>3

LEMMA RemIsLawful ==
  ASSUME NEW a \in Fx, NEW b \in Fx
  PROVE  NumberLaw("rem", a, b, Rem(a, b))
<1>1. a \in Int /\ b \in Int BY FxAreInts
<1>2. ASSUME b # 0
      PROVE  /\ Magnitude(Rem(a, b)) < Magnitude(b)
             /\ (a - Rem(a, b)) % Magnitude(b) = 0
             /\ Rem(a, b) # 0 => (Rem(a, b) < 0) = (a < 0)
  <2>1. PICK t : t = Truncated(a, b) OBVIOUS
  <2>2. /\ t \in Int /\ Magnitude(a - t * b) < Magnitude(b)
        /\ a - t * b # 0 => (a - t * b < 0) = (a < 0)
    BY <2>1, <1>1, <1>2, TruncatedIs
  <2>3. t \in Int BY <2>2
  <2>4. PICK p \in Int : p = t * b /\ p = b * t BY <1>1, <2>3
  <2>5. Rem(a, b) = a - p BY <1>2, <2>1, <2>4 DEF Rem
  <2>6. PICK d \in Nat \ {0} : d = Magnitude(b) BY <1>1, <1>2 DEF Magnitude
  <2>7. \E u \in Int : p = d * u
    <3>1. CASE b > 0 
      <4>1. d = b BY <3>1, <2>6, <1>1 DEF Magnitude
      <4> QED BY <4>1, <2>3, <2>4
    <3>2. CASE b < 0
      <4>1. d = -b BY <3>2, <2>6, <1>1 DEF Magnitude
      <4>2. (-b) * (-t) = b * t /\ -t \in Int BY <1>1, <2>3
      <4> QED BY <4>1, <4>2, <2>4
    <3> QED BY <3>1, <3>2, <1>1, <1>2
  <2>8. PICK u \in Int : p = d * u BY <2>7
  <2>9. a - Rem(a, b) = d * u BY <2>5, <2>8, <2>4, <1>1
  <2>10. (d * u) % d = 0 BY <2>6
  <2>11. Magnitude(a - p) < Magnitude(b) /\ (a - p # 0 => (a - p < 0) = (a < 0)) BY <2>2, <2>4
  <2> QED BY <2>11, <2>5, <2>9, <2>10, <2>6
<1> QED BY <1>2 DEF NumberLaw

LEMMA SqrtIsLawful ==
  ASSUME NEW a \in Fx, NEW b \in Fx
  PROVE  NumberLaw("sqrt", a, b, Sqrt(a))
<1>1. a \in Int /\ One \in Int BY FxAreInts, FxConstants
<1>2. ASSUME a > 0 PROVE Between(Sqrt(a) * Sqrt(a), a * One, (Sqrt(a) + 1) * (Sqrt(a) + 1) - 1)
  <2>1. PICK r \in Nat : r = Sqrt(a) BY <1>2, SqrtIsFloor
  <2>2. r * r <= a * One /\ a * One < (r + 1) * (r + 1) BY <1>2, <2>1, SqrtIsFloor
  <2>3. a * One \in Int /\ (r + 1) * (r + 1) \in Int BY <1>1
  <2>4. a * One <= (r + 1) * (r + 1) - 1 BY <2>2, <2>3
  <2> QED BY <2>1, <2>2, <2>4 DEF Between
<1> QED BY <1>2 DEF NumberLaw

LEMMA WholeIs ==
  ASSUME NEW v \in Fx
  PROVE  /\ Whole(v) \in Fx /\ Whole(v) \in Int /\ Whole(v) % One = 0
         /\ Whole(v) <= v /\ v <= Whole(v) + One - 1
<1>1. v \in Int /\ One \in Nat /\ One >= 2 /\ MaxRaw \in Nat /\ MinRaw = -MaxRaw - 1 BY FxAreInts, FxConstants
<1>2. PICK k \in Nat : MaxRaw + 1 = One * k BY FxConstants
<1>3. PICK q \in Int : q = v \div One BY <1>1
<1>4. v = One * q + (v % One) /\ v % One \in 0 .. One - 1 BY <1>1, <1>3, Division
<1>5. Whole(v) = One * q /\ One * q \in Int
  <2>1. PICK p \in Int : p = One * q BY <1>1
  <2>2. v % One \in Int /\ v = p + (v % One) BY <2>1, <1>4
  <2>3. Whole(v) = p BY <2>2, <1>1, <2>1 DEF Whole
  <2> QED BY <2>1, <2>3
<1>6. (One * q) % One = 0 BY <1>1
<1>7. One * q <= v /\ v <= One * q + One - 1 BY <1>4, <1>1
<1>8. -(One * k) <= One * q
  <2>1. -(One * k) <= v BY <1>1, <1>2 DEF Fx
  <2>2. One * (-k) = -(One * k) BY <1>1
  <2>3. One * (-k) <= One * q + One - 1 BY <2>1, <2>2, <1>7, <1>1
  <2>4. -k <= q
    <3>1. ~(-k <= q) => One * (q + 1) <= One * (-k) BY <1>1
    <3>2. One * (q + 1) = One * q + One BY <1>1
    <3> QED BY <3>1, <3>2, <2>3, <1>1
  <2>5. One * (-k) <= One * q BY <2>4, <1>1
  <2> QED BY <2>2, <2>5
<1>9. One * q \in Fx BY <1>1, <1>2, <1>7, <1>8 DEF Fx
<1> QED BY <1>5, <1>6, <1>7, <1>9

LEMMA RoundingIsLawful ==
  ASSUME NEW a \in Fx, NEW b \in Fx
  PROVE  /\ NumberLaw("floor", a, b, Floor(a)) /\ NumberLaw("ceil", a, b, Ceil(a))
         /\ NumberLaw("round", a, b, Round(a)) /\ NumberLaw("frac", a, b, Frac(a))
<1>1. /\ a \in Int /\ b \in Int /\ One \in Nat /\ One >= 2 /\ Half \in Nat /\ One = 2 * Half
      /\ MaxRaw \in Nat /\ MinRaw = -MaxRaw - 1 BY FxAreInts, FxConstants
<1>2. /\ Floor(a) % One = 0 /\ Between(Floor(a), a, Floor(a) + One - 1)
  BY WholeIs DEF Floor, Between
<1>3. Ceil(a) % One = 0 /\ (a <= MaxRaw - One => Between(Ceil(a) - One + 1, a, Ceil(a)))
  <2>1. a + One - 1 \in Int BY <1>1
  <2>2. PICK v \in Fx : v = Saturated(a + One - 1) BY <2>1, SaturatedIs
  <2>3. Ceil(a) = Whole(v) BY <2>2 DEF Ceil
  <2>4. a <= MaxRaw - One => v = a + One - 1 BY <2>1, <2>2, SaturatedIs, <1>1 DEF Fx
  <2>5. PICK w \in Int : w = Whole(v) BY WholeIs
  <2>6. w % One = 0 /\ w <= v /\ v <= w + One - 1 BY <2>5, WholeIs
  <2>7. a <= MaxRaw - One => w - One + 1 <= a /\ a <= w BY <2>4, <2>6, <1>1
  <2> QED BY <2>3, <2>5, <2>6, <2>7 DEF Between
<1>4. Round(a) % One = 0 /\ (a <= MaxRaw - One => Between(Round(a) - Half, a, Round(a) + Half - 1))
  <2>1. a + Half \in Int BY <1>1
  <2>2. PICK v \in Fx : v = Saturated(a + Half) BY <2>1, SaturatedIs
  <2>3. Round(a) = Whole(v) BY <2>2 DEF Round
  <2>4. a <= MaxRaw - One => v = a + Half BY <2>1, <2>2, SaturatedIs, <1>1 DEF Fx
  <2>5. PICK w \in Int : w = Whole(v) BY WholeIs
  <2>6. w % One = 0 /\ w <= v /\ v <= w + One - 1 BY <2>5, WholeIs
  <2>7. a <= MaxRaw - One => w - Half <= a /\ a <= w + Half - 1 BY <2>4, <2>6, <1>1
  <2> QED BY <2>3, <2>5, <2>6, <2>7 DEF Between
<1>5. FromInt(ToIntTrunc(a)) = a - Rem(a, One)
  <2>1. PICK t : t = Truncated(a, One) OBVIOUS
  <2>2. t \in Int BY <2>1, <1>1, TruncatedIs
  <2>3. FromInt(ToIntTrunc(a)) = t * One BY <2>1 DEF FromInt, ToIntTrunc
  <2>4. Rem(a, One) = a - One * t BY <2>1, <1>1 DEF Rem
  <2>5. PICK p \in Int : p = t * One /\ p = One * t BY <2>2, <1>1
  <2> QED BY <2>3, <2>4, <2>5, <1>1
<1>6. Floor(a) + Frac(a) = a /\ Between(0, Frac(a), One - 1)
  <2>1. a % One \in 0 .. One - 1 BY <1>1
  <2> QED BY <2>1, <1>1 DEF Floor, Whole, Frac, Between
<1>7. NumberLaw("floor", a, b, Floor(a)) BY <1>2 DEF NumberLaw
<1>8. NumberLaw("ceil", a, b, Ceil(a)) BY <1>3 DEF NumberLaw
<1>9. NumberLaw("round", a, b, Round(a)) BY <1>4, <1>5 DEF NumberLaw
<1>10. NumberLaw("frac", a, b, Frac(a)) BY <1>6 DEF NumberLaw
<1> QED BY <1>7, <1>8, <1>9, <1>10

LEMMA SignIsLawful ==
  ASSUME NEW a \in Fx, NEW b \in Fx
  PROVE  NumberLaw("abs", a, b, Abs(a)) /\ NumberLaw("signum", a, b, Signum(a))
<1>1. /\ a \in Int /\ One \in Nat /\ One >= 2 /\ MaxRaw \in Nat /\ MinRaw = -MaxRaw - 1 /\ MinRaw <= a /\ a <= MaxRaw
  BY FxAreInts, FxConstants DEF Fx
<1>2. Neg(a) = (IF a = MinRaw THEN MaxRaw ELSE -a) BY <1>1 DEF Neg, Saturated
<1>3. Abs(a) = (IF a = MinRaw THEN MaxRaw ELSE Magnitude(a)) BY <1>1, <1>2 DEF Abs, Magnitude
<1>4. NumberLaw("abs", a, b, Abs(a))
  <2>1. IsSaturated(Abs(a), Magnitude(a)) BY <1>1, <1>3 DEF IsSaturated, Overflows, Fx, Magnitude
  <2>2. Abs(a) = Larger(a, Neg(a)) BY <1>1, <1>2, <1>3 DEF Larger, Magnitude
  <2> QED BY <2>1, <2>2 DEF NumberLaw
<1>5. PICK m \in Int : m = Abs(a) BY <1>1, <1>3 DEF Magnitude
<1>6. m \in 0 .. MaxRaw /\ (a = 0 => m = 0) /\ (a > 0 => m = a) /\ (a < 0 => m = IF a = MinRaw THEN MaxRaw ELSE -a)
  BY <1>1, <1>3, <1>5 DEF Magnitude
<1>7. (m * One) \div One = m /\ (m * (-One)) \div One = -m /\ (m * 0) \div One = 0
  <2>1. m * One = One * m /\ m * (-One) = One * (-m) /\ m * 0 = 0 BY <1>1
  <2>2. (One * m) \div One = m /\ (One * (-m)) \div One = -m /\ 0 \div One = 0 BY <1>1
  <2> QED BY <2>1, <2>2
<1>8. Mul(m, Signum(a)) = Larger(a, -MaxRaw)
  <2>1. CASE a > 0
    <3>1. Mul(m, Signum(a)) = Saturated(m) BY <2>1, <1>7 DEF Mul, Signum
    <3> QED BY <3>1, <2>1, <1>1, <1>6 DEF Saturated, Larger
  <2>2. CASE a < 0
    <3>1. Mul(m, Signum(a)) = Saturated(-m) BY <2>2, <1>1, <1>7 DEF Mul, Signum
    <3> QED BY <3>1, <2>2, <1>1, <1>6 DEF Saturated, Larger
  <2>3. CASE a = 0
    <3>1. Mul(m, Signum(a)) = Saturated(0) BY <2>3, <1>7 DEF Mul, Signum
    <3> QED BY <3>1, <2>3, <1>1, <1>6 DEF Saturated, Larger
  <2> QED BY <2>1, <2>2, <2>3, <1>1
<1>9. NumberLaw("signum", a, b, Signum(a)) BY <1>5, <1>8 DEF NumberLaw
<1> QED BY <1>4, <1>9

LEMMA ChoiceIsLawful ==
  ASSUME NEW a \in Fx, NEW b \in Fx
  PROVE  /\ NumberLaw("min", a, b, Smaller(a, b)) /\ NumberLaw("max", a, b, Larger(a, b))
         /\ NumberLaw("clamp", a, b, Clamp(a, Neg(b), b))
<1>1. /\ a \in Int /\ b \in Int /\ MaxRaw \in Nat /\ MinRaw = -MaxRaw - 1
      /\ MinRaw <= a /\ a <= MaxRaw /\ MinRaw <= b /\ b <= MaxRaw
  BY FxAreInts, FxConstants DEF Fx
<1>2. ~Overflows(a + b) => Add(a, b) = a + b BY <1>1, SaturatedIs DEF Overflows, Add
<1>3. ~Overflows(a + b) => {Smaller(a, b), Add(a, b) - Smaller(a, b)} = {a, b}
  BY <1>1, <1>2 DEF Smaller
<1>4. ~Overflows(a + b) => {Larger(a, b), Add(a, b) - Larger(a, b)} = {a, b}
  BY <1>1, <1>2 DEF Larger
<1>5. b >= 0 => Clamp(a, Neg(b), b) = Larger(Neg(b), Smaller(a, b))
  BY <1>1 DEF Clamp, Larger, Smaller, Neg, Saturated
<1>6. NumberLaw("min", a, b, Smaller(a, b)) BY <1>3 DEF NumberLaw
<1>7. NumberLaw("max", a, b, Larger(a, b)) BY <1>4 DEF NumberLaw
<1>8. NumberLaw("clamp", a, b, Clamp(a, Neg(b), b)) BY <1>5 DEF NumberLaw
<1> QED BY <1>6, <1>7, <1>8

LEMMA LerpIsLawful ==
  ASSUME NEW a \in Fx, NEW b \in Fx
  PROVE  NumberLaw("lerp", a, b, Lerp(a, b, Half))
<1>1. /\ a \in Int /\ b \in Int /\ One \in Nat /\ Half \in Nat \ {0} /\ One = 2 * Half
      /\ MaxRaw \in Nat /\ MinRaw = -MaxRaw - 1
      /\ MinRaw <= a /\ a <= MaxRaw /\ MinRaw <= b /\ b <= MaxRaw
  BY FxAreInts, FxConstants DEF Fx
<1>2. ASSUME ~Overflows(b - a) PROVE Near(2 * Lerp(a, b, Half), a + b, 1)
  <2>1. PICK d \in Int : d = b - a BY <1>1
  <2>2. Sub(b, a) = d BY <2>1, <1>1, <1>2, SaturatedIs DEF Overflows, Sub
  <2>3. PICK h \in Int : h = d \div 2 BY <2>1
  <2>4. 2 * h <= d /\ d <= 2 * h + 1 BY <2>3
  <2>5. (d * Half) \div One = h
    <3>1. Half * (2 * h) <= Half * d /\ Half * d < Half * (2 * h + 2) BY <2>4, <1>1
    <3>2. Half * (2 * h) = One * h /\ Half * (2 * h + 2) = One * h + One BY <1>1
    <3>3. PICK p \in Int : p = d * Half BY <1>1
    <3>4. p = Half * d BY <3>3, <1>1
    <3>5. One * h <= p /\ p < One * h + One BY <3>1, <3>2, <3>4
    <3>6. p \div One = h BY <3>5, <1>1
    <3> QED BY <3>3, <3>6
  <2>6. h \in Fx /\ a + h \in Fx BY <2>1, <2>4, <1>1, <1>2 DEF Fx, Overflows
  <2>7. Mul(Sub(b, a), Half) = h BY <2>2, <2>5, <2>6, SaturatedIs DEF Mul
  <2>8. Lerp(a, b, Half) = a + h BY <2>7, <2>6, <1>1, SaturatedIs DEF Lerp, Add
  <2> QED BY <2>8, <2>1, <2>4, <1>1 DEF Near, Magnitude
<1> QED BY <1>2 DEF NumberLaw

(* What the operations of Fx compute is what their laws say, for every     *)
(* pair of operands and every width of the numbers: saturation only where  *)
(* the exact result overflows, products floored, quotients and remainders  *)
(* truncated, the exact root, rounding to the side it says (lib.rs, and    *)
(* docs/spec/fixed-point.md).                                              *)
THEOREM NumbersAreLawful ==
  ASSUME NEW op \in ExactOps, NEW a \in Fx, NEW b \in Fx
  PROVE  NumberLaw(op, a, b, OfNumber(op, a, b))
<1>1. CASE op = "add" \/ op = "sub" \/ op = "neg" BY <1>1, AddIsLawful DEF OfNumber
<1>2. CASE op = "mul" BY <1>2, MulIsLawful DEF OfNumber
<1>3. CASE op = "div" BY <1>3, DivIsLawful DEF OfNumber
<1>4. CASE op = "rem" BY <1>4, RemIsLawful DEF OfNumber
<1>5. CASE op = "sqrt" BY <1>5, SqrtIsLawful DEF OfNumber
<1>6. CASE op = "floor" \/ op = "ceil" \/ op = "round" \/ op = "frac" BY <1>6, RoundingIsLawful DEF OfNumber
<1>7. CASE op = "abs" \/ op = "signum" BY <1>7, SignIsLawful DEF OfNumber
<1>8. CASE op = "min" \/ op = "max" \/ op = "clamp" BY <1>8, ChoiceIsLawful DEF OfNumber
<1>9. CASE op = "lerp" BY <1>9, LerpIsLawful DEF OfNumber
<1> QED BY <1>1, <1>2, <1>3, <1>4, <1>5, <1>6, <1>7, <1>8, <1>9 DEF ExactOps

-----------------------------------------------------------------------------
(***************************************************************************)
(* The grid: distances.                                                    *)
(***************************************************************************)
(* A radius of fewer cells than the numbers count.                         *)
ReachFits == \A r \in Radii : (r * One) \div CellSize <= MaxRaw - One

LEMMA QuotientsAreClose ==
  ASSUME NEW x \in Int, NEW y \in Int, NEW s \in Nat \ {0}, NEW d \in Nat, y <= x, x - y < s * d + s
  PROVE  /\ Truncated(x, s) \in Int /\ Truncated(y, s) \in Int
         /\ Truncated(y, s) <= Truncated(x, s) /\ Truncated(x, s) <= Truncated(y, s) + d + 1
<1>1. ASSUME NEW v \in Nat
      PROVE  v \div s \in Nat /\ s * (v \div s) <= v /\ v < s * (v \div s) + s
  OBVIOUS
<1>2. \A z \in Int : Truncated(z, s) = IF z >= 0 THEN z \div s ELSE -((-z) \div s)
  BY DEF Truncated, Magnitude
<1>3. ASSUME NEW i \in Int, NEW j \in Int, s * i < s * j + s
      PROVE  i <= j
  <2>1. ~(i <= j) => s * i >= s * (j + 1)
    OBVIOUS
  <2>2. s * (j + 1) = s * j + s
    OBVIOUS
  <2>3. s * i \in Int /\ s * j \in Int
    OBVIOUS
  <2> QED BY <2>1, <2>2, <2>3, <1>3
<1>4. PICK u \in Int : u = Truncated(x, s)
  BY <1>1, <1>2
<1>5. PICK w \in Int : w = Truncated(y, s)
  BY <1>1, <1>2
<1>6. /\ x >= 0 => s * u <= x /\ x < s * u + s
      /\ x < 0 => x <= s * u /\ s * u < x + s
  <2>1. CASE x >= 0
    <3>1. x \in Nat /\ u = x \div s BY <2>1, <1>2, <1>4
    <3>2. s * u <= x /\ x < s * u + s BY <3>1, <1>1
    <3> QED BY <3>2, <2>1
  <2>2. CASE x < 0
    <3>1. PICK q \in Nat : q = (-x) \div s BY <2>2, <1>1
    <3>2. s * q <= -x /\ -x < s * q + s BY <2>2, <3>1, <1>1
    <3>3. u = -q BY <2>2, <3>1, <1>2, <1>4
    <3>4. s * (-q) = -(s * q) BY <3>1
    <3> QED BY <2>2, <3>2, <3>3, <3>4
  <2> QED BY <2>1, <2>2
<1>7. /\ y >= 0 => s * w <= y /\ y < s * w + s
      /\ y < 0 => y <= s * w /\ s * w < y + s
  <2>1. CASE y >= 0
    <3>1. y \in Nat /\ w = y \div s BY <2>1, <1>2, <1>5
    <3>2. s * w <= y /\ y < s * w + s BY <3>1, <1>1
    <3> QED BY <3>2, <2>1
  <2>2. CASE y < 0
    <3>1. PICK q \in Nat : q = (-y) \div s BY <2>2, <1>1
    <3>2. s * q <= -y /\ -y < s * q + s BY <2>2, <3>1, <1>1
    <3>3. w = -q BY <2>2, <3>1, <1>2, <1>5
    <3>4. s * (-q) = -(s * q) BY <3>1
    <3> QED BY <2>2, <3>2, <3>3, <3>4
  <2> QED BY <2>1, <2>2
<1>8. s * u \in Int /\ s * w \in Int /\ s * d \in Int
  OBVIOUS
<1>9. (y < 0 /\ x >= 0) => w <= 0 /\ u >= 0
  BY <1>1, <1>2, <1>4, <1>5
<1>10. w <= u
  <2>1. CASE y < 0 /\ x >= 0
    BY <2>1, <1>9
  <2>2. CASE ~(y < 0 /\ x >= 0)
    <3>1. s * w < s * u + s BY <2>2, <1>6, <1>7, <1>8
    <3> QED BY <3>1, <1>3
  <2> QED BY <2>1, <2>2
<1>11. u <= w + d + 1
  <2>1. s * u < s * w + s * d + 2 * s BY <1>6, <1>7, <1>8
  <2>2. s * (w + d + 1) = s * w + s * d + s BY <1>5
  <2>3. s * u < s * (w + d + 1) + s BY <2>1, <2>2, <1>8
  <2> QED BY <2>3, <1>3
<1> QED BY <1>4, <1>5, <1>10, <1>11

LEMMA SaturatedIsClose ==
  ASSUME NEW v \in Int, NEW w \in Int, NEW d \in Nat, v <= w, w <= v + d
  PROVE  Saturated(v) <= Saturated(w) /\ Saturated(w) <= Saturated(v) + d
BY FxConstants DEF Saturated

LEMMA FloorIsClose ==
  ASSUME NEW v \in Int, NEW w \in Int, NEW d \in Nat, v <= w, w <= v + d + 1
  PROVE  /\ v \div One \in Int /\ w \div One \in Int
         /\ v \div One <= w \div One /\ w \div One <= v \div One + d \div One + 1
<1>1. One \in Nat \ {0} BY FxConstants
<1>2. PICK i \in Int : i = v \div One BY <1>1
<1>3. PICK j \in Int : j = w \div One BY <1>1
<1>4. PICK k \in Int : k = d \div One BY <1>1
<1>5. One * i <= v /\ v <= One * i + One - 1 BY <1>1, <1>2
<1>6. One * j <= w /\ w <= One * j + One - 1 BY <1>1, <1>3
<1>7. One * k <= d /\ d <= One * k + One - 1 BY <1>1, <1>4
<1>8. One * i \in Int /\ One * j \in Int /\ One * k \in Int BY <1>1
<1>9. i <= j
  <2>1. ~(i <= j) => One * i >= One * (j + 1) BY <1>1
  <2>2. One * (j + 1) = One * j + One BY <1>1
  <2> QED BY <2>1, <2>2, <1>1, <1>5, <1>6, <1>8
<1>10. j <= i + k + 1
  <2>1. ~(j <= i + k + 1) => One * j >= One * (i + k + 2) BY <1>1
  <2>2. One * (i + k + 2) = One * i + One * k + 2 * One BY <1>1
  <2>3. One * j <= One * i + One * k + 2 * One - 1 BY <1>1, <1>5, <1>6, <1>7, <1>8
  <2> QED BY <2>1, <2>2, <2>3, <1>1, <1>8
<1> QED BY <1>2, <1>3, <1>4, <1>9, <1>10

Axis(a) == ToIntFloor(Div(a, CellSize))

(* Two numbers no further apart than the radius lie in cells no further    *)
(* apart than the reach, whatever the signs.                               *)
LEMMA CellsAreClose ==
  ASSUME NEW a \in Fx, NEW b \in Fx, NEW r \in 0 .. MaxRaw,
         (r * One) \div CellSize <= MaxRaw - One, b <= a, a - b <= r
  PROVE  /\ Axis(a) \in Int /\ Axis(b) \in Int /\ Reach(r) \in Int
         /\ Axis(b) <= Axis(a) /\ Axis(a) <= Axis(b) + Reach(r)
<1>1. a \in Int /\ b \in Int /\ r \in Nat /\ MaxRaw \in Nat /\ One \in Nat \ {0} /\ CellSize \in Nat \ {0}
  BY FxAreInts, FxConstants, CellSizeAssumption
<1>2. PICK x \in Int : x = a * One BY <1>1
<1>3. PICK y \in Int : y = b * One BY <1>1
<1>4. PICK m \in Nat : m = r * One BY <1>1
<1>5. y <= x /\ x - y <= m
  <2>1. b * One <= a * One BY <1>1
  <2>2. (a - b) * One <= r * One BY <1>1
  <2>3. (a - b) * One = a * One - b * One BY <1>1
  <2> QED BY <2>1, <2>2, <2>3, <1>2, <1>3, <1>4
<1>6. PICK d \in Nat : d = m \div CellSize BY <1>1, <1>4
<1>7. m < CellSize * d + CellSize BY <1>1, <1>6
<1>8. CellSize * d \in Int BY <1>1
<1>9. x - y < CellSize * d + CellSize BY <1>1, <1>5, <1>7, <1>8
<1>10. PICK u \in Int : u = Truncated(x, CellSize) BY <1>1, <1>5, <1>9, QuotientsAreClose
<1>11. PICK w \in Int : w = Truncated(y, CellSize) BY <1>1, <1>5, <1>9, QuotientsAreClose
<1>12. w <= u /\ u <= w + d + 1 BY <1>1, <1>5, <1>9, <1>10, <1>11, QuotientsAreClose
<1>13. Div(a, CellSize) = Saturated(u) /\ Div(b, CellSize) = Saturated(w)
  BY <1>1, <1>2, <1>3, <1>10, <1>11 DEF Div
<1>14. PICK p \in Int : p = Saturated(u) BY SaturatedIs
<1>15. PICK q \in Int : q = Saturated(w) BY SaturatedIs
<1>16. q <= p /\ p <= q + d + 1
  <2>1. d + 1 \in Nat /\ u <= w + (d + 1) BY <1>12
  <2> QED BY <2>1, <1>12, <1>14, <1>15, SaturatedIsClose
<1>17. Axis(a) = p \div One /\ Axis(b) = q \div One BY <1>13, <1>14, <1>15 DEF Axis, ToIntFloor
<1>18. Reach(r) = d \div One + 1
  <2>1. Truncated(m, CellSize) = d BY <1>1, <1>6 DEF Truncated, Magnitude
  <2>2. d \in Fx BY <1>1, <1>4, <1>6, FxConstants DEF Fx
  <2>3. Div(r, CellSize) = d BY <1>1, <1>4, <2>1, <2>2, SaturatedIs DEF Div
  <2> QED BY <2>3 DEF Reach, ToIntFloor
<1>19. /\ p \div One \in Int /\ q \div One \in Int
       /\ q \div One <= p \div One /\ p \div One <= q \div One + d \div One + 1
  BY <1>16, FloorIsClose
<1>20. d \div One \in Int BY <1>1
<1> QED BY <1>17, <1>18, <1>19, <1>20

Point(p) == p[1] \in Fx /\ p[2] \in Fx

LEMMA CellIsNear ==
  ASSUME NEW a \in Fx, NEW b \in Fx, NEW r \in 0 .. MaxRaw,
         (r * One) \div CellSize <= MaxRaw - One, Magnitude(a - b) <= r
  PROVE  Magnitude(Axis(a) - Axis(b)) <= Reach(r)
<1>1. a \in Int /\ b \in Int /\ r \in Int BY FxAreInts, FxConstants
<1>2. CASE b <= a
  <2>1. a - b <= r BY <1>1, <1>2 DEF Magnitude
  <2> QED BY <1>2, <2>1, CellsAreClose DEF Magnitude
<1>3. CASE a <= b
  <2>1. b - a <= r BY <1>1, <1>3 DEF Magnitude
  <2> QED BY <1>3, <2>1, CellsAreClose DEF Magnitude
<1> QED BY <1>1, <1>2, <1>3

(***************************************************************************)
(* The grid: squares.                                                      *)
(***************************************************************************)
LEMMA SquareIs ==
  ASSUME NEW v \in Int
  PROVE  \E s \in Nat : /\ s = (v * v) \div One
                        /\ One * s <= v * v /\ v * v <= One * s + One - 1
                        /\ Mul(v, v) = (IF s > MaxRaw THEN MaxRaw ELSE s)
<1>1. One \in Nat \ {0} /\ MaxRaw \in Nat /\ MinRaw = -MaxRaw - 1 BY FxConstants
<1>2. PICK n \in Nat : n = v * v
  <2>1. v * v \in Int /\ v * v >= 0 OBVIOUS
  <2> QED BY <2>1
<1>3. PICK s \in Nat : s = n \div One BY <1>1
<1>4. One * s <= n /\ n <= One * s + One - 1 BY <1>1, <1>3
<1>5. Mul(v, v) = (IF s > MaxRaw THEN MaxRaw ELSE s) BY <1>1, <1>2, <1>3 DEF Mul, Saturated
<1> QED BY <1>2, <1>3, <1>4, <1>5

(* What is within the radius passes the comparison of the squares.         *)
LEMMA WithinIsNear ==
  ASSUME NEW p, Point(p), NEW c, Point(c), NEW r \in 0 .. MaxRaw, ExactSq(p, c) <= r * r
  PROVE  /\ Magnitude(p[1] - c[1]) <= r /\ Magnitude(p[2] - c[2]) <= r
         /\ LengthSq2(p, c) <= Mul(r, r)
<1>1. One \in Nat \ {0} /\ MaxRaw \in Nat /\ MinRaw = -MaxRaw - 1 BY FxConstants
<1>2. PICK dx \in Int : dx = p[1] - c[1] BY FxAreInts DEF Point
<1>3. PICK dy \in Int : dy = p[2] - c[2] BY FxAreInts DEF Point
<1>4. r \in Nat BY <1>1
<1>5. dx * dx + dy * dy <= r * r BY <1>2, <1>3 DEF ExactSq
<1>6. dx * dx >= 0 /\ dy * dy >= 0 /\ dx * dx \in Int /\ dy * dy \in Int /\ r * r \in Int BY <1>4
<1>7. ASSUME NEW d \in Int, d * d <= r * r PROVE Magnitude(d) <= r
  <2>1. d > r => d * d > r * r BY <1>4
  <2>2. -d > r => (-d) * (-d) > r * r BY <1>4
  <2>3. (-d) * (-d) = d * d OBVIOUS
  <2>4. d * d \in Int BY <1>7
  <2> QED BY <2>1, <2>2, <2>3, <2>4, <1>4, <1>6, <1>7 DEF Magnitude
<1>8. Magnitude(dx) <= r /\ Magnitude(dy) <= r
  <2>1. dx * dx <= r * r /\ dy * dy <= r * r BY <1>5, <1>6
  <2> QED BY <2>1, <1>7
<1>9. dx \in Fx /\ dy \in Fx BY <1>1, <1>8 DEF Fx, Magnitude
<1>10. Sub(p[1], c[1]) = dx /\ Sub(p[2], c[2]) = dy BY <1>2, <1>3, <1>9, SaturatedIs DEF Sub
<1>11. LengthSq2(p, c) = Add(Mul(dx, dx), Mul(dy, dy)) BY <1>10 DEF LengthSq2
<1>12. PICK sx \in Nat : One * sx <= dx * dx /\ Mul(dx, dx) = (IF sx > MaxRaw THEN MaxRaw ELSE sx)
  BY SquareIs
<1>13. PICK sy \in Nat : One * sy <= dy * dy /\ Mul(dy, dy) = (IF sy > MaxRaw THEN MaxRaw ELSE sy)
  BY SquareIs
<1>14. PICK sr \in Nat : r * r <= One * sr + One - 1 /\ Mul(r, r) = (IF sr > MaxRaw THEN MaxRaw ELSE sr)
  BY SquareIs, <1>4
<1>15. sx + sy <= sr
  <2>1. One * sx \in Int /\ One * sy \in Int /\ One * sr \in Int BY <1>1
  <2>2. One * sx + One * sy <= One * sr + One - 1 BY <1>5, <1>6, <1>12, <1>13, <1>14, <2>1, <1>1
  <2>3. ~(sx + sy <= sr) => One * (sx + sy) >= One * (sr + 1) BY <1>1
  <2>4. One * (sx + sy) = One * sx + One * sy /\ One * (sr + 1) = One * sr + One BY <1>1
  <2> QED BY <2>1, <2>2, <2>3, <2>4, <1>1
<1>16. Add(Mul(dx, dx), Mul(dy, dy)) <= Mul(r, r)
  BY <1>1, <1>12, <1>13, <1>14, <1>15 DEF Add, Saturated
<1> QED BY <1>2, <1>3, <1>8, <1>11, <1>16

(* What passes the comparison is no further away than the rounding of the  *)
(* squares allows, as long as the square of the radius is a number.        *)
LEMMA NearIsWithin ==
  ASSUME NEW p, Point(p), NEW c, Point(c), NEW r \in 0 .. MaxRaw,
         LengthSq2(p, c) <= Mul(r, r), Mul(r, r) < MaxRaw
  PROVE  ExactSq(p, c) < r * r + 2 * One
<1>1. One \in Nat \ {0} /\ MaxRaw \in Nat /\ MinRaw = -MaxRaw - 1 /\ MaxRaw >= One BY FxConstants
<1>2. PICK dx \in Int : dx = p[1] - c[1] BY FxAreInts DEF Point
<1>3. PICK dy \in Int : dy = p[2] - c[2] BY FxAreInts DEF Point
<1>4. PICK x \in Int : x = Sub(p[1], c[1]) /\ (x = dx \/ x = MaxRaw \/ x = MinRaw)
  BY <1>2, <1>1, SaturatedIs DEF Sub
<1>5. PICK y \in Int : y = Sub(p[2], c[2]) /\ (y = dy \/ y = MaxRaw \/ y = MinRaw)
  BY <1>3, <1>1, SaturatedIs DEF Sub
<1>6. LengthSq2(p, c) = Add(Mul(x, x), Mul(y, y)) BY <1>4, <1>5 DEF LengthSq2
<1>7. PICK sx \in Nat : x * x <= One * sx + One - 1 /\ Mul(x, x) = (IF sx > MaxRaw THEN MaxRaw ELSE sx)
  BY SquareIs
<1>8. PICK sy \in Nat : y * y <= One * sy + One - 1 /\ Mul(y, y) = (IF sy > MaxRaw THEN MaxRaw ELSE sy)
  BY SquareIs
<1>9. r \in Nat BY <1>1
<1>10. PICK sr \in Nat : One * sr <= r * r /\ Mul(r, r) = (IF sr > MaxRaw THEN MaxRaw ELSE sr)
  BY SquareIs, <1>9
<1>11. sx + sy <= sr /\ sx < MaxRaw /\ sy < MaxRaw
  BY <1>1, <1>6, <1>7, <1>8, <1>10 DEF Add, Saturated
<1>12. ASSUME NEW v \in Int, NEW s \in Nat, v * v <= One * s + One - 1, s < MaxRaw
       PROVE  v # MaxRaw /\ v # MinRaw
  <2>1. One * s + One = One * (s + 1) BY <1>1
  <2>2. One * (s + 1) <= One * MaxRaw BY <1>1, <1>12
  <2>3. One * MaxRaw <= MaxRaw * MaxRaw BY <1>1
  <2>4. MaxRaw * MaxRaw <= MinRaw * MinRaw
    <3>1. MinRaw * MinRaw = MaxRaw * MaxRaw + 2 * MaxRaw + 1 BY <1>1
    <3>2. MaxRaw * MaxRaw \in Int BY <1>1
    <3> QED BY <3>1, <3>2, <1>1
  <2>5. v * v < MaxRaw * MaxRaw
    <3>1. v * v \in Int /\ One * s \in Int /\ One * MaxRaw \in Int /\ MaxRaw * MaxRaw \in Int BY <1>1
    <3> QED BY <3>1, <2>1, <2>2, <2>3, <1>12, <1>1
  <2> QED BY <2>4, <2>5, <1>1
<1>13. x = dx /\ y = dy BY <1>4, <1>5, <1>7, <1>8, <1>11, <1>12
<1>14. One * sx + One * sy <= One * sr
  <2>1. One * (sx + sy) <= One * sr BY <1>1, <1>11
  <2>2. One * (sx + sy) = One * sx + One * sy BY <1>1
  <2> QED BY <2>1, <2>2
<1>15. dx * dx + dy * dy < r * r + 2 * One
  <2>1. One * sx \in Int /\ One * sy \in Int /\ One * sr \in Int /\ dx * dx \in Int /\ dy * dy \in Int /\ r * r \in Int
    BY <1>1, <1>9
  <2> QED BY <2>1, <1>1, <1>7, <1>8, <1>10, <1>13, <1>14
<1> QED BY <1>2, <1>3, <1>15 DEF ExactSq

(***************************************************************************)
(* The grid: what it holds.                                                *)
(***************************************************************************)
(* The grid of the entities at these points, however they came there.      *)
In(w, cell) == {e \in DOMAIN w : CellOf(w[e]) = cell}
GridOf(w) ==
  [cells     |-> [cell \in {CellOf(w[e]) : e \in DOMAIN w} |-> In(w, cell)],
   positions |-> w]

AtPoint(w, e, p) == [x \in DOMAIN w \cup {e} |-> IF x = e THEN p ELSE w[x]]
Gone(w, e) == [x \in DOMAIN w \ {e} |-> w[x]]

LEMMA GridOfParts ==
  ASSUME NEW w
  PROVE  /\ GridOf(w).positions = w
         /\ DOMAIN GridOf(w).cells = {CellOf(w[e]) : e \in DOMAIN w}
         /\ \A cell \in DOMAIN GridOf(w).cells : GridOf(w).cells[cell] = In(w, cell)
BY DEF GridOf

(* The cells without e, as `remove` leaves them: those of everyone else.   *)
LEMMA WithoutIs ==
  ASSUME NEW w, NEW e \in DOMAIN w
  PROVE  Without(GridOf(w).cells, CellOf(w[e]), e) = GridOf(Gone(w, e)).cells
<1> DEFINE cells == GridOf(w).cells
           g == Gone(w, e)
           at == CellOf(w[e])
           rest == GridOf(g).cells
           left == Without(cells, at, e)
<1>1. DOMAIN cells = {CellOf(w[x]) : x \in DOMAIN w} /\ \A cell \in DOMAIN cells : cells[cell] = In(w, cell)
  BY GridOfParts
<1>2. DOMAIN rest = {CellOf(g[x]) : x \in DOMAIN g} /\ \A cell \in DOMAIN rest : rest[cell] = In(g, cell)
  BY GridOfParts
<1>3. rest = [cell \in DOMAIN rest |-> rest[cell]] /\ cells = [cell \in DOMAIN cells |-> cells[cell]]
  BY DEF GridOf
<1>4. DOMAIN g = DOMAIN w \ {e} /\ \A x \in DOMAIN g : g[x] = w[x] BY DEF Gone
<1>5. at \in DOMAIN cells BY <1>1
<1>6. left = IF cells[at] \subseteq {e} THEN Restrict(cells, DOMAIN cells \ {at})
             ELSE [cells EXCEPT ![at] = @ \ {e}]
  BY <1>5 DEF Without
<1> HIDE DEF cells, g, rest, left, at
<1>7. ASSUME NEW cell PROVE In(g, cell) = In(w, cell) \ {e}
  BY <1>4 DEF In
<1>8. cells[at] = In(w, at) BY <1>1, <1>5
<1>9. \A cell : cell # at => e \notin In(w, cell) BY DEF In, at
<1>10. \A cell : cell \in DOMAIN rest <=> In(g, cell) # {} BY <1>2 DEF In
<1>11. \A cell : cell \in DOMAIN cells <=> In(w, cell) # {} BY <1>1 DEF In
<1>12. CASE cells[at] \subseteq {e}
  <2>1. left = [cell \in DOMAIN cells \ {at} |-> cells[cell]] BY <1>6, <1>12 DEF Restrict
  <2>2. In(g, at) = {} BY <1>7, <1>8, <1>12
  <2>3. \A cell : cell \in DOMAIN rest <=> cell \in DOMAIN cells \ {at}
    <3> TAKE cell
    <3>1. CASE cell = at BY <3>1, <2>2, <1>10
    <3>2. CASE cell # at
      <4>1. In(g, cell) = In(w, cell) BY <3>2, <1>7, <1>9
      <4> QED BY <4>1, <3>2, <1>10, <1>11
    <3> QED BY <3>1, <3>2
  <2>4. \A cell \in DOMAIN rest : rest[cell] = cells[cell]
    <3> TAKE cell \in DOMAIN rest
    <3>1. cell # at /\ cell \in DOMAIN cells BY <2>3
    <3>2. In(g, cell) = In(w, cell) BY <3>1, <1>7, <1>9
    <3> QED BY <3>1, <3>2, <1>1, <1>2
  <2>5. DOMAIN rest = DOMAIN cells \ {at} BY <2>3
  <2> QED BY <2>1, <2>4, <2>5, <1>3 DEF left, rest, cells, at, g
<1>13. CASE ~(cells[at] \subseteq {e})
  <2>1. left = [cell \in DOMAIN cells |-> IF cell = at THEN cells[at] \ {e} ELSE cells[cell]]
    BY <1>6, <1>13, <1>5, <1>3
  <2>2. In(g, at) # {} BY <1>7, <1>8, <1>13
  <2>3. \A cell : cell \in DOMAIN rest <=> cell \in DOMAIN cells
    <3> TAKE cell
    <3>1. CASE cell = at BY <3>1, <2>2, <1>5, <1>10
    <3>2. CASE cell # at
      <4>1. In(g, cell) = In(w, cell) BY <3>2, <1>7, <1>9
      <4> QED BY <4>1, <1>10, <1>11
    <3> QED BY <3>1, <3>2
  <2>4. DOMAIN rest = DOMAIN cells BY <2>3
  <2>5. \A cell \in DOMAIN rest : rest[cell] = IF cell = at THEN cells[at] \ {e} ELSE cells[cell]
    <3> TAKE cell \in DOMAIN rest
    <3>1. rest[cell] = In(w, cell) \ {e} BY <1>2, <1>7
    <3>2. cells[cell] = In(w, cell) BY <1>1, <2>4
    <3> QED BY <3>1, <3>2, <1>8, <1>9
  <2> QED BY <2>1, <2>4, <2>5, <1>3 DEF left, rest, cells, at, g
<1> QED BY <1>12, <1>13 DEF left, rest, cells, at, g

LEMMA WithIs ==
  ASSUME NEW w, NEW e, e \notin DOMAIN w, NEW p
  PROVE  With(GridOf(w).cells, CellOf(p), e) = GridOf(AtPoint(w, e, p)).cells
<1> DEFINE cells == GridOf(w).cells
           g == AtPoint(w, e, p)
           at == CellOf(p)
           full == GridOf(g).cells
<1>1. DOMAIN cells = {CellOf(w[x]) : x \in DOMAIN w} /\ \A cell \in DOMAIN cells : cells[cell] = In(w, cell)
  BY GridOfParts
<1>2. DOMAIN full = {CellOf(g[x]) : x \in DOMAIN g} /\ \A cell \in DOMAIN full : full[cell] = In(g, cell)
  BY GridOfParts
<1>3. full = [cell \in DOMAIN full |-> full[cell]] BY DEF GridOf
<1>4. DOMAIN g = DOMAIN w \cup {e} /\ g[e] = p /\ \A x \in DOMAIN w : g[x] = w[x] BY DEF AtPoint
<1>5. With(cells, at, e) = [c \in DOMAIN cells \cup {at} |->
         (IF c \in DOMAIN cells THEN cells[c] ELSE {}) \cup (IF c = at THEN {e} ELSE {})]
  BY DEF With
<1> HIDE DEF cells, g, full
<1>6. DOMAIN full = DOMAIN cells \cup {at}
  <2>1. \A cell : cell \in DOMAIN full <=> \E x \in DOMAIN g : cell = CellOf(g[x]) BY <1>2
  <2>2. \A cell : cell \in DOMAIN cells <=> \E x \in DOMAIN w : cell = CellOf(w[x]) BY <1>1
  <2>3. \A cell : cell \in DOMAIN full <=> cell \in DOMAIN cells \/ cell = at BY <2>1, <2>2, <1>4
  <2> QED BY <2>3
<1>7. ASSUME NEW c \in DOMAIN full
      PROVE  full[c] = (IF c \in DOMAIN cells THEN cells[c] ELSE {}) \cup (IF c = at THEN {e} ELSE {})
  <2>1. full[c] = In(g, c) BY <1>2
  <2>2. In(g, c) = In(w, c) \cup (IF c = at THEN {e} ELSE {}) BY <1>4 DEF In
  <2>3. In(w, c) = IF c \in DOMAIN cells THEN cells[c] ELSE {}
    <3>1. CASE c \in DOMAIN cells BY <3>1, <1>1
    <3>2. CASE c \notin DOMAIN cells BY <3>2, <1>1 DEF In
    <3> QED BY <3>1, <3>2
  <2> QED BY <2>1, <2>2, <2>3
<1> HIDE DEF at
<1> QED BY <1>3, <1>5, <1>6, <1>7 DEF cells, g, full, at

(* `insert` and `remove` keep it the grid of the entities there are.       *)
LEMMA InsertIs ==
  ASSUME NEW w, w = [x \in DOMAIN w |-> w[x]], NEW e, NEW p
  PROVE  Insert(GridOf(w), e, p) = GridOf(AtPoint(w, e, p))
<1>1. Insert(GridOf(w), e, p) =
        [cells     |-> With(IF e \in DOMAIN w THEN Without(GridOf(w).cells, CellOf(w[e]), e) ELSE GridOf(w).cells,
                            CellOf(p), e),
         positions |-> AtPoint(w, e, p)]
  BY GridOfParts DEF Insert, AtPoint
<1>2. GridOf(AtPoint(w, e, p)) = [cells |-> GridOf(AtPoint(w, e, p)).cells, positions |-> AtPoint(w, e, p)]
  BY DEF GridOf
<1>3. CASE e \in DOMAIN w
  <2>1. Without(GridOf(w).cells, CellOf(w[e]), e) = GridOf(Gone(w, e)).cells BY <1>3, WithoutIs
  <2>2. e \notin DOMAIN Gone(w, e) BY DEF Gone
  <2>3. With(GridOf(Gone(w, e)).cells, CellOf(p), e) = GridOf(AtPoint(Gone(w, e), e, p)).cells
    BY <2>2, WithIs
  <2>4. AtPoint(Gone(w, e), e, p) = AtPoint(w, e, p) BY <1>3 DEF AtPoint, Gone
  <2> QED BY <1>1, <1>2, <1>3, <2>1, <2>3, <2>4
<1>4. CASE e \notin DOMAIN w
  BY <1>1, <1>2, <1>4, WithIs
<1> QED BY <1>3, <1>4

LEMMA RemoveIs ==
  ASSUME NEW w, NEW e \in DOMAIN w
  PROVE  RemoveEntity(GridOf(w), e) = GridOf(Gone(w, e))
<1>1. RemoveEntity(GridOf(w), e) =
        [cells |-> Without(GridOf(w).cells, CellOf(w[e]), e), positions |-> Gone(w, e)]
  BY GridOfParts DEF RemoveEntity, Gone, Restrict
<1>2. GridOf(Gone(w, e)) = [cells |-> GridOf(Gone(w, e)).cells, positions |-> Gone(w, e)]
  BY DEF GridOf
<1> QED BY <1>1, <1>2, WithoutIs

LEMMA FoundIs ==
  ASSUME NEW w, NEW c, NEW r, NEW e
  PROVE  e \in Query(GridOf(w), c, r) <=>
           /\ e \in DOMAIN w
           /\ \A i \in 1 .. 2 : Magnitude(CellOf(w[e])[i] - CellOf(c)[i]) <= Reach(r)
           /\ LengthSq2(w[e], c) <= Mul(r, r)
<1> DEFINE g == GridOf(w)
           near(cell) == \A i \in 1 .. 2 : Magnitude(cell[i] - CellOf(c)[i]) <= Reach(r)
<1>1. g.positions = w /\ DOMAIN g.cells = {CellOf(w[x]) : x \in DOMAIN w}
      /\ \A cell \in DOMAIN g.cells : g.cells[cell] = In(w, cell)
  BY GridOfParts
<1>2. e \in Query(g, c, r) <=>
        /\ \E cell \in DOMAIN g.cells : near(cell) /\ e \in g.cells[cell]
        /\ e \in DOMAIN w /\ LengthSq2(w[e], c) <= Mul(r, r)
  BY <1>1 DEF Query, IsNear
<1> HIDE DEF g, near
<1>3. (\E cell \in DOMAIN g.cells : near(cell) /\ e \in g.cells[cell]) <=> e \in DOMAIN w /\ near(CellOf(w[e]))
  BY <1>1 DEF In
<1> QED BY <1>2, <1>3 DEF g, near

LEMMA QueryIsExact ==
  ASSUME NEW w, NEW c, Point(c), \A e \in DOMAIN w : Point(w[e]),
         NEW r \in 0 .. MaxRaw, (r * One) \div CellSize <= MaxRaw - One
  PROVE  LET found == Query(GridOf(w), c, r)
         IN /\ \A e \in DOMAIN w : ExactSq(w[e], c) <= r * r => e \in found
            /\ \A e \in found : /\ e \in DOMAIN w
                                /\ Mul(r, r) < MaxRaw => ExactSq(w[e], c) < r * r + 2 * One
<1>1. ASSUME NEW e \in DOMAIN w, ExactSq(w[e], c) <= r * r PROVE e \in Query(GridOf(w), c, r)
  <2>1. PICK p : p = w[e] OBVIOUS
  <2>2. Point(p) BY <2>1
  <2>3. Magnitude(p[1] - c[1]) <= r /\ Magnitude(p[2] - c[2]) <= r /\ LengthSq2(p, c) <= Mul(r, r)
    BY <2>1, <2>2, <1>1, WithinIsNear
  <2>4. Magnitude(Axis(p[1]) - Axis(c[1])) <= Reach(r) /\ Magnitude(Axis(p[2]) - Axis(c[2])) <= Reach(r)
    BY <2>2, <2>3, CellIsNear DEF Point
  <2>5. \A i \in 1 .. 2 : Magnitude(CellOf(p)[i] - CellOf(c)[i]) <= Reach(r)
    BY <2>4 DEF CellOf, Axis
  <2> QED BY <2>1, <2>3, <2>5, FoundIs
<1>2. ASSUME NEW e \in Query(GridOf(w), c, r)
      PROVE  e \in DOMAIN w /\ (Mul(r, r) < MaxRaw => ExactSq(w[e], c) < r * r + 2 * One)
  <2>1. e \in DOMAIN w /\ LengthSq2(w[e], c) <= Mul(r, r) BY FoundIs
  <2>2. PICK p : p = w[e] OBVIOUS
  <2>3. Point(p) BY <2>1, <2>2
  <2> QED BY <2>1, <2>2, <2>3, NearIsWithin
<1> QED BY <1>1, <1>2

(***************************************************************************)
(* Ranks: in a finite set that a relation orders, every place is taken by  *)
(* one element.                                                            *)
(***************************************************************************)
Orders(R, S) ==
  /\ IsFiniteSet(S)
  /\ \A x \in S : <<x, x>> \notin R
  /\ \A x, y \in S : x # y => <<x, y>> \in R \/ <<y, x>> \in R
  /\ \A x, y, z \in S : <<x, y>> \in R /\ <<y, z>> \in R => <<x, z>> \in R

Before(R, S, x) == {y \in S : <<y, x>> \in R}
Rank(R, S, x) == Cardinality(Before(R, S, x))

LEMMA RankIsSmall ==
  ASSUME NEW R, NEW S, Orders(R, S), NEW x \in S
  PROVE  IsFiniteSet(Before(R, S, x)) /\ Rank(R, S, x) \in 0 .. Cardinality(S) - 1
<1>1. IsFiniteSet(S) /\ Before(R, S, x) \subseteq S BY DEF Orders, Before
<1>2. IsFiniteSet(Before(R, S, x)) /\ Cardinality(Before(R, S, x)) <= Cardinality(S)
      /\ (Cardinality(Before(R, S, x)) = Cardinality(S) => Before(R, S, x) = S)
  BY <1>1, FS_Subset
<1>3. x \notin Before(R, S, x) BY DEF Before, Orders
<1>4. Cardinality(S) \in Nat /\ Cardinality(Before(R, S, x)) \in Nat BY <1>1, <1>2, FS_CardinalityType
<1> QED BY <1>2, <1>3, <1>4 DEF Rank

LEMMA RanksDiffer ==
  ASSUME NEW R, NEW S, Orders(R, S), NEW x \in S, NEW y \in S, <<x, y>> \in R
  PROVE  Rank(R, S, x) < Rank(R, S, y)
<1>1. Before(R, S, x) \subseteq Before(R, S, y) BY DEF Before, Orders
<1>2. x \in Before(R, S, y) /\ x \notin Before(R, S, x) BY DEF Before, Orders
<1>3. IsFiniteSet(Before(R, S, y)) BY RankIsSmall
<1>4. Cardinality(Before(R, S, x)) <= Cardinality(Before(R, S, y))
      /\ (Cardinality(Before(R, S, x)) = Cardinality(Before(R, S, y)) => Before(R, S, x) = Before(R, S, y))
  BY <1>1, <1>3, FS_Subset
<1>5. Rank(R, S, x) \in Int /\ Rank(R, S, y) \in Int BY RankIsSmall
<1> QED BY <1>2, <1>4, <1>5 DEF Rank

LEMMA EveryRankIsTaken ==
  ASSUME NEW R, NEW S, Orders(R, S)
  PROVE  /\ Cardinality(S) \in Nat
         /\ \A k \in 1 .. Cardinality(S) : \E x \in S : Rank(R, S, x) = k - 1
         /\ \A x, y \in S : Rank(R, S, x) = Rank(R, S, y) => x = y
<1> DEFINE n == Cardinality(S)
           places == 0 .. n - 1
           rank == [x \in S |-> Rank(R, S, x)]
           T == {rank[x] : x \in S}
<1>1. IsFiniteSet(S) /\ n \in Nat BY FS_CardinalityType DEF Orders
<1>2. \A x \in S : rank[x] \in places BY RankIsSmall
<1>3. \A x, y \in S : rank[x] = rank[y] => x = y
  <2> SUFFICES ASSUME NEW x \in S, NEW y \in S, x # y PROVE rank[x] # rank[y]
    OBVIOUS
  <2>1. <<x, y>> \in R \/ <<y, x>> \in R BY DEF Orders
  <2>2. rank[x] \in Int /\ rank[y] \in Int BY <1>2
  <2>3. rank[x] < rank[y] \/ rank[y] < rank[x] BY <2>1, RanksDiffer
  <2> QED BY <2>2, <2>3
<1>4. IsFiniteSet(T) /\ Cardinality(T) = n
  <2>1. rank \in Bijection(S, T)
    <3>1. rank \in [S -> T] OBVIOUS
    <3> HIDE DEF rank
    <3>2. \A t \in T : \E x \in S : rank[x] = t OBVIOUS
    <3> HIDE DEF T
    <3> QED BY <1>3, <3>1, <3>2, Fun_IsBij
  <2> HIDE DEF rank, T
  <2>2. ExistsBijection(S, T)
    BY <2>1 DEF ExistsBijection
  <2> QED BY <1>1, <2>2, FS_Bijection
<1>5. IsFiniteSet(places) /\ Cardinality(places) = n
  BY <1>1, FS_Interval
<1>6. T \subseteq places BY <1>2
<1> HIDE DEF rank
<1>7. T = places BY <1>4, <1>5, <1>6, FS_Subset
<1>8. \A k \in 1 .. n : \E x \in S : rank[x] = k - 1
  <2> TAKE k \in 1 .. n
  <2>1. k - 1 \in T BY <1>7, <1>1
  <2> QED BY <2>1
<1> QED BY <1>1, <1>3, <1>8 DEF rank

(***************************************************************************)
(* Steps taken one after the other within a set lead to a state of the     *)
(* set.                                                                    *)
(***************************************************************************)
Takes(g, X, x0, step, m) ==
  /\ g \in [0 .. m -> X] /\ g[0] = x0
  /\ \A k \in 1 .. m : g[k] = step[<<g[k - 1], k>>]

LEMMA StepsExist ==
  ASSUME NEW X, NEW x0 \in X, NEW n \in Nat, NEW step \in [X \X (1 .. n) -> X]
  PROVE  \E g : Takes(g, X, x0, step, n)
<1> DEFINE S == {m \in Nat : m <= n => \E g : Takes(g, X, x0, step, m)}
<1>1. 0 \in S
  <2> DEFINE g == [k \in 0 .. 0 |-> x0]
  <2>1. Takes(g, X, x0, step, 0) BY DEF Takes
  <2> QED BY <2>1
<1>2. ASSUME NEW m \in Nat, m \in S PROVE m + 1 \in S
  <2>1. CASE m + 1 <= n
    <3>1. PICK h : Takes(h, X, x0, step, m) BY <1>2, <2>1
    <3>2. PICK end \in X : end = step[<<h[m], m + 1>>]
      <4>1. h[m] \in X /\ m + 1 \in 1 .. n BY <3>1, <2>1 DEF Takes
      <4> QED BY <4>1
    <3> DEFINE g == [k \in 0 .. m + 1 |-> IF k = m + 1 THEN end ELSE h[k]]
    <3>3. g \in [0 .. m + 1 -> X] BY <3>1 DEF Takes
    <3>4. g[0] = x0 BY <3>1 DEF Takes
    <3>5. ASSUME NEW k \in 1 .. m + 1 PROVE g[k] = step[<<g[k - 1], k>>]
      <4>1. k - 1 \in 0 .. m /\ g[k - 1] = h[k - 1] OBVIOUS
      <4>2. CASE k = m + 1
        <5>1. g[k] = end /\ k - 1 = m BY <4>2
        <5> QED BY <5>1, <4>1, <4>2, <3>2
      <4>3. CASE k # m + 1
        <5>1. k \in 1 .. m /\ g[k] = h[k] BY <4>3
        <5>2. h[k] = step[<<h[k - 1], k>>] BY <5>1, <3>1 DEF Takes
        <5> QED BY <5>1, <5>2, <4>1
      <4> QED BY <4>2, <4>3
    <3> HIDE DEF g
    <3>6. Takes(g, X, x0, step, m + 1) BY <3>3, <3>4, <3>5 DEF Takes
    <3> QED BY <3>6
  <2> QED BY <2>1
<1> HIDE DEF S
<1>3. \A m \in Nat : m \in S BY <1>1, <1>2, Induct
<1> QED BY <1>3 DEF S

(***************************************************************************)
(* The choice of what is sent.                                             *)
(***************************************************************************)
EntryState == [score : Int, ticks : Nat]

Choosable(S) ==
  /\ IsFiniteSet(S)
  /\ \A c \in S : c.entity.index \in Nat /\ c.size \in Nat
  /\ \A c, d \in S : c.entity.index = d.entity.index => c = d

LEMMA ScoresAreNumbers ==
  ASSUME NEW D, NEW entries0 \in [D -> EntryState], NEW o, NEW e
  PROVE  EntryOf(entries0, o, e) \in EntryState /\ Score(entries0, o, e) \in Int
BY DEF EntryOf, Score, Entry, EntryState

LEMMA RankedAreCandidates ==
  ASSUME NEW D, NEW entries0 \in [D -> EntryState], NEW o, NEW S, Choosable(S)
  PROVE  /\ Len(Ranked(entries0, o, S)) = Cardinality(S) /\ Cardinality(S) \in Nat
         /\ \A k \in 1 .. Cardinality(S) : Ranked(entries0, o, S)[k] \in S
<1> DEFINE R == {p \in S \X S : IsAhead(entries0, o, p[1], p[2])}
           n == Cardinality(S)
           Ahead(c) == Cardinality({d \in S : IsAhead(entries0, o, d, c)})
           ranked == [k \in 1 .. n |-> CHOOSE c \in S : Ahead(c) = k - 1]
<1>1. \A c, d \in S : <<c, d>> \in R <=> IsAhead(entries0, o, c, d)
  OBVIOUS
<1> HIDE DEF R
<1>2. \A c \in S : Score(entries0, o, c.entity) \in Int /\ c.entity.index \in Nat
  BY ScoresAreNumbers DEF Choosable
<1>3. Orders(R, S)
  <2>1. \A c \in S : <<c, c>> \notin R BY <1>1, <1>2 DEF IsAhead
  <2>2. \A c, d \in S : c # d => <<c, d>> \in R \/ <<d, c>> \in R
    <3> TAKE c, d \in S
    <3> HAVE c # d
    <3>1. c.entity.index # d.entity.index BY DEF Choosable
    <3> QED BY <3>1, <1>1, <1>2 DEF IsAhead
  <2>3. \A c, d, e \in S : <<c, d>> \in R /\ <<d, e>> \in R => <<c, e>> \in R
    <3> TAKE c, d, e \in S
    <3> HAVE <<c, d>> \in R /\ <<d, e>> \in R
    <3>1. IsAhead(entries0, o, c, d) /\ IsAhead(entries0, o, d, e) BY <1>1
    <3>2. IsAhead(entries0, o, c, e) BY <3>1, <1>2 DEF IsAhead
    <3> QED BY <3>2, <1>1
  <2> QED BY <2>1, <2>2, <2>3 DEF Orders, Choosable
<1>4. \A c \in S : Ahead(c) = Rank(R, S, c)
  <2> TAKE c \in S
  <2>1. {d \in S : IsAhead(entries0, o, d, c)} = Before(R, S, c) BY <1>1 DEF Before
  <2> QED BY <2>1 DEF Rank
<1>5. n \in Nat /\ \A k \in 1 .. n : \E c \in S : Ahead(c) = k - 1
  BY <1>3, <1>4, EveryRankIsTaken
<1> HIDE DEF Ahead
<1>6. \A k \in 1 .. n : ranked[k] \in S
  BY <1>5
<1>7. Len(ranked) = n BY <1>5
<1>8. Ranked(entries0, o, S) = ranked BY DEF Ranked, Ahead
<1> QED BY <1>5, <1>6, <1>7, <1>8

Selection(D, E) == [entities : Seq(E), bytes : Int, deferred : Int, entries : [D -> EntryState]]

LEMMA ResetType ==
  ASSUME NEW D, NEW entries0 \in [D -> EntryState], NEW o, NEW e, <<o, e>> \in D
  PROVE  Reset(entries0, o, e) \in [D -> EntryState]
<1>1. D \cup {<<o, e>>} = D OBVIOUS
<1>2. Entry \in EntryState BY DEF Entry, EntryState
<1> QED BY <1>1, <1>2 DEF Reset

LEMMA ConsideredType ==
  ASSUME NEW D, NEW E, NEW s \in Selection(D, E), NEW o, NEW c,
         c.entity \in E, c.size \in Nat, <<o, c.entity>> \in D, NEW budget \in Nat
  PROVE  Considered(s, o, c, budget) \in Selection(D, E)
<1>1. s.entities \in Seq(E) /\ s.bytes \in Int /\ s.deferred \in Int /\ s.entries \in [D -> EntryState]
  BY DEF Selection
<1>2. Reset(s.entries, o, c.entity) \in [D -> EntryState] BY <1>1, ResetType
<1>3. Append(s.entities, c.entity) \in Seq(E) BY <1>1
<1>4. Deferred(s, o, c) \in Selection(D, E) BY <1>1 DEF Deferred, Selection
<1>5. Chosen(s, o, c) \in Selection(D, E)
  <2>1. PICK x \in Seq(E) : x = Append(s.entities, c.entity) BY <1>3
  <2>2. PICK y \in [D -> EntryState] : y = Reset(s.entries, o, c.entity) BY <1>2
  <2>3. PICK b \in Int : b = s.bytes + c.size BY <1>1
  <2>4. Chosen(s, o, c) = [s EXCEPT !.entities = x, !.bytes = b, !.entries = y]
    BY <2>1, <2>2, <2>3 DEF Chosen
  <2>5. [s EXCEPT !.entities = x, !.bytes = b, !.entries = y] \in Selection(D, E) BY DEF Selection
  <2> QED BY <2>4, <2>5
<1> QED BY <1>4, <1>5 DEF Considered

(* `select` chooses among the candidates, and adds no entries.             *)
LEMMA SelectIs ==
  ASSUME NEW D, NEW entries0 \in [D -> EntryState], NEW o, NEW S, Choosable(S),
         \A c \in S : <<o, c.entity>> \in D, NEW budget \in Nat
  PROVE  Select(entries0, o, S, budget) \in Selection(D, {c.entity : c \in S})
<1> DEFINE E == {c.entity : c \in S}
           X == Selection(D, E)
           ranked == Ranked(entries0, o, S)
           n == Len(ranked)
           x0 == [entities |-> <<>>, bytes |-> 0, deferred |-> 0, entries |-> entries0]
           Eq(h) == h = [k \in 0 .. n |-> IF k = 0 THEN x0 ELSE Considered(h[k - 1], o, ranked[k], budget)]
           r == CHOOSE h : Eq(h)
           step == [a \in X \X (1 .. n) |-> Considered(a[1], o, ranked[a[2]], budget)]
<1>1. Select(entries0, o, S, budget) = r[n]
  BY DEF Select
<1>2. n \in Nat /\ \A k \in 1 .. n : ranked[k] \in S
  BY RankedAreCandidates
<1>3. x0 \in X
  <2>1. <<>> \in Seq(E) OBVIOUS
  <2> QED BY <2>1 DEF Selection
<1> HIDE DEF ranked, x0
<1>4. \A s \in X, k \in 1 .. n : Considered(s, o, ranked[k], budget) \in X
  <2> TAKE s \in X, k \in 1 .. n
  <2>1. PICK c \in S : c = ranked[k] BY <1>2
  <2>2. c.entity \in E /\ c.size \in Nat /\ <<o, c.entity>> \in D BY DEF Choosable
  <2> HIDE DEF E
  <2> QED BY <2>1, <2>2, ConsideredType
<1> HIDE DEF X, n
<1>5. step \in [X \X (1 .. n) -> X] BY <1>4
<1>6. \A s \in X, k \in 1 .. n : step[<<s, k>>] = Considered(s, o, ranked[k], budget)
  OBVIOUS
<1> HIDE DEF step
<1>7. PICK g : Takes(g, X, x0, step, n) BY <1>2, <1>3, <1>5, StepsExist
<1>8. Eq(g)
  <2>1. \A k \in 0 .. n : g[k] = IF k = 0 THEN x0 ELSE Considered(g[k - 1], o, ranked[k], budget)
    <3> TAKE k \in 0 .. n
    <3>1. CASE k = 0 BY <3>1, <1>7 DEF Takes
    <3>2. CASE k # 0
      <4>1. k \in 1 .. n /\ k - 1 \in 0 .. n BY <3>2, <1>2
      <4>2. g[k] = step[<<g[k - 1], k>>] /\ g[k - 1] \in X BY <4>1, <1>7 DEF Takes
      <4> QED BY <3>2, <4>1, <4>2, <1>6
    <3> QED BY <3>1, <3>2
  <2>2. g = [k \in 0 .. n |-> g[k]] BY <1>7 DEF Takes
  <2> QED BY <2>1, <2>2
<1>9. Eq(r) BY <1>8
<1> HIDE DEF r
<1>10. r[0] = x0 BY <1>9, <1>2
<1>11. \A k \in 1 .. n : r[k] = Considered(r[k - 1], o, ranked[k], budget)
  <2> TAKE k \in 1 .. n
  <2>1. k \in 0 .. n /\ k # 0 BY <1>2
  <2> QED BY <2>1, <1>9
<1> DEFINE T == {k \in Nat : k <= n => r[k] \in X}
<1>12. 0 \in T BY <1>3, <1>10
<1>13. ASSUME NEW k \in Nat, k \in T PROVE k + 1 \in T
  <2>1. CASE k + 1 <= n
    <3>1. k + 1 \in 1 .. n /\ (k + 1) - 1 = k BY <2>1, <1>2
    <3>2. r[k] \in X BY <1>13, <2>1, <1>2
    <3>3. r[k + 1] = Considered(r[k], o, ranked[k + 1], budget) BY <3>1, <1>11
    <3>4. r[k + 1] \in X BY <3>1, <3>2, <3>3, <1>4
    <3> QED BY <3>4
  <2> QED BY <2>1
<1> HIDE DEF T
<1>14. \A k \in Nat : k \in T BY <1>12, <1>13, Induct
<1>15. r[n] \in X BY <1>14, <1>2 DEF T
<1> QED BY <1>1, <1>15 DEF X, n

(***************************************************************************)
(* Scores.                                                                 *)
(***************************************************************************)
LEMMA DivType == \A a, b \in Int : Div(a, b) \in Int
<1> SUFFICES ASSUME NEW a \in Int, NEW b \in Int PROVE Div(a, b) \in Int
  OBVIOUS
<1>1. One \in Int /\ MaxRaw \in Int /\ MinRaw \in Int BY FxConstants
<1>2. CASE b = 0 BY <1>1, <1>2 DEF Div, Extreme
<1>3. CASE b # 0
  <2>1. a * One \in Int BY <1>1
  <2>2. Truncated(a * One, b) \in Int BY <2>1, <1>3, TruncatedIs
  <2>3. Div(a, b) = Saturated(Truncated(a * One, b)) BY <1>3 DEF Div
  <2> QED BY <2>2, <2>3, SaturatedIs
<1> QED BY <1>2, <1>3

LEMMA MulType == \A a, b \in Int : Mul(a, b) \in Int
<1> SUFFICES ASSUME NEW a \in Int, NEW b \in Int PROVE Mul(a, b) \in Int
  OBVIOUS
<1>1. One \in Nat \ {0} BY FxConstants
<1>2. PICK p \in Int : p = a * b OBVIOUS
<1>3. p \div One \in Int BY <1>1
<1> QED BY <1>2, <1>3, SaturatedIs DEF Mul

LEMMA AddType == \A a, b \in Int : Add(a, b) \in Int /\ Add(a, b) <= MaxRaw /\ Sub(a, b) \in Int
BY SaturatedIs, FxConstants DEF Add, Sub, Fx

LEMMA GrownType ==
  ASSUME NEW was \in EntryState, NEW amount \in Int PROVE Grown(was, amount) \in EntryState
<1> DEFINE ticks == IF was.ticks < MaxTicks THEN was.ticks + 1 ELSE MaxTicks
<1>1. was.score \in Int /\ was.ticks \in Nat /\ MaxTicks \in Nat /\ StalenessScale \in Int /\ One \in Int
  BY PriorityAssumption, FxConstants DEF EntryState
<1>2. ticks \in Nat BY <1>1
<1> HIDE DEF ticks
<1>3. ticks * One \in Int BY <1>1, <1>2
<1>4. Saturated(FromInt(ticks)) \in Int BY <1>3, SaturatedIs DEF FromInt
<1>5. PICK staleness \in Int : staleness = Add(One, Div(Saturated(FromInt(ticks)), StalenessScale))
  BY <1>1, <1>4, DivType, AddType
<1>6. Add(was.score, Mul(amount, staleness)) \in Int BY <1>1, MulType, AddType
<1>7. Grown(was, amount) = [score |-> Add(was.score, Mul(amount, staleness)), ticks |-> ticks]
  BY <1>5 DEF Grown, ticks
<1> QED BY <1>2, <1>6, <1>7 DEF EntryState

LEMMA GainType ==
  ASSUME NEW p, Point(p), NEW c, Point(c) PROVE Gain(Sqrt(LengthSq2(p, c))) \in Int
<1>1. p[1] \in Int /\ p[2] \in Int /\ c[1] \in Int /\ c[2] \in Int BY FxAreInts DEF Point
<1>2. PICK x \in Int : x = Sub(p[1], c[1]) BY <1>1, AddType
<1>3. PICK y \in Int : y = Sub(p[2], c[2]) BY <1>1, AddType
<1>4. PICK sx \in Int : sx = Mul(x, x) BY MulType
<1>5. PICK sy \in Int : sy = Mul(y, y) BY MulType
<1>6. LengthSq2(p, c) = Add(sx, sy) BY <1>2, <1>3, <1>4, <1>5 DEF LengthSq2
<1>7. PICK d \in Nat : d = Sqrt(LengthSq2(p, c)) BY <1>6, AddType, SqrtType
<1>8. One \in Int /\ Base \in Int /\ HalfDistance \in Int BY PriorityAssumption, FxConstants, FxAreInts
<1>9. Larger(d, 0) \in Int BY DEF Larger
<1>10. Add(One, Div(Larger(d, 0), HalfDistance)) \in Int BY <1>8, <1>9, DivType, AddType
<1> QED BY <1>7, <1>8, <1>10, DivType DEF Gain

PairsOf(o, S) == {<<o, e>> : e \in S}

LEMMA AccumulateType ==
  ASSUME NEW D, NEW entries0 \in [D -> EntryState], NEW o, NEW G, NEW gains \in [G -> Int]
  PROVE  Accumulate(entries0, o, gains) \in [D \cup PairsOf(o, G) -> EntryState]
<1> DEFINE touched == {<<o, e>> : e \in G}
<1>1. ASSUME NEW pair \in D \cup touched
      PROVE  (IF pair \in touched THEN Grown(EntryOf(entries0, o, pair[2]), gains[pair[2]]) ELSE entries0[pair]) \in EntryState
  <2>1. CASE pair \in touched
    <3>1. pair[2] \in G BY <2>1
    <3>2. EntryOf(entries0, o, pair[2]) \in EntryState BY ScoresAreNumbers
    <3>3. gains[pair[2]] \in Int BY <3>1
    <3> QED BY <2>1, <3>2, <3>3, GrownType
  <2>2. CASE pair \notin touched BY <2>2
  <2> QED BY <2>1, <2>2
<1>2. Accumulate(entries0, o, gains) =
        [pair \in D \cup touched |->
           IF pair \in touched THEN Grown(EntryOf(entries0, o, pair[2]), gains[pair[2]]) ELSE entries0[pair]]
  BY DEF Accumulate
<1> HIDE DEF touched
<1> QED BY <1>1, <1>2 DEF touched, PairsOf

(***************************************************************************)
(* The invariant.                                                          *)
(***************************************************************************)
EntityId == [index : scenario.slots, generation : Nat]

Parts(observers, ids) ==
  [tracker : UNION {[D -> SUBSET ids] : D \in SUBSET observers},
   entries : UNION {[D -> EntryState] : D \in SUBSET (observers \X ids)},
   view    : [observers -> SUBSET ids],
   chosen  : [observers -> SUBSET ids]]

Current == [tracker |-> tracker, entries |-> entries, view |-> view, chosen |-> chosen]

Consistent(part, observers, here, ids) ==
  /\ part \in Parts(observers, ids)
  /\ \A o \in observers : part.view[o] = Visible(part.tracker, o) /\ part.chosen[o] \subseteq part.view[o]
  /\ \A pair \in DOMAIN part.entries : pair[1] \in here /\ pair[2] \in part.view[pair[1]]

WorldOK ==
  /\ IsFiniteSet(DOMAIN where)
  /\ where = [e \in DOMAIN where |-> where[e]]
  /\ \A e \in DOMAIN where : /\ e.index \in scenario.slots /\ e = Entity(e.index)
                             /\ where[e] \in scenario.points
  /\ grid = GridOf(where)

InterestIInv ==
  /\ scenario \in Scenarios
  /\ generation \in [scenario.slots -> Nat]
  /\ connected \subseteq Observers
  /\ WorldOK
  /\ Consistent(Current, Observers, connected, EntityId)

LEMMA ScenarioIs ==
  ASSUME scenario \in Scenarios
  PROVE  /\ scenario.slots \subseteq Nat /\ IsFiniteSet(scenario.slots)
         /\ \A p \in scenario.points : Point(p)
         /\ IsFiniteSet(Observers) /\ \A o \in Observers : Point(scenario.observers[o])
         /\ scenario.size \in [scenario.slots -> Nat] /\ scenario.budget \in Nat
<1>1. /\ scenario.slots \subseteq Nat /\ IsFiniteSet(scenario.slots)
      /\ scenario.points \subseteq Fx \X Fx
      /\ IsFiniteSet(DOMAIN scenario.observers) /\ scenario.observers \in [DOMAIN scenario.observers -> Fx \X Fx]
      /\ scenario.size \in [scenario.slots -> Nat] /\ scenario.budget \in Nat
  BY ScenariosAssumption
<1>2. \A p \in Fx \X Fx : Point(p) BY DEF Point
<1> QED BY <1>1, <1>2 DEF Observers

(* What the grid finds lives, and can be chosen from.                      *)
LEMMA RelevantIs ==
  ASSUME WorldOK, scenario \in Scenarios, generation \in [scenario.slots -> Nat], NEW o \in Observers
  PROVE  LET relevant == Query(grid, scenario.observers[o], scenario.radius)
         IN /\ relevant \subseteq EntityId
            /\ Gains(o, relevant) \in [relevant -> Int]
            /\ Choosable({[entity |-> e, size |-> scenario.size[e.index]] : e \in relevant})
<1> DEFINE relevant == Query(grid, scenario.observers[o], scenario.radius)
           S == {[entity |-> e, size |-> scenario.size[e.index]] : e \in relevant}
<1>1. relevant \subseteq DOMAIN where BY FoundIs DEF WorldOK
<1>2. DOMAIN where \subseteq EntityId BY DEF WorldOK, EntityId, Entity
<1>3. grid.positions = where BY GridOfParts DEF WorldOK
<1> HIDE DEF relevant
<1>4. \A e \in relevant : Gain(Sqrt(LengthSq2(grid.positions[e], scenario.observers[o]))) \in Int
  <2> TAKE e \in relevant
  <2>1. Point(where[e]) BY <1>1, ScenarioIs DEF WorldOK
  <2>2. Point(scenario.observers[o]) BY ScenarioIs
  <2> QED BY <1>3, <2>1, <2>2, GainType
<1>5. Gains(o, relevant) \in [relevant -> Int] BY <1>4 DEF Gains
<1>6. Choosable(S)
  <2>1. IsFiniteSet(S)
    <3>1. IsFiniteSet(relevant) BY <1>1, FS_Subset DEF WorldOK
    <3> DEFINE f == [e \in relevant |-> [entity |-> e, size |-> scenario.size[e.index]]]
    <3>2. f \in [relevant -> S] /\ \A c \in S : \E e \in relevant : f[e] = c OBVIOUS
    <3> HIDE DEF f, S
    <3>3. f \in Surjection(relevant, S) BY <3>2, Fun_IsSurj
    <3> QED BY <3>1, <3>3, FS_Surjection
  <2>2. \A c \in S : c.entity \in relevant /\ c = [entity |-> c.entity, size |-> scenario.size[c.entity.index]]
    OBVIOUS
  <2> HIDE DEF S
  <2>3. \A c \in S : c.entity.index \in Nat /\ c.size \in Nat
    <3> TAKE c \in S
    <3>1. c.entity.index \in scenario.slots BY <2>2, <1>1 DEF WorldOK
    <3>2. c.size = scenario.size[c.entity.index] BY <2>2
    <3> QED BY <3>1, <3>2, ScenarioIs
  <2>4. \A c, d \in S : c.entity.index = d.entity.index => c = d
    <3> TAKE c, d \in S
    <3> HAVE c.entity.index = d.entity.index
    <3>1. c.entity = d.entity BY <2>2, <1>1 DEF WorldOK
    <3> QED BY <3>1, <2>2
  <2> QED BY <2>1, <2>3, <2>4 DEF Choosable
<1> QED BY <1>1, <1>2, <1>5, <1>6 DEF relevant

(* What the events say entered and left.                                   *)
LEMMA EventsAre ==
  ASSUME NEW before, NEW after
  PROVE  /\ Of(Changes(before, after), "entered") = after \ before
         /\ Of(Changes(before, after), "left") = before \ after
         /\ Taken(before, Changes(before, after)) = after
<1> DEFINE events == Changes(before, after)
<1>1. \A x : x \in events <=> \/ \E e \in after \ before : x = [kind |-> "entered", entity |-> e]
                              \/ \E e \in before \ after : x = [kind |-> "left", entity |-> e]
  BY DEF Changes
<1>2. \A e : [kind |-> "entered", entity |-> e].kind = "entered" /\ [kind |-> "entered", entity |-> e].entity = e
             /\ [kind |-> "left", entity |-> e].kind = "left" /\ [kind |-> "left", entity |-> e].entity = e
  OBVIOUS
<1> HIDE DEF events
<1>3. Of(events, "entered") = after \ before
  <2>1. \A e \in after \ before : [kind |-> "entered", entity |-> e] \in events BY <1>1
  <2>2. \A x \in events : x.kind = "entered" => x.entity \in after \ before BY <1>1
  <2>3. \A e : e \in Of(events, "entered") <=> \E x \in events : x.kind = "entered" /\ x.entity = e BY DEF Of
  <2>4. Of(events, "entered") \subseteq after \ before BY <2>2, <2>3
  <2>5. after \ before \subseteq Of(events, "entered") BY <1>2, <2>1, <2>3
  <2> QED BY <2>4, <2>5
<1>4. Of(events, "left") = before \ after
  <2>1. \A e \in before \ after : [kind |-> "left", entity |-> e] \in events BY <1>1
  <2>2. \A x \in events : x.kind = "left" => x.entity \in before \ after BY <1>1
  <2>3. \A e : e \in Of(events, "left") <=> \E x \in events : x.kind = "left" /\ x.entity = e BY DEF Of
  <2>4. Of(events, "left") \subseteq before \ after BY <2>2, <2>3
  <2>5. before \ after \subseteq Of(events, "left") BY <1>2, <2>1, <2>3
  <2> QED BY <2>4, <2>5
<1> QED BY <1>3, <1>4 DEF Taken, events

(* One observer served: its view follows what is relevant to it.           *)
LEMMA ServedIsConsistent ==
  ASSUME WorldOK, scenario \in Scenarios, generation \in [scenario.slots -> Nat], connected \subseteq Observers,
         NEW part, Consistent(part, Observers, connected, EntityId), NEW o \in connected
  PROVE  Consistent(Served(part, o), Observers, connected, EntityId)
<1> DEFINE relevant == Query(grid, scenario.observers[o], scenario.radius)
           old == Visible(part.tracker, o)
           events == Changes(old, relevant)
           kept == Forget(part.entries, o, Of(events, "left"))
           given == Accumulate(kept, o, Gains(o, relevant))
           S == {[entity |-> e, size |-> scenario.size[e.index]] : e \in relevant}
           selected == Select(given, o, S, scenario.budget)
           ids == EntityId
           t == Update(part.tracker, o, relevant)
           v == [part.view EXCEPT ![o] = Taken(@, events)]
           c == [part.chosen EXCEPT ![o] = Range(selected.entities)]
<1>1. o \in Observers OBVIOUS
<1>2. relevant \subseteq ids /\ Gains(o, relevant) \in [relevant -> Int] /\ Choosable(S)
  BY <1>1, RelevantIs
<1>3. Of(events, "left") = old \ relevant /\ Taken(old, events) = relevant
  BY EventsAre
<1>4. Served(part, o) = [tracker |-> t, entries |-> selected.entries, view |-> v, chosen |-> c]
  BY DEF Served
<1>5. {d.entity : d \in S} = relevant
  <2>1. \A e \in relevant : [entity |-> e, size |-> scenario.size[e.index]] \in S
                           /\ [entity |-> e, size |-> scenario.size[e.index]].entity = e
    OBVIOUS
  <2>2. \A d \in S : d.entity \in relevant OBVIOUS
  <2> HIDE DEF S, relevant
  <2>3. relevant \subseteq {d.entity : d \in S} BY <2>1
  <2>4. {d.entity : d \in S} \subseteq relevant BY <2>2
  <2> QED BY <2>3, <2>4
<1> HIDE DEF relevant, S
<1>6. PICK D \in SUBSET (Observers \X ids) : part.entries \in [D -> EntryState]
  BY DEF Consistent, Parts
<1>7. PICK T \in SUBSET Observers : part.tracker \in [T -> SUBSET ids]
  BY DEF Consistent, Parts
<1>8. part.view \in [Observers -> SUBSET ids] /\ part.chosen \in [Observers -> SUBSET ids]
  BY DEF Consistent, Parts
<1>9. part.view[o] = old BY <1>1 DEF Consistent
<1>10. \A pair \in D : pair[1] \in connected /\ pair[2] \in part.view[pair[1]]
  BY <1>6 DEF Consistent
<1> DEFINE K == D \ {<<o, e>> : e \in old \ relevant}
           A == K \cup {<<o, e>> : e \in relevant}
<1>11. kept \in [K -> EntryState] BY <1>3, <1>6 DEF Forget, Restrict
<1> HIDE DEF kept, K, old, events
<1>12. given \in [A -> EntryState]
  <2>1. PICK gains \in [relevant -> Int] : gains = Gains(o, relevant) BY <1>2
  <2>2. PICK L : L = K OBVIOUS
  <2>3. PICK k \in [L -> EntryState] : k = kept BY <1>11, <2>2
  <2>4. PICK R : R = relevant OBVIOUS
  <2>5. gains \in [R -> Int] BY <2>4
  <2>6. Accumulate(k, o, gains) \in [L \cup PairsOf(o, R) -> EntryState]
    BY <2>5, AccumulateType
  <2> QED BY <2>1, <2>2, <2>3, <2>4, <2>6 DEF PairsOf
<1> HIDE DEF given
<1>13. selected \in Selection(A, relevant)
  <2>1. \A d \in S : <<o, d.entity>> \in A BY <1>5
  <2>2. scenario.budget \in Nat BY ScenarioIs
  <2> HIDE DEF A
  <2> QED BY <1>2, <1>5, <1>12, <2>1, <2>2, SelectIs
<1> HIDE DEF selected
<1>14. selected.entries \in [A -> EntryState] /\ selected.entities \in Seq(relevant)
  BY <1>13 DEF Selection
<1>15. Range(selected.entities) \subseteq relevant
  <2>1. PICK s \in Seq(relevant) : s = selected.entities BY <1>14
  <2>2. \A i \in DOMAIN s : s[i] \in relevant OBVIOUS
  <2> QED BY <2>1, <2>2 DEF Range
<1>16. t \in [T \cup {o} -> SUBSET ids] /\ t[o] = relevant /\ \A x \in T : x # o => t[x] = part.tracker[x]
  BY <1>2, <1>7 DEF Update
<1>17. v \in [Observers -> SUBSET ids] /\ v[o] = relevant /\ \A x \in Observers : x # o => v[x] = part.view[x]
  BY <1>1, <1>2, <1>3, <1>8, <1>9
<1>18. c \in [Observers -> SUBSET ids] /\ c[o] \subseteq relevant /\ \A x \in Observers : x # o => c[x] = part.chosen[x]
  BY <1>1, <1>2, <1>8, <1>15
<1>19. A \in SUBSET (Observers \X ids)
  <2>1. K \subseteq Observers \X ids BY DEF K
  <2> QED BY <2>1, <1>1, <1>2
<1>20. T \cup {o} \in SUBSET Observers BY <1>1
<1> HIDE DEF t, v, c, ids
<1> DEFINE next == [tracker |-> t, entries |-> selected.entries, view |-> v, chosen |-> c]
<1>21. next \in Parts(Observers, ids)
  <2>1. t \in UNION {[Q -> SUBSET ids] : Q \in SUBSET Observers} BY <1>16, <1>20
  <2>2. selected.entries \in UNION {[Q -> EntryState] : Q \in SUBSET (Observers \X ids)} BY <1>14, <1>19
  <2> QED BY <2>1, <2>2, <1>17, <1>18 DEF Parts
<1>22. \A x \in Observers : v[x] = Visible(t, x) /\ c[x] \subseteq v[x]
  <2> TAKE x \in Observers
  <2>1. CASE x = o BY <2>1, <1>16, <1>17, <1>18 DEF Visible
  <2>2. CASE x # o
    <3>1. Visible(t, x) = Visible(part.tracker, x) BY <2>2, <1>7, <1>16 DEF Visible
    <3> QED BY <2>2, <3>1, <1>17, <1>18 DEF Consistent
  <2> QED BY <2>1, <2>2
<1>23. \A pair \in A : pair[1] \in connected /\ pair[2] \in v[pair[1]]
  <2> TAKE pair \in A
  <2>1. CASE \E e \in relevant : pair = <<o, e>> BY <2>1, <1>17
  <2>2. CASE pair \in K
    <3>1. pair \in D /\ pair \notin {<<o, e>> : e \in old \ relevant} BY <2>2 DEF K
    <3>2. pair[1] \in connected /\ pair[2] \in part.view[pair[1]] BY <3>1, <1>10
    <3>3. PICK x \in Observers, e \in ids : pair = <<x, e>> BY <3>1
    <3>4. CASE x = o
      <4>1. e \in old BY <3>2, <3>3, <3>4, <1>9
      <4>2. e \in relevant BY <3>1, <3>3, <3>4, <4>1
      <4> QED BY <3>2, <3>3, <3>4, <4>2, <1>17
    <3>5. CASE x # o BY <3>2, <3>3, <3>5, <1>17
    <3> QED BY <3>4, <3>5
  <2> QED BY <2>1, <2>2
<1>24. Consistent(next, Observers, connected, ids)
  <2>1. DOMAIN next.entries = A BY <1>14
  <2>2. next.tracker = t /\ next.view = v /\ next.chosen = c OBVIOUS
  <2> HIDE DEF next, A
  <2> QED BY <1>21, <1>22, <1>23, <2>1, <2>2 DEF Consistent
<1> QED BY <1>4, <1>24 DEF ids

(* The sweep: whatever the order, every observer served keeps it so.       *)
LEMMA SweptIsConsistent ==
  ASSUME InterestIInv, NEW n \in Nat, NEW order \in [1 .. n -> connected], Len(order) = n
  PROVE  Consistent(Swept(order), Observers, connected, EntityId)
<1> DEFINE X == {p \in Parts(Observers, EntityId) : Consistent(p, Observers, connected, EntityId)}
           Eq(h) == h = [k \in 0 .. n |-> IF k = 0 THEN Current ELSE Served(h[k - 1], order[k])]
           r == CHOOSE h : Eq(h)
<1>1. Swept(order) = r[n]
  BY DEF Swept, Current
<1>2. Current \in X
  BY DEF InterestIInv, Consistent
<1>3. \A s \in X, k \in 1 .. n : Served(s, order[k]) \in X
  <2> TAKE s \in X, k \in 1 .. n
  <2>1. PICK o \in connected : o = order[k] OBVIOUS
  <2>2. Consistent(Served(s, o), Observers, connected, EntityId) BY ServedIsConsistent DEF InterestIInv
  <2>3. Served(s, o) \in Parts(Observers, EntityId) BY <2>2 DEF Consistent
  <2> QED BY <2>1, <2>2, <2>3
<1>4. PICK Y : Y = X OBVIOUS
<1>5. PICK x0 \in Y : x0 = Current BY <1>2, <1>4
<1> HIDE DEF X
<1>6. PICK step \in [Y \X (1 .. n) -> Y] : \A s \in Y, k \in 1 .. n : step[<<s, k>>] = Served(s, order[k])
  <2> DEFINE f == [a \in Y \X (1 .. n) |-> Served(a[1], order[a[2]])]
  <2>1. f \in [Y \X (1 .. n) -> Y] BY <1>3, <1>4
  <2>2. \A s \in Y, k \in 1 .. n : f[<<s, k>>] = Served(s, order[k]) OBVIOUS
  <2> HIDE DEF f
  <2> QED BY <2>1, <2>2
<1>7. PICK g : Takes(g, Y, x0, step, n) BY StepsExist
<1>8. Eq(g)
  <2>1. \A k \in 0 .. n : g[k] = IF k = 0 THEN Current ELSE Served(g[k - 1], order[k])
    <3> TAKE k \in 0 .. n
    <3>1. CASE k = 0 BY <3>1, <1>5, <1>7 DEF Takes
    <3>2. CASE k # 0
      <4>1. k \in 1 .. n /\ k - 1 \in 0 .. n BY <3>2
      <4>2. g[k] = step[<<g[k - 1], k>>] /\ g[k - 1] \in Y BY <4>1, <1>7 DEF Takes
      <4> QED BY <3>2, <4>1, <4>2, <1>6
    <3> QED BY <3>1, <3>2
  <2>2. g = [k \in 0 .. n |-> g[k]] BY <1>7 DEF Takes
  <2> QED BY <2>1, <2>2
<1>9. Eq(r) BY <1>8
<1> HIDE DEF r
<1>10. r[0] = Current BY <1>9
<1>11. \A k \in 1 .. n : r[k] = Served(r[k - 1], order[k])
  <2> TAKE k \in 1 .. n
  <2>1. k \in 0 .. n /\ k # 0 OBVIOUS
  <2> QED BY <2>1, <1>9
<1> DEFINE T == {k \in Nat : k <= n => r[k] \in X}
<1>12. 0 \in T BY <1>2, <1>10
<1>13. ASSUME NEW k \in Nat, k \in T PROVE k + 1 \in T
  <2>1. CASE k + 1 <= n
    <3>1. k + 1 \in 1 .. n /\ (k + 1) - 1 = k BY <2>1
    <3>2. r[k] \in X BY <1>13, <2>1
    <3>3. r[k + 1] = Served(r[k], order[k + 1]) BY <3>1, <1>11
    <3>4. r[k + 1] \in X BY <3>1, <3>2, <3>3, <1>3
    <3> QED BY <3>4
  <2> QED BY <2>1
<1>14. \A k \in Nat : k \in T
  <2>1. PICK U : U = T OBVIOUS
  <2> HIDE DEF T
  <2>2. 0 \in U BY <1>12, <2>1
  <2>3. \A k \in U : k \in Nat => k + 1 \in U BY <1>13, <2>1
  <2>4. \A k \in Nat : k \in U BY <2>2, <2>3, Induct
  <2> QED BY <2>1, <2>4
<1>15. r[n] \in X BY <1>14
<1> QED BY <1>1, <1>15 DEF X

LEMMA InterestStarts == InterestInit => InterestIInv
<1> SUFFICES ASSUME InterestInit PROVE InterestIInv
  OBVIOUS
<1>1. scenario \in Scenarios /\ generation \in [scenario.slots -> Nat] /\ connected = Observers
  BY DEF InterestInit, Observers
<1>2. WorldOK
  <2>1. DOMAIN where = {} /\ where = [e \in DOMAIN where |-> where[e]] BY DEF InterestInit, Nobody
  <2>2. IsFiniteSet(DOMAIN where) BY <2>1, FS_EmptySet
  <2>3. grid = [cells |-> Nobody, positions |-> Nobody] /\ where = Nobody BY DEF InterestInit, NoEntities
  <2>4. [cell \in {CellOf(where[e]) : e \in DOMAIN where} |-> In(where, cell)] = Nobody
    <3>1. {CellOf(where[e]) : e \in DOMAIN where} = {} BY <2>1
    <3> QED BY <3>1 DEF Nobody
  <2>5. grid = GridOf(where) BY <2>3, <2>4 DEF GridOf
  <2> QED BY <2>1, <2>2, <2>5 DEF WorldOK
<1>3. Consistent(Current, Observers, connected, EntityId)
  <2>1. /\ tracker = Nobody /\ entries = Nobody
        /\ view = [o \in Observers |-> {}] /\ chosen = [o \in Observers |-> {}]
    BY DEF InterestInit, Observers
  <2>2. Nobody \in [{} -> SUBSET EntityId] /\ Nobody \in [{} -> EntryState] /\ DOMAIN Nobody = {} BY DEF Nobody
  <2>3. Current \in Parts(Observers, EntityId)
    <3>1. tracker \in UNION {[D -> SUBSET EntityId] : D \in SUBSET Observers} BY <2>1, <2>2
    <3>2. entries \in UNION {[D -> EntryState] : D \in SUBSET (Observers \X EntityId)} BY <2>1, <2>2
    <3>3. view \in [Observers -> SUBSET EntityId] /\ chosen \in [Observers -> SUBSET EntityId] BY <2>1
    <3> QED BY <3>1, <3>2, <3>3 DEF Parts, Current
  <2>4. \A o \in Observers : view[o] = Visible(tracker, o) /\ chosen[o] \subseteq view[o]
    BY <2>1, <2>2 DEF Visible
  <2> QED BY <2>1, <2>2, <2>3, <2>4 DEF Consistent, Current
<1> QED BY <1>1, <1>2, <1>3 DEF InterestIInv

(* What the server keeps does not change while the application's entities  *)
(* do.                                                                     *)
LEMMA ServerRests ==
  ASSUME InterestIInv, UNCHANGED <<scenario, server>>
  PROVE  /\ scenario' \in Scenarios /\ connected' \subseteq Observers'
         /\ Consistent(Current, Observers, connected, EntityId)'
BY DEF InterestIInv, server, Current, Observers, EntityId, Consistent, Parts, Visible

LEMMA PutKeeps ==
  ASSUME InterestIInv, NEW i \in scenario.slots, NEW p \in scenario.points, Put(Entity(i), p)
  PROVE  InterestIInv'
<1>1. PICK e : e = Entity(i) OBVIOUS
<1>2. /\ where' = AtPoint(where, e, p) /\ grid' = Insert(grid, e, p)
      /\ scenario' = scenario /\ generation' = generation /\ UNCHANGED server
  BY <1>1 DEF Put, AtPoint
<1>3. PICK w : w = where OBVIOUS
<1>4. /\ IsFiniteSet(DOMAIN w) /\ w = [x \in DOMAIN w |-> w[x]] /\ grid = GridOf(w)
      /\ \A x \in DOMAIN w : x.index \in scenario.slots /\ x = Entity(x.index) /\ w[x] \in scenario.points
  BY <1>3 DEF InterestIInv, WorldOK
<1>5. grid' = GridOf(where') BY <1>2, <1>3, <1>4, InsertIs
<1>6. DOMAIN where' = DOMAIN w \cup {e} /\ where' = [x \in DOMAIN where' |-> where'[x]]
  BY <1>2, <1>3 DEF AtPoint
<1>7. IsFiniteSet(DOMAIN where') BY <1>4, <1>6, FS_AddElement
<1>8. \A j : Entity(j)' = Entity(j) BY <1>2 DEF Entity
<1>9. \A x \in DOMAIN where' : x.index \in scenario'.slots /\ x = Entity(x.index)' /\ where'[x] \in scenario'.points
  <2> TAKE x \in DOMAIN where'
  <2>1. CASE x = e
    <3>1. x.index = i /\ x = Entity(x.index) /\ where'[x] = p BY <2>1, <1>1, <1>2, <1>6 DEF AtPoint, Entity
    <3> QED BY <3>1, <1>2 DEF Entity
  <2>2. CASE x # e
    <3>1. x \in DOMAIN w /\ where'[x] = w[x] BY <2>2, <1>2, <1>3, <1>6 DEF AtPoint
    <3> QED BY <3>1, <1>2, <1>4 DEF Entity
  <2> QED BY <2>1, <2>2
<1>10. WorldOK' BY <1>5, <1>6, <1>7, <1>9 DEF WorldOK
<1>11. generation' \in [scenario'.slots -> Nat] BY <1>2 DEF InterestIInv
<1> QED BY <1>2, <1>10, <1>11, ServerRests DEF InterestIInv

LEMMA DespawnKeeps ==
  ASSUME InterestIInv, NEW i \in scenario.slots, Despawn(i)
  PROVE  InterestIInv'
<1>1. PICK e : e = Entity(i) OBVIOUS
<1>2. /\ e \in DOMAIN where /\ where' = Gone(where, e) /\ grid' = RemoveEntity(grid, e)
      /\ generation' = [generation EXCEPT ![i] = @ + 1] /\ UNCHANGED <<scenario, server>>
  BY <1>1 DEF Despawn, Gone
<1>3. PICK w : w = where OBVIOUS
<1>4. /\ IsFiniteSet(DOMAIN w) /\ grid = GridOf(w)
      /\ \A x \in DOMAIN w : x.index \in scenario.slots /\ x = Entity(x.index) /\ w[x] \in scenario.points
  BY <1>3 DEF InterestIInv, WorldOK
<1>5. grid' = GridOf(where') BY <1>2, <1>3, <1>4, RemoveIs
<1>6. /\ DOMAIN where' = DOMAIN w \ {e} /\ where' = [x \in DOMAIN where' |-> where'[x]]
      /\ \A x \in DOMAIN where' : where'[x] = w[x]
  BY <1>2, <1>3 DEF Gone
<1>7. IsFiniteSet(DOMAIN where') BY <1>4, <1>6, FS_RemoveElement
<1>8. generation \in [scenario.slots -> Nat] BY DEF InterestIInv
<1>9. \A x \in DOMAIN where' : x.index \in scenario'.slots /\ x = Entity(x.index)' /\ where'[x] \in scenario'.points
  <2> TAKE x \in DOMAIN where'
  <2>1. x \in DOMAIN w /\ x # e BY <1>6
  <2>2. x.index \in scenario.slots /\ x = Entity(x.index) /\ w[x] \in scenario.points BY <2>1, <1>4
  <2>3. x.index # i BY <2>1, <2>2, <1>1
  <2>4. generation'[x.index] = generation[x.index] BY <2>2, <2>3, <1>2, <1>8
  <2> QED BY <2>2, <2>4, <1>2, <1>6 DEF Entity
<1>10. WorldOK' BY <1>5, <1>6, <1>7, <1>9 DEF WorldOK
<1>11. generation' \in [scenario'.slots -> Nat] BY <1>2, <1>8
<1> QED BY <1>2, <1>10, <1>11, ServerRests DEF InterestIInv

(* The application's entities do not change while the server works.        *)
LEMMA WorldRests ==
  ASSUME InterestIInv, UNCHANGED <<scenario, where, generation, grid>>
  PROVE  scenario' \in Scenarios /\ generation' \in [scenario'.slots -> Nat] /\ WorldOK'
BY DEF InterestIInv, WorldOK, Entity

LEMMA TickKeeps == ASSUME InterestIInv, Tick PROVE InterestIInv'
<1>1. PICK n \in Nat : n = Cardinality(connected)
  <2>1. IsFiniteSet(Observers) BY ScenarioIs DEF InterestIInv
  <2>2. IsFiniteSet(connected) BY <2>1, FS_Subset DEF InterestIInv
  <2> QED BY <2>2, FS_CardinalityType
<1>2. PICK order \in Injection(1 .. n, connected) :
        /\ tracker' = Swept(order).tracker /\ entries' = Swept(order).entries
        /\ view' = Swept(order).view /\ chosen' = Swept(order).chosen
  BY <1>1 DEF Tick
<1>3. order \in [1 .. n -> connected] BY DEF Injection
<1>4. Len(order) = n BY <1>3
<1>5. PICK after : after = Swept(order) OBVIOUS
<1>6. Consistent(after, Observers, connected, EntityId) BY <1>3, <1>4, <1>5, SweptIsConsistent
<1>7. after = [tracker |-> after.tracker, entries |-> after.entries, view |-> after.view, chosen |-> after.chosen]
  BY <1>6 DEF Consistent, Parts
<1>8. Current' = after BY <1>2, <1>5, <1>7 DEF Current
<1>9. UNCHANGED <<scenario, where, generation, grid, connected>> BY DEF Tick
<1>10. Observers' = Observers /\ EntityId' = EntityId BY <1>9 DEF Observers, EntityId
<1>11. Consistent(Current', Observers', connected', EntityId') BY <1>6, <1>8, <1>9, <1>10
<1> QED BY <1>9, <1>10, <1>11, WorldRests DEF InterestIInv

LEMMA DisconnectKeeps == ASSUME InterestIInv, NEW o \in Observers, Disconnect(o) PROVE InterestIInv'
<1>1. /\ o \in connected /\ connected' = connected \ {o}
      /\ tracker' = RemoveObserver(tracker, o) /\ entries' = ForgetObserver(entries, o)
      /\ view' = [view EXCEPT ![o] = {}] /\ chosen' = [chosen EXCEPT ![o] = {}]
      /\ UNCHANGED <<scenario, where, generation, grid>>
  BY DEF Disconnect
<1>2. PICK ids : ids = EntityId OBVIOUS
<1>3. Consistent(Current, Observers, connected, ids) BY <1>2 DEF InterestIInv
<1>4. PICK T \in SUBSET Observers : tracker \in [T -> SUBSET ids] BY <1>3 DEF Consistent, Parts, Current
<1>5. PICK D \in SUBSET (Observers \X ids) : entries \in [D -> EntryState] BY <1>3 DEF Consistent, Parts, Current
<1>6. view \in [Observers -> SUBSET ids] /\ chosen \in [Observers -> SUBSET ids]
  BY <1>3 DEF Consistent, Parts, Current
<1>7. /\ \A x \in Observers : view[x] = Visible(tracker, x) /\ chosen[x] \subseteq view[x]
      /\ \A pair \in D : pair[1] \in connected /\ pair[2] \in view[pair[1]]
  BY <1>3, <1>5 DEF Consistent, Current
<1>8. tracker' \in [T \ {o} -> SUBSET ids] /\ \A x \in T \ {o} : tracker'[x] = tracker[x]
  BY <1>1, <1>4 DEF RemoveObserver, Restrict
<1> DEFINE K == {pair \in D : pair[1] # o}
<1>9. entries' \in [K -> EntryState]
  BY <1>1, <1>5 DEF ForgetObserver, Restrict
<1>10. /\ view' \in [Observers -> SUBSET ids] /\ chosen' \in [Observers -> SUBSET ids]
       /\ view'[o] = {} /\ chosen'[o] = {}
       /\ \A x \in Observers : x # o => view'[x] = view[x] /\ chosen'[x] = chosen[x]
  BY <1>1, <1>6
<1>11. Observers' = Observers /\ EntityId' = ids BY <1>1, <1>2 DEF Observers, EntityId
<1>12. Current' \in Parts(Observers, ids)
  <2>1. tracker' \in UNION {[Q -> SUBSET ids] : Q \in SUBSET Observers} BY <1>8
  <2>2. entries' \in UNION {[Q -> EntryState] : Q \in SUBSET (Observers \X ids)} BY <1>9
  <2> QED BY <2>1, <2>2, <1>10 DEF Parts, Current
<1>13. \A x \in Observers : view'[x] = Visible(tracker', x) /\ chosen'[x] \subseteq view'[x]
  <2> TAKE x \in Observers
  <2>1. CASE x = o BY <2>1, <1>8, <1>10 DEF Visible
  <2>2. CASE x # o
    <3>1. Visible(tracker', x) = Visible(tracker, x) BY <2>2, <1>4, <1>8 DEF Visible
    <3> QED BY <3>1, <2>2, <1>7, <1>10
  <2> QED BY <2>1, <2>2
<1>14. \A pair \in K : pair[1] \in connected' /\ pair[2] \in view'[pair[1]]
  <2> TAKE pair \in K
  <2>1. pair \in D /\ pair[1] # o /\ pair[1] \in Observers OBVIOUS
  <2> QED BY <2>1, <1>1, <1>7, <1>10
<1> HIDE DEF K
<1>15. Consistent(Current', Observers, connected', ids)
  <2>1. DOMAIN entries' = K BY <1>9
  <2> QED BY <1>12, <1>13, <1>14, <2>1 DEF Consistent, Current
<1>16. connected' \subseteq Observers' BY <1>1, <1>11 DEF InterestIInv
<1> QED BY <1>1, <1>11, <1>15, <1>16, WorldRests DEF InterestIInv

LEMMA ReturnKeeps == ASSUME InterestIInv, NEW o \in Observers, Return(o) PROVE InterestIInv'
<1>1. connected' = connected \cup {o} /\ UNCHANGED <<scenario, where, generation, grid, tracker, entries, view, chosen>>
  BY DEF Return
<1>2. Observers' = Observers /\ EntityId' = EntityId /\ Current' = Current
  BY <1>1 DEF Observers, EntityId, Current
<1>3. Consistent(Current, Observers, connected', EntityId)
  <2>1. Consistent(Current, Observers, connected, EntityId) BY DEF InterestIInv
  <2> QED BY <2>1, <1>1 DEF Consistent
<1>4. connected' \subseteq Observers' BY <1>1, <1>2 DEF InterestIInv
<1> QED BY <1>1, <1>2, <1>3, <1>4, WorldRests DEF InterestIInv

LEMMA InterestStutters == ASSUME InterestIInv, UNCHANGED InterestVars PROVE InterestIInv'
<1>1. UNCHANGED <<scenario, where, generation, grid>> /\ UNCHANGED <<scenario, server>> BY DEF InterestVars, server
<1> QED BY <1>1, ServerRests, WorldRests DEF InterestIInv

(* The grid holds the live entities, each in its cell, and what the server *)
(* keeps for its observers hangs together.                                 *)
THEOREM InterestIsInductive == InterestSpec => []InterestIInv
<1>1. InterestIInv /\ [InterestNext]_InterestVars => InterestIInv'
  <2> SUFFICES ASSUME InterestIInv, [InterestNext]_InterestVars PROVE InterestIInv'
    OBVIOUS
  <2>1. ASSUME NEW i \in scenario.slots, NEW p \in scenario.points, Spawn(i, p) \/ Move(i, p) PROVE InterestIInv'
    BY <2>1, PutKeeps DEF Spawn, Move
  <2>2. ASSUME NEW i \in scenario.slots, Despawn(i) PROVE InterestIInv' BY <2>2, DespawnKeeps
  <2>3. ASSUME NEW o \in Observers, Disconnect(o) \/ Return(o) PROVE InterestIInv'
    BY <2>3, DisconnectKeeps, ReturnKeeps
  <2>4. CASE Tick BY <2>4, TickKeeps
  <2>5. CASE UNCHANGED InterestVars BY <2>5, InterestStutters
  <2> QED BY <2>1, <2>2, <2>3, <2>4, <2>5 DEF InterestNext
<1> QED BY <1>1, InterestStarts, PTL DEF InterestSpec

(* A client's view, built from nothing but the events, is what the server  *)
(* thinks it sees; only that is sent, and only for that is a priority kept. *)
THEOREM ViewsFollow == InterestSpec => []ViewFollowsRelevance
<1>1. InterestIInv => ViewFollowsRelevance
  BY DEF InterestIInv, Consistent, Current, ViewFollowsRelevance
<1> QED BY <1>1, InterestIsInductive, PTL

(* The grid's query finds every entity within the radius, and no other but *)
(* for the rounding of the squares, for cells of any size.                 *)
THEOREM QueriesAreExact == ASSUME ReachFits PROVE InterestSpec => []GridIsExact
<1>1. InterestIInv => GridIsExact
  <2> SUFFICES ASSUME InterestIInv, NEW c \in scenario.points, NEW r \in Radii
               PROVE  LET found == Query(grid, c, r)
                      IN /\ \A e \in DOMAIN where : ExactSq(where[e], c) <= r * r => e \in found
                         /\ \A e \in found : /\ e \in DOMAIN where
                                             /\ Mul(r, r) < MaxRaw => ExactSq(where[e], c) < r * r + 2 * One
    BY DEF GridIsExact
  <2>1. PICK w : w = where OBVIOUS
  <2>2. grid = GridOf(w) BY <2>1 DEF InterestIInv, WorldOK
  <2>3. Point(c) /\ \A e \in DOMAIN w : Point(w[e])
    BY <2>1, ScenarioIs DEF InterestIInv, WorldOK
  <2>4. r \in 0 .. MaxRaw /\ (r * One) \div CellSize <= MaxRaw - One BY ScenariosAssumption DEF ReachFits
  <2> QED BY <2>1, <2>2, <2>3, <2>4, QueryIsExact
<1> QED BY <1>1, InterestIsInductive, PTL

-----------------------------------------------------------------------------
(***************************************************************************)
(* What is computed.                                                       *)
(***************************************************************************)
LEMMA ComputedIsExact == ASSUME WireNext, NumbersAreExact PROVE NumbersAreExact'
<1>1. ASSUME NEW i \in DOMAIN Fields("sender"), NEW op, NEW b \in Operands[Fields("sender")[i].ty],
             Compute(i, op, b)
      PROVE  NumbersAreExact'
  <2>1. PICK value : value = Stored(i) OBVIOUS
  <2>2. /\ value.v \in Samples[value.ty]
        /\ last' = [op |-> op, ty |-> value.ty, a |-> value.v, b |-> b, result |-> Apply(value.ty, op, value.v, b)]
    BY <1>1, <2>1 DEF Compute
  <2>3. value.ty = Fields("sender")[i].ty
    BY <2>1 DEF Stored, SlotRead, Layout, Fields
  <2>4. SUFFICES ASSUME value.ty = "fx", op \in ExactOps
                 PROVE  NumberLaw(op, value.v[1], b[1], Apply("fx", op, value.v, b)[1])
    BY <2>2 DEF NumbersAreExact
  <2>5. value.v[1] \in Fx /\ b[1] \in Fx BY <2>2, <2>3, <2>4, OperandsAssumption
  <2>6. Apply("fx", op, value.v, b)[1] = OfNumber(op, value.v[1], b[1]) BY DEF Apply
  <2> QED BY <2>4, <2>5, <2>6, NumbersAreLawful
<1>2. (last' = last \/ last' = Absent) => NumbersAreExact' BY DEF NumbersAreExact
<1>3. (\E p \in Peers, c \in pool : RegisterComponent(p, c) \/ DeclareCommand(p, c)) => last' = last
  BY DEF RegisterComponent, DeclareCommand
<1>4. (Negotiate \/ (\E c \in Components(schema["sender"]) : Attach(c)) \/ Truncate \/ ReceiveMessage) => last' = last
  BY DEF Negotiate, Attach, Truncate, ReceiveMessage
<1>5. (\E i, ty, v : Write(i, ty, v)) => last' = Absent BY DEF Write
<1>6. (\E values : SendValues(values)) => last' = Absent BY DEF SendValues
<1>7. (SendComponent \/ \E values : SendCommand(values)) => last' = Absent
  BY <1>6 DEF SendComponent, SendCommand
<1>8. WireNext => \/ \E p \in Peers, c \in pool : RegisterComponent(p, c) \/ DeclareCommand(p, c)
                  \/ Negotiate \/ (\E c \in Components(schema["sender"]) : Attach(c)) \/ Truncate \/ ReceiveMessage
                  \/ (\E i, ty, v : Write(i, ty, v))
                  \/ SendComponent \/ (\E values : SendCommand(values))
                  \/ \E i \in DOMAIN Fields("sender") : \E op : \E b \in Operands[Fields("sender")[i].ty] : Compute(i, op, b)
  BY DEF WireNext
<1> QED BY <1>1, <1>2, <1>3, <1>4, <1>5, <1>7, <1>8

(* Every result computed without a table is the number it should be.       *)
THEOREM ResultsAreExact == WireSpec => []NumbersAreExact
<1>1. WireInit => NumbersAreExact BY DEF WireInit, NumbersAreExact
<1>2. NumbersAreExact /\ [WireNext]_WireVars => NumbersAreExact'
  <2>1. NumbersAreExact /\ UNCHANGED WireVars => NumbersAreExact' BY DEF NumbersAreExact, WireVars
  <2> QED BY <2>1, ComputedIsExact
<1> QED BY <1>1, <1>2, PTL DEF WireSpec

(***************************************************************************)
(* What is declared, sorted by name.                                       *)
(***************************************************************************)
Declared(s) ==
  /\ \E n \in Nat : DOMAIN s = 1 .. n
  /\ \A i \in DOMAIN s : s[i].name \in Nat
  /\ \A i, j \in DOMAIN s : s[i].name = s[j].name => i = j

NamesOf(s) == {x.name : x \in Components(s)}

LEMMA NamesAre == ASSUME NEW s, NEW n PROVE n \in NamesOf(s) <=> \E i \in DOMAIN s : s[i].name = n
BY DEF NamesOf, Components

LEMMA NamedIs ==
  ASSUME NEW s, Declared(s), NEW i \in DOMAIN s PROVE Named(Components(s), s[i].name) = s[i]
<1>1. \A x \in Components(s) : x.name = s[i].name <=> x = s[i] BY DEF Components, Declared
<1>2. s[i] \in Components(s) BY DEF Components
<1> QED BY <1>1, <1>2 DEF Named

LEMMA ByNameIs ==
  ASSUME NEW s, Declared(s), NEW n \in Nat, DOMAIN s = 1 .. n
  PROVE  /\ DOMAIN ByName(s) = 1 .. n
         /\ \A k \in 1 .. n : \E i \in 1 .. n : ByName(s)[k] = s[i]
         /\ \A i \in 1 .. n : \E k \in 1 .. n : ByName(s)[k] = s[i]
         /\ \A k, l \in 1 .. n : k < l => ByName(s)[k].name < ByName(s)[l].name
<1> DEFINE S == 1 .. n
           R == {p \in S \X S : IsNamedBefore(s, p[1], p[2])}
           Ahead(i) == Cardinality({j \in DOMAIN s : IsNamedBefore(s, j, i)})
           place == [k \in S |-> CHOOSE i \in S : Ahead(i) = k - 1]
<1>1. \A i, j \in S : <<i, j>> \in R <=> s[i].name < s[j].name
  BY DEF IsNamedBefore, Declared
<1>2. \A i \in S : s[i].name \in Nat BY DEF Declared
<1>3. \A i \in S : Ahead(i) = Rank(R, S, i)
  <2> TAKE i \in S
  <2>1. \A j \in S : <<j, i>> \in R <=> IsNamedBefore(s, j, i) OBVIOUS
  <2> HIDE DEF R
  <2>2. {j \in DOMAIN s : IsNamedBefore(s, j, i)} = Before(R, S, i) BY <2>1 DEF Before
  <2> QED BY <2>2 DEF Rank
<1> HIDE DEF R
<1>4. Orders(R, S)
  <2>1. IsFiniteSet(S) BY FS_Interval
  <2>2. \A i \in S : <<i, i>> \notin R BY <1>1, <1>2
  <2>3. \A i, j \in S : i # j => <<i, j>> \in R \/ <<j, i>> \in R
    <3> TAKE i, j \in S
    <3> HAVE i # j
    <3>1. s[i].name # s[j].name BY DEF Declared
    <3> QED BY <3>1, <1>1, <1>2
  <2>4. \A i, j, k \in S : <<i, j>> \in R /\ <<j, k>> \in R => <<i, k>> \in R
    <3> TAKE i, j, k \in S
    <3> HAVE <<i, j>> \in R /\ <<j, k>> \in R
    <3>1. s[i].name < s[j].name /\ s[j].name < s[k].name BY <1>1
    <3>2. s[i].name < s[k].name BY <3>1, <1>2
    <3> QED BY <3>2, <1>1
  <2> QED BY <2>1, <2>2, <2>3, <2>4 DEF Orders
<1>5. Cardinality(S) = n BY FS_Interval
<1>6. /\ \A k \in S : \E i \in S : Ahead(i) = k - 1
      /\ \A i, j \in S : Ahead(i) = Ahead(j) => i = j
      /\ \A i \in S : Ahead(i) \in 0 .. n - 1
  <2>1. /\ \A k \in 1 .. Cardinality(S) : \E i \in S : Rank(R, S, i) = k - 1
        /\ \A i, j \in S : Rank(R, S, i) = Rank(R, S, j) => i = j
    BY <1>4, EveryRankIsTaken
  <2>2. \A i \in S : Rank(R, S, i) \in 0 .. Cardinality(S) - 1 BY <1>4, RankIsSmall
  <2> HIDE DEF Ahead, S
  <2>3. \A k \in 1 .. n : \E i \in S : Ahead(i) = k - 1 BY <2>1, <1>3, <1>5
  <2>4. \A i, j \in S : Ahead(i) = Ahead(j) => i = j BY <2>1, <1>3
  <2>5. \A i \in S : Ahead(i) \in 0 .. n - 1 BY <2>2, <1>3, <1>5
  <2> QED BY <2>3, <2>4, <2>5 DEF S
<1>7. \A i, j \in S : s[i].name < s[j].name => Ahead(i) < Ahead(j)
  <2> HIDE DEF Ahead, S
  <2> TAKE i, j \in S
  <2> HAVE s[i].name < s[j].name
  <2>1. Rank(R, S, i) < Rank(R, S, j) BY <1>1, <1>4, RanksDiffer
  <2> QED BY <2>1, <1>3
<1>8. ByName(s) = [k \in S |-> s[CHOOSE i \in S : Ahead(i) = k - 1]]
  BY DEF ByName
<1> HIDE DEF Ahead
<1>9. \A k \in S : place[k] \in S /\ Ahead(place[k]) = k - 1
  BY <1>6
<1>10. DOMAIN ByName(s) = S /\ \A k \in S : ByName(s)[k] = s[place[k]]
  BY <1>8
<1> HIDE DEF place
<1>11. \A i \in S : \E k \in S : place[k] = i
  <2> TAKE i \in S
  <2>1. Ahead(i) + 1 \in S /\ (Ahead(i) + 1) - 1 = Ahead(i) BY <1>6
  <2>2. PICK k \in S : k = Ahead(i) + 1 BY <2>1
  <2> QED BY <2>1, <2>2, <1>6, <1>9
<1>12. \A k, l \in S : k < l => s[place[k]].name < s[place[l]].name
  <2> TAKE k, l \in S
  <2> HAVE k < l
  <2>1. PICK i \in S : i = place[k] /\ Ahead(i) = k - 1 BY <1>9
  <2>2. PICK j \in S : j = place[l] /\ Ahead(j) = l - 1 BY <1>9
  <2>3. i # j /\ ~(s[j].name < s[i].name) BY <2>1, <2>2, <1>7
  <2>4. s[i].name # s[j].name BY <2>3 DEF Declared
  <2>5. s[i].name < s[j].name BY <2>3, <2>4, <1>2
  <2> QED BY <2>1, <2>2, <2>5
<1>13. \A k \in S : \E i \in S : ByName(s)[k] = s[i] BY <1>9, <1>10
<1>14. \A i \in S : \E k \in S : ByName(s)[k] = s[i]
  <2> TAKE i \in S
  <2>1. PICK k \in S : place[k] = i BY <1>11
  <2>2. ByName(s)[k] = s[i] BY <2>1, <1>10
  <2> QED BY <2>2
<1>15. \A k, l \in S : k < l => ByName(s)[k].name < ByName(s)[l].name BY <1>10, <1>12
<1> QED BY <1>10, <1>13, <1>14, <1>15

(* An ascending sequence of numbers is told by the set of them.            *)
Ascends(f, m) == f \in [1 .. m -> Nat] /\ \A k, l \in 1 .. m : k < l => f[k] < f[l]

LEMMA AscentIsWithin ==
  ASSUME NEW m \in Nat, NEW f, Ascends(f, m), NEW n \in Nat, NEW g, Ascends(g, n),
         \A k \in 1 .. m : \E l \in 1 .. n : g[l] = f[k],
         \A l \in 1 .. n : \E k \in 1 .. m : f[k] = g[l]
  PROVE  \A k \in 1 .. m : k \in 1 .. n /\ g[k] = f[k]
<1> DEFINE T == {k \in 1 .. m : ~(k \in 1 .. n /\ g[k] = f[k])}
<1> SUFFICES ASSUME T # {} PROVE FALSE
  OBVIOUS
<1>1. PICK k \in T : \A u \in T : ~(<<u, k>> \in OpToRel(<, Nat))
  <2>1. T \subseteq Nat OBVIOUS
  <2> QED BY <2>1, Least
<1>2. \A u \in T : ~(u < k)
  <2>1. \A u \in Nat : u < k => <<u, k>> \in OpToRel(<, Nat) BY <1>1 DEF OpToRel
  <2>2. \A u \in T : u \in Nat OBVIOUS
  <2> HIDE DEF T
  <2>3. k \in T BY <1>1
  <2> QED BY <1>1, <2>1, <2>2, <2>3
<1>3. k \in 1 .. m BY <1>1
<1>4. \A u \in 1 .. k - 1 : u \in 1 .. n /\ g[u] = f[u]
  <2> TAKE u \in 1 .. k - 1
  <2>1. u \in 1 .. m /\ u < k BY <1>3
  <2> QED BY <2>1, <1>2
<1>5. PICK l \in 1 .. n : g[l] = f[k] BY <1>3
<1>6. l >= k
  <2> SUFFICES ASSUME l < k PROVE FALSE
    BY <1>3
  <2>1. l \in 1 .. k - 1 /\ l \in 1 .. m BY <1>3
  <2>2. g[l] = f[l] /\ f[l] < f[k] BY <2>1, <1>3, <1>4 DEF Ascends
  <2> QED BY <2>2, <1>5, <1>3, <2>1 DEF Ascends
<1>7. k \in 1 .. n BY <1>3, <1>6
<1>8. PICK i \in 1 .. m : f[i] = g[k] BY <1>7
<1>9. i >= k
  <2> SUFFICES ASSUME i < k PROVE FALSE
    BY <1>3
  <2>1. i \in 1 .. k - 1 /\ i \in 1 .. n BY <1>3, <1>7
  <2>2. g[i] = f[i] /\ g[i] < g[k] BY <2>1, <1>4, <1>7 DEF Ascends
  <2> QED BY <2>1, <2>2, <1>7, <1>8 DEF Ascends
<1>10. g[k] <= g[l] /\ f[k] <= f[i]
  <2>1. g[k] \in Nat /\ g[l] \in Nat /\ f[k] \in Nat /\ f[i] \in Nat BY <1>3, <1>7 DEF Ascends
  <2>2. k = l \/ g[k] < g[l] BY <1>6, <1>7 DEF Ascends
  <2>3. k = i \/ f[k] < f[i] BY <1>3, <1>9 DEF Ascends
  <2> QED BY <2>1, <2>2, <2>3
<1>11. f[k] = g[k] BY <1>3, <1>5, <1>7, <1>8, <1>10 DEF Ascends
<1> QED BY <1>1, <1>7, <1>11

(* Two lists of the same names have them in the same places, and the       *)
(* places hold what the names stand for.                                   *)
Aligned(s, t) ==
  /\ DOMAIN ByName(s) = DOMAIN ByName(t)
  /\ \A k \in DOMAIN ByName(s) : ByName(s)[k].name = ByName(t)[k].name

LEMMA NamesHavePlaces ==
  ASSUME NEW s, Declared(s)
  PROVE  /\ \A k \in DOMAIN ByName(s) : /\ ByName(s)[k].name \in NamesOf(s)
                                        /\ Named(Components(s), ByName(s)[k].name) = ByName(s)[k]
                                        /\ \E i \in DOMAIN s : ByName(s)[k] = s[i]
         /\ \A n \in NamesOf(s) : \E k \in DOMAIN ByName(s) : ByName(s)[k].name = n
<1>1. PICK n \in Nat : DOMAIN s = 1 .. n BY DEF Declared
<1>2. /\ DOMAIN ByName(s) = 1 .. n
      /\ \A k \in 1 .. n : \E i \in 1 .. n : ByName(s)[k] = s[i]
      /\ \A i \in 1 .. n : \E k \in 1 .. n : ByName(s)[k] = s[i]
  BY <1>1, ByNameIs
<1>3. \A k \in DOMAIN ByName(s) : \E i \in DOMAIN s : ByName(s)[k] = s[i] BY <1>1, <1>2
<1>4. \A i \in DOMAIN s : \E k \in DOMAIN ByName(s) : ByName(s)[k] = s[i] BY <1>1, <1>2
<1>5. ASSUME NEW k \in DOMAIN ByName(s)
      PROVE  ByName(s)[k].name \in NamesOf(s) /\ Named(Components(s), ByName(s)[k].name) = ByName(s)[k]
  <2>1. PICK i \in DOMAIN s : ByName(s)[k] = s[i] BY <1>3
  <2>2. Named(Components(s), s[i].name) = s[i] BY NamedIs
  <2>3. s[i].name \in NamesOf(s) BY NamesAre
  <2> QED BY <2>1, <2>2, <2>3
<1>6. ASSUME NEW x \in NamesOf(s) PROVE \E k \in DOMAIN ByName(s) : ByName(s)[k].name = x
  <2>1. PICK i \in DOMAIN s : s[i].name = x BY NamesAre
  <2>2. PICK k \in DOMAIN ByName(s) : ByName(s)[k] = s[i] BY <1>4
  <2> QED BY <2>1, <2>2
<1> QED BY <1>3, <1>5, <1>6

LEMMA SameNamesAlign ==
  ASSUME NEW s, Declared(s), NEW t, Declared(t) PROVE Aligned(s, t) <=> NamesOf(s) = NamesOf(t)
<1>1. PICK m \in Nat : DOMAIN s = 1 .. m BY DEF Declared
<1>2. PICK n \in Nat : DOMAIN t = 1 .. n BY DEF Declared
<1>3. /\ DOMAIN ByName(s) = 1 .. m /\ \A k \in 1 .. m : \E i \in 1 .. m : ByName(s)[k] = s[i]
      /\ \A k, l \in 1 .. m : k < l => ByName(s)[k].name < ByName(s)[l].name
  BY <1>1, ByNameIs
<1>4. /\ DOMAIN ByName(t) = 1 .. n /\ \A k \in 1 .. n : \E i \in 1 .. n : ByName(t)[k] = t[i]
      /\ \A k, l \in 1 .. n : k < l => ByName(t)[k].name < ByName(t)[l].name
  BY <1>2, ByNameIs
<1> DEFINE f == [k \in 1 .. m |-> ByName(s)[k].name]
           g == [k \in 1 .. n |-> ByName(t)[k].name]
<1>5. Ascends(f, m) BY <1>1, <1>3 DEF Ascends, Declared
<1>6. Ascends(g, n) BY <1>2, <1>4 DEF Ascends, Declared
<1>7. ASSUME Aligned(s, t) PROVE NamesOf(s) = NamesOf(t)
  <2>1. NamesOf(s) \subseteq NamesOf(t) BY <1>7, NamesHavePlaces DEF Aligned
  <2>2. NamesOf(t) \subseteq NamesOf(s) BY <1>7, NamesHavePlaces DEF Aligned
  <2> QED BY <2>1, <2>2
<1>8. ASSUME NamesOf(s) = NamesOf(t) PROVE Aligned(s, t)
  <2>1. \A k \in 1 .. m : \E l \in 1 .. n : g[l] = f[k]
    <3> TAKE k \in 1 .. m
    <3>1. ByName(s)[k].name \in NamesOf(t) BY <1>3, <1>8, NamesHavePlaces
    <3>2. PICK l \in DOMAIN ByName(t) : ByName(t)[l].name = ByName(s)[k].name BY <3>1, NamesHavePlaces
    <3>3. l \in 1 .. n BY <1>4
    <3> QED BY <3>2, <3>3
  <2>2. \A l \in 1 .. n : \E k \in 1 .. m : f[k] = g[l]
    <3> TAKE l \in 1 .. n
    <3>1. ByName(t)[l].name \in NamesOf(s) BY <1>4, <1>8, NamesHavePlaces
    <3>2. PICK k \in DOMAIN ByName(s) : ByName(s)[k].name = ByName(t)[l].name BY <3>1, NamesHavePlaces
    <3>3. k \in 1 .. m BY <1>3
    <3> QED BY <3>2, <3>3
  <2> HIDE DEF f, g
  <2>3. \A k \in 1 .. m : k \in 1 .. n /\ g[k] = f[k] BY <1>5, <1>6, <2>1, <2>2, AscentIsWithin
  <2>4. \A k \in 1 .. n : k \in 1 .. m /\ f[k] = g[k] BY <1>5, <1>6, <2>1, <2>2, AscentIsWithin
  <2>5. 1 .. m = 1 .. n BY <2>3, <2>4
  <2> QED BY <1>3, <1>4, <2>3, <2>5 DEF Aligned, f, g
<1> QED BY <1>7, <1>8

(***************************************************************************)
(* Canonical forms.                                                        *)
(***************************************************************************)
FieldsOK(fs) ==
  Declared(fs) /\ \A i \in DOMAIN fs : fs[i] = [name |-> fs[i].name, ty |-> fs[i].ty, params |-> fs[i].params]

Lines(fs) == [i \in DOMAIN ByName(fs) |-> WriteCanonical(ByName(fs)[i])]

SameFields(f, g) ==
  /\ NamesOf(f) = NamesOf(g)
  /\ \A n \in NamesOf(f) : WriteCanonical(Named(Components(f), n)) = WriteCanonical(Named(Components(g), n))

(* Equal lines: the same fields, and the same order of them.               *)
LEMMA LinesTellFields ==
  ASSUME NEW f, FieldsOK(f), NEW g, FieldsOK(g)
  PROVE  /\ Lines(f) = Lines(g) <=> SameFields(f, g)
         /\ Lines(f) = Lines(g) => ByName(f) = ByName(g)
<1> DEFINE F == ByName(f)
           G == ByName(g)
<1>1. Declared(f) /\ Declared(g) BY DEF FieldsOK
<1>2. /\ F = [k \in DOMAIN F |-> F[k]] /\ G = [k \in DOMAIN G |-> G[k]]
      /\ DOMAIN Lines(f) = DOMAIN F /\ DOMAIN Lines(g) = DOMAIN G
      /\ \A k \in DOMAIN F : Lines(f)[k] = WriteCanonical(F[k])
      /\ \A k \in DOMAIN G : Lines(g)[k] = WriteCanonical(G[k])
  BY DEF Lines, ByName
<1>3. \A k \in DOMAIN F : F[k] = [name |-> F[k].name, ty |-> F[k].ty, params |-> F[k].params]
  BY <1>1, NamesHavePlaces DEF FieldsOK
<1>4. \A k \in DOMAIN G : G[k] = [name |-> G[k].name, ty |-> G[k].ty, params |-> G[k].params]
  BY <1>1, NamesHavePlaces DEF FieldsOK
<1>5. Lines(f) = [k \in DOMAIN F |-> Lines(f)[k]] /\ Lines(g) = [k \in DOMAIN G |-> Lines(g)[k]]
  BY DEF Lines
<1>6. ASSUME Lines(f) = Lines(g) PROVE SameFields(f, g) /\ F = G
  <2>1. DOMAIN F = DOMAIN G BY <1>2, <1>6
  <2>2. \A k \in DOMAIN F : WriteCanonical(F[k]) = WriteCanonical(G[k]) BY <1>2, <1>6, <2>1
  <2>3. \A k \in DOMAIN F : F[k].name = G[k].name /\ F[k] = G[k]
    <3> TAKE k \in DOMAIN F
    <3>1. F[k].name = G[k].name /\ F[k].ty = G[k].ty /\ F[k].params = G[k].params BY <2>2 DEF WriteCanonical
    <3> QED BY <3>1, <1>3, <1>4, <2>1
  <2>4. F = G BY <1>2, <2>1, <2>3
  <2>5. NamesOf(f) = NamesOf(g) BY <1>1, <2>1, <2>3, SameNamesAlign DEF Aligned
  <2>6. ASSUME NEW n \in NamesOf(f)
        PROVE  WriteCanonical(Named(Components(f), n)) = WriteCanonical(Named(Components(g), n))
    <3>1. PICK k \in DOMAIN F : F[k].name = n BY <1>1, NamesHavePlaces
    <3>2. Named(Components(f), n) = F[k] BY <1>1, <3>1, NamesHavePlaces
    <3>3. Named(Components(g), n) = G[k] BY <1>1, <2>1, <2>3, <3>1, NamesHavePlaces
    <3> QED BY <3>2, <3>3, <2>3
  <2> QED BY <2>4, <2>5, <2>6 DEF SameFields
<1>7. ASSUME SameFields(f, g) PROVE Lines(f) = Lines(g)
  <2>1. DOMAIN F = DOMAIN G /\ \A k \in DOMAIN F : F[k].name = G[k].name
    BY <1>1, <1>7, SameNamesAlign DEF SameFields, Aligned
  <2>2. ASSUME NEW k \in DOMAIN F PROVE Lines(f)[k] = Lines(g)[k]
    <3>1. F[k].name \in NamesOf(f) /\ Named(Components(f), F[k].name) = F[k] BY <1>1, NamesHavePlaces
    <3>2. Named(Components(g), F[k].name) = G[k] BY <1>1, <2>1, NamesHavePlaces
    <3> QED BY <3>1, <3>2, <1>2, <1>7, <2>1 DEF SameFields
  <2> QED BY <1>5, <2>1, <2>2
<1> QED BY <1>6, <1>7

SchemaOK(s) == Declared(s) /\ \A i \in DOMAIN s : FieldsOK(s[i].fields)

SameSchema(s, t) ==
  /\ NamesOf(s) = NamesOf(t)
  /\ \A n \in NamesOf(s) : SameFields(Named(Components(s), n).fields, Named(Components(t), n).fields)

LEMMA FormIs ==
  ASSUME NEW s
  PROVE  SchemaId(s) = [i \in DOMAIN ByName(s) |-> <<ByName(s)[i].name, Lines(ByName(s)[i].fields)>>]
BY DEF SchemaId, CanonicalForm, CanonicalComponents, CanonicalFields, Lines

LEMMA NamedFieldsOK ==
  ASSUME NEW s, SchemaOK(s), NEW n \in NamesOf(s) PROVE FieldsOK(Named(Components(s), n).fields)
<1>1. PICK i \in DOMAIN s : s[i].name = n BY NamesAre
<1> QED BY <1>1, NamedIs DEF SchemaOK

(* Equal ids: the same components, of the same fields.                     *)
LEMMA IdTellsSchema ==
  ASSUME NEW s, SchemaOK(s), NEW t, SchemaOK(t) PROVE SchemaId(s) = SchemaId(t) <=> SameSchema(s, t)
<1> DEFINE S == ByName(s)
           T == ByName(t)
<1>1. Declared(s) /\ Declared(t) BY DEF SchemaOK
<1>2. PICK u : u = SchemaId(s) OBVIOUS
<1>3. PICK v : v = SchemaId(t) OBVIOUS
<1>4. /\ u = [k \in DOMAIN S |-> u[k]] /\ DOMAIN u = DOMAIN S
      /\ \A k \in DOMAIN S : u[k] = <<S[k].name, Lines(S[k].fields)>>
  BY <1>2, FormIs
<1>5. /\ v = [k \in DOMAIN T |-> v[k]] /\ DOMAIN v = DOMAIN T
      /\ \A k \in DOMAIN T : v[k] = <<T[k].name, Lines(T[k].fields)>>
  BY <1>3, FormIs
<1>6. ASSUME NEW k \in DOMAIN S
      PROVE  S[k].name \in NamesOf(s) /\ Named(Components(s), S[k].name) = S[k] /\ FieldsOK(S[k].fields)
  BY <1>1, NamesHavePlaces DEF SchemaOK
<1>7. ASSUME NEW k \in DOMAIN T
      PROVE  T[k].name \in NamesOf(t) /\ Named(Components(t), T[k].name) = T[k] /\ FieldsOK(T[k].fields)
  BY <1>1, NamesHavePlaces DEF SchemaOK
<1>8. \A n \in NamesOf(s) : \E k \in DOMAIN S : S[k].name = n BY <1>1, NamesHavePlaces
<1>9. (DOMAIN S = DOMAIN T /\ \A k \in DOMAIN S : S[k].name = T[k].name) <=> NamesOf(s) = NamesOf(t)
  BY <1>1, SameNamesAlign DEF Aligned
<1> HIDE DEF S, T
<1>10. ASSUME u = v PROVE SameSchema(s, t)
  <2>1. DOMAIN S = DOMAIN T BY <1>4, <1>5, <1>10
  <2>2. \A k \in DOMAIN S : S[k].name = T[k].name /\ Lines(S[k].fields) = Lines(T[k].fields)
    BY <1>4, <1>5, <1>10, <2>1
  <2>3. NamesOf(s) = NamesOf(t) BY <1>9, <2>1, <2>2
  <2>4. ASSUME NEW n \in NamesOf(s)
        PROVE  SameFields(Named(Components(s), n).fields, Named(Components(t), n).fields)
    <3>1. PICK k \in DOMAIN S : S[k].name = n BY <1>8
    <3>2. Named(Components(s), n) = S[k] /\ FieldsOK(S[k].fields) BY <3>1, <1>6
    <3>3. Named(Components(t), n) = T[k] /\ FieldsOK(T[k].fields) BY <3>1, <1>7, <2>1, <2>2
    <3>4. SameFields(S[k].fields, T[k].fields) BY <3>2, <3>3, <2>2, LinesTellFields
    <3> QED BY <3>2, <3>3, <3>4
  <2> QED BY <2>3, <2>4 DEF SameSchema
<1>11. ASSUME SameSchema(s, t) PROVE u = v
  <2>1. DOMAIN S = DOMAIN T /\ \A k \in DOMAIN S : S[k].name = T[k].name
    BY <1>9, <1>11 DEF SameSchema
  <2>2. ASSUME NEW k \in DOMAIN S PROVE u[k] = v[k]
    <3>1. SameFields(S[k].fields, T[k].fields) BY <1>6, <1>7, <1>11, <2>1 DEF SameSchema
    <3>2. Lines(S[k].fields) = Lines(T[k].fields) BY <3>1, <1>6, <1>7, <2>1, LinesTellFields
    <3> QED BY <3>2, <1>4, <1>5, <2>1
  <2> QED BY <1>4, <1>5, <2>1, <2>2
<1> QED BY <1>2, <1>3, <1>10, <1>11

(* An empty report: the same components, of the same fields.               *)
LEMMA DiffTellsSchema ==
  ASSUME NEW s, NEW t
  PROVE  Diff(s, t) = [components |-> {}, fields |-> {}] <=> SameSchema(s, t)
<1> DEFINE shared == NamesOf(s) \cap NamesOf(t)
           a(n) == Named(Components(s), n).fields
           b(n) == Named(Components(t), n).fields
           differ(n) == {f \in NamesOf(a(n)) \cup NamesOf(b(n)) :
                           \/ f \notin NamesOf(a(n)) \cap NamesOf(b(n))
                           \/ WriteCanonical(Named(Components(a(n)), f)) # WriteCanonical(Named(Components(b(n)), f))}
           all == UNION {{<<n, f>> : f \in differ(n)} : n \in shared}
<1>1. Diff(s, t) = [components |-> (NamesOf(s) \cup NamesOf(t)) \ shared, fields |-> all]
  BY DEF Diff, NamesOf, Components
<1>2. \A n : differ(n) = {} <=> SameFields(a(n), b(n)) BY DEF SameFields
<1>3. ((NamesOf(s) \cup NamesOf(t)) \ shared = {}) <=> NamesOf(s) = NamesOf(t) OBVIOUS
<1>4. all = {} <=> \A n \in shared : differ(n) = {}
  <2> HIDE DEF differ, shared
  <2>1. \A n \in shared : \A f \in differ(n) : <<n, f>> \in all OBVIOUS
  <2>2. \A x \in all : \E n \in shared : \E f \in differ(n) : x = <<n, f>> OBVIOUS
  <2> HIDE DEF all
  <2> QED BY <2>1, <2>2
<1> HIDE DEF differ
<1>5. NamesOf(s) = NamesOf(t) => shared = NamesOf(s) OBVIOUS
<1> HIDE DEF all, shared
<1>6. Diff(s, t) = [components |-> {}, fields |-> {}] <=>
        (NamesOf(s) \cup NamesOf(t)) \ shared = {} /\ all = {}
  BY <1>1
<1> QED BY <1>2, <1>3, <1>4, <1>5, <1>6 DEF SameSchema

LEMMA SameSchemaSameSlots ==
  ASSUME NEW s, SchemaOK(s), NEW t, SchemaOK(t), SameSchema(s, t), NEW n \in NamesOf(s)
  PROVE  Layout(Named(Components(s), n)) = Layout(Named(Components(t), n))
<1>1. PICK c : c = Named(Components(s), n) OBVIOUS
<1>2. PICK d : d = Named(Components(t), n) OBVIOUS
<1>3. FieldsOK(c.fields) /\ FieldsOK(d.fields) BY <1>1, <1>2, NamedFieldsOK DEF SameSchema
<1>4. SameFields(c.fields, d.fields) BY <1>1, <1>2 DEF SameSchema
<1>5. CanonicalFields(c) = CanonicalFields(d) BY <1>3, <1>4, LinesTellFields DEF CanonicalFields
<1> QED BY <1>1, <1>2, <1>5 DEF Layout

(***************************************************************************)
(* The schemas of the two peers.                                           *)
(***************************************************************************)
SchemasOK ==
  /\ pool \in Pools
  /\ schema = [p \in Peers |-> schema[p]]
  /\ \A p \in Peers : schema[p] \in Seq(pool) /\ SchemaOK(schema[p])

LEMMA ValidFieldsOK == ASSUME NEW c, IsDeclared(c), ValidComponent(c) PROVE FieldsOK(c.fields)
<1>1. PICK fs \in Seq(Range(c.fields)) : fs = c.fields BY DEF IsDeclared
<1>2. Len(fs) \in Nat /\ DOMAIN fs = 1 .. Len(fs) OBVIOUS
<1>3. \A i \in DOMAIN fs : fs[i] \in Range(c.fields) BY <1>1 DEF Range
<1>4. \A i \in DOMAIN fs : fs[i] = [name |-> fs[i].name, ty |-> fs[i].ty, params |-> fs[i].params] /\ fs[i].name \in Nat
  BY <1>3 DEF IsDeclared
<1>5. \A i, j \in DOMAIN fs : fs[i].name = fs[j].name => i = j
  <2>1. \A i \in DOMAIN fs : \A j \in 1 .. i - 1 : fs[j].name # fs[i].name BY <1>1 DEF ValidComponent
  <2> QED BY <1>2, <2>1
<1> QED BY <1>1, <1>2, <1>4, <1>5 DEF FieldsOK, Declared

LEMMA RegisterKeeps ==
  ASSUME NEW declarations \in Pools, NEW s \in Seq(declarations), SchemaOK(s), NEW c \in declarations
  PROVE  Register(s, c) \in Seq(declarations) /\ SchemaOK(Register(s, c))
<1>1. CASE Register(s, c) = s BY <1>1
<1>2. CASE ValidComponent(c) /\ (\A i \in DOMAIN s : s[i].name # c.name) /\ Register(s, c) = Append(s, c)
  <2>1. IsDeclared(c) BY DeclarationsAssumption
  <2>2. FieldsOK(c.fields) /\ c.name \in Nat BY <1>2, <2>1, ValidFieldsOK DEF IsDeclared
  <2>3. PICK t \in Seq(declarations) : t = Append(s, c)
    <3>1. Append(s, c) \in Seq(declarations) BY AppendProperties
    <3> QED BY <3>1
  <2>4. Len(s) \in Nat /\ DOMAIN s = 1 .. Len(s) /\ DOMAIN t = 1 .. Len(s) + 1 BY <2>3
  <2>5. t[Len(s) + 1] = c /\ \A i \in 1 .. Len(s) : t[i] = s[i] BY <2>3
  <2>6. \A i \in DOMAIN t : i = Len(s) + 1 \/ i \in DOMAIN s BY <2>4
  <2>7. \A i \in DOMAIN t : t[i].name \in Nat /\ FieldsOK(t[i].fields)
    BY <2>2, <2>4, <2>5, <2>6 DEF SchemaOK, Declared
  <2>8. \A i, j \in DOMAIN t : t[i].name = t[j].name => i = j
    BY <1>2, <2>4, <2>5, <2>6 DEF SchemaOK, Declared
  <2> QED BY <1>2, <2>3, <2>4, <2>7, <2>8 DEF SchemaOK, Declared
<1> QED BY <1>1, <1>2 DEF Register

LEMMA SchemasStart == ASSUME WireInit PROVE SchemasOK
<1>1. schema = [p \in Peers |-> <<>>] /\ pool \in Pools BY DEF WireInit
<1>2. SchemaOK(<<>>) /\ <<>> \in Seq(pool)
  <2>1. DOMAIN <<>> = 1 .. 0 OBVIOUS
  <2> QED BY <2>1 DEF SchemaOK, Declared
<1> QED BY <1>1, <1>2 DEF SchemasOK

LEMMA SchemasKeep == ASSUME SchemasOK, [WireNext]_WireVars PROVE SchemasOK'
<1>1. ASSUME NEW p \in Peers, NEW c \in pool, RegisterComponent(p, c) \/ DeclareCommand(p, c)
      PROVE  SchemasOK'
  <2>1. PICK t : t = Register(schema[p], c) OBVIOUS
  <2>2. t \in Seq(pool) /\ SchemaOK(t) BY <2>1, RegisterKeeps DEF SchemasOK
  <2>3. pool' = pool /\ (schema' = schema \/ schema' = [schema EXCEPT ![p] = t])
    BY <1>1, <2>1 DEF RegisterComponent, DeclareCommand, SchemasOK
  <2> QED BY <2>2, <2>3 DEF SchemasOK
<1>2. ASSUME UNCHANGED <<pool, schema>> PROVE SchemasOK' BY <1>2 DEF SchemasOK
<1>3. (Negotiate \/ (\E c \in Components(schema["sender"]) : Attach(c)) \/ Truncate \/ ReceiveMessage) => UNCHANGED <<pool, schema>>
  BY DEF Negotiate, Attach, Truncate, ReceiveMessage
<1>4. (\E i, ty, v : Write(i, ty, v)) \/ (\E i, op, b : Compute(i, op, b)) => UNCHANGED <<pool, schema>> BY DEF Write, Compute
<1>5. (SendComponent \/ \E values : SendCommand(values)) => UNCHANGED <<pool, schema>>
  BY DEF SendComponent, SendCommand, SendValues
<1>6. UNCHANGED WireVars => UNCHANGED <<pool, schema>> BY DEF WireVars
<1>7. WireNext => \/ \E p \in Peers, c \in pool : RegisterComponent(p, c) \/ DeclareCommand(p, c)
                  \/ Negotiate \/ (\E c \in Components(schema["sender"]) : Attach(c)) \/ Truncate \/ ReceiveMessage
                  \/ (\E i, ty, v : Write(i, ty, v)) \/ (\E i, op, b : Compute(i, op, b))
                  \/ SendComponent \/ (\E values : SendCommand(values))
  BY DEF WireNext
<1> QED BY <1>1, <1>2, <1>3, <1>4, <1>5, <1>6, <1>7

(* Equal ids mean equal slots, however the declarations were ordered, and  *)
(* different ids never go without a line of explanation.                   *)
THEOREM AgreementsAreExact == WireSpec => []AgreementIsExact
<1>1. SchemasOK => AgreementIsExact
  <2> SUFFICES ASSUME SchemasOK PROVE AgreementIsExact
    OBVIOUS
  <2>1. PICK a : a = schema["sender"] OBVIOUS
  <2>2. PICK b : b = schema["receiver"] OBVIOUS
  <2>3. SchemaOK(a) /\ SchemaOK(b) BY <2>1, <2>2 DEF SchemasOK, Peers
  <2>4. SchemaId(a) = SchemaId(b) <=> Diff(a, b) = [components |-> {}, fields |-> {}]
    BY <2>3, IdTellsSchema, DiffTellsSchema
  <2>5. SchemaId(a) = SchemaId(b) =>
          \A c \in Components(a) : Layout(Named(Components(a), c.name)) = Layout(Named(Components(b), c.name))
    <3> SUFFICES ASSUME SchemaId(a) = SchemaId(b), NEW c \in Components(a)
                 PROVE  Layout(Named(Components(a), c.name)) = Layout(Named(Components(b), c.name))
      OBVIOUS
    <3>1. c.name \in NamesOf(a) BY DEF NamesOf
    <3> QED BY <3>1, <2>3, IdTellsSchema, SameSchemaSameSlots
  <2> QED BY <2>1, <2>2, <2>4, <2>5 DEF AgreementIsExact
<1> QED BY <1>1, SchemasStart, SchemasKeep, PTL DEF WireSpec

-----------------------------------------------------------------------------
(***************************************************************************)
(* ReplayProtection and SecureSession, for any size of the sequence space  *)
(* and of the window, any tokens, protocols and times.  The invariants     *)
(* behind the theorems: the bits of the window are exactly the accepted    *)
(* numbers less than Width behind the highest; no token opened two         *)
(* sessions.                                                               *)
(***************************************************************************)
USE DEF Seqs

(* A wire value extends to the number it was cut from if that number is    *)
(* less than half the sequence space away (sequence.rs:28-51).             *)
LEMMA ExtendFindsTheNumber ==
  ASSUME NEW n \in Nat, NEW h \in Nat,
         h - n < SeqCount \div 2, n - h < SeqCount \div 2,
         h + 2 * SeqCount < WideMod
  PROVE  Extend(n % SeqCount, h) = n
<1> DEFINE M == SeqCount
           w == n % M
           base == h - (h % M)
           q == h \div M
           k == n \div M
           candidate == << (base + w) % WideMod, (base + M + w) % WideMod,
                           (base - M + w) % WideMod >>
           gap(i) == AbsDiff(candidate[i], h)
<1>1. /\ M \in Nat /\ M > 1 /\ WideMod \in Nat /\ WideMod > 2 * M
      /\ 2 * (M \div 2) <= M
  BY SeqCountAssumption, WideModAssumption
<1>2. /\ w \in 0 .. M - 1 /\ h % M \in 0 .. M - 1
      /\ q \in Nat /\ k \in Nat
      /\ h = M * q + (h % M) /\ n = M * k + w
  BY <1>1
<1>3. base = M * q /\ base \in Nat /\ base <= h /\ h < base + M
  BY <1>1, <1>2
<1> HIDE DEF w, q, k, base
<1>4. k - q \in {-1, 0, 1}
  <2> DEFINE d == k - q
  <2>1. M * d = M * k - M * q
    BY <1>1, <1>2
  <2>2. M * d = (n - h) - (w - (h % M))
    <3>1. M * k = n - w /\ M * q = h - (h % M) /\ h % M \in Int /\ w \in Int
      BY <1>1, <1>2
    <3> QED BY <2>1, <3>1
  <2>3. M * d < 2 * M /\ -(2 * M) < M * d
    BY <2>2, <1>1, <1>2
  <2>4. d \in Int
    BY <1>2
  <2> HIDE DEF d
  <2>5. d < 2 /\ -2 < d
    <3>1. d >= 2 => M * d >= M * 2
      BY <1>1, <2>4
    <3>2. d <= -2 => M * d <= M * (-2)
      BY <1>1, <2>4
    <3> QED BY <3>1, <3>2, <2>3, <2>4, <1>1
  <2> QED BY <2>4, <2>5 DEF d
<1>5. n \in {base + w, base + M + w, base - M + w}
  <2>1. CASE k = q
    BY <2>1, <1>1, <1>2, <1>3
  <2>2. CASE k = q + 1
    <3>1. M * (q + 1) = M * q + M
      BY <1>1, <1>2
    <3> QED BY <3>1, <2>2, <1>1, <1>2, <1>3
  <2>3. CASE k = q - 1
    <3>1. M * (q - 1) = M * q - M
      BY <1>1, <1>2
    <3> QED BY <3>1, <2>3, <1>1, <1>2, <1>3
  <2> QED BY <1>4, <1>2, <2>1, <2>2, <2>3
<1>6. /\ (base + w) % WideMod = base + w
      /\ (base + M + w) % WideMod = base + M + w
      /\ (base - M + w) % WideMod =
           IF base - M + w >= 0 THEN base - M + w ELSE base - M + w + WideMod
  <2>1. base + M + w < WideMod /\ base - M + w < WideMod /\ base - M + w + WideMod > 0
    BY <1>1, <1>2, <1>3
  <2>2. \A x \in Int : 0 <= x /\ x < WideMod => x % WideMod = x
    BY <1>1
  <2>3. \A x \in Int : -WideMod < x /\ x < 0 => x % WideMod = x + WideMod
    <3> SUFFICES ASSUME NEW x \in Int, -WideMod < x, x < 0
                 PROVE  x % WideMod = x + WideMod
      OBVIOUS
    <3>1. x = WideMod * (-1) + (x + WideMod) /\ x + WideMod \in 0 .. WideMod - 1
      BY <1>1
    <3> QED BY <3>1, <1>1
  <2> QED BY <2>1, <2>2, <2>3, <1>1, <1>2, <1>3
<1>7. \E i \in 1 .. 3 : candidate[i] = n /\ \A j \in 1 .. 3 : j # i => gap(i) < gap(j)
  BY <1>1, <1>2, <1>3, <1>5, <1>6, SMTT(60) DEF AbsDiff
<1>8. PICK i \in 1 .. 3 : candidate[i] = n /\ \A j \in 1 .. 3 : j # i => gap(i) < gap(j)
  BY <1>7
<1>9. \A j \in 1 .. 3 : gap(j) \in Int
  BY <1>1, <1>2, <1>3, <1>6 DEF AbsDiff
<1> HIDE DEF candidate, gap
<1>10. \A b \in 1 .. 3 :
         (\A j \in 1 .. 3 : gap(b) < gap(j) \/ (gap(b) = gap(j) /\ b <= j)) <=> b = i
  BY <1>8, <1>9
<1>11. i = CHOOSE b \in 1 .. 3 :
             \A j \in 1 .. 3 : gap(b) < gap(j) \/ (gap(b) = gap(j) /\ b <= j)
  BY <1>10
<1> QED BY <1>8, <1>11 DEF Extend, candidate, gap, base, w

-----------------------------------------------------------------------------
(* What the receiver remembers is true, and the sender is never further    *)
(* ahead of it than extension can bridge.                                  *)
WindowHonest ==
  /\ highest = None => accepted = {} /\ seen = {}
  /\ highest # None => highest \in accepted /\ \A n \in accepted : n <= highest
  /\ highest # None =>
       \A b \in 0 .. Width - 1 : b \in seen <=> highest - b \in accepted
  /\ repeated = {}
  /\ Highest <= sealed /\ sealed - Highest <= Blackout + 1

IInv == TypeOK /\ WindowHonest

LEMMA InitHonest == Init => IInv
<1> SUFFICES ASSUME Init PROVE IInv
  OBVIOUS
<1>1. TypeOK
  BY ReplayAssumption DEF Init, TypeOK, None
<1>2. WindowHonest
  BY ReplayAssumption DEF Init, WindowHonest, Highest, None
<1> QED BY <1>1, <1>2 DEF IInv

LEMMA SealHonest == ASSUME IInv, Seal PROVE IInv'
BY ReplayAssumption DEF Seal, IInv, TypeOK, WindowHonest, Highest, None

LEMMA ReceiveHonest ==
  ASSUME IInv, NEW n \in 0 .. sealed - 1, Receive(n) PROVE IInv'
<1>1. n \in Nat /\ n < sealed /\ Width \in Nat \ {0} /\ TypeOK /\ WindowHonest
  BY ReplayAssumption DEF IInv, TypeOK
<1>2. TypeOK'
  <2>1. seen' \subseteq 0 .. Width - 1
    <3>1. CASE highest = None
      BY <3>1, <1>1 DEF Receive, Accept, TypeOK, None
    <3>2. CASE highest # None /\ n > highest
      <4>1. seen' = {b + (n - highest) : b \in {x \in seen : x + (n - highest) < Width}}
                      \cup {0}
        BY <3>2, <1>1 DEF Receive, Accept, TypeOK
      <4>2. \A x \in seen : x + (n - highest) < Width =>
              x + (n - highest) \in 0 .. Width - 1
        BY <3>2, <1>1 DEF TypeOK
      <4> QED BY <4>1, <4>2, <1>1
    <3>3. CASE highest # None /\ n <= highest
      <4>1. seen' = seen \cup {highest - n} /\ highest - n < Width
        BY <3>3, <1>1 DEF Receive, Accept, TypeOK, None
      <4>2. highest - n \in 0 .. Width - 1
        BY <4>1, <3>3, <1>1 DEF TypeOK, None
      <4> QED BY <4>1, <4>2, <1>1 DEF TypeOK
    <3> QED BY <3>1, <3>2, <3>3, <1>1 DEF TypeOK, None
  <2>2. highest' \in Nat
    BY <1>1 DEF Receive, Accept, TypeOK, None
  <2> QED BY <2>1, <2>2, <1>1 DEF Receive, TypeOK
<1>3. WindowHonest'
  <2>1. CASE highest = None
    <3>1. highest' = n /\ seen' = {0} /\ accepted' = {n} /\ repeated' = {}
      BY <1>1, <2>1 DEF Receive, Accept, WindowHonest
    <3>2. \A b \in 0 .. Width - 1 : n - b = n <=> b = 0
      BY <1>1
    <3>3. sealed' = sealed /\ Highest' = n /\ Highest = 0
      BY <3>1, <1>1, <2>1 DEF Receive, Highest, None
    <3> QED
      BY <3>1, <3>2, <3>3, <1>1, ReplayAssumption DEF TypeOK, WindowHonest, None
  <2>2. CASE highest # None /\ n > highest
    <3>1. \A b \in 0 .. Width - 1 : b \in seen' <=> highest' - b \in accepted'
      <4> SUFFICES ASSUME NEW b \in 0 .. Width - 1
                   PROVE  b \in seen' <=> n - b \in accepted \cup {n}
        BY <1>1, <2>2 DEF Receive, Accept, TypeOK, None
      <4> DEFINE shift == n - highest
      <4>1. shift \in Nat /\ shift > 0
        BY <1>1, <2>2 DEF TypeOK
      <4>2. b \in seen' <=> b = 0 \/ (b - shift \in seen)
        BY <4>1, <1>1, <2>2 DEF Receive, Accept, TypeOK, None
      <4>3. b - shift \in seen <=> b >= shift /\ n - b \in accepted
        <5>1. highest - (b - shift) = n - b
          BY <1>1, <4>1 DEF TypeOK
        <5> QED BY <5>1, <1>1, <4>1 DEF TypeOK, WindowHonest
      <4>4. b < shift => n - b \notin accepted
        BY <1>1, <2>2, <4>1 DEF TypeOK, WindowHonest
      <4> QED BY <4>1, <4>2, <4>3, <4>4, <1>1
    <3> QED
      BY <3>1, <1>1, <2>2, ReplayAssumption DEF Receive, Accept, TypeOK, WindowHonest, Highest, None
  <2>3. CASE highest # None /\ n <= highest
    <3>1. n \notin accepted
      BY <1>1, <2>3 DEF Receive, Accept, TypeOK, WindowHonest, Highest, None
    <3>2. \A b \in 0 .. Width - 1 : b = highest - n <=> highest - b = n
      BY <1>1 DEF TypeOK
    <3> QED
      BY <3>1, <3>2, <1>1, <2>3 DEF Receive, Accept, TypeOK, WindowHonest, Highest, None
  <2> QED BY <1>1, <2>1, <2>2, <2>3 DEF TypeOK, None
<1> QED BY <1>2, <1>3 DEF IInv

LEMMA StayHonest == IInv /\ [Next]_vars => IInv'
<1> SUFFICES ASSUME IInv, [Next]_vars PROVE IInv'
  OBVIOUS
<1>1. CASE Next
  BY <1>1, SealHonest, ReceiveHonest DEF Next
<1>2. CASE UNCHANGED vars
  BY <1>2 DEF vars, IInv, TypeOK, WindowHonest, Highest
<1> QED BY <1>1, <1>2

(* The variables keep their types (crypto.rs:103-169).                     *)
THEOREM TypeCorrect == Spec => []TypeOK
<1>1. IInv => TypeOK
  BY DEF IInv
<1> QED BY <1>1, InitHonest, StayHonest, PTL DEF Spec

(* No packet is accepted twice, for every window width, sequence space and *)
(* order of delivery (crypto.rs:99-102).                                   *)
THEOREM NoReplayAccepted == Spec => []AcceptedOnce
<1>1. IInv => AcceptedOnce
  BY DEF IInv, WindowHonest, AcceptedOnce
<1> QED BY <1>1, InitHonest, StayHonest, PTL DEF Spec

(* No fresh packet within reach is turned away: the wire value extends to  *)
(* its true number and the window has no bit for it (sequence.rs:28-51,    *)
(* crypto.rs:129-162).                                                     *)
THEOREM FreshPacketsAccepted == Spec => []FreshIsAccepted
<1>1. IInv => FreshIsAccepted
  <2> SUFFICES ASSUME IInv, NEW n \in 0 .. sealed - 1, n \notin accepted,
                      Highest - n < Width, Highest - n < SeqCount \div 2
               PROVE  Opens(n) /\ ~Refuses(n)
    BY DEF FreshIsAccepted
  <2>1. n \in Nat /\ Highest \in Nat /\ n - Highest < SeqCount \div 2
    BY ReplayAssumption, SeqCountAssumption DEF IInv, TypeOK, WindowHonest, Highest, None
  <2>2. Highest + 2 * SeqCount < WideMod
    BY ReplayAssumption, SeqCountAssumption, WideModAssumption DEF IInv, TypeOK, WindowHonest, Highest, None
  <2>3. Opens(n)
    BY <2>1, <2>2, ExtendFindsTheNumber DEF Opens
  <2>4. ~Refuses(n)
    BY <2>1, ReplayAssumption DEF Refuses, IInv, TypeOK, WindowHonest, Highest, None
  <2> QED BY <2>3, <2>4
<1> QED BY <1>1, InitHonest, StayHonest, PTL DEF Spec

-----------------------------------------------------------------------------
(***************************************************************************)
(* SecureSession: within a session the invariant above holds; no token     *)
(* opened two sessions, so no two sessions share a key.                    *)
(***************************************************************************)
UsedOnce == \A s, t \in 1 .. Open : sessions[s].token = sessions[t].token => s = t

SInv == SessionTypeOK /\ IInv /\ OwnPacketsOnly /\ UsedOnce /\ AdmittedWhileValid

LEMMA SessionInitSafe == SessionInit => SInv
<1> SUFFICES ASSUME SessionInit PROVE SInv
  OBVIOUS
<1>1. IInv
  BY InitHonest DEF SessionInit
<1>2. SessionTypeOK /\ OwnPacketsOnly /\ UsedOnce /\ AdmittedWhileValid
  BY SessionAssumption DEF SessionInit, SessionTypeOK, OwnPacketsOnly, UsedOnce, AdmittedWhileValid, Open, Times
<1> QED BY <1>1, <1>2 DEF SInv

LEMMA SameWindowHonest == IInv /\ UNCHANGED vars => IInv'
BY StayHonest

LEMMA IssueSafe ==
  ASSUME SInv, NEW client \in Clients, NEW protocol \in Protocols, Issue(client, protocol)
  PROVE  SInv'
<1> DEFINE token == [client |-> client, protocol |-> protocol, expireAt |-> SaturatingAdd(now, Expiry)]
<1>1. token \in Token
  BY SessionAssumption DEF SInv, SessionTypeOK, SaturatingAdd, Times, Token
<1>2. issued' = Append(issued, token) /\ issued \in Seq(Token) /\ UNCHANGED <<vars, now, sessions, stray>>
  BY DEF Issue, SInv, SessionTypeOK
<1> HIDE DEF token
<1>3. /\ issued' \in Seq(Token) /\ Len(issued') = Len(issued) + 1
      /\ \A i \in 1 .. Len(issued) : issued'[i] = issued[i]
  BY <1>1, <1>2
<1>4. sessions \in Seq(Session)
  BY DEF SInv, SessionTypeOK
<1>5. \A s \in 1 .. Open : sessions[s].token \in 1 .. Len(issued)
  <2>1. \A s \in 1 .. Open : sessions[s] \in Session
    BY <1>4 DEF Open
  <2> QED BY <2>1 DEF Session
<1>6. IInv'
  BY <1>2, SameWindowHonest DEF SInv
<1>7. SessionTypeOK'
  <2>1. \A x \in Session : x \in Session'
    BY <1>3, <1>2 DEF Session, SInv, SessionTypeOK
  <2>2. \A s \in 1 .. Len(sessions) : sessions[s] \in Session'
    BY <1>4, <2>1
  <2>3. sessions \in Seq(Session')
    BY <1>4, <2>2
  <2> QED BY <1>2, <1>3, <2>3 DEF SInv, SessionTypeOK, Open
<1>8. OwnPacketsOnly' /\ UsedOnce' /\ AdmittedWhileValid'
  BY <1>2, <1>3, <1>5 DEF SInv, OwnPacketsOnly, UsedOnce, AdmittedWhileValid, Open
<1> QED BY <1>6, <1>7, <1>8 DEF SInv

LEMMA ConnectSafe ==
  ASSUME SInv, NEW token \in 1 .. Len(issued), NEW protocol \in Protocols, NEW expireAt \in Times,
         Connect(token, protocol, expireAt)
  PROVE  SInv'
<1> DEFINE new == [token |-> token, since |-> now, sealed |-> 0]
<1>1. /\ sessions \in Seq(Session) /\ now \in Times /\ sealed \in Nat
      /\ issued \in Seq(Token) /\ stray = {} /\ repeated = {}
  BY DEF SInv, SessionTypeOK, IInv, TypeOK, WindowHonest, OwnPacketsOnly
<1>2. Ended \in Seq(Session) /\ Len(Ended) = Open
      /\ \A s \in 1 .. Open : Ended[s].token = sessions[s].token /\ Ended[s].since = sessions[s].since
  <2>1. Open \in Nat /\ \A s \in 1 .. Open : sessions[s] \in Session
    BY <1>1 DEF Open
  <2>2. \A s \in 1 .. Open : /\ Ended[s] \in Session
                            /\ Ended[s].token = sessions[s].token /\ Ended[s].since = sessions[s].since
    BY <2>1, <1>1 DEF Ended, Session
  <2>3. Ended = [s \in 1 .. Open |-> Ended[s]]
    BY DEF Ended
  <2> HIDE DEF Ended
  <2> QED BY <2>1, <2>2, <2>3
<1>3. new \in Session
  BY <1>1 DEF Session
<1>4. sessions' = Append(Ended, new) /\ UNCHANGED <<now, issued, stray, repeated>>
      /\ sealed' = 0 /\ highest' = None /\ seen' = {} /\ accepted' = {}
  BY DEF Connect, FreshWindow
<1>5. /\ sessions' \in Seq(Session) /\ Open' = Open + 1 /\ Open \in Nat
      /\ sessions'[Open + 1] = new
      /\ \A s \in 1 .. Open : sessions'[s] = Ended[s]
  BY <1>1, <1>2, <1>3, <1>4 DEF Open
<1>6. IInv'
  <2>1. Init'
    BY <1>1, <1>4 DEF Init
  <2> QED BY <2>1, ReplayAssumption DEF Init, IInv, TypeOK, WindowHonest, Highest, None
<1>7. SessionTypeOK' /\ OwnPacketsOnly'
  <2>1. Session' = Session
    BY <1>4 DEF Session
  <2>2. sessions' \in Seq(Session')
    BY <2>1, <1>5
  <2> QED BY <2>2, <1>1, <1>4 DEF SInv, SessionTypeOK, OwnPacketsOnly
<1>8. UsedOnce'
  <2>1. \A s \in 1 .. Open : sessions[s].token # token
    BY DEF Connect, IsUsed
  <2>2. \A s \in 1 .. Open : sessions'[s].token = sessions[s].token
    BY <1>2, <1>5
  <2>3. sessions'[Open + 1].token = token
    BY <1>5
  <2>4. \A s \in 1 .. Open + 1 : s = Open + 1 \/ s \in 1 .. Open
    BY <1>5
  <2>5. \A s, t \in 1 .. Open + 1 : sessions'[s].token = sessions'[t].token => s = t
    BY <2>1, <2>2, <2>3, <2>4 DEF SInv, UsedOnce
  <2> QED BY <2>5, <1>5 DEF UsedOnce
<1>9. AdmittedWhileValid'
  <2>1. issued[token].protocol = ExpectedProtocol /\ now < issued[token].expireAt
    <3>1. <<protocol, expireAt>> = <<issued[token].protocol, issued[token].expireAt>>
      BY DEF Connect, OpensPrivate, FromWire, TokenAad
    <3> QED BY <3>1 DEF Connect, OpensPrivate, FromWire
  <2>2. \A s \in 1 .. Open : /\ issued'[sessions'[s].token].protocol = ExpectedProtocol
                            /\ sessions'[s].since < issued'[sessions'[s].token].expireAt
    <3> TAKE s \in 1 .. Open
    <3>1. sessions'[s].token = sessions[s].token /\ sessions'[s].since = sessions[s].since BY <1>2, <1>5
    <3>2. issued' = issued BY <1>4
    <3>3. /\ issued[sessions[s].token].protocol = ExpectedProtocol
          /\ sessions[s].since < issued[sessions[s].token].expireAt
      BY DEF SInv, AdmittedWhileValid
    <3> QED BY <3>1, <3>2, <3>3
  <2>3. sessions'[Open + 1].token = token /\ sessions'[Open + 1].since = now
    BY <1>5
  <2>4. \A s \in 1 .. Open + 1 : s = Open + 1 \/ s \in 1 .. Open
    BY <1>5
  <2> QED BY <2>1, <2>2, <2>3, <2>4, <1>4, <1>5 DEF AdmittedWhileValid
<1> QED BY <1>6, <1>7, <1>8, <1>9 DEF SInv

LEMMA SessionsKept ==
  ASSUME SInv, UNCHANGED <<issued, sessions, stray>>, now' \in Times
  PROVE  SessionTypeOK' /\ OwnPacketsOnly' /\ UsedOnce' /\ AdmittedWhileValid'
<1>1. Session' = Session
  BY DEF Session
<1>2. sessions' \in Seq(Session')
  BY <1>1 DEF SInv, SessionTypeOK
<1> QED BY <1>2 DEF SInv, SessionTypeOK, OwnPacketsOnly, UsedOnce, AdmittedWhileValid, Open

LEMMA SendSafe == ASSUME SInv, Send PROVE SInv'
<1>1. IInv'
  BY SealHonest DEF Send, SInv
<1>2. UNCHANGED <<issued, sessions, stray>> /\ now' \in Times
  BY DEF Send, SInv, SessionTypeOK
<1> QED BY <1>1, <1>2, SessionsKept DEF SInv

LEMMA DeliverSafe ==
  ASSUME SInv, NEW s \in 1 .. Open, NEW n \in 0 .. SealedIn(s) - 1, Deliver(s, n)
  PROVE  SInv'
<1>1. s = Open
  <2>1. Open \in 1 .. Open
    BY DEF SInv, SessionTypeOK, Open
  <2> QED BY <2>1 DEF SInv, UsedOnce, Deliver, SessionKey
<1>2. Receive(n) /\ n \in 0 .. sealed - 1 /\ UNCHANGED <<now, issued, sessions, stray>>
  BY <1>1 DEF Deliver, SealedIn
<1>3. IInv'
  BY <1>2, ReceiveHonest DEF SInv
<1>4. now' \in Times
  BY <1>2 DEF SInv, SessionTypeOK
<1> QED BY <1>2, <1>3, <1>4, SessionsKept DEF SInv

LEMMA PassSafe == ASSUME SInv, Pass PROVE SInv'
<1>1. IInv'
  BY SameWindowHonest DEF Pass, SInv
<1>2. UNCHANGED <<issued, sessions, stray>> /\ now' \in Times
  BY SessionAssumption DEF Pass, SInv, SessionTypeOK, Times
<1> QED BY <1>1, <1>2, SessionsKept DEF SInv

LEMMA SessionStaysSafe == SInv /\ [SessionNext]_sessionVars => SInv'
<1> SUFFICES ASSUME SInv, [SessionNext]_sessionVars PROVE SInv'
  OBVIOUS
<1>1. CASE SessionNext
  BY <1>1, IssueSafe, ConnectSafe, SendSafe, DeliverSafe, PassSafe DEF SessionNext
<1>2. CASE UNCHANGED sessionVars
  <2>1. IInv'
    BY <1>2, SameWindowHonest DEF SInv, sessionVars
  <2>2. UNCHANGED <<issued, sessions, stray>> /\ now' \in Times
    BY <1>2 DEF sessionVars, SInv, SessionTypeOK
  <2> QED BY <2>1, <2>2, SessionsKept DEF SInv
<1> QED BY <1>1, <1>2

(* Whatever is delivered, and however often a client connects again, no    *)
(* packet is accepted twice (crypto.rs:99-102) nor in a session it was not *)
(* sealed in (crypto.rs:45-51, token.rs:137).                              *)
THEOREM SessionsAcceptOnce == SessionSpec => [](AcceptedOnce /\ OwnPacketsOnly)
<1>1. SInv => AcceptedOnce /\ OwnPacketsOnly
  BY DEF SInv, IInv, WindowHonest, AcceptedOnce
<1> QED BY <1>1, SessionInitSafe, SessionStaysSafe, PTL DEF SessionSpec

(* No session is opened but with a token the backend issued for this       *)
(* protocol, before its expiry (token.rs:104-113, 170-200).                *)
THEOREM SessionsAreAdmitted == SessionSpec => []AdmittedWhileValid
<1>1. SInv => AdmittedWhileValid
  BY DEF SInv
<1> QED BY <1>1, SessionInitSafe, SessionStaysSafe, PTL DEF SessionSpec
================================================================================
