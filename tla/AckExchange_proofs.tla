-------------------------- MODULE AckExchange_proofs --------------------------
(***************************************************************************)
(* Proofs about acknowledgements across the wrap of the sequence numbers,  *)
(* for any sizes of the sequence space, the rings and the bitfield.        *)
(*                                                                         *)
(* Everything is said of the packets the sequences stand for: the highest  *)
(* sequence is that of the latest packet to arrive, the received ring      *)
(* holds the latest arrival of each slot, what a header names arrived not  *)
(* long before the header was made, and the sender remembers only the last *)
(* Capacity packets.  Each follows from the others because packets that    *)
(* matter at one time are less than a sequence space apart (NearIsSame).   *)
(***************************************************************************)
EXTENDS AckExchange, TLAPS

(* The most packets sent since the latest arrival, and since the oldest    *)
(* one that a header in flight may name.                                   *)
Gap == MaxLost + Lifetime + 1
Lag == Lifetime + Gap + AckBits

(* What a finite sequence space needs in order to be unambiguous.  With    *)
(* the 2^16 sequences and the 32 bits of the code and rings of 64, as in   *)
(* its tests: packets that live for at most 64 packets, headers as well,   *)
(* losses of up to 32,000 packets in a row and of up to 1,022 in a row of  *)
(* one slot.  The received ring is never cleared, so a loss of a whole lap *)
(* in one slot would leave an entry that reads as the packet SeqCount later. *)
(* For SpeaksFirst see ConnectionFirstHeader.                              *)
Unambiguous ==
  /\ SeqCount % Capacity = 0
  /\ AckBits < Capacity
  /\ Lifetime <= Capacity
  /\ Gap <= SeqCount \div 2
  /\ (MaxSlotLost + 2) * Capacity <= SeqCount
  /\ Lag <= SeqCount
  /\ ~SpeaksFirst

-----------------------------------------------------------------------------
(* Arithmetic.                                                             *)
LEMMA ConstantsAreNumbers ==
  /\ SeqCount \in Nat \ {0, 1} /\ Capacity \in Nat \ {0} /\ AckBits \in Nat
  /\ MaxPackets \in Nat /\ MaxLost \in Nat /\ MaxSlotLost \in Nat /\ Lifetime \in Nat \ {0}
BY SeqCountAssumption, CapacityAssumption, AckBitsAssumption, ExchangeAssumption

LEMMA Division ==
  ASSUME NEW a \in Int, NEW m \in Nat \ {0}
  PROVE  /\ a % m \in 0 .. m - 1
         /\ a \div m \in Int
         /\ a = m * (a \div m) + (a % m)
OBVIOUS

(* Numbers of one residue less than the modulus apart are the same.        *)
LEMMA NearIsSame ==
  ASSUME NEW a \in Int, NEW b \in Int, NEW m \in Nat \ {0},
         a % m = b % m, a < b + m, b < a + m
  PROVE  a = b
<1> DEFINE p == a \div m
           q == b \div m
<1>1. /\ p \in Int /\ q \in Int
      /\ a = m * p + (a % m) /\ b = m * q + (b % m)
  BY Division
<1>2. a - b = m * p - m * q /\ m * p \in Int /\ m * q \in Int
  BY <1>1
<1>3. m * p - m * q = m * (p - q)
  BY <1>1
<1> HIDE DEF p, q
<1>4. p - q \in Int /\ m * (p - q) < m /\ -m < m * (p - q)
  BY <1>1, <1>2, <1>3
<1>5. p - q = 0
  <2> DEFINE d == p - q
  <2>1. CASE d >= 1
    <3>1. m * d >= m BY <1>4, <2>1
    <3> QED BY <3>1, <1>4
  <2>2. CASE d <= -1
    <3>1. m * d <= -m BY <1>4, <2>2
    <3> QED BY <3>1, <1>4
  <2> QED BY <2>1, <2>2, <1>4
<1> QED BY <1>1, <1>2, <1>3, <1>5

(* A multiple of the modulus does not change the residue.                  *)
LEMMA AddMultiple ==
  ASSUME NEW a \in Int, NEW k \in Int, NEW m \in Nat \ {0}
  PROVE  (a + k * m) % m = a % m
<1> DEFINE b == a + k * m
           r == a % m
           s == b % m
<1>1. /\ r \in 0 .. m - 1 /\ s \in 0 .. m - 1
      /\ a \div m \in Int /\ b \div m \in Int
      /\ a = m * (a \div m) + r /\ b = m * (b \div m) + s
  <2>1. b \in Int BY Z3
  <2> HIDE DEF b
  <2> QED BY <2>1, Division
<1> DEFINE d == (b \div m) - k - (a \div m)
<1>2. r - s = m * d /\ d \in Int
  <2>1. m * d = m * (b \div m) - m * k - m * (a \div m) BY <1>1
  <2> QED BY <1>1, <2>1
<1> HIDE DEF d, r, s
<1>3. d = 0
  <2>1. CASE d >= 1
    <3>1. m * d >= m BY <1>2, <2>1
    <3> QED BY <3>1, <1>1, <1>2
  <2>2. CASE d <= -1
    <3>1. m * d <= -m BY <1>2, <2>2
    <3> QED BY <3>1, <1>1, <1>2
  <2> QED BY <2>1, <2>2, <1>2
<1>4. r = s BY <1>1, <1>2, <1>3
<1> QED BY <1>4 DEF r, s

(* Sequences are residues, and so are the slots of the rings.              *)
LEMMA SeqOfIsSeq == ASSUME NEW n \in Int PROVE SeqOf(n) \in Seqs
BY ConstantsAreNumbers, Division DEF SeqOf, Seqs

LEMMA SeqOfIsFar ==
  ASSUME NEW n \in Int
  PROVE  \E q \in Int : /\ q * SeqCount \in Int
                        /\ SeqOf(n) = n + q * SeqCount
<1> DEFINE q == -(n \div SeqCount)
<1>1. n % SeqCount = n - SeqCount * (n \div SeqCount) /\ n \div SeqCount \in Int
  BY ConstantsAreNumbers, Division
<1>2. q \in Int /\ q * SeqCount \in Int /\ SeqOf(n) = n + q * SeqCount
  BY <1>1, ConstantsAreNumbers DEF SeqOf
<1> QED BY <1>2

LEMMA SeqOfLess ==
  ASSUME NEW n \in Int, NEW k \in Int
  PROVE  WrapSub(SeqOf(n), k) = SeqOf(n - k)
<1>1. PICK q \in Int : q * SeqCount \in Int /\ SeqOf(n) = n + q * SeqCount
  BY SeqOfIsFar
<1>2. (n - k) + q * SeqCount = SeqOf(n) - k BY <1>1
<1> DEFINE b == n - k
<1>3. b \in Int OBVIOUS
<1> HIDE DEF b
<1>4. (b + q * SeqCount) % SeqCount = b % SeqCount
  BY <1>3, AddMultiple, ConstantsAreNumbers
<1> QED BY <1>2, <1>4 DEF b, WrapSub, SeqOf

LEMMA SlotOfSeq ==
  ASSUME Unambiguous, NEW n \in Int PROVE SlotOf(SeqOf(n)) = n % Capacity
<1>1. PICK q \in Int : q * SeqCount \in Int /\ SeqOf(n) = n + q * SeqCount
  BY SeqOfIsFar
<1>2. PICK laps \in Int : SeqCount = laps * Capacity
  <2>1. SeqCount = Capacity * (SeqCount \div Capacity) + 0 /\ SeqCount \div Capacity \in Int
    <3>1. SeqCount % Capacity = 0 /\ SeqCount \in Int /\ Capacity \in Nat \ {0}
      BY ConstantsAreNumbers DEF Unambiguous
    <3> QED BY <3>1, Division
  <2>2. SeqCount = (SeqCount \div Capacity) * Capacity
    BY <2>1, ConstantsAreNumbers
  <2> QED BY <2>1, <2>2
<1> DEFINE k == q * laps
<1>3. SeqOf(n) = n + k * Capacity /\ k \in Int
  <2>1. q * (laps * Capacity) = (q * laps) * Capacity BY ConstantsAreNumbers
  <2> QED BY <1>1, <1>2, <2>1
<1> HIDE DEF k
<1>4. (n + k * Capacity) % Capacity = n % Capacity
  BY <1>3, AddMultiple, ConstantsAreNumbers
<1> QED BY <1>3, <1>4 DEF SlotOf

(* A later packet of the same slot is a whole ring later.                  *)
LEMMA LaterInSlot ==
  ASSUME NEW a \in Int, NEW b \in Int, a % Capacity = b % Capacity, a < b
  PROVE  a + Capacity <= b
<1>1. Capacity \in Nat \ {0} BY ConstantsAreNumbers
<1>2. a < b + Capacity BY <1>1
<1>3. b < a + Capacity => a = b BY <1>1, <1>2, NearIsSame
<1> QED BY <1>1, <1>3

(* Which of two packets not too far apart is newer, is told by their       *)
(* sequences.                                                              *)
LEMMA NewerIsLater ==
  ASSUME NEW a \in Int, NEW b \in Int, a < b + SeqCount \div 2, b < a + SeqCount \div 2
  PROVE  IsNewer(SeqOf(a), SeqOf(b)) <=> a > b
<1> DEFINE half == SeqCount \div 2
<1>0. half \in Int /\ SeqCount = 2 * half /\ SeqCount \in Nat \ {0, 1}
  BY ConstantsAreNumbers, SeqCountAssumption
<1>1. WrapSub(SeqOf(a), SeqOf(b)) = (a - b) % SeqCount
  <2>1. SeqOf(b) \in Int BY SeqOfIsSeq DEF Seqs
  <2>2. WrapSub(SeqOf(a), SeqOf(b)) = SeqOf(a - SeqOf(b)) BY <2>1, SeqOfLess
  <2>3. PICK q \in Int : q * SeqCount \in Int /\ SeqOf(b) = b + q * SeqCount
    BY SeqOfIsFar
  <2> DEFINE d == a - b
             k == -q
  <2>4. a - SeqOf(b) = d + k * SeqCount /\ d \in Int /\ k \in Int
    BY <2>1, <2>3, <1>0
  <2> HIDE DEF d, k
  <2>5. (d + k * SeqCount) % SeqCount = d % SeqCount
    BY <2>4, AddMultiple, <1>0
  <2> QED BY <2>2, <2>4, <2>5 DEF SeqOf, d
<1>2. CASE a >= b
  <2>1. (a - b) % SeqCount = a - b
    <3>1. a - b \in 0 .. SeqCount - 1 BY <1>0, <1>2
    <3> DEFINE d == a - b
    <3>2. d \in Int /\ d % SeqCount \in 0 .. SeqCount - 1
      BY <3>1, <1>0, Division
    <3>3. (d % SeqCount) % SeqCount = d % SeqCount
      BY <3>2, <1>0
    <3> QED BY <3>1, <1>0
  <2> QED BY <2>1, <1>0, <1>1, <1>2 DEF IsNewer
<1>3. CASE a < b
  <2>1. (a - b) % SeqCount = a - b + SeqCount
    <3> DEFINE d == a - b + SeqCount
               e == a - b
               k == 1
    <3>1. /\ d \in 0 .. SeqCount - 1 /\ e + k * SeqCount = d
          /\ e \in Int /\ k \in Int
      BY <1>0, <1>3
    <3> HIDE DEF e, k
    <3>2. (e + k * SeqCount) % SeqCount = e % SeqCount
      BY <3>1, AddMultiple, <1>0
    <3> HIDE DEF d
    <3>3. d % SeqCount = d BY <3>1, <1>0
    <3> QED BY <3>1, <3>2, <3>3 DEF d, e
  <2> QED BY <2>1, <1>0, <1>1, <1>3 DEF IsNewer
<1> QED BY <1>2, <1>3

-----------------------------------------------------------------------------
(* The inductive invariant.                                                *)
InFlightIsYoung == \A p \in packets : begun - p <= Lifetime

Latest(n) == \A m \in arrived : m <= n

HighestIsLatest ==
  \/ remote_highest = None /\ arrived = {}
  \/ remote_highest # None /\ \E n \in arrived : remote_highest = SeqOf(n) /\ Latest(n)

LatestOfSlot(n, came) == \A m \in came : m % Capacity = n % Capacity => m <= n

RingHoldsLatest ==
  /\ \A s \in received : \E n \in arrived : s = SeqOf(n) /\ LatestOfSlot(n, arrived)
  /\ \A n \in arrived : LatestOfSlot(n, arrived) => SeqOf(n) \in received

RememberedIsRecent ==
  \A s \in sent : \E n \in 0 .. begun - 1 : s = SeqOf(n) /\ begun - n <= Capacity

AckedIsTrue ==
  \A s \in acked : \E n \in arrived : s = SeqOf(n) /\ begun - n <= Capacity

HeaderIsTrue(h) ==
  /\ h.born <= begun /\ begun - h.born <= Lifetime
  /\ \A s \in Acknowledges(h) :
       \E n \in arrived : s = SeqOf(n) /\ h.born - n <= Gap + AckBits

AcksAreTrue ==
  /\ TypeOK
  /\ next_sequence = SeqOf(begun)
  /\ InFlightIsYoung
  /\ Tolerable(Lost)
  /\ HighestIsLatest
  /\ RingHoldsLatest
  /\ RememberedIsRecent
  /\ AckedIsTrue
  /\ \A h \in headers : HeaderIsTrue(h)

LEMMA Numbers ==
  ASSUME AcksAreTrue
  PROVE  /\ begun \in Nat /\ packets \subseteq Int /\ arrived \subseteq Int
         /\ \A n \in arrived \cup packets : 0 <= n /\ n < begun
BY ConstantsAreNumbers DEF AcksAreTrue, TypeOK

(* Since the latest arrival not more was sent than can be lost in a row or *)
(* be on the way.                                                          *)
LEMMA GapIsShort ==
  ASSUME AcksAreTrue, NEW n \in arrived, Latest(n) PROVE begun - n <= Gap
<1> USE ConstantsAreNumbers
<1>0. begun \in Nat /\ n \in Nat /\ n < begun
  BY Numbers
<1>1. ASSUME NEW m \in Nat, n < m, m \notin Lost PROVE begun - m <= Lifetime
  <2>1. m \notin arrived BY <1>0, <1>1 DEF Latest
  <2>2. m \in packets \/ m \notin 0 .. begun - 1 BY <1>1, <2>1 DEF Lost
  <2>3. CASE m \in packets BY <2>3 DEF AcksAreTrue, InFlightIsYoung
  <2>4. CASE m \notin 0 .. begun - 1 BY <1>0, <1>1, <2>4
  <2> QED BY <2>2, <2>3, <2>4
<1>2. CASE n + 1 \notin Lost
  <2>1. begun - (n + 1) <= Lifetime BY <1>0, <1>1, <1>2
  <2> QED BY <1>0, <2>1 DEF Gap
<1>3. CASE n + 1 \in Lost
  <2>1. PICK k \in 1 .. MaxLost : (n + 1) + k \notin Lost
    BY <1>3 DEF AcksAreTrue, Tolerable
  <2> DEFINE m == (n + 1) + k
  <2>2. m \in Nat /\ n < m /\ m <= n + 1 + MaxLost BY <1>0
  <2>3. begun - m <= Lifetime BY <1>1, <2>1, <2>2
  <2> HIDE DEF m
  <2> QED BY <1>0, <2>2, <2>3 DEF Gap
<1> QED BY <1>2, <1>3

(* What the header names next to the latest arrival is what the receiver   *)
(* holds of the last packets, never of a lap before.                       *)
LEMMA NoEarlierLap ==
  ASSUME Unambiguous, AcksAreTrue, NEW top \in arrived, Latest(top),
         NEW i \in 0 .. AckBits - 1, NEW n \in arrived, LatestOfSlot(n, arrived),
         SeqOf(n) = SeqOf((top - 1) - i)
  PROVE  n = (top - 1) - i
<1> USE ConstantsAreNumbers
<1> DEFINE m == (top - 1) - i
<1>0. /\ begun \in Nat /\ n \in Nat /\ top \in Nat /\ n <= top /\ top < begun
      /\ i \in Nat /\ i < AckBits /\ m \in Int /\ m = top - 1 - i
  BY Numbers DEF Latest
<1>1. n < m + SeqCount
  BY <1>0 DEF Unambiguous, Lag, Gap
<1>2. CASE m < n + SeqCount
  <2>1. n % SeqCount = m % SeqCount BY DEF SeqOf
  <2>2. SeqCount \in Nat \ {0} /\ n \in Int /\ m \in Int BY <1>0
  <2> HIDE DEF m
  <2>3. n = m BY ONLY <1>1, <1>2, <2>1, <2>2, NearIsSame
  <2> QED BY <2>3 DEF m
<1>3. CASE n + SeqCount <= m
  <2> DEFINE At(k) == n + k * Capacity
  <2>1. ASSUME NEW k \in 1 .. MaxSlotLost + 1
        PROVE  At(k) \in Lost
    <3> DEFINE e == k * Capacity
    <3>1. e \in Nat /\ Capacity <= e /\ e + Capacity <= SeqCount
      <4>1. k * Capacity >= 1 * Capacity BY <2>1
      <4>2. k * Capacity + Capacity = (k + 1) * Capacity BY <2>1
      <4>3. (k + 1) * Capacity <= (MaxSlotLost + 2) * Capacity BY <2>1
      <4>4. (MaxSlotLost + 2) * Capacity <= SeqCount BY DEF Unambiguous
      <4> QED BY <2>1, <4>1, <4>2, <4>3, <4>4
    <3>2. At(k) = n + e /\ (n + e) % Capacity = n % Capacity
      <4>1. k \in Int /\ n \in Int BY <1>0
      <4>2. (n + k * Capacity) % Capacity = n % Capacity
        BY <4>1, AddMultiple
      <4> QED BY <4>2
    <3> HIDE DEF e
    <3>3. n + e \in 0 .. begun - 1 /\ n + e > n /\ begun - (n + e) > Capacity
      BY <1>0, <1>3, <3>1
    <3>4. n + e \notin arrived
      BY <3>2, <3>3, <1>0, <3>1 DEF LatestOfSlot
    <3>5. n + e \notin packets
      BY <3>1, <3>3, <1>0 DEF AcksAreTrue, InFlightIsYoung, Unambiguous
    <3> QED BY <3>2, <3>3, <3>4, <3>5 DEF Lost
  <2>2. At(1) \in Lost BY <2>1
  <2>3. PICK k \in 1 .. MaxSlotLost : At(1) + k * Capacity \notin Lost
    BY <2>2 DEF AcksAreTrue, Tolerable
  <2>4. At(1) + k * Capacity = At(k + 1) BY <1>0
  <2>5. k + 1 \in 1 .. MaxSlotLost + 1 OBVIOUS
  <2> HIDE DEF At
  <2> QED BY <2>1, <2>3, <2>4, <2>5
<1> QED BY <1>0, <1>2, <1>3

LEMMA HeaderNames ==
  ASSUME Unambiguous, AcksAreTrue, remote_highest # None,
         NEW s \in Acknowledges(AckHeader)
  PROVE  \E n \in arrived : s = SeqOf(n) /\ begun - n <= Gap + AckBits
<1> USE ConstantsAreNumbers
<1>1. PICK top \in arrived : remote_highest = SeqOf(top) /\ Latest(top)
  BY DEF AcksAreTrue, HighestIsLatest
<1>2. top \in Nat /\ begun \in Nat /\ begun - top <= Gap /\ Gap \in Nat
  BY <1>1, GapIsShort, Numbers DEF Gap
<1>3. CASE s = remote_highest
  BY <1>1, <1>2, <1>3
<1>4. ASSUME NEW i \in 0 .. AckBits - 1,
             s = WrapSub(WrapSub(remote_highest, 1), i), s \in received
      PROVE  \E n \in arrived : s = SeqOf(n) /\ begun - n <= Gap + AckBits
  <2>1. s = SeqOf((top - 1) - i)
    <3>1. WrapSub(remote_highest, 1) = SeqOf(top - 1) BY <1>1, <1>2, SeqOfLess
    <3> QED BY <1>2, <1>4, <3>1, SeqOfLess
  <2>2. PICK n \in arrived : s = SeqOf(n) /\ LatestOfSlot(n, arrived)
    BY <1>4 DEF AcksAreTrue, RingHoldsLatest
  <2>3. n = (top - 1) - i
    BY <1>1, <2>1, <2>2, NoEarlierLap
  <2>4. begun - n <= Gap + AckBits BY <1>2, <2>3
  <2> QED BY <2>2, <2>4
<1>5. s = remote_highest \/ \E i \in 0 .. AckBits - 1 :
        s = WrapSub(WrapSub(remote_highest, 1), i) /\ s \in received
  BY DEF Acknowledges, AckHeader
<1> QED BY <1>3, <1>4, <1>5

LEMMA HeaderIsTyped ==
  ASSUME AcksAreTrue
  PROVE  AckHeader.ack \in Seqs /\ AckHeader.bits \in SUBSET (0 .. AckBits - 1)
BY ConstantsAreNumbers DEF AckHeader, AcksAreTrue, TypeOK, AckTypeOK, Seqs, None

-----------------------------------------------------------------------------
(* Every step keeps it.                                                    *)
LEMMA InitTrue == Init => AcksAreTrue
<1> SUFFICES ASSUME Init PROVE AcksAreTrue
  OBVIOUS
<1>1. SeqOf(0) = 0 /\ 0 .. begun - 1 = {}
  BY ConstantsAreNumbers DEF Init, SeqOf
<1> QED
  BY <1>1, ConstantsAreNumbers
     DEF Init, AckInit, AcksAreTrue, TypeOK, AckTypeOK, Seqs, None, InFlightIsYoung, Tolerable,
         Lost, HighestIsLatest, RingHoldsLatest, RememberedIsRecent, AckedIsTrue

LEMMA SendPacketTrue ==
  ASSUME Unambiguous, AcksAreTrue, SendPacket PROVE AcksAreTrue'
<1> USE ConstantsAreNumbers
<1>0. /\ begun \in Nat /\ begun < MaxPackets /\ begun' = begun + 1
      /\ packets' = packets \cup {begun} /\ begun \notin packets
      /\ packets \subseteq Int /\ arrived \subseteq Int
      /\ \A n \in arrived \cup packets : 0 <= n /\ n < begun
      /\ UNCHANGED <<newly_acked, remote_highest, received, headers, arrived>>
  BY Numbers DEF SendPacket, BeginSend
<1>1. next_sequence = SeqOf(begun) /\ next_sequence' = SeqOf(begun')
  <2>1. next_sequence = SeqOf(begun) BY DEF AcksAreTrue
  <2>2. WrapSub(SeqOf(begun), -1) = SeqOf(begun - (-1)) BY <1>0, SeqOfLess
  <2>3. SeqOf(begun) \in Int BY <1>0, SeqOfIsSeq DEF Seqs
  <2>4. SeqOf(begun) - (-1) = SeqOf(begun) + 1 /\ begun - (-1) = begun' BY <1>0, <2>3
  <2> QED BY <2>1, <2>2, <2>4 DEF SendPacket, BeginSend, WrapNext, WrapSub
<1>2. TypeOK'
  <2>1. SeqOf(begun) \in Seqs /\ SeqOf(begun') \in Seqs BY <1>0, SeqOfIsSeq
  <2>2. sent' \subseteq Seqs /\ acked' \subseteq sent'
    BY <1>1, <2>1 DEF AcksAreTrue, TypeOK, AckTypeOK, SendPacket, BeginSend, RingPut
  <2> QED BY <1>0, <1>1, <2>1, <2>2 DEF AcksAreTrue, TypeOK, AckTypeOK, Header
<1>3. InFlightIsYoung'
  BY <1>0 DEF AcksAreTrue, InFlightIsYoung, SendPacket, Fresh
<1>4. Tolerable(Lost)'
  <2>1. Lost' = Lost BY <1>0 DEF Lost
  <2> QED BY <2>1 DEF AcksAreTrue, Tolerable
<1>5. HighestIsLatest' /\ RingHoldsLatest'
  BY <1>0 DEF AcksAreTrue, HighestIsLatest, Latest, RingHoldsLatest, LatestOfSlot
<1>6. ASSUME NEW n \in 0 .. begun - 1, begun - n <= Capacity,
             SlotOf(SeqOf(n)) # SlotOf(next_sequence)
      PROVE  n \in 0 .. begun' - 1 /\ begun' - n <= Capacity
  <2>1. n % Capacity # begun % Capacity BY <1>0, <1>1, <1>6, SlotOfSeq
  <2>2. n + Capacity # begun
    <3> DEFINE k == 1
    <3>1. n \in Int /\ k \in Int /\ n + k * Capacity = n + Capacity OBVIOUS
    <3> HIDE DEF k
    <3>2. (n + k * Capacity) % Capacity = n % Capacity BY <3>1, AddMultiple
    <3> QED BY <2>1, <3>1, <3>2
  <2> QED BY <1>0, <1>6, <2>2
<1>7. RememberedIsRecent'
  <2>1. ASSUME NEW s \in sent' PROVE \E n \in 0 .. begun' - 1 : s = SeqOf(n) /\ begun' - n <= Capacity
    <3>1. CASE s = next_sequence
      <4>1. begun \in 0 .. begun' - 1 /\ begun' - begun <= Capacity BY <1>0
      <4> QED BY <1>1, <3>1, <4>1
    <3>2. CASE s \in sent /\ SlotOf(s) # SlotOf(next_sequence)
      <4>1. PICK n \in 0 .. begun - 1 : s = SeqOf(n) /\ begun - n <= Capacity
        BY <3>2 DEF AcksAreTrue, RememberedIsRecent
      <4> QED BY <1>6, <3>2, <4>1
    <3> QED BY <2>1, <3>1, <3>2 DEF SendPacket, BeginSend, RingPut
  <2> QED BY <2>1 DEF RememberedIsRecent
<1>8. AckedIsTrue'
  <2>1. ASSUME NEW s \in acked' PROVE \E n \in arrived : s = SeqOf(n) /\ begun' - n <= Capacity
    <3>1. s \in acked /\ SlotOf(s) # SlotOf(next_sequence)
      BY <2>1 DEF SendPacket, BeginSend
    <3>2. PICK n \in arrived : s = SeqOf(n) /\ begun - n <= Capacity
      BY <3>1 DEF AcksAreTrue, AckedIsTrue
    <3>3. n \in 0 .. begun - 1 BY <1>0
    <3> QED BY <1>6, <3>1, <3>2, <3>3
  <2> QED BY <1>0, <2>1 DEF AckedIsTrue
<1>9. ASSUME NEW h \in headers' PROVE HeaderIsTrue(h)'
  <2>1. h \in headers /\ HeaderIsTrue(h) /\ begun - h.born < Lifetime /\ h.born \in Nat
    BY <1>0, <1>9 DEF AcksAreTrue, SendPacket, Fresh, TypeOK, Header
  <2>2. h.born <= begun' /\ begun' - h.born <= Lifetime
    BY <1>0, <2>1 DEF HeaderIsTrue
  <2> QED BY <1>0, <2>1, <2>2 DEF HeaderIsTrue
<1> QED BY <1>1, <1>2, <1>3, <1>4, <1>5, <1>7, <1>8, <1>9 DEF AcksAreTrue

(* A packet that arrives displaces nothing newer, and moves the highest    *)
(* forward only.                                                           *)
LEMMA ReceivePacketTrue ==
  ASSUME Unambiguous, AcksAreTrue, NEW n \in packets, ReceivePacket(n)
  PROVE  AcksAreTrue'
<1> USE ConstantsAreNumbers
<1>0. /\ begun \in Nat /\ packets \subseteq Int /\ arrived \subseteq Int
      /\ \A m \in arrived \cup packets : 0 <= m /\ m < begun
      /\ begun - n <= Lifetime /\ n \in Nat /\ n < begun
  BY Numbers DEF AcksAreTrue, InFlightIsYoung
<1>1. /\ arrived' = arrived \cup {n} /\ packets' \in {packets, packets \ {n}}
      /\ UNCHANGED <<next_sequence, sent, acked, newly_acked, headers, begun>>
      /\ received' = RingPut(received, SeqOf(n))
      /\ remote_highest' = IF remote_highest # None /\ ~IsNewer(SeqOf(n), remote_highest)
                           THEN remote_highest ELSE SeqOf(n)
  BY DEF ReceivePacket, OnReceive, sending
<1>2. TypeOK'
  <2>1. SeqOf(n) \in Seqs BY <1>0, SeqOfIsSeq
  <2>2. received' \subseteq Seqs /\ remote_highest' \in Seqs \cup {None}
    BY <1>1, <2>1 DEF AcksAreTrue, TypeOK, AckTypeOK, RingPut
  <2> QED BY <1>0, <1>1, <2>2 DEF AcksAreTrue, TypeOK, AckTypeOK
<1>3. InFlightIsYoung'
  BY <1>1 DEF AcksAreTrue, InFlightIsYoung
<1>4. Tolerable(Lost)'
  <2>1. Lost' = Lost BY <1>1 DEF Lost
  <2> QED BY <2>1 DEF AcksAreTrue, Tolerable
<1>5. HighestIsLatest'
  <2>1. CASE remote_highest = None
    <3>1. arrived = {} BY <2>1 DEF AcksAreTrue, HighestIsLatest
    <3>2. remote_highest' = SeqOf(n) /\ SeqOf(n) # None
      BY <1>0, <1>1, <2>1, SeqOfIsSeq DEF Seqs, None
    <3> QED BY <1>0, <1>1, <3>1, <3>2 DEF HighestIsLatest, Latest
  <2>2. CASE remote_highest # None
    <3>1. PICK top \in arrived : remote_highest = SeqOf(top) /\ Latest(top)
      BY <2>2 DEF AcksAreTrue, HighestIsLatest
    <3>2. begun - top <= Gap /\ top \in Nat /\ top < begun
      BY <1>0, <3>1, GapIsShort
    <3>3. SeqOf(n) # None BY <1>0, SeqOfIsSeq DEF Seqs, None
    <3>4. IsNewer(SeqOf(n), SeqOf(top)) <=> n > top
      <4>1. n < top + SeqCount \div 2 /\ top < n + SeqCount \div 2
        BY <1>0, <3>2, SeqCountAssumption DEF Unambiguous, Gap
      <4> QED BY <1>0, <3>2, <4>1, NewerIsLater
    <3>5. CASE n > top
      <4>1. remote_highest' = SeqOf(n) BY <1>1, <2>2, <3>1, <3>4, <3>5
      <4>2. \A m \in arrived' : m <= n BY <1>0, <1>1, <3>1, <3>2, <3>5 DEF Latest
      <4> QED BY <1>1, <3>3, <4>1, <4>2 DEF HighestIsLatest, Latest
    <3>6. CASE ~(n > top)
      <4>1. remote_highest' = SeqOf(top) /\ remote_highest' # None
        BY <1>1, <2>2, <3>1, <3>4, <3>6
      <4>2. \A m \in arrived' : m <= top BY <1>0, <1>1, <3>1, <3>2, <3>6 DEF Latest
      <4> QED BY <1>1, <4>1, <4>2 DEF HighestIsLatest, Latest
    <3> QED BY <3>5, <3>6
  <2> QED BY <2>1, <2>2
<1>6. \A m \in arrived' : m % Capacity = n % Capacity => m <= n
  <2>1. ASSUME NEW m \in arrived', m % Capacity = n % Capacity, m > n PROVE FALSE
    <3>1. m \in Int /\ m < begun BY <1>0, <1>1
    <3>2. n + Capacity <= m BY <1>0, <2>1, <3>1, LaterInSlot
    <3> QED BY <1>0, <3>1, <3>2 DEF Unambiguous
  <2>2. \A m \in arrived' : m \in Int BY <1>0, <1>1
  <2> QED BY <1>0, <2>1, <2>2
<1>7. \A m \in arrived' : SlotOf(SeqOf(m)) = m % Capacity
  BY <1>0, <1>1, SlotOfSeq
<1>8. ASSUME NEW m \in arrived, m % Capacity # n % Capacity
      PROVE  LatestOfSlot(m, arrived') <=> LatestOfSlot(m, arrived)
  BY <1>1, <1>8 DEF LatestOfSlot
<1>9. RingHoldsLatest'
  <2>1. ASSUME NEW s \in received'
        PROVE  \E m \in arrived' : s = SeqOf(m) /\ LatestOfSlot(m, arrived')
    <3>1. CASE s = SeqOf(n)
      BY <1>1, <1>6, <3>1 DEF LatestOfSlot
    <3>2. CASE s \in received /\ SlotOf(s) # SlotOf(SeqOf(n))
      <4>1. PICK m \in arrived : s = SeqOf(m) /\ LatestOfSlot(m, arrived)
        BY <3>2 DEF AcksAreTrue, RingHoldsLatest
      <4>2. m % Capacity # n % Capacity BY <1>1, <1>7, <3>2, <4>1
      <4> QED BY <1>1, <1>8, <4>1, <4>2
    <3> QED BY <1>1, <2>1, <3>1, <3>2 DEF RingPut
  <2>2. ASSUME NEW m \in arrived', LatestOfSlot(m, arrived')
        PROVE  SeqOf(m) \in received'
    <3>1. CASE m % Capacity = n % Capacity
      <4>1. n <= m /\ m <= n /\ m \in Int
        BY <1>0, <1>1, <1>6, <2>2, <3>1 DEF LatestOfSlot
      <4>2. m = n BY <1>0, <4>1
      <4> QED BY <1>1, <4>2 DEF RingPut
    <3>2. CASE m % Capacity # n % Capacity
      <4>1. m \in arrived BY <1>1, <3>2
      <4>2. SeqOf(m) \in received
        BY <1>8, <2>2, <3>2, <4>1 DEF AcksAreTrue, RingHoldsLatest
      <4>3. SlotOf(SeqOf(m)) # SlotOf(SeqOf(n)) BY <1>1, <1>7, <3>2, <4>1
      <4> QED BY <1>1, <4>2, <4>3 DEF RingPut
    <3> QED BY <3>1, <3>2
  <2> QED BY <2>1, <2>2 DEF RingHoldsLatest
<1>10. RememberedIsRecent' /\ AckedIsTrue'
  BY <1>1 DEF AcksAreTrue, RememberedIsRecent, AckedIsTrue
<1>11. ASSUME NEW h \in headers' PROVE HeaderIsTrue(h)'
  BY <1>1, <1>11 DEF AcksAreTrue, HeaderIsTrue
<1>12. next_sequence' = SeqOf(begun')
  BY <1>1 DEF AcksAreTrue
<1> QED BY <1>2, <1>3, <1>4, <1>5, <1>9, <1>10, <1>11, <1>12 DEF AcksAreTrue

(* The network loses no more in a row than it may.                         *)
LEMMA DropPacketTrue ==
  ASSUME AcksAreTrue, NEW n \in packets, DropPacket(n) PROVE AcksAreTrue'
<1>1. /\ packets' = packets \ {n}
      /\ UNCHANGED <<ackVars, headers, begun, arrived>>
      /\ n \in arrived \/ Tolerable(Lost \cup {n})
  BY DEF DropPacket
<1>2. Tolerable(Lost')
  <2>1. CASE n \in arrived
    <3>1. Lost' = Lost BY <1>1, <2>1 DEF Lost
    <3> QED BY <3>1 DEF AcksAreTrue
  <2>2. CASE n \notin arrived
    <3>1. n \in 0 .. begun - 1 BY DEF AcksAreTrue, TypeOK
    <3>2. Lost' = Lost \cup {n} BY <1>1, <2>2, <3>1 DEF Lost
    <3> QED BY <1>1, <2>2, <3>2
  <2> QED BY <2>1, <2>2
<1>3. Tolerable(Lost)' BY <1>2 DEF Tolerable
<1>4. TypeOK' /\ InFlightIsYoung'
  BY <1>1 DEF ackVars, AcksAreTrue, TypeOK, AckTypeOK, InFlightIsYoung
<1>5. HighestIsLatest' /\ RingHoldsLatest' /\ RememberedIsRecent' /\ AckedIsTrue'
  BY <1>1 DEF ackVars, AcksAreTrue, HighestIsLatest, Latest, RingHoldsLatest, LatestOfSlot,
              RememberedIsRecent, AckedIsTrue
<1>6. ASSUME NEW h \in headers' PROVE HeaderIsTrue(h)'
  BY <1>1, <1>6 DEF AcksAreTrue, HeaderIsTrue
<1>7. next_sequence' = SeqOf(begun')
  BY <1>1 DEF AcksAreTrue, ackVars
<1> QED BY <1>3, <1>4, <1>5, <1>6, <1>7 DEF AcksAreTrue

(* What leaves only, or comes to, the headers in flight.                   *)
LEMMA HeadersTrue ==
  ASSUME AcksAreTrue, UNCHANGED <<ackVars, packets, begun, arrived>>,
         \A h \in headers' : h \in Header /\ HeaderIsTrue(h)
  PROVE  AcksAreTrue'
<1>1. Tolerable(Lost)'
  <2>1. Lost' = Lost BY DEF Lost
  <2> QED BY <2>1 DEF AcksAreTrue, Tolerable
<1>2. TypeOK' /\ InFlightIsYoung'
  BY DEF ackVars, AcksAreTrue, TypeOK, AckTypeOK, InFlightIsYoung, Header
<1>3. HighestIsLatest' /\ RingHoldsLatest' /\ RememberedIsRecent' /\ AckedIsTrue'
  BY DEF ackVars, AcksAreTrue, HighestIsLatest, Latest, RingHoldsLatest, LatestOfSlot,
         RememberedIsRecent, AckedIsTrue
<1>4. ASSUME NEW h \in headers' PROVE HeaderIsTrue(h)'
  <2>1. HeaderIsTrue(h) BY <1>4
  <2> QED BY <2>1 DEF HeaderIsTrue
<1>5. next_sequence' = SeqOf(begun')
  BY DEF AcksAreTrue, ackVars
<1> QED BY <1>1, <1>2, <1>3, <1>4, <1>5 DEF AcksAreTrue

LEMMA SendHeaderTrue ==
  ASSUME Unambiguous, AcksAreTrue, SendHeader PROVE AcksAreTrue'
<1> DEFINE new == [ack |-> AckHeader.ack, bits |-> AckHeader.bits, born |-> begun]
<1>1. /\ remote_highest # None /\ headers' = headers \cup {new}
      /\ UNCHANGED <<ackVars, packets, begun, arrived>>
  BY DEF SendHeader, Unambiguous
<1>2. begun \in 0 .. MaxPackets /\ begun \in Nat
  BY ConstantsAreNumbers DEF AcksAreTrue, TypeOK
<1>3. new \in Header
  BY <1>2, HeaderIsTyped DEF Header
<1>4. HeaderIsTrue(new)
  <2>1. Acknowledges(new) = Acknowledges(AckHeader)
    BY DEF Acknowledges
  <2>2. new.born = begun OBVIOUS
  <2> HIDE DEF new
  <2>3. ASSUME NEW s \in Acknowledges(new)
        PROVE  \E n \in arrived : s = SeqOf(n) /\ new.born - n <= Gap + AckBits
    BY <1>1, <2>1, <2>2, <2>3, HeaderNames
  <2>4. new.born <= begun /\ begun - new.born <= Lifetime
    BY <1>2, <2>2, ConstantsAreNumbers
  <2> QED BY <2>3, <2>4 DEF HeaderIsTrue
<1> HIDE DEF new
<1> QED BY <1>1, <1>3, <1>4, HeadersTrue DEF AcksAreTrue, TypeOK

LEMMA DropHeaderTrue ==
  ASSUME AcksAreTrue, NEW h \in headers, DropHeader(h) PROVE AcksAreTrue'
BY HeadersTrue DEF DropHeader, AcksAreTrue, TypeOK

(* A sequence the sender still remembers and a header names is one packet. *)
LEMMA ReceiveHeaderTrue ==
  ASSUME Unambiguous, AcksAreTrue, NEW h \in headers, ReceiveHeader(h) PROVE AcksAreTrue'
<1> USE ConstantsAreNumbers
<1> DEFINE fresh == (Acknowledges(h) \cap sent) \ acked
<1>1. /\ acked' = acked \cup fresh /\ newly_acked' = newly_acked \cup fresh
      /\ headers' \subseteq headers
      /\ UNCHANGED <<next_sequence, sent, receiving, packets, begun, arrived>>
  BY DEF ReceiveHeader, OnAckHeader
<1>2. /\ begun \in Nat /\ arrived \subseteq Int /\ \A n \in arrived : 0 <= n /\ n < begun
      /\ h.born \in Nat /\ HeaderIsTrue(h)
  BY Numbers DEF AcksAreTrue, TypeOK, Header
<1>3. ASSUME NEW s \in fresh PROVE \E n \in arrived : s = SeqOf(n) /\ begun - n <= Capacity
  <2>1. PICK n \in arrived : s = SeqOf(n) /\ h.born - n <= Gap + AckBits
    BY <1>2 DEF HeaderIsTrue
  <2>2. PICK m \in 0 .. begun - 1 : s = SeqOf(m) /\ begun - m <= Capacity
    BY DEF AcksAreTrue, RememberedIsRecent
  <2>3. begun - n <= SeqCount
    BY <1>2, <2>1 DEF HeaderIsTrue, Unambiguous, Lag, Gap
  <2>4. Capacity <= SeqCount
    <3>1. 2 * Capacity <= (MaxSlotLost + 2) * Capacity OBVIOUS
    <3> QED BY <3>1 DEF Unambiguous
  <2>5. /\ n % SeqCount = m % SeqCount /\ n \in Int /\ m \in Int /\ SeqCount \in Nat \ {0}
        /\ n < m + SeqCount /\ m < n + SeqCount
    BY <1>2, <2>1, <2>2, <2>3, <2>4 DEF SeqOf
  <2>6. n = m BY ONLY <2>5, NearIsSame
  <2> QED BY <2>1, <2>2, <2>6
<1> HIDE DEF fresh
<1>4. TypeOK'
  <2>1. fresh \subseteq sent BY DEF fresh
  <2> QED BY <1>1, <2>1 DEF receiving, AcksAreTrue, TypeOK, AckTypeOK
<1>5. AckedIsTrue'
  BY <1>1, <1>3 DEF AcksAreTrue, AckedIsTrue
<1>6. Tolerable(Lost)'
  <2>1. Lost' = Lost BY <1>1 DEF Lost
  <2> QED BY <2>1 DEF AcksAreTrue, Tolerable
<1>7. InFlightIsYoung' /\ HighestIsLatest' /\ RingHoldsLatest' /\ RememberedIsRecent'
  BY <1>1 DEF receiving, AcksAreTrue, InFlightIsYoung, HighestIsLatest, Latest, RingHoldsLatest,
              LatestOfSlot, RememberedIsRecent
<1>8. ASSUME NEW g \in headers' PROVE HeaderIsTrue(g)'
  BY <1>1, <1>8 DEF AcksAreTrue, HeaderIsTrue
<1>9. next_sequence' = SeqOf(begun')
  BY <1>1 DEF AcksAreTrue
<1> QED BY <1>4, <1>5, <1>6, <1>7, <1>8, <1>9 DEF AcksAreTrue

LEMMA DrainTrue ==
  ASSUME AcksAreTrue, Drain \/ UNCHANGED vars PROVE AcksAreTrue'
<1>1. /\ newly_acked' \in {newly_acked, {}}
      /\ UNCHANGED <<next_sequence, sent, acked, remote_highest, received, packets, headers,
                     begun, arrived>>
  BY DEF Drain, DrainNewlyAcked, receiving, netVars, vars, ackVars
<1>2. TypeOK'
  BY <1>1 DEF AcksAreTrue, TypeOK, AckTypeOK
<1>3. Tolerable(Lost)'
  <2>1. Lost' = Lost BY <1>1 DEF Lost
  <2> QED BY <2>1 DEF AcksAreTrue, Tolerable
<1>4. InFlightIsYoung' /\ HighestIsLatest' /\ RingHoldsLatest' /\ RememberedIsRecent'
      /\ AckedIsTrue'
  BY <1>1 DEF AcksAreTrue, InFlightIsYoung, HighestIsLatest, Latest, RingHoldsLatest,
              LatestOfSlot, RememberedIsRecent, AckedIsTrue
<1>5. ASSUME NEW h \in headers' PROVE HeaderIsTrue(h)'
  BY <1>1, <1>5 DEF AcksAreTrue, HeaderIsTrue
<1>6. next_sequence' = SeqOf(begun')
  BY <1>1 DEF AcksAreTrue
<1> QED BY <1>2, <1>3, <1>4, <1>5, <1>6 DEF AcksAreTrue

LEMMA AcksStayTrue == ASSUME Unambiguous PROVE Spec => []AcksAreTrue
<1>1. AcksAreTrue /\ [Next]_vars => AcksAreTrue'
  <2> SUFFICES ASSUME AcksAreTrue, [Next]_vars PROVE AcksAreTrue'
    OBVIOUS
  <2>1. CASE SendPacket BY <2>1, SendPacketTrue
  <2>2. CASE SendHeader BY <2>2, SendHeaderTrue
  <2>3. CASE Drain \/ UNCHANGED vars BY <2>3, DrainTrue
  <2>4. CASE \E n \in packets : ReceivePacket(n) BY <2>4, ReceivePacketTrue
  <2>5. CASE \E n \in packets : DropPacket(n) BY <2>5, DropPacketTrue
  <2>6. CASE \E h \in headers : ReceiveHeader(h) BY <2>6, ReceiveHeaderTrue
  <2>7. CASE \E h \in headers : DropHeader(h) BY <2>7, DropHeaderTrue
  <2> QED BY <2>1, <2>2, <2>3, <2>4, <2>5, <2>6, <2>7 DEF Next
<1> QED BY InitTrue, <1>1, PTL DEF Spec

-----------------------------------------------------------------------------
(* A packet reported to the layers above as acknowledged did reach the     *)
(* peer, however often the sequence numbers have wrapped: the remembered   *)
(* sequence stands for the last packet sent with it (ack.rs:103-131).      *)
THEOREM AcksAreOfArrivals == ASSUME Unambiguous PROVE Spec => []AckedPacketsArrived
<1>1. AcksAreTrue => AckedPacketsArrived
  <2> SUFFICES ASSUME AcksAreTrue, NEW s \in acked PROVE PacketOf(s) \in arrived
    BY DEF AckedPacketsArrived
  <2> USE ConstantsAreNumbers
  <2>1. PICK n \in arrived : s = SeqOf(n) /\ begun - n <= Capacity
    BY DEF AcksAreTrue, AckedIsTrue
  <2> DEFINE alike == {m \in 0 .. begun - 1 : SeqOf(m) = s}
  <2>2. n \in alike /\ begun \in Nat /\ n \in Nat
    BY <2>1, Numbers
  <2>3. ASSUME NEW m \in alike PROVE n >= m
    <3>1. Capacity <= SeqCount
      <4>1. 2 * Capacity <= (MaxSlotLost + 2) * Capacity OBVIOUS
      <4> QED BY <4>1 DEF Unambiguous
    <3>2. /\ n % SeqCount = m % SeqCount /\ n \in Int /\ m \in Int /\ SeqCount \in Nat \ {0}
          /\ m < n + SeqCount
      BY <2>1, <2>2, <3>1 DEF SeqOf
    <3>3. n < m + SeqCount => n = m BY ONLY <3>2, NearIsSame
    <3> QED BY <3>2, <3>3
  <2>4. \A m \in alike : m >= n => m = n BY <2>2, <2>3
  <2> HIDE DEF alike
  <2>5. Max(alike) = n BY <2>2, <2>3, <2>4 DEF Max
  <2> QED BY <2>1, <2>5 DEF PacketOf, alike
<1> QED BY <1>1, AcksStayTrue, PTL

(* The header of the moment acknowledges all that arrived of the newest    *)
(* AckBits + 1 packets: no late packet displaces a newer one from the      *)
(* received ring, and the highest never goes back at the wrap              *)
(* (ack.rs:75-101).                                                        *)
THEOREM HeadersAreComplete == ASSUME Unambiguous PROVE Spec => []HeaderIsComplete
<1>1. AcksAreTrue => HeaderIsComplete
  <2> SUFFICES ASSUME AcksAreTrue, NEW n \in arrived, Max(arrived) - n <= AckBits
               PROVE  SeqOf(n) \in Acknowledges(AckHeader)
    BY DEF HeaderIsComplete
  <2> USE ConstantsAreNumbers
  <2>1. remote_highest # None
    BY DEF AcksAreTrue, HighestIsLatest
  <2>2. PICK top \in arrived : remote_highest = SeqOf(top) /\ Latest(top)
    BY <2>1 DEF AcksAreTrue, HighestIsLatest
  <2>3. n \in Nat /\ top \in Nat /\ n <= top /\ arrived \subseteq Int
    BY <2>2, Numbers DEF Latest
  <2>4. Max(arrived) = top
    <3>1. \A m \in arrived : top >= m /\ (m >= top => m = top)
      BY <2>2, <2>3 DEF Latest
    <3> QED BY <3>1 DEF Max
  <2>5. CASE n = top
    BY <2>1, <2>2, <2>5 DEF Acknowledges, AckHeader
  <2>6. CASE n < top
    <3> DEFINE i == top - 1 - n
    <3>1. i \in 0 .. AckBits - 1 /\ n = (top - 1) - i
      BY <2>3, <2>4, <2>6
    <3>2. LatestOfSlot(n, arrived)
      <4>1. ASSUME NEW m \in arrived, m % Capacity = n % Capacity, m > n PROVE FALSE
        <5>1. n + Capacity <= m BY <2>3, <4>1, LaterInSlot
        <5>2. m <= top BY <2>2 DEF Latest
        <5> QED BY <2>3, <2>4, <5>1, <5>2 DEF Unambiguous
      <4> QED BY <2>3, <4>1 DEF LatestOfSlot
    <3>3. SeqOf(n) \in received
      BY <3>2 DEF AcksAreTrue, RingHoldsLatest
    <3>4. WrapSub(WrapSub(remote_highest, 1), i) = SeqOf(n)
      <4>1. WrapSub(remote_highest, 1) = SeqOf(top - 1) BY <2>2, <2>3, SeqOfLess
      <4>2. top - 1 \in Int /\ i \in Int BY <2>3
      <4> HIDE DEF i
      <4> QED BY <3>1, <4>1, <4>2, SeqOfLess
    <3> HIDE DEF i
    <3>5. AckHeader = [ack  |-> remote_highest,
                       bits |-> {k \in 0 .. AckBits - 1 :
                                   WrapSub(WrapSub(remote_highest, 1), k) \in received}]
      BY <2>1 DEF AckHeader
    <3>6. i \in AckHeader.bits /\ AckHeader.ack = remote_highest
      BY <3>1, <3>3, <3>4, <3>5
    <3> QED BY <3>4, <3>6 DEF Acknowledges
  <2> QED BY <2>3, <2>5, <2>6
<1> QED BY <1>1, AcksStayTrue, PTL

(* No packet is reported twice, and none acknowledged loses its mark       *)
(* before its slot is taken: whatever the headers say, and for every       *)
(* network (ack.rs:121-131).                                               *)
THEOREM NothingIsReportedTwice == Spec => ReportedOnce
<1>1. [Next]_vars =>
        /\ \A s \in acked : s \in acked' \/ SlotOf(s) = SlotOf(next_sequence)
        /\ \A s \in newly_acked' \ newly_acked : s \notin acked
  <2> SUFFICES ASSUME [Next]_vars
               PROVE  /\ \A s \in acked : s \in acked' \/ SlotOf(s) = SlotOf(next_sequence)
                      /\ \A s \in newly_acked' \ newly_acked : s \notin acked
    OBVIOUS
  <2>1. CASE SendPacket BY <2>1 DEF SendPacket, BeginSend
  <2>2. CASE \E h \in headers : ReceiveHeader(h)
    BY <2>2 DEF ReceiveHeader, OnAckHeader
  <2>3. CASE Drain BY <2>3 DEF Drain, DrainNewlyAcked
  <2>4. CASE UNCHANGED <<acked, newly_acked>> BY <2>4
  <2> QED
    BY <2>1, <2>2, <2>3, <2>4
       DEF Next, SendHeader, ReceivePacket, DropPacket, DropHeader, ackVars, sending, vars
<1> QED BY <1>1, PTL DEF Spec, ReportedOnce
=============================================================================
