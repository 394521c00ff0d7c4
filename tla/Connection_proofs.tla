--------------------------- MODULE Connection_proofs ---------------------------
(***************************************************************************)
(* The AckTracker is a truthful acknowledgement layer: Connection          *)
(* implements ChannelExchange, for all constants.                          *)
(***************************************************************************)
EXTENDS Connection, TLAPS

-----------------------------------------------------------------------------
(* What the trackers know.  Every sequence in use is below next_sequence,  *)
(* and every sequence the receiving tracker holds, a header names or the   *)
(* sending tracker has marked did arrive - except for the 0 of the header  *)
(* of a peer that has heard nothing (ack.rs:89-92).                        *)

Excused == IF SpeaksFirst THEN {0} ELSE {}
Used == 0 .. next_sequence - 1

Functions ==
  /\ in_packet = [s \in Seqs |-> in_packet[s]]
  /\ unacked = [k \in Reliable |-> unacked[k]]
  /\ tried = [k \in Reliable |-> tried[k]]

TrackersHonest ==
  /\ Functions
  /\ next_sequence \in 0 .. MaxPackets
  /\ \A s \in Seqs : in_packet[s] # {} => s \in Used
  /\ \A p \in packets : p.seq \in Used
  /\ arrived \subseteq Used
  /\ received \subseteq arrived
  /\ remote_highest \in arrived \cup {None}
  /\ \A h \in headers : Acknowledges(h) \subseteq arrived \cup Excused
  /\ acked \subseteq arrived \cup Excused
  /\ newly_acked \subseteq arrived \cup Excused

LEMMA HonestInit == Init => TrackersHonest
BY ConnectionAssumption
   DEF Init, AckInit, ChannelInit, TrackersHonest, Functions, Used

(* The header of a tracker names only sequences it has received.           *)
LEMMA HeaderHonest ==
  ASSUME TrackersHonest, SpeaksFirst \/ remote_highest # None
  PROVE  Acknowledges(AckHeader) \subseteq arrived \cup Excused
<1>1. CASE remote_highest = None
  BY <1>1 DEF AckHeader, Acknowledges, Excused
<1>2. CASE remote_highest # None
  BY <1>2 DEF AckHeader, Acknowledges, TrackersHonest
<1> QED BY <1>1, <1>2

LEMMA HonestLess ==
  ASSUME TrackersHonest, NEW p \in packets, packets' = Less(p), UNCHANGED next_sequence
  PROVE  \A q \in packets' : q.seq \in Used'
<1>1. p.seq \in Used /\ [p EXCEPT !.copies = @ - 1].seq = p.seq
  BY DEF TrackersHonest
<1> QED BY <1>1 DEF Less, TrackersHonest, Used

LEMMA HonestStep == TrackersHonest /\ [Next]_vars => TrackersHonest'
<1> SUFFICES ASSUME TrackersHonest, [Next]_vars PROVE TrackersHonest'
  OBVIOUS
<1> USE ConnectionAssumption
<1>1. CASE HandOver
  <2>1. UNCHANGED <<ackVars, in_packet, unacked, tried, packets, headers, arrived>>
    BY <1>1 DEF HandOver, channelSending
  <2> QED BY <2>1 DEF TrackersHonest, Functions, Used, ackVars
<1>2. ASSUME NEW k \in Kinds, Queue(k) PROVE TrackersHonest'
  <2>1. UNCHANGED <<ackVars, in_packet, packets, headers, arrived>>
    BY <1>2 DEF Queue, QueueMessage, netVars
  <2>2. Functions'
    BY <1>2 DEF Queue, QueueMessage, TrackersHonest, Functions
  <2> QED BY <2>1, <2>2 DEF TrackersHonest, Used, ackVars
<1>3. ASSUME NEW o, NEW u, SendPacket(o, u) PROVE TrackersHonest'
  <2>1. /\ next_sequence \in Nat /\ next_sequence < MaxPackets
        /\ SeqCount \in Nat /\ next_sequence + 1 < SeqCount
        /\ next_sequence \in Seqs
    BY <1>3, SeqCountAssumption DEF SendPacket, TrackersHonest, Seqs
  <2>2. next_sequence' = next_sequence + 1
    BY <1>3, <2>1 DEF SendPacket, BeginSend, WrapNext
  <2>3. Used' = Used \cup {next_sequence}
    BY <2>1, <2>2 DEF Used
  <2>4. /\ \A s \in Seqs \ {next_sequence} : in_packet'[s] = in_packet[s]
        /\ Functions'
    BY <1>3, <2>1 DEF SendPacket, Packetize, TrackersHonest, Functions
  <2>5. \A p \in packets' : p.seq \in Used'
    BY <1>3, <2>3 DEF SendPacket, TrackersHonest
  <2>6. /\ acked' \subseteq acked
        /\ UNCHANGED <<newly_acked, received, remote_highest, headers, arrived>>
    BY <1>3 DEF SendPacket, BeginSend, receiving
  <2> QED BY <2>1, <2>2, <2>3, <2>4, <2>5, <2>6 DEF TrackersHonest
<1>4. ASSUME NEW p \in packets, ReceivePacket(p) PROVE TrackersHonest'
  <2>1. /\ arrived' = arrived \cup {p.seq}
        /\ received' \subseteq received \cup {p.seq}
        /\ remote_highest' \in {remote_highest, p.seq}
        /\ UNCHANGED <<sending, in_packet, unacked, tried, headers>>
    BY <1>4 DEF ReceivePacket, OnReceive, RingPut, channelVars
  <2>2. \A q \in packets' : q.seq \in Used'
    BY <1>4, <2>1, HonestLess DEF ReceivePacket, sending
  <2> QED BY <2>1, <2>2 DEF TrackersHonest, Functions, Used, sending
<1>5. ASSUME NEW p \in packets, DropPacket(p) PROVE TrackersHonest'
  <2>1. UNCHANGED <<ackVars, in_packet, unacked, tried, headers, arrived>>
    BY <1>5 DEF DropPacket, channelVars
  <2>2. \A q \in packets' : q.seq \in Used'
    BY <1>5, <2>1, HonestLess DEF DropPacket, ackVars
  <2> QED BY <2>1, <2>2 DEF TrackersHonest, Functions, Used, ackVars
<1>6. CASE SendHeader
  <2>1. UNCHANGED <<ackVars, in_packet, unacked, tried, packets, arrived>>
    BY <1>6 DEF SendHeader, channelVars
  <2>2. \A h \in headers' : Acknowledges(h) \subseteq arrived \cup Excused
    BY <1>6, HeaderHonest DEF SendHeader, TrackersHonest
  <2> QED BY <2>1, <2>2 DEF TrackersHonest, Functions, Used, ackVars
<1>7. ASSUME NEW h \in headers, ReceiveHeader(h) PROVE TrackersHonest'
  <2>1. /\ acked' \subseteq acked \cup Acknowledges(h)
        /\ newly_acked' \subseteq newly_acked \cup Acknowledges(h)
        /\ headers' \subseteq headers
        /\ UNCHANGED <<next_sequence, receiving, in_packet, unacked, tried, packets, arrived>>
    BY <1>7 DEF ReceiveHeader, OnAckHeader, channelVars
  <2> QED BY <2>1 DEF TrackersHonest, Functions, Used, receiving
<1>8. ASSUME NEW h \in headers, DropHeader(h) PROVE TrackersHonest'
  <2>1. headers' \subseteq headers
        /\ UNCHANGED <<ackVars, in_packet, unacked, tried, packets, arrived>>
    BY <1>8 DEF DropHeader, channelVars
  <2> QED BY <2>1 DEF TrackersHonest, Functions, Used, ackVars
<1>9. CASE Drain
  <2>1. /\ newly_acked' = {}
        /\ in_packet' = [s \in PacketSeqs |-> IF s \in newly_acked THEN {} ELSE in_packet[s]]
        /\ UNCHANGED <<next_sequence, acked, receiving, netVars>>
    BY <1>9 DEF Drain, DrainNewlyAcked, OnPacketsAcked
  <2>2. Functions'
    BY <1>9, ConnectionAssumption DEF Drain, OnPacketsAcked, Functions
  <2> QED BY <2>1, <2>2 DEF TrackersHonest, Used, receiving, netVars
<1>10. ASSUME NEW s \in Seqs, GiveUp(s) PROVE TrackersHonest'
  <2>1. in_packet' = [in_packet EXCEPT ![s] = {}]
        /\ UNCHANGED <<ackVars, netVars, unacked, tried>>
    BY <1>10 DEF GiveUp, OnPacketLost
  <2> QED BY <2>1 DEF TrackersHonest, Functions, Used, ackVars, netVars
<1>11. CASE UNCHANGED vars
  BY <1>11 DEF vars, ackVars, channelVars, TrackersHonest, Functions, Used
<1> QED
  BY <1>1, <1>2, <1>3, <1>4, <1>5, <1>6, <1>7, <1>8, <1>9, <1>10, <1>11 DEF Next

LEMMA TrackersStayHonest == Spec => []TrackersHonest
<1>1. Init => TrackersHonest
  BY HonestInit
<1>2. TrackersHonest /\ [Next]_vars => TrackersHonest'
  BY HonestStep
<1> QED BY <1>1, <1>2, PTL DEF Spec

(* A sequence the sending tracker has marked acknowledged reached the      *)
(* peer - sequence 0 excepted - whatever is lost, duplicated or reordered, *)
(* packets and headers alike, for every AckBits, Capacity and SeqCount       *)
(* (ack.rs:75-131).                                                        *)
THEOREM OnlyArrivalsAreAcked == Spec => []AckedArrived
<1>1. TrackersHonest => AckedArrived
  BY DEF TrackersHonest, AckedArrived, Excused
<1> QED BY <1>1, TrackersStayHonest, PTL

-----------------------------------------------------------------------------
(* Records of packets.                                                     *)
LEMMA ReclaimedStep ==
  ASSUME TrackersHonest, RecordsReclaimed, [Next]_vars PROVE RecordsReclaimed'
<1>0. next_sequence \in Seqs /\ acked \subseteq Seqs /\ newly_acked \subseteq Seqs
  BY ConnectionAssumption, SeqCountAssumption DEF TrackersHonest, Excused, Used, Seqs
<1>1. CASE UNCHANGED <<acked, newly_acked, in_packet>>
  BY <1>1 DEF RecordsReclaimed
<1>2. ASSUME NEW o, NEW u, SendPacket(o, u) PROVE RecordsReclaimed'
  <2>1. /\ acked' \subseteq acked \ {next_sequence} /\ newly_acked' = newly_acked
        /\ \A s \in Seqs \ {next_sequence} : in_packet'[s] = in_packet[s]
    BY <1>2 DEF SendPacket, BeginSend, Packetize, TrackersHonest, Functions
  <2> QED BY <1>0, <2>1 DEF RecordsReclaimed
<1>3. ASSUME NEW h \in headers, ReceiveHeader(h) PROVE RecordsReclaimed'
  BY <1>3 DEF ReceiveHeader, OnAckHeader, channelVars, RecordsReclaimed
<1>4. CASE Drain
  <2>1. /\ newly_acked' = {} /\ acked' = acked
        /\ \A s \in Seqs : in_packet'[s] = IF s \in newly_acked THEN {} ELSE in_packet[s]
    BY <1>4, ConnectionAssumption DEF Drain, DrainNewlyAcked, OnPacketsAcked
  <2> QED BY <1>0, <2>1 DEF RecordsReclaimed
<1>5. ASSUME NEW s \in Seqs, GiveUp(s) PROVE RecordsReclaimed'
  <2>1. /\ acked' = acked /\ newly_acked' = newly_acked
        /\ \A x \in Seqs : in_packet'[x] = IF x = s THEN {} ELSE in_packet[x]
    BY <1>5 DEF GiveUp, OnPacketLost, ackVars, TrackersHonest, Functions
  <2> QED BY <1>0, <2>1 DEF RecordsReclaimed
<1>6. CASE HandOver
  BY <1>1, <1>6 DEF HandOver, ackVars, channelSending
<1>7. ASSUME NEW k \in Kinds, Queue(k) PROVE RecordsReclaimed'
  BY <1>1, <1>7 DEF Queue, QueueMessage, ackVars
<1>8. ASSUME NEW p \in packets, ReceivePacket(p) \/ DropPacket(p) PROVE RecordsReclaimed'
  BY <1>1, <1>8 DEF ReceivePacket, DropPacket, sending, ackVars, channelVars
<1>9. CASE SendHeader
  BY <1>1, <1>9 DEF SendHeader, ackVars, channelVars
<1>10. ASSUME NEW h \in headers, DropHeader(h) PROVE RecordsReclaimed'
  BY <1>1, <1>10 DEF DropHeader, ackVars, channelVars
<1>11. CASE UNCHANGED vars
  BY <1>1, <1>11 DEF vars, ackVars, channelVars
<1> QED
  BY <1>2, <1>3, <1>4, <1>5, <1>6, <1>7, <1>8, <1>9, <1>10, <1>11 DEF Next

(* What an acknowledged packet carried is forgotten once the               *)
(* acknowledgements are drained, also when its sequence's slot was given   *)
(* to a later packet or it was given up in between (channel.rs:321-335).   *)
THEOREM RecordsStayReclaimed == Spec => []RecordsReclaimed
<1>1. Init => RecordsReclaimed
  BY DEF Init, AckInit, RecordsReclaimed
<1>2. TrackersHonest /\ RecordsReclaimed /\ [Next]_vars => RecordsReclaimed'
  BY ReclaimedStep
<1> QED BY <1>1, <1>2, TrackersStayHonest, PTL DEF Spec

-----------------------------------------------------------------------------
(* Connection implements ChannelExchange, as long as the peer acknowledges *)
(* only once it has heard something.                                       *)

(* The channel operations are the same on both sides.                      *)
LEMMA SameCardinality == \A S : Cardinality(S) = Exchange!Cardinality(S)
BY Zenon DEF Cardinality, Exchange!Cardinality, IsFiniteSet, Exchange!IsFiniteSet

LEMMA SameKinds ==
  /\ Kinds = Exchange!Kinds /\ Reliable = Exchange!Reliable
  /\ ReliableOrdered = Exchange!ReliableOrdered
  /\ ReliableUnordered = Exchange!ReliableUnordered
BY DEF Kinds, Reliable, BestEffort, ReliableOrdered, ReliableUnordered, Unreliable,
       UnreliableSequenced, Exchange!Kinds, Exchange!Reliable, Exchange!BestEffort,
       Exchange!ReliableOrdered, Exchange!ReliableUnordered, Exchange!Unreliable,
       Exchange!UnreliableSequenced

LEMMA SameReceive ==
  ASSUME NEW m
  PROVE  OnReceiveMessage(m) <=> Exchange!OnReceiveMessage(m)
<1>1. ASSUME NEW id PROVE ReceiveOrdered(id) <=> Exchange!ReceiveOrdered(id)
  BY SameCardinality
     DEF ReceiveOrdered, Exchange!ReceiveOrdered, ReliableOrdered, Exchange!ReliableOrdered,
         FirstGap, Exchange!FirstGap, Deliver, Exchange!Deliver
<1>2. ASSUME NEW id PROVE ReceiveUnordered(id) <=> Exchange!ReceiveUnordered(id)
  BY SameCardinality
     DEF ReceiveUnordered, Exchange!ReceiveUnordered, ReliableUnordered,
         Exchange!ReliableUnordered, FirstGap, Exchange!FirstGap, Deliver, Exchange!Deliver
<1>3. ASSUME NEW id PROVE ReceiveSequenced(id) <=> Exchange!ReceiveSequenced(id)
  BY DEF ReceiveSequenced, Exchange!ReceiveSequenced, UnreliableSequenced, NoneSeen,
         Exchange!NoneSeen, Exchange!UnreliableSequenced, IsNewerId, Exchange!IsNewerId,
         Deliver, Exchange!Deliver
<1>4. ASSUME NEW id PROVE ReceiveUnreliable(id) <=> Exchange!ReceiveUnreliable(id)
  BY DEF ReceiveUnreliable, Exchange!ReceiveUnreliable, Unreliable, Exchange!Unreliable,
         Deliver, Exchange!Deliver
<1> QED BY <1>1, <1>2, <1>3, <1>4
        DEF OnReceiveMessage, Exchange!OnReceiveMessage, ReliableOrdered, ReliableUnordered,
            Unreliable, UnreliableSequenced, Exchange!ReliableOrdered,
            Exchange!ReliableUnordered, Exchange!Unreliable, Exchange!UnreliableSequenced

LEMMA SamePackOrder == \A m, x : PackedBefore(m, x) <=> Exchange!PackedBefore(m, x)
BY DEF PackedBefore, PackRank, PackOrder, Exchange!PackedBefore, Exchange!PackRank,
       Exchange!PackOrder, ReliableOrdered, ReliableUnordered, Unreliable,
       UnreliableSequenced, Exchange!ReliableOrdered, Exchange!ReliableUnordered,
       Exchange!Unreliable, Exchange!UnreliableSequenced

LEMMA SamePacketize ==
  ASSUME NEW o, NEW u
  PROVE  /\ Packetize(next_sequence, o, u) <=> Exchange!Packetize(next_sequence, o, u)
         /\ Recorded(o, u) = Exchange!Recorded(o, u)
         /\ BestEffortLoads = Exchange!BestEffortLoads
BY DEF Packetize, Exchange!Packetize, Recorded, Exchange!Recorded, Tag, Exchange!Tag,
       Batches, Exchange!Batches, BestEffortLoads, Exchange!BestEffortLoads,
       Reliable, BestEffort, ReliableOrdered, ReliableUnordered, Unreliable,
       UnreliableSequenced, Exchange!Reliable, Exchange!BestEffort,
       Exchange!ReliableOrdered, Exchange!ReliableUnordered, Exchange!Unreliable,
       Exchange!UnreliableSequenced

LEMMA InitMaps == Init => Exchange!Init
BY DEF Init, AckInit, ChannelInit, OnTheWay, NoneSeen, Kinds, Reliable, BestEffort,
       ReliableOrdered, ReliableUnordered, Unreliable, UnreliableSequenced,
       Exchange!Init, Exchange!ChannelInit, Exchange!NoneSeen, Exchange!Kinds,
       Exchange!Reliable, Exchange!BestEffort, Exchange!ReliableOrdered,
       Exchange!ReliableUnordered, Exchange!Unreliable, Exchange!UnreliableSequenced

LEMMA SameTuples ==
  /\ UNCHANGED channelSending <=> UNCHANGED Exchange!channelSending
  /\ UNCHANGED channelReceiving <=> UNCHANGED Exchange!channelReceiving
  /\ UNCHANGED channelVars <=> UNCHANGED Exchange!channelVars
BY DEF channelSending, channelReceiving, channelVars, Exchange!channelSending,
       Exchange!channelReceiving, Exchange!channelVars

LEMMA HandOverMaps ==
  ASSUME HandOver PROVE Exchange!HandOver
<1>1. UNCHANGED OnTheWay /\ UNCHANGED next_sequence
  BY DEF HandOver, OnTheWay, ackVars, channelSending
<1> QED BY <1>1, SameReceive, SamePackOrder, SameTuples DEF HandOver, Exchange!HandOver

LEMMA QueueMaps ==
  ASSUME NEW k, Queue(k) PROVE Exchange!Queue(k)
<1>1. Exchange!QueueMessage(k)
  BY DEF Queue, QueueMessage, Exchange!QueueMessage, Reliable, ReliableOrdered,
         ReliableUnordered, Exchange!Reliable, Exchange!ReliableOrdered,
         Exchange!ReliableUnordered
<1>2. UNCHANGED OnTheWay
  BY DEF Queue, QueueMessage, OnTheWay, netVars
<1> QED BY <1>1, <1>2, SameTuples
        DEF Queue, ackVars, netVars, Exchange!Queue, Exchange!exchangeVars

LEMMA SendPacketMaps ==
  ASSUME TrackersHonest, NEW o, NEW u, SendPacket(o, u) PROVE Exchange!SendPacket(o, u)
<1>1. next_sequence \notin Used /\ next_sequence \in Seqs
  BY ConnectionAssumption, SeqCountAssumption DEF Used, TrackersHonest, Seqs
<1>2. Exchange!Unused(next_sequence)
  BY <1>1 DEF TrackersHonest, Exchange!Unused
<1>3. UNCHANGED OnTheWay
  <2>1. \A s \in arrived : in_packet'[s] = in_packet[s]
    BY <1>1, ConnectionAssumption DEF SendPacket, Packetize, TrackersHonest, Functions
  <2> QED BY <2>1 DEF SendPacket, OnTheWay
<1>4. next_sequence' = (next_sequence + 1) % SeqCount
  BY DEF SendPacket, BeginSend, WrapNext
<1> QED BY <1>2, <1>3, <1>4, SamePacketize, SameTuples DEF SendPacket, Exchange!SendPacket

LEMMA SameLess == ASSUME NEW p PROVE Less(p) = Exchange!Less(p)
BY DEF Less, Exchange!Less

LEMMA ReceivePacketMaps ==
  ASSUME NEW p \in packets, ReceivePacket(p) PROVE Exchange!ReceivePacket(p)
<1>1. OnTheWay' = IF in_packet[p.seq] = {} THEN OnTheWay ELSE OnTheWay \cup {p.seq}
  BY DEF ReceivePacket, OnTheWay, channelVars
<1> QED BY <1>1, SameLess, SameTuples DEF ReceivePacket, sending, Exchange!ReceivePacket

LEMMA DropPacketMaps ==
  ASSUME NEW p \in packets, DropPacket(p) PROVE Exchange!DropPacket(p)
<1>1. UNCHANGED OnTheWay
  BY DEF DropPacket, OnTheWay, channelVars
<1> QED BY <1>1, SameLess, SameTuples DEF DropPacket, ackVars, Exchange!DropPacket

(* Reporting a packet without a record changes nothing.                    *)
LEMMA DrainMaps ==
  ASSUME TrackersHonest, ~SpeaksFirst, Drain
  PROVE  \/ \E seqs \in SUBSET OnTheWay : Exchange!ReceiveAcks(seqs)
         \/ UNCHANGED Exchange!vars
<1> DEFINE seqs == {s \in newly_acked : in_packet[s] # {}}
           retired(k, S) ==
             {id \in Ids : \E s \in S : [channel |-> k, id |-> id] \in in_packet[s]}
<1>1. seqs \subseteq OnTheWay
  BY DEF TrackersHonest, Excused, OnTheWay
<1>2. \A k : retired(k, newly_acked) = retired(k, seqs)
  OBVIOUS
<1>3. /\ unacked' = [k \in Reliable |-> unacked[k] \ retired(k, newly_acked)]
      /\ tried' = [k \in Reliable |-> tried[k] \ retired(k, newly_acked)]
      /\ in_packet' = [s \in PacketSeqs |-> IF s \in newly_acked THEN {} ELSE in_packet[s]]
      /\ UNCHANGED <<next_send_id, unreliable_queue, queued>>
  BY DEF Drain, OnPacketsAcked
<1>4. \A s \in PacketSeqs : (s \in newly_acked /\ s \notin seqs) => in_packet[s] = {}
  OBVIOUS
<1>5. in_packet' = [s \in PacketSeqs |-> IF s \in seqs THEN {} ELSE in_packet[s]]
  BY <1>3, <1>4
<1>6. OnTheWay' = OnTheWay \ seqs
  <2>1. arrived' = arrived /\ arrived \subseteq PacketSeqs
    BY ConnectionAssumption, SeqCountAssumption
       DEF Drain, netVars, TrackersHonest, Used, Seqs
  <2> QED BY <2>1, <1>5 DEF OnTheWay
<1>7. Exchange!OnPacketsAcked(seqs)
  BY <1>2, <1>3, <1>5
     DEF Exchange!OnPacketsAcked, Ids, Reliable, ReliableOrdered, ReliableUnordered,
         Exchange!Ids, Exchange!Reliable, Exchange!ReliableOrdered,
         Exchange!ReliableUnordered
<1>8. CASE seqs # {}
  <2>1. Exchange!ReceiveAcks(seqs)
    BY <1>1, <1>6, <1>7, <1>8, SameTuples
       DEF Drain, DrainNewlyAcked, netVars, Exchange!ReceiveAcks
  <2> QED BY <1>1, <2>1
<1>9. CASE seqs = {}
  <2>1. \A k : retired(k, newly_acked) = {}
    BY <1>2, <1>9
  <2>2. UNCHANGED <<unacked, tried, in_packet>>
    BY <1>3, <1>5, <1>9, <2>1, ConnectionAssumption DEF TrackersHonest, Functions
  <2>3. UNCHANGED OnTheWay
    BY <1>6, <1>9
  <2> QED
    BY <1>3, <2>2, <2>3
       DEF Drain, DrainNewlyAcked, netVars, channelReceiving, Exchange!vars,
           Exchange!channelVars
<1> QED BY <1>8, <1>9

LEMMA GiveUpMaps ==
  ASSUME TrackersHonest, NEW s \in Seqs, GiveUp(s) PROVE Exchange!GiveUp(s)
<1>1. OnTheWay' = OnTheWay \ {s}
  <2>1. arrived' = arrived /\ arrived \subseteq Seqs
    BY ConnectionAssumption, SeqCountAssumption
       DEF GiveUp, netVars, TrackersHonest, Used, Seqs
  <2>2. in_packet' = [in_packet EXCEPT ![s] = {}]
    BY DEF GiveUp, OnPacketLost
  <2> QED BY <2>1, <2>2 DEF OnTheWay, TrackersHonest, Functions
<1>2. Exchange!OnPacketLost(s)
  BY DEF GiveUp, OnPacketLost, Exchange!OnPacketLost
<1> QED BY <1>1, <1>2, SameTuples DEF GiveUp, ackVars, netVars, Exchange!GiveUp

LEMMA StepMaps ==
  ASSUME TrackersHonest, ~SpeaksFirst, [Next]_vars
  PROVE  [Exchange!Next]_(Exchange!vars)
<1>1. CASE HandOver
  BY <1>1, HandOverMaps DEF Exchange!Next
<1>2. CASE inbox = {} /\ \E k \in Kinds : Queue(k)
  BY <1>2, QueueMaps, SameKinds DEF Exchange!Next
<1>3. CASE /\ inbox = {}
           /\ \E o \in SUBSET unacked[ReliableOrdered], u \in SUBSET unacked[ReliableUnordered] :
                SendPacket(o, u)
  BY <1>3, SendPacketMaps, SameKinds DEF Exchange!Next
<1>4. CASE inbox = {} /\ \E p \in packets : ReceivePacket(p) \/ DropPacket(p)
  BY <1>4, ReceivePacketMaps, DropPacketMaps DEF Exchange!Next
<1>5. CASE inbox = {} /\ Drain
  BY <1>5, DrainMaps DEF Exchange!Next
<1>6. CASE inbox = {} /\ \E s \in Seqs : GiveUp(s)
  BY <1>6, GiveUpMaps, ConnectionAssumption DEF Exchange!Next
<1>7. ASSUME UNCHANGED <<channelVars, next_sequence, packets, inbox, arrived>>
      PROVE  UNCHANGED Exchange!vars
  <2>1. UNCHANGED OnTheWay
    BY <1>7 DEF channelVars, OnTheWay
  <2> QED BY <1>7, <2>1, SameTuples DEF Exchange!vars
<1>8. CASE UNCHANGED vars
  BY <1>7, <1>8 DEF vars, ackVars
<1>9. CASE SendHeader
  BY <1>7, <1>9 DEF SendHeader, ackVars
<1>10. CASE \E h \in headers : ReceiveHeader(h) \/ DropHeader(h)
  BY <1>7, <1>10 DEF ReceiveHeader, DropHeader, OnAckHeader, ackVars
<1> QED
  BY <1>1, <1>2, <1>3, <1>4, <1>5, <1>6, <1>8, <1>9, <1>10 DEF Next

(* The AckTracker implements the acknowledgement layer the channels are    *)
(* written for: a connection in which the peer acknowledges only after it  *)
(* heard something is an exchange whose acks are all truthful, so all that *)
(* is proved about ChannelExchange holds of it (channel.rs:186, 321-335).  *)
THEOREM TrackerServesChannels ==
  ASSUME ~SpeaksFirst
  PROVE  Spec => AcksAreTruthful
<1>1. Init => Exchange!Init
  BY InitMaps
<1>2. TrackersHonest /\ [Next]_vars => [Exchange!Next]_(Exchange!vars)
  BY StepMaps
<1> QED BY <1>1, <1>2, TrackersStayHonest, PTL DEF Spec, AcksAreTruthful, Exchange!Spec

-----------------------------------------------------------------------------
(* What is proved about ChannelExchange, carried over.  Proved! and        *)
(* Exchange! are two instances of the same definitions.                    *)

Proved == INSTANCE ChannelExchange_proofs WITH
            next_packet <- next_sequence, acks <- OnTheWay

LEMMA ProvedAssumptions ==
  /\ Proved!ChannelAssumption
  /\ Proved!ChannelExchangeAssumption
<1>1. Proved!ChannelAssumption
  BY ChannelAssumption
     DEF Proved!ChannelAssumption, Proved!Kinds, Proved!Reliable, Proved!BestEffort,
         Proved!ReliableOrdered, Proved!ReliableUnordered, Proved!Unreliable,
         Proved!UnreliableSequenced, Kinds, Reliable, BestEffort, ReliableOrdered,
         ReliableUnordered, Unreliable, UnreliableSequenced
<1>2. Proved!ChannelExchangeAssumption
  BY ConnectionAssumption, SeqCountAssumption DEF Proved!ChannelExchangeAssumption, Seqs
<1> QED BY <1>1, <1>2

LEMMA TwoInstancesKinds ==
  /\ Proved!Kinds = Exchange!Kinds /\ Proved!Reliable = Exchange!Reliable
  /\ Proved!ReliableOrdered = Exchange!ReliableOrdered
  /\ Proved!ReliableUnordered = Exchange!ReliableUnordered
BY DEF Exchange!Kinds, Proved!Kinds, Exchange!Reliable, Proved!Reliable,
       Exchange!BestEffort, Proved!BestEffort, Exchange!ReliableOrdered,
       Proved!ReliableOrdered, Exchange!ReliableUnordered, Proved!ReliableUnordered,
       Exchange!Unreliable, Proved!Unreliable, Exchange!UnreliableSequenced,
       Proved!UnreliableSequenced

LEMMA TwoInstancesInit == Exchange!Init => Proved!Init
BY DEF Exchange!Init, Proved!Init, Exchange!ChannelInit, Proved!ChannelInit,
       Exchange!NoneSeen, Proved!NoneSeen, Exchange!Kinds, Proved!Kinds,
       Exchange!Reliable, Proved!Reliable, Exchange!BestEffort, Proved!BestEffort,
       Exchange!ReliableOrdered, Proved!ReliableOrdered, Exchange!ReliableUnordered,
       Proved!ReliableUnordered, Exchange!Unreliable, Proved!Unreliable,
       Exchange!UnreliableSequenced, Proved!UnreliableSequenced

LEMMA TwoInstancesVars ==
  UNCHANGED Exchange!vars => UNCHANGED Proved!vars
BY DEF Exchange!vars, Proved!vars, Exchange!channelVars, Proved!channelVars

LEMMA TwoInstancesHandOver == Exchange!HandOver => Proved!HandOver
<1>1. \A S : Proved!Cardinality(S) = Exchange!Cardinality(S)
  BY Zenon DEF Proved!Cardinality, Exchange!Cardinality, Proved!IsFiniteSet,
               Exchange!IsFiniteSet
<1>2. ASSUME NEW m PROVE Exchange!OnReceiveMessage(m) => Proved!OnReceiveMessage(m)
  <2>1. ASSUME NEW id
        PROVE  /\ Exchange!ReceiveOrdered(id) => Proved!ReceiveOrdered(id)
               /\ Exchange!ReceiveUnordered(id) => Proved!ReceiveUnordered(id)
    BY <1>1
    DEF Exchange!ReceiveOrdered, Proved!ReceiveOrdered, Exchange!ReceiveUnordered,
       Proved!ReceiveUnordered, Exchange!ReliableOrdered, Proved!ReliableOrdered,
       Exchange!ReliableUnordered, Proved!ReliableUnordered, Exchange!FirstGap,
       Proved!FirstGap, Exchange!Deliver, Proved!Deliver
  <2>2. ASSUME NEW id
        PROVE  /\ Exchange!ReceiveSequenced(id) => Proved!ReceiveSequenced(id)
               /\ Exchange!ReceiveUnreliable(id) => Proved!ReceiveUnreliable(id)
    BY DEF Exchange!ReceiveSequenced, Proved!ReceiveSequenced, Exchange!ReceiveUnreliable,
       Proved!ReceiveUnreliable, Exchange!UnreliableSequenced,
       Proved!UnreliableSequenced, Exchange!Unreliable, Proved!Unreliable,
       Exchange!NoneSeen, Proved!NoneSeen, Exchange!IsNewerId, Proved!IsNewerId,
       Exchange!Deliver, Proved!Deliver
  <2> QED
    BY <2>1, <2>2
    DEF Exchange!OnReceiveMessage, Proved!OnReceiveMessage, Exchange!ReliableOrdered,
       Proved!ReliableOrdered, Exchange!ReliableUnordered, Proved!ReliableUnordered,
       Exchange!Unreliable, Proved!Unreliable, Exchange!UnreliableSequenced,
       Proved!UnreliableSequenced
<1>3. \A m, x : Exchange!PackedBefore(m, x) => Proved!PackedBefore(m, x)
  BY DEF Exchange!PackedBefore, Proved!PackedBefore, Exchange!PackRank, Proved!PackRank,
       Exchange!PackOrder, Proved!PackOrder, Exchange!ReliableOrdered,
       Proved!ReliableOrdered, Exchange!ReliableUnordered, Proved!ReliableUnordered,
       Exchange!Unreliable, Proved!Unreliable, Exchange!UnreliableSequenced,
       Proved!UnreliableSequenced
<1> QED
  BY <1>2, <1>3
  DEF Exchange!HandOver, Proved!HandOver, Exchange!channelSending,
       Proved!channelSending

LEMMA TwoInstancesNext == Exchange!Next => Proved!Next
<1>1. ASSUME NEW k PROVE Exchange!Queue(k) => Proved!Queue(k)
  BY DEF Exchange!Queue, Proved!Queue, Exchange!QueueMessage, Proved!QueueMessage,
       Exchange!Reliable, Proved!Reliable, Exchange!ReliableOrdered,
       Proved!ReliableOrdered, Exchange!ReliableUnordered, Proved!ReliableUnordered,
       Exchange!channelReceiving, Proved!channelReceiving, Exchange!exchangeVars,
       Proved!exchangeVars
<1>2. ASSUME NEW o, NEW u PROVE Exchange!SendPacket(o, u) => Proved!SendPacket(o, u)
  <2>1. Exchange!Recorded(o, u) = Proved!Recorded(o, u)
    BY DEF Exchange!Recorded, Proved!Recorded, Exchange!Tag, Proved!Tag,
       Exchange!ReliableOrdered, Proved!ReliableOrdered, Exchange!ReliableUnordered,
       Proved!ReliableUnordered
  <2>2. Exchange!BestEffortLoads = Proved!BestEffortLoads
    BY DEF Exchange!BestEffortLoads, Proved!BestEffortLoads, Exchange!Tag, Proved!Tag,
       Exchange!Unreliable, Proved!Unreliable, Exchange!UnreliableSequenced,
       Proved!UnreliableSequenced
  <2>3. ASSUME NEW seq
        PROVE  Exchange!Packetize(seq, o, u) => Proved!Packetize(seq, o, u)
    <3>1. \A k : Exchange!Batches(k) = Proved!Batches(k)
      BY DEF Exchange!Batches, Proved!Batches
    <3>2. Exchange!BestEffort = Proved!BestEffort
      BY DEF Exchange!BestEffort, Proved!BestEffort, Exchange!Unreliable,
         Proved!Unreliable, Exchange!UnreliableSequenced, Proved!UnreliableSequenced
    <3> QED
      BY <2>1, <3>1, <3>2, TwoInstancesKinds DEF Exchange!Packetize, Proved!Packetize
  <2>4. Exchange!Unused(next_sequence) = Proved!Unused(next_sequence)
    BY DEF Exchange!Unused, Proved!Unused
  <2> QED
    BY <2>1, <2>2, <2>3, <2>4
    DEF Exchange!SendPacket, Proved!SendPacket, Exchange!channelReceiving,
       Proved!channelReceiving
<1>3. ASSUME NEW p
      PROVE  /\ Exchange!ReceivePacket(p) => Proved!ReceivePacket(p)
             /\ Exchange!DropPacket(p) => Proved!DropPacket(p)
  BY DEF Exchange!ReceivePacket, Proved!ReceivePacket, Exchange!DropPacket,
       Proved!DropPacket, Exchange!Less, Proved!Less, Exchange!channelVars,
       Proved!channelVars
<1>4. ASSUME NEW seqs PROVE Exchange!ReceiveAcks(seqs) => Proved!ReceiveAcks(seqs)
  BY DEF Exchange!ReceiveAcks, Proved!ReceiveAcks, Exchange!OnPacketsAcked,
       Proved!OnPacketsAcked, Exchange!Ids, Proved!Ids, Exchange!Reliable,
       Proved!Reliable, Exchange!ReliableOrdered, Proved!ReliableOrdered,
       Exchange!ReliableUnordered, Proved!ReliableUnordered, Exchange!channelReceiving,
       Proved!channelReceiving
<1>5. ASSUME NEW s PROVE Exchange!GiveUp(s) => Proved!GiveUp(s)
  BY DEF Exchange!GiveUp, Proved!GiveUp, Exchange!OnPacketLost, Proved!OnPacketLost,
       Exchange!channelReceiving, Proved!channelReceiving
<1> QED
  BY <1>1, <1>2, <1>3, <1>4, <1>5, TwoInstancesHandOver, TwoInstancesKinds
     DEF Exchange!Next, Proved!Next

LEMMA ConnectionIsProvedExchange ==
  ASSUME ~SpeaksFirst
  PROVE  Spec => Proved!Spec
<1>1. Init => Proved!Init
  BY InitMaps, TwoInstancesInit
<1>2. TrackersHonest /\ [Next]_vars => [Proved!Next]_(Proved!vars)
  BY StepMaps, TwoInstancesNext, TwoInstancesVars
<1> QED BY <1>1, <1>2, TrackersStayHonest, PTL DEF Spec, Proved!Spec

(* No reliable message of a connection is ever forgotten: tracker, header  *)
(* and channels together, for all constants, if the cap on held-back       *)
(* messages suffices and the peer acknowledges only what it has heard      *)
(* (ack.rs:61-136, channel.rs:224-424).                                    *)
THEOREM ConnectionForgetsNothing ==
  ASSUME ~SpeaksFirst, MaxSend[ReliableOrdered] <= MaxBuffered + 1
  PROVE  Spec => []NothingForgotten
<1>1. Proved!CapSuffices
  BY DEF Proved!CapSuffices, Proved!ReliableOrdered, ReliableOrdered
<1>2. Proved!Spec => []Proved!NothingForgotten
  BY <1>1, ProvedAssumptions, Proved!NothingIsForgotten
<1>3. Proved!NothingForgotten => NothingForgotten
  BY DEF Exchange!NothingForgotten, Proved!NothingForgotten, Exchange!Has, Proved!Has,
       Exchange!Came, Proved!Came, Exchange!Reliable, Proved!Reliable,
       Exchange!ReliableOrdered, Proved!ReliableOrdered, Exchange!ReliableUnordered,
       Proved!ReliableUnordered,
         NothingForgotten
<1> QED BY <1>2, <1>3, ConnectionIsProvedExchange, PTL
=============================================================================
