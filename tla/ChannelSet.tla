------------------------------ MODULE ChannelSet ------------------------------
(***************************************************************************)
(* tempo-reliability/src/channel.rs: the four delivery guarantees.         *)
(*                                                                         *)
(* As in AckTracker, the sending fields of a ChannelSet (next_send_id,     *)
(* unacked, unreliable_queue, in_packet) and its receiving fields          *)
(* (next_expect_id, ordered_buffer, seen_above, highest_seen) never meet   *)
(* in one operation, so the module describes one direction: the sending    *)
(* half of one peer and the receiving half of the other.                   *)
(*                                                                         *)
(* A payload is its message id.  Timestamps enter only through "has its    *)
(* retry delay elapsed?" and payload lengths only through "does it still   *)
(* fit?", and packetize is given both answers nondeterministically.        *)
(***************************************************************************)
EXTENDS Integers, Sequences, FiniteSets

CONSTANTS
  PacketSeqs,   \* the packet sequences
  IdMod,        \* size of the message id space: 2^32 in the code
  MaxBuffered,  \* cap on out-of-order messages per channel: 1024 by default
  MaxSend       \* bound: messages the application queues on each channel

Unreliable == "Unreliable"
UnreliableSequenced == "UnreliableSequenced"
ReliableOrdered == "ReliableOrdered"
ReliableUnordered == "ReliableUnordered"

Reliable == {ReliableOrdered, ReliableUnordered}
BestEffort == {Unreliable, UnreliableSequenced}
Kinds == Reliable \cup BestEffort

ASSUME ChannelAssumption ==
  /\ IdMod \in Nat \ {0}
  /\ MaxBuffered \in Nat
  /\ MaxSend \in [Kinds -> Nat]
  \* the receiver counts reliable ids without wrapping
  /\ \A k \in Reliable : MaxSend[k] < IdMod

Ids == 0 .. IdMod - 1
Message == [channel : Kinds, id : Ids]

VARIABLES
  next_send_id,     \* sender, per channel
  unacked,          \* sender, per reliable channel: ids awaiting acknowledgement
  tried,            \* sender, per reliable channel: those with a `last_sent`
  unreliable_queue, \* sender, per best-effort channel: ids for the next packet
  in_packet,        \* sender: the reliable messages recorded under each packet
  next_expect_id,   \* receiver, per reliable channel: first id not yet contiguous
  ordered_buffer,   \* receiver: ordered ids held back behind a gap
  seen_above,       \* receiver: unordered ids delivered above the contiguous run
  highest_seen,     \* receiver: newest sequenced id delivered, or NoneSeen
  queued,           \* history, per channel: how many messages were queued
  delivered         \* history, per channel: the ids delivered, in order

channelSending == <<next_send_id, unacked, tried, unreliable_queue, in_packet, queued>>
channelReceiving == <<next_expect_id, ordered_buffer, seen_above, highest_seen, delivered>>
channelVars == <<next_send_id, unacked, tried, unreliable_queue, in_packet, queued,
                 next_expect_id, ordered_buffer, seen_above, highest_seen, delivered>>

NoneSeen == -1
Entry == [channel : Reliable, id : Ids]

ChannelTypeOK ==
  /\ next_send_id \in [Kinds -> Ids]
  /\ unacked \in [Reliable -> SUBSET Ids]
  /\ tried \in [Reliable -> SUBSET Ids]
  /\ unreliable_queue \in [BestEffort -> SUBSET Ids]
  /\ in_packet \in [PacketSeqs -> SUBSET Entry]
  /\ next_expect_id \in [Reliable -> Nat]
  /\ ordered_buffer \subseteq Ids
  /\ seen_above \subseteq Ids
  /\ highest_seen \in Ids \cup {NoneSeen}
  /\ queued \in [Kinds -> Nat]
  /\ delivered \in [Kinds -> Seq(Ids)]

ChannelInit ==
  /\ next_send_id = [k \in Kinds |-> 0]
  /\ unacked = [k \in Reliable |-> {}]
  /\ tried = [k \in Reliable |-> {}]
  /\ unreliable_queue = [k \in BestEffort |-> {}]
  /\ in_packet = [s \in PacketSeqs |-> {}]
  /\ next_expect_id = [k \in Reliable |-> 0]
  /\ ordered_buffer = {}
  /\ seen_above = {}
  /\ highest_seen = NoneSeen
  /\ queued = [k \in Kinds |-> 0]
  /\ delivered = [k \in Kinds |-> <<>>]

-----------------------------------------------------------------------------
(* send                                                                    *)
QueueMessage(k) ==
  LET id == next_send_id[k]
  IN /\ queued[k] < MaxSend[k]
     /\ next_send_id' = [next_send_id EXCEPT ![k] = (id + 1) % IdMod]
     /\ queued' = [queued EXCEPT ![k] = @ + 1]
     /\ IF k \in Reliable
        THEN /\ unacked' = [unacked EXCEPT ![k] = @ \cup {id}]
             /\ tried' = [tried EXCEPT ![k] = @ \ {id}]
             /\ UNCHANGED unreliable_queue
        ELSE /\ unreliable_queue' = [unreliable_queue EXCEPT ![k] = @ \cup {id}]
             /\ UNCHANGED <<unacked, tried>>
     /\ UNCHANGED in_packet

(* The reliable ids one packet may take from channel k: ids are visited in *)
(* order, those never tried are all due, any of the others may be, and the *)
(* first due id that does not fit ends the channel's turn.                 *)
Batches(k) ==
  {B \in SUBSET unacked[k] :
     \A id \in B, x \in unacked[k] \ tried[k] : x < id => x \in B}

Tag(k, ids) == {[channel |-> k, id |-> id] : id \in ids}

(* The reliable entries of a packet that takes these batches: `recorded`.  *)
Recorded(ordered, unordered) ==
  Tag(ReliableOrdered, ordered) \cup Tag(ReliableUnordered, unordered)

(* packetize, sending the reliable batches and, of the best-effort queues, *)
(* the ids that fit; the rest of those queues is dropped.                  *)
Packetize(seq, ordered, unordered) ==
  LET recorded == Recorded(ordered, unordered)
  IN /\ ordered \in Batches(ReliableOrdered)
     /\ unordered \in Batches(ReliableUnordered)
     /\ tried' = [k \in Reliable |->
                    tried[k] \cup IF k = ReliableOrdered THEN ordered ELSE unordered]
     /\ unreliable_queue' = [k \in BestEffort |-> {}]
     /\ in_packet' = IF recorded = {} THEN in_packet
                     ELSE [in_packet EXCEPT ![seq] = recorded]
     /\ UNCHANGED <<next_send_id, unacked, queued>>

(* The best-effort messages a packet may carry.                            *)
BestEffortLoads ==
  {Tag(Unreliable, u) \cup Tag(UnreliableSequenced, s) :
     u \in SUBSET unreliable_queue[Unreliable],
     s \in SUBSET unreliable_queue[UnreliableSequenced]}

(* Mutants: an id retired whatever its channel; the messages of the packet *)
(* not retired; its record not removed.                                    *)
OnPacketsAckedAnyChannel(seqs) ==
  LET retired == {id \in Ids : \E s \in seqs : \E e \in in_packet[s] : e.id = id}
  IN /\ unacked' = [k \in Reliable |-> unacked[k] \ retired]
     /\ tried' = [k \in Reliable |-> tried[k] \ retired]
     /\ in_packet' = [s \in PacketSeqs |-> IF s \in seqs THEN {} ELSE in_packet[s]]
     /\ UNCHANGED <<next_send_id, unreliable_queue, queued>>
OnPacketsAckedRetryForever(seqs) ==
  /\ in_packet' = [s \in PacketSeqs |-> IF s \in seqs THEN {} ELSE in_packet[s]]
  /\ UNCHANGED <<next_send_id, unacked, tried, unreliable_queue, queued>>
OnPacketsAckedKeepRecord(seqs) ==
  LET retired(k) == {id \in Ids : \E s \in seqs : [channel |-> k, id |-> id] \in in_packet[s]}
  IN /\ unacked' = [k \in Reliable |-> unacked[k] \ retired(k)]
     /\ tried' = [k \in Reliable |-> tried[k] \ retired(k)]
     /\ UNCHANGED <<next_send_id, unreliable_queue, in_packet, queued>>

(* on_packet_acked, called for every packet of the set seqs.               *)
OnPacketsAcked(seqs) ==
  LET retired(k) == {id \in Ids : \E s \in seqs : [channel |-> k, id |-> id] \in in_packet[s]}
  IN /\ unacked' = [k \in Reliable |-> unacked[k] \ retired(k)]
     /\ tried' = [k \in Reliable |-> tried[k] \ retired(k)]
     /\ in_packet' = [s \in PacketSeqs |-> IF s \in seqs THEN {} ELSE in_packet[s]]
     /\ UNCHANGED <<next_send_id, unreliable_queue, queued>>

OnPacketLost(seq) ==
  /\ in_packet' = [in_packet EXCEPT ![seq] = {}]
  /\ UNCHANGED <<next_send_id, unacked, tried, unreliable_queue, queued>>

-----------------------------------------------------------------------------
(* on_receive, one operator per channel.                                   *)

Deliver(k, ids) == delivered' = [delivered EXCEPT ![k] = @ \o ids]

ReceiveUnreliable(id) ==
  /\ Deliver(Unreliable, <<id>>)
  /\ UNCHANGED <<next_expect_id, ordered_buffer, seen_above, highest_seen>>

IsNewerId(id, h) ==
  LET d == (id - h) % IdMod IN d # 0 /\ d < (IdMod - 1) \div 2

(* Mutant: stale messages are not dropped.                                 *)
ReceiveSequencedAny(id) ==
  /\ highest_seen' = id
  /\ Deliver(UnreliableSequenced, <<id>>)
  /\ UNCHANGED <<next_expect_id, ordered_buffer, seen_above>>

ReceiveSequenced(id) ==
  /\ IF highest_seen = NoneSeen \/ IsNewerId(id, highest_seen)
     THEN /\ highest_seen' = id
          /\ Deliver(UnreliableSequenced, <<id>>)
     ELSE UNCHANGED <<highest_seen, delivered>>
  /\ UNCHANGED <<next_expect_id, ordered_buffer, seen_above>>

(* The first id from `from` on that is not held: where the release loops   *)
(* stop.                                                                   *)
FirstGap(from, held) ==
  CHOOSE n \in from .. IdMod :
    n \notin held /\ \A i \in from .. n - 1 : i \in held

ReceiveUnordered(id) ==
  LET k == ReliableUnordered
      n == FirstGap(id + 1, seen_above)
  IN /\ \/ /\ id < next_expect_id[k] \/ id \in seen_above
           /\ UNCHANGED <<next_expect_id, seen_above, delivered>>
        \/ /\ id = next_expect_id[k] /\ id \notin seen_above
           /\ Deliver(k, <<id>>)
           /\ next_expect_id' = [next_expect_id EXCEPT ![k] = n]
           /\ seen_above' = seen_above \ (id .. n - 1)
        \/ /\ id > next_expect_id[k] /\ id \notin seen_above
           /\ Deliver(k, <<id>>)
           /\ seen_above' = IF Cardinality(seen_above) < MaxBuffered
                            THEN seen_above \cup {id} ELSE seen_above
           /\ UNCHANGED next_expect_id
     /\ UNCHANGED <<ordered_buffer, highest_seen>>

(* Mutant: the released messages stay in the buffer.                       *)
ReceiveOrderedKeeps(id) ==
  LET k == ReliableOrdered
      n == FirstGap(id + 1, ordered_buffer)
  IN /\ \/ /\ id < next_expect_id[k]
           /\ UNCHANGED <<next_expect_id, ordered_buffer, delivered>>
        \/ /\ id = next_expect_id[k]
           /\ Deliver(k, [i \in 1 .. n - id |-> id + i - 1])
           /\ next_expect_id' = [next_expect_id EXCEPT ![k] = n]
           /\ UNCHANGED ordered_buffer
        \/ /\ id > next_expect_id[k]
           /\ ordered_buffer' = IF Cardinality(ordered_buffer) < MaxBuffered
                                THEN ordered_buffer \cup {id} ELSE ordered_buffer
           /\ UNCHANGED <<next_expect_id, delivered>>
     /\ UNCHANGED <<seen_above, highest_seen>>

ReceiveOrdered(id) ==
  LET k == ReliableOrdered
      n == FirstGap(id + 1, ordered_buffer)
  IN /\ \/ /\ id < next_expect_id[k] \/ id \in ordered_buffer
           /\ UNCHANGED <<next_expect_id, ordered_buffer, delivered>>
        \/ /\ id = next_expect_id[k] /\ id \notin ordered_buffer
           /\ Deliver(k, [i \in 1 .. n - id |-> id + i - 1])
           /\ next_expect_id' = [next_expect_id EXCEPT ![k] = n]
           /\ ordered_buffer' = ordered_buffer \ (id .. n - 1)
        \/ /\ id > next_expect_id[k] /\ id \notin ordered_buffer
           /\ ordered_buffer' = IF Cardinality(ordered_buffer) < MaxBuffered
                                THEN ordered_buffer \cup {id} ELSE ordered_buffer
           /\ UNCHANGED <<next_expect_id, delivered>>
     /\ UNCHANGED <<seen_above, highest_seen>>

(* on_receive                                                              *)
OnReceiveMessage(m) ==
  \/ m.channel = Unreliable /\ ReceiveUnreliable(m.id)
  \/ m.channel = UnreliableSequenced /\ ReceiveSequenced(m.id)
  \/ m.channel = ReliableUnordered /\ ReceiveUnordered(m.id)
  \/ m.channel = ReliableOrdered /\ ReceiveOrdered(m.id)

(* The order in which packetize writes messages into a packet, which is    *)
(* the order in which the receiver reads them back.                        *)
PackOrder == <<ReliableOrdered, ReliableUnordered, UnreliableSequenced, Unreliable>>
PackRank(k) == CHOOSE i \in 1 .. 4 : PackOrder[i] = k
PackedBefore(m, x) ==
  \/ PackRank(m.channel) < PackRank(x.channel)
  \/ m.channel = x.channel /\ m.id < x.id
=============================================================================
