--------------------------- MODULE ChannelExchange ---------------------------
(***************************************************************************)
(* One direction of a connection as the channels see it: the sending half  *)
(* of a ChannelSet, a network that loses, duplicates and reorders packets, *)
(* the receiving half of the peer's, and an acknowledgement layer that     *)
(* reports packets which really arrived (the module Connection puts the    *)
(* AckTracker there).  It is the exchange of channel.rs:652-684 with the   *)
(* network free instead of scripted.                                       *)
(*                                                                         *)
(* A sequence is used again only when nothing of its previous packet is in *)
(* flight or on record: with 2^16 sequences the caller has reported that   *)
(* packet lost or acked long before.                                       *)
(***************************************************************************)
EXTENDS ChannelSet

CONSTANTS
  SeqCount,       \* size of the packet sequence space
  MaxCopies     \* copies the network makes of one packet

ASSUME ChannelExchangeAssumption ==
  /\ SeqCount \in Nat \ {0}
  /\ PacketSeqs = 0 .. SeqCount - 1
  /\ MaxCopies \in Nat \ {0}

VARIABLES
  next_packet,  \* sequence of the next packet
  packets,      \* packets in flight, with the copies still to arrive
  inbox,        \* messages of the packet being handed to on_receive
  acks          \* recorded packets that arrived and whose ack is on its way

exchangeVars == <<next_packet, packets, inbox, acks>>
vars == <<channelVars, next_packet, packets, inbox, acks>>

Packet == [seq : PacketSeqs, msgs : SUBSET Message, copies : 1 .. MaxCopies]

TypeOK ==
  /\ ChannelTypeOK
  /\ next_packet \in PacketSeqs
  /\ packets \subseteq Packet
  /\ inbox \subseteq Message
  /\ acks \subseteq PacketSeqs

Init ==
  /\ ChannelInit
  /\ next_packet = 0
  /\ packets = {} /\ inbox = {} /\ acks = {}

Queue(k) ==
  /\ QueueMessage(k)
  /\ UNCHANGED <<channelReceiving, exchangeVars>>

(* The sequence is free of its previous packet.                            *)
Unused(s) == in_packet[s] = {} /\ \A p \in packets : p.seq # s

SendPacket(ordered, unordered) ==
  /\ Unused(next_packet)
  /\ Packetize(next_packet, ordered, unordered)
  /\ \E load \in BestEffortLoads, copies \in 1 .. MaxCopies :
       packets' = packets \cup {[seq |-> next_packet,
                                 msgs |-> Recorded(ordered, unordered) \cup load,
                                 copies |-> copies]}
  /\ next_packet' = (next_packet + 1) % SeqCount
  /\ UNCHANGED <<channelReceiving, inbox, acks>>

(* The network without one copy of p.                                      *)
Less(p) ==
  (packets \ {p}) \cup
    IF p.copies = 1 THEN {} ELSE {[p EXCEPT !.copies = @ - 1]}

(* A packet is read; its messages are handed over one by one (HandOver)    *)
(* before anything else happens: the receiver's loop is not interrupted,   *)
(* and no step of the sender or of the network can see how far it is.      *)
(* Acks of packets without a record are no-ops.                            *)
ReceivePacket(p) ==
  /\ p \in packets
  /\ inbox' = p.msgs
  /\ packets' = Less(p)
  /\ acks' = IF in_packet[p.seq] = {} THEN acks ELSE acks \cup {p.seq}
  /\ UNCHANGED <<channelVars, next_packet>>

HandOver ==
  \E m \in inbox :
    /\ \A x \in inbox \ {m} : PackedBefore(m, x)
    /\ OnReceiveMessage(m)
    /\ inbox' = inbox \ {m}
    /\ UNCHANGED <<channelSending, next_packet, packets, acks>>

DropPacket(p) ==
  /\ p \in packets
  /\ packets' = Less(p)
  /\ UNCHANGED <<channelVars, next_packet, inbox, acks>>

(* One header acknowledges several packets; several headers may be lost.   *)
ReceiveAcks(seqs) ==
  /\ seqs # {} /\ seqs \subseteq acks
  /\ OnPacketsAcked(seqs)
  /\ acks' = acks \ seqs
  /\ UNCHANGED <<channelReceiving, next_packet, packets, inbox>>

(* The caller gives a packet up after a timeout; a late ack finds nothing. *)
GiveUp(s) ==
  /\ in_packet[s] # {}
  /\ OnPacketLost(s)
  /\ acks' = acks \ {s}
  /\ UNCHANGED <<channelReceiving, next_packet, packets, inbox>>

Next ==
  \/ HandOver
  \/ /\ inbox = {}
     /\ \/ \E k \in Kinds : Queue(k)
        \/ \E o \in SUBSET unacked[ReliableOrdered], u \in SUBSET unacked[ReliableUnordered] :
             SendPacket(o, u)
        \/ \E p \in packets : ReceivePacket(p) \/ DropPacket(p)
        \/ \E seqs \in SUBSET acks : ReceiveAcks(seqs)
        \/ \E s \in PacketSeqs : GiveUp(s)

Spec == Init /\ [][Next]_vars

-----------------------------------------------------------------------------
(* Fairness.  The caller packetizes, reads packets and reports timeouts on *)
(* every tick; packets do not stay in flight for ever; a retry delay is    *)
(* finite, so a message that stays unacknowledged is put into packets      *)
(* again and again; and of the packets that carry it, and of their acks,   *)
(* not every last one is lost or later than the timeout with which the     *)
(* caller gives the packet up.  SF where other steps may intervene.        *)
Carrying(k, id) ==
  /\ inbox = {}
  /\ \E o \in SUBSET unacked[ReliableOrdered], u \in SUBSET unacked[ReliableUnordered] :
       /\ id \in IF k = ReliableOrdered THEN o ELSE u
       /\ SendPacket(o, u)
Arriving(m) ==
  /\ inbox = {}
  /\ \E p \in packets : m \in p.msgs \cap in_packet[p.seq] /\ ReceivePacket(p)
Retiring(m) ==
  /\ inbox = {}
  /\ \E seqs \in SUBSET acks : (\E s \in seqs : m \in in_packet[s]) /\ ReceiveAcks(seqs)

Outstanding == {m \in Entry : m.id < MaxSend[m.channel]}

Fairness ==
  /\ WF_vars(HandOver)
  /\ \A s \in PacketSeqs :
       /\ SF_vars(inbox = {} /\ GiveUp(s))
       /\ SF_vars(inbox = {} /\ \E p \in packets :
                    p.seq = s /\ (DropPacket(p) \/ ReceivePacket(p)))
  /\ \A m \in Outstanding :
       /\ SF_vars(Carrying(m.channel, m.id))
       /\ SF_vars(Arriving(m))
       /\ SF_vars(Retiring(m))

FairSpec == Spec /\ Fairness

-----------------------------------------------------------------------------
Came(k) == {delivered[k][i] : i \in 1 .. Len(delivered[k])}

(* The receiver has message id of channel k, or is about to accept it.     *)
Has(k, id) ==
  \/ id \in Came(k)
  \/ k = ReliableOrdered /\ id \in ordered_buffer
  \/ [channel |-> k, id |-> id] \in inbox

(* Nothing is forgotten: at every moment a reliable message is either      *)
(* still scheduled for retransmission by the sender or safely with the     *)
(* receiver.  An ack that retires a message the receiver does not have, or *)
(* a receiver that drops a message it has acknowledged, loses it for good. *)
NothingForgotten ==
  \A k \in Reliable : \A id \in 0 .. queued[k] - 1 : id \in unacked[k] \/ Has(k, id)

(* The buffers hold only what lies beyond the gap, so that closing the gap *)
(* empties them; entries left behind would fill them up to the cap and     *)
(* stop the channel.                                                       *)
BuffersBeyondGap ==
  /\ \A id \in ordered_buffer : id > next_expect_id[ReliableOrdered]
  /\ \A id \in seen_above : id > next_expect_id[ReliableUnordered]

(* The four channels implement what they promise.                          *)
Promise == INSTANCE ReliableDelivery WITH
             Ordered <- ReliableOrdered, Unordered <- ReliableUnordered,
             Sequenced <- UnreliableSequenced
Delivers == Promise!Spec

(* Every message queued on a reliable channel is delivered (channel.rs:28, *)
(* 30), whatever is lost, and the sender finally forgets it.               *)
EventuallyRetired ==
  \A m \in Outstanding : /\ Promise!EventuallyDelivered(m.channel, m.id)
                         /\ []<>(m.id \notin unacked[m.channel])
=============================================================================
