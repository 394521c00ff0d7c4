------------------------------ MODULE Connection ------------------------------
(***************************************************************************)
(* One direction of a connection with everything in place: messages go     *)
(* through a ChannelSet into packets numbered by an AckTracker, packets    *)
(* cross a network that loses, duplicates and reorders them, the peer's    *)
(* AckTracker sees the sequences and its ChannelSet the messages, and the  *)
(* headers the peer sends back tell the first AckTracker which packets     *)
(* arrived and hence the first ChannelSet which messages to retire.        *)
(*                                                                         *)
(* The crates leave this wiring to their user; it is the one their field   *)
(* docs describe ("which messages went out in each packet, so an ack can   *)
(* retire them", channel.rs:186) and wire-protocol.md's header requires.   *)
(* No sequence is used twice: AckExchange is about the wrap.               *)
(***************************************************************************)
EXTENDS AckTracker, ChannelSet

CONSTANTS
  MaxPackets,   \* bound on the packets sent
  MaxHeaders,   \* bound on the headers in flight
  MaxCopies,    \* copies the network makes of one packet
  SpeaksFirst,  \* may the receiving peer send a packet before it heard any?
  Warmup        \* packets sent before the application queues a message

ASSUME ConnectionAssumption ==
  /\ MaxPackets \in Nat /\ MaxPackets < SeqCount
  /\ MaxHeaders \in Nat
  /\ MaxCopies \in Nat \ {0}
  /\ SpeaksFirst \in BOOLEAN
  /\ Warmup \in Nat
  /\ PacketSeqs = Seqs

VARIABLES
  packets,   \* packets in flight, with the copies still to arrive
  headers,   \* the peer's headers in flight
  inbox,     \* messages of the packet being handed to on_receive
  arrived    \* history: sequences that reached the peer

netVars == <<packets, headers, inbox, arrived>>
vars == <<ackVars, channelVars, packets, headers, inbox, arrived>>

Packet == [seq : Seqs, msgs : SUBSET Message, copies : 1 .. MaxCopies]
Header == [ack : Seqs, bits : SUBSET (0 .. AckBits - 1)]

TypeOK ==
  /\ AckTypeOK
  /\ ChannelTypeOK
  /\ packets \subseteq Packet
  /\ headers \subseteq Header
  /\ inbox \subseteq Message
  /\ arrived \subseteq Seqs

Init ==
  /\ AckInit
  /\ ChannelInit
  /\ packets = {} /\ headers = {} /\ inbox = {} /\ arrived = {}

Queue(k) ==
  /\ next_sequence >= Warmup
  /\ QueueMessage(k)
  /\ UNCHANGED <<channelReceiving, ackVars, netVars>>

(* begin_send allocates the sequence, packetize fills the packet.          *)
SendPacket(ordered, unordered) ==
  /\ next_sequence < MaxPackets
  /\ BeginSend
  /\ Packetize(next_sequence, ordered, unordered)
  /\ \E load \in BestEffortLoads, copies \in 1 .. MaxCopies :
       packets' = packets \cup {[seq |-> next_sequence,
                                 msgs |-> Recorded(ordered, unordered) \cup load,
                                 copies |-> copies]}
  /\ UNCHANGED <<receiving, channelReceiving, headers, inbox, arrived>>

Less(p) ==
  (packets \ {p}) \cup
    IF p.copies = 1 THEN {} ELSE {[p EXCEPT !.copies = @ - 1]}

ReceivePacket(p) ==
  /\ p \in packets
  /\ OnReceive(p.seq)
  /\ arrived' = arrived \cup {p.seq}
  /\ inbox' = p.msgs
  /\ packets' = Less(p)
  /\ UNCHANGED <<sending, channelVars, headers>>

HandOver ==
  \E m \in inbox :
    /\ \A x \in inbox \ {m} : PackedBefore(m, x)
    /\ OnReceiveMessage(m)
    /\ inbox' = inbox \ {m}
    /\ UNCHANGED <<ackVars, channelSending, packets, headers, arrived>>

DropPacket(p) ==
  /\ p \in packets
  /\ packets' = Less(p)
  /\ UNCHANGED <<ackVars, channelVars, headers, inbox, arrived>>

(* Every packet of the peer carries its current header.                    *)
SendHeader ==
  /\ Cardinality(headers) < MaxHeaders
  /\ SpeaksFirst \/ remote_highest # None
  /\ headers' = headers \cup {AckHeader}
  /\ UNCHANGED <<ackVars, channelVars, packets, inbox, arrived>>

(* A header is read; its copy may arrive again.                            *)
ReceiveHeader(h) ==
  /\ h \in headers
  /\ OnAckHeader(h)
  /\ headers' \in {headers, headers \ {h}}
  /\ UNCHANGED <<receiving, channelVars, packets, inbox, arrived>>

DropHeader(h) ==
  /\ h \in headers
  /\ headers' = headers \ {h}
  /\ UNCHANGED <<ackVars, channelVars, packets, inbox, arrived>>

(* drain_newly_acked, and on_packet_acked for each sequence taken.         *)
Drain ==
  /\ newly_acked # {}
  /\ DrainNewlyAcked
  /\ OnPacketsAcked(newly_acked)
  /\ UNCHANGED <<receiving, channelReceiving, netVars>>

(* timed_out names a packet and the caller reports it to on_packet_lost.   *)
GiveUp(s) ==
  /\ s \in MayTimeOut
  /\ in_packet[s] # {}
  /\ OnPacketLost(s)
  /\ UNCHANGED <<ackVars, channelReceiving, netVars>>

Next ==
  \/ HandOver
  \/ /\ inbox = {}
     /\ \/ \E k \in Kinds : Queue(k)
        \/ \E o \in SUBSET unacked[ReliableOrdered], u \in SUBSET unacked[ReliableUnordered] :
             SendPacket(o, u)
        \/ \E p \in packets : ReceivePacket(p) \/ DropPacket(p)
        \/ SendHeader
        \/ \E h \in headers : ReceiveHeader(h) \/ DropHeader(h)
        \/ Drain
        \/ \E s \in Seqs : GiveUp(s)

Spec == Init /\ [][Next]_vars

-----------------------------------------------------------------------------
(* The channels under their abstract acknowledgement layer: the acks on    *)
(* their way are the recorded packets that arrived.                        *)
OnTheWay == {s \in arrived : in_packet[s] # {}}
Exchange == INSTANCE ChannelExchange WITH next_packet <- next_sequence, acks <- OnTheWay

(* The AckTracker is the acknowledgement layer the channels rely on: what  *)
(* it reports to on_packet_acked always arrived, so the two together are   *)
(* the exchange whose deliveries ChannelExchange is about.                 *)
AcksAreTruthful == Exchange!Spec

(* No reliable message is retired by an acknowledgement before the peer    *)
(* has it (see ChannelExchange), with the real header in between.          *)
NothingForgotten == Exchange!NothingForgotten

(* What the sender has marked acknowledged really arrived, except that     *)
(* sequence 0 is acknowledged by any header of a peer that heard nothing.  *)
AckedArrived == acked \ {0} \subseteq arrived

(* A packet the tracker has retired leaves no record behind once the acks  *)
(* are drained: in_packet does not grow with packets that were delivered.  *)
RecordsReclaimed == \A s \in acked \ newly_acked : in_packet[s] = {}

-----------------------------------------------------------------------------
(* Values of the constants for TLC.                                        *)
Sends(ro, ru) ==
  [k \in Kinds |-> CASE k = ReliableOrdered -> ro
                     [] k = ReliableUnordered -> ru
                     [] OTHER -> 0]

MCPacketSeqs == 0 .. SeqCount - 1
OneOrdered == Sends(1, 0)
OrderedAndUnordered == Sends(1, 1)
=============================================================================
