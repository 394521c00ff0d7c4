----------------------------- MODULE AckExchange -----------------------------
(***************************************************************************)
(* One direction of a connection as the acknowledgement layer sees it: the *)
(* sending half and the receiving half of two AckTrackers joined by a      *)
(* network that loses, duplicates and reorders both the packets and the    *)
(* headers that acknowledge them.                                          *)
(*                                                                         *)
(* Packets are numbered 0, 1, 2, ... by the history variable `begun`; the  *)
(* code only ever sees the number modulo SeqCount.  A 16-bit sequence cannot *)
(* tell a packet from the one sent SeqCount packets later, so the network is *)
(* given a Lifetime, in packets: 18 minutes of delay at 60 packets per     *)
(* second (sequence.rs:3-6) is not a delay but a loss.                     *)
(***************************************************************************)
EXTENDS AckTracker, FiniteSets, FiniteSetsExt

CONSTANTS
  MaxPackets,   \* bound on the packets sent
  MaxLost,      \* packets lost in a row, at most
  MaxSlotLost,  \* packets of one slot of the rings lost in a row, at most
  MaxHeaders,   \* bound on the headers in flight
  Lifetime,     \* newer packets after which one in flight is gone
  SpeaksFirst   \* may the receiving peer send a packet before it heard any?

ASSUME ExchangeAssumption ==
  /\ MaxPackets \in Nat /\ MaxHeaders \in Nat
  /\ MaxLost \in Nat /\ MaxSlotLost \in Nat
  /\ Lifetime \in Nat \ {0}
  /\ SpeaksFirst \in BOOLEAN

VARIABLES
  packets,    \* numbers of the packets in flight
  headers,    \* headers in flight, each with `born`, the packets begun before it
  begun,      \* history: packets sent so far
  arrived     \* history: numbers of the packets that reached the peer

netVars == <<packets, headers, begun, arrived>>
vars == <<ackVars, netVars>>

SeqOf(n) == n % SeqCount

Header == [ack : Seqs, bits : SUBSET (0 .. AckBits - 1), born : 0 .. MaxPackets]

TypeOK ==
  /\ AckTypeOK
  /\ packets \subseteq 0 .. begun - 1
  /\ headers \subseteq Header
  /\ begun \in 0 .. MaxPackets
  /\ arrived \subseteq 0 .. begun - 1

Init ==
  /\ AckInit
  /\ packets = {} /\ headers = {} /\ arrived = {}
  /\ begun = 0

(* Everything in flight is younger than the lifetime when packet n leaves. *)
Fresh(n) ==
  /\ \A p \in packets : n - p < Lifetime
  /\ \A h \in headers : n - h.born < Lifetime

SendPacket ==
  /\ begun < MaxPackets
  /\ Fresh(begun)
  /\ BeginSend
  /\ packets' = packets \cup {begun}
  /\ begun' = begun + 1
  /\ UNCHANGED <<remote_highest, received, headers, arrived>>

(* The copy in flight may stay behind, to arrive once more.                *)
ReceivePacket(n) ==
  /\ n \in packets
  /\ OnReceive(SeqOf(n))
  /\ arrived' = arrived \cup {n}
  /\ packets' \in {packets, packets \ {n}}
  /\ UNCHANGED <<sending, headers, begun>>

(* The packets that will never arrive.                                     *)
Lost == (0 .. begun - 1) \ (arrived \cup packets)

Tolerable(missing) ==
  \A n \in missing :
    /\ \E k \in 1 .. MaxLost : n + k \notin missing
    /\ \E k \in 1 .. MaxSlotLost : n + k * Capacity \notin missing

DropPacket(n) ==
  /\ n \in packets
  /\ n \in arrived \/ Tolerable(Lost \cup {n})
  /\ packets' = packets \ {n}
  /\ UNCHANGED <<ackVars, headers, begun, arrived>>

(* Every packet of the receiving peer carries its current header.          *)
SendHeader ==
  /\ Cardinality(headers) < MaxHeaders
  /\ SpeaksFirst \/ remote_highest # None
  /\ headers' = headers \cup
       {[ack |-> AckHeader.ack, bits |-> AckHeader.bits, born |-> begun]}
  /\ UNCHANGED <<ackVars, packets, begun, arrived>>

ReceiveHeader(h) ==
  /\ h \in headers
  /\ OnAckHeader(h)
  /\ headers' \in {headers, headers \ {h}}
  /\ UNCHANGED <<receiving, packets, begun, arrived>>

DropHeader(h) ==
  /\ h \in headers
  /\ headers' = headers \ {h}
  /\ UNCHANGED <<ackVars, packets, begun, arrived>>

Drain ==
  /\ newly_acked # {}
  /\ DrainNewlyAcked
  /\ UNCHANGED <<receiving, netVars>>

Next ==
  \/ SendPacket \/ SendHeader \/ Drain
  \/ \E n \in packets : ReceivePacket(n) \/ DropPacket(n)
  \/ \E h \in headers : ReceiveHeader(h) \/ DropHeader(h)

Spec == Init /\ [][Next]_vars

-----------------------------------------------------------------------------
(* The packet a remembered sequence stands for: the last one sent with it. *)
PacketOf(s) == Max({n \in 0 .. begun - 1 : SeqOf(n) = s})

(* What AckTracker tells the layers above is true: a sequence marked as    *)
(* acknowledged (it is reported at that step) names a packet that did      *)
(* reach the peer.  Channels retire messages and replication picks         *)
(* baselines on the strength of it (ack.rs:8-14), wrap or no wrap.         *)
AckedPacketsArrived ==
  \A s \in acked : PacketOf(s) \in arrived

(* The redundancy of the bitfield: the header sent now acknowledges every  *)
(* packet among the newest AckBits + 1 that has arrived, so losing the     *)
(* headers before it loses nothing.  A late packet storing itself over a   *)
(* newer one in the `received` ring would break it.                        *)
HeaderIsComplete ==
  \A n \in arrived : Max(arrived) - n <= AckBits => SeqOf(n) \in Acknowledges(AckHeader)

(* A packet acknowledged stays acknowledged until its slot is taken by a   *)
(* later packet: no late, duplicated or reordered header takes it back, so *)
(* no packet can be reported to the layers above twice (ack.rs:121-126).   *)
ReportedOnce ==
  [][ /\ \A s \in acked : s \in acked' \/ SlotOf(s) = SlotOf(next_sequence)
      /\ \A s \in newly_acked' \ newly_acked : s \notin acked ]_vars
=============================================================================
