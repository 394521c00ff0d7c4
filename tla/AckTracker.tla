------------------------------ MODULE AckTracker ------------------------------
(***************************************************************************)
(* tempo-reliability/src/ack.rs: the acknowledgement half of a connection. *)
(*                                                                         *)
(* A tracker has a sending half (next_sequence, sent, newly_acked) and a   *)
(* receiving half (remote_highest, received) that share no field, so one   *)
(* DIRECTION of a connection - the sending half of the peer that sends and *)
(* the receiving half of the peer that receives - is closed under every    *)
(* operation, and it is what this module's variables describe.  Send times *)
(* and the round-trip estimator are left out: which packets are acked does *)
(* not depend on them.                                                     *)
(***************************************************************************)
EXTENDS SequenceNumbers

CONSTANT AckBits    \* prior packets covered by the bitfield: ACK_BITS = 32

ASSUME AckBitsAssumption == AckBits \in Nat

VARIABLES
  next_sequence,    \* sender: sequence of the next packet
  sent,             \* sender: sequences still remembered by the `sent` ring
  acked,            \* sender: the remembered sequences whose `acked` flag is set
  newly_acked,      \* sender: acknowledged since the last drain
  remote_highest,   \* receiver: newest sequence received, or None
  received          \* receiver: sequences still held by the `received` ring

sending == <<next_sequence, sent, acked, newly_acked>>
receiving == <<remote_highest, received>>
ackVars == <<next_sequence, sent, acked, newly_acked, remote_highest, received>>

None == -1

AckTypeOK ==
  /\ next_sequence \in Seqs
  /\ sent \subseteq Seqs
  /\ acked \subseteq sent
  /\ newly_acked \subseteq Seqs
  /\ remote_highest \in Seqs \cup {None}
  /\ received \subseteq Seqs

AckInit ==
  /\ next_sequence = 0
  /\ sent = {}
  /\ acked = {}
  /\ newly_acked = {}
  /\ remote_highest = None
  /\ received = {}

(* Sender: the sequence is allocated and its slot taken over, un-acked.    *)
BeginSend ==
  /\ next_sequence' = WrapNext(next_sequence)
  /\ sent' = RingPut(sent, next_sequence)
  /\ acked' = {s \in acked : SlotOf(s) # SlotOf(next_sequence)}
  /\ UNCHANGED newly_acked

(* Receiver: the highest only moves to a newer sequence, the ring takes    *)
(* every sequence.                                                         *)
OnReceive(seq) ==
  /\ remote_highest' = IF remote_highest # None /\ ~IsNewer(seq, remote_highest)
                       THEN remote_highest ELSE seq
  /\ received' = RingPut(received, seq)

(* Mutants, here and in the other modules: the definition that follows     *)
(* with a plausible slip in it, which a property of the runs notices.      *)
(* Here: bit i read as `ack - i`; the bitfield one short.               *)
AckHeaderOffByOne ==
  IF remote_highest = None
  THEN [ack |-> 0, bits |-> {}]
  ELSE [ack  |-> remote_highest,
        bits |-> {i \in 0 .. AckBits - 1 : WrapSub(remote_highest, i) \in received}]
AckHeaderShort ==
  IF remote_highest = None
  THEN [ack |-> 0, bits |-> {}]
  ELSE [ack  |-> remote_highest,
        bits |-> {i \in 0 .. AckBits - 2 :
                    WrapSub(WrapSub(remote_highest, 1), i) \in received}]

(* Receiver: the (ack, ack_bits) pair of an outgoing header, the bitfield  *)
(* as the set of its one bits.                                             *)
AckHeader ==
  IF remote_highest = None
  THEN [ack |-> 0, bits |-> {}]
  ELSE [ack  |-> remote_highest,
        bits |-> {i \in 0 .. AckBits - 1 :
                    WrapSub(WrapSub(remote_highest, 1), i) \in received}]

(* The sequences a header names.                                           *)
Acknowledges(h) ==
  {h.ack} \cup {WrapSub(WrapSub(h.ack, 1), i) : i \in h.bits}

(* Mutant: what is acked already is reported again.                        *)
OnAckHeaderAgain(h) ==
  LET named == Acknowledges(h) \cap sent
  IN /\ acked' = acked \cup named
     /\ newly_acked' = newly_acked \cup named
     /\ UNCHANGED <<next_sequence, sent>>

(* Sender: sequences no longer remembered are ignored, sequences already   *)
(* acked are not reported again.                                           *)
OnAckHeader(h) ==
  LET fresh == (Acknowledges(h) \cap sent) \ acked
  IN /\ acked' = acked \cup fresh
     /\ newly_acked' = newly_acked \cup fresh
     /\ UNCHANGED <<next_sequence, sent>>

(* Sender: the pending acknowledgements are taken.                         *)
DrainNewlyAcked ==
  /\ newly_acked' = {}
  /\ UNCHANGED <<next_sequence, sent, acked>>

(* Sender: what timed_out may return; whether the timeout of a packet has  *)
(* elapsed is the caller's nondeterministic choice.                        *)
MayTimeOut == sent \ acked
=============================================================================
