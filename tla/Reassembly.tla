------------------------------ MODULE Reassembly ------------------------------
(***************************************************************************)
(* Large messages sent in fragments: a sender that uses message ids again, *)
(* a network that loses, repeats and reorders fragments, and a Reassembler *)
(* at the other end.                                                       *)
(*                                                                         *)
(* Only fragments of messages sent less than Lifetime ago can arrive; any  *)
(* of them may, at any time and any number of times.                       *)
(***************************************************************************)
EXTENDS Reassembler, Sequences
LOCAL INSTANCE TLC

CONSTANTS
  Ids,        \* message ids, used again and again
  Lengths,    \* lengths of messages
  Lifetime,   \* how long a fragment may be under way
  MaxSent,    \* bound on the messages sent
  MaxTime     \* bound on the time

ASSUME ReassemblyAssumption ==
  /\ Lengths \subseteq Nat
  /\ Lifetime \in Nat \ {0} /\ MaxSent \in Nat /\ MaxTime \in Nat

VARIABLES
  now,     \* both peers' clock
  sent     \* history: the messages sent, in order

vars == <<reassemblerVars, now, sent>>

Sent == [id : Ids, len : Lengths, at : 0 .. MaxTime]

Partial(e) ==
  /\ e.count \in 1 .. MaxFragments
  /\ DOMAIN e.parts \subseteq 0 .. e.count - 1
  /\ \A i \in DOMAIN e.parts : e.parts[i].msg \in 1 .. Len(sent) /\ e.parts[i].piece \in Nat
  /\ e.received \in 1 .. e.count
  /\ e.bytes \in Nat
  /\ e.first_seen \in 0 .. now

TypeOK ==
  /\ DOMAIN partial \subseteq Ids
  /\ \A id \in DOMAIN partial : Partial(partial[id])
  /\ total_bytes \in Nat
  /\ now \in 0 .. MaxTime
  /\ sent \in Seq(Sent)

Init ==
  /\ ReassemblerInit
  /\ now = 0
  /\ sent = << >>

(* An id is used again with the same number of fragments only when nothing *)
(* of the message before can still arrive or be waiting.                   *)
MayUse(id, len) ==
  \A n \in 1 .. Len(sent) :
    sent[n].id = id /\ Pieces(sent[n].len) = Pieces(len)
      => now - sent[n].at >= Lifetime + Timeout - 1

Send(id, len) ==
  /\ Len(sent) < MaxSent
  /\ MayUse(id, len)
  /\ sent' = Append(sent, [id |-> id, len |-> len, at |-> now])
  /\ UNCHANGED <<reassemblerVars, now>>

Arrive(n, f) ==
  /\ now - sent[n].at < Lifetime
  /\ Push(f, now)
  /\ UNCHANGED <<now, sent>>

Tick ==
  /\ now < MaxTime
  /\ now' = now + 1
  /\ UNCHANGED <<reassemblerVars, sent>>

(* The owner may also expire and clear between fragments.                  *)
CallExpire == Expire(now) /\ UNCHANGED <<now, sent>>
CallClear == Clear /\ UNCHANGED <<now, sent>>

Next ==
  \/ \E id \in Ids, len \in Lengths : Send(id, len)
  \/ \E n \in 1 .. Len(sent) : \E f \in Fragments(n, sent[n].id, sent[n].len) : Arrive(n, f)
  \/ Tick \/ CallExpire \/ CallClear

Spec == Init /\ [][Next]_vars

-----------------------------------------------------------------------------
(* What is returned is one of the messages sent, whole and in order, even  *)
(* when fragments of an earlier message with the same id still wait or are *)
(* still under way (fragment.rs:207-214 drops it when their counts differ, *)
(* expire when they are the same).                                         *)
Whole(n) == [i \in 0 .. Pieces(sent[n].len) - 1 |-> [msg |-> n, piece |-> i]]
WholeMessagesOnly == delivered \subseteq {Whole(n) : n \in 1 .. Len(sent)}

(* The books balance whatever the order of duplicates, disagreements,      *)
(* completions and timeouts: the bytes counted are the bytes held, within  *)
(* the limits, so that no leak ever shuts the reassembler                  *)
(* (fragment.rs:182, 218).                                                 *)
BytesHeld(e) ==
  Pairs([i \in DOMAIN e.parts |->
           1 .. PieceBytes(sent[e.parts[i].msg].len, e.parts[i].piece)])
BytesAreAccounted ==
  /\ total_bytes = Cardinality(Pairs([id \in DOMAIN partial |-> BytesHeld(partial[id])]))
  /\ total_bytes <= MaxTotalBytes
  /\ Cardinality(DOMAIN partial) <= MaxMessages

Stays(id) ==
  /\ id \in DOMAIN partial'
  /\ \A i \in DOMAIN partial[id].parts :
       i \in DOMAIN partial'[id].parts /\ partial'[id].parts[i] = partial[id].parts[i]

Returned(id) ==
  \E p \in delivered' : \A i \in DOMAIN partial[id].parts :
    i \in DOMAIN p /\ p[i] = partial[id].parts[i]

Disputed(id) ==
  \E n, m \in 1 .. Len(sent) :
    sent[n].id = id /\ sent[m].id = id /\ Pieces(sent[n].len) # Pieces(sent[m].len)

Accounted ==
  \A id \in DOMAIN partial :
    \/ Stays(id) \/ now - partial[id].first_seen >= Timeout
    \/ Returned(id) \/ Disputed(id) \/ partial' = << >>

(* A fragment that was taken is kept until the message is complete, dropped *)
(* for a disagreement or for its age, or cleared: no other fragment and no  *)
(* lack of room costs it.                                                   *)
TakenIsKept == [][Accounted]_vars

(* For TLC: the message ids are interchangeable. *)
Symmetry == Permutations(Ids)
=============================================================================
