------------------------ MODULE ChannelExchange_proofs ------------------------
(***************************************************************************)
(* For all constants: type correctness of ChannelExchange, the buffers     *)
(* beyond the gap, NothingForgotten, and the four channels' promise        *)
(* (ChannelExchange implements ReliableDelivery).                          *)
(***************************************************************************)
EXTENDS ChannelExchange, FiniteSetTheorems, WellFoundedInduction, TLAPS

-----------------------------------------------------------------------------
(* The release loops of on_receive stop, at the first id that is not held. *)
LEMMA FirstGapProperties ==
  ASSUME NEW held \in SUBSET Ids, NEW from \in 0 .. IdMod
  PROVE  /\ FirstGap(from, held) \in from .. IdMod
         /\ FirstGap(from, held) \notin held
         /\ \A i \in from .. FirstGap(from, held) - 1 : i \in held
<1> DEFINE T == {n \in Nat : n >= from /\ n \notin held}
           R == OpToRel(<, Nat)
<1>1. IdMod \in T /\ T \subseteq Nat
  BY ChannelAssumption DEF Ids
<1>2. PICK n \in T : \A y \in T : ~ (<<y, n>> \in R)
  BY <1>1, WFMin, NatLessThanWellFounded
<1>3. \A y \in T : ~ (y < n)
  BY <1>1, <1>2 DEF OpToRel
<1>4. n \in from .. IdMod
  BY <1>1, <1>3, ChannelAssumption
<1>5. \A i \in from .. n - 1 : i \in held
  BY <1>3, <1>4, ChannelAssumption
<1>6. n \notin held
  OBVIOUS
<1> QED
  BY <1>4, <1>5, <1>6 DEF FirstGap

-----------------------------------------------------------------------------
(* The inductive invariant.  NothingForgotten alone is not inductive: that *)
(* an ack may retire a packet's messages rests on the packet on record     *)
(* being the one that arrived, and that the receiver never has to refuse a *)
(* message rests on the ids in circulation having been queued.             *)

Queued(k) == 0 .. queued[k] - 1

(* The sender has queued ids 0 to queued - 1, without wrapping.            *)
Numbered ==
  \A k \in Reliable : queued[k] <= MaxSend[k] /\ next_send_id[k] = queued[k]

(* Only queued ids circulate on the reliable channels.                     *)
Genuine(msgs) == \A m \in msgs : m.channel \in Reliable => m.id \in Queued(m.channel)
Circulating ==
  /\ \A k \in Reliable : unacked[k] \subseteq Queued(k)
  /\ \A p \in packets : Genuine(p.msgs)
  /\ Genuine(inbox)
  /\ ordered_buffer \subseteq Queued(ReliableOrdered)

(* The record of a packet in flight is about that very packet.             *)
RecordsMatch == \A p \in packets : in_packet[p.seq] \subseteq p.msgs

(* An ack on its way is for a recorded packet the receiver has read.       *)
AcksHonest ==
  \A s \in acks : /\ in_packet[s] # {}
                  /\ \A m \in in_packet[s] : Has(m.channel, m.id)

(* Everything below next_expect_id, and above it what seen_above marks,    *)
(* has been delivered.                                                     *)
ContiguousCame ==
  /\ \A k \in Reliable : \A id \in 0 .. next_expect_id[k] - 1 : id \in Came(k)
  /\ seen_above \subseteq Came(ReliableUnordered)

IInv ==
  /\ TypeOK
  /\ Numbered
  /\ Circulating
  /\ RecordsMatch
  /\ AcksHonest
  /\ ContiguousCame
  /\ BuffersBeyondGap
  /\ NothingForgotten

(* The cap on out-of-order messages is never reached: channel.rs:192-197   *)
(* calls it a bound on memory, not a limit of correct use.                 *)
CapSuffices == MaxSend[ReliableOrdered] <= MaxBuffered + 1

-----------------------------------------------------------------------------
LEMMA KindFacts ==
  /\ Reliable = {ReliableOrdered, ReliableUnordered}
  /\ BestEffort = {Unreliable, UnreliableSequenced}
  /\ Kinds = Reliable \cup BestEffort
  /\ ReliableOrdered # ReliableUnordered
  /\ Unreliable \notin Reliable /\ UnreliableSequenced \notin Reliable
  /\ Unreliable # UnreliableSequenced
BY DEF Kinds, Reliable, BestEffort, ReliableOrdered, ReliableUnordered,
       Unreliable, UnreliableSequenced

(* Delivering appends to one channel's history and touches no other.       *)
LEMMA DeliverFacts ==
  ASSUME delivered \in [Kinds -> Seq(Ids)],
         NEW k \in Kinds, NEW ids \in Seq(Ids), Deliver(k, ids)
  PROVE  /\ delivered' \in [Kinds -> Seq(Ids)]
         /\ Came(k)' = Came(k) \cup {ids[i] : i \in 1 .. Len(ids)}
         /\ \A j \in Kinds \ {k} : Came(j)' = Came(j)
<1> DEFINE old == delivered[k]
           new == old \o ids
<1>1. delivered' = [delivered EXCEPT ![k] = new]
  BY DEF Deliver
<1>2. old \in Seq(Ids) /\ new \in Seq(Ids) /\ Len(new) = Len(old) + Len(ids)
      /\ Len(old) \in Nat /\ Len(ids) \in Nat
  OBVIOUS
<1>3. \A i \in 1 .. Len(old) : new[i] = old[i]
  BY <1>2
<1>4. \A i \in 1 .. Len(ids) : new[i + Len(old)] = ids[i]
  BY <1>2
<1>5. delivered'[k] = new
  BY <1>1
<1>6. \A x : x \in {new[i] : i \in 1 .. Len(new)}
             <=> x \in {old[i] : i \in 1 .. Len(old)} \cup {ids[i] : i \in 1 .. Len(ids)}
  <2> TAKE x
  <2>1. ASSUME x \in {new[i] : i \in 1 .. Len(new)}
        PROVE  x \in {old[i] : i \in 1 .. Len(old)} \cup {ids[i] : i \in 1 .. Len(ids)}
    <3>1. PICK i \in 1 .. Len(new) : x = new[i]
      BY <2>1
    <3>2. CASE i <= Len(old)
      BY <3>1, <3>2, <1>2, <1>3
    <3>3. CASE i > Len(old)
      <4>1. i - Len(old) \in 1 .. Len(ids) /\ (i - Len(old)) + Len(old) = i
        BY <3>1, <3>3, <1>2
      <4> HIDE DEF old, new
      <4> QED BY <4>1, <1>4, <3>1
    <3> QED BY <3>2, <3>3, <3>1, <1>2
  <2>2. ASSUME x \in {old[i] : i \in 1 .. Len(old)}
        PROVE  x \in {new[i] : i \in 1 .. Len(new)}
    BY <2>2, <1>2, <1>3
  <2>3. ASSUME x \in {ids[i] : i \in 1 .. Len(ids)}
        PROVE  x \in {new[i] : i \in 1 .. Len(new)}
    <3>1. PICK i \in 1 .. Len(ids) : x = ids[i]
      BY <2>3
    <3>2. i + Len(old) \in 1 .. Len(new)
      BY <1>2
    <3> HIDE DEF new
    <3> QED BY <3>1, <3>2, <1>4
  <2> QED BY <2>1, <2>2, <2>3
<1>7. Came(k)' = Came(k) \cup {ids[i] : i \in 1 .. Len(ids)}
  BY <1>5, <1>6 DEF Came
<1>8. delivered' \in [Kinds -> Seq(Ids)]
  BY <1>1, <1>2
<1>9. \A j \in Kinds \ {k} : Came(j)' = Came(j)
  BY <1>1 DEF Came
<1> QED BY <1>7, <1>8, <1>9

-----------------------------------------------------------------------------
(* What handing one message to on_receive does to the receiver.            *)

ReceiverTypeOK ==
  /\ next_expect_id \in [Reliable -> Nat]
  /\ ordered_buffer \subseteq Ids
  /\ seen_above \subseteq Ids
  /\ highest_seen \in Ids \cup {NoneSeen}
  /\ delivered \in [Kinds -> Seq(Ids)]

(* There is room to hold the message back, should that be necessary.       *)
RoomFor(m) ==
  m.channel = ReliableOrdered /\ m.id > next_expect_id[ReliableOrdered]
    /\ m.id \notin ordered_buffer
  => Cardinality(ordered_buffer) < MaxBuffered

(* Nothing that was delivered or held back is lost.                        *)
NothingLost ==
  /\ \A k \in Kinds : Came(k) \subseteq Came(k)'
  /\ ordered_buffer \subseteq ordered_buffer' \cup Came(ReliableOrdered)'

(* Message m is delivered, or held back.                                   *)
Accepted(m) ==
  \/ m.id \in Came(m.channel)
  \/ m.channel = ReliableOrdered /\ m.id \in ordered_buffer

LEMMA SameDeliveries ==
  ASSUME UNCHANGED delivered
  PROVE  \A k : Came(k)' = Came(k)
BY DEF Came

LEMMA BestEffortFacts ==
  ASSUME ReceiverTypeOK, ContiguousCame, BuffersBeyondGap, NEW id \in Ids,
         ReceiveUnreliable(id) \/ ReceiveSequenced(id)
  PROVE  /\ ReceiverTypeOK' /\ ContiguousCame' /\ BuffersBeyondGap'
         /\ NothingLost
         /\ ordered_buffer' = ordered_buffer
<1>1. UNCHANGED <<next_expect_id, ordered_buffer, seen_above>>
  BY DEF ReceiveUnreliable, ReceiveSequenced
<1>2. \/ UNCHANGED <<highest_seen, delivered>>
      \/ /\ highest_seen' \in {highest_seen, id}
         /\ Deliver(Unreliable, <<id>>) \/ Deliver(UnreliableSequenced, <<id>>)
  BY DEF ReceiveUnreliable, ReceiveSequenced
<1>3. CASE UNCHANGED <<highest_seen, delivered>>
  BY <1>1, <1>3, SameDeliveries
     DEF ReceiverTypeOK, ContiguousCame, BuffersBeyondGap, NothingLost
<1>4. CASE /\ highest_seen' \in {highest_seen, id}
           /\ Deliver(Unreliable, <<id>>) \/ Deliver(UnreliableSequenced, <<id>>)
  <2>1. <<id>> \in Seq(Ids) /\ Unreliable \in Kinds /\ UnreliableSequenced \in Kinds
    BY KindFacts
  <2>2. /\ delivered' \in [Kinds -> Seq(Ids)]
        /\ \A k \in Kinds : Came(k) \subseteq Came(k)'
        /\ \A k \in Reliable : Came(k)' = Came(k)
    <3>1. PICK k \in {Unreliable, UnreliableSequenced} : Deliver(k, <<id>>)
      BY <1>4
    <3>2. /\ delivered' \in [Kinds -> Seq(Ids)]
          /\ Came(k) \subseteq Came(k)'
          /\ \A j \in Kinds \ {k} : Came(j)' = Came(j)
      BY <2>1, <3>1, DeliverFacts DEF ReceiverTypeOK
    <3>3. Reliable \subseteq Kinds \ {k}
      BY KindFacts
    <3> QED BY <3>2, <3>3
  <2>3. ReceiverTypeOK'
    BY <2>2, <1>1, <1>4 DEF ReceiverTypeOK
  <2>4. ContiguousCame' /\ BuffersBeyondGap'
    BY <2>2, <1>1, KindFacts DEF ContiguousCame, BuffersBeyondGap
  <2> QED BY <1>1, <2>2, <2>3, <2>4 DEF NothingLost
<1> QED BY <1>1, <1>2, <1>3, <1>4

LEMMA UnorderedFacts ==
  ASSUME ReceiverTypeOK, ContiguousCame, BuffersBeyondGap, NEW id \in Ids,
         ReceiveUnordered(id)
  PROVE  /\ ReceiverTypeOK' /\ ContiguousCame' /\ BuffersBeyondGap'
         /\ NothingLost
         /\ ordered_buffer' = ordered_buffer
         /\ id \in Came(ReliableUnordered)'
<1> DEFINE k == ReliableUnordered
           n == FirstGap(id + 1, seen_above)
<1>1. k \in Reliable /\ k \in Kinds /\ <<id>> \in Seq(Ids) /\ ReliableOrdered \in Kinds \ {k}
      /\ Reliable \subseteq Kinds /\ Len(<<id>>) = 1 /\ <<id>>[1] = id
  BY KindFacts
<1>2. UNCHANGED <<ordered_buffer, highest_seen>>
  BY DEF ReceiveUnordered
<1>3. CASE /\ id < next_expect_id[k] \/ id \in seen_above
           /\ UNCHANGED <<next_expect_id, seen_above, delivered>>
  <2>1. ReceiverTypeOK' /\ ContiguousCame' /\ BuffersBeyondGap' /\ NothingLost
    BY <1>2, <1>3, SameDeliveries
       DEF ReceiverTypeOK, ContiguousCame, BuffersBeyondGap, NothingLost
  <2>2. id \in 0 .. next_expect_id[k] - 1 \/ id \in seen_above
    BY <1>3, <1>1, ChannelAssumption DEF Ids, ReceiverTypeOK
  <2>3. id \in Came(k)
    BY <2>2, <1>1 DEF ContiguousCame
  <2> QED BY <2>1, <2>3, <1>2, <1>3, SameDeliveries
<1>4. ASSUME Deliver(k, <<id>>)
      PROVE  /\ delivered' \in [Kinds -> Seq(Ids)]
             /\ Came(k)' = Came(k) \cup {id}
             /\ \A j \in Kinds \ {k} : Came(j)' = Came(j)
  <2>1. {<<id>>[i] : i \in 1 .. Len(<<id>>)} = {id}
    BY <1>1
  <2> QED BY <2>1, <1>1, <1>4, DeliverFacts DEF ReceiverTypeOK
<1>5. CASE /\ id = next_expect_id[k] /\ id \notin seen_above
           /\ Deliver(k, <<id>>)
           /\ next_expect_id' = [next_expect_id EXCEPT ![k] = n]
           /\ seen_above' = seen_above \ (id .. n - 1)
  <2>1. id + 1 \in 0 .. IdMod /\ id \in Nat
    BY ChannelAssumption DEF Ids
  <2>2. /\ n \in id + 1 .. IdMod
        /\ n \notin seen_above
        /\ \A i \in id + 1 .. n - 1 : i \in seen_above
    BY <2>1, FirstGapProperties DEF ReceiverTypeOK
  <2> HIDE DEF n
  <2>3. ReceiverTypeOK'
    <3>1. n \in Nat
      BY <2>1, <2>2, ChannelAssumption
    <3>2. next_expect_id' \in [Reliable -> Nat]
      BY <3>1, <1>5 DEF ReceiverTypeOK
    <3> QED BY <3>2, <1>2, <1>4, <1>5 DEF ReceiverTypeOK
  <2>4. \A i \in 0 .. n - 1 : i \in Came(k)'
    <3>1. Came(k)' = Came(k) \cup {id}
      BY <1>4, <1>5
    <3> TAKE i \in 0 .. n - 1
    <3>2. i \in 0 .. id - 1 \/ i = id \/ i \in id + 1 .. n - 1
      BY <2>1, <2>2
    <3>3. i \in 0 .. id - 1 => i \in Came(k)
      BY <1>5, <1>1 DEF ContiguousCame
    <3>4. i \in id + 1 .. n - 1 => i \in Came(k)
      BY <2>2, <1>1 DEF ContiguousCame
    <3> QED BY <3>1, <3>2, <3>3, <3>4
  <2>5. next_expect_id'[k] = n /\ \A j \in Reliable \ {k} : next_expect_id'[j] = next_expect_id[j]
    BY <1>5, <1>1 DEF ReceiverTypeOK
  <2>6. ContiguousCame'
    BY <2>4, <2>5, <1>4, <1>5, <1>1 DEF ContiguousCame
  <2>7. BuffersBeyondGap'
    <3>1. \A i \in seen_above' : i > n
      BY <2>2, <2>1, <1>5, ChannelAssumption DEF BuffersBeyondGap, ReceiverTypeOK, Ids
    <3> QED BY <3>1, <2>5, <1>2, KindFacts DEF BuffersBeyondGap
  <2> QED BY <1>2, <1>4, <1>5, <1>1, <2>3, <2>6, <2>7 DEF NothingLost
<1>6. CASE /\ id > next_expect_id[k] /\ id \notin seen_above
           /\ Deliver(k, <<id>>)
           /\ seen_above' = IF Cardinality(seen_above) < MaxBuffered
                            THEN seen_above \cup {id} ELSE seen_above
           /\ UNCHANGED next_expect_id
  <2>1. seen_above' \in {seen_above, seen_above \cup {id}}
    BY <1>6
  <2>2. ReceiverTypeOK'
    BY <1>2, <1>4, <1>6, <2>1 DEF ReceiverTypeOK
  <2>3. ContiguousCame'
    <3>1. /\ \A j \in Reliable : Came(j) \subseteq Came(j)'
          /\ id \in Came(k)'
      BY <1>1, <1>4, <1>6
    <3> QED BY <3>1, <1>1, <1>6, <2>1 DEF ContiguousCame
  <2>4. BuffersBeyondGap'
    BY <1>2, <1>6, <2>1 DEF BuffersBeyondGap
  <2>5. NothingLost /\ id \in Came(k)'
    BY <1>1, <1>2, <1>4, <1>6 DEF NothingLost
  <2> QED BY <1>2, <2>2, <2>3, <2>4, <2>5
<1> QED BY <1>3, <1>5, <1>6 DEF ReceiveUnordered

LEMMA OrderedFacts ==
  ASSUME ReceiverTypeOK, ContiguousCame, BuffersBeyondGap, NEW id \in Ids,
         ReceiveOrdered(id)
  PROVE  /\ ReceiverTypeOK' /\ ContiguousCame' /\ BuffersBeyondGap'
         /\ NothingLost
         /\ ordered_buffer' \subseteq ordered_buffer \cup {id}
         /\ RoomFor([channel |-> ReliableOrdered, id |-> id])
            => id \in Came(ReliableOrdered)' \cup ordered_buffer'
<1> DEFINE k == ReliableOrdered
           n == FirstGap(id + 1, ordered_buffer)
           run == [i \in 1 .. n - id |-> id + i - 1]
<1>1. k \in Reliable /\ k \in Kinds /\ ReliableUnordered \in Kinds \ {k}
      /\ Reliable \subseteq Kinds
  BY KindFacts
<1>2. UNCHANGED <<seen_above, highest_seen>>
  BY DEF ReceiveOrdered
<1>3. CASE /\ id < next_expect_id[k] \/ id \in ordered_buffer
           /\ UNCHANGED <<next_expect_id, ordered_buffer, delivered>>
  <2>1. ReceiverTypeOK' /\ ContiguousCame' /\ BuffersBeyondGap' /\ NothingLost
    BY <1>2, <1>3, SameDeliveries
       DEF ReceiverTypeOK, ContiguousCame, BuffersBeyondGap, NothingLost
  <2>2. id \in 0 .. next_expect_id[k] - 1 \/ id \in ordered_buffer
    BY <1>3, <1>1, ChannelAssumption DEF Ids, ReceiverTypeOK
  <2>3. id \in Came(k) \cup ordered_buffer
    BY <2>2, <1>1 DEF ContiguousCame
  <2> QED BY <2>1, <2>3, <1>3, SameDeliveries
<1>4. CASE /\ id = next_expect_id[k] /\ id \notin ordered_buffer
           /\ Deliver(k, run)
           /\ next_expect_id' = [next_expect_id EXCEPT ![k] = n]
           /\ ordered_buffer' = ordered_buffer \ (id .. n - 1)
  <2>1. id + 1 \in 0 .. IdMod /\ id \in Nat
    BY ChannelAssumption DEF Ids
  <2>2. /\ n \in id + 1 .. IdMod
        /\ n \notin ordered_buffer
        /\ \A i \in id + 1 .. n - 1 : i \in ordered_buffer
    BY <2>1, FirstGapProperties DEF ReceiverTypeOK
  <2> HIDE DEF n
  <2>3. n \in Nat /\ n - id \in Nat
    BY <2>1, <2>2, ChannelAssumption
  <2>4. run \in Seq(Ids) /\ Len(run) = n - id
    <3>1. \A i \in 1 .. n - id : id + i - 1 \in Ids
      BY <2>1, <2>2, ChannelAssumption DEF Ids
    <3> QED BY <3>1, <2>3
  <2>5. {run[i] : i \in 1 .. Len(run)} = id .. n - 1
    <3>1. ASSUME NEW x \in id .. n - 1 PROVE x \in {run[i] : i \in 1 .. Len(run)}
      <4>1. x - id + 1 \in 1 .. Len(run) /\ run[x - id + 1] = x
        BY <2>1, <2>3, <2>4
      <4> QED BY <4>1
    <3>2. ASSUME NEW i \in 1 .. Len(run) PROVE run[i] \in id .. n - 1
      BY <2>1, <2>3, <2>4
    <3> QED BY <3>1, <3>2
  <2> HIDE DEF run
  <2>6. /\ delivered' \in [Kinds -> Seq(Ids)]
        /\ Came(k)' = Came(k) \cup (id .. n - 1)
        /\ \A j \in Kinds \ {k} : Came(j)' = Came(j)
    BY <2>4, <2>5, <1>1, <1>4, DeliverFacts DEF ReceiverTypeOK
  <2>7. next_expect_id' \in [Reliable -> Nat] /\ next_expect_id'[k] = n
        /\ \A j \in Reliable \ {k} : next_expect_id'[j] = next_expect_id[j]
    BY <1>1, <1>4, <2>3 DEF ReceiverTypeOK
  <2>8. ReceiverTypeOK'
    BY <2>6, <2>7, <1>2, <1>4 DEF ReceiverTypeOK
  <2>9. \A i \in 0 .. n - 1 : i \in Came(k)'
    <3> TAKE i \in 0 .. n - 1
    <3>1. i \in 0 .. id - 1 \/ i \in id .. n - 1
      BY <2>1, <2>3
    <3>2. i \in 0 .. id - 1 => i \in Came(k)
      BY <1>1, <1>4 DEF ContiguousCame
    <3> QED BY <2>6, <3>1, <3>2
  <2>10. ContiguousCame'
    BY <2>6, <2>7, <2>9, <1>1, <1>2 DEF ContiguousCame
  <2>11. BuffersBeyondGap'
    <3>1. \A i \in ordered_buffer' : i > n
      BY <2>2, <2>1, <2>3, <1>4 DEF BuffersBeyondGap, ReceiverTypeOK, Ids
    <3> QED BY <3>1, <2>7, <1>2, KindFacts DEF BuffersBeyondGap
  <2>12. NothingLost /\ id \in Came(k)'
    <3>1. \A j \in Kinds : Came(j) \subseteq Came(j)'
      BY <2>6
    <3>2. ordered_buffer \subseteq ordered_buffer' \cup Came(k)'
      BY <2>6, <1>4
    <3>3. id \in Came(k)'
      BY <2>1, <2>2, <2>6
    <3> QED BY <3>1, <3>2, <3>3 DEF NothingLost
  <2> QED BY <2>8, <2>10, <2>11, <2>12, <1>4
<1>5. CASE /\ id > next_expect_id[k] /\ id \notin ordered_buffer
           /\ ordered_buffer' = IF Cardinality(ordered_buffer) < MaxBuffered
                                THEN ordered_buffer \cup {id} ELSE ordered_buffer
           /\ UNCHANGED <<next_expect_id, delivered>>
  <2>1. ordered_buffer' \in {ordered_buffer, ordered_buffer \cup {id}}
    BY <1>5
  <2>2. RoomFor([channel |-> k, id |-> id]) => id \in ordered_buffer'
    BY <1>5 DEF RoomFor
  <2>3. ReceiverTypeOK' /\ ContiguousCame' /\ BuffersBeyondGap' /\ NothingLost
    BY <2>1, <1>2, <1>5, SameDeliveries
       DEF ReceiverTypeOK, ContiguousCame, BuffersBeyondGap, NothingLost
  <2> QED BY <2>1, <2>2, <2>3
<1> QED BY <1>3, <1>4, <1>5 DEF ReceiveOrdered

LEMMA ReceiveFacts ==
  ASSUME ReceiverTypeOK, ContiguousCame, BuffersBeyondGap,
         NEW m \in Message, OnReceiveMessage(m)
  PROVE  /\ ReceiverTypeOK' /\ ContiguousCame' /\ BuffersBeyondGap'
         /\ NothingLost
         /\ ordered_buffer' \subseteq
              ordered_buffer \cup {id \in {m.id} : m.channel = ReliableOrdered}
         /\ m.channel \in Reliable /\ RoomFor(m) => Accepted(m)'
<1>1. m.id \in Ids
  BY DEF Message
<1>2. CASE m.channel \in BestEffort
  <2>1. ReceiveUnreliable(m.id) \/ ReceiveSequenced(m.id)
    BY <1>2, KindFacts DEF OnReceiveMessage
  <2> QED BY <1>1, <1>2, <2>1, BestEffortFacts, KindFacts
<1>3. CASE m.channel = ReliableUnordered
  <2>1. ReceiveUnordered(m.id)
    BY <1>3, KindFacts DEF OnReceiveMessage
  <2> QED BY <1>1, <1>3, <2>1, UnorderedFacts, KindFacts DEF Accepted
<1>4. CASE m.channel = ReliableOrdered
  <2>1. ReceiveOrdered(m.id)
    BY <1>4, KindFacts DEF OnReceiveMessage
  <2>2. RoomFor(m) => RoomFor([channel |-> ReliableOrdered, id |-> m.id])
    BY <1>4 DEF RoomFor
  <2> QED BY <1>1, <1>4, <2>1, <2>2, OrderedFacts DEF Accepted
<1> QED BY <1>2, <1>3, <1>4, KindFacts DEF Message

-----------------------------------------------------------------------------
(* Type correctness, and what the receiver keeps to itself.                *)

ReceiverInv == TypeOK /\ Numbered /\ ContiguousCame /\ BuffersBeyondGap

LEMMA InitReceiver == Init => ReceiverInv
<1> SUFFICES ASSUME Init PROVE ReceiverInv
  OBVIOUS
<1>1. ChannelTypeOK
  <2>1. 0 \in Ids /\ 0 \in Nat /\ <<>> \in Seq(Ids)
    BY ChannelAssumption DEF Ids
  <2> QED BY <2>1 DEF Init, ChannelInit, ChannelTypeOK
<1>2. TypeOK
  BY <1>1, ChannelExchangeAssumption DEF Init, TypeOK
<1>3. Numbered
  BY ChannelAssumption, KindFacts DEF Init, ChannelInit, Numbered
<1>4. ContiguousCame /\ BuffersBeyondGap
  BY DEF Init, ChannelInit, ContiguousCame, BuffersBeyondGap
<1> QED BY <1>2, <1>3, <1>4 DEF ReceiverInv

LEMMA LessFacts ==
  ASSUME NEW p \in packets, packets \subseteq Packet
  PROVE  /\ Less(p) \subseteq Packet
         /\ \A q \in Less(p) : \E r \in packets : q.seq = r.seq /\ q.msgs = r.msgs
<1>1. p \in Packet
  OBVIOUS
<1>2. ASSUME p.copies # 1
      PROVE  /\ [p EXCEPT !.copies = @ - 1] \in Packet
             /\ [p EXCEPT !.copies = @ - 1].seq = p.seq
             /\ [p EXCEPT !.copies = @ - 1].msgs = p.msgs
  BY <1>1, <1>2, ChannelExchangeAssumption DEF Packet
<1> QED BY <1>1, <1>2 DEF Less

LEMMA TypeStep == ReceiverInv /\ [Next]_vars => ReceiverInv'
<1> SUFFICES ASSUME ReceiverInv, [Next]_vars PROVE ReceiverInv'
  OBVIOUS
<1> USE DEF ReceiverInv
<1>1. ReceiverTypeOK
  BY DEF TypeOK, ChannelTypeOK, ReceiverTypeOK
<1>2. CASE HandOver
  <2>1. PICK m \in inbox :
          /\ OnReceiveMessage(m)
          /\ inbox' = inbox \ {m}
          /\ UNCHANGED <<channelSending, next_packet, packets, acks>>
    BY <1>2 DEF HandOver
  <2>2. m \in Message
    BY DEF TypeOK
  <2>3. ReceiverTypeOK' /\ ContiguousCame' /\ BuffersBeyondGap'
    BY <1>1, <2>1, <2>2, ReceiveFacts
  <2>4. TypeOK'
    BY <2>1, <2>3 DEF TypeOK, ChannelTypeOK, ReceiverTypeOK, channelSending
  <2>5. Numbered'
    BY <2>1 DEF Numbered, channelSending
  <2> QED BY <2>3, <2>4, <2>5
<1>3. ASSUME UNCHANGED channelReceiving
      PROVE  ReceiverTypeOK' /\ ContiguousCame' /\ BuffersBeyondGap'
  BY <1>1, <1>3, SameDeliveries
     DEF channelReceiving, ReceiverTypeOK, ContiguousCame, BuffersBeyondGap
<1>4. ASSUME NEW k \in Kinds, Queue(k) PROVE ReceiverInv'
  <2>1. UNCHANGED channelReceiving
    BY <1>4 DEF Queue
  <2>2. next_send_id' \in [Kinds -> Ids] /\ queued' \in [Kinds -> Nat]
    BY <1>4, ChannelAssumption DEF Queue, QueueMessage, TypeOK, ChannelTypeOK, Ids
  <2>3. /\ unacked' \in [Reliable -> SUBSET Ids]
        /\ tried' \in [Reliable -> SUBSET Ids]
        /\ unreliable_queue' \in [BestEffort -> SUBSET Ids]
    BY <1>4, KindFacts DEF Queue, QueueMessage, TypeOK, ChannelTypeOK
  <2>4. TypeOK'
    BY <1>3, <1>4, <2>1, <2>2, <2>3
       DEF Queue, QueueMessage, TypeOK, ChannelTypeOK, ReceiverTypeOK, exchangeVars
  <2>5. Numbered'
    <3> SUFFICES ASSUME NEW j \in Reliable
                 PROVE  queued'[j] <= MaxSend[j] /\ next_send_id'[j] = queued'[j]
      BY DEF Numbered
    <3>1. /\ queued[j] \in Nat /\ next_send_id[j] = queued[j] /\ queued[j] <= MaxSend[j]
          /\ MaxSend[j] \in Nat /\ MaxSend[j] < IdMod /\ j \in Kinds
      BY ChannelAssumption, KindFacts DEF Numbered, TypeOK, ChannelTypeOK
    <3>2. CASE j = k
      <4>1. /\ queued[j] < MaxSend[j]
            /\ queued'[j] = queued[j] + 1
            /\ next_send_id'[j] = (next_send_id[j] + 1) % IdMod
        BY <1>4, <3>1, <3>2 DEF Queue, QueueMessage, TypeOK, ChannelTypeOK
      <4>2. (queued[j] + 1) % IdMod = queued[j] + 1
        BY <3>1, <4>1, ChannelAssumption
      <4> QED BY <3>1, <4>1, <4>2
    <3>3. CASE j # k
      BY <1>4, <3>1, <3>3 DEF Queue, QueueMessage, TypeOK, ChannelTypeOK
    <3> QED BY <3>2, <3>3
  <2> QED BY <1>3, <2>1, <2>4, <2>5
<1>5. ASSUME NEW o \in SUBSET unacked[ReliableOrdered],
             NEW u \in SUBSET unacked[ReliableUnordered], SendPacket(o, u)
      PROVE  ReceiverInv'
  <2>1. UNCHANGED <<channelReceiving, queued, next_send_id, unacked, inbox, acks>>
    BY <1>5 DEF SendPacket, Packetize
  <2>2. o \subseteq Ids /\ u \subseteq Ids
    BY KindFacts DEF TypeOK, ChannelTypeOK
  <2>3. Recorded(o, u) \subseteq Entry /\ Entry \subseteq Message
    BY <2>2, KindFacts DEF Recorded, Tag, Entry, Message
  <2>4. \A load \in BestEffortLoads : load \subseteq Message
    BY KindFacts DEF BestEffortLoads, Tag, Message, TypeOK, ChannelTypeOK
  <2>5. tried' \in [Reliable -> SUBSET Ids] /\ unreliable_queue' \in [BestEffort -> SUBSET Ids]
    BY <1>5, <2>2 DEF SendPacket, Packetize, TypeOK, ChannelTypeOK
  <2>6. next_packet \in PacketSeqs /\ next_packet' \in PacketSeqs
    BY <1>5, ChannelExchangeAssumption DEF SendPacket, TypeOK
  <2>7. in_packet' \in [PacketSeqs -> SUBSET Entry]
    BY <1>5, <2>3, <2>6 DEF SendPacket, Packetize, TypeOK, ChannelTypeOK
  <2>8. packets' \subseteq Packet
    BY <1>5, <2>3, <2>4, <2>6 DEF SendPacket, Packet, TypeOK
  <2>9. TypeOK'
    BY <1>3, <2>1, <2>5, <2>6, <2>7, <2>8 DEF TypeOK, ChannelTypeOK, ReceiverTypeOK
  <2> QED BY <1>3, <2>1, <2>9 DEF Numbered
<1>6. ASSUME NEW p \in packets, ReceivePacket(p) \/ DropPacket(p) PROVE ReceiverInv'
  <2>1. UNCHANGED <<channelVars, next_packet>> /\ packets' = Less(p)
        /\ inbox' \in {inbox, p.msgs} /\ acks' \subseteq acks \cup {p.seq}
    BY <1>6 DEF ReceivePacket, DropPacket
  <2>2. p \in Packet /\ packets' \subseteq Packet
    BY <2>1, LessFacts DEF TypeOK
  <2>3. UNCHANGED channelReceiving /\ ChannelTypeOK'
    BY <2>1 DEF channelVars, channelReceiving, TypeOK, ChannelTypeOK
  <2>4. TypeOK'
    BY <2>1, <2>2, <2>3 DEF TypeOK, Packet
  <2> QED BY <1>3, <2>1, <2>3, <2>4 DEF Numbered, channelVars
<1>7. ASSUME NEW seqs \in SUBSET acks, ReceiveAcks(seqs) PROVE ReceiverInv'
  <2>1. UNCHANGED <<channelReceiving, next_packet, packets, inbox, next_send_id,
                    unreliable_queue, queued>> /\ acks' \subseteq acks
    BY <1>7 DEF ReceiveAcks, OnPacketsAcked
  <2>2. /\ unacked' \in [Reliable -> SUBSET Ids] /\ tried' \in [Reliable -> SUBSET Ids]
        /\ in_packet' \in [PacketSeqs -> SUBSET Entry]
    BY <1>7 DEF ReceiveAcks, OnPacketsAcked, TypeOK, ChannelTypeOK
  <2>3. TypeOK'
    BY <1>3, <2>1, <2>2 DEF TypeOK, ChannelTypeOK, ReceiverTypeOK
  <2> QED BY <1>3, <2>1, <2>3 DEF Numbered
<1>8. ASSUME NEW s \in PacketSeqs, GiveUp(s) PROVE ReceiverInv'
  <2>1. UNCHANGED <<channelReceiving, next_packet, packets, inbox, next_send_id,
                    unacked, tried, unreliable_queue, queued>>
        /\ acks' \subseteq acks
    BY <1>8 DEF GiveUp, OnPacketLost
  <2>2. in_packet' \in [PacketSeqs -> SUBSET Entry]
    BY <1>8 DEF GiveUp, OnPacketLost, TypeOK, ChannelTypeOK
  <2>3. TypeOK'
    BY <1>3, <2>1, <2>2 DEF TypeOK, ChannelTypeOK, ReceiverTypeOK
  <2> QED BY <1>3, <2>1, <2>3 DEF Numbered
<1>9. CASE UNCHANGED vars
  <2>1. UNCHANGED channelReceiving
    BY <1>9 DEF vars, channelVars, channelReceiving
  <2>2. TypeOK' /\ Numbered'
    BY <1>9 DEF vars, channelVars, TypeOK, ChannelTypeOK, Numbered
  <2> QED BY <1>3, <2>1, <2>2
<1> QED BY <1>2, <1>4, <1>5, <1>6, <1>7, <1>8, <1>9 DEF Next

LEMMA ReceiverInvariant == Spec => []ReceiverInv
<1>1. Init => ReceiverInv
  BY InitReceiver
<1>2. ReceiverInv /\ [Next]_vars => ReceiverInv'
  BY TypeStep
<1> QED BY <1>1, <1>2, PTL DEF Spec

(* Every variable keeps its type, for all constants: in particular the     *)
(* receiver's counters never leave the id space (channel.rs:385-389).      *)
THEOREM TypeCorrect == Spec => []TypeOK
<1>1. ReceiverInv => TypeOK
  BY DEF ReceiverInv
<1> QED BY <1>1, ReceiverInvariant, PTL

(* Closing a gap empties the buffers up to the next one, whatever the cap  *)
(* on them: an entry at or below next_expect_id would never be released.   *)
THEOREM BuffersStayBeyondGap == Spec => []BuffersBeyondGap
<1>1. ReceiverInv => BuffersBeyondGap
  BY DEF ReceiverInv
<1> QED BY <1>1, ReceiverInvariant, PTL

-----------------------------------------------------------------------------
(* NothingForgotten.                                                       *)

(* Held back, out of order, are at most the ids between the gap and the    *)
(* newest one queued: a cap of one less than the ids is never reached.     *)
LEMMA RoomSuffices ==
  ASSUME ReceiverInv, Circulating, CapSuffices, NEW m \in inbox
  PROVE  RoomFor(m)
<1> SUFFICES ASSUME m.channel = ReliableOrdered, m.id > next_expect_id[ReliableOrdered],
                    m.id \notin ordered_buffer
             PROVE  Cardinality(ordered_buffer) < MaxBuffered
  BY DEF RoomFor
<1> DEFINE top == queued[ReliableOrdered] - 1
<1>1. /\ queued[ReliableOrdered] \in Nat
      /\ queued[ReliableOrdered] <= MaxSend[ReliableOrdered]
      /\ next_expect_id[ReliableOrdered] \in Nat
      /\ MaxSend[ReliableOrdered] \in Nat /\ MaxBuffered \in Nat
  BY KindFacts, ChannelAssumption
     DEF ReceiverInv, Numbered, TypeOK, ChannelTypeOK
<1>2. m.id \in 1 .. top
  BY <1>1, KindFacts DEF Circulating, Genuine, Queued
<1>3. ordered_buffer \subseteq 1 .. top
  BY <1>1 DEF Circulating, Queued, ReceiverInv, BuffersBeyondGap
<1>4. IsFiniteSet(1 .. top) /\ Cardinality(1 .. top) = top
  <2>1. top \in Int /\ 1 \in Int /\ ~ (1 > top) /\ top - 1 + 1 = top
    BY <1>1, <1>2
  <2> HIDE DEF top
  <2> QED BY <2>1, FS_Interval
<1>5. IsFiniteSet((1 .. top) \ {m.id}) /\ Cardinality((1 .. top) \ {m.id}) = top - 1
  BY <1>2, <1>4, FS_RemoveElement
<1>6. Cardinality(ordered_buffer) <= top - 1
  BY <1>3, <1>5, FS_Subset
<1>7. Cardinality(ordered_buffer) \in Nat
  BY <1>3, <1>5, FS_Subset, FS_CardinalityType
<1> QED BY <1>1, <1>6, <1>7 DEF CapSuffices

(* While the receiver's fields stand still and nothing leaves the inbox,   *)
(* what it has it keeps.                                                   *)
LEMMA HasKept ==
  ASSUME UNCHANGED channelReceiving, inbox \subseteq inbox',
         NEW k, NEW id, Has(k, id)
  PROVE  Has(k, id)'
BY SameDeliveries DEF Has, channelReceiving

LEMMA StepHandOver ==
  ASSUME IInv, ReceiverInv, ReceiverInv', CapSuffices, HandOver
  PROVE  IInv'
<1>1. PICK m \in inbox :
        /\ OnReceiveMessage(m)
        /\ inbox' = inbox \ {m}
        /\ UNCHANGED <<channelSending, next_packet, packets, acks>>
  BY DEF HandOver
<1>2. UNCHANGED <<unacked, in_packet, queued, packets, acks>>
  BY <1>1 DEF channelSending
<1>3. m \in Message /\ ReceiverTypeOK
  BY DEF IInv, TypeOK, ChannelTypeOK, ReceiverTypeOK
<1>4. RoomFor(m)
  BY RoomSuffices DEF IInv
<1>5. /\ NothingLost
      /\ ordered_buffer' \subseteq
           ordered_buffer \cup {id \in {m.id} : m.channel = ReliableOrdered}
      /\ m.channel \in Reliable => Accepted(m)'
  BY <1>1, <1>3, <1>4, ReceiveFacts DEF IInv
<1>6. ASSUME NEW k \in Reliable, NEW id, Has(k, id) PROVE Has(k, id)'
  <2>1. CASE [channel |-> k, id |-> id] = m
    BY <1>5, <2>1 DEF Has, Accepted
  <2>2. CASE [channel |-> k, id |-> id] # m
    BY <1>1, <1>5, <1>6, <2>2, KindFacts DEF Has, NothingLost
  <2> QED BY <2>1, <2>2
<1>7. Circulating'
  <2>1. ordered_buffer' \subseteq Queued(ReliableOrdered)
    BY <1>5, KindFacts DEF IInv, Circulating, Genuine
  <2> QED BY <1>1, <1>2, <2>1 DEF IInv, Circulating, Genuine, Queued
<1>8. RecordsMatch'
  BY <1>2 DEF IInv, RecordsMatch
<1>9. AcksHonest'
  <2> SUFFICES ASSUME NEW s \in acks
               PROVE  /\ in_packet[s] # {}
                      /\ \A x \in in_packet[s] : Has(x.channel, x.id)'
    BY <1>2 DEF AcksHonest
  <2>1. in_packet[s] \subseteq Entry
    BY DEF IInv, TypeOK, ChannelTypeOK
  <2> QED BY <1>6, <2>1 DEF IInv, AcksHonest, Entry
<1>10. NothingForgotten'
  BY <1>2, <1>6 DEF IInv, NothingForgotten
<1> QED BY <1>7, <1>8, <1>9, <1>10 DEF IInv, ReceiverInv

LEMMA StepQueue ==
  ASSUME IInv, ReceiverInv', inbox = {}, NEW k \in Kinds, Queue(k)
  PROVE  IInv'
<1>1. UNCHANGED <<channelReceiving, in_packet, next_packet, packets, inbox, acks>>
  BY DEF Queue, QueueMessage, exchangeVars
<1>2. /\ queued \in [Kinds -> Nat] /\ unacked \in [Reliable -> SUBSET Ids]
      /\ Reliable \subseteq Kinds
  BY KindFacts DEF IInv, TypeOK, ChannelTypeOK
<1>3. \A j \in Kinds : queued[j] <= queued'[j] /\ queued'[j] \in Nat
  BY <1>2 DEF Queue, QueueMessage
<1>4. \A j \in Kinds : Queued(j) \subseteq Queued(j)'
  BY <1>2, <1>3 DEF Queued
<1>5. \A j \in Reliable : unacked[j] \subseteq unacked'[j]
  BY <1>2 DEF Queue, QueueMessage
<1>6. ASSUME NEW j \in Reliable, NEW id \in unacked'[j], id \notin unacked[j]
      PROVE  j = k /\ id = queued[j] /\ queued'[j] = queued[j] + 1
  BY <1>2, <1>6 DEF Queue, QueueMessage, IInv, Numbered
<1>7. Circulating'
  <2>1. \A j \in Reliable : unacked'[j] \subseteq Queued(j)'
    <3> SUFFICES ASSUME NEW j \in Reliable, NEW id \in unacked'[j] PROVE id \in Queued(j)'
      OBVIOUS
    <3>1. CASE id \in unacked[j]
      BY <1>2, <1>4, <3>1 DEF IInv, Circulating
    <3>2. CASE id \notin unacked[j]
      BY <1>2, <1>6, <3>2 DEF Queued
    <3> QED BY <3>1, <3>2
  <2>2. ordered_buffer' \subseteq Queued(ReliableOrdered)'
    BY <1>1, <1>4, KindFacts DEF IInv, Circulating, channelReceiving
  <2>3. (\A p \in packets : Genuine(p.msgs))' /\ Genuine(inbox)'
    BY <1>1, <1>2, <1>4 DEF IInv, Circulating, Genuine
  <2> QED BY <2>1, <2>2, <2>3 DEF Circulating
<1>8. RecordsMatch'
  BY <1>1 DEF IInv, RecordsMatch
<1>9. AcksHonest'
  BY <1>1, HasKept DEF IInv, AcksHonest
<1>10. NothingForgotten'
  <2> SUFFICES ASSUME NEW j \in Reliable, NEW id \in 0 .. queued'[j] - 1
               PROVE  id \in unacked'[j] \/ Has(j, id)'
    BY DEF NothingForgotten
  <2>1. CASE id \in 0 .. queued[j] - 1
    BY <1>1, <1>5, <2>1, HasKept DEF IInv, NothingForgotten
  <2>2. CASE id \notin 0 .. queued[j] - 1
    <3>1. j = k /\ id = next_send_id[j]
      BY <1>2, <2>2 DEF Queue, QueueMessage, IInv, Numbered
    <3> QED BY <1>2, <3>1 DEF Queue, QueueMessage
  <2> QED BY <2>1, <2>2
<1> QED BY <1>7, <1>8, <1>9, <1>10 DEF IInv, ReceiverInv

LEMMA StepSendPacket ==
  ASSUME IInv, ReceiverInv', inbox = {},
         NEW o \in SUBSET unacked[ReliableOrdered],
         NEW u \in SUBSET unacked[ReliableUnordered],
         SendPacket(o, u)
  PROVE  IInv'
<1> DEFINE s == next_packet
           recorded == Recorded(o, u)
<1>1. UNCHANGED <<channelReceiving, unacked, queued, inbox, acks>>
  BY DEF SendPacket, Packetize
<1>2. PICK load \in BestEffortLoads, copies \in 1 .. MaxCopies :
        packets' = packets \cup {[seq |-> s, msgs |-> recorded \cup load, copies |-> copies]}
  BY DEF SendPacket
<1>3. /\ Unused(s) /\ s \in PacketSeqs
      /\ in_packet' = IF recorded = {} THEN in_packet ELSE [in_packet EXCEPT ![s] = recorded]
      /\ in_packet \in [PacketSeqs -> SUBSET Entry]
  BY DEF SendPacket, Packetize, IInv, TypeOK, ChannelTypeOK
<1>4. in_packet'[s] = recorded /\ \A x \in PacketSeqs \ {s} : in_packet'[x] = in_packet[x]
  BY <1>3 DEF Unused
<1>5. Genuine(recorded \cup load)
  <2>1. o \subseteq Queued(ReliableOrdered) /\ u \subseteq Queued(ReliableUnordered)
    BY KindFacts DEF IInv, Circulating
  <2>2. Genuine(recorded)
    BY <2>1 DEF Recorded, Tag, Genuine
  <2>3. Genuine(load)
    BY KindFacts DEF BestEffortLoads, Tag, Genuine
  <2> QED BY <2>2, <2>3 DEF Genuine
<1>6. Circulating'
  BY <1>1, <1>2, <1>5 DEF IInv, Circulating, Genuine, Queued, channelReceiving
<1>7. RecordsMatch'
  <2> SUFFICES ASSUME NEW p \in packets' PROVE in_packet'[p.seq] \subseteq p.msgs
    BY DEF RecordsMatch
  <2>1. CASE p \in packets
    <3>1. p.seq # s /\ p.seq \in PacketSeqs
      BY <1>3, <2>1 DEF Unused, IInv, TypeOK, Packet
    <3> QED BY <1>4, <2>1, <3>1 DEF IInv, RecordsMatch
  <2>2. CASE p \notin packets
    BY <1>2, <1>4, <2>2
  <2> QED BY <2>1, <2>2
<1>8. AcksHonest'
  <2> SUFFICES ASSUME NEW x \in acks
               PROVE  /\ in_packet'[x] # {}
                      /\ \A m \in in_packet'[x] : Has(m.channel, m.id)'
    BY <1>1 DEF AcksHonest
  <2>1. x # s /\ x \in PacketSeqs
    BY <1>3 DEF Unused, IInv, AcksHonest, TypeOK
  <2> QED BY <1>1, <1>4, <2>1, HasKept DEF IInv, AcksHonest
<1>9. NothingForgotten'
  BY <1>1, HasKept DEF IInv, NothingForgotten
<1> QED BY <1>6, <1>7, <1>8, <1>9 DEF IInv, ReceiverInv

LEMMA StepNetwork ==
  ASSUME IInv, ReceiverInv', inbox = {}, NEW p \in packets,
         ReceivePacket(p) \/ DropPacket(p)
  PROVE  IInv'
<1>1. UNCHANGED <<channelReceiving, unacked, in_packet, queued>> /\ packets' = Less(p)
      /\ inbox \subseteq inbox'
  BY DEF ReceivePacket, DropPacket, channelVars, channelReceiving
<1>2. \A q \in packets' : \E r \in packets : q.seq = r.seq /\ q.msgs = r.msgs
  BY <1>1, LessFacts DEF IInv, TypeOK
<1>3. inbox' = p.msgs \/ inbox' = inbox
  BY DEF ReceivePacket, DropPacket
<1>4. Circulating'
  <2>1. Genuine(inbox') /\ \A q \in packets' : Genuine(q.msgs)
    BY <1>2, <1>3 DEF IInv, Circulating
  <2> QED BY <1>1, <2>1 DEF IInv, Circulating, Genuine, Queued, channelReceiving
<1>5. RecordsMatch'
  BY <1>1, <1>2 DEF IInv, RecordsMatch
<1>6. AcksHonest'
  <2> SUFFICES ASSUME NEW s \in acks'
               PROVE  /\ in_packet[s] # {}
                      /\ \A m \in in_packet[s] : Has(m.channel, m.id)'
    BY <1>1 DEF AcksHonest
  <2>1. CASE s \in acks
    BY <1>1, <2>1, HasKept DEF IInv, AcksHonest
  <2>2. CASE s \notin acks
    <3>1. s = p.seq /\ in_packet[s] # {} /\ inbox' = p.msgs
      BY <2>2 DEF ReceivePacket, DropPacket
    <3>2. p.seq \in PacketSeqs
      BY DEF IInv, TypeOK, Packet
    <3>3. in_packet[s] \subseteq inbox' /\ in_packet[s] \subseteq Entry
      BY <3>1, <3>2 DEF IInv, RecordsMatch, TypeOK, ChannelTypeOK
    <3>4. \A m \in in_packet[s] : [channel |-> m.channel, id |-> m.id] = m
      BY <3>3 DEF Entry
    <3> QED BY <3>1, <3>3, <3>4 DEF Has
  <2> QED BY <2>1, <2>2
<1>7. NothingForgotten'
  BY <1>1, HasKept DEF IInv, NothingForgotten
<1> QED BY <1>4, <1>5, <1>6, <1>7 DEF IInv, ReceiverInv

LEMMA StepReceiveAcks ==
  ASSUME IInv, ReceiverInv', inbox = {}, NEW seqs \in SUBSET acks, ReceiveAcks(seqs)
  PROVE  IInv'
<1> DEFINE retired(k) ==
             {id \in Ids : \E s \in seqs : [channel |-> k, id |-> id] \in in_packet[s]}
<1>1. /\ UNCHANGED <<channelReceiving, queued, packets, inbox>>
      /\ acks' = acks \ seqs
      /\ unacked' = [k \in Reliable |-> unacked[k] \ retired(k)]
      /\ in_packet' = [s \in PacketSeqs |-> IF s \in seqs THEN {} ELSE in_packet[s]]
  BY DEF ReceiveAcks, OnPacketsAcked
<1>2. \A s \in PacketSeqs : in_packet'[s] \subseteq in_packet[s]
  BY <1>1
<1>3. \A k \in Reliable : \A id \in retired(k) : Has(k, id)
  BY DEF IInv, AcksHonest
<1>4. Circulating'
  BY <1>1 DEF IInv, Circulating, Genuine, Queued, channelReceiving
<1>5. RecordsMatch'
  <2>1. \A p \in packets : p.seq \in PacketSeqs
    BY DEF IInv, TypeOK, Packet
  <2> QED BY <1>1, <1>2, <2>1 DEF IInv, RecordsMatch
<1>6. AcksHonest'
  <2>1. \A s \in acks' : s \in acks /\ s \in PacketSeqs /\ in_packet'[s] = in_packet[s]
    BY <1>1 DEF IInv, TypeOK
  <2> QED BY <1>1, <2>1, HasKept DEF IInv, AcksHonest
<1>7. NothingForgotten'
  <2> SUFFICES ASSUME NEW k \in Reliable, NEW id \in 0 .. queued[k] - 1
               PROVE  id \in unacked'[k] \/ Has(k, id)'
    BY <1>1 DEF NothingForgotten
  <2>1. id \in unacked[k] \/ Has(k, id)
    BY DEF IInv, NothingForgotten
  <2>2. id \in unacked'[k] \/ Has(k, id)
    BY <1>1, <1>3, <2>1
  <2> QED BY <1>1, <2>2, HasKept
<1> QED BY <1>4, <1>5, <1>6, <1>7 DEF IInv, ReceiverInv

LEMMA StepGiveUp ==
  ASSUME IInv, ReceiverInv', inbox = {}, NEW s \in PacketSeqs, GiveUp(s)
  PROVE  IInv'
<1>1. /\ UNCHANGED <<channelReceiving, unacked, queued, packets, inbox>>
      /\ acks' = acks \ {s}
      /\ in_packet' = [in_packet EXCEPT ![s] = {}]
  BY DEF GiveUp, OnPacketLost
<1>2. /\ \A x \in PacketSeqs : in_packet'[x] \subseteq in_packet[x]
      /\ \A x \in PacketSeqs \ {s} : in_packet'[x] = in_packet[x]
  BY <1>1 DEF IInv, TypeOK, ChannelTypeOK
<1>3. Circulating'
  BY <1>1 DEF IInv, Circulating, Genuine, Queued, channelReceiving
<1>4. RecordsMatch'
  <2>1. \A p \in packets : p.seq \in PacketSeqs
    BY DEF IInv, TypeOK, Packet
  <2> QED BY <1>1, <1>2, <2>1 DEF IInv, RecordsMatch
<1>5. AcksHonest'
  <2>1. \A x \in acks' : x \in acks /\ x \in PacketSeqs /\ in_packet'[x] = in_packet[x]
    BY <1>1, <1>2 DEF IInv, TypeOK
  <2> QED BY <1>1, <2>1, HasKept DEF IInv, AcksHonest
<1>6. NothingForgotten'
  BY <1>1, HasKept DEF IInv, NothingForgotten
<1> QED BY <1>3, <1>4, <1>5, <1>6 DEF IInv, ReceiverInv

LEMMA IInvStep ==
  ASSUME CapSuffices, IInv, ReceiverInv, ReceiverInv', [Next]_vars
  PROVE  IInv'
<1>1. CASE UNCHANGED vars
  <2>1. UNCHANGED <<channelReceiving, unacked, in_packet, queued, packets, inbox, acks>>
    BY <1>1 DEF vars, channelVars, channelReceiving
  <2>2. Circulating' /\ RecordsMatch'
    BY <2>1 DEF IInv, Circulating, Genuine, Queued, RecordsMatch, channelReceiving
  <2>3. AcksHonest' /\ NothingForgotten'
    BY <2>1, HasKept DEF IInv, AcksHonest, NothingForgotten
  <2> QED BY <2>2, <2>3 DEF IInv, ReceiverInv
<1> QED
  BY <1>1, StepHandOver, StepQueue, StepSendPacket, StepNetwork, StepReceiveAcks, StepGiveUp
     DEF Next

LEMMA IInvInit == Init => IInv
<1> SUFFICES ASSUME Init PROVE IInv
  OBVIOUS
<1>1. ReceiverInv
  BY InitReceiver
<1>2. Circulating /\ RecordsMatch /\ AcksHonest /\ NothingForgotten
  BY KindFacts DEF Init, ChannelInit, Circulating, Genuine, RecordsMatch, AcksHonest,
                   NothingForgotten, Queued
<1> QED BY <1>1, <1>2 DEF IInv, ReceiverInv

(* Nothing is forgotten: whatever the network loses, duplicates, reorders  *)
(* or delays, and however packets are given up, a reliable message is      *)
(* retransmitted until the receiver has it - for any number of messages,   *)
(* packets and copies, as long as the cap on held-back messages suffices   *)
(* (channel.rs:321-335, 341-424).                                          *)
THEOREM NothingIsForgotten ==
  ASSUME CapSuffices
  PROVE  Spec => []NothingForgotten
<1>1. Init => IInv
  BY IInvInit
<1>2. IInv /\ ReceiverInv /\ ReceiverInv' /\ [Next]_vars => IInv'
  BY CapSuffices, IInvStep
<1>3. IInv => NothingForgotten
  BY DEF IInv
<1> QED BY <1>1, <1>2, <1>3, ReceiverInvariant, PTL DEF Spec

-----------------------------------------------------------------------------
(* The channels keep their promise: ChannelExchange implements             *)
(* ReliableDelivery, each HandOver delivering what the promise allows or   *)
(* nothing.                                                                *)

(* A sequenced id and the newest one seen are never half the id space      *)
(* apart: 2^31 messages in the code (channel.rs:355-358).                  *)
SequencedFits == MaxSend[UnreliableSequenced] <= IdMod \div 2

(* There is room to mark what arrives out of order on the unordered        *)
(* channel.  Without a mark a duplicate is delivered again: the cap bounds *)
(* memory at the price of the promise.                                     *)
MarksFit ==
  \A m \in inbox :
    m.channel = ReliableUnordered /\ m.id > next_expect_id[ReliableUnordered]
      /\ m.id \notin seen_above
    => Cardinality(seen_above) < MaxBuffered

(* Only queued ids circulate, on all four channels.                        *)
AllQueued(msgs) == \A m \in msgs : m.id \in Queued(m.channel)
Authentic ==
  /\ \A k \in Kinds : next_send_id[k] <= queued[k] /\ queued[k] <= MaxSend[k]
  /\ \A k \in Reliable : unacked[k] \subseteq Queued(k)
  /\ \A k \in BestEffort : unreliable_queue[k] \subseteq Queued(k)
  /\ \A p \in packets : AllQueued(p.msgs)
  /\ AllQueued(inbox)
  /\ ordered_buffer \subseteq Queued(ReliableOrdered)
  /\ seen_above \subseteq Queued(ReliableUnordered)

(* What the receiver keeps says exactly what has been delivered.           *)
UpTo(n) == [i \in 1 .. n |-> i - 1]
OrderedSoFar == delivered[ReliableOrdered] = UpTo(next_expect_id[ReliableOrdered])
UnorderedSoFar ==
  Came(ReliableUnordered) \subseteq (0 .. next_expect_id[ReliableUnordered] - 1) \cup seen_above
SequencedSoFar ==
  IF highest_seen = NoneSeen THEN Came(UnreliableSequenced) = {}
  ELSE /\ highest_seen \in Queued(UnreliableSequenced)
       /\ \A x \in Came(UnreliableSequenced) : x \in Nat /\ x <= highest_seen

PInv == Authentic /\ OrderedSoFar /\ UnorderedSoFar /\ SequencedSoFar

LEMMA InitPromise == Init => PInv /\ Promise!Init
<1> SUFFICES ASSUME Init PROVE PInv /\ Promise!Init
  OBVIOUS
<1>1. Authentic
  BY KindFacts, ChannelAssumption
     DEF Init, ChannelInit, Authentic, AllQueued, Queued
<1>2. delivered = [k \in Kinds |-> <<>>] /\ queued = [k \in Kinds |-> 0]
      /\ highest_seen = NoneSeen /\ next_expect_id = [k \in Reliable |-> 0]
  BY DEF Init, ChannelInit
<1>3. OrderedSoFar
  BY <1>2, KindFacts DEF OrderedSoFar, UpTo
<1>4. UnorderedSoFar /\ SequencedSoFar
  BY <1>2, KindFacts DEF UnorderedSoFar, SequencedSoFar, Came
<1>5. Promise!Channels = Kinds
  BY KindFacts DEF Promise!Channels
<1>6. Promise!Init
  BY <1>2, <1>5 DEF Promise!Init
<1> QED BY <1>1, <1>3, <1>4, <1>6 DEF PInv

-----------------------------------------------------------------------------
(* Authentic is an invariant by itself.                                    *)

LEMMA AuthenticHandOver ==
  ASSUME ReceiverInv, Authentic, HandOver
  PROVE  Authentic'
<1>1. PICK m \in inbox :
        /\ OnReceiveMessage(m)
        /\ inbox' = inbox \ {m}
        /\ UNCHANGED <<channelSending, next_packet, packets, acks>>
  BY DEF HandOver
<1>2. UNCHANGED <<next_send_id, unacked, unreliable_queue, queued, packets>>
  BY <1>1 DEF channelSending
<1>3. m \in Message
  BY DEF ReceiverInv, TypeOK
<1>4. \/ m.channel = ReliableOrdered /\ UNCHANGED seen_above
         /\ ordered_buffer' \subseteq ordered_buffer \cup {m.id}
      \/ m.channel = ReliableUnordered /\ UNCHANGED ordered_buffer
         /\ seen_above' \subseteq seen_above \cup {m.id}
      \/ UNCHANGED <<ordered_buffer, seen_above>>
  BY <1>1 DEF OnReceiveMessage, ReceiveUnreliable, ReceiveSequenced, ReceiveUnordered,
              ReceiveOrdered
<1>5. m.id \in Queued(m.channel)
  BY DEF Authentic, AllQueued
<1>6. ordered_buffer' \subseteq Queued(ReliableOrdered)
      /\ seen_above' \subseteq Queued(ReliableUnordered)
  BY <1>4, <1>5 DEF Authentic
<1> QED BY <1>1, <1>2, <1>6 DEF Authentic, AllQueued, Queued

LEMMA AuthenticQueue ==
  ASSUME ReceiverInv, Authentic, NEW k \in Kinds, Queue(k)
  PROVE  Authentic'
<1>1. UNCHANGED <<ordered_buffer, seen_above, packets, inbox>>
  BY DEF Queue, channelReceiving, exchangeVars
<1>2. /\ queued \in [Kinds -> Nat] /\ next_send_id \in [Kinds -> Ids]
      /\ unacked \in [Reliable -> SUBSET Ids] /\ unreliable_queue \in [BestEffort -> SUBSET Ids]
      /\ packets \subseteq Packet /\ inbox \subseteq Message
  BY DEF ReceiverInv, TypeOK, ChannelTypeOK
<1> DEFINE id == next_send_id[k]
<1>3. /\ queued[k] < MaxSend[k]
      /\ next_send_id' = [next_send_id EXCEPT ![k] = (id + 1) % IdMod]
      /\ queued' = [queued EXCEPT ![k] = @ + 1]
  BY DEF Queue, QueueMessage
<1>4. id \in Nat /\ (id + 1) % IdMod <= id + 1 /\ id <= queued[k] /\ MaxSend[k] \in Nat
  BY <1>2, ChannelAssumption DEF Ids, Authentic
<1>5. \A j \in Kinds : next_send_id'[j] <= queued'[j] /\ queued'[j] <= MaxSend[j]
  <2>1. next_send_id'[k] = (id + 1) % IdMod /\ queued'[k] = queued[k] + 1
    BY <1>2, <1>3
  <2>2. next_send_id'[k] <= queued'[k] /\ queued'[k] <= MaxSend[k]
    <3>1. (id + 1) % IdMod \in Int /\ queued[k] \in Nat
      BY <1>2, <1>4, ChannelAssumption
    <3> QED BY <1>3, <1>4, <2>1, <3>1
  <2>3. \A j \in Kinds \ {k} : next_send_id'[j] = next_send_id[j] /\ queued'[j] = queued[j]
    BY <1>2, <1>3
  <2> QED BY <2>2, <2>3 DEF Authentic
<1>6. id \in Queued(k)' /\ \A j \in Kinds : Queued(j) \subseteq Queued(j)'
  BY <1>2, <1>3, <1>4 DEF Queued
<1>7. \A j \in Reliable : unacked'[j] \subseteq unacked[j] \cup {x \in {id} : j = k}
  BY <1>2 DEF Queue, QueueMessage
<1>8. \A j \in BestEffort :
        unreliable_queue'[j] \subseteq unreliable_queue[j] \cup {x \in {id} : j = k}
  BY <1>2 DEF Queue, QueueMessage
<1> HIDE DEF id
<1>9. /\ \A j \in Reliable : unacked'[j] \subseteq Queued(j)'
      /\ \A j \in BestEffort : unreliable_queue'[j] \subseteq Queued(j)'
  BY <1>6, <1>7, <1>8, KindFacts DEF Authentic
<1>10. \A msgs : msgs \subseteq Message /\ AllQueued(msgs) => AllQueued(msgs)'
  BY <1>6 DEF AllQueued, Message
<1>11. AllQueued(inbox)' /\ \A p \in packets : AllQueued(p.msgs)'
  BY <1>1, <1>2, <1>10 DEF Authentic, Packet
<1>12. ordered_buffer' \subseteq Queued(ReliableOrdered)'
       /\ seen_above' \subseteq Queued(ReliableUnordered)'
  BY <1>1, <1>6, KindFacts DEF Authentic
<1> QED BY <1>1, <1>5, <1>9, <1>11, <1>12 DEF Authentic

LEMMA AuthenticSendPacket ==
  ASSUME ReceiverInv, Authentic, NEW o \in SUBSET unacked[ReliableOrdered],
         NEW u \in SUBSET unacked[ReliableUnordered], SendPacket(o, u)
  PROVE  Authentic'
<1>1. UNCHANGED <<ordered_buffer, seen_above, inbox, next_send_id, unacked, queued>>
      /\ unreliable_queue' = [k \in BestEffort |-> {}]
  BY DEF SendPacket, Packetize, channelReceiving
<1>2. PICK load \in BestEffortLoads, copies \in 1 .. MaxCopies :
        packets' = packets \cup {[seq |-> next_packet, msgs |-> Recorded(o, u) \cup load,
                                  copies |-> copies]}
  BY DEF SendPacket
<1>3. AllQueued(Recorded(o, u))
  BY KindFacts DEF Authentic, Recorded, Tag, AllQueued
<1>4. AllQueued(load)
  BY KindFacts DEF Authentic, BestEffortLoads, Tag, AllQueued
<1>5. \A p \in packets' : AllQueued(p.msgs)
  BY <1>2, <1>3, <1>4 DEF Authentic, AllQueued
<1> QED BY <1>1, <1>5 DEF Authentic, AllQueued, Queued

LEMMA AuthenticStep ==
  ASSUME ReceiverInv, Authentic, [Next]_vars
  PROVE  Authentic'
<1>1. ASSUME NEW p \in packets, ReceivePacket(p) \/ DropPacket(p) PROVE Authentic'
  <2>1. UNCHANGED channelVars /\ packets' = Less(p) /\ inbox' \in {inbox, p.msgs}
    BY <1>1 DEF ReceivePacket, DropPacket
  <2>2. \A q \in packets' : \E r \in packets : q.msgs = r.msgs
    BY <2>1, LessFacts DEF ReceiverInv, TypeOK
  <2> QED BY <2>1, <2>2 DEF Authentic, AllQueued, Queued, channelVars
<1>2. ASSUME UNCHANGED <<channelReceiving, next_send_id, unreliable_queue, queued, packets, inbox>>,
             \A k \in Reliable : unacked'[k] \subseteq unacked[k]
      PROVE  Authentic'
  BY <1>2 DEF Authentic, AllQueued, Queued, channelReceiving
<1>3. ASSUME NEW seqs \in SUBSET acks, ReceiveAcks(seqs) PROVE Authentic'
  BY <1>2, <1>3 DEF ReceiveAcks, OnPacketsAcked
<1>4. ASSUME NEW s \in PacketSeqs, GiveUp(s) PROVE Authentic'
  BY <1>2, <1>4 DEF GiveUp, OnPacketLost
<1>5. CASE UNCHANGED vars
  BY <1>2, <1>5 DEF vars, channelVars, channelReceiving
<1> QED
  BY <1>1, <1>3, <1>4, <1>5, AuthenticHandOver, AuthenticQueue, AuthenticSendPacket DEF Next

-----------------------------------------------------------------------------
(* Each HandOver is a delivery of the promise, or a stutter.               *)

LEMMA AsFunction ==
  ASSUME NEW s \in Seq(Int)
  PROVE  s = [i \in 1 .. Len(s) |-> s[i]]
OBVIOUS

LEMMA Joined ==
  ASSUME NEW a \in Nat, NEW b \in Nat, a <= b
  PROVE  UpTo(a) \o [i \in 1 .. b - a |-> a + i - 1] = UpTo(b)
<1> DEFINE old == UpTo(a)
           run == [i \in 1 .. b - a |-> a + i - 1]
<1>1. old \in Seq(Int) /\ run \in Seq(Int) /\ Len(old) = a /\ Len(run) = b - a
  BY DEF UpTo
<1>2. \A i \in 1 .. a : old[i] = i - 1
  BY DEF UpTo
<1>3. \A i \in 1 .. b - a : run[i] = a + i - 1
  OBVIOUS
<1> HIDE DEF old, run
<1>4. old \o run \in Seq(Int) /\ Len(old \o run) = b
  BY <1>1
<1> DEFINE both == old \o run
<1>5. \A i \in 1 .. b : both[i] = i - 1
  <2>1. \A i \in 1 .. Len(old) : both[i] = old[i]
    BY <1>1
  <2>2. \A i \in 1 .. Len(run) : both[i + Len(old)] = run[i]
    BY <1>1
  <2> HIDE DEF both
  <2> TAKE i \in 1 .. b
  <2>3. CASE i <= a
    <3>1. i \in 1 .. a
      BY <2>3
    <3> QED BY <1>1, <1>2, <2>1, <3>1
  <2>4. CASE i > a
    <3>1. PICK j \in 1 .. b - a : i = j + a
      <4>1. i - a \in 1 .. b - a /\ i = (i - a) + a
        BY <2>4
      <4> QED BY <4>1
    <3>2. both[j + a] = run[j] /\ run[j] = a + j - 1
      BY <1>1, <1>3, <2>2
    <3>3. a + j - 1 = i - 1
      BY <3>1
    <3> QED BY <3>1, <3>2, <3>3, Zenon
  <2>5. i <= a \/ i > a
    OBVIOUS
  <2> QED BY <2>3, <2>4, <2>5, Zenon
<1>6. both = [i \in 1 .. b |-> both[i]]
  <2>1. both \in Seq(Int) /\ Len(both) = b
    BY <1>4
  <2> HIDE DEF both
  <2> QED BY <2>1, AsFunction
<1> HIDE DEF both
<1>7. both = UpTo(b)
  BY <1>5, <1>6 DEF UpTo
<1> QED BY <1>7 DEF both, old, run

LEMMA OrderedKept ==
  ASSUME ReceiverTypeOK, Authentic, OrderedSoFar, queued \in [Kinds -> Nat],
         NEW id \in Queued(ReliableOrdered), id \in Ids, ReceiveOrdered(id), UNCHANGED queued
  PROVE  /\ OrderedSoFar'
         /\ \A j \in Kinds \ {ReliableOrdered} : delivered'[j] = delivered[j]
         /\ Promise!DeliverOrdered \/ UNCHANGED Promise!vars
<1> DEFINE k == ReliableOrdered
           n == FirstGap(id + 1, ordered_buffer)
           run == [i \in 1 .. n - id |-> id + i - 1]
<1>1. k \in Kinds /\ k \in Reliable
  BY KindFacts
<1>2. CASE UNCHANGED <<next_expect_id, delivered>>
  BY <1>2 DEF OrderedSoFar, Promise!vars, Came
<1>3. CASE /\ id = next_expect_id[k]
           /\ Deliver(k, run)
           /\ next_expect_id' = [next_expect_id EXCEPT ![k] = n]
  <2>1. id + 1 \in 0 .. IdMod /\ id \in Nat
    BY ChannelAssumption DEF Ids
  <2>2. n \in id + 1 .. IdMod /\ \A i \in id + 1 .. n - 1 : i \in ordered_buffer
    BY <2>1, FirstGapProperties DEF ReceiverTypeOK
  <2> HIDE DEF n
  <2>3. n \in Nat /\ id <= n
    BY <2>1, <2>2, ChannelAssumption
  <2>4. n <= queued[k]
    <3>1. queued[k] \in Nat
      BY <1>1
    <3>2. CASE n = id + 1
      BY <2>1, <3>1, <3>2 DEF Queued
    <3>3. CASE n # id + 1
      <4>1. n - 1 \in ordered_buffer
        BY <2>1, <2>2, <2>3, <3>3
      <4> QED BY <2>3, <3>1, <4>1 DEF Authentic, Queued
    <3> QED BY <3>2, <3>3
  <2>5. delivered[k] = UpTo(id)
    BY <1>3 DEF OrderedSoFar
  <2>6. delivered' = [delivered EXCEPT ![k] = UpTo(n)]
    BY <1>3, <2>1, <2>3, <2>5, Joined DEF Deliver
  <2>7. delivered'[k] = UpTo(n) /\ next_expect_id'[k] = n
        /\ \A j \in Kinds \ {k} : delivered'[j] = delivered[j]
    BY <1>1, <1>3, <2>6 DEF ReceiverTypeOK
  <2>8. OrderedSoFar'
    BY <2>7 DEF OrderedSoFar
  <2>9. Len(delivered[k]) = id
    BY <2>1, <2>5 DEF UpTo
  <2>10. n \in Len(delivered[k]) + 1 .. queued[k]
    BY <1>1, <2>1, <2>2, <2>3, <2>4, <2>9
  <2>11. Promise!DeliverOrdered
    BY <2>6, <2>10 DEF Promise!DeliverOrdered, UpTo
  <2> QED BY <2>7, <2>8, <2>11
<1> QED BY <1>2, <1>3 DEF ReceiveOrdered

LEMMA UnorderedKept ==
  ASSUME ReceiverTypeOK, ContiguousCame, UnorderedSoFar, BuffersBeyondGap, queued \in [Kinds -> Nat],
         NEW id \in Queued(ReliableUnordered), id \in Ids, ReceiveUnordered(id), UNCHANGED queued,
         id > next_expect_id[ReliableUnordered] /\ id \notin seen_above
           => Cardinality(seen_above) < MaxBuffered
  PROVE  /\ UnorderedSoFar'
         /\ \A j \in Kinds \ {ReliableUnordered} : delivered'[j] = delivered[j]
         /\ Promise!DeliverUnordered \/ UNCHANGED Promise!vars
<1> DEFINE k == ReliableUnordered
           n == FirstGap(id + 1, seen_above)
<1>1. k \in Kinds /\ k \in Reliable /\ <<id>> \in Seq(Ids) /\ Len(<<id>>) = 1 /\ <<id>>[1] = id
  BY KindFacts
<1>2. CASE UNCHANGED <<next_expect_id, seen_above, delivered>>
  BY <1>2 DEF UnorderedSoFar, Promise!vars, Came
<1>3. ASSUME Deliver(k, <<id>>), id >= next_expect_id[k], id \notin seen_above
      PROVE  /\ Came(k)' = Came(k) \cup {id}
             /\ \A j \in Kinds \ {k} : delivered'[j] = delivered[j]
             /\ Promise!DeliverUnordered
  <2>1. {<<id>>[i] : i \in 1 .. Len(<<id>>)} = {id}
    BY <1>1
  <2>2. Came(k)' = Came(k) \cup {id}
    BY <2>1, <1>1, <1>3, DeliverFacts DEF ReceiverTypeOK
  <2>3. \A j \in Kinds \ {k} : delivered'[j] = delivered[j]
    BY <1>3 DEF Deliver, ReceiverTypeOK
  <2>4. id \notin Came(k)
    BY <1>1, <1>3 DEF UnorderedSoFar, ReceiverTypeOK, Ids
  <2>5. delivered' = [delivered EXCEPT ![k] = Append(@, id)]
    <3>1. delivered[k] \in Seq(Ids)
      BY <1>1 DEF ReceiverTypeOK
    <3>2. delivered[k] \o <<id>> = Append(delivered[k], id)
      BY <3>1
    <3> QED BY <1>3, <3>2 DEF Deliver
  <2>6. Promise!DeliverUnordered
    BY <2>4, <2>5 DEF Promise!DeliverUnordered, Promise!Came, Came, Queued
  <2> QED BY <2>2, <2>3, <2>6
<1>4. CASE /\ id = next_expect_id[k] /\ id \notin seen_above
           /\ Deliver(k, <<id>>)
           /\ next_expect_id' = [next_expect_id EXCEPT ![k] = n]
           /\ seen_above' = seen_above \ (id .. n - 1)
  <2>1. id + 1 \in 0 .. IdMod /\ id \in Nat
    BY ChannelAssumption DEF Ids
  <2>2. n \in id + 1 .. IdMod
    BY <2>1, FirstGapProperties DEF ReceiverTypeOK
  <2> HIDE DEF n
  <2>3. n \in Nat /\ next_expect_id'[k] = n
    BY <1>1, <1>4, <2>1, <2>2, ChannelAssumption DEF ReceiverTypeOK
  <2>4. Came(k) \subseteq (0 .. id - 1) \cup seen_above
    BY <1>4 DEF UnorderedSoFar
  <2>5. seen_above \subseteq Nat
    BY ChannelAssumption DEF ReceiverTypeOK, Ids
  <2>6. (0 .. id - 1) \cup {id} \cup seen_above \subseteq (0 .. n - 1) \cup seen_above'
    BY <1>4, <2>1, <2>2, <2>3, <2>5
  <2>7. UnorderedSoFar'
    BY <1>3, <1>4, <2>1, <2>3, <2>4, <2>6 DEF UnorderedSoFar
  <2> QED BY <1>3, <1>4, <2>1, <2>7
<1>5. CASE /\ id > next_expect_id[k] /\ id \notin seen_above
           /\ Deliver(k, <<id>>)
           /\ seen_above' = IF Cardinality(seen_above) < MaxBuffered
                            THEN seen_above \cup {id} ELSE seen_above
           /\ UNCHANGED next_expect_id
  <2>1. id >= next_expect_id[k]
    BY <1>1, <1>5 DEF ReceiverTypeOK, Ids
  <2>2. UnorderedSoFar'
    BY <1>3, <1>5, <2>1 DEF UnorderedSoFar
  <2> QED BY <1>3, <1>5, <2>1, <2>2
<1> QED BY <1>2, <1>4, <1>5 DEF ReceiveUnordered

(* Delivering one id on a channel, as the promise words it.                *)
LEMMA DeliverOne ==
  ASSUME delivered \in [Kinds -> Seq(Ids)], NEW k \in Kinds, NEW id \in Ids, Deliver(k, <<id>>)
  PROVE  /\ delivered' = [delivered EXCEPT ![k] = Append(@, id)]
         /\ Came(k)' = Came(k) \cup {id}
         /\ \A j \in Kinds \ {k} : delivered'[j] = delivered[j]
<1>1. <<id>> \in Seq(Ids) /\ {<<id>>[i] : i \in 1 .. Len(<<id>>)} = {id}
  OBVIOUS
<1>2. Came(k)' = Came(k) \cup {id}
  BY <1>1, DeliverFacts
<1>3. delivered[k] \in Seq(Ids) /\ delivered[k] \o <<id>> = Append(delivered[k], id)
  OBVIOUS
<1> QED BY <1>2, <1>3 DEF Deliver

(* Below half the id space apart, the wrapping comparison is the plain one.*)
LEMMA NewerIsGreater ==
  ASSUME SequencedFits, queued[UnreliableSequenced] \in Nat,
         queued[UnreliableSequenced] <= MaxSend[UnreliableSequenced],
         NEW id \in Queued(UnreliableSequenced), NEW h \in Queued(UnreliableSequenced),
         IsNewerId(id, h)
  PROVE  id > h
<1> DEFINE half == IdMod \div 2
           d == (id - h) % IdMod
<1>1. IdMod \in Nat \ {0} /\ MaxSend[UnreliableSequenced] \in Nat
  BY ChannelAssumption, KindFacts
<1>2. half \in Nat /\ 2 * half <= IdMod /\ (IdMod - 1) \div 2 <= half
  BY <1>1
<1>3. id \in Nat /\ h \in Nat /\ id < half /\ h < half
  BY <1>1, <1>2 DEF Queued, SequencedFits
<1>4. d # 0 /\ d < (IdMod - 1) \div 2
  BY DEF IsNewerId
<1> SUFFICES ASSUME id <= h PROVE FALSE
  BY <1>3
<1>5. CASE id = h
  <2>1. d = 0
    BY <1>1, <1>3, <1>5
  <2> QED BY <1>4, <2>1
<1>6. CASE id < h
  <2>1. id - h + IdMod \in 0 .. IdMod - 1
    BY <1>1, <1>2, <1>3, <1>6
  <2>2. d = id - h + IdMod
    BY <1>1, <1>3, <2>1
  <2>3. (IdMod - 1) \div 2 \in Int /\ d \in Int
    BY <1>1, <1>3, <2>2
  <2> HIDE DEF d, half
  <2> QED BY <1>1, <1>2, <1>3, <1>4, <2>2, <2>3
<1> QED BY <1>3, <1>5, <1>6

LEMMA SequencedKept ==
  ASSUME ReceiverTypeOK, Authentic, SequencedSoFar, SequencedFits, queued \in [Kinds -> Nat],
         NEW id \in Queued(UnreliableSequenced), id \in Ids, ReceiveSequenced(id), UNCHANGED queued
  PROVE  /\ SequencedSoFar'
         /\ \A j \in Kinds \ {UnreliableSequenced} : delivered'[j] = delivered[j]
         /\ Promise!DeliverSequenced \/ UNCHANGED Promise!vars
<1> DEFINE k == UnreliableSequenced
<1>1. k \in Kinds /\ id \in Nat /\ id # NoneSeen
  BY KindFacts, ChannelAssumption DEF Ids, NoneSeen
<1>2. CASE UNCHANGED <<highest_seen, delivered>>
  BY <1>2 DEF SequencedSoFar, Came, Queued, Promise!vars
<1>3. CASE /\ highest_seen = NoneSeen \/ IsNewerId(id, highest_seen)
           /\ highest_seen' = id
           /\ Deliver(k, <<id>>)
  <2>1. /\ delivered' = [delivered EXCEPT ![k] = Append(@, id)]
        /\ Came(k)' = Came(k) \cup {id}
        /\ \A j \in Kinds \ {k} : delivered'[j] = delivered[j]
    BY <1>1, <1>3, DeliverOne DEF ReceiverTypeOK
  <2>2. \A x \in Came(k) : x \in Nat /\ id > x
    <3>1. CASE highest_seen = NoneSeen
      BY <3>1 DEF SequencedSoFar
    <3>2. CASE highest_seen # NoneSeen
      <4>1. highest_seen \in Queued(k) /\ highest_seen \in Nat
        BY <3>2 DEF SequencedSoFar, Queued
      <4>2. id > highest_seen
        BY <1>1, <1>3, <3>2, <4>1, NewerIsGreater DEF Authentic
      <4> QED BY <1>1, <3>2, <4>1, <4>2 DEF SequencedSoFar
    <3> QED BY <3>1, <3>2
  <2>3. SequencedSoFar'
    <3>1. \A x \in Came(k)' : x \in Nat /\ x <= id
      BY <1>1, <2>1, <2>2
    <3> QED BY <1>1, <1>3, <3>1 DEF SequencedSoFar, Queued
  <2>4. Promise!DeliverSequenced
    BY <2>1, <2>2 DEF Promise!DeliverSequenced, Promise!Came, Came, Queued
  <2> QED BY <2>1, <2>3, <2>4
<1> QED BY <1>2, <1>3 DEF ReceiveSequenced

LEMMA UnreliableKept ==
  ASSUME ReceiverTypeOK, NEW id \in Queued(Unreliable), id \in Ids, ReceiveUnreliable(id),
         UNCHANGED queued
  PROVE  /\ \A j \in Kinds \ {Unreliable} : delivered'[j] = delivered[j]
         /\ Promise!DeliverUnreliable
<1>1. /\ delivered' = [delivered EXCEPT ![Unreliable] = Append(@, id)]
      /\ \A j \in Kinds \ {Unreliable} : delivered'[j] = delivered[j]
  BY KindFacts, DeliverOne DEF ReceiverTypeOK, ReceiveUnreliable
<1> QED BY <1>1 DEF Promise!DeliverUnreliable, Queued

(* What a step leaves alone it leaves as promised.                         *)
LEMMA StillOrdered ==
  ASSUME OrderedSoFar, next_expect_id'[ReliableOrdered] = next_expect_id[ReliableOrdered],
         delivered'[ReliableOrdered] = delivered[ReliableOrdered]
  PROVE  OrderedSoFar'
BY DEF OrderedSoFar
LEMMA StillUnordered ==
  ASSUME UnorderedSoFar, UNCHANGED seen_above,
         next_expect_id'[ReliableUnordered] = next_expect_id[ReliableUnordered],
         delivered'[ReliableUnordered] = delivered[ReliableUnordered]
  PROVE  UnorderedSoFar'
BY DEF UnorderedSoFar, Came
LEMMA StillSequenced ==
  ASSUME SequencedSoFar, UNCHANGED highest_seen,
         Queued(UnreliableSequenced) \subseteq Queued(UnreliableSequenced)',
         delivered'[UnreliableSequenced] = delivered[UnreliableSequenced]
  PROVE  SequencedSoFar'
BY DEF SequencedSoFar, Came

LEMMA PromiseHandOver ==
  ASSUME SequencedFits, MarksFit, ReceiverInv, PInv, HandOver
  PROVE  /\ OrderedSoFar' /\ UnorderedSoFar' /\ SequencedSoFar'
         /\ Promise!Next \/ UNCHANGED Promise!vars
<1>1. PICK m \in inbox :
        /\ OnReceiveMessage(m)
        /\ UNCHANGED channelSending
  BY DEF HandOver
<1>2. UNCHANGED queued /\ \A k : Queued(k)' = Queued(k)
  BY <1>1 DEF channelSending, Queued
<1>3. m.id \in Ids /\ m.id \in Queued(m.channel) /\ queued \in [Kinds -> Nat] /\ ReceiverTypeOK
  BY DEF ReceiverInv, TypeOK, ChannelTypeOK, ReceiverTypeOK, Message, PInv, Authentic, AllQueued
<1>4. /\ ReliableOrdered \in Kinds /\ ReliableUnordered \in Kinds
      /\ UnreliableSequenced \in Kinds /\ Unreliable \in Kinds
      /\ ReliableOrdered # ReliableUnordered /\ ReliableOrdered # UnreliableSequenced
      /\ ReliableOrdered # Unreliable /\ ReliableUnordered # UnreliableSequenced
      /\ ReliableUnordered # Unreliable /\ UnreliableSequenced # Unreliable
      /\ Reliable = {ReliableOrdered, ReliableUnordered}
  BY KindFacts
<1>5. CASE m.channel = Unreliable /\ ReceiveUnreliable(m.id)
  <2>1. UNCHANGED <<next_expect_id, seen_above, highest_seen>>
    BY <1>5 DEF ReceiveUnreliable
  <2>2. /\ \A j \in Kinds \ {Unreliable} : delivered'[j] = delivered[j]
        /\ Promise!DeliverUnreliable
    BY <1>2, <1>3, <1>5, UnreliableKept
  <2> QED BY <1>2, <1>4, <2>1, <2>2, StillOrdered, StillUnordered, StillSequenced
          DEF PInv, Promise!Next
<1>6. CASE m.channel = UnreliableSequenced /\ ReceiveSequenced(m.id)
  <2>1. UNCHANGED <<next_expect_id, seen_above>>
    BY <1>6 DEF ReceiveSequenced
  <2>2. /\ SequencedSoFar'
        /\ \A j \in Kinds \ {UnreliableSequenced} : delivered'[j] = delivered[j]
        /\ Promise!DeliverSequenced \/ UNCHANGED Promise!vars
    BY <1>2, <1>3, <1>6, SequencedKept DEF PInv
  <2> QED BY <1>4, <2>1, <2>2, StillOrdered, StillUnordered DEF PInv, Promise!Next
<1>7. CASE m.channel = ReliableUnordered /\ ReceiveUnordered(m.id)
  <2>1. UNCHANGED highest_seen
        /\ next_expect_id'[ReliableOrdered] = next_expect_id[ReliableOrdered]
    BY <1>4, <1>7, <1>3 DEF ReceiveUnordered, ReceiverTypeOK
  <2>2. m.id > next_expect_id[ReliableUnordered] /\ m.id \notin seen_above
        => Cardinality(seen_above) < MaxBuffered
    BY <1>7 DEF MarksFit
  <2>3. /\ UnorderedSoFar'
        /\ \A j \in Kinds \ {ReliableUnordered} : delivered'[j] = delivered[j]
        /\ Promise!DeliverUnordered \/ UNCHANGED Promise!vars
    BY <1>2, <1>3, <1>7, <2>2, UnorderedKept DEF PInv, ReceiverInv
  <2> QED BY <1>2, <1>4, <2>1, <2>3, StillOrdered, StillSequenced DEF PInv, Promise!Next
<1>8. CASE m.channel = ReliableOrdered /\ ReceiveOrdered(m.id)
  <2>1. UNCHANGED <<seen_above, highest_seen>>
        /\ next_expect_id'[ReliableUnordered] = next_expect_id[ReliableUnordered]
    BY <1>4, <1>8, <1>3 DEF ReceiveOrdered, ReceiverTypeOK
  <2>2. /\ OrderedSoFar'
        /\ \A j \in Kinds \ {ReliableOrdered} : delivered'[j] = delivered[j]
        /\ Promise!DeliverOrdered \/ UNCHANGED Promise!vars
    BY <1>2, <1>3, <1>8, OrderedKept DEF PInv
  <2> QED BY <1>2, <1>4, <2>1, <2>2, StillUnordered, StillSequenced DEF PInv, Promise!Next
<1> QED BY <1>1, <1>5, <1>6, <1>7, <1>8 DEF OnReceiveMessage

(* The other steps queue a message, or mean nothing to the promise.        *)
LEMMA PromiseStep ==
  ASSUME SequencedFits, MarksFit, ReceiverInv, PInv, [Next]_vars
  PROVE  PInv' /\ [Promise!Next]_(Promise!vars)
<1>1. Authentic'
  BY AuthenticStep DEF PInv
<1>2. CASE HandOver
  BY <1>1, <1>2, PromiseHandOver DEF PInv
<1>3. ASSUME UNCHANGED channelReceiving, Queued(UnreliableSequenced) \subseteq Queued(UnreliableSequenced)'
      PROVE  PInv'
  BY <1>1, <1>3, StillOrdered, StillUnordered, StillSequenced DEF PInv, channelReceiving
<1>4. ASSUME NEW k \in Kinds, Queue(k) PROVE PInv' /\ Promise!Next
  <2>1. UNCHANGED channelReceiving /\ queued' = [queued EXCEPT ![k] = @ + 1]
    BY <1>4 DEF Queue, QueueMessage
  <2>2. queued \in [Kinds -> Nat] /\ UnreliableSequenced \in Kinds
    BY KindFacts DEF ReceiverInv, TypeOK, ChannelTypeOK
  <2>3. Queued(UnreliableSequenced) \subseteq Queued(UnreliableSequenced)'
    BY <2>1, <2>2 DEF Queued
  <2>4. k \in Promise!Channels
    BY KindFacts DEF Promise!Channels
  <2>5. Promise!Queue(k)
    BY <2>1 DEF Promise!Queue, channelReceiving
  <2> QED BY <1>3, <2>1, <2>3, <2>4, <2>5 DEF Promise!Next
<1>5. ASSUME UNCHANGED <<channelReceiving, queued>>
      PROVE  PInv' /\ UNCHANGED Promise!vars
  <2>1. Queued(UnreliableSequenced)' = Queued(UnreliableSequenced)
    BY <1>5 DEF Queued
  <2> QED BY <1>3, <1>5, <2>1 DEF Promise!vars, channelReceiving
<1>6. ASSUME \/ \E o, u : SendPacket(o, u)
             \/ \E p : ReceivePacket(p) \/ DropPacket(p)
             \/ \E seqs : ReceiveAcks(seqs)
             \/ \E s : GiveUp(s)
             \/ UNCHANGED vars
      PROVE  UNCHANGED <<channelReceiving, queued>>
  BY <1>6 DEF SendPacket, Packetize, ReceivePacket, DropPacket, ReceiveAcks, OnPacketsAcked,
              GiveUp, OnPacketLost, vars, channelVars, channelReceiving
<1> QED BY <1>2, <1>4, <1>5, <1>6 DEF Next

(* The four channels keep their promise (channel.rs:21-32): the ordered    *)
(* one delivers 0, 1, 2, ... without a gap, the unordered one each message *)
(* once, the sequenced one only newer and newer ones, and none of them a   *)
(* message that was not queued - whatever the network does, as long as     *)
(* half the sequenced id space and the cap on marks are not exceeded.      *)
THEOREM PromiseKept ==
  ASSUME SequencedFits
  PROVE  Spec /\ []MarksFit => Delivers
<1>1. Init => PInv /\ Promise!Init
  BY InitPromise
<1>2. ReceiverInv /\ MarksFit /\ PInv /\ [Next]_vars => PInv' /\ [Promise!Next]_(Promise!vars)
  BY SequencedFits, PromiseStep
<1> QED BY <1>1, <1>2, ReceiverInvariant, PTL DEF Spec, Delivers, Promise!Spec

(* The cap on marks is never exceeded when it is at most one less than the *)
(* messages queued: what waits lies strictly between the gap and them.     *)
MarksSuffice == MaxSend[ReliableUnordered] <= MaxBuffered + 1

LEMMA RoomToMark ==
  ASSUME ReceiverInv, Authentic, MarksSuffice
  PROVE  MarksFit
<1> DEFINE k == ReliableUnordered
           top == queued[k] - 1
<1> SUFFICES ASSUME NEW m \in inbox, m.channel = k, m.id > next_expect_id[k], m.id \notin seen_above
             PROVE  Cardinality(seen_above) < MaxBuffered
  BY DEF MarksFit
<1>1. /\ queued[k] \in Nat /\ queued[k] <= MaxSend[k] /\ next_expect_id[k] \in Nat
      /\ MaxSend[k] \in Nat /\ MaxBuffered \in Nat
  BY KindFacts, ChannelAssumption
     DEF ReceiverInv, Numbered, TypeOK, ChannelTypeOK
<1>2. m.id \in 1 .. top
  BY <1>1 DEF Authentic, AllQueued, Queued
<1>3. seen_above \subseteq 1 .. top
  BY <1>1 DEF Authentic, Queued, ReceiverInv, BuffersBeyondGap
<1>4. IsFiniteSet(1 .. top) /\ Cardinality(1 .. top) = top
  <2>1. top \in Int /\ 1 \in Int /\ ~ (1 > top) /\ top - 1 + 1 = top
    BY <1>1, <1>2
  <2> HIDE DEF top
  <2> QED BY <2>1, FS_Interval
<1>5. IsFiniteSet((1 .. top) \ {m.id}) /\ Cardinality((1 .. top) \ {m.id}) = top - 1
  BY <1>2, <1>4, FS_RemoveElement
<1>6. Cardinality(seen_above) <= top - 1 /\ Cardinality(seen_above) \in Nat
  <2> DEFINE others == (1 .. top) \ {m.id}
  <2>1. seen_above \subseteq others
    BY <1>3
  <2> HIDE DEF others
  <2>2. IsFiniteSet(others)
    BY <1>5 DEF others
  <2>3. IsFiniteSet(seen_above) /\ Cardinality(seen_above) <= Cardinality(others)
    BY <2>1, <2>2, FS_Subset
  <2>4. Cardinality(seen_above) \in Nat
    BY <2>3, FS_CardinalityType
  <2>5. Cardinality(others) = top - 1
    BY <1>5 DEF others
  <2> QED BY <2>3, <2>4, <2>5
<1> QED BY <1>1, <1>6 DEF MarksSuffice

(* The same from the constants alone.                                      *)
THEOREM ChannelsImplementPromise ==
  ASSUME SequencedFits, MarksSuffice
  PROVE  Spec => Delivers
<1>1. Init => Authentic
  BY InitPromise DEF PInv
<1>2. ReceiverInv /\ Authentic /\ [Next]_vars => Authentic'
  BY AuthenticStep
<1>3. ReceiverInv /\ Authentic => MarksFit
  BY MarksSuffice, RoomToMark
<1>4. Spec => []MarksFit
  BY <1>1, <1>2, <1>3, ReceiverInvariant, PTL DEF Spec
<1> QED BY <1>4, SequencedFits, PromiseKept, PTL
=============================================================================
