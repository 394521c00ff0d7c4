--------------------------- MODULE ReliableDelivery ---------------------------
(***************************************************************************)
(* What the four channels promise (channel.rs:21-32), with no packet, no   *)
(* acknowledgement and no buffer: messages 0, 1, 2, ... are queued on a    *)
(* channel and some of them come out at the other end.                     *)
(***************************************************************************)
EXTENDS Integers, Sequences

CONSTANTS Ordered, Unordered, Sequenced, Unreliable   \* the channels' names

VARIABLES
  queued,      \* per channel: how many messages were queued
  delivered    \* per channel: the ids delivered, in order

vars == <<queued, delivered>>

Channels == {Ordered, Unordered, Sequenced, Unreliable}
Came(k) == {delivered[k][i] : i \in 1 .. Len(delivered[k])}

Init ==
  /\ queued = [k \in Channels |-> 0]
  /\ delivered = [k \in Channels |-> <<>>]

Queue(k) ==
  /\ queued' = [queued EXCEPT ![k] = @ + 1]
  /\ UNCHANGED delivered

(* "Delivered exactly once, in order": the next ids, one or several.       *)
DeliverOrdered ==
  \E n \in Len(delivered[Ordered]) + 1 .. queued[Ordered] :
    /\ delivered' = [delivered EXCEPT ![Ordered] = [i \in 1 .. n |-> i - 1]]
    /\ UNCHANGED queued

(* "Delivered exactly once, in any order."                                 *)
DeliverUnordered ==
  \E id \in (0 .. queued[Unordered] - 1) \ Came(Unordered) :
    /\ delivered' = [delivered EXCEPT ![Unordered] = Append(@, id)]
    /\ UNCHANGED queued

(* "Stale messages are dropped on arrival": only ever a newer one.         *)
DeliverSequenced ==
  \E id \in 0 .. queued[Sequenced] - 1 :
    /\ \A x \in Came(Sequenced) : id > x
    /\ delivered' = [delivered EXCEPT ![Sequenced] = Append(@, id)]
    /\ UNCHANGED queued

(* "May be lost, reordered or duplicated."                                 *)
DeliverUnreliable ==
  \E id \in 0 .. queued[Unreliable] - 1 :
    /\ delivered' = [delivered EXCEPT ![Unreliable] = Append(@, id)]
    /\ UNCHANGED queued

Next ==
  \/ \E k \in Channels : Queue(k)
  \/ DeliverOrdered \/ DeliverUnordered \/ DeliverSequenced \/ DeliverUnreliable

Spec == Init /\ [][Next]_vars

(* "Messages are delivered": every message queued on a reliable channel    *)
(* comes out eventually.                                                   *)
EventuallyDelivered(k, id) == (queued[k] > id) ~> (id \in Came(k))
=============================================================================
