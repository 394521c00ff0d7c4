---------------------------- MODULE SimulatedLink ----------------------------
(***************************************************************************)
(* tempo-transport/src/memory.rs: the in-memory network and the conditions *)
(* under which it delivers.                                                *)
(*                                                                         *)
(* The heap of datagrams in flight is the set of them: they differ in      *)
(* their `seq`.  The generator is replaced by a choice: a probability is 0 *)
(* ("never"), one million ("always") or in between ("maybe"), which is all *)
(* that Rng::chance makes exact.  Counters and the size limit are left     *)
(* out.                                                                    *)
(***************************************************************************)
EXTENDS Integers, Sequences, FiniteSets

NoTraffic == [queue |-> {}, next_seq |-> 0]   \* with_conditions

Outcomes(p) == CASE p = "never" -> {FALSE} [] p = "always" -> {TRUE} [] p = "maybe" -> BOOLEAN

(* LinkConditions::rtt: a symmetric link that never reorders.              *)
Symmetric(latency, loss) ==
  [latency |-> latency, jitter |-> 0, loss |-> loss, duplicate |-> "never",
   reorder |-> "never", reorder_extra |-> 0]

Delays(c) ==
  {c.latency + j + IF held THEN c.reorder_extra ELSE 0 :
     j \in 0 .. c.jitter, held \in Outcomes(c.reorder)}

(* What may become of a datagram: the delays of its copies.                *)
Fates(c) ==
  (IF TRUE \in Outcomes(c.loss) THEN {<<>>} ELSE {})
    \cup (IF FALSE \in Outcomes(c.loss)
          THEN UNION {[1 .. (IF twice THEN 2 ELSE 1) -> Delays(c)] :
                        twice \in Outcomes(c.duplicate)}
          ELSE {})

(* enqueue: the schedule is fixed now, whatever the conditions become.     *)
Enqueue(network, to, data, now, fate) ==
  [queue |-> network.queue \cup
     {[deliver_at |-> now + fate[k], seq |-> network.next_seq + k - 1, to |-> to, data |-> data] :
        k \in DOMAIN fate},
   next_seq |-> network.next_seq + Len(fate)]

IsDeliverable(f, to, now) == f.to = to /\ f.deliver_at <= now

(* Mutant: at the same instant the later datagram comes first.             *)
LastSentFirst(f, g) ==
  \/ f.deliver_at < g.deliver_at
  \/ f.deliver_at = g.deliver_at /\ f.seq > g.seq

(* InFlight::cmp: by the time of delivery, then in the order sent.         *)
IsEarlier(f, g) ==
  \/ f.deliver_at < g.deliver_at
  \/ f.deliver_at = g.deliver_at /\ f.seq < g.seq

Deliverable(network, to, now) == {f \in network.queue : IsDeliverable(f, to, now)}

(* drain: dequeue until nothing more is deliverable.                       *)
Drained(network, to, now) ==
  LET due == Deliverable(network, to, now)
      Before(f) == Cardinality({g \in due : IsEarlier(g, f)})
  IN [k \in 1 .. Cardinality(due) |-> (CHOOSE f \in due : Before(f) = k - 1).data]

Remaining(network, to, now) ==
  [network EXCEPT !.queue = @ \ Deliverable(network, to, now)]
=============================================================================
