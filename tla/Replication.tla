----------------------------- MODULE Replication -----------------------------
(***************************************************************************)
(* A server's world replicated to one client by deltas over a network that *)
(* loses, repeats and reorders, while the server looks back at its past.   *)
(*                                                                         *)
(* The code under src/crates leaves the exchange to the application.  Two  *)
(* are modelled.  Acknowledged is the one the wire format is for           *)
(* (wire-protocol.md:111-113, ADR-0009:36): a delta is encoded against the *)
(* newest snapshot the client has acknowledged, and applied to the         *)
(* client's copy of it.  Otherwise the baseline is whatever was sent last, *)
(* as in examples/authoritative-demo, and a delta is applied to the world  *)
(* the client is in.  The client ignores snapshots not newer than its own. *)
(***************************************************************************)
EXTENDS Delta, RewindBuffer

CONSTANTS
  Acknowledged,  \* are baselines acknowledged snapshots?
  Baselines,     \* capacity of the rings of baselines at both ends
  NewValues,     \* what the simulation writes
  MaxTick,       \* bound on the ticks simulated
  MaxSlots,      \* bound on the slots used
  MaxOps         \* bounds on the operations in each tick

ASSUME ReplicationAssumption ==
  /\ Acknowledged \in BOOLEAN /\ Baselines \in Nat \ {0}
  /\ NewValues \subseteq Values
  /\ MaxTick \in Nat /\ MaxSlots \in Nat /\ MaxOps \in [1 .. MaxTick -> Nat]

VARIABLES
  server,    \* the authority's world
  past,      \* its RewindBuffer
  sent,      \* the ring of as_sent states
  acked,     \* the tick of the newest snapshot known to be held, 0 for none
  client,    \* the replica
  held,      \* the client's ring of the states it acknowledged
  deltas,    \* all deltas sent: any may arrive, at any time and repeatedly
  acks,      \* likewise for acknowledgements
  ops,       \* operations since the last tick
  history,   \* history: the server's world at each tick
  handed     \* history: all handles spawn returned

vars == <<server, past, sent, acked, client, held, deltas, acks, ops, history, handed>>
clientVars == <<client, held, acks>>
wireVars == <<past, sent, acked, deltas, history>>

TypeOK ==
  /\ server \in WorldState /\ client \in WorldState
  /\ past \subseteq SnapshotState /\ sent \subseteq SnapshotState /\ held \subseteq SnapshotState
  /\ acked \in 0 .. server.tick /\ acks \subseteq 1 .. server.tick
  /\ client.tick <= server.tick
  /\ history \in Seq(WorldState) /\ Len(history) = server.tick

Init ==
  /\ server = NoWorld /\ client = NoWorld
  /\ past = {} /\ sent = {} /\ held = {} /\ acked = 0
  /\ deltas = {} /\ acks = {}
  /\ ops = 0 /\ history = <<>> /\ handed = {}

(* The simulation step of the authority: any operations of World.          *)
Simulate(w) ==
  /\ server.tick < MaxTick /\ ops < MaxOps[server.tick + 1]
  /\ server' = w
  /\ ops' = ops + 1
  /\ UNCHANGED <<clientVars, wireVars>>

SpawnEntity ==
  /\ server.entities.free # <<>> \/ SlotCount(server.entities) < MaxSlots
  /\ Simulate(Spawn(server))
  /\ handed' = handed \cup {Allocated(server.entities)}

DespawnEntity(e) == Simulate(Despawn(server, e)) /\ UNCHANGED handed
InsertEmpty(e, c) ==
  ~Has(server, e, c) /\ Simulate(Insert(server, e, c)) /\ UNCHANGED handed
Write(e, c, f, v) == Simulate(SetField(server, e, c, f, v)) /\ UNCHANGED handed
Drop(e, c) ==
  Has(server, e, c) /\ Simulate(RemoveComponent(server, e, c)) /\ UNCHANGED handed

Baseline ==
  IF acked # 0 /\ RingHas(sent, acked) THEN RingGet(sent, acked) ELSE NONE

(* The end of a tick: it is counted, recorded and sent.                    *)
EndTick ==
  LET w == [server EXCEPT !.tick = @ + 1]
      snap == AsSent(w)
  IN /\ server.tick < MaxTick
     /\ server' = w
     /\ past' = Record(past, w)
     /\ deltas' = deltas \cup {EncodeDelta(w, Baseline)}
     /\ sent' = RingStore(sent, Baselines, snap)
     /\ acked' = IF Acknowledged THEN acked ELSE w.tick
     /\ ops' = 0
     /\ history' = Append(history, w)
     /\ UNCHANGED <<clientVars, handed>>

(* The world a delta is applied to.                                        *)
Holds(d) == d.baseline = NONE \/ RingHas(held, d.baseline)
Base(d) ==
  IF ~Acknowledged THEN client
  ELSE IF d.baseline = NONE THEN ClearEntities(client)
  ELSE Restore(client, RingGet(held, d.baseline))

(* A delta arrives.  One that fails to apply is dropped, and so is what it *)
(* did to the copy it was applied to.                                      *)
ReceiveDelta(d) ==
  /\ d.tick > client.tick
  /\ Acknowledged => Holds(d)
  /\ LET result == ApplyDelta(Base(d), d)
     IN /\ result.ok
        /\ client' = result.world
        /\ held' = RingStore(held, Baselines, Snapshot(result.world))
  /\ acks' = acks \cup {d.tick}
  /\ UNCHANGED <<server, wireVars, ops, handed>>

ReceiveAck(t) ==
  /\ Acknowledged /\ t > acked
  /\ acked' = t
  /\ UNCHANGED <<server, past, sent, clientVars, deltas, ops, history, handed>>

Next ==
  \/ SpawnEntity
  \/ \E e \in Entities(server.entities) :
       \/ DespawnEntity(e)
       \/ \E c \in Components :
            \/ InsertEmpty(e, c) \/ Drop(e, c)
            \/ \E f \in Fields, v \in NewValues : Write(e, c, f, v)
  \/ EndTick
  \/ \E d \in deltas : ReceiveDelta(d)
  \/ \E t \in acks : ReceiveAck(t)

Spec == Init /\ [][Next]_vars

-----------------------------------------------------------------------------
(* What can be observed of a world: its live entities and their components.*)
Observed(w) ==
  [e \in Entities(w.entities) |->
     [c \in {d \in Components : Has(w, e, d)} |-> w.columns[c][e.index].data]]
ObservedSent(w) ==
  [e \in Entities(w.entities) |->
     [c \in {d \in Components : Has(w, e, d)} |->
        [f \in Fields |-> Sent(f, w.columns[c][e.index].data[f])]]]

(* The replica is the server's world at the replica's tick, as quantized:  *)
(* the same entities with the same generations, no component more or less. *)
(* "Applying a delta to its baseline must equal" the state it describes    *)
(* (wire-protocol.md:300, conformance.md:97), whatever was lost before.    *)
ReceiverHoldsSent ==
  client.tick > 0 => Observed(client) = ObservedSent(history[client.tick])

(* What is not live is zero, in the authority's world and in the replica:  *)
(* neither a hash nor a later occupant of the slot can tell what was there *)
(* (world.rs:259-262); the slots counted and the slots free are the dead   *)
(* and the live ones (entity.rs:60-64).                                    *)
ColumnClean(column, a) ==
  /\ DOMAIN column = 1 .. SlotCount(a)
  /\ \A i \in DOMAIN column :
       IF column[i].present THEN a.alive[i] ELSE column[i].data = Zeroed
FreeAreDead(a) ==
  \A j, k \in 1 .. Len(a.free) :
    ~SlotLive(a, a.free[j]) /\ (j # k => a.free[j] # a.free[k])
Clean(w) ==
  /\ \A c \in Components : ColumnClean(w.columns[c], w.entities)
  /\ w.entities.live = Cardinality(Entities(w.entities))
  /\ FreeAreDead(w.entities)
AuthorityIsClean ==
  Clean(server) /\ Len(server.entities.free) + server.entities.live = SlotCount(server.entities)
DeadSlotsAreClean == AuthorityIsClean /\ Clean(client)

(* A world that looks to the receiver like one it was sent costs nothing:  *)
(* no field is sent for ever because it is quantized (delta.rs:7-18), and  *)
(* what does differ is told.                                               *)
UnchangedIsSilent ==
  \A s \in sent :
    (DOMAIN EncodeDelta(server, s).entries = {}) <=> (ObservedSent(server) = Observed(Restore(NoWorld, s)))

(* spawn never returns a handle that it has returned before: a stale       *)
(* handle, here or at the client, never addresses another entity           *)
(* (entity.rs:7-9).  Generations do not wrap in the runs.                  *)
HandlesAreUnique ==
  [][(Entities(server'.entities) \ Entities(server.entities)) \cap handed = {}]_vars

(* A rewind leaves the present as it was, whatever its outcome             *)
(* (rewind.rs:168); within the cap it is never refused once ticks are      *)
(* recorded, and shows that tick's world with nothing of the present.      *)
RewindShowsThePast ==
  \A view \in 0 .. server.tick + 1 :
    LET r == Rewind(server, past, view)
    IN /\ r.world = server
       /\ view < server.tick - MaxRewind => r.outcome = "beyond cap"
       /\ view \in 1 .. server.tick /\ view >= server.tick - MaxRewind
            => r.outcome = "answered" /\ r.seen = history[view]
       /\ view > server.tick => r.seen = server

(* For TLC: two operations make an entity with a component or put another  *)
(* in its slot; then the world changes less.                               *)
FourTicks == <<2, 2, 1, 0>>
=============================================================================
