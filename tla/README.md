# tempo in TLA+

Specifications of the multiplayer engine `tempo` (the crates under
`src/crates`), model-checked with TLC and, for the parts on which the others
rest, proved with TLAPS. Every definition is translated from the Rust source;
`PROJECT.json` gives the lines of each, and lists runs, mutants, findings,
hazards and theorems.

Contents: [the system](#the-system) · [modules](#modules-and-the-code) ·
[runs](#runs) · [proofs](#proofs) ·
[where code and documentation disagree](#where-code-and-documentation-disagree) ·
[what is not modelled](#what-is-not-modelled) · [plan](#plan)

## The system

`tempo` is a library: sans-I/O state machines that an application's main loop
calls. There are no threads and no locks; every public method runs to
completion. What is hard is what the *network* does to the order of calls, and
what rings, caps and wrapping counters do after a long run.

| component | state it keeps | operations | who calls whom |
|---|---|---|---|
| sequence numbers (`tempo-reliability/sequence.rs`) | a ring of entries indexed by sequence modulo capacity | compare, extend, insert, get | used by everything below |
| acknowledgement tracker (`ack.rs`) | sent ring, received ring, highest received, newly acked | `begin_send`, `on_receive`, `ack_header`, `on_ack_header`, `drain_newly_acked`, `timed_out` | the connection numbers a packet, feeds the peer's header, drains |
| channels (`channel.rs`) | unacked messages, messages per packet, ordered buffer, duplicate filter | `send`, `packetize`, `on_packet_acked`, `on_packet_lost`, `on_receive` | acknowledgements come from the tracker |
| reassembler (`fragment.rs`) | messages in progress, byte count | `push`, `expire`, `clear` | takes fragments, hands back messages |
| packet numbers, replay window (`tempo-netcode/crypto.rs`) | highest number, 64 bits | `accept`, `extend` | in front of everything received |
| connect tokens (`token.rs`) | none: a token is sealed state | `issue`, `to_wire`, `from_wire`, `open_private` | the key of a token starts a session of packet numbers |
| input queue (`tempo-rollback/input.rs`) | ring of inputs per player, last known, last confirmed | `confirm`, `get_or_predict`, `invalidate_predictions_after` | inside a rollback session |
| rollback session (`session.rs`) | ring of saved worlds, current tick | `advance`, `add_local_input`, `add_remote_input`, `rollback_to`, `sync_test`, `reset` | restores and re-simulates the world |
| entity allocator, world, snapshots (`tempo-core`) | generations, liveness, free list; columns; snapshots by tick | spawn, despawn, insert, remove, set, snapshot, restore | the state everything else is about |
| delta encoding (`delta.rs`) | none (a function of world and baseline) | `encode_delta`, `apply_delta` | baseline chosen by acknowledgements |
| lag compensation (`rewind.rs`) | ring of past worlds | `record`, `rewind` | restores the world and puts it back |
| prediction (`tempo-predict/predict.rs`), clock (`clock.rs`) | predicted ticks with inputs and states; the lead | `record`, `reconcile`; `update_from_rtt` | the demo's loop reconciles against replicated snapshots |
| simulated link (`tempo-transport/memory.rs`) | datagrams in flight | `send`, `recv`, `drain` | carries the demo's inputs and snapshots |
| interest (`tempo-interest`) | grid, visible sets, priority scores | `insert`, `query`, `update`, `accumulate`, `select` | decides what is sent to whom |
| schemas, codec (`tempo-wire`), layouts (`tempo-core/layout.rs`) | declarations; the bits of one message | register, canonical form, diff; encode, decode, lossy round trip; read and write of slots | delta encoding calls the codec and foretells what it does |
| fixed point (`tempo-fixed`) | none | arithmetic, tables, vectors, rotations | everything simulated is computed with it |
| UDP socket, ciphers, derive macro, round-trip estimator | little or none | | |

What makes each correct, and what is hard about it:

* **Acknowledgements** must be true (an acked packet arrived), redundant (one
  header makes up for the lost ones before it) and reported once, across the
  wrap of a 16-bit sequence and laps of the rings.
* **Channels** must deliver exactly once / in order / never backwards, while
  messages are retransmitted in several packets that are lost, repeated and
  reordered and each of which may be acknowledged late. No reliable message may
  be forgotten by its sender before the receiver has it.
* **Reassembly** must return only whole messages though ids are used again, and
  its byte count, kept by hand on every path, must not leak.
* **The replay window** must accept each packet at most once and turn no fresh
  one away, with only 16 bits of the packet number on the wire.
* **Sessions** must be opened within a token's validity only, and take no packet
  of an earlier session although numbers start again from zero.
* **Prediction**: what a player sees is the server's newest known state with
  their own inputs on top; it is corrected for a cause only, and never goes back,
  though snapshots are quantized, late, repeated and out of order and inputs lost.
* **Interest**: what a client holds must be what the server thinks it sees, and
  nothing that stays in sight may starve under the budget.
* **Wire**: two programs that agree on a hash must agree on every bit, and the
  sender must know what the receiver holds after the losses of quantization.
* **Fixed point** must saturate, floor and truncate exactly where it says so: a
  difference in the last bit is a different world.
* **Rollback**: peers that have learnt the same inputs, in different orders and
  between different frames, must have the same world; a state computed from a
  wrong guess must not survive its correction.
* **Replication**: the replica must be the authority's world at the replica's
  tick, as quantized, though slots are used again and deltas lost; an unchanged
  world must cost nothing; handles must never alias.

The list of hazards in `PROJECT.json` has each of these at the line where it
bites, with the properties that would catch it.

## Modules and the code

```
SequenceNumbers ── AckTracker ── AckExchange ── AckExchange_proofs
                        └──────┐
               ChannelSet ── Connection ── Connection_proofs
                   └── ChannelExchange ── MCChannelExchange, ChannelExchange_proofs
                             └ refines ReliableDelivery
SequenceNumbers ── ReplayProtection ── SecureSession ── ServedClient_proofs
Reassembler ── Reassembly ── Reassembly_proofs
InputQueue ── RollbackSession ── RollbackMesh ── RollbackMesh_proofs
EntityAllocator ── World ─┬─ Delta ────────┬─ Replication ── Replication_proofs
                          └─ RewindBuffer ─┘
SimulatedLink, Predictor ── PredictedSession ── PredictedSession_proofs
FixedPoint ─┬─ AreaOfInterest, Priority ── InterestManagement ── ServedClient_proofs
            └─ Transcendentals ── Vectors ─┬─ Quantization ─┐
                                           └─ Arithmetic    │
          BitStream, Schema ── FieldCodec ──────────────────┘
          FieldCodec ── ComponentLayout, Arithmetic ── WireExchange ── MCWire, ServedClient_proofs
```

* **SequenceNumbers** – `is_newer`, `distance`, `extend` and the slot of a
  sequence, with the size of the sequence space a parameter.
* **AckTracker** – the tracker of one peer, sending and receiving side; rings
  are sets no two of whose members share a slot. **AckExchange** puts two peers
  (one sends packets, the other headers) over a network; packets carry their
  unbounded number so that properties can say which packet a sequence stands
  for. How long a packet or header lives, how many packets are lost in a row and
  how many in a row of one ring slot are constants.
* **ChannelSet** – the four channel kinds, both ends. Payloads are abstracted to
  (channel, id); which messages are due is nondeterministic, which includes
  every value of the retry delay and of the packet budget. **ReliableDelivery**
  is the abstract specification: what each kind promises its user.
  **ChannelExchange** runs the channels over any acknowledgement layer that
  tells the truth, and implements ReliableDelivery (`Delivers`). **Connection**
  runs them over the real tracker and implements ChannelExchange
  (`AcksAreTruthful`).
* **ReplayProtection** – a sender that seals under an extended number and a
  network that keeps every packet and delivers it any number of times.
  **SecureSession** puts the tokens above it: a backend issues them, the way may
  change the fields that travel in the clear, a client connects and connects
  again, and packets of every session it had go on arriving.
* **Reassembler** – `push` with each of its refusals, `expire`, `clear`.
  **Reassembly** adds a sender that uses ids again and a network.
* **InputQueue**, **RollbackSession** – operators on the value of a queue and of
  a session. The simulation is a pure function of which nothing is known, so the
  world *is* the sequence of input frames it was computed from.
  **RollbackMesh** puts peers together, in one of several games.
* **EntityAllocator**, **World**, **Delta**, **RewindBuffer** – operators on the
  value of an allocator, a world, a snapshot, a delta. A field holds a number;
  quantization rounds down to a multiple of `Step`. A delta is the function from
  the slots it reports to what it says of them; the loops over entities and over
  entries are recursive functions (`Progress`, `Without`), so that they can be
  proved about. **Replication** composes
  them: a server that simulates by arbitrary world operations, records, encodes
  and sends each tick; a network that loses, repeats and reorders deltas and
  acknowledgements; a client.
* **Predictor** – `record` and `reconcile` with its outcomes.
  **SimulatedLink** – which datagrams `memory.rs` takes, how often, when and in
  what order it hands them out. **PredictedSession** is the loop of
  `examples/authoritative-demo`, one action per turn of client and server, with
  the lead of `ClockSync`. The world is one player's position.
* **AreaOfInterest** – the grid and the relevance tracker; **Priority** – gain,
  accumulation, the choice within a budget. **InterestManagement** is the server
  that uses both in the order their docs give, with entities that move, die and
  are born in the same slot, and observers that come and go; its scenarios for
  TLC are at its end.
* **FixedPoint**, **Transcendentals**, **Vectors** – every operation of
  `tempo-fixed` on the raw integers, the width and the tables parameters.
  **Quantization**, **BitStream**, **Schema**, **FieldCodec**,
  **ComponentLayout** – the wire format down to the bit, over words, bytes and
  varint groups of any width. **WireExchange** has two programs declare their
  schemas, compare hashes, compute on slots (**Arithmetic** says what the results
  must be), send, lose bytes, receive.

A receive handler that hands over several messages is one action when nothing
can observe the middle; in ChannelExchange and Connection it is split into
`ReceivePacket` and `HandOver`, and every other action waits (`inbox = {}`).

### Correspondence notes

* `SequenceBuffer`, `SnapshotRing` and the input ring become sets in which a
  store removes whatever shares its slot. This is exact: the code checks the
  stored key on every read.
* Variables named *history* in their module (`arrived`, `accepted`, `heard`,
  `handed`, ...) are read by no guard of a code action; they exist for
  properties and bounds.
* `SimulatedLink`'s generator is a choice: a probability is never, always, or
  maybe. Scenarios bound how many input datagrams are lost in a row. The heap of
  datagrams is the set of them, told apart by `seq`; `Drained` hands out what is due
  by rank in the heap's order. Sorting is by rank elsewhere too (`Ranked`,
  `ByName`): what stands at place *k* is what *k* - 1 others are ahead of.
* Properties of Arithmetic never repeat an algorithm: a root is compared with its
  square, a logarithm with its power, a quotient with the exact remainder, an
  angle with its sine and cosine.
* The hash of the canonical form is modelled as the form itself: equal hashes mean
  equal forms. A sealed packet or token opens exactly with the key,
  number and associated data it was sealed with.
* The exchange of Replication is the application's. With `Acknowledged = TRUE`
  it is the one `docs/spec/wire-protocol.md:111` and ADR-0009 describe: encode
  against the newest acknowledged snapshot, apply to the client's copy of that
  snapshot (none: to an empty world). With `FALSE` it is that of
  `examples/authoritative-demo`.

## Runs

| run | question | bounds and why they suffice |
|---|---|---|
| AckWrap | Are acknowledgements true, complete, unrepeated across the wrap? | 10 packets in a space of 8, rings of 2, 1 ack bit: the sequence wraps and every slot is overwritten four times. `Lifetime`, `MaxLost` and `MaxSlotLost` say how old a packet or header in flight may be and how many are lost in a row, of all and of one slot; without them no finite space is unambiguous. They satisfy the proof's `Unambiguous` with nothing to spare in the slots. |
| Channels | Do the four channels keep their promises? | Each kind alone with three messages, or one message on every channel (`Workloads`, enforced by `MCSpec`): three is the least number with a gap and two waiting behind it. Two packet sequences used over and over, two copies of a packet. |
| ChannelLiveness | Is every reliable message delivered and retired? | Two ordered messages, fair network (below). |
| ConnectionWarm | Do tracker and channels together keep the channels' guarantees? | Three packets, an ordered and an unordered message, one header in flight; nothing is queued before the first packet (`Warmup = 1`). |
| ConnectionFirstHeader | The same with a message in the first packet: **violated**. | Two packets suffice. |
| Netcode | Is each packet accepted at most once, in its own session, and none wrongly refused? | Ten packets a session in a space of 8, window of 3: the window passes over the wrap. Two tokens, of two protocols, four seconds: a reconnect, an expiry and a foreign protocol. |
| Reassembly | Only whole messages, no leak, nothing lost early? | Three interchangeable ids, three messages of 1, 3 or too many fragments, room for two messages and five bytes: every refusal is reached. |
| Rollback | Does a session correct every wrong guess, and do two agree, with or without input delay? | Alone: five ticks with a ring of four inputs (it wraps), a window of two, inputs up to two ticks late: one too late for the window. Together: three ticks, inputs one tick early, one hard resync by tick 2. Delayed: three ticks, one or both of two sessions delay their inputs by a tick; the four ticks inputs are given for share no slot of the ring. |
| Replication | Is the replica the world as sent? | Four ticks, two slots, five operations in total at most two per tick (`FourTicks`): enough to spawn an entity with a component, replace it by another in its slot, and change or remove what was there, with the two-place rings of baselines wrapping. Values 1 and 3 round to 0 and 2: a write may change the raw value only. |
| Session | Does the client follow the server, and never for nothing? | Six ticks, a snapshot every second, five links: lossy (one, two or three input datagrams in a row; the window repeats two, so three is beyond the design), jittery, reordering, duplicating. Lead of one tick or two. |
| Interest | Does the grid find all, does the view follow, does nobody starve? | Two entities moving between five points about cell edges and about zero, two observers; three entities with room for one or one and a half; a pair one of which passes. 10-bit numbers: squares saturate within the field, scores within a few ticks. |
| Wire | Do two programs understand each other, and is their arithmetic lawful? | 16-bit words, 4-bit bytes, 3-bit varint groups: every encoding crosses byte boundaries and varints take up to six groups. A component per encoding, in two orders of declaration; eleven declarations to negotiate; 19 sample numbers about the ends, zero, halves and the tables' ends. |

The widths, ring sizes and windows of the code appear as parameters; nothing in
the definitions depends on their values beyond the assumptions of the modules.
Type invariants (`TypeOK`) are stated in the exchanges and where the proofs need
them; no run spends its time on them. Those of ChannelExchange, of packet numbers
and of the rollback sessions are proved as theorems, the others as part of the
inductive invariants.

`CHECK_DEADLOCK FALSE` appears where the bounds stop the system: all packets or
ticks used up. SYMMETRY is used for interchangeable model values (players and
message ids), with safety properties only.

Each property of a passing run has a mutant in `PROJECT.json`: a plausible bug
in a definition of the model with which TLC finds the property violated.

### Fairness

Two runs assume any. ChannelLiveness (`FairSpec` in ChannelExchange): the caller's
loop packetizes, reads packets and reports timeouts every tick, which justifies
weak fairness of handing over and fairness of giving up a packet; a packet does
not stay in flight for ever. A retry delay is finite, so an unacknowledged
message is put into packets again and again (strong fairness of carrying that
message, since other steps intervene). The network may lose any finite number of
packets and headers but not every last one that carries a given message (strong
fairness of its arrival and of its retirement). Nothing is assumed of the order
in which this happens, and nothing of the application.

Interest (`InterestSpec` in InterestManagement): the server ticks for ever, which its
main loop does; weak fairness suffices, as a tick is always possible. Entities
and observers do as they like.

## Proofs

TLAPS checks these for every value of the constants that satisfies the modules'
assumptions.

* **AckExchange_proofs**: `AcksAreOfArrivals`, `HeadersAreComplete`,
  `NothingIsReportedTwice`. The last holds for every network: a mark stays until
  its slot is taken. The first two assume `Unambiguous`: `Capacity` divides
  `SeqCount`, the bitfield is narrower than the ring, what lives or is lost in a
  row stays below half the sequence space, and what is lost in a row of one slot
  stays two entries below a lap. (With the code's 2^16, 32 bits and rings of 64:
  32,000 packets in a row, 1,022 in a row of one slot.) Everything is said of the
  packets that the sequences stand for: `received` holds the latest arrival of each
  slot, what a header names arrived not long before it was made. Each part needs
  the others, as two packets that matter at one time are less than a sequence
  space apart and so are told apart (`NearIsSame`).
* **ChannelExchange_proofs**: `TypeCorrect`, `BuffersStayBeyondGap`,
  `NothingIsForgotten`, `PromiseKept`, `ChannelsImplementPromise`.
  `NothingIsForgotten` assumes `CapSuffices`: the ordered buffer has room for what
  can wait behind a gap. NothingForgotten is not inductive: an acknowledgement
  that is still on its way could retire a message. The invariant `IInv` adds that
  whatever is recorded for a packet whose ack is under way has come, that what is
  recorded is what the packet in flight carries (`Circulating`), and what the
  receiver's counters say of the messages that came (`ContiguousCame`).
  `PromiseKept` is the refinement of ReliableDelivery, action by action: each
  `HandOver` delivers what the promise allows or nothing. It assumes that no half
  of the sequenced id space is ever queued (`SequencedFits`) and that the receiver
  has room for its marks (`MarksFit`, of the behaviour); `ChannelsImplementPromise`
  has a bound on the messages queued (`MarksSuffice`) instead. Without room the
  filter delivers twice (see below).
* **Connection_proofs**: `OnlyArrivalsAreAcked`; `RecordsStayReclaimed`;
  `TrackerServesChannels`: unless a peer speaks before it is spoken to, Connection
  implements ChannelExchange with `acks` mapped to the recorded packets that
  arrived, action by action; and through that refinement
  `ConnectionForgetsNothing`. The inductive invariant `TrackersHonest` follows
  arrivals through the received ring, the headers in flight, `newly_acked` and
  `acked`.
* **ServedClient_proofs**, the last part: of packet numbers `TypeCorrect`, `NoReplayAccepted`,
  `FreshPacketsAccepted`. `ExtendFindsTheNumber` is the arithmetic: of the three
  candidates within half the sequence space the nearest is the number sealed
  under. `WindowHonest` says that bit *i* is set exactly if `highest - i` was
  accepted. It assumes that no half of the sequence space is lost in a row
  (`Blackout`): after such a loss the receiver extends every number wrongly.
  Of sessions `SessionsAcceptOnce` and `SessionsAreAdmitted`: the invariant adds
  that no token opened two sessions (`UsedOnce`), from which a packet of an
  earlier session never opens. That a server uses a token once is the
  application's part (`docs/adr/0015-connect-tokens-and-security.md`), no code here
  remembers tokens; it is a guard of `Connect`.
* **Reassembly_proofs**: `WholeMessages`, `TakenStaysKept` and `BooksBalance`,
  assuming that no message has more fragments than a `u16` counts (`CountsFit`;
  `fragment` does not check it). The invariant says that every fragment of an entry
  comes from one message that was sent under the entry's id and has the entry's
  count. It holds because two messages with the same id and count are sent so far
  apart (`FarApart`: the life of a datagram and the timeout of an entry) that no
  fragment of the second can join what is left of the first. The byte count is a
  sum over entries of sums over fragments, which the prover cannot unfold; its proof
  counts instead, as the number of pairs of a fragment and one of its bytes
  (`Weight`), of which one summand can be taken away.
* **RollbackMesh_proofs**: `SessionsAreTyped`, `SavedStaysThePast`,
  `WindowStaysSaved`. A session is `Sound` if each saved state is a prefix of its
  world and no two share a slot, and, until its world is replaced, `Covered` if the
  states of the whole window are there. Both rest on `NoSharedSlot`: ticks less
  than a ring apart never share a slot.
  Then `TruthAlwaysPrevails`, `ReplayAlwaysReproduces`, `FramesAlwaysConverge`,
  `CompleteStateStaysFinal`. TruthPrevails is not inductive: it does not say that a
  later correction is noticed. The invariant (`Correct`) adds that each tick not
  too far back is on record with the input it was simulated with, and that what
  was told is on record as confirmed; a correction drops the guesses after it, and
  simulating again puts them back. These assume `RingSuffices`: the input ring is
  longer than inputs are late, or the window, and early together. Without that an
  input displaces another from its slot (see below). The run's games
  without a delay satisfy it. Every one of these theorems holds for every input
  delay of every player. CompleteStateIsFinal speaks of the first ticks too, which
  a delay leaves without inputs: what stands there never changes, as corrections
  and replays leave alone what no input was told for (`StandInsStay`).
  `PeersAlwaysAgree` says of peers that know the same inputs up to a tick, with the
  last one of every player among them, that their frames are the same from the
  first tick every player can have an input for. It needs that players leave no gap
  in between: a player whose session was never reset gives its inputs tick by tick,
  whatever its delay (`PacedInv`). A third peer that skips ticks by a hard resync
  would leave one, which two others could guess differently; `NoThirdPeerSkips`
  excludes it. Whole worlds agree as well where nobody delays its inputs; with a
  delay they do not (see below).
* **PredictedSession_proofs**: `ClientAlwaysTracksServer`, `CorrectionsHaveACause`,
  `NeverStarvedAfterStartup`, `SnapshotsNeverGoBack`, for every link, lead, history
  and pattern of losses, and `BearableLossesCorrectNothing`: where losses are
  `Bearable` and snapshots whole, nothing is ever corrected (`end_to_end.rs:26`).
  ClientTracksServer is not inductive: it relates the world to one snapshot, while
  the next is compared with the history. The invariant (`SessionIsSound`) has both:
  the world and the history are *exactly* a run of the client's own inputs from the
  last snapshot corrected to (`Exact`), and *within the tolerance* of the run from
  the latest one (`Near`). A confirmation keeps the first and renews the second
  because the game brings no two positions further apart
  (`RunsStayNear`); a correction starts both again. A correction has a cause
  because two runs with the same inputs agree, and because a snapshot differs from
  the state it was taken of by less than a step, which the tolerance covers
  (`Tolerance >= Step`, "the sensible floor" of `snapshot.rs:440`). For starvation
  the invariant says that each input the server has yet to use is pending, in a
  datagram that is in time, or was only in the datagrams just lost (`Supplied`).
  The first two are theorems about a game that brings positions no further apart,
  as thrust and walls do; in one that drives them apart, a tolerated difference
  could grow.
* **Replication_proofs**: `AuthorityStaysClean`, for every number of slots,
  components and operations; `HandlesNeverReturn`, if no slot is vacated as often as
  there are generations (`NoWrap`). The invariant says that free slots are dead,
  distinct and as many as the slots that are not live, that a cell is zeroed or its
  slot live, and that no handle is ahead of its slot's generation, nor level with
  it once the slot is dead.
  `RewindIsFaithful`: the ring holds what was recorded under each tick that it
  still has.
  `DeadSlotsStayClean`, `SilentIffUnchanged` and `ReceiverHoldsWhatWasSent` are about
  deltas. What an entry says of a slot turns that slot, in any world that looks like
  the baseline, into the slot as it was sent, and touches no other (`SlotApplied`);
  what has no entry is already as it was sent (`ReportedIff`); so the delta turns the
  whole world into the one that was sent (`DeltaCarries`), by induction over the
  slots. The last assumes `Acknowledged = TRUE`, the exchange the documents
  describe; its invariant follows snapshots through both rings of baselines and
  the messages in flight. The values are integers closed under rounding.

* **ServedClient_proofs**, numbers: `NumbersAreLawful` says of all 17 operations
  on `Fx` that look nothing up that they give the number they should: for any
  width, any binary point and *all* operands, where the run has 19 samples. The
  laws are those of Arithmetic. The square root is the one that needs a loop
  invariant (`OneBit`): before each bit the remainder is the number less the
  square of the root so far, and a root greater by the next place is too large.
  `ResultsAreExact` brings the laws to what is computed on a slot.
* **ServedClient_proofs**, interest: `InterestIsInductive`, and from it
  `QueriesAreExact` and `ViewsFollow`, for any entities, points, observers, sizes,
  budgets and grids. GridIsExact is not inductive, as a query may find what a
  former cell left behind. The invariant says that the grid is a function of where
  the entities are (`GridOf`): each in its cell, no cell empty. With that,
  the query is exact because the cells of two points within the radius are no
  further apart than the cells searched (`CellsAreClose`): two divisions that
  truncate and a floor together lose less than the one cell that is added to the
  reach. It assumes that the quotient of radius and cell does not saturate
  (`ReachFits`: fewer than 2^31 - 1 cells, which fails for cells smaller than one
  unit only), and that cell numbers do not leave the range of `i32` by the reach
  added to them. ViewFollowsRelevance needs the generations: a live entity is the
  one whose generation its slot has. A tick is a loop over the observers in any
  order, within which `select` loops over the candidates; `StepsExist` and an
  induction over the steps carry the invariant through both (`SelectIs`,
  `SweptIsConsistent`).
* **ServedClient_proofs**, schemas: `AgreementsAreExact`, for any declarations in
  any order. Sorted by name, two lists of the same names have each name at the same
  place, as an ascending sequence is told by its set (`AscentIsWithin`); so equal
  canonical forms, equal fields under every name, and an empty report are one and
  the same (`IdTellsSchema`, `DiffTellsSchema`), and what the slots are computed
  from is equal with them.

Induction over a loop is done with the least-number principle on a set of numbers
(`WFMin` and `NatLessThanWellFounded`), as the library's induction theorems are out
of the provers' reach.

Model-checked only: liveness (EventuallyRetired, NobodyStarves),
which is out of the prover's reach; what the codec makes of the bits
(HeldAsForetold, TruncatedIsRefused), whose encoders and decoders are folds over
the fields and over the bits of a value, with operators as arguments; and
ApproximationsAreNear, as how near a table comes to its function is a matter of its
entries, and how near a value on a grid comes to the one sent is seen through the
same folds: functions, vectors, rotations and quantization rest on samples.

## Where code and documentation disagree

Shown by a run:

* **The first header** (ConnectionFirstHeader). A peer that has received nothing
  sends the header (0, 0), which acknowledges packet 0. If packet 0 is lost, its
  reliable messages are gone: the sender has retired them (`ack.rs:90`).

Found while modelling, outside the passing runs; the constants or the premise to
change are named where a run can show it:

* **Input delay.** With `input_delay` d (2 by default) ticks 1 to d never have an
  input (`session.rs:162`). For its own part a player repeats there an input it has
  already given for a later tick; the others, who have not heard it yet, take the
  default. No input comes to correct that, so the worlds differ for ever, and so do
  the hashes compared at the confirmed frame (ADR-0013, line 50). `HashesAgree`
  (RollbackMesh) says that they do not; as an invariant of `Rollback.cfg` it is
  violated, in a game with a delay.
* **The demo's baselines** are what was sent, not what was acknowledged; the
  AckTracker of the demo is never fed (`examples/authoritative-demo/src/lib.rs:308`,
  against line 14). `Acknowledged = FALSE` in `Replication.cfg` violates
  ReceiverHoldsSent after one lost delta.
* **The demo applies deltas to the present.** A snapshot is applied to a copy of
  the client's *current* world, ticks ahead of the server (`lib.rs:315`): what the
  delta leaves out keeps its predicted value. A player who has stood still and
  starts to move is corrected although every input agreed; CorrectedForACause
  without the premise `~scenario.deltas` shows it.
* **Short histories.** With fewer ticks held than the lead plus the round trip,
  every snapshot is stale and nothing is ever corrected (`predict.rs:176`, against
  `predict.rs:90`): `MaxHistory = 1` in `Session.cfg`.
* **Integers cut on the wire.** `encode_field` writes the low `bits` of an
  integer unchecked, `lossy_round_trip` returns it whole (`value.rs:92`, against
  `value.rs:70`): HeldAsForetold has the premise HasRoom.
* **Starvation** returns where priorities saturate (`priority.rs:96`) or the gain
  truncates to zero (`priority.rs:216`): `Base = 511` and `Base = 1` in
  `Interest.cfg` violate NobodyStarves.
* **The radius is not exact** (`aoi.rs:194`, against `aoi.rs:192`): squares are
  floored, and saturate beyond 46341 units.
* **Fixed point**: `atan2` yields -π for a tiny negative y and a negative x
  (`lib.rs:507`); the error of `sin` grows with the angle (`lib.rs:455`);
  `normalize` of a vector longer than 46341 units is not of unit length
  (`vector.rs:353`); `clamp` with `lo > hi` returns `hi` (`lib.rs:388`).
* **Varints** of 64 bits need the tenth group that the comment at `bits.rs:203`
  says none needs; it is the eleventh that is refused.
* The ordered buffer at its cap drops a message whose packet is acknowledged all
  the same, against the comment at `channel.rs:419`; set `MaxBuffered = 1` in
  `Channels.cfg` and NothingForgotten fails. Likewise the duplicate filter at
  its cap (`channel.rs:391`) delivers twice.
* `confirmed_frame` jumps over a missing input (`input.rs:196`), so the state
  "at or before it" still changes, against `session.rs:152`. CompleteStateIsFinal
  states what does hold.
* `on_receive` inserts unconditionally (`ack.rs:83`) where its comment
  (`ack.rs:77`) says sequences too old are ignored: a packet a whole ring late
  displaces a newer record. `Lifetime` keeps it out of AckWrap.
* The received ring is never cleared, and an entry a lap old reads as the packet
  of the same number in this lap (`ack.rs:96`): if every packet of one slot is lost
  for a lap, one that was lost is acknowledged. `MaxSlotLost = 3` with
  `MaxPackets = 11` in `AckWrap.cfg` violates AckedPacketsArrived.
* A ring capacity that does not divide 2^16 forgets early at the wrap
  (with 10 sequences and 3 slots, 9 and 0 share one).
* A refused rollback does not stall the session (`session.rs:233`, against
  ADR-0013:47), and `sync_test` then accuses a deterministic simulation. An
  input older than the input ring displaces a newer one and is never applied
  (`input.rs:133`). `reset` keeps the inputs (`session.rs:311`).
* `apply_delta` ignores the baseline's tick (`delta.rs:226`): it is the caller
  who must apply a delta to its baseline, and a full snapshot to an empty world.
* `fragment` casts the count to `u16` (`fragment.rs:104`).

## What is not modelled

* The UDP socket, the ciphers and key generation, the text of error messages,
  tables, code generation and the derive macro: I/O, external, or no behaviour.
* The round-trip estimator (`ack.rs:170-252`) and `retry_delay`: they decide when a
  message is due again, and any time is possible in Channels. Clock dilation is
  computed and applied by nothing; `view_tick` picks the tick to rewind to, and
  any tick is asked for.
* Conversions from and to floating point, which the simulation never uses.
* The layout of a delta's bits and the refusals of malformed bytes in
  `apply_delta` (the codec's own are in WireExchange).
* The demo's world has more than one number per player; its report is left out.
* `Reconciliation::Resynced` is modelled and never reached in the session of the
  demo, whose history is always longer than a round trip.

`PROJECT.json` has the reason per component. Generations, message ids and ticks do not wrap in the
runs: their 32 bits last longer than a session.

## Plan

Done: reliability (tracker, channels, their composition, reassembly), packet
numbers and tokens, rollback, replication, prediction over the simulated link,
interest, wire format and fixed point, and the proofs above. What remains, most
important first:

1. **Proofs about the codec**: what is read back of what was written, for values
   of any number of bits, from which TruncatedIsRefused and HeldAsForetold follow.
2. **Participants that come and go** in a rollback session (`add_player`,
   `remove_player`).
3. `view_tick` and the round-trip estimator, against reference definitions.
