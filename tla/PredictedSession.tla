--------------------------- MODULE PredictedSession ---------------------------
(***************************************************************************)
(* A server with authority and a client that predicts, as the demo wires   *)
(* them (examples/authoritative-demo/src/lib.rs:206-343): the simulated    *)
(* link of tempo-transport, ClockSync of tempo-predict, Predictor, and the  *)
(* deltas of tempo-core against the last snapshot sent.                    *)
(*                                                                         *)
(* A tick has three turns: the client predicts and sends its inputs, the   *)
(* server simulates and sometimes sends its state, the client reconciles.  *)
(* The world is one player's position on a line, sent in steps.            *)
(***************************************************************************)
EXTENDS SimulatedLink

CONSTANTS
  TickTime,       \* tick_us: duration of a tick
  Arena,          \* ARENA: positions are clamped to -Arena .. Arena
  Thrust,         \* how far one tick of thrust goes
  Step,           \* STEP: quantization step of a position
  Tolerance,      \* the predictor's tolerance
  MaxHistory,     \* ticks of prediction held: 240
  Redundancy,     \* INPUT_REDUNDANCY: 8
  SnapshotEvery,  \* SNAPSHOT_EVERY: 3
  Inputs,         \* thrusts: -1, 0, 1
  Unsaid,         \* a field that a delta leaves out; no baseline
  Scenarios,      \* [link, burst, deltas] records
  MaxTick         \* bound on the ticks of the session

\* snapshot.rs:440, "One quantization step is the sensible floor"
ASSUME ToleranceAssumption == Step \in Nat \ {0} /\ Tolerance \in Nat /\ Tolerance >= Step
ASSUME WorldAssumption ==
  Arena \in Nat /\ Thrust \in Nat /\ Inputs \subseteq {-1, 0, 1} /\ 0 \in Inputs
ASSUME RateAssumption ==
  Redundancy \in Nat \ {0} /\ SnapshotEvery \in Nat \ {0} /\ MaxTick \in Nat

ASSUME ScenariosAssumption ==
  \A s \in Scenarios :
    /\ s.burst \in Nat /\ s.deltas \in BOOLEAN
    /\ s.link.latency \in Nat /\ s.link.jitter \in Nat /\ s.link.reorder_extra \in Nat
    /\ {s.link.loss, s.link.duplicate, s.link.reorder} \subseteq {"never", "maybe", "always"}
ASSUME UnsaidAssumption == Unsaid \notin Int

ASSUME TickTimeAssumption == TickTime \in Nat \ {0}   \* clock.rs:75, max(1)
\* predict.rs:94, "prediction needs at least one tick of history"
ASSUME HistoryAssumption == MaxHistory \in Nat \ {0}

VARIABLES
  scenario,   \* the link's conditions, how many input datagrams it may lose in a
              \* row, and whether snapshots are deltas as in the demo, or whole
  turn,       \* whose turn it is within the tick
  tick,       \* tick_index
  server,     \* [world, pending, last_input, baseline]
  client,     \* [world, recent, history]
  network,    \* the link
  lost,       \* history: input datagrams lost in a row
  truth,      \* history: the server's state after each tick
  applied,    \* history: the input the server used in each tick, with its origin
  played,     \* history: the client's own inputs
  base        \* history: the latest snapshot reconciled, the last one corrected to,
              \* and the corrections of the latest turn

vars == <<scenario, turn, tick, server, client, network, lost, truth, applied, played, base>>

(***************************************************************************)
(* The world: quantization to the nearest step, comparison, the game step. *)
(***************************************************************************)
Clamped(x) == IF x < -Arena THEN -Arena ELSE IF x > Arena THEN Arena ELSE x

Distance(x, y) == IF x < y THEN y - x ELSE x - y

(* step_entity, the same function on both sides.                           *)
Simulated(x, input) == Clamped(x + input * Thrust)

(* What the receiver holds of a position (lossy_round_trip).               *)
Sent(x) == -Arena + ((x + Arena + Step \div 2) \div Step) * Step

(* Mutant: compares the bits, not the values.                              *)
SameBits(x, y) == x = y

(* World::compare_with, for one number.                                    *)
WithinTolerance(x, y) == Distance(x, y) <= Tolerance

P == INSTANCE Predictor WITH Simulate <- Simulated, Agrees <- WithinTolerance

(***************************************************************************)
(* Snapshots.                                                              *)
(***************************************************************************)
(* encode_delta: the position, unless it is as it was in the baseline.     *)
Delta(x, baseline) ==
  IF scenario.deltas /\ baseline # Unsaid /\ Sent(x) = baseline THEN Unsaid ELSE Sent(x)

(* apply_delta to a copy of the client's world: what is unsaid stays.      *)
Applied(world, said) == IF said = Unsaid THEN world ELSE said

(***************************************************************************)
(* The client's lead over the server.                                      *)
(***************************************************************************)
JitterSigmas == 2
SafetyTicks == 1

CeilDiv(a, b) == (a + b - 1) \div b

(* ClockSync::update_from_rtt: half the round trip, the margin, one tick.  *)
(* The dilation hints are only computed by the code, never applied.        *)
TargetLead(srtt, rttvar) ==
  CeilDiv(srtt \div 2 + JitterSigmas * rttvar, TickTime) + SafetyTicks

Lead == TargetLead(2 * scenario.link.latency, scenario.link.jitter)

(* A client's tick, `lead` ticks before the server's.                      *)
ClientTick == tick + Lead

Now == tick * TickTime

NoInput == 0

Init ==
  /\ scenario \in Scenarios
  /\ turn = "predict" /\ tick = 1
  /\ server = [world |-> 0, pending |-> {}, last_input |-> NoInput, baseline |-> Unsaid]
  /\ client = [world |-> 0, recent |-> <<>>, history |-> <<>>]
  /\ network = NoTraffic /\ lost = 0
  /\ truth = <<>> /\ applied = <<>> /\ played = <<>>
  /\ base = [tick |-> 0, corrected |-> 0, corrections |-> {}]

(* Mutant: only the newest input is sent.                                  *)
OnlyTheNewest(recent, input) == <<input>>

(* recent_inputs: a short window, the newest last.                         *)
Window(recent, input) ==
  LET all == Append(recent, input)
  IN IF Len(all) > Redundancy THEN Tail(all) ELSE all

(* The client's turn: predict at once, record it, tell the server.         *)
ClientPredicts ==
  /\ turn = "predict" /\ tick <= MaxTick
  /\ \E input \in Inputs :
       LET world  == Simulated(client.world, input)
           recent == Window(client.recent, [tick |-> ClientTick, input |-> input])
       IN /\ client' = [world |-> world, recent |-> recent,
                        history |-> P!Record(client.history, ClientTick, input, world)]
          /\ played' = Append(played, input)
          /\ \E fate \in Fates(scenario.link) :
               /\ fate = <<>> => lost < scenario.burst
               /\ lost' = IF fate = <<>> THEN lost + 1 ELSE 0
               /\ network' = Enqueue(network, "server", recent, Now, fate)
  /\ turn' = "simulate"
  /\ UNCHANGED <<scenario, tick, server, truth, applied, base>>

InputsIn(messages) ==
  UNION {{messages[k][i] : i \in DOMAIN messages[k]} : k \in DOMAIN messages}

(* pending_inputs: one input per tick, the first that arrived.  Copies are *)
(* identical, so which of them is kept makes no difference.                *)
Pending(pending, messages) ==
  pending \cup {m \in InputsIn(messages) : \A known \in pending : known.tick # m.tick}

InputsFor(pending, t) == {m \in pending : m.tick = t}

(* The input for this tick, or the last known one.                         *)
InputOr(pending, otherwise) ==
  IF InputsFor(pending, tick) = {} THEN otherwise
  ELSE (CHOOSE m \in InputsFor(pending, tick) : TRUE).input

StillPending(pending) == {m \in pending : m.tick > tick}

(* The server's turn: take what arrived, simulate, send a snapshot.        *)
ServerSimulates ==
  /\ turn = "simulate"
  /\ LET pending == Pending(server.pending, Drained(network, "server", Now))
         input   == InputOr(pending, server.last_input)
         world   == Simulated(server.world, input)
         said    == Delta(world, server.baseline)
         rest    == Remaining(network, "server", Now)
     IN /\ truth' = Append(truth, world)
        /\ applied' = Append(applied, [input |-> input,
                                       starved |-> InputsFor(pending, tick) = {}])
        /\ server' = [world |-> world, pending |-> StillPending(pending),
                      last_input |-> input,
                      baseline |-> IF tick % SnapshotEvery = 0 THEN Sent(world)
                                   ELSE server.baseline]
        /\ IF tick % SnapshotEvery = 0
           THEN \E fate \in Fates(scenario.link) :
                  network' = Enqueue(rest, "client", [tick |-> tick, said |-> said], Now, fate)
           ELSE network' = rest
  /\ turn' = "reconcile"
  /\ UNCHANGED <<scenario, tick, client, lost, played, base>>

(* History: a correction reaches back to the one before it, and a resync   *)
(* counts as one.                                                          *)
Noted(b, kind, t) ==
  CASE kind = "Stale"     -> b
    [] kind = "Confirmed" -> [b EXCEPT !.tick = t]
    [] kind \in {"Corrected", "Resynced"} ->
         [tick |-> t, corrected |-> t,
          corrections |-> b.corrections \cup {[kind |-> kind, from |-> b.corrected, to |-> t]}]

(* The client's state after one more snapshot.                             *)
Taken(c, message) ==
  LET snap == [tick |-> message.tick, state |-> Applied(c.world, message.said)]
      done == P!Reconcile(c.history, c.world, snap)
  IN [world |-> done.world, history |-> done.history, base |-> Noted(c.base, done.kind, snap.tick)]

(* Each snapshot that arrived is applied and reconciled, one after the     *)
(* other.                                                                  *)
Reconciled(start, messages) ==
  LET after[k \in 0 .. Len(messages)] ==
        IF k = 0 THEN start ELSE Taken(after[k - 1], messages[k])
  IN after[Len(messages)]

(* The client's second turn.                                               *)
ClientReconciles ==
  /\ turn = "reconcile"
  /\ LET start == [world |-> client.world, history |-> client.history,
                   base |-> [base EXCEPT !.corrections = {}]]
         done  == Reconciled(start, Drained(network, "client", Now))
     IN /\ client' = [client EXCEPT !.world = done.world, !.history = done.history]
        /\ base' = done.base
  /\ network' = Remaining(network, "client", Now)
  /\ turn' = "predict" /\ tick' = tick + 1
  /\ UNCHANGED <<scenario, server, lost, truth, applied, played>>

Next == ClientPredicts \/ ServerSimulates \/ ClientReconciles

Spec == Init /\ [][Next]_vars

(***************************************************************************)
(* Properties                                                              *)
(***************************************************************************)
(* The client's input for tick t; before its first one nobody had moved.   *)
Own(t) == IF t <= Lead THEN NoInput ELSE played[t - Lead]
Newest == Len(played) + Lead

(* The server's state at tick t as sent, and what the client's own inputs  *)
(* make of it by now.                                                      *)
SentAt(t) == IF t = 0 THEN 0 ELSE Sent(truth[t])
ReplayedFrom(t) ==
  LET state[k \in t .. Newest] ==
        IF k = t THEN SentAt(t) ELSE Simulated(state[k - 1], Own(k))
  IN state[Newest]

(* When snapshots are whole, what the player sees is, up to the tolerance, *)
(* the latest state of the server that the client has taken into account,  *)
(* advanced by the player's own inputs since (predict.rs:158-232).         *)
ClientTracksServer ==
  ~scenario.deltas => WithinTolerance(client.world, ReplayedFrom(base.tick))

(* A prediction is only given up for a reason: some tick since the last    *)
(* correction in which the server used another input than the client did   *)
(* (end_to_end.rs:26, "A client whose prediction agreed with the server    *)
(* never has to correct"), and it is never abandoned altogether.           *)
CorrectedForACause ==
  ~scenario.deltas =>
    \A c \in base.corrections :
      /\ c.kind = "Corrected"
      /\ \E t \in c.from + 1 .. c.to : applied[t].input # Own(t)

(* How many input datagrams may be lost in a row before one comes too late *)
(* for its tick: the window repeats it, and the lead leaves it the time.   *)
Slack == Lead - CeilDiv(CHOOSE d \in Delays(scenario.link) :
                            \A e \in Delays(scenario.link) : e <= d, TickTime)
Bearable == scenario.burst < Redundancy /\ scenario.burst <= Slack

(* The server waits for no input after the first `lead` ticks, if losses   *)
(* are no longer than what redundancy and lead cover (end_to_end.rs:64,    *)
(* input_starvation_is_confined_to_startup).                               *)
StarvedOnlyAtStartup ==
  Bearable => \A t \in DOMAIN applied : applied[t].starved => t <= Lead

(* The client never goes back to an older state of the server than one it  *)
(* has confirmed or adopted, however late or often snapshots arrive.       *)
NeverBackwards == [][base'.tick >= base.tick]_vars

-----------------------------------------------------------------------------
(* Scenarios for TLC.                                                      *)
Perfect == Symmetric(0, "never")
Lossy == Symmetric(0, "maybe")
Jittery == [Lossy EXCEPT !.jitter = 1]
Reordering == [Perfect EXCEPT !.reorder = "maybe", !.reorder_extra = 5]
Duplicating == [Symmetric(1, "never") EXCEPT !.duplicate = "maybe"]

Scenario(link, burst, deltas) == [link |-> link, burst |-> burst, deltas |-> deltas]

MCInputs == {-1, 0, 1}
MCScenarios ==
  {Scenario(Lossy, 1, FALSE), Scenario(Lossy, 3, FALSE), Scenario(Lossy, 2, TRUE),
   Scenario(Jittery, 1, FALSE), Scenario(Reordering, 0, FALSE),
   Scenario(Duplicating, 0, FALSE)}
=============================================================================
