----------------------------- MODULE RollbackMesh -----------------------------
(***************************************************************************)
(* Rollback sessions playing one game: every peer gives its own inputs,    *)
(* simulates with what it knows, and receives the others' inputs late,     *)
(* reordered and several times.  Players without a session of their own    *)
(* only give inputs: a peer as the others see it.                          *)
(***************************************************************************)
EXTENDS RollbackSession, FiniteSets

LOCAL INSTANCE TLC

(* A game: the players whose sessions are modelled, the input delay each   *)
(* player configured, and the bounds on the ticks simulated, on the ticks  *)
(* after which an input under way is gone, on those by which a player's    *)
(* inputs may be ahead of a peer, on hard resyncs, and on the ticks        *)
(* simulated once there was one.                                           *)
CONSTANT Games

ASSUME GamesAssumption ==
  \A g \in Games :
    /\ g.peers \subseteq Players
    /\ g.delay \in [Players -> Nat]
    /\ \A bound \in {g.maxTick, g.lag, g.ahead, g.maxResyncs, g.resyncTick} : bound \in Nat

VARIABLES
  game,
  session,    \* per peer
  given,      \* the inputs the players gave
  heard,      \* history, per peer: those its session was told
  resyncs     \* history, per peer: hard resyncs

vars == <<game, session, given, heard, resyncs>>

Peers == game.peers
MaxTick == IF \E p \in Peers : resyncs[p] # 0 THEN game.resyncTick ELSE game.maxTick

Init ==
  /\ game \in Games
  /\ session = [p \in Peers |-> NewSession]
  /\ given = {}
  /\ heard = [p \in Peers |-> {}]
  /\ resyncs = [p \in Peers |-> 0]

HasGiven(p, t) == \E r \in given : r.player = p /\ r.tick = t

(* Each frame of a peer's main loop takes the local input, broadcasts it   *)
(* and advances.                                                           *)
GiveLocalInput(p, input) ==
  LET t == LocalTarget(session[p], game.delay[p])
      r == [player |-> p, tick |-> t, input |-> input]
  IN /\ session[p].current < MaxTick
     /\ ~HasGiven(p, t)
     /\ \A q \in Peers : t <= session[q].current + game.ahead
     /\ session' = [session EXCEPT ![p] = AddLocalInput(@, game.delay[p], p, input)]
     /\ given' = given \cup {r}
     /\ heard' = [heard EXCEPT ![p] = @ \cup {r}]
     /\ UNCHANGED <<game, resyncs>>

AdvanceFrame(p) ==
  /\ session[p].current < MaxTick
  /\ HasGiven(p, LocalTarget(session[p], game.delay[p]))
  /\ session' = [session EXCEPT ![p] = Advance(@)]
  /\ UNCHANGED <<game, given, heard, resyncs>>

(* The first tick a player can have an input for.                          *)
FirstInput(p) == game.delay[p] + 1

(* A player without a session gives its inputs tick by tick.               *)
GiveOtherInput(p, t, input) ==
  /\ t \in FirstInput(p) .. MaxTick
  /\ ~HasGiven(p, t)
  /\ \A u \in FirstInput(p) .. t - 1 : HasGiven(p, u)
  /\ \A q \in Peers : t <= session[q].current + game.ahead
  /\ given' = given \cup {[player |-> p, tick |-> t, input |-> input]}
  /\ UNCHANGED <<game, session, heard, resyncs>>

(* An input given reaches peer p, perhaps not for the first time.          *)
ReceiveInput(p, r) ==
  /\ r.player # p
  /\ session[p].current - r.tick <= game.lag
  /\ session' = [session EXCEPT ![p] = AddRemoteInput(@, r.player, r.tick, r.input)]
  /\ heard' = [heard EXCEPT ![p] = @ \cup {r}]
  /\ UNCHANGED <<game, given, resyncs>>

(* The public rollback_to and sync_test, called when the user pleases.     *)
(* (A rollback_to beyond the window would only count one more refusal.)    *)
RollBack(p, t) ==
  /\ InWindow(session[p], t)
  /\ session' = [session EXCEPT ![p] = RollbackTo(@, t)]
  /\ UNCHANGED <<game, given, heard, resyncs>>

TestSync(p) ==
  /\ session' = [session EXCEPT ![p] = SyncTest(@)]
  /\ UNCHANGED <<game, given, heard, resyncs>>

(* A hard resync: peer p takes over the world of peer q.                   *)
Resync(p, q) ==
  /\ resyncs[p] < game.maxResyncs
  /\ \A x \in Peers : session[x].current <= game.resyncTick
  /\ session' = [session EXCEPT ![p] = Reset(@, session[q].world)]
  /\ resyncs' = [resyncs EXCEPT ![p] = @ + 1]
  /\ UNCHANGED <<game, given, heard>>

Next ==
  \/ \E p \in Peers :
       \/ \E input \in Inputs : GiveLocalInput(p, input)
       \/ AdvanceFrame(p)
       \/ \E r \in given : ReceiveInput(p, r)
       \/ \E t \in 1 .. session[p].current : RollBack(p, t)
       \/ TestSync(p)
       \/ \E q \in Peers \ {p} : Resync(p, q)
  \/ \E p \in Players \ Peers, t \in 1 .. MaxTick, input \in Inputs :
       GiveOtherInput(p, t, input)

Spec == Init /\ [][Next]_vars

-----------------------------------------------------------------------------
(* No rollback of p was refused and its world was never replaced.          *)
Undisturbed(p) == ~session[p].refused /\ resyncs[p] = 0

(* The world contains, at every tick simulated, the real input of every    *)
(* player whose input is known by now, however late and in whatever order  *)
(* it was learnt: a wrong prediction never survives its correction.        *)
TruthPrevails ==
  \A p \in Peers : Undisturbed(p) =>
    \A r \in heard[p] : r.tick <= session[p].current =>
      session[p].world[r.tick][r.player] = r.input

(* The saved states reach back over the whole window (session.rs:111-113), *)
(* after any number of rollbacks: none is ever refused for want of one.    *)
WindowIsSaved ==
  \A p \in Peers : resyncs[p] = 0 =>
    \A t \in 1 .. session[p].current :
      InWindow(session[p], t) => IsSaved(session[p], t - 1)

(* Every saved state lies on the way to the present world: a rollback      *)
(* never restores a past that has been corrected since.                    *)
SavedStatesAreThePast ==
  \A p \in Peers : \A x \in session[p].saved :
    /\ Len(x) < session[p].current
    /\ x = SubSeq(session[p].world, 1, Len(x))

(* Rolling back and simulating again reproduces the present world          *)
(* (tests/rollback.rs:83): any rollback in the window, and so sync_test    *)
(* accuses no deterministic simulation.                                    *)
ResimulationReproduces ==
  \A p \in Peers : Undisturbed(p) =>
    \A t \in 1 .. session[p].current :
      RollbackTo(session[p], t).world = session[p].world

(* Peers that know the same inputs up to tick n have simulated every tick  *)
(* up to n with the same inputs, from the first for which every player can *)
(* have one: from there on nothing of the order and the delays in which    *)
(* they learnt them is left in their worlds.  Without an input delay that  *)
(* is every tick, and the states of tick n are the same (ADR-0013:50).     *)
KnowsAll(p, n) == \A r \in given : r.tick <= n => r \in heard[p]
Started(k) == \A z \in Players : FirstInput(z) <= k
PeersAgree ==
  \A p, q \in Peers : Undisturbed(p) /\ Undisturbed(q) =>
    \A n \in 1 .. MaxTick :
      /\ n <= session[p].current /\ n <= session[q].current
      /\ KnowsAll(p, n) /\ KnowsAll(q, n)
      /\ \A z \in Players : HasGiven(z, n)
      => \A k \in 1 .. n : Started(k) => session[p].world[k] = session[q].world[k]

(* "The newest tick every participant has confirmed.  State at or before   *)
(* it is final" (session.rs:152), provided no input at or before that tick *)
(* is still missing: then no late copy, correction, rollback or sync test  *)
(* changes it any more, and neither what stands for the inputs that an     *)
(* input delay rules out.                                                  *)
NoneMissing(p, n) ==
  \A q \in Players : \A t \in FirstInput(q) .. n : \E r \in heard[p] : r.player = q /\ r.tick = t
CompleteStateIsFinal ==
  [][ \A p \in Peers :
        LET n == ConfirmedFrame(session[p])
        IN /\ Undisturbed(p) /\ resyncs'[p] = 0
           /\ NoneMissing(p, n)
           /\ n <= session[p].current
           => SubSeq(session'[p].world, 1, n) = SubSeq(session[p].world, 1, n) ]_vars

(* "Hash of the arena per tick, exchanged between peers and compared at    *)
(* the confirmed frame" (ADR-0013:50): there the states of two peers with  *)
(* no input missing are the same.  Without an input delay they are; with   *)
(* one they are not, so no run checks this.                                *)
HashesAgree ==
  \A p, q \in Peers : Undisturbed(p) /\ Undisturbed(q) =>
    LET n == ConfirmedFrame(session[p])
    IN /\ n = ConfirmedFrame(session[q])
       /\ NoneMissing(p, n) /\ NoneMissing(q, n)
       /\ n <= session[p].current /\ n <= session[q].current
       => SubSeq(session[p].world, 1, n) = SubSeq(session[q].world, 1, n)

-----------------------------------------------------------------------------
(* Games for TLC: a session alone with a player whose inputs are at most   *)
(* two ticks late, which may be one too late for the window, while the     *)
(* input ring wraps; two sessions playing each other, one of which may     *)
(* take over the other's world; and two of which one or both delay their   *)
(* inputs.                                                                 *)
Undelayed == [p \in Players |-> 0]
Alone(p) ==
  [peers |-> {p}, delay |-> Undelayed,
   maxTick |-> 5, lag |-> 2, ahead |-> 1, maxResyncs |-> 0, resyncTick |-> 0]
Together ==
  [peers |-> Players, delay |-> Undelayed,
   maxTick |-> 3, lag |-> 2, ahead |-> 1, maxResyncs |-> 1, resyncTick |-> 2]
Delayed(delay) ==
  [peers |-> Players, delay |-> delay,
   maxTick |-> 3, lag |-> 2, ahead |-> 2, maxResyncs |-> 0, resyncTick |-> 0]

DelayedGames == {Delayed(delay) : delay \in [Players -> 0 .. 1] \ {Undelayed}}
MCGames == {Alone(p) : p \in Players} \cup {Together} \cup DelayedGames

(* The players are interchangeable.                                        *)
Symmetry == Permutations(Players)
=============================================================================
