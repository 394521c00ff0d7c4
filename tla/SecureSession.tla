---------------------------- MODULE SecureSession ----------------------------
(***************************************************************************)
(* tempo-netcode/src/token.rs above crypto.rs: a backend issues connect    *)
(* tokens, a client presents one to a game server, which checks it without *)
(* asking anybody, and client and server then exchange packets             *)
(* (ReplayProtection) under the key the token carries.  A client may       *)
(* connect again with another token: numbers and window start afresh,      *)
(* while the network still delivers packets of earlier sessions.  The      *)
(* server uses a token once (docs/adr/0015:47), which is left to the       *)
(* application.  Of the two directions, client to server.                  *)
(***************************************************************************)
EXTENDS ReplayProtection, Sequences

CONSTANTS
  Protocols, ExpectedProtocol,   \* of the backend, and of this server
  Clients,
  Expiry,       \* expiry_seconds
  MaxTime,      \* u64::MAX of seconds; also the end of the model's clock
  MaxTokens     \* bound on the tokens issued

ASSUME SessionAssumption ==
  /\ Expiry \in Nat /\ MaxTime \in Nat /\ MaxTokens \in Nat
  /\ ExpectedProtocol \in Protocols

VARIABLES
  now,        \* unix seconds
  issued,     \* the tokens of the backend, [client, protocol, expireAt]; its key is the token's place
  sessions,   \* the sessions so far, the last one open: [token, since, sealed], sealed once ended
  stray       \* history: packets <<session, number>> accepted by a session they were not sealed in

sessionVars == <<vars, now, issued, sessions, stray>>

Times == 0 .. MaxTime
Token == [client : Clients, protocol : Protocols, expireAt : Times]
Session == [token : 1 .. Len(issued), since : Times, sealed : Nat]

Open == Len(sessions)    \* the open session, 0 before the first

SessionTypeOK ==
  /\ now \in Times
  /\ issued \in Seq(Token)
  /\ sessions \in Seq(Session)
  /\ stray \subseteq (1 .. Open) \X Nat

SessionInit ==
  /\ Init
  /\ now = 0 /\ issued = <<>> /\ sessions = <<>> /\ stray = {}

-----------------------------------------------------------------------------
(* The backend: issue, with saturating_add.                                *)
SaturatingAdd(a, b) == IF a + b > MaxTime THEN MaxTime ELSE a + b

Issue(client, protocol) ==
  /\ Len(issued) < MaxTokens
  /\ issued' = Append(issued, [client |-> client, protocol |-> protocol, expireAt |-> SaturatingAdd(now, Expiry)])
  /\ UNCHANGED <<vars, now, sessions, stray>>

(* Mutant: keys made from what the backend knows of the player.            *)
KeyOfClient(token) == issued[token].client

(* Key::generate, for every token.                                         *)
SessionKey(token) == token

(* Mutant: the expiry travels unauthenticated.                             *)
ProtocolOnly(protocol, expireAt) == <<protocol>>

TokenAad(protocol, expireAt) == <<protocol, expireAt>>

(* What arrives of a token, if it is whole (to_wire, from_wire): the       *)
(* sealed half, bound to the fields it was issued with, and the fields     *)
(* beside it, which the way may have damaged.                              *)
FromWire(token, protocol, expireAt) ==
  [protocol |-> protocol, expireAt |-> expireAt,
   aad |-> TokenAad(issued[token].protocol, issued[token].expireAt)]

OpensPrivate(w) ==
  /\ w.protocol = ExpectedProtocol
  /\ now < w.expireAt
  /\ TokenAad(w.protocol, w.expireAt) = w.aad

(* Mutant: the window of the session before.                               *)
SameWindow == UNCHANGED <<highest, seen>>

FreshWindow == highest' = None /\ seen' = {}

IsUsed(token) == \E s \in 1 .. Open : sessions[s].token = token

Ended == [s \in 1 .. Open |-> IF s = Open THEN [sessions[s] EXCEPT !.sealed = sealed] ELSE sessions[s]]

(* A client connects, or connects again.                                   *)
Connect(token, protocol, expireAt) ==
  /\ ~IsUsed(token)
  /\ OpensPrivate(FromWire(token, protocol, expireAt))
  /\ sessions' = Append(Ended, [token |-> token, since |-> now, sealed |-> 0])
  /\ sealed' = 0
  /\ FreshWindow
  /\ accepted' = {}
  /\ UNCHANGED <<repeated, now, issued, stray>>

Send == Open # 0 /\ Seal /\ UNCHANGED <<now, issued, sessions, stray>>

(* Packet n of session s arrives.                                          *)
Deliver(s, n) ==
  /\ SessionKey(sessions[s].token) = SessionKey(sessions[Open].token)
  /\ IF s = Open THEN Receive(n) /\ UNCHANGED stray
     ELSE /\ Opens(n) /\ Accept(n)
          /\ stray' = stray \cup {<<s, n>>}
          /\ UNCHANGED <<sealed, accepted, repeated>>
  /\ UNCHANGED <<now, issued, sessions>>

SealedIn(s) == IF s = Open THEN sealed ELSE sessions[s].sealed

Pass ==
  /\ now < MaxTime
  /\ now' = now + 1
  /\ UNCHANGED <<vars, issued, sessions, stray>>

SessionNext ==
  \/ \E client \in Clients, protocol \in Protocols : Issue(client, protocol)
  \/ \E token \in 1 .. Len(issued), protocol \in Protocols, expireAt \in Times :
       Connect(token, protocol, expireAt)
  \/ Send
  \/ \E s \in 1 .. Open : \E n \in 0 .. SealedIn(s) - 1 : Deliver(s, n)
  \/ Pass

SessionSpec == SessionInit /\ [][SessionNext]_sessionVars

-----------------------------------------------------------------------------
(* Numbers restart with every session, and the network still holds the     *)
(* packets of the ones before: a session accepts packets sealed in it      *)
(* alone, because no two tokens share a key (token.rs:136, crypto.rs:45).  *)
OwnPacketsOnly == stray = {}

(* Every session was opened with a token the backend issued for this       *)
(* protocol, before that token's expiry, whatever the way did to the       *)
(* fields that travel in the clear (token.rs:104-113, 170-200).            *)
AdmittedWhileValid ==
  \A s \in 1 .. Open :
    /\ issued[sessions[s].token].protocol = ExpectedProtocol
    /\ sessions[s].since < issued[sessions[s].token].expireAt
=============================================================================
