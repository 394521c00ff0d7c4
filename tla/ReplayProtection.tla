--------------------------- MODULE ReplayProtection ---------------------------
(***************************************************************************)
(* The life of a packet number between two netcode peers: the sender seals *)
(* packet n under the nonce n and puts n modulo SeqCount on the wire; the    *)
(* receiver extends the wire value with the highest number it has accepted *)
(* (sequence.rs:28-33), opens the packet, which succeeds only under the    *)
(* nonce it was sealed with (crypto.rs:45-51), and asks its ReplayWindow   *)
(* (tempo-netcode/src/crypto.rs:103-169) whether it is the first time.     *)
(*                                                                         *)
(* The network keeps every packet for ever: it delivers any of them, in    *)
(* any order, as often as it likes.                                        *)
(***************************************************************************)
EXTENDS SequenceNumbers

CONSTANTS
  Width,        \* ReplayWindow::WIDTH = 64
  Blackout,     \* bound: packets sent since the newest one accepted
  MaxPackets    \* bound on the packets sent

ASSUME ReplayAssumption ==
  /\ Width \in Nat \ {0}
  /\ Blackout \in Nat /\ Blackout < SeqCount \div 2
  /\ MaxPackets \in Nat /\ MaxPackets + 2 * SeqCount < WideMod

VARIABLES
  sealed,      \* sender: packets 0 .. sealed - 1 have been sent
  highest,     \* receiver: highest number accepted, or None (`started` is false)
  seen,        \* receiver: the one bits; bit i stands for highest - i
  accepted,    \* history: numbers of the packets accepted
  repeated     \* history: those accepted a second time

vars == <<sealed, highest, seen, accepted, repeated>>

None == -1

TypeOK ==
  /\ sealed \in 0 .. MaxPackets
  /\ highest \in Nat \cup {None}
  /\ seen \subseteq 0 .. Width - 1
  /\ accepted \subseteq 0 .. sealed - 1
  /\ repeated \subseteq accepted

Init ==
  /\ sealed = 0
  /\ highest = None /\ seen = {}
  /\ accepted = {} /\ repeated = {}

(* highest(): 0 before the first packet.                                   *)
Highest == IF highest = None THEN 0 ELSE highest

(* The sender does not run ahead of the receiver by more than the network  *)
(* can lose in a row.                                                      *)
Seal ==
  /\ sealed < MaxPackets
  /\ sealed - Highest <= Blackout
  /\ sealed' = sealed + 1
  /\ UNCHANGED <<highest, seen, accepted, repeated>>

(* Does packet n open?  The nonce is what the wire value extends to.       *)
Opens(n) == Extend(n % SeqCount, Highest) = n

(* Mutants: the bits stay where they are when the window moves; the window *)
(* has no end; the bit of a late packet is not set.                        *)
AcceptUnshifted(s) ==
  \/ highest = None /\ highest' = s /\ seen' = {0}
  \/ /\ highest # None /\ s > highest
     /\ seen' = seen \cup {0}
     /\ highest' = s
  \/ /\ highest # None /\ s <= highest
     /\ highest - s < Width /\ highest - s \notin seen
     /\ seen' = seen \cup {highest - s}
     /\ UNCHANGED highest
AcceptNoLimit(s) ==
  \/ highest = None /\ highest' = s /\ seen' = {0}
  \/ /\ highest # None /\ s > highest
     /\ seen' = {b + (s - highest) : b \in {x \in seen : x + (s - highest) < Width}} \cup {0}
     /\ highest' = s
  \/ /\ highest # None /\ s <= highest
     /\ highest - s \notin seen
     /\ seen' = seen \cup {highest - s}
     /\ UNCHANGED highest
AcceptNotMarked(s) ==
  \/ highest = None /\ highest' = s /\ seen' = {0}
  \/ /\ highest # None /\ s > highest
     /\ seen' = {b + (s - highest) : b \in {x \in seen : x + (s - highest) < Width}} \cup {0}
     /\ highest' = s
  \/ /\ highest # None /\ s <= highest
     /\ highest - s < Width /\ highest - s \notin seen
     /\ UNCHANGED <<highest, seen>>

(* ReplayWindow::accept, where it returns true.  Shifting by Width or more *)
(* leaves no old bit.                                                      *)
Accept(s) ==
  \/ highest = None /\ highest' = s /\ seen' = {0}
  \/ /\ highest # None /\ s > highest
     /\ seen' = {b + (s - highest) : b \in {x \in seen : x + (s - highest) < Width}} \cup {0}
     /\ highest' = s
  \/ /\ highest # None /\ s <= highest
     /\ highest - s < Width /\ highest - s \notin seen
     /\ seen' = seen \cup {highest - s}
     /\ UNCHANGED highest

(* Where it returns false nothing changes.                                 *)
Refuses(s) ==
  highest # None /\ s <= highest /\ (highest - s >= Width \/ highest - s \in seen)

Receive(n) ==
  /\ Opens(n)
  /\ Accept(n)
  /\ accepted' = accepted \cup {n}
  /\ repeated' = repeated \cup ({n} \cap accepted)
  /\ UNCHANGED sealed

Next == Seal \/ \E n \in 0 .. sealed - 1 : Receive(n)

Spec == Init /\ [][Next]_vars

-----------------------------------------------------------------------------
(* A packet is accepted at most once, however often the network delivers   *)
(* it and across any number of wraps (crypto.rs:99-102): "a captured       *)
(* packet is validly signed", only the window stops its second delivery.   *)
AcceptedOnce == repeated = {}

(* A fresh packet within reach is never turned away: however reordered, a  *)
(* packet that was not accepted before and is less than Width behind the   *)
(* highest, or ahead of it, extends to its true number and is accepted.    *)
(* A stale bit left by a jump would break it.                              *)
FreshIsAccepted ==
  \A n \in 0 .. sealed - 1 :
    /\ n \notin accepted
    /\ Highest - n < Width
    /\ Highest - n < SeqCount \div 2
    => Opens(n) /\ ~Refuses(n)
=============================================================================
