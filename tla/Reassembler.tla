----------------------------- MODULE Reassembler -----------------------------
(***************************************************************************)
(* tempo-reliability/src/fragment.rs: splitting a message that is larger   *)
(* than a packet, and putting it together again under bounded memory.      *)
(*                                                                         *)
(* The bytes of a fragment are named by the message they come from and by  *)
(* their place in it, so that a payload assembled from the wrong fragments *)
(* is told from the right one.                                             *)
(***************************************************************************)
EXTENDS Integers, FiniteSets, Functions

CONSTANTS
  CountMod,           \* values of a u16 count or index: 2^16
  MaxFragmentBytes,   \* the size fragment() is given
  MaxFragments,       \* ReassemblyLimits, field by field
  MaxMessages,
  MaxTotalBytes,
  Timeout

ASSUME ReassemblerAssumption ==
  /\ CountMod \in Nat \ {0} /\ MaxFragmentBytes \in Nat \ {0}
  /\ MaxFragments \in 0 .. CountMod - 1
  /\ MaxMessages \in Nat /\ MaxTotalBytes \in Nat /\ Timeout \in Nat

VARIABLES
  partial,       \* message id -> what has arrived of it
  total_bytes,   \* bytes held
  delivered      \* history: the payloads returned

reassemblerVars == <<partial, total_bytes, delivered>>

-----------------------------------------------------------------------------
(* fragment()                                                              *)
Pieces(len) ==
  IF len = 0 THEN 1 ELSE (len + MaxFragmentBytes - 1) \div MaxFragmentBytes

PieceBytes(len, i) ==
  IF len - i * MaxFragmentBytes < MaxFragmentBytes THEN len - i * MaxFragmentBytes
  ELSE MaxFragmentBytes

FragmentOf(msg, id, len, i) ==
  [id |-> id, index |-> i % CountMod, count |-> Pieces(len) % CountMod,
   data |-> [msg |-> msg, piece |-> i], bytes |-> PieceBytes(len, i)]

Fragments(msg, id, len) == {FragmentOf(msg, id, len, i) : i \in 0 .. Pieces(len) - 1}

-----------------------------------------------------------------------------
(* A message in progress: `parts` maps the indices that have arrived to    *)
(* their data.                                                             *)
ReassemblerInit ==
  /\ partial = << >>
  /\ total_bytes = 0
  /\ delivered = {}

(* Mutants: nothing expires; a message expires one tick early.             *)
InTimeForever(now) == DOMAIN partial
InTimeShort(now) == {id \in DOMAIN partial : now - partial[id].first_seen < Timeout - 1}

(* expire, called first by every push: the messages still in time.         *)
InTime(now) == {id \in DOMAIN partial : now - partial[id].first_seen < Timeout}

(* A sum is the size of a disjoint union: so many bytes of each message.   *)
Pairs(f) == UNION {{x} \X f[x] : x \in DOMAIN f}
Bytes(ids) == Cardinality(Pairs([id \in ids |-> 1 .. partial[id].bytes]))
KeptBytes(now) == total_bytes - Bytes(DOMAIN partial \ InTime(now))

(* The messages still in time, but message id, and with entry e for id.    *)
Without(id, now) == Restrict(partial, InTime(now) \ {id})
With(id, e, now) ==
  [x \in InTime(now) \cup {id} |-> IF x = id THEN e ELSE partial[x]]

Expire(now) ==
  /\ partial' = Restrict(partial, InTime(now))
  /\ total_bytes' = KeptBytes(now)
  /\ UNCHANGED delivered

(* push.  The header is checked before anything else happens.              *)
WellFormed(f) == f.count # 0 /\ f.count <= MaxFragments /\ f.index < f.count

Reject(f) == ~WellFormed(f) /\ UNCHANGED reassemblerVars

(* The entry the fragment belongs to, a new one if there is none.          *)
Entry(f, now) ==
  IF f.id \in InTime(now) THEN partial[f.id]
  ELSE [count |-> f.count, parts |-> << >>, received |-> 0, bytes |-> 0, first_seen |-> now]

Consistent(f, now) == f.id \in InTime(now) => partial[f.id].count = f.count
Duplicate(f, now) == f.index \in DOMAIN Entry(f, now).parts
OverLimit(f, now) ==
  \/ f.id \notin InTime(now) /\ Cardinality(InTime(now)) >= MaxMessages
  \/ KeptBytes(now) + f.bytes > MaxTotalBytes

(* Mutant: the bytes of the message dropped stay counted.                  *)
DisagreeLeaks(f, now) ==
  /\ WellFormed(f) /\ ~Consistent(f, now)
  /\ partial' = Without(f.id, now)
  /\ total_bytes' = KeptBytes(now)
  /\ UNCHANGED delivered

(* Two fragments disagree about the shape of the message: it is dropped.   *)
Disagree(f, now) ==
  /\ WellFormed(f) /\ ~Consistent(f, now)
  /\ partial' = Without(f.id, now)
  /\ total_bytes' = KeptBytes(now) - partial[f.id].bytes
  /\ UNCHANGED delivered

(* A duplicate, or no room: only what has expired is gone.                 *)
Ignore(f, now) ==
  /\ WellFormed(f) /\ Consistent(f, now)
  /\ Duplicate(f, now) \/ OverLimit(f, now)
  /\ Expire(now)

(* The entry with the fragment in it.                                      *)
Added(f, now) ==
  LET e == Entry(f, now)
  IN [e EXCEPT !.parts = [i \in DOMAIN @ \cup {f.index} |-> IF i = f.index THEN f.data ELSE @[i]],
               !.received = @ + 1,
               !.bytes = @ + f.bytes]

Accepted(f, now) ==
  WellFormed(f) /\ Consistent(f, now) /\ ~Duplicate(f, now) /\ ~OverLimit(f, now)

Store(f, now) ==
  /\ Accepted(f, now)
  /\ Added(f, now).received # f.count
  /\ partial' = With(f.id, Added(f, now), now)
  /\ total_bytes' = KeptBytes(now) + f.bytes
  /\ UNCHANGED delivered

(* The last fragment: the parts are returned in the order of their index.  *)
Complete(f, now) ==
  /\ Accepted(f, now)
  /\ Added(f, now).received = f.count
  /\ partial' = Without(f.id, now)
  /\ total_bytes' = KeptBytes(now) + f.bytes - Added(f, now).bytes
  /\ delivered' = delivered \cup {Added(f, now).parts}

Push(f, now) ==
  Reject(f) \/ Disagree(f, now) \/ Ignore(f, now) \/ Store(f, now) \/ Complete(f, now)

Clear ==
  /\ partial' = << >>
  /\ total_bytes' = 0
  /\ UNCHANGED delivered
=============================================================================
