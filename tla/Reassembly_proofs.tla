-------------------------- MODULE Reassembly_proofs --------------------------
(***************************************************************************)
(* Proofs about reassembly, for any limits, timeout, lifetime, lengths and *)
(* number of messages.  The invariant behind them: whatever is in progress *)
(* under an id is in progress for one message, of which a fragment came    *)
(* while it could; and two messages that could be confused were sent       *)
(* further apart than a fragment lives and waits.                          *)
(***************************************************************************)
EXTENDS Reassembly, FiniteSetTheorems, FunctionTheorems, TLAPS

(* The cast of counts to u16 (fragment.rs:104) loses nothing.              *)
CountsFit == \A len \in Lengths : Pieces(len) < CountMod

IsEntry(e) ==
  e = [count |-> e.count, parts |-> e.parts, received |-> e.received,
       bytes |-> e.bytes, first_seen |-> e.first_seen]

Counted(e) == DOMAIN e.parts \subseteq 0 .. e.count - 1 /\ e.received = Cardinality(DOMAIN e.parts)

(* Entry e under an id is in progress for message n.                       *)
BelongsTo(e, id, n) ==
  /\ sent[n].id = id
  /\ e.count = Pieces(sent[n].len)
  /\ e.first_seen \in sent[n].at .. sent[n].at + Lifetime - 1
  /\ \A i \in DOMAIN e.parts : e.parts[i] = [msg |-> n, piece |-> i]

Sound(e, id) ==
  /\ IsEntry(e) /\ Counted(e) /\ e.first_seen <= now
  /\ \E n \in 1 .. Len(sent) : BelongsTo(e, id, n)

FarApart ==
  \A m, n \in 1 .. Len(sent) :
    m < n /\ sent[m].id = sent[n].id /\ Pieces(sent[m].len) = Pieces(sent[n].len)
      => sent[n].at - sent[m].at >= Lifetime + Timeout - 1

Message == [id : Ids, len : Lengths, at : Nat]

EntriesAreSound == \A id \in DOMAIN partial : Sound(partial[id], id)

IInv ==
  /\ now \in Nat
  /\ sent \in Seq(Message)
  /\ \A n \in 1 .. Len(sent) : sent[n].at <= now
  /\ FarApart
  /\ EntriesAreSound
  /\ WholeMessagesOnly

(***************************************************************************)
(* What a fragment says.                                                   *)
(***************************************************************************)
LEMMA SentType ==
  ASSUME IInv, NEW n \in 1 .. Len(sent)
  PROVE  sent[n].len \in Nat /\ sent[n].len \in Lengths /\ sent[n].at \in Nat /\ sent[n].at <= now
<1>1. sent[n] \in Message
  BY DEF IInv
<1>2. Lengths \subseteq Nat
  BY ReassemblyAssumption
<1> QED BY <1>1, <1>2 DEF IInv, Message

LEMMA SmallRemainder ==
  ASSUME NEW a \in Nat, NEW m \in Nat \ {0}, a < m PROVE a % m = a
OBVIOUS

LEMMA IndicesAreFinite ==
  \A k \in Nat : IsFiniteSet(0 .. k - 1) /\ Cardinality(0 .. k - 1) = k
<1> TAKE k \in Nat
<1>1. k - 1 \in Int /\ 0 \in Int
  OBVIOUS
<1>2. IsFiniteSet(0 .. k - 1) /\ Cardinality(0 .. k - 1) = IF 0 > k - 1 THEN 0 ELSE k - 1 - 0 + 1
  BY ONLY <1>1, FS_Interval
<1> QED BY <1>2

LEMMA PiecesType == \A len \in Nat : Pieces(len) \in Nat \ {0}
<1> SUFFICES ASSUME NEW len \in Nat, len # 0
    PROVE (len + MaxFragmentBytes - 1) \div MaxFragmentBytes \in Nat \ {0}
  BY DEF Pieces
<1> DEFINE q == (len + MaxFragmentBytes - 1) \div MaxFragmentBytes
           r == (len + MaxFragmentBytes - 1) % MaxFragmentBytes
<1>0. MaxFragmentBytes \in Nat \ {0}
  BY ReassemblerAssumption
<1>1. q \in Int /\ r \in 0 .. MaxFragmentBytes - 1
      /\ len + MaxFragmentBytes - 1 = MaxFragmentBytes * q + r
  BY <1>0
<1> HIDE DEF q, r
<1>2. q <= 0 => MaxFragmentBytes * q <= 0
  BY <1>0, <1>1
<1>3. q \in Nat \ {0}
  BY <1>0, <1>1, <1>2
<1> QED BY <1>3 DEF q

LEMMA FragmentSays ==
  ASSUME IInv, CountsFit, NEW n \in 1 .. Len(sent),
         NEW f \in Fragments(n, sent[n].id, sent[n].len)
  PROVE  /\ f.id = sent[n].id
         /\ f.count = Pieces(sent[n].len)
         /\ f.index \in 0 .. f.count - 1
         /\ f.data = [msg |-> n, piece |-> f.index]
<1>1. sent[n].len \in Lengths /\ sent[n].len \in Nat
  BY SentType
<1>2. Pieces(sent[n].len) \in Nat \ {0} /\ Pieces(sent[n].len) < CountMod
  BY <1>1, PiecesType DEF CountsFit
<1>3. PICK i \in 0 .. Pieces(sent[n].len) - 1 : f = FragmentOf(n, sent[n].id, sent[n].len, i)
  BY DEF Fragments
<1>4. CountMod \in Nat \ {0}
  BY ReassemblerAssumption
<1>5. i % CountMod = i
  BY <1>2, <1>3, <1>4, SmallRemainder
<1>6. Pieces(sent[n].len) % CountMod = Pieces(sent[n].len)
  BY <1>2, <1>4, SmallRemainder
<1> QED BY <1>2, <1>3, <1>5, <1>6 DEF FragmentOf

(***************************************************************************)
(* A fragment that finds an entry of its shape in time belongs to it: had  *)
(* they different messages, one would be too old.                          *)
(***************************************************************************)
LEMMA SameMessage ==
  ASSUME IInv, CountsFit, NEW n \in 1 .. Len(sent), now - sent[n].at < Lifetime,
         NEW f \in Fragments(n, sent[n].id, sent[n].len),
         f.id \in InTime(now), Consistent(f, now)
  PROVE  BelongsTo(partial[f.id], f.id, n)
<1> DEFINE e == partial[f.id]
<1>1. f.id \in DOMAIN partial /\ now - e.first_seen < Timeout /\ e.count = f.count
  BY DEF InTime, Consistent
<1>2. e.first_seen <= now
  BY <1>1 DEF IInv, EntriesAreSound, Sound
<1>3. PICK m \in 1 .. Len(sent) : BelongsTo(e, f.id, m)
  BY <1>1 DEF IInv, EntriesAreSound, Sound
<1>4. sent[m].id = sent[n].id /\ Pieces(sent[m].len) = Pieces(sent[n].len)
  BY <1>1, <1>3, FragmentSays DEF BelongsTo
<1>5. /\ now \in Nat /\ sent[m].at \in Nat /\ sent[n].at \in Nat
      /\ sent[m].at <= now /\ sent[n].at <= now
      /\ e.first_seen \in sent[m].at .. sent[m].at + Lifetime - 1
      /\ e.first_seen \in Int /\ Lifetime \in Nat /\ Timeout \in Nat
  BY <1>3, SentType, ReassemblerAssumption, ReassemblyAssumption
     DEF IInv, BelongsTo
<1>6. /\ m < n => sent[n].at - sent[m].at >= Lifetime + Timeout - 1
      /\ n < m => sent[m].at - sent[n].at >= Lifetime + Timeout - 1
  BY <1>4 DEF IInv, FarApart
<1>7. ~(m < n) /\ ~(n < m)
  <2>1. ASSUME NEW t \in Nat, NEW tm \in Nat, NEW tn \in Nat, NEW first \in Int,
               NEW L \in Nat, NEW T \in Nat,
               tm <= t, tn <= t, first <= t, first <= tm + L - 1, t - first < T, t - tn < L
        PROVE  ~(tn - tm >= L + T - 1) /\ ~(tm - tn >= L + T - 1)
    BY <2>1
  <2>2. e.first_seen <= sent[m].at + Lifetime - 1
    BY <1>5
  <2> HIDE DEF e
  <2>3. ~(sent[n].at - sent[m].at >= Lifetime + Timeout - 1)
        /\ ~(sent[m].at - sent[n].at >= Lifetime + Timeout - 1)
    BY <1>1, <1>2, <1>5, <2>1, <2>2
  <2> QED BY <1>6, <2>3
<1>8. m = n
  BY <1>7
<1> QED BY <1>3, <1>8

(***************************************************************************)
(* An accepted fragment makes a sound entry, with what was there.          *)
(***************************************************************************)
LEMMA AddedSound ==
  ASSUME IInv, CountsFit, NEW n \in 1 .. Len(sent), now - sent[n].at < Lifetime,
         NEW f \in Fragments(n, sent[n].id, sent[n].len), Accepted(f, now),
         NEW e, e = Added(f, now)
  PROVE  /\ Sound(e, f.id) /\ BelongsTo(e, f.id, n)
         /\ e.count = f.count
         /\ e.parts = [i \in DOMAIN e.parts |-> e.parts[i]]
<1> DEFINE b == Entry(f, now)
<1>1. /\ now \in Nat /\ Lifetime \in Nat \ {0}
      /\ sent[n].at \in Nat /\ sent[n].at <= now
  BY SentType, ReassemblyAssumption DEF IInv
<1>2. IsEntry(b) /\ Counted(b) /\ b.first_seen <= now /\ BelongsTo(b, f.id, n) /\ b.count = f.count
  <2>1. CASE f.id \in InTime(now)
    <3>1. b = partial[f.id] /\ f.id \in DOMAIN partial
      BY <2>1 DEF Entry, InTime
    <3>2. BelongsTo(b, f.id, n)
      BY <2>1, <3>1, SameMessage DEF Accepted
    <3>3. Sound(b, f.id)
      BY <3>1 DEF IInv, EntriesAreSound
    <3> QED BY <2>1, <3>1, <3>2, <3>3 DEF Sound, Accepted, Consistent
  <2>2. CASE f.id \notin InTime(now)
    <3>1. b = [count |-> f.count, parts |-> << >>, received |-> 0, bytes |-> 0, first_seen |-> now]
      BY <2>2 DEF Entry
    <3>2. DOMAIN b.parts = {}
      BY <3>1
    <3>3. Counted(b)
      BY <3>1, <3>2, FS_EmptySet DEF Counted
    <3>4. now \in sent[n].at .. sent[n].at + Lifetime - 1
      BY <1>1
    <3>5. f.id = sent[n].id /\ f.count = Pieces(sent[n].len)
      BY FragmentSays
    <3>6. BelongsTo(b, f.id, n)
      BY <3>1, <3>2, <3>4, <3>5 DEF BelongsTo
    <3>7. IsEntry(b) /\ b.first_seen = now /\ b.count = f.count
      BY <3>1 DEF IsEntry
    <3> QED BY <1>1, <3>3, <3>6, <3>7
  <2> QED BY <2>1, <2>2
<1>3. f.index \in 0 .. f.count - 1 /\ f.count \in Nat /\ f.data = [msg |-> n, piece |-> f.index]
  <2>1. sent[n].len \in Nat
    BY SentType
  <2> QED BY <2>1, FragmentSays, PiecesType
<1>4. f.index \notin DOMAIN b.parts
  BY DEF Accepted, Duplicate
<1> DEFINE D == DOMAIN b.parts \cup {f.index}
<1>5. e = [count |-> b.count,
           parts |-> [i \in D |-> IF i = f.index THEN f.data ELSE b.parts[i]],
           received |-> b.received + 1, bytes |-> b.bytes + f.bytes, first_seen |-> b.first_seen]
  BY <1>2 DEF Added, IsEntry
<1> HIDE DEF b
<1>6. IsFiniteSet(DOMAIN b.parts)
  <2>1. IsFiniteSet(0 .. f.count - 1)
    BY <1>3, IndicesAreFinite
  <2> QED BY <1>2, <2>1, FS_Subset DEF Counted
<1>7. Cardinality(D) = Cardinality(DOMAIN b.parts) + 1
  BY <1>4, <1>6, FS_AddElement
<1>8. DOMAIN e.parts = D
  BY <1>5
<1>9. Counted(e)
  BY <1>2, <1>3, <1>5, <1>7, <1>8 DEF Counted
<1>10. BelongsTo(e, f.id, n)
  BY <1>2, <1>3, <1>5 DEF BelongsTo
<1>11. Sound(e, f.id)
  BY <1>2, <1>5, <1>9, <1>10 DEF Sound, IsEntry
<1> QED BY <1>2, <1>5, <1>8, <1>10, <1>11

LEMMA AddedKeeps ==
  ASSUME IInv, NEW f, Accepted(f, now), f.id \in InTime(now)
  PROVE  \A i \in DOMAIN partial[f.id].parts :
           i \in DOMAIN Added(f, now).parts /\ Added(f, now).parts[i] = partial[f.id].parts[i]
<1> DEFINE b == partial[f.id]
<1>1. b = Entry(f, now) /\ IsEntry(b) /\ f.index \notin DOMAIN b.parts
  BY DEF IInv, EntriesAreSound, Sound, Entry, InTime, Accepted, Duplicate
<1> HIDE DEF b
<1>2. Added(f, now).parts
        = [i \in DOMAIN b.parts \cup {f.index} |-> IF i = f.index THEN f.data ELSE b.parts[i]]
  BY <1>1 DEF Added, IsEntry
<1>3. \A i \in DOMAIN b.parts :
        i \in DOMAIN Added(f, now).parts /\ Added(f, now).parts[i] = b.parts[i]
  BY <1>1, <1>2
<1> QED BY <1>3 DEF b

(***************************************************************************)
(* A complete entry holds the message.                                     *)
(***************************************************************************)
LEMMA CompleteIsWhole ==
  ASSUME IInv, NEW n \in 1 .. Len(sent), NEW e, NEW id,
         Counted(e), BelongsTo(e, id, n), e.received = e.count,
         e.parts = [i \in DOMAIN e.parts |-> e.parts[i]]
  PROVE  e.parts = Whole(n)
<1>1. e.count \in Nat
  BY SentType, PiecesType DEF BelongsTo
<1>2. IsFiniteSet(0 .. e.count - 1) /\ Cardinality(0 .. e.count - 1) = e.count
  BY <1>1, IndicesAreFinite
<1>3. DOMAIN e.parts = 0 .. e.count - 1
  BY <1>2, FS_Subset DEF Counted
<1> QED BY <1>3 DEF BelongsTo, Whole

(***************************************************************************)
(* Every step but Send and Tick leaves entries that were there, or one     *)
(* that was made.                                                          *)
(***************************************************************************)
LEMMA EntriesSound ==
  ASSUME IInv, UNCHANGED <<now, sent>>,
         \A id \in DOMAIN partial' : Sound(partial'[id], id),
         \A p \in delivered' : p \in delivered \/ \E n \in 1 .. Len(sent) : p = Whole(n)
  PROVE  IInv'
<1>1. EntriesAreSound'
  <2> SUFFICES ASSUME NEW id \in DOMAIN partial' PROVE Sound(partial[id], id)'
    BY DEF EntriesAreSound
  <2>1. Sound(partial'[id], id)
    OBVIOUS
  <2> QED BY <2>1 DEF Sound, BelongsTo
<1>2. WholeMessagesOnly'
  BY DEF IInv, WholeMessagesOnly, Whole
<1>3. FarApart'
  BY DEF IInv, FarApart
<1> QED BY <1>1, <1>2, <1>3 DEF IInv

LEMMA ExpireSound == ASSUME IInv, UNCHANGED <<now, sent>>, Expire(now) PROVE IInv'
<1>1. DOMAIN partial' = InTime(now) /\ \A id \in InTime(now) : partial'[id] = partial[id]
  BY DEF Expire, Restrict
<1>2. InTime(now) \subseteq DOMAIN partial
  BY DEF InTime
<1> QED BY <1>1, <1>2, EntriesSound DEF Expire, IInv, EntriesAreSound, WholeMessagesOnly

LEMMA PushSound ==
  ASSUME IInv, CountsFit, NEW n \in 1 .. Len(sent), now - sent[n].at < Lifetime,
         NEW f \in Fragments(n, sent[n].id, sent[n].len),
         Push(f, now), UNCHANGED <<now, sent>>
  PROVE  IInv'
<1>1. InTime(now) \subseteq DOMAIN partial
  BY DEF InTime
<1>2. CASE Reject(f)
  BY <1>2, EntriesSound
     DEF Reject, reassemblerVars, IInv, EntriesAreSound, WholeMessagesOnly
<1>3. CASE Disagree(f, now)
  <2>1. DOMAIN partial' = InTime(now) \ {f.id} /\ \A id \in DOMAIN partial' : partial'[id] = partial[id]
    BY <1>3 DEF Disagree, Without, Restrict
  <2> QED BY <1>1, <1>3, <2>1, EntriesSound
     DEF Disagree, IInv, EntriesAreSound, WholeMessagesOnly
<1>4. CASE Ignore(f, now)
  BY <1>4, ExpireSound DEF Ignore
<1>5. CASE Store(f, now)
  <2>1. Sound(Added(f, now), f.id)
    BY <1>5, AddedSound DEF Store
  <2>2. /\ DOMAIN partial' = InTime(now) \cup {f.id}
        /\ \A id \in DOMAIN partial' :
             partial'[id] = IF id = f.id THEN Added(f, now) ELSE partial[id]
    BY <1>5 DEF Store, With
  <2> QED BY <1>1, <1>5, <2>1, <2>2, EntriesSound
     DEF Store, IInv, EntriesAreSound, WholeMessagesOnly
<1>6. CASE Complete(f, now)
  <2>1. /\ Counted(Added(f, now)) /\ BelongsTo(Added(f, now), f.id, n)
        /\ Added(f, now).received = Added(f, now).count
        /\ Added(f, now).parts = [i \in DOMAIN Added(f, now).parts |-> Added(f, now).parts[i]]
    BY <1>6, AddedSound DEF Complete, Sound
  <2>2. Added(f, now).parts = Whole(n)
    BY <2>1, CompleteIsWhole
  <2>3. DOMAIN partial' = InTime(now) \ {f.id} /\ \A id \in DOMAIN partial' : partial'[id] = partial[id]
    BY <1>6 DEF Complete, Without, Restrict
  <2> QED BY <1>1, <1>6, <2>2, <2>3, EntriesSound
     DEF Complete, IInv, EntriesAreSound, WholeMessagesOnly
<1> QED BY <1>2, <1>3, <1>4, <1>5, <1>6 DEF Push

LEMMA SendSound ==
  ASSUME IInv, NEW id \in Ids, NEW len \in Lengths, Send(id, len) PROVE IInv'
<1> DEFINE s == [id |-> id, len |-> len, at |-> now]
<1>1. /\ sent' = Append(sent, s) /\ UNCHANGED <<reassemblerVars, now>>
      /\ s \in Message
  BY DEF Send, IInv, Message
<1>2. /\ sent' \in Seq(Message)
      /\ Len(sent) \in Nat /\ Len(sent') = Len(sent) + 1
      /\ sent'[Len(sent) + 1] = s
      /\ \A n \in 1 .. Len(sent) : sent'[n] = sent[n]
  BY <1>1 DEF IInv
<1>3. \A n \in 1 .. Len(sent') : sent'[n].at <= now
  BY <1>2 DEF IInv
<1>4. FarApart'
  <2> SUFFICES ASSUME NEW m \in 1 .. Len(sent'), NEW n \in 1 .. Len(sent'), m < n,
                      sent'[m].id = sent'[n].id, Pieces(sent'[m].len) = Pieces(sent'[n].len)
               PROVE  sent'[n].at - sent'[m].at >= Lifetime + Timeout - 1
    BY DEF FarApart
  <2>1. CASE n \in 1 .. Len(sent)
    BY <1>2, <2>1 DEF IInv, FarApart
  <2>2. CASE n = Len(sent) + 1
    BY <1>2, <2>2 DEF Send, MayUse
  <2> QED BY <1>2, <2>1, <2>2
<1>5. EntriesAreSound'
  <2> SUFFICES ASSUME NEW x \in DOMAIN partial' PROVE Sound(partial[x], x)'
    BY DEF EntriesAreSound
  <2>1. x \in DOMAIN partial /\ Sound(partial[x], x) /\ partial' = partial /\ now' = now
    BY <1>1 DEF IInv, EntriesAreSound, reassemblerVars
  <2> QED BY <1>2, <2>1 DEF Sound, BelongsTo
<1>6. WholeMessagesOnly'
  <2>1. \A n \in 1 .. Len(sent) : Whole(n)' = Whole(n) /\ n \in 1 .. Len(sent')
    BY <1>2 DEF Whole
  <2> QED BY <1>1, <2>1 DEF IInv, WholeMessagesOnly, reassemblerVars
<1> QED BY <1>1, <1>2, <1>3, <1>4, <1>5, <1>6 DEF IInv, reassemblerVars

LEMMA InitSound == Init => IInv
<1> SUFFICES ASSUME Init PROVE IInv
  OBVIOUS
<1>1. sent = << >> /\ Len(sent) = 0 /\ DOMAIN partial = {}
  BY DEF Init, ReassemblerInit
<1> QED BY <1>1 DEF Init, ReassemblerInit, IInv, EntriesAreSound, FarApart, WholeMessagesOnly

LEMMA TickSound == IInv /\ Tick => IInv'
<1> SUFFICES ASSUME IInv, Tick PROVE IInv'
  OBVIOUS
<1>1. now \in Nat /\ now' = now + 1 /\ sent' = sent /\ UNCHANGED reassemblerVars
  BY DEF IInv, Tick
<1>2. EntriesAreSound'
  <2> SUFFICES ASSUME NEW x \in DOMAIN partial' PROVE Sound(partial[x], x)'
    BY DEF EntriesAreSound
  <2>1. x \in DOMAIN partial /\ Sound(partial[x], x) /\ partial' = partial
    BY <1>1 DEF IInv, EntriesAreSound, reassemblerVars
  <2>2. partial[x].first_seen \in Int
    BY <2>1, SentType, ReassemblyAssumption DEF Sound, BelongsTo
  <2> QED BY <1>1, <2>1, <2>2 DEF Sound, BelongsTo
<1>3. WholeMessagesOnly' /\ FarApart'
  BY <1>1 DEF IInv, WholeMessagesOnly, Whole, FarApart, reassemblerVars
<1>4. \A n \in 1 .. Len(sent) : sent[n].at <= now + 1
  BY <1>1, SentType
<1> QED BY <1>1, <1>2, <1>3, <1>4 DEF IInv, reassemblerVars

LEMMA StepSound == ASSUME IInv, CountsFit, [Next]_vars PROVE IInv'
<1>1. ASSUME NEW id \in Ids, NEW len \in Lengths, Send(id, len) PROVE IInv'
  BY <1>1, SendSound
<1>2. ASSUME NEW n \in 1 .. Len(sent), NEW f \in Fragments(n, sent[n].id, sent[n].len), Arrive(n, f)
      PROVE  IInv'
  BY <1>2, PushSound DEF Arrive
<1>3. CASE Tick
  BY <1>3, TickSound
<1>4. CASE CallExpire
  BY <1>4, ExpireSound DEF CallExpire
<1>5. CASE CallClear
  <2>1. DOMAIN partial' = {} /\ delivered' = delivered /\ UNCHANGED <<now, sent>>
    BY <1>5 DEF CallClear, Clear
  <2> QED BY <2>1, EntriesSound DEF IInv, WholeMessagesOnly
<1>6. CASE UNCHANGED vars
  BY <1>6, EntriesSound
     DEF vars, reassemblerVars, IInv, EntriesAreSound, WholeMessagesOnly
<1> QED BY <1>1, <1>2, <1>3, <1>4, <1>5, <1>6 DEF Next

(***************************************************************************)
(* What becomes of a fragment that was taken.                              *)
(***************************************************************************)
LEMMA InTimeOrTooOld ==
  ASSUME IInv, NEW id \in DOMAIN partial
  PROVE  id \in InTime(now) \/ now - partial[id].first_seen >= Timeout
<1>1. now \in Nat /\ Timeout \in Nat
  BY ReassemblerAssumption DEF IInv
<1>2. PICK n \in 1 .. Len(sent) :
        partial[id].first_seen \in sent[n].at .. sent[n].at + Lifetime - 1
  BY DEF IInv, EntriesAreSound, Sound, BelongsTo
<1>3. partial[id].first_seen \in Int
  BY <1>2, SentType, ReassemblyAssumption
<1> QED BY <1>1, <1>3 DEF InTime

LEMMA ExpireAccounts == ASSUME IInv, Expire(now) PROVE Accounted
<1>1. DOMAIN partial' = InTime(now) /\ \A id \in InTime(now) : partial'[id] = partial[id]
  BY DEF Expire, Restrict
<1> QED BY <1>1, InTimeOrTooOld DEF Accounted, Stays

LEMMA PushAccounts ==
  ASSUME IInv, CountsFit, NEW n \in 1 .. Len(sent), now - sent[n].at < Lifetime,
         NEW f \in Fragments(n, sent[n].id, sent[n].len), Push(f, now)
  PROVE  Accounted
<1>1. CASE Reject(f)
  BY <1>1 DEF Reject, reassemblerVars, Accounted, Stays
<1>2. CASE Disagree(f, now)
  <2>1. DOMAIN partial' = InTime(now) \ {f.id} /\ \A id \in DOMAIN partial' : partial'[id] = partial[id]
    BY <1>2 DEF Disagree, Without, Restrict
  <2>2. f.id \in DOMAIN partial /\ partial[f.id].count # f.count
    BY <1>2 DEF Disagree, Consistent, InTime
  <2>3. PICK m \in 1 .. Len(sent) : sent[m].id = f.id /\ partial[f.id].count = Pieces(sent[m].len)
    BY <2>2 DEF IInv, EntriesAreSound, Sound, BelongsTo
  <2>4. sent[n].id = f.id /\ f.count = Pieces(sent[n].len)
    BY FragmentSays
  <2>5. Disputed(f.id)
    BY <2>2, <2>3, <2>4 DEF Disputed
  <2> QED BY <2>1, <2>5, InTimeOrTooOld DEF Accounted, Stays
<1>3. CASE Ignore(f, now)
  BY <1>3, ExpireAccounts DEF Ignore
<1>4. ASSUME Accepted(f, now), f.id \in InTime(now)
      PROVE  \A i \in DOMAIN partial[f.id].parts :
               i \in DOMAIN Added(f, now).parts
               /\ Added(f, now).parts[i] = partial[f.id].parts[i]
  BY <1>4, AddedKeeps
<1>5. CASE Store(f, now)
  <2>1. /\ DOMAIN partial' = InTime(now) \cup {f.id}
        /\ \A id \in DOMAIN partial' :
             partial'[id] = IF id = f.id THEN Added(f, now) ELSE partial[id]
    BY <1>5 DEF Store, With
  <2>2. Accepted(f, now)
    BY <1>5 DEF Store
  <2>3. ASSUME NEW id \in InTime(now) PROVE Stays(id)
    BY <1>4, <2>1, <2>2, <2>3 DEF Stays
  <2> QED BY <2>3, InTimeOrTooOld DEF Accounted
<1>6. CASE Complete(f, now)
  <2>1. DOMAIN partial' = InTime(now) \ {f.id} /\ \A id \in DOMAIN partial' : partial'[id] = partial[id]
    BY <1>6 DEF Complete, Without, Restrict
  <2>2. Accepted(f, now) /\ Added(f, now).parts \in delivered'
    BY <1>6 DEF Complete
  <2>3. f.id \in InTime(now) => Returned(f.id)
    BY <1>4, <2>2 DEF Returned
  <2>4. ASSUME NEW id \in InTime(now), id # f.id PROVE Stays(id)
    BY <2>1, <2>4 DEF Stays
  <2> QED BY <2>3, <2>4, InTimeOrTooOld DEF Accounted
<1> QED BY <1>1, <1>2, <1>3, <1>5, <1>6 DEF Push

LEMMA StepAccounts == ASSUME IInv, CountsFit, [Next]_vars PROVE Accounted \/ UNCHANGED vars
<1>1. ASSUME UNCHANGED partial PROVE Accounted
  BY <1>1 DEF Accounted, Stays
<1>2. ASSUME NEW id \in Ids, NEW len \in Lengths, Send(id, len) PROVE Accounted
  BY <1>1, <1>2 DEF Send, reassemblerVars
<1>3. ASSUME NEW n \in 1 .. Len(sent), NEW f \in Fragments(n, sent[n].id, sent[n].len), Arrive(n, f)
      PROVE  Accounted
  BY <1>3, PushAccounts DEF Arrive
<1>4. CASE Tick
  BY <1>1, <1>4 DEF Tick, reassemblerVars
<1>5. CASE CallExpire
  BY <1>5, ExpireAccounts DEF CallExpire
<1>6. CASE CallClear
  BY <1>6 DEF CallClear, Clear, Accounted
<1> QED BY <1>2, <1>3, <1>4, <1>5, <1>6 DEF Next

LEMMA Inductive == ASSUME CountsFit PROVE Spec => []IInv
<1>1. IInv /\ [Next]_vars => IInv'
  BY StepSound
<1> QED BY <1>1, InitSound, PTL DEF Spec

(* If no message has more fragments than a u16 counts, only whole messages *)
(* are ever returned, each from the fragments of that one message, though  *)
(* ids are used again (fragment.rs:160-232).                               *)
THEOREM WholeMessages == ASSUME CountsFit PROVE Spec => []WholeMessagesOnly
<1>1. IInv => WholeMessagesOnly
  BY DEF IInv
<1> QED BY <1>1, Inductive, PTL

(* A fragment that was taken is lost only to age, to a disagreement or to  *)
(* clear: neither other fragments nor lack of room cost it                 *)
(* (fragment.rs:182-214).                                                  *)
THEOREM TakenStaysKept == ASSUME CountsFit PROVE Spec => TakenIsKept
<1>1. IInv /\ [Next]_vars => [Accounted]_vars
  BY StepAccounts
<1> QED BY <1>1, Inductive, PTL DEF Spec, TakenIsKept

-----------------------------------------------------------------------------
(***************************************************************************)
(* The books balance.  Sizes are sizes of disjoint unions, so that what is *)
(* said about sums is said about finite sets.                              *)
(***************************************************************************)
FiniteFamily(f) == IsFiniteSet(DOMAIN f) /\ \A x \in DOMAIN f : IsFiniteSet(f[x])
Part(f, S) == [x \in S |-> f[x]]

LEMMA PairsMembers ==
  ASSUME NEW f, NEW p
  PROVE  p \in Pairs(f) <=> \E x \in DOMAIN f : \E y \in f[x] : p = <<x, y>>
BY DEF Pairs

LEMMA PairsFinite ==
  ASSUME NEW f, FiniteFamily(f)
  PROVE  IsFiniteSet(Pairs(f)) /\ Cardinality(Pairs(f)) \in Nat
<1> DEFINE Fibre(x) == {x} \X f[x]
           U == {Fibre(x) : x \in DOMAIN f}
<1>1. \A x \in DOMAIN f : IsFiniteSet(Fibre(x))
  BY FS_Singleton, FS_Product DEF FiniteFamily
<1>2. IsFiniteSet(DOMAIN f)
  BY DEF FiniteFamily
<1>3. IsFiniteSet(U)
  <2> DEFINE fibre == [x \in DOMAIN f |-> Fibre(x)]
  <2>1. fibre \in [DOMAIN f -> U] /\ \A T \in U : \E x \in DOMAIN f : fibre[x] = T
    OBVIOUS
  <2>2. fibre \in Surjection(DOMAIN f, U)
    <3> HIDE DEF fibre, U
    <3> QED BY <2>1, Fun_IsSurj
  <2> HIDE DEF fibre, U
  <2> QED BY <1>2, <2>2, FS_Surjection
<1>4. \A T \in U : IsFiniteSet(T)
  BY <1>1
<1>5. IsFiniteSet(UNION U)
  <2> HIDE DEF U
  <2> QED BY <1>3, <1>4, FS_UNION
<1>6. Pairs(f) = UNION U
  BY DEF Pairs
<1> QED BY <1>5, <1>6, FS_CardinalityType

(* A family falls apart into two.                                          *)
LEMMA PairsSplit ==
  ASSUME NEW f, FiniteFamily(f), NEW S \in SUBSET DOMAIN f
  PROVE  Cardinality(Pairs(f))
           = Cardinality(Pairs(Part(f, S))) + Cardinality(Pairs(Part(f, DOMAIN f \ S)))
<1> DEFINE g == Part(f, S)
           h == Part(f, DOMAIN f \ S)
<1>1. /\ DOMAIN g = S /\ DOMAIN h = DOMAIN f \ S
      /\ \A x \in S : g[x] = f[x]
      /\ \A x \in DOMAIN f \ S : h[x] = f[x]
  BY DEF Part
<1>2. FiniteFamily(g) /\ FiniteFamily(h)
  <2>1. IsFiniteSet(S) /\ IsFiniteSet(DOMAIN f \ S)
    BY FS_Subset DEF FiniteFamily
  <2> QED BY <1>1, <2>1 DEF FiniteFamily
<1> HIDE DEF g, h
<1>3. \A p : p \in Pairs(f) <=> p \in Pairs(g) \cup Pairs(h)
  <2> TAKE p
  <2>1. p \in Pairs(f) <=> \E x \in DOMAIN f : \E y \in f[x] : p = <<x, y>>
    BY PairsMembers
  <2>2. p \in Pairs(g) <=> \E x \in S : \E y \in f[x] : p = <<x, y>>
    BY <1>1, PairsMembers
  <2>3. p \in Pairs(h) <=> \E x \in DOMAIN f \ S : \E y \in f[x] : p = <<x, y>>
    BY <1>1, PairsMembers
  <2> QED BY <2>1, <2>2, <2>3
<1>4. Pairs(g) \cap Pairs(h) = {}
  <2> SUFFICES ASSUME NEW p, p \in Pairs(g), p \in Pairs(h) PROVE FALSE
    OBVIOUS
  <2>1. PICK x \in S : \E y \in f[x] : p = <<x, y>>
    BY <1>1, PairsMembers
  <2>2. PICK z \in DOMAIN f \ S : \E y \in f[z] : p = <<z, y>>
    BY <1>1, PairsMembers
  <2>3. p[1] = x /\ p[1] = z
    BY <2>1, <2>2
  <2> QED BY <2>1, <2>2, <2>3
<1>5. IsFiniteSet(Pairs(g)) /\ IsFiniteSet(Pairs(h))
      /\ Cardinality(Pairs(g)) \in Nat /\ Cardinality(Pairs(h)) \in Nat
  BY <1>2, PairsFinite
<1>6. Pairs(f) = Pairs(g) \cup Pairs(h)
  BY <1>3
<1>7. Cardinality(Pairs(f))
        = Cardinality(Pairs(g)) + Cardinality(Pairs(h)) - Cardinality(Pairs(g) \cap Pairs(h))
  BY <1>5, <1>6, FS_Union
<1>8. Cardinality(Pairs(g) \cap Pairs(h)) = 0
  BY <1>4, FS_EmptySet
<1> QED BY <1>5, <1>7, <1>8 DEF g, h

LEMMA PairsOne ==
  ASSUME NEW f, NEW x, DOMAIN f = {x}, IsFiniteSet(f[x])
  PROVE  Cardinality(Pairs(f)) = Cardinality(f[x])
<1>1. Pairs(f) = {x} \X f[x]
  BY DEF Pairs
<1>2. IsFiniteSet({x}) /\ Cardinality({x}) = 1
  BY FS_Singleton
<1>3. Cardinality({x} \X f[x]) = 1 * Cardinality(f[x]) /\ Cardinality(f[x]) \in Nat
  BY <1>2, FS_Product, FS_CardinalityType
<1> QED BY <1>1, <1>3

(* Families that agree in the size of every member have the same size.     *)
LEMMA SameSizes ==
  ASSUME NEW f, NEW g, FiniteFamily(f), FiniteFamily(g), DOMAIN f = DOMAIN g,
         \A x \in DOMAIN f : Cardinality(f[x]) = Cardinality(g[x])
  PROVE  Cardinality(Pairs(f)) = Cardinality(Pairs(g))
<1> DEFINE b(x) == CHOOSE m : m \in Bijection(f[x], g[x])
           F == [p \in Pairs(f) |-> <<p[1], b(p[1])[p[2]]>>]
<1>1. \A x \in DOMAIN f : b(x) \in Bijection(f[x], g[x])
  <2> SUFFICES ASSUME NEW x \in DOMAIN f PROVE \E m : m \in Bijection(f[x], g[x])
    BY Zenon
  <2>1. ExistsBijection(f[x], g[x])
    BY FS_SameCardinalityBij DEF FiniteFamily
  <2> QED BY <2>1 DEF ExistsBijection
<1> HIDE DEF b
<1>2. \A x \in DOMAIN f :
        /\ \A y \in f[x] : b(x)[y] \in g[x]
        /\ \A y, z \in f[x] : b(x)[y] = b(x)[z] => y = z
        /\ \A t \in g[x] : \E y \in f[x] : b(x)[y] = t
  BY <1>1, Fun_BijectionProperties
<1>3. \A x \in DOMAIN f : \A y \in f[x] : <<x, y>> \in Pairs(f) /\ F[<<x, y>>] = <<x, b(x)[y]>>
  <2> SUFFICES ASSUME NEW x \in DOMAIN f, NEW y \in f[x]
               PROVE  <<x, y>> \in Pairs(f) /\ F[<<x, y>>] = <<x, b(x)[y]>>
    OBVIOUS
  <2>1. <<x, y>> \in Pairs(f)
    BY PairsMembers
  <2> QED BY <2>1
<1>4. F \in [Pairs(f) -> Pairs(g)]
  <2> SUFFICES ASSUME NEW p \in Pairs(f) PROVE F[p] \in Pairs(g)
    OBVIOUS
  <2>1. PICK x \in DOMAIN f : \E y \in f[x] : p = <<x, y>>
    BY PairsMembers
  <2>2. PICK y \in f[x] : p = <<x, y>>
    BY <2>1
  <2>3. F[p] = <<x, b(x)[y]>> /\ b(x)[y] \in g[x]
    BY <1>2, <1>3, <2>2
  <2> HIDE DEF F
  <2> QED BY <2>3, PairsMembers
<1> HIDE DEF F
<1>5. ASSUME NEW p \in Pairs(f), NEW q \in Pairs(f), F[p] = F[q] PROVE p = q
  <2>1. PICK x \in DOMAIN f : \E y \in f[x] : p = <<x, y>>
    BY PairsMembers
  <2>2. PICK y \in f[x] : p = <<x, y>>
    BY <2>1
  <2>3. PICK u \in DOMAIN f : \E y1 \in f[u] : q = <<u, y1>>
    BY PairsMembers
  <2>4. PICK w \in f[u] : q = <<u, w>>
    BY <2>3
  <2>5. <<x, b(x)[y]>> = <<u, b(u)[w]>>
    BY <1>3, <1>5, <2>2, <2>4
  <2>6. x = u /\ b(x)[y] = b(x)[w]
    BY <2>5
  <2> QED BY <1>2, <2>2, <2>4, <2>6
<1>6. ASSUME NEW q \in Pairs(g) PROVE \E p \in Pairs(f) : F[p] = q
  <2>1. PICK x \in DOMAIN g : \E t \in g[x] : q = <<x, t>>
    BY PairsMembers
  <2>2. PICK t \in g[x] : q = <<x, t>>
    BY <2>1
  <2>3. PICK y \in f[x] : b(x)[y] = t
    BY <1>2
  <2> QED BY <1>3, <2>2, <2>3
<1>7. ExistsBijection(Pairs(f), Pairs(g))
  <2>1. F \in Bijection(Pairs(f), Pairs(g))
    BY <1>4, <1>5, <1>6, Fun_IsBij
  <2> QED BY <2>1 DEF ExistsBijection
<1> QED BY <1>7, PairsFinite, FS_Bijection

(* The bytes of entries of a map from message ids.                         *)
Sizes(q) == [id \in DOMAIN q |-> 1 .. q[id].bytes]
Weight(q) == Cardinality(Pairs(Sizes(q)))
Weighed(q) == IsFiniteSet(DOMAIN q) /\ \A id \in DOMAIN q : q[id].bytes \in Nat

LEMMA UpToIsFinite == \A n \in Nat : IsFiniteSet(1 .. n) /\ Cardinality(1 .. n) = n
<1> TAKE n \in Nat
<1>1. n \in Int /\ 1 \in Int
  OBVIOUS
<1>2. IsFiniteSet(1 .. n) /\ Cardinality(1 .. n) = IF 1 > n THEN 0 ELSE n - 1 + 1
  BY ONLY <1>1, FS_Interval
<1> QED BY <1>2

LEMMA WeightType ==
  ASSUME NEW q, Weighed(q)
  PROVE  FiniteFamily(Sizes(q)) /\ Weight(q) \in Nat
<1>1. FiniteFamily(Sizes(q))
  BY UpToIsFinite DEF Weighed, Sizes, FiniteFamily
<1> QED BY <1>1, PairsFinite DEF Weight

LEMMA WeightSplit ==
  ASSUME NEW q, Weighed(q), NEW S \in SUBSET DOMAIN q
  PROVE  /\ Weighed(Part(q, S)) /\ Weighed(Part(q, DOMAIN q \ S))
         /\ Weight(q) = Weight(Part(q, S)) + Weight(Part(q, DOMAIN q \ S))
<1>1. IsFiniteSet(S) /\ IsFiniteSet(DOMAIN q \ S)
  BY FS_Subset DEF Weighed
<1>2. Weighed(Part(q, S)) /\ Weighed(Part(q, DOMAIN q \ S))
  BY <1>1 DEF Weighed, Part
<1>3. DOMAIN Sizes(q) = DOMAIN q
  BY DEF Sizes
<1>4. /\ Part(Sizes(q), S) = Sizes(Part(q, S))
      /\ Part(Sizes(q), DOMAIN q \ S) = Sizes(Part(q, DOMAIN q \ S))
  BY DEF Sizes, Part
<1>5. Cardinality(Pairs(Sizes(q)))
        = Cardinality(Pairs(Part(Sizes(q), S))) + Cardinality(Pairs(Part(Sizes(q), DOMAIN q \ S)))
  BY <1>3, WeightType, PairsSplit
<1> QED BY <1>2, <1>4, <1>5 DEF Weight

LEMMA WeightOfOne ==
  ASSUME NEW q, Weighed(q), NEW id \in DOMAIN q
  PROVE  /\ Weighed(Part(q, DOMAIN q \ {id}))
         /\ Weight(q) = Weight(Part(q, DOMAIN q \ {id})) + q[id].bytes
<1> DEFINE one == Part(q, {id})
<1>1. q[id].bytes \in Nat
  BY DEF Weighed
<1>2. DOMAIN Sizes(one) = {id} /\ Sizes(one)[id] = 1 .. q[id].bytes
  BY DEF Sizes, Part
<1>3. Weight(one) = q[id].bytes
  <2> HIDE DEF one
  <2> QED BY <1>1, <1>2, UpToIsFinite, PairsOne DEF Weight
<1>4. /\ Weighed(Part(q, DOMAIN q \ {id}))
      /\ Weight(q) = Weight(one) + Weight(Part(q, DOMAIN q \ {id}))
  BY WeightSplit
<1>5. Weight(Part(q, DOMAIN q \ {id})) \in Nat
  BY <1>4, WeightType
<1> QED BY <1>1, <1>3, <1>4, <1>5

(* The bytes an entry counts are those of the fragments it holds.          *)
Filled(e) == e.bytes \in Nat /\ e.bytes = Cardinality(BytesHeld(e))

BInv ==
  /\ Weighed(partial)
  /\ total_bytes = Weight(partial)
  /\ total_bytes <= MaxTotalBytes
  /\ Cardinality(DOMAIN partial) <= MaxMessages
  /\ \A id \in DOMAIN partial : Filled(partial[id])

LEMMA PieceBytesType ==
  ASSUME NEW len \in Nat, NEW i \in 0 .. Pieces(len) - 1
  PROVE  PieceBytes(len, i) \in Nat
<1> DEFINE M == MaxFragmentBytes
           q == Pieces(len)
<1>1. M \in Nat \ {0} /\ q \in Nat \ {0} /\ i \in Nat /\ i <= q - 1
  BY ReassemblerAssumption, PiecesType
<1>2. ASSUME NEW a \in Nat, NEW b \in Nat, a <= b PROVE M * a <= M * b
  <2>1. b - a \in Nat /\ M * b = M * a + M * (b - a)
    BY <1>1, <1>2
  <2>2. M * (b - a) >= 0
    BY <1>1, <2>1
  <2> QED BY <1>1, <2>1, <2>2
<1>3. M * (q - 1) <= len
  <2>1. CASE len = 0
    BY <1>1, <2>1 DEF Pieces
  <2>2. CASE len # 0
    <3>1. q = (len + M - 1) \div M
      BY <2>2 DEF Pieces
    <3> HIDE DEF M
    <3>2. M * q <= len + M - 1
      BY <1>1, <3>1
    <3>3. M * (q - 1) = M * q - M
      BY <1>1
    <3> HIDE DEF q
    <3>4. M * q \in Int /\ M * (q - 1) \in Int
      BY <1>1
    <3> QED BY <1>1, <3>2, <3>3, <3>4
  <2> QED BY <2>1, <2>2
<1>4. M * i <= len /\ M * i \in Nat /\ i * M = M * i
  <2> HIDE DEF M, q
  <2>1. q - 1 \in Nat /\ M * (q - 1) \in Int /\ M * i \in Nat
    BY <1>1
  <2>2. M * i <= M * (q - 1)
    BY <1>1, <1>2, <2>1
  <2> QED BY <1>1, <1>3, <2>1, <2>2
<1> QED BY <1>1, <1>4 DEF PieceBytes

LEMMA FragmentBytes ==
  ASSUME IInv, CountsFit, NEW n \in 1 .. Len(sent),
         NEW f \in Fragments(n, sent[n].id, sent[n].len)
  PROVE  f.bytes = PieceBytes(sent[n].len, f.index) /\ f.bytes \in Nat
<1>1. sent[n].len \in Lengths /\ sent[n].len \in Nat
  BY SentType
<1>2. Pieces(sent[n].len) \in Nat \ {0} /\ Pieces(sent[n].len) < CountMod
  BY <1>1, PiecesType DEF CountsFit
<1>3. PICK i \in 0 .. Pieces(sent[n].len) - 1 : f = FragmentOf(n, sent[n].id, sent[n].len, i)
  BY DEF Fragments
<1>4. CountMod \in Nat \ {0}
  BY ReassemblerAssumption
<1>5. i % CountMod = i
  BY <1>2, <1>3, <1>4, SmallRemainder
<1>6. f.index = i /\ f.bytes = PieceBytes(sent[n].len, i)
  BY <1>3, <1>5 DEF FragmentOf
<1> QED BY <1>1, <1>6, PieceBytesType

(* The family behind BytesHeld.                                            *)
PartBytes(e) ==
  [i \in DOMAIN e.parts |-> 1 .. PieceBytes(sent[e.parts[i].msg].len, e.parts[i].piece)]

LEMMA PartBytesFinite ==
  ASSUME IInv, NEW e, NEW id, Sound(e, id)
  PROVE  FiniteFamily(PartBytes(e)) /\ BytesHeld(e) = Pairs(PartBytes(e))
<1>1. PICK n \in 1 .. Len(sent) : BelongsTo(e, id, n)
  BY DEF Sound
<1>2. sent[n].len \in Nat /\ e.count = Pieces(sent[n].len)
  BY <1>1, SentType DEF BelongsTo
<1>3. e.count \in Nat
  BY <1>2, PiecesType
<1>4. IsFiniteSet(DOMAIN e.parts)
  BY <1>3, IndicesAreFinite, FS_Subset DEF Sound, Counted
<1>5. \A i \in DOMAIN e.parts :
        PieceBytes(sent[e.parts[i].msg].len, e.parts[i].piece) \in Nat
  <2> TAKE i \in DOMAIN e.parts
  <2>1. i \in 0 .. Pieces(sent[n].len) - 1
    BY <1>2 DEF Sound, Counted
  <2>2. e.parts[i].msg = n /\ e.parts[i].piece = i
    <3>1. e.parts[i] = [msg |-> n, piece |-> i]
      BY <1>1 DEF BelongsTo
    <3> QED BY <3>1
  <2> QED BY <1>2, <2>1, <2>2, PieceBytesType
<1>6. FiniteFamily(PartBytes(e))
  BY <1>4, <1>5, UpToIsFinite DEF PartBytes, FiniteFamily
<1> QED BY <1>6 DEF BytesHeld, PartBytes

(* A fragment adds its bytes, once.                                        *)
LEMMA AddedFilled ==
  ASSUME IInv, BInv, CountsFit, NEW n \in 1 .. Len(sent), now - sent[n].at < Lifetime,
         NEW f \in Fragments(n, sent[n].id, sent[n].len), Accepted(f, now)
  PROVE  /\ Filled(Added(f, now))
         /\ Entry(f, now).bytes \in Nat
         /\ Added(f, now).bytes = Entry(f, now).bytes + f.bytes
<1> DEFINE b == Entry(f, now)
           e == Added(f, now)
           size == PartBytes(e)
<1>1. IsEntry(b) /\ b.bytes \in Nat /\ b.bytes = Cardinality(BytesHeld(b))
      /\ BytesHeld(b) = Pairs(PartBytes(b))
  <2>1. CASE f.id \in InTime(now)
    <3>1. b = partial[f.id] /\ f.id \in DOMAIN partial
      BY <2>1 DEF Entry, InTime
    <3>2. Sound(b, f.id) /\ Filled(b)
      BY <3>1 DEF IInv, EntriesAreSound, BInv
    <3> QED BY <3>2, PartBytesFinite DEF Sound, Filled
  <2>2. CASE f.id \notin InTime(now)
    <3>1. b = [count |-> f.count, parts |-> << >>, received |-> 0, bytes |-> 0, first_seen |-> now]
      BY <2>2 DEF Entry
    <3>2. DOMAIN b.parts = {} /\ b.bytes = 0
      BY <3>1
    <3>3. BytesHeld(b) = {} /\ BytesHeld(b) = Pairs(PartBytes(b))
      BY <3>2 DEF BytesHeld, PartBytes, Pairs
    <3>4. IsEntry(b)
      BY <3>1 DEF IsEntry
    <3> QED BY <3>2, <3>3, <3>4, FS_EmptySet
  <2> QED BY <2>1, <2>2
<1>2. f.index \notin DOMAIN b.parts
  BY DEF Accepted, Duplicate
<1> DEFINE D == DOMAIN b.parts \cup {f.index}
<1>3. /\ e.parts = [i \in D |-> IF i = f.index THEN f.data ELSE b.parts[i]]
      /\ e.bytes = b.bytes + f.bytes
  BY <1>1 DEF Added, IsEntry
<1>4. f.data = [msg |-> n, piece |-> f.index] /\ f.bytes \in Nat
      /\ f.bytes = PieceBytes(sent[n].len, f.index)
  BY FragmentSays, FragmentBytes
<1>5. Sound(e, f.id)
  BY AddedSound
<1>6. FiniteFamily(size) /\ BytesHeld(e) = Pairs(size)
  BY <1>5, PartBytesFinite
<1> HIDE DEF b, e
<1>7. /\ DOMAIN size = D
      /\ Part(size, DOMAIN b.parts) = PartBytes(b)
      /\ Part(size, D \ DOMAIN b.parts) = [i \in {f.index} |-> 1 .. f.bytes]
  BY <1>2, <1>3, <1>4 DEF PartBytes, Part
<1> HIDE DEF size
<1>8. Cardinality(Pairs([i \in {f.index} |-> 1 .. f.bytes])) = f.bytes
  <2> DEFINE one == [i \in {f.index} |-> 1 .. f.bytes]
  <2>1. DOMAIN one = {f.index} /\ one[f.index] = 1 .. f.bytes
    OBVIOUS
  <2>2. IsFiniteSet(1 .. f.bytes) /\ Cardinality(1 .. f.bytes) = f.bytes
    BY <1>4, UpToIsFinite
  <2> HIDE DEF one
  <2>3. Cardinality(Pairs(one)) = f.bytes
    BY <2>1, <2>2, PairsOne
  <2> QED BY <2>3 DEF one
<1>9. Cardinality(Pairs(size)) = b.bytes + f.bytes
  <2>1. DOMAIN b.parts \in SUBSET DOMAIN size
    BY <1>7
  <2>2. Cardinality(Pairs(size))
          = Cardinality(Pairs(Part(size, DOMAIN b.parts)))
            + Cardinality(Pairs(Part(size, DOMAIN size \ DOMAIN b.parts)))
    BY <1>6, <2>1, PairsSplit
  <2> QED BY <1>1, <1>7, <1>8, <2>2
<1>10. Filled(e) /\ e.bytes = b.bytes + f.bytes
  BY <1>1, <1>3, <1>4, <1>6, <1>9 DEF Filled
<1> QED BY <1>1, <1>10 DEF b, e

(***************************************************************************)
(* Every operation keeps the books.                                        *)
(***************************************************************************)
LEMMA BooksKept ==
  ASSUME UNCHANGED sent, Weighed(partial'), total_bytes' = Weight(partial'),
         total_bytes' <= MaxTotalBytes, Cardinality(DOMAIN partial') <= MaxMessages,
         \A id \in DOMAIN partial' : Filled(partial'[id])
  PROVE  BInv'
<1>1. \A e : Filled(e)' <=> Filled(e)
  BY DEF Filled, BytesHeld
<1>2. \A id \in DOMAIN partial' : Filled(partial[id])'
  BY DEF Filled, BytesHeld
<1> QED BY <1>2 DEF BInv, Weighed, Weight, Sizes

(* What stays after expire, in books.                                      *)
Timely == Part(partial, InTime(now))
LEMMA KeptWeight ==
  ASSUME IInv, BInv
  PROVE  /\ Weighed(Timely) /\ DOMAIN Timely = InTime(now) /\ InTime(now) \subseteq DOMAIN partial
         /\ \A id \in InTime(now) : Timely[id] = partial[id]
         /\ KeptBytes(now) = Weight(Timely) /\ KeptBytes(now) \in Nat
         /\ KeptBytes(now) <= MaxTotalBytes
         /\ Cardinality(InTime(now)) \in Nat
         /\ IsFiniteSet(InTime(now)) /\ Cardinality(InTime(now)) <= MaxMessages
<1> DEFINE S == InTime(now)
           Old == DOMAIN partial \ S
<1>1. S \subseteq DOMAIN partial
  BY DEF InTime
<1> HIDE DEF S
<1>2. /\ Weighed(Part(partial, S)) /\ Weighed(Part(partial, Old))
      /\ Weight(partial) = Weight(Part(partial, S)) + Weight(Part(partial, Old))
  BY <1>1, WeightSplit DEF BInv
<1>3. Bytes(Old) = Weight(Part(partial, Old))
  BY DEF Bytes, Weight, Sizes, Part
<1>4. Weight(Part(partial, S)) \in Nat /\ Weight(Part(partial, Old)) \in Nat
  BY <1>2, WeightType
<1>5. KeptBytes(now) = total_bytes - Bytes(Old)
  BY DEF KeptBytes, S
<1>6. KeptBytes(now) = Weight(Part(partial, S)) /\ KeptBytes(now) \in Nat
      /\ KeptBytes(now) <= total_bytes /\ total_bytes \in Nat
  BY <1>2, <1>3, <1>4, <1>5 DEF BInv
<1>7. /\ IsFiniteSet(S) /\ Cardinality(S) <= Cardinality(DOMAIN partial)
      /\ Cardinality(DOMAIN partial) \in Nat /\ Cardinality(S) \in Nat
  BY <1>1, FS_Subset, FS_CardinalityType DEF BInv, Weighed
<1>8. MaxMessages \in Nat /\ MaxTotalBytes \in Nat
  BY ReassemblerAssumption
<1>9. Timely = Part(partial, S)
  BY DEF Timely, S
<1> USE DEF S
<1>10. DOMAIN Timely = S /\ \A id \in S : Timely[id] = partial[id]
  BY <1>9 DEF Part
<1>11. Cardinality(S) <= MaxMessages /\ KeptBytes(now) <= MaxTotalBytes
  BY <1>6, <1>7, <1>8 DEF BInv
<1> QED BY <1>1, <1>2, <1>6, <1>7, <1>9, <1>10, <1>11

LEMMA ExpireBooks ==
  ASSUME IInv, BInv, Expire(now), UNCHANGED sent PROVE BInv'
<1>1. partial' = Timely
  BY DEF Expire, Restrict, Timely, Part
<1>2. \A id \in InTime(now) : Filled(partial[id])
  BY KeptWeight DEF BInv
<1> QED BY <1>1, <1>2, KeptWeight, BooksKept DEF Expire

(* Without one message: what is left of it is taken out of the count.      *)
Rest(id) == Part(Timely, InTime(now) \ {id})
LEMMA RestDomain ==
  ASSUME IInv, BInv, NEW x
  PROVE  /\ DOMAIN Rest(x) = InTime(now) \ {x}
         /\ \A id \in InTime(now) \ {x} : Rest(x)[id] = partial[id]
         /\ Cardinality(DOMAIN Rest(x)) <= MaxMessages
<1>1. DOMAIN Rest(x) = InTime(now) \ {x}
      /\ \A id \in InTime(now) \ {x} : Rest(x)[id] = partial[id]
  BY KeptWeight DEF Rest, Part
<1>2. /\ Cardinality(InTime(now) \ {x}) <= Cardinality(InTime(now))
      /\ Cardinality(InTime(now) \ {x}) \in Nat
  <2> DEFINE S == InTime(now)
             T == S \ {x}
  <2>1. IsFiniteSet(S) /\ T \in SUBSET S
    BY KeptWeight
  <2> HIDE DEF S, T
  <2>2. IsFiniteSet(T) /\ Cardinality(T) <= Cardinality(S) /\ Cardinality(T) \in Nat
    BY <2>1, FS_Subset, FS_CardinalityType
  <2> QED BY <2>2 DEF S, T
<1> QED BY <1>1, <1>2, KeptWeight, ReassemblerAssumption

LEMMA RestWeight ==
  ASSUME IInv, BInv, NEW f
  PROVE  /\ Weighed(Rest(f.id)) /\ DOMAIN Rest(f.id) = InTime(now) \ {f.id}
         /\ \A id \in InTime(now) \ {f.id} : Rest(f.id)[id] = partial[id]
         /\ Weight(Rest(f.id)) = KeptBytes(now) - Entry(f, now).bytes
         /\ Entry(f, now).bytes \in Nat /\ Weight(Rest(f.id)) \in Nat
         /\ Cardinality(DOMAIN Rest(f.id)) <= MaxMessages
<1>1. CASE f.id \in InTime(now)
  <2>1. /\ Weighed(Rest(f.id))
        /\ Weight(Timely) = Weight(Rest(f.id)) + Timely[f.id].bytes
    BY <1>1, KeptWeight, WeightOfOne DEF Rest
  <2>2. Timely[f.id].bytes = Entry(f, now).bytes
    BY <1>1, KeptWeight DEF Entry
  <2>3. Entry(f, now).bytes \in Nat
    BY <1>1, <2>2, KeptWeight DEF Weighed
  <2>4. Weight(Rest(f.id)) \in Nat
    BY <2>1, WeightType
  <2>5. Weight(Rest(f.id)) = KeptBytes(now) - Entry(f, now).bytes
    BY <2>1, <2>2, <2>3, <2>4, KeptWeight
  <2> QED BY <2>1, <2>3, <2>4, <2>5, RestDomain
<1>2. CASE f.id \notin InTime(now)
  <2>1. Entry(f, now).bytes = 0
    BY <1>2 DEF Entry
  <2>2. Rest(f.id) = Timely
    BY <1>2 DEF Rest, Timely, Part
  <2>3. /\ Weighed(Timely) /\ KeptBytes(now) = Weight(Timely) /\ KeptBytes(now) \in Nat
    BY KeptWeight
  <2>4. Weight(Rest(f.id)) = KeptBytes(now) - Entry(f, now).bytes
    BY <2>1, <2>2, <2>3
  <2>5. Weighed(Rest(f.id)) /\ Weight(Rest(f.id)) \in Nat
    BY <2>2, <2>3
  <2> QED BY <2>1, <2>4, <2>5, RestDomain
<1> QED BY <1>1, <1>2

LEMMA WithoutBooks ==
  ASSUME IInv, BInv, NEW f, partial' = Without(f.id, now), UNCHANGED sent,
         total_bytes' = KeptBytes(now) - Entry(f, now).bytes
  PROVE  BInv'
<1>1. partial' = Rest(f.id)
  BY DEF Without, Restrict, Rest, Timely, Part
<1>2. \A id \in InTime(now) : Filled(partial[id])
  BY KeptWeight DEF BInv
<1>3. /\ Weighed(Rest(f.id)) /\ DOMAIN Rest(f.id) = InTime(now) \ {f.id}
      /\ \A id \in InTime(now) \ {f.id} : Rest(f.id)[id] = partial[id]
      /\ Weight(Rest(f.id)) = KeptBytes(now) - Entry(f, now).bytes
      /\ Entry(f, now).bytes \in Nat
      /\ Cardinality(DOMAIN Rest(f.id)) <= MaxMessages
  BY RestWeight
<1>4. KeptBytes(now) \in Nat /\ KeptBytes(now) <= MaxTotalBytes /\ MaxTotalBytes \in Nat
  BY KeptWeight, ReassemblerAssumption
<1>5. total_bytes' = Weight(partial') /\ total_bytes' <= MaxTotalBytes
  BY <1>1, <1>3, <1>4
<1>6. \A id \in DOMAIN partial' : Filled(partial'[id])
  BY <1>1, <1>2, <1>3
<1> QED BY <1>1, <1>3, <1>5, <1>6, BooksKept

LEMMA PushBooks ==
  ASSUME IInv, BInv, CountsFit, NEW n \in 1 .. Len(sent), now - sent[n].at < Lifetime,
         NEW f \in Fragments(n, sent[n].id, sent[n].len),
         Push(f, now), UNCHANGED sent
  PROVE  BInv'
<1>1. CASE Reject(f)
  BY <1>1, BooksKept DEF Reject, reassemblerVars, BInv
<1>2. CASE Disagree(f, now)
  <2>1. Entry(f, now) = partial[f.id]
    BY <1>2 DEF Disagree, Consistent, Entry
  <2> QED BY <1>2, <2>1, WithoutBooks DEF Disagree
<1>3. CASE Ignore(f, now)
  BY <1>3, ExpireBooks DEF Ignore
<1>4. CASE Store(f, now)
  <2> DEFINE e == Added(f, now)
             S == InTime(now)
  <2>1. Accepted(f, now)
    BY <1>4 DEF Store
  <2>2. Filled(e) /\ Entry(f, now).bytes \in Nat /\ e.bytes = Entry(f, now).bytes + f.bytes
    BY <2>1, AddedFilled
  <2>3. f.bytes \in Nat
    BY FragmentBytes
  <2> HIDE DEF e
  <2>4. /\ partial' = [x \in S \cup {f.id} |-> IF x = f.id THEN e ELSE partial[x]]
        /\ total_bytes' = KeptBytes(now) + f.bytes
    BY <1>4 DEF Store, With, e
  <2>5. DOMAIN partial' = S \cup {f.id} /\ partial'[f.id] = e
        /\ \A x \in S \ {f.id} : partial'[x] = partial[x]
    BY <2>4
  <2>6. Part(partial', DOMAIN partial' \ {f.id}) = Rest(f.id)
    BY <2>5, KeptWeight DEF Part, Rest
  <2>7. \A id \in S : Filled(partial[id])
    BY KeptWeight DEF BInv
  <2>8. Weighed(partial')
    <3>1. IsFiniteSet(S \cup {f.id})
      BY KeptWeight, FS_AddElement
    <3>2. \A x \in S : partial[x].bytes \in Nat
      BY <2>7 DEF Filled
    <3> QED BY <2>2, <2>5, <3>1, <3>2 DEF Weighed, Filled
  <2>9. Weight(partial') = Weight(Rest(f.id)) + e.bytes
    BY <2>5, <2>6, <2>8, WeightOfOne
  <2>10. total_bytes' = Weight(partial')
    <3>1. Weight(Rest(f.id)) = KeptBytes(now) - Entry(f, now).bytes
      BY RestWeight
    <3>2. KeptBytes(now) \in Nat
      BY KeptWeight
    <3> QED BY <2>2, <2>3, <2>4, <2>9, <3>1, <3>2
  <2>11. total_bytes' <= MaxTotalBytes
    BY <2>1, <2>3, <2>4, KeptWeight, ReassemblerAssumption DEF Accepted, OverLimit
  <2>12. Cardinality(DOMAIN partial') <= MaxMessages
    <3>1. CASE f.id \in S
      <4>1. DOMAIN partial' = S
        BY <2>5, <3>1
      <4> QED BY <4>1, KeptWeight
    <3>2. CASE f.id \notin S
      <4>1. Cardinality(S) < MaxMessages
        BY <2>1, <3>2, KeptWeight, ReassemblerAssumption DEF Accepted, OverLimit
      <4>2. Cardinality(DOMAIN partial') = Cardinality(S) + 1
        BY <2>5, <3>2, KeptWeight, FS_AddElement
      <4> QED BY <4>1, <4>2, KeptWeight, ReassemblerAssumption
    <3> QED BY <3>1, <3>2
  <2>13. \A id \in DOMAIN partial' : Filled(partial'[id])
    BY <2>2, <2>5, <2>7
  <2> QED BY <2>8, <2>10, <2>11, <2>12, <2>13, BooksKept
<1>5. CASE Complete(f, now)
  <2>1. Added(f, now).bytes = Entry(f, now).bytes + f.bytes /\ f.bytes \in Nat
        /\ Entry(f, now).bytes \in Nat
    BY <1>5, AddedFilled, FragmentBytes DEF Complete
  <2>2. total_bytes' = KeptBytes(now) - Entry(f, now).bytes
    <3>1. total_bytes' = KeptBytes(now) + f.bytes - Added(f, now).bytes
      BY <1>5 DEF Complete
    <3> QED BY <2>1, <3>1, KeptWeight
  <2> QED BY <1>5, <2>2, WithoutBooks DEF Complete
<1> QED BY <1>1, <1>2, <1>3, <1>4, <1>5 DEF Push

LEMMA SendBooks ==
  ASSUME IInv, BInv, NEW id \in Ids, NEW len \in Lengths, Send(id, len) PROVE BInv'
<1> DEFINE s == [id |-> id, len |-> len, at |-> now]
<1>1. sent' = Append(sent, s) /\ UNCHANGED <<partial, total_bytes>> /\ s \in Message
  BY DEF Send, reassemblerVars, IInv, Message
<1>2. Len(sent) \in Nat /\ \A n \in 1 .. Len(sent) : sent'[n] = sent[n]
  BY <1>1 DEF IInv
<1> HIDE DEF s
<1>3. \A x \in DOMAIN partial : BytesHeld(partial[x])' = BytesHeld(partial[x])
  <2> SUFFICES ASSUME NEW x \in DOMAIN partial
               PROVE  BytesHeld(partial[x])' = BytesHeld(partial[x])
    OBVIOUS
  <2>1. PICK n \in 1 .. Len(sent) : BelongsTo(partial[x], x, n)
    BY DEF IInv, EntriesAreSound, Sound
  <2>2. \A i \in DOMAIN partial[x].parts : sent'[partial[x].parts[i].msg] = sent[partial[x].parts[i].msg]
    <3> TAKE i \in DOMAIN partial[x].parts
    <3>1. partial[x].parts[i] = [msg |-> n, piece |-> i]
      BY <2>1 DEF BelongsTo
    <3>2. partial[x].parts[i].msg = n
      BY <3>1
    <3> QED BY <1>2, <3>2
  <2>3. PartBytes(partial[x])' = PartBytes(partial[x])
    BY <1>1, <2>2 DEF PartBytes
  <2>4. BytesHeld(partial[x]) = Pairs(PartBytes(partial[x]))
        /\ BytesHeld(partial[x])' = Pairs(PartBytes(partial[x])')
    BY DEF BytesHeld, PartBytes
  <2> QED BY <2>3, <2>4
<1> QED BY <1>1, <1>3 DEF BInv, Weighed, Weight, Sizes, Filled

LEMMA StepBooks == ASSUME IInv, BInv, CountsFit, [Next]_vars PROVE BInv'
<1>1. ASSUME NEW n \in 1 .. Len(sent), NEW f \in Fragments(n, sent[n].id, sent[n].len), Arrive(n, f)
      PROVE  BInv'
  BY <1>1, PushBooks DEF Arrive
<1>2. ASSUME UNCHANGED <<partial, total_bytes, sent>> PROVE BInv'
  BY <1>2, BooksKept DEF BInv
<1>3. CASE Tick
  BY <1>2, <1>3 DEF Tick, reassemblerVars
<1>4. CASE CallExpire
  BY <1>4, ExpireBooks DEF CallExpire
<1>5. CASE CallClear
  <2>1. DOMAIN partial' = {} /\ total_bytes' = 0 /\ sent' = sent
    BY <1>5 DEF CallClear, Clear
  <2>2. Weighed(partial') /\ Cardinality(DOMAIN partial') = 0
    BY <2>1, FS_EmptySet DEF Weighed
  <2>3. Pairs(Sizes(partial')) = {}
    BY <2>1 DEF Pairs, Sizes
  <2>4. Weight(partial') = 0
    BY <2>3, FS_EmptySet DEF Weight
  <2> QED BY <2>1, <2>2, <2>4, BooksKept, ReassemblerAssumption
<1>6. CASE UNCHANGED vars
  BY <1>2, <1>6 DEF vars, reassemblerVars
<1> QED BY <1>1, <1>3, <1>4, <1>5, <1>6, SendBooks DEF Next

LEMMA InitBooks == Init => BInv
<1> SUFFICES ASSUME Init PROVE BInv
  OBVIOUS
<1>1. DOMAIN partial = {} /\ total_bytes = 0
  BY DEF Init, ReassemblerInit
<1>2. Pairs(Sizes(partial)) = {}
  BY <1>1 DEF Pairs, Sizes
<1> QED BY <1>1, <1>2, FS_EmptySet, ReassemblerAssumption DEF BInv, Weighed, Weight

LEMMA BooksAreRight == ASSUME IInv, BInv PROVE BytesAreAccounted
<1> DEFINE f == Sizes(partial)
           g == [id \in DOMAIN partial |-> BytesHeld(partial[id])]
<1>1. DOMAIN f = DOMAIN partial /\ DOMAIN g = DOMAIN partial
      /\ \A id \in DOMAIN partial : f[id] = 1 .. partial[id].bytes /\ g[id] = BytesHeld(partial[id])
  BY DEF Sizes
<1>2. FiniteFamily(f)
  BY WeightType DEF BInv
<1>3. FiniteFamily(g)
  <2>1. \A id \in DOMAIN partial : IsFiniteSet(BytesHeld(partial[id]))
    BY PartBytesFinite, PairsFinite DEF IInv, EntriesAreSound
  <2> QED BY <1>1, <2>1 DEF FiniteFamily, BInv, Weighed
<1>4. \A id \in DOMAIN partial : Cardinality(f[id]) = Cardinality(g[id])
  BY <1>1, UpToIsFinite DEF BInv, Filled
<1> HIDE DEF f, g
<1>5. Cardinality(Pairs(f)) = Cardinality(Pairs(g))
  BY <1>1, <1>2, <1>3, <1>4, SameSizes
<1> QED BY <1>5 DEF f, g, BInv, Weight, BytesAreAccounted

(* Whatever duplicates, disagreements, completions and timeouts come, the  *)
(* bytes counted are the bytes held and stay within the limits             *)
(* (fragment.rs:160-250): nothing leaks that would shut the reassembler.   *)
THEOREM BooksBalance == ASSUME CountsFit PROVE Spec => []BytesAreAccounted
<1>1. IInv /\ BInv /\ [Next]_vars => BInv'
  BY StepBooks
<1>2. IInv /\ BInv => BytesAreAccounted
  BY BooksAreRight
<1> QED BY <1>1, <1>2, InitBooks, Inductive, PTL DEF Spec
=============================================================================
