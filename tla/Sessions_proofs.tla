-------------------------- MODULE Sessions_proofs --------------------------
(***************************************************************************)
(* Proofs about release health sessions, for any number of threads and     *)
(* sessions and any size of an envelope.                                   *)
(***************************************************************************)
EXTENDS Sessions, Folds_proofs, FiniteSetTheorems, SequenceTheorems

M == MAX_SESSION_ITEMS

-----------------------------------------------------------------------------
(* The flusher's queue cut into envelopes.                                 *)

LEMMA DivFacts ==
  ASSUME NEW x \in Nat, NEW d \in Nat \ {0}
  PROVE  /\ x \div d \in Nat
         /\ (x \div d) * d \in Nat
         /\ (x \div d) * d <= x
         /\ x < (x \div d) * d + d
OBVIOUS

LEMMA TimesMonotone ==
  ASSUME NEW a \in Nat, NEW b \in Nat, a <= b, NEW d \in Nat \ {0}
  PROVE  a * d \in Nat /\ b * d \in Nat /\ a * d <= b * d
OBVIOUS

\* The bounds of the n-th envelope lie in the queue.
LEMMA ChunkBounds ==
  ASSUME NEW len \in Nat, NEW n \in 1 .. (len + M - 1) \div M
  PROVE  LET lo == (n - 1) * M + 1
             hi == IF n * M < len THEN n * M ELSE len IN
         /\ lo \in Int /\ hi \in Int
         /\ 1 <= lo /\ lo <= hi /\ hi <= len /\ hi - lo + 1 <= M
<1> DEFINE k == (len + M - 1) \div M
<1>1. M \in Nat \ {0} /\ len + M - 1 \in Nat  BY MaxItemsAssumption DEF M
<1>2. k \in Nat /\ k * M \in Nat /\ k * M <= len + M - 1
  <2> HIDE DEF M
  <2> QED  BY <1>1, DivFacts
<1>3. n \in Nat \ {0} /\ n - 1 \in Nat /\ n <= k
  <2> HIDE DEF k
  <2> QED  BY <1>2 DEF k
<1> HIDE DEF M, k
<1>4. n * M \in Nat /\ n * M <= k * M  BY <1>1, <1>2, <1>3, TimesMonotone
<1>5. (n - 1) * M = n * M - M  BY <1>1, <1>3
<1>6. (n - 1) * M \in Nat  BY <1>1, <1>3, TimesMonotone
<1> QED  BY <1>1, <1>2, <1>4, <1>5, <1>6

\* Every position of the queue is in some envelope.
LEMMA ChunkFound ==
  ASSUME NEW len \in Nat, NEW m \in 1 .. len
  PROVE  \E n \in 1 .. (len + M - 1) \div M :
           (n - 1) * M + 1 <= m /\ m <= IF n * M < len THEN n * M ELSE len
<1> DEFINE k == (len + M - 1) \div M
           q == (m - 1) \div M
<1>1. M \in Nat \ {0} /\ len + M - 1 \in Nat /\ m - 1 \in Nat  BY MaxItemsAssumption DEF M
<1>2. /\ k \in Nat /\ k * M \in Nat /\ len + M - 1 < k * M + M
      /\ q \in Nat /\ q * M \in Nat /\ q * M <= m - 1 /\ m - 1 < q * M + M
  <2> HIDE DEF M
  <2> QED  BY <1>1, DivFacts
<1> HIDE DEF M, k, q
<1>3. q + 1 <= k
  <2> SUFFICES ASSUME k <= q PROVE FALSE
    BY <1>2
  <2>1. k * M <= q * M  BY <1>1, <1>2, TimesMonotone
  <2> QED  BY <1>1, <1>2, <2>1
<1>4. PICK w \in Nat : w = q + 1  BY <1>2
<1>5. w - 1 = q /\ w * M = q * M + M  BY <1>1, <1>2, <1>4
<1>6. w \in 1 .. k  BY <1>2, <1>3, <1>4
<1>7. (w - 1) * M + 1 <= m  BY <1>1, <1>2, <1>5
<1>8. m <= IF w * M < len THEN w * M ELSE len  BY <1>1, <1>2, <1>5
<1> QED  BY <1>6, <1>7, <1>8 DEF k

LEMMA NoCountsType == NoCounts \in Counts
BY DEF NoCounts, Counts

\* The queue in envelopes: none is too large, none has counts, no update is
\* left out and none is added.
LEMMA ChunksProperties ==
  ASSUME NEW us \in Seq(Update)
  PROVE  /\ Chunks(us) \in Seq(EnvelopeType)
         /\ Chunks(us) = <<>> <=> us = <<>>
         /\ \A n \in 1 .. Len(Chunks(us)) : Chunks(us)[n].counts = NoCounts
         /\ \A u \in UpdatesIn(us) : \E n \in 1 .. Len(Chunks(us)) :
              u \in UpdatesIn(Chunks(us)[n].updates)
         /\ \A n \in 1 .. Len(Chunks(us)) :
              UpdatesIn(Chunks(us)[n].updates) \subseteq UpdatesIn(us)
<1> DEFINE len == Len(us)
           k == (len + M - 1) \div M
           lo(n) == (n - 1) * M + 1
           hi(n) == IF n * M < len THEN n * M ELSE len
           sub(n) == SubSeq(us, lo(n), hi(n))
<1>1. len \in Nat /\ DOMAIN us = 1 .. len /\ \A i \in 1 .. len : us[i] \in Update
  OBVIOUS
<1>2. M \in Nat \ {0} /\ len + M - 1 \in Nat  BY <1>1, MaxItemsAssumption DEF M
<1>3. k \in Nat
  <2> HIDE DEF M, len
  <2> QED  BY <1>2, DivFacts
<1>4. Chunks(us) = [n \in 1 .. k |-> [updates |-> sub(n), counts |-> NoCounts]]
  BY DEF Chunks, M
<1>5. \A n \in 1 .. k : /\ lo(n) \in Int /\ hi(n) \in Int /\ 1 <= lo(n) /\ lo(n) <= hi(n)
                        /\ hi(n) <= len /\ hi(n) - lo(n) + 1 <= M
  BY <1>1, ChunkBounds
<1> HIDE DEF lo, hi
<1>6. ASSUME NEW n \in 1 .. k
      PROVE  /\ sub(n) \in Seq(Update) /\ Len(sub(n)) <= M
             /\ UpdatesIn(sub(n)) = { us[i] : i \in lo(n) .. hi(n) }
  <2>1. lo(n) \in Int /\ hi(n) \in Int /\ 1 <= lo(n) /\ lo(n) <= hi(n) /\ hi(n) <= len
        /\ hi(n) - lo(n) + 1 <= M
    BY <1>5
  <2>2. \A i \in lo(n) .. hi(n) : us[i] \in Update
    <3> HIDE DEF len
    <3> QED  BY <1>1, <2>1
  <2> HIDE DEF k, len
  <2>3. /\ sub(n) \in Seq(Update) /\ Len(sub(n)) = hi(n) - lo(n) + 1
        /\ \A i \in 1 .. hi(n) - lo(n) + 1 : sub(n)[i] = us[lo(n) + i - 1]
    BY <2>1, <2>2, SubSeqProperties, SMTT(90)
  <2> HIDE DEF sub
  <2>4. DOMAIN sub(n) = 1 .. hi(n) - lo(n) + 1  BY <2>3
  <2>5. ASSUME NEW i \in lo(n) .. hi(n) PROVE us[i] \in UpdatesIn(sub(n))
    <3>1. i - lo(n) + 1 \in 1 .. hi(n) - lo(n) + 1 /\ lo(n) + (i - lo(n) + 1) - 1 = i  BY <2>1
    <3>2. sub(n)[i - lo(n) + 1] = us[i]  BY <3>1, <2>3
    <3> QED  BY <3>1, <3>2, <2>4 DEF UpdatesIn
  <2>6. ASSUME NEW i \in DOMAIN sub(n) PROVE sub(n)[i] \in { us[j] : j \in lo(n) .. hi(n) }
    <3>1. lo(n) + i - 1 \in lo(n) .. hi(n)  BY <2>1, <2>4
    <3> QED  BY <3>1, <2>3, <2>4
  <2> QED  BY <2>1, <2>3, <2>5, <2>6 DEF UpdatesIn
<1>7. \A n \in 1 .. k : [updates |-> sub(n), counts |-> NoCounts] \in EnvelopeType
  BY <1>6, NoCountsType DEF EnvelopeType, M
<1> HIDE DEF sub, k
<1>8. Chunks(us) \in Seq(EnvelopeType) /\ Len(Chunks(us)) = k /\ (Chunks(us) = <<>> <=> k = 0)
  <2>1. Chunks(us) \in [1 .. k -> EnvelopeType]  BY <1>4, <1>7
  <2> QED  BY <1>3, <2>1
<1>9. \A n \in 1 .. k : Chunks(us)[n].updates = sub(n) /\ Chunks(us)[n].counts = NoCounts
  BY <1>4
<1>10. \A m \in 1 .. len : \E n \in 1 .. k : m \in lo(n) .. hi(n)
  <2> TAKE m \in 1 .. len
  <2>1. PICK n \in 1 .. k : lo(n) <= m /\ m <= hi(n)
    BY <1>1, ChunkFound DEF k, lo, hi
  <2> QED  BY <2>1, <1>5
<1>11. k = 0 <=> us = <<>>
  <2>1. k # 0 => len # 0
    <3> SUFFICES ASSUME k # 0 PROVE len # 0
      OBVIOUS
    <3>1. 1 \in 1 .. k  BY <1>3
    <3> QED  BY <3>1, <1>1, <1>5
  <2>2. len # 0 => k # 0
    <3> SUFFICES ASSUME len # 0 PROVE k # 0
      OBVIOUS
    <3>1. 1 \in 1 .. len  BY <1>1
    <3> QED  BY <3>1, <1>10, <1>3
  <2> QED  BY <2>1, <2>2
<1>12. ASSUME NEW u \in UpdatesIn(us) PROVE \E n \in 1 .. k : u \in UpdatesIn(sub(n))
  <2>1. PICK m \in 1 .. len : u = us[m]  BY <1>1 DEF UpdatesIn
  <2>2. PICK n \in 1 .. k : m \in lo(n) .. hi(n)  BY <1>10
  <2>3. UpdatesIn(sub(n)) = { us[i] : i \in lo(n) .. hi(n) }  BY <1>6
  <2> QED  BY <2>1, <2>2, <2>3
<1>13. ASSUME NEW n \in 1 .. k PROVE UpdatesIn(sub(n)) \subseteq UpdatesIn(us)
  <2>1. lo(n) .. hi(n) \subseteq 1 .. len  BY <1>1, <1>5
  <2>2. UpdatesIn(sub(n)) = { us[i] : i \in lo(n) .. hi(n) }  BY <1>6
  <2> QED  BY <2>1, <2>2, <1>1 DEF UpdatesIn
<1> QED  BY <1>8, <1>9, <1>11, <1>12, <1>13

\* An envelope with the counts, if there are any, comes before the others.
LEMMA EnvelopesProperties ==
  ASSUME NEW us \in Seq(Update), NEW cs \in Counts
  PROVE  LET es == Envelopes(us, cs) IN
         /\ es \in Seq(EnvelopeType)
         /\ es = <<>> <=> (us = <<>> /\ cs = NoCounts)
         /\ \A u \in UpdatesIn(us) : \E n \in 1 .. Len(es) : u \in UpdatesIn(es[n].updates)
         /\ \A n \in 1 .. Len(es) : UpdatesIn(es[n].updates) \subseteq UpdatesIn(us)
         /\ es # <<>> => es[1].counts = cs
         /\ \A n \in 2 .. Len(es) : es[n].counts = NoCounts
<1> DEFINE es == Envelopes(us, cs)
           ch == Chunks(us)
           first == [updates |-> <<>>, counts |-> cs]
<1>1. /\ ch \in Seq(EnvelopeType)
      /\ ch = <<>> <=> us = <<>>
      /\ \A n \in 1 .. Len(ch) : ch[n].counts = NoCounts
      /\ \A u \in UpdatesIn(us) : \E n \in 1 .. Len(ch) : u \in UpdatesIn(ch[n].updates)
      /\ \A n \in 1 .. Len(ch) : UpdatesIn(ch[n].updates) \subseteq UpdatesIn(us)
  BY ChunksProperties
<1>2. first \in EnvelopeType
  <2>1. <<>> \in Seq(Update) /\ Len(<<>>) = 0  OBVIOUS
  <2> QED  BY <2>1, MaxItemsAssumption DEF EnvelopeType
<1>3. UpdatesIn(first.updates) = {}  BY DEF UpdatesIn
<1>4. first.counts = cs  OBVIOUS
<1>5. CASE cs = NoCounts
  <2>1. es = <<>> \o ch  BY <1>5 DEF Envelopes
  <2> HIDE DEF ch, first
  <2>2. es = ch  BY <1>1, <2>1
  <2> HIDE DEF es
  <2>3. ch # <<>> => 1 \in 1 .. Len(ch)  BY <1>1
  <2>4. 2 .. Len(ch) \subseteq 1 .. Len(ch)  BY <1>1
  <2> QED  BY <1>1, <1>5, <2>2, <2>3, <2>4 DEF es
<1>6. CASE cs # NoCounts
  <2>1. es = <<first>> \o ch  BY <1>6 DEF Envelopes
  <2> HIDE DEF ch, first
  <2>2. /\ es \in Seq(EnvelopeType) /\ es # <<>> /\ Len(es) = Len(ch) + 1 /\ es[1] = first
        /\ \A n \in 1 .. Len(ch) : es[n + 1] = ch[n]
        /\ Len(ch) \in Nat
    BY <1>1, <1>2, <2>1
  <2> HIDE DEF es
  <2>3. \A n \in 2 .. Len(es) : n - 1 \in 1 .. Len(ch) /\ es[n] = ch[n - 1]
    <3> TAKE n \in 2 .. Len(es)
    <3>1. n - 1 \in 1 .. Len(ch) /\ (n - 1) + 1 = n  BY <2>2
    <3> QED  BY <3>1, <2>2
  <2>4. \A n \in 1 .. Len(ch) : n + 1 \in 1 .. Len(es)  BY <2>2
  <2>5. \A n \in 1 .. Len(es) : n = 1 \/ n \in 2 .. Len(es)  BY <2>2
  <2>6. \A u \in UpdatesIn(us) : \E n \in 1 .. Len(es) : u \in UpdatesIn(es[n].updates)
    <3> TAKE u \in UpdatesIn(us)
    <3>1. PICK n \in 1 .. Len(ch) : u \in UpdatesIn(ch[n].updates)  BY <1>1
    <3>2. es[n + 1] = ch[n] /\ n + 1 \in 1 .. Len(es)  BY <2>2, <2>4
    <3> QED  BY <3>1, <3>2
  <2>7. \A n \in 1 .. Len(es) : UpdatesIn(es[n].updates) \subseteq UpdatesIn(us)
    <3> TAKE n \in 1 .. Len(es)
    <3>1. CASE n = 1  BY <3>1, <2>2, <1>3
    <3>2. CASE n \in 2 .. Len(es)  BY <3>2, <2>3, <1>1
    <3> QED  BY <3>1, <3>2, <2>5
  <2>8. \A n \in 2 .. Len(es) : es[n].counts = NoCounts  BY <2>3, <1>1
  <2> QED  BY <1>4, <1>6, <2>2, <2>6, <2>7, <2>8 DEF es
<1> QED  BY <1>5, <1>6

-----------------------------------------------------------------------------
(* Types.                                                                  *)

LEMMA ClosedType ==
  ASSUME NEW c \in CellType, NEW status \in Status
  PROVE  /\ Closed(c, status) \in CellType
         /\ Closed(c, status).status # "Ok"
BY DEF Closed, CellType, Status

LEMMA UpdateOfType ==
  ASSUME NEW s \in Session, NEW c \in CellType
  PROVE  UpdateOf(s, c) \in Update /\ UpdateOf(s, c) # None
<1>1. UpdateOf(s, c) \in Update  BY DEF UpdateOf, CellType, Update
<1> QED  BY <1>1, UpdateAssumption

\* What a call of a thread keeps that drops a session or replaces a reference.
Dropping(t) ==
  /\ cell' \in [Session -> CellType]
  /\ made' \subseteq Update
  /\ update' \in [Threads -> Update \cup {None}]
  /\ pc' \in [Actors -> Places]
  /\ \A a \in Actors : a # t => pc'[a] = pc[a]
  /\ pc'[t] \in {"idle", "enqueue"}
  /\ \A u \in Threads : pc'[u] = "enqueue" <=> update'[u] # None

LEMMA DropType ==
  ASSUME TypeOK, NEW t \in Threads, NEW s \in Session, NEW c \in CellType,
         NEW cells \in [Session -> CellType], pc[t] = "idle", DropSession(t, s, c, cells)
  PROVE  Dropping(t)
<1> DEFINE last == Closed(c, "Exited")
<1>1. last \in CellType  BY ClosedType DEF Status
<1>2. UpdateOf(s, last) \in Update /\ UpdateOf(s, last) # None  BY <1>1, UpdateOfType
<1>3. cell' = [cells EXCEPT ![s] = [last EXCEPT !.where = "gone"]]  BY DEF DropSession
<1>4. \/ /\ update' = [update EXCEPT ![t] = UpdateOf(s, last)]
         /\ made' = made \cup {UpdateOf(s, last)}
         /\ pc' = [pc EXCEPT ![t] = "enqueue"]
      \/ update' = update /\ made' = made /\ pc' = pc
  BY DEF DropSession, Goto
<1> HIDE DEF last
<1>5. [last EXCEPT !.where = "gone"] \in CellType  BY <1>1 DEF CellType
<1>6. cell' \in [Session -> CellType]  BY <1>3, <1>5
<1>7. t \in Actors /\ "enqueue" \in Places  BY DEF Actors, Places
<1>8. CASE update' = update /\ made' = made /\ pc' = pc
  BY <1>6, <1>8 DEF TypeOK, Dropping
<1>9. CASE /\ update' = [update EXCEPT ![t] = UpdateOf(s, last)]
           /\ made' = made \cup {UpdateOf(s, last)}
           /\ pc' = [pc EXCEPT ![t] = "enqueue"]
  <2>1. made' \subseteq Update /\ update' \in [Threads -> Update \cup {None}]
    BY <1>2, <1>9 DEF TypeOK
  <2>2. pc' \in [Actors -> Places] /\ pc'[t] = "enqueue" /\ \A a \in Actors : a # t => pc'[a] = pc[a]
    BY <1>7, <1>9 DEF TypeOK
  <2>3. \A u \in Threads : pc'[u] = "enqueue" <=> update'[u] # None
    BY <1>2, <1>7, <1>9 DEF TypeOK, Actors
  <2> QED  BY <1>6, <2>1, <2>2, <2>3 DEF Dropping
<1> QED  BY <1>4, <1>8, <1>9

LEMMA ReferType ==
  ASSUME TypeOK, NEW t \in Threads, NEW new \in Session \cup {None},
         NEW cells \in [Session -> CellType], pc[t] = "idle", Refer(t, new, cells)
  PROVE  Dropping(t) /\ scope' \in [Threads -> Session \cup {None}]
<1>1. scope' \in [Threads -> Session \cup {None}]  BY DEF Refer, TypeOK
<1>2. CASE scope[t] # None /\ DropSession(t, scope[t], cells[scope[t]], cells)
  <2>1. scope[t] \in Session /\ cells[scope[t]] \in CellType  BY <1>2 DEF TypeOK
  <2> QED  BY <1>1, <1>2, <2>1, DropType
<1>3. CASE cell' = cells /\ UNCHANGED <<update, made, pc>>
  BY <1>1, <1>3 DEF Dropping, TypeOK
<1> QED  BY <1>2, <1>3 DEF Refer

\* A call that drops leaves everything else alone.
LEMMA DroppingType ==
  ASSUME TypeOK, NEW t \in Threads, pc[t] = "idle", Dropping(t),
         scope' \in [Threads -> Session \cup {None}],
         UNCHANGED <<client, out, stuck, transport, hits, inputs>>
  PROVE  TypeOK'
<1>1. \A a \in Actors : /\ pc'[a] \in Sending <=> pc[a] \in Sending
                        /\ stuck[a] => pc'[a] = "drop_send"
  BY DEF Dropping, TypeOK, Sending, Actors
<1> QED  BY <1>1 DEF TypeOK, Dropping, client, transport, inputs

LEMMA TypeInit == Init => TypeOK
<1> SUFFICES ASSUME Init PROVE TypeOK
  OBVIOUS
<1>1. Unborn \in CellType  BY DEF Unborn, CellType, Status
<1>2. <<>> \in Seq(Update) /\ Len(<<>>) = 0 /\ <<>> \in Seq(EnvelopeType)  OBVIOUS
<1>3. cell \in [Session -> CellType]  BY <1>1 DEF Init
<1>4. out \in [Actors -> Seq(EnvelopeType)] /\ individual \in Seq(Update)
      /\ Len(individual) < MAX_SESSION_ITEMS
  BY <1>2, MaxItemsAssumption DEF Init
<1>5. pc \in [Actors -> Places] /\ stuck \in [Actors -> BOOLEAN]  BY DEF Init, Places
<1>6. aggregated \in Counts /\ counted \in Counts /\ lostCounts \in Counts
  BY NoCountsType DEF Init
<1>7. \A a \in Actors : pc[a] = "idle" /\ out[a] = <<>> /\ ~stuck[a]  BY DEF Init
<1>8. \A t \in Threads : update[t] = None /\ pc[t] = "idle"  BY DEF Init, Actors
<1> QED  BY <1>3, <1>4, <1>5, <1>6, <1>7, <1>8 DEF Init, TypeOK, Sending

LEMMA UpdatedType ==
  ASSUME NEW c \in CellType, NEW kind
  PROVE  Updated(c, kind) \in CellType
<1>1. CASE c.status # "Ok" \/ kind = "info"
  BY <1>1 DEF Updated
<1>2. CASE c.status = "Ok" /\ kind # "info"
  <2> DEFINE st == IF kind = "crash" THEN "Crashed" ELSE c.status
  <2>1. c.errors + 1 \in Nat /\ st \in Status /\ c.where \in {"unborn", "live", "gone"}
        /\ c.init \in BOOLEAN
    BY DEF CellType, Status
  <2>2. Updated(c, kind) = [c EXCEPT !.errors = c.errors + 1, !.dirty = TRUE, !.status = st]
    BY <1>2 DEF Updated
  <2> HIDE DEF st
  <2> QED  BY <2>1, <2>2 DEF CellType
<1> QED  BY <1>1, <1>2

LEMMA CaptureType ==
  ASSUME TypeOK, NEW t \in Threads, NEW kind, NEW sampled, CaptureEvent(t, kind, sampled)
  PROVE  TypeOK'
<1>1. cell' \in [Session -> CellType] /\ hits' \in [Session -> Nat]
  <2>1. CASE LiveSession(t)
    <3>1. scope[t] \in Session /\ cell[scope[t]] \in CellType
      BY <2>1 DEF LiveSession, TypeOK
    <3>2. Updated(cell[scope[t]], kind) \in CellType  BY <3>1, UpdatedType
    <3>3. /\ cell' = [cell EXCEPT ![scope[t]] = Updated(cell[scope[t]], kind)]
          /\ hits' = [hits EXCEPT ![scope[t]] = IF kind # "info" /\ cell[scope[t]].status = "Ok"
                                               THEN @ + 1 ELSE @]
      BY <2>1 DEF CaptureEvent
    <3>4. cell' \in [Session -> CellType]  BY <3>1, <3>2, <3>3 DEF TypeOK
    <3>5. hits' \in [Session -> Nat]  BY <3>1, <3>3 DEF TypeOK
    <3> QED  BY <3>4, <3>5
  <2>2. CASE ~LiveSession(t)
    BY <2>2 DEF CaptureEvent, TypeOK
  <2> QED  BY <2>1, <2>2
<1>2. /\ pc' \in [Actors -> Places] /\ pc[t] = "idle"
      /\ \A a \in Actors : a # t => pc'[a] = pc[a]
      /\ pc'[t] \in {"item", "idle"}
  BY DEF CaptureEvent, Goto, TypeOK, Actors, Places
<1>3. \A a \in Actors : /\ pc'[a] \in Sending <=> pc[a] \in Sending
                        /\ stuck[a] => pc'[a] = "drop_send"
  BY <1>2 DEF TypeOK, Sending
<1>4. \A u \in Threads : pc'[u] = "enqueue" <=> pc[u] = "enqueue"
  BY <1>2 DEF Actors
<1> QED  BY <1>1, <1>2, <1>3, <1>4 DEF CaptureEvent, TypeOK, client, transport

LEMMA OneEnvelope ==
  ASSUME NEW e \in EnvelopeType
  PROVE  <<e>> \in Seq(EnvelopeType) /\ <<e>> # <<>>
OBVIOUS

LEMMA ItemType ==
  ASSUME TypeOK, NEW t \in Threads, CreateEnvelopeItem(t)
  PROVE  TypeOK'
<1>1. /\ pc' \in [Actors -> Places] /\ pc[t] = "item" /\ pc'[t] = "event_send" /\ t \in Actors
      /\ \A a \in Actors : a # t => pc'[a] = pc[a]
  BY DEF CreateEnvelopeItem, Goto, TypeOK, Actors, Places, Sending
<1>2. /\ cell' \in [Session -> CellType] /\ made' \subseteq Update
      /\ out' \in [Actors -> Seq(EnvelopeType)] /\ out'[t] # <<>>
      /\ \A a \in Actors : a # t => out'[a] = out[a]
  <2>1. CASE mode = "Application" /\ LiveSession(t) /\ cell[scope[t]].dirty
    <3> DEFINE s == scope[t]
               u == UpdateOf(s, cell[s])
               e == [updates |-> <<u>>, counts |-> NoCounts]
    <3>1. s \in Session /\ cell[s] \in CellType
      BY <2>1 DEF LiveSession, TypeOK
    <3>2. u \in Update  BY <3>1, UpdateOfType
    <3>3. /\ out' = [out EXCEPT ![t] = <<e>>]
          /\ made' = made \cup {u}
          /\ cell' = [cell EXCEPT ![s].init = FALSE, ![s].dirty = FALSE]
      BY <2>1 DEF CreateEnvelopeItem
    <3> HIDE DEF u, s
    <3>4. e \in EnvelopeType
      <4>1. <<u>> \in Seq(Update) /\ Len(<<u>>) = 1  BY <3>2
      <4> DEFINE us == <<u>>
      <4>2. us \in Seq(Update) /\ Len(us) <= MAX_SESSION_ITEMS  BY <4>1, MaxItemsAssumption
      <4> HIDE DEF us
      <4>3. [updates |-> us, counts |-> NoCounts] \in EnvelopeType
        BY <4>2, NoCountsType DEF EnvelopeType
      <4> QED  BY <4>3 DEF us
    <3> HIDE DEF e
    <3>5. <<e>> \in Seq(EnvelopeType) /\ <<e>> # <<>>  BY <3>4, OneEnvelope
    <3>6. cell' \in [Session -> CellType]
      BY <3>1, <3>3 DEF TypeOK, CellType
    <3> QED  BY <1>1, <3>2, <3>3, <3>5, <3>6 DEF TypeOK
  <2>2. CASE ~(mode = "Application" /\ LiveSession(t) /\ cell[scope[t]].dirty)
    <3>1. out' = [out EXCEPT ![t] = <<EventOnly>>] /\ UNCHANGED <<made, cell>>
      BY <2>2 DEF CreateEnvelopeItem
    <3>2. EventOnly \in EnvelopeType
      <4>1. <<>> \in Seq(Update) /\ Len(<<>>) = 0  OBVIOUS
      <4> QED  BY <4>1, MaxItemsAssumption, NoCountsType DEF EnvelopeType, EventOnly
    <3>3. <<EventOnly>> \in Seq(EnvelopeType) /\ <<EventOnly>> # <<>>  BY <3>2, OneEnvelope
    <3> QED  BY <1>1, <3>1, <3>3 DEF TypeOK
  <2> QED  BY <2>1, <2>2
<1>3. ~stuck[t] /\ "event_send" \in Sending  BY <1>1 DEF TypeOK, Sending
<1>4. \A a \in Actors : /\ (out'[a] # <<>> /\ ~stuck[a]) <=> (pc'[a] \in Sending /\ ~stuck[a])
                        /\ stuck[a] => pc'[a] = "drop_send"
  BY <1>1, <1>2, <1>3 DEF TypeOK
<1>5. \A u \in Threads : pc'[u] = "enqueue" <=> pc[u] = "enqueue"
  BY <1>1 DEF Actors
<1> QED  BY <1>1, <1>2, <1>4, <1>5 DEF CreateEnvelopeItem, TypeOK, client, transport, inputs

\* A thread that has taken the queue has something to hand over where it says so.
LEMMA TakeType ==
  ASSUME TypeOK, NEW a \in Actors, pc[a] \notin Sending, ~stuck[a],
         NEW us \in Seq(Update), TakeQueue(a, us, aggregated)
  PROVE  /\ out' \in [Actors -> Seq(EnvelopeType)]
         /\ out'[a] = Envelopes(us, aggregated)
         /\ \A b \in Actors : b # a => out'[b] = out[b]
         /\ individual' \in Seq(Update) /\ Len(individual') < MAX_SESSION_ITEMS
         /\ aggregated' \in Counts
<1>1. aggregated \in Counts  BY DEF TypeOK
<1>2. Envelopes(us, aggregated) \in Seq(EnvelopeType)  BY <1>1, EnvelopesProperties
<1>3. <<>> \in Seq(Update) /\ Len(<<>>) = 0  OBVIOUS
<1> QED  BY <1>2, <1>3, NoCountsType, MaxItemsAssumption DEF TakeQueue, TypeOK

LEMMA AppendFacts ==
  ASSUME NEW S, NEW q \in Seq(S), NEW x \in S
  PROVE  /\ Append(q, x) \in Seq(S) /\ Len(Append(q, x)) = Len(q) + 1 /\ Append(q, x) # <<>>
         /\ Len(q) \in Nat
OBVIOUS

\* Counting a session.
LEMMA CountOne ==
  ASSUME NEW D, NEW f \in [D -> Nat], NEW x
  PROVE  [f EXCEPT ![x] = @ + 1] \in [D -> Nat]
<1>1. CASE x \in D
  BY <1>1
<1>2. CASE x \notin D
  <2>1. [f EXCEPT ![x] = @ + 1] = f  BY <1>2
  <2> QED  BY <2>1
<1> QED  BY <1>1, <1>2

LEMMA EnqueueType ==
  ASSUME TypeOK, NEW t \in Threads, Enqueue(t)
  PROVE  TypeOK'
<1> DEFINE u  == update[t]
           us == Append(individual, u)
<1>0. pc[t] = "enqueue" /\ t \in Actors /\ ~stuck[t] /\ pc[t] \notin Sending
  BY DEF Enqueue, TypeOK, Actors, Sending
<1>1. u \in Update /\ u # None  BY <1>0 DEF TypeOK
<1>2. us \in Seq(Update) /\ Len(us) = Len(individual) + 1 /\ us # <<>>
  <2> HIDE DEF u
  <2>1. individual \in Seq(Update)  BY DEF TypeOK
  <2> QED  BY <1>1, <2>1, AppendFacts
<1>3. update' \in [Threads -> Update \cup {None}] /\ update'[t] = None
      /\ \A v \in Threads : v # t => update'[v] = update[v]
  BY DEF Enqueue, TypeOK
<1>4. UNCHANGED <<cell, scope, flusher, slot, stuck, sent, counted, lostCounts, made, hits, inputs>>
  BY DEF Enqueue
<1>5. ASSUME pc' = [pc EXCEPT ![t] = "idle"], out' = out, individual' \in Seq(Update),
             Len(individual') < MAX_SESSION_ITEMS, aggregated' \in Counts, lost' \subseteq Update
      PROVE  TypeOK'
  <2>1. pc' \in [Actors -> Places] /\ pc'[t] = "idle" /\ \A a \in Actors : a # t => pc'[a] = pc[a]
    BY <1>0, <1>5 DEF TypeOK, Places
  <2>2. \A a \in Actors : /\ (out'[a] # <<>> /\ ~stuck[a]) <=> (pc'[a] \in Sending /\ ~stuck[a])
                          /\ stuck[a] => pc'[a] = "drop_send"
    BY <1>0, <1>5, <2>1 DEF TypeOK, Sending
  <2>3. \A v \in Threads : pc'[v] = "enqueue" <=> update'[v] # None
    BY <1>3, <2>1 DEF TypeOK, Actors
  <2> QED  BY <1>3, <1>4, <1>5, <2>1, <2>2, <2>3 DEF TypeOK, inputs
<1>6. CASE ~flusher /\ lost' = lost \cup {u} /\ pc' = [pc EXCEPT ![t] = "idle"]
           /\ UNCHANGED <<queue, out>>
  BY <1>1, <1>5, <1>6 DEF TypeOK, queue
<1>7. CASE Len(us) < MAX_SESSION_ITEMS /\ individual' = us /\ pc' = [pc EXCEPT ![t] = "idle"]
           /\ UNCHANGED <<aggregated, out, lost>>
  BY <1>2, <1>5, <1>7 DEF TypeOK
<1>8. CASE TakeQueue(t, us, aggregated) /\ pc' = [pc EXCEPT ![t] = "drop_send"] /\ UNCHANGED lost
  <2>1. /\ out' \in [Actors -> Seq(EnvelopeType)]
        /\ out'[t] = Envelopes(us, aggregated)
        /\ \A b \in Actors : b # t => out'[b] = out[b]
        /\ individual' \in Seq(Update) /\ Len(individual') < MAX_SESSION_ITEMS
        /\ aggregated' \in Counts
    <3> HIDE DEF us
    <3> QED  BY <1>0, <1>2, <1>8, TakeType
  <2>2. Envelopes(us, aggregated) # <<>>
    <3>1. aggregated \in Counts  BY DEF TypeOK
    <3> HIDE DEF us
    <3> QED  BY <1>2, <3>1, EnvelopesProperties
  <2>3. pc' \in [Actors -> Places] /\ pc'[t] = "drop_send"
        /\ \A a \in Actors : a # t => pc'[a] = pc[a]
    BY <1>0, <1>8 DEF TypeOK, Places, Sending
  <2>4. \A a \in Actors : /\ (out'[a] # <<>> /\ ~stuck[a]) <=> (pc'[a] \in Sending /\ ~stuck[a])
                          /\ stuck[a] => pc'[a] = "drop_send"
    BY <1>0, <2>1, <2>2, <2>3 DEF TypeOK, Sending
  <2>5. \A v \in Threads : pc'[v] = "enqueue" <=> update'[v] # None
    BY <1>3, <2>3, ZenonT(120) DEF TypeOK, Actors
  <2> QED  BY <1>3, <1>4, <1>8, <2>1, <2>3, <2>4, <2>5 DEF TypeOK, inputs
<1>9. CASE aggregated' = [aggregated EXCEPT ![<<KeyOf[u.of], OutcomeOf(u)>>] = @ + 1]
           /\ pc' = [pc EXCEPT ![t] = "idle"] /\ UNCHANGED <<individual, out, lost>>
  <2> DEFINE ko == <<KeyOf[u.of], OutcomeOf(u)>>
  <2>0. aggregated' = [aggregated EXCEPT ![ko] = @ + 1]  BY <1>9
  <2> HIDE DEF ko
  <2>1. aggregated' \in Counts
    <3> DEFINE D == Keys \X Outcome
    <3>1. aggregated \in [D -> Nat]  BY DEF TypeOK, Counts
    <3> HIDE DEF D
    <3>2. aggregated' \in [D -> Nat]  BY <2>0, <3>1, CountOne
    <3> QED  BY <3>2 DEF D, Counts
  <2> QED  BY <1>5, <1>9, <2>1 DEF TypeOK
<1> QED  BY <1>6, <1>7, <1>8, <1>9 DEF Enqueue, Goto

LEMMA FlushType ==
  ASSUME TypeOK, WorkerFlush \/ \E t \in Threads : Flush(t)
  PROVE  TypeOK'
<1>1. ASSUME NEW a \in Actors, pc[a] = "idle", TakeQueue(a, individual, aggregated),
             pc' = [pc EXCEPT ![a] = Place("flush_send", individual, aggregated)],
             UNCHANGED <<cell, scope, flusher, slot, update, stuck, transport, made, hits, mode>>
      PROVE  TypeOK'
  <2>1. pc[a] \notin Sending /\ ~stuck[a]  BY <1>1 DEF TypeOK, Sending
  <2>2. /\ out' \in [Actors -> Seq(EnvelopeType)]
        /\ out'[a] = Envelopes(individual, aggregated)
        /\ \A b \in Actors : b # a => out'[b] = out[b]
        /\ individual' \in Seq(Update) /\ Len(individual') < MAX_SESSION_ITEMS
        /\ aggregated' \in Counts
    <3>1. individual \in Seq(Update)  BY DEF TypeOK
    <3> QED  BY <1>1, <2>1, <3>1, TakeType
  <2>3. pc'[a] = IF out'[a] = <<>> THEN "idle" ELSE "flush_send"
    BY <1>1, <2>2 DEF Place, After, TypeOK
  <2>4. pc' \in [Actors -> Places] /\ \A b \in Actors : b # a => pc'[b] = pc[b]
    BY <1>1 DEF TypeOK, Place, After, Places, Sending
  <2>5. \A b \in Actors : /\ (out'[b] # <<>> /\ ~stuck[b]) <=> (pc'[b] \in Sending /\ ~stuck[b])
                          /\ stuck[b] => pc'[b] = "drop_send"
    BY <2>1, <2>2, <2>3, <2>4 DEF TypeOK, Sending
  <2>6. \A v \in Threads : pc'[v] = "enqueue" <=> pc[v] = "enqueue"
    BY <1>1, <2>3, <2>4 DEF Actors
  <2> QED  BY <1>1, <2>2, <2>4, <2>5, <2>6 DEF TypeOK, transport
<1>2. CASE WorkerFlush
  <2>1. Worker \in Actors  BY DEF Actors
  <2> QED  BY <1>1, <1>2, <2>1 DEF WorkerFlush, Goto, inputs
<1>3. ASSUME NEW t \in Threads, Flush(t) PROVE TypeOK'
  <2>1. t \in Actors  BY DEF Actors
  <2> QED  BY <1>1, <1>3, <2>1 DEF Flush, Goto
<1> QED  BY <1>2, <1>3

LEMMA CloseType ==
  ASSUME TypeOK, NEW t \in Threads, Close(t) \/ CloseTransport(t)
  PROVE  TypeOK'
<1>1. /\ pc' \in [Actors -> Places] /\ pc[t] \in {"idle", "shutdown"}
      /\ pc'[t] \in {"join", "shutdown", "idle"}
      /\ \A a \in Actors : a # t => pc'[a] = pc[a]
  BY DEF Close, CloseTransport, Goto, TypeOK, Actors, Places
<1>2. \A a \in Actors : /\ pc'[a] \in Sending <=> pc[a] \in Sending
                        /\ stuck[a] => pc'[a] = "drop_send"
  BY <1>1 DEF TypeOK, Sending
<1>3. \A u \in Threads : pc'[u] = "enqueue" <=> pc[u] = "enqueue"
  BY <1>1 DEF Actors
<1>4. flusher' \in BOOLEAN /\ slot' \in BOOLEAN
      /\ UNCHANGED <<cell, scope, queue, update, out, stuck, transport, made, hits, mode>>
  BY DEF Close, CloseTransport, TypeOK, inputs
<1> QED  BY <1>1, <1>2, <1>3, <1>4 DEF TypeOK, queue, transport

LEMMA JoinType ==
  ASSUME TypeOK, NEW t \in Threads, CloseJoin(t)
  PROVE  TypeOK'
<1>1. t \in Actors /\ Worker \in Actors /\ t # Worker /\ pc[t] = "join" /\ pc[Worker] = "idle"
  BY NamesAssumption DEF Actors, CloseJoin
<1>2. pc[t] \notin Sending /\ ~stuck[t] /\ ~stuck[Worker]  BY <1>1 DEF TypeOK, Sending
<1>3. /\ out' \in [Actors -> Seq(EnvelopeType)]
      /\ out'[t] = Envelopes(individual, aggregated)
      /\ \A b \in Actors : b # t => out'[b] = out[b]
      /\ individual' \in Seq(Update) /\ Len(individual') < MAX_SESSION_ITEMS
      /\ aggregated' \in Counts
  <2>1. individual \in Seq(Update)  BY DEF TypeOK
  <2> QED  BY <1>1, <1>2, <2>1, TakeType DEF CloseJoin
<1>4. /\ pc'[t] = IF out'[t] = <<>> THEN "shutdown" ELSE "close_send"
      /\ pc'[Worker] = "exited"
  BY <1>1, <1>3 DEF CloseJoin, Place, After, TypeOK
<1>5. pc' \in [Actors -> Places] /\ \A b \in Actors : b # t /\ b # Worker => pc'[b] = pc[b]
  BY DEF CloseJoin, TypeOK, Place, After, Places, Sending
<1>6. \A b \in Actors : /\ (out'[b] # <<>> /\ ~stuck[b]) <=> (pc'[b] \in Sending /\ ~stuck[b])
                        /\ stuck[b] => pc'[b] = "drop_send"
  <2> TAKE b \in Actors
  <2>1. CASE b = t
    BY <1>2, <1>3, <1>4, <2>1 DEF Sending
  <2>2. CASE b = Worker
    BY <1>1, <1>2, <1>3, <1>4, <2>2 DEF Sending, TypeOK
  <2>3. CASE b # t /\ b # Worker
    BY <1>3, <1>5, <2>3 DEF TypeOK
  <2> QED  BY <2>1, <2>2, <2>3
<1>7. \A v \in Threads : pc'[v] = "enqueue" <=> pc[v] = "enqueue"
  BY <1>1, <1>4, <1>5, NamesAssumption DEF Actors
<1> QED  BY <1>3, <1>5, <1>6, <1>7 DEF CloseJoin, TypeOK, transport, inputs

LEMMA PlusType ==
  ASSUME NEW c \in Counts, NEW d \in Counts
  PROVE  Plus(c, d) \in Counts
<1> DEFINE D == Keys \X Outcome
<1>1. c \in [D -> Nat] /\ d \in [D -> Nat]  BY DEF Counts
<1> HIDE DEF D
<1>2. Plus(c, d) \in [D -> Nat]  BY <1>1 DEF Plus
<1> QED  BY <1>2 DEF Counts, D

\* The first envelope of a thread that is handing over.
LEMMA HeadOut ==
  ASSUME TypeOK, NEW a \in Actors, pc[a] \in Sending, ~stuck[a]
  PROVE  /\ out[a] \in Seq(EnvelopeType) /\ out[a] # <<>>
         /\ Head(out[a]) = out[a][1] /\ Head(out[a]) \in EnvelopeType
         /\ Tail(out[a]) \in Seq(EnvelopeType)
         /\ Len(out[a]) \in Nat \ {0} /\ Len(Tail(out[a])) = Len(out[a]) - 1
         /\ \A n \in 1 .. Len(out[a]) - 1 : Tail(out[a])[n] = out[a][n + 1]
         /\ Head(out[a]).counts \in Counts /\ UpdatesIn(Head(out[a]).updates) \subseteq Update
<1>1. out[a] \in Seq(EnvelopeType) /\ out[a] # <<>>  BY DEF TypeOK
<1>2. Head(out[a]) \in EnvelopeType  BY <1>1
<1>3. Head(out[a]).counts \in Counts /\ Head(out[a]).updates \in Seq(Update)
  BY <1>2 DEF EnvelopeType
<1>4. UpdatesIn(Head(out[a]).updates) \subseteq Update
  BY <1>3 DEF UpdatesIn
<1> QED  BY <1>1, <1>2, <1>3, <1>4

LEMMA EmptyLength ==
  ASSUME NEW S, NEW q \in Seq(S)
  PROVE  q = <<>> <=> Len(q) = 0
OBVIOUS

LEMMA SendType ==
  ASSUME TypeOK, NEW a \in Actors, TrySend(a)
  PROVE  TypeOK'
<1>1. pc[a] \in Sending /\ ~stuck[a]  BY DEF TrySend
<1>2. /\ out[a] \in Seq(EnvelopeType) /\ out[a] # <<>>
      /\ Tail(out[a]) \in Seq(EnvelopeType) /\ Len(out[a]) \in Nat \ {0}
      /\ Len(Tail(out[a])) = Len(out[a]) - 1
      /\ Head(out[a]).counts \in Counts /\ UpdatesIn(Head(out[a]).updates) \subseteq Update
  BY <1>1, HeadOut
<1>3. /\ out' \in [Actors -> Seq(EnvelopeType)] /\ out'[a] = Tail(out[a])
      /\ \A b \in Actors : b # a => out'[b] = out[b]
  BY <1>2 DEF TrySend, TypeOK
<1>4. /\ sent' \subseteq Update /\ counted' \in Counts
      /\ lost' \subseteq Update /\ lostCounts' \in Counts
      /\ stuck' \in [Actors -> BOOLEAN] /\ \A b \in Actors : b # a => stuck'[b] = stuck[b]
      /\ stuck'[a] => pc[a] = "drop_send"
  <2>1. CASE /\ sent' = sent \cup UpdatesIn(Head(out[a]).updates)
             /\ counted' = Plus(counted, Head(out[a]).counts)
             /\ UNCHANGED <<stuck, lost, lostCounts>>
    BY <1>1, <1>2, <2>1, PlusType DEF TypeOK
  <2>2. CASE /\ stuck' = [stuck EXCEPT ![a] = ~CanLog(a)]
             /\ lost' = lost \cup UpdatesIn(Head(out[a]).updates)
             /\ lostCounts' = Plus(lostCounts, Head(out[a]).counts)
             /\ UNCHANGED <<sent, counted>>
    <3>1. ~CanLog(a) <=> pc[a] = "drop_send"
      BY <1>1 DEF CanLog, Sending, HoldsStack
    <3>2. stuck' \in [Actors -> BOOLEAN] /\ (\A b \in Actors : b # a => stuck'[b] = stuck[b])
          /\ (stuck'[a] <=> pc[a] = "drop_send")
      <4>1. CanLog(a) \in BOOLEAN  BY DEF CanLog
      <4> QED  BY <2>2, <3>1, <4>1 DEF TypeOK
    <3>3. lost' \subseteq Update /\ lostCounts' \in Counts
      BY <1>2, <2>2, PlusType DEF TypeOK
    <3> QED  BY <2>2, <3>2, <3>3 DEF TypeOK
  <2> QED  BY <2>1, <2>2 DEF TrySend
<1>5. /\ pc'[a] = IF stuck'[a] \/ Len(out[a]) > 1 THEN pc[a] ELSE After(pc[a])
      /\ \A b \in Actors : b # a => pc'[b] = pc[b]
      /\ pc' \in [Actors -> Places]
  BY <1>1 DEF TrySend, Goto, TypeOK, After, Places
<1>6. Tail(out[a]) = <<>> <=> ~(Len(out[a]) > 1)
  <2>1. Tail(out[a]) = <<>> <=> Len(Tail(out[a])) = 0  BY <1>2, EmptyLength
  <2> DEFINE k == Len(out[a])
             j == Len(Tail(out[a]))
  <2>2. k \in Nat \ {0} /\ j = k - 1  BY <1>2
  <2> HIDE DEF k, j
  <2>3. j = 0 <=> ~(k > 1)  BY <2>2
  <2> QED  BY <2>1, <2>3 DEF k, j
<1>7. \A b \in Actors : /\ (out'[b] # <<>> /\ ~stuck'[b]) <=> (pc'[b] \in Sending /\ ~stuck'[b])
                        /\ stuck'[b] => pc'[b] = "drop_send"
  <2> TAKE b \in Actors
  <2>1. CASE b = a
    <3>1. After(pc[a]) \notin Sending  BY DEF After, Sending
    <3> QED  BY <1>1, <1>3, <1>4, <1>5, <1>6, <2>1, <3>1
  <2>2. CASE b # a
    BY <1>3, <1>4, <1>5, <2>2 DEF TypeOK
  <2> QED  BY <2>1, <2>2
<1>8. \A v \in Threads : pc'[v] = "enqueue" <=> pc[v] = "enqueue"
  BY <1>1, <1>5 DEF Actors, After, Sending
<1> QED  BY <1>3, <1>4, <1>5, <1>7, <1>8 DEF TrySend, TypeOK, client, inputs

LEMMA TypeStep == TypeOK /\ [Next]_vars => TypeOK'
<1> SUFFICES ASSUME TypeOK, [Next]_vars PROVE TypeOK'
  OBVIOUS
<1>1. ASSUME NEW t \in Threads, NEW s \in Session, StartSession(t, s) PROVE TypeOK'
  <2>1. [Unborn EXCEPT !.where = "live", !.dirty = TRUE] \in CellType
    BY DEF Unborn, CellType, Status
  <2>2. [cell EXCEPT ![s] = [Unborn EXCEPT !.where = "live", !.dirty = TRUE]]
          \in [Session -> CellType]
    BY <2>1 DEF TypeOK
  <2> QED  BY <1>1, <2>2, ReferType, DroppingType DEF StartSession
<1>2. ASSUME NEW t \in Threads, NEW u \in Threads, InheritScope(t, u) PROVE TypeOK'
  <2>1. scope[u] \in Session \cup {None} /\ cell \in [Session -> CellType]  BY DEF TypeOK
  <2> QED  BY <1>2, <2>1, ReferType, DroppingType DEF InheritScope
<1>3. ASSUME NEW t \in Threads, PopScope(t) PROVE TypeOK'
  <2>1. cell \in [Session -> CellType]  BY DEF TypeOK
  <2> QED  BY <1>3, <2>1, ReferType, DroppingType DEF PopScope
<1>4. ASSUME NEW t \in Threads, NEW status \in Status, EndSession(t, status) PROVE TypeOK'
  <2>1. scope[t] \in Session /\ cell[scope[t]] \in CellType /\ cell \in [Session -> CellType]
        /\ scope \in [Threads -> Session \cup {None}]
    BY <1>4 DEF EndSession, TypeOK
  <2>2. Closed(cell[scope[t]], status) \in CellType  BY <2>1, ClosedType
  <2> QED  BY <1>4, <2>1, <2>2, DropType, DroppingType DEF EndSession
<1>5. ASSUME NEW t \in Threads, Step(t) PROVE TypeOK'
  BY <1>5, ItemType, EnqueueType, JoinType, CloseType, SendType DEF Step, Actors
<1>6. CASE WorkerStep
  BY <1>6, FlushType, SendType DEF WorkerStep, Actors
<1>7. CASE UNCHANGED vars
  BY <1>7 DEF vars, TypeOK, client, transport, inputs
<1>8. ASSUME NEW t \in Threads, Call(t) PROVE TypeOK'
  BY <1>1, <1>2, <1>3, <1>4, <1>8, CaptureType, FlushType, CloseType DEF Call
<1> QED  BY <1>5, <1>6, <1>7, <1>8 DEF Next, Terminated

\* The state keeps its types for any number of threads and sessions: the
\* flusher's queue never reaches a full envelope, no envelope is too large, and
\* a thread is handing envelopes over exactly while it has some (session.rs).
THEOREM TypeCorrect == Spec => []TypeOK
BY TypeInit, TypeStep, PTL DEF Spec

-----------------------------------------------------------------------------
(* The life of one session.                                                *)

\* Hub::start_session.
LEMMA LifeStarts ==
  ASSUME NEW c, NEW h, NEW us, Life(c, h, us), c.where = "unborn"
  PROVE  Life([Unborn EXCEPT !.where = "live", !.dirty = TRUE], h, us)
<1> DEFINE d == [Unborn EXCEPT !.where = "live", !.dirty = TRUE]
<1>1. us = {} /\ h = 0 /\ Ends(us) = {}  BY DEF Life, Ends
<1>2. d.where = "live" /\ d.init /\ d.status = "Ok" /\ d.errors = 0  BY DEF Unborn
<1> HIDE DEF d
<1>3. Life(d, h, us)  BY <1>1, <1>2 DEF Life
<1> QED  BY <1>3 DEF d

\* What an update adds to the updates made of a session.
LEMMA EndsGrow ==
  ASSUME NEW us, NEW u
  PROVE  Ends(us \cup {u}) = IF u.status # "Ok" THEN Ends(us) \cup {u} ELSE Ends(us)
BY DEF Ends

\* Session::update_from_event.
LEMMA LifeCaptures ==
  ASSUME NEW c \in CellType, NEW h \in Nat, NEW us \in SUBSET Update, Life(c, h, us),
         c.where = "live", NEW kind
  PROVE  Life(Updated(c, kind), IF kind # "info" /\ c.status = "Ok" THEN h + 1 ELSE h, us)
<1>1. CASE c.status # "Ok" \/ kind = "info"
  BY <1>1 DEF Updated
<1>2. CASE c.status = "Ok" /\ kind # "info"
  <2> DEFINE d == Updated(c, kind)
  <2>1. d.where = "live" /\ d.init = c.init /\ d.errors = c.errors + 1 /\ d.dirty
    BY <1>2 DEF Updated, CellType
  <2>2. Ends(us) = {} /\ c.errors = h /\ (c.init <=> us = {})  BY <1>2 DEF Life
  <2>3. \A u \in us : u.errors <= h + 1  BY DEF Life, Update
  <2>4. us # {} => \E f \in us : { u \in us : u.init } = {f}  BY DEF Life
  <2> HIDE DEF d
  <2>5. Life(d, h + 1, us)  BY <2>1, <2>2, <2>3, <2>4 DEF Life
  <2> QED  BY <1>2, <2>5 DEF d
<1> QED  BY <1>1, <1>2

\* Session::create_envelope_item of a dirty session.
LEMMA LifeReports ==
  ASSUME NEW s \in Session, NEW c \in CellType, NEW h \in Nat, NEW us \in SUBSET Update,
         Life(c, h, us), c.where = "live", c.dirty
  PROVE  Life([c EXCEPT !.init = FALSE, !.dirty = FALSE], h, us \cup {UpdateOf(s, c)})
<1> DEFINE d == [c EXCEPT !.init = FALSE, !.dirty = FALSE]
           u == UpdateOf(s, c)
           ws == us \cup {u}
<1>1. /\ d.where = "live" /\ ~d.init /\ ~d.dirty /\ d.status = c.status /\ d.errors = c.errors
      /\ u.status = c.status /\ u.errors = c.errors /\ u.init = c.init
  BY DEF CellType, UpdateOf
<1>2. c.errors = h /\ Ends(us) = {} /\ (c.init <=> us = {})  BY DEF Life
<1>3. c.init \in BOOLEAN  BY DEF CellType
<1> HIDE DEF d, u
<1>4. \E f \in ws : { v \in ws : v.init } = {f}
  <2>1. CASE c.init
    BY <1>1, <1>2, <2>1
  <2>2. CASE ~c.init
    <3>1. PICK f \in us : { v \in us : v.init } = {f}  BY <1>2, <2>2 DEF Life
    <3>2. { v \in ws : v.init } = { v \in us : v.init }  BY <1>1, <2>2
    <3> QED  BY <3>1, <3>2
  <2> QED  BY <2>1, <2>2
<1>5. \A v \in ws : v.errors <= h
  <2>1. \A v \in us : v.errors <= h  BY DEF Life
  <2> QED  BY <1>1, <1>2, <2>1
<1>6. Ends(ws) = IF c.status # "Ok" THEN {u} ELSE {}
  BY <1>1, <1>2, EndsGrow, ZenonT(120)
<1>7. Life(d, h, ws)
  BY <1>1, <1>2, <1>4, <1>5, <1>6 DEF Life
<1> QED  BY <1>7 DEF d, u

\* Session::close twice is once.
LEMMA ClosedTwice ==
  ASSUME NEW c \in CellType, NEW status \in Status
  PROVE  Closed(Closed(c, status), "Exited") = Closed(c, status)
<1>1. Closed(c, status).status # "Ok"  BY ClosedType
<1> DEFINE d == Closed(c, status)
<1> HIDE DEF d
<1>2. d.status # "Ok" => Closed(d, "Exited") = d  BY DEF Closed
<1> QED  BY <1>1, <1>2 DEF d

\* Session::drop after a close with the status.  The end is made now, or it
\* was made when the session was last sent.
LEMMA LifeEnds ==
  ASSUME NEW s \in Session, NEW c \in CellType, NEW h \in Nat, NEW us \in SUBSET Update,
         Life(c, h, us), c.where = "live", NEW status \in Status
  PROVE  LET last == Closed(c, status)
             u == UpdateOf(s, last)
             gone == [last EXCEPT !.where = "gone"] IN
         /\ last.dirty => Life(gone, h, us \cup {u}) /\ u.status # "Ok" /\ u \notin us
         /\ ~last.dirty => Life(gone, h, us)
<1> DEFINE last == Closed(c, status)
           u == UpdateOf(s, last)
           gone == [last EXCEPT !.where = "gone"]
           ws == us \cup {u}
<1>1. /\ last.errors = c.errors /\ last.init = c.init /\ last.status # "Ok"
      /\ c.status = "Ok" => last.dirty
      /\ c.status # "Ok" => last.dirty = c.dirty
      /\ last \in CellType
  <2>1. last \in CellType /\ last.status # "Ok"  BY ClosedType
  <2> QED  BY <2>1 DEF Closed, CellType
<1> HIDE DEF last
<1>2. /\ gone.where = "gone" /\ gone.errors = c.errors /\ gone.init = c.init
      /\ u.status # "Ok" /\ u.errors = c.errors /\ u.init = c.init
  BY <1>1 DEF CellType, UpdateOf
<1>3. c.errors = h /\ (c.init <=> us = {}) /\ c.init \in BOOLEAN /\ c.dirty \in BOOLEAN
      /\ ((c.status # "Ok" /\ ~c.dirty) <=> Ends(us) # {})
  BY DEF Life, CellType
<1> HIDE DEF gone, u
<1>4. CASE last.dirty
  <2>1. Ends(us) = {}  BY <1>1, <1>3, <1>4
  <2>2. u \notin us  BY <1>2, <2>1 DEF Ends
  <2>3. \E f \in ws : { v \in ws : v.init } = {f}
    <3>1. CASE c.init
      BY <1>2, <1>3, <3>1
    <3>2. CASE ~c.init
      <4>1. PICK f \in us : { v \in us : v.init } = {f}  BY <1>3, <3>2 DEF Life
      <4>2. { v \in ws : v.init } = { v \in us : v.init }  BY <1>2, <3>2
      <4> QED  BY <4>1, <4>2
    <3> QED  BY <3>1, <3>2
  <2>4. \A v \in ws : v.errors <= h
    <3>1. \A v \in us : v.errors <= h  BY DEF Life
    <3> QED  BY <1>2, <1>3, <3>1
  <2>5. Ends(ws) = {u}  BY <1>2, <2>1, EndsGrow, ZenonT(120)
  <2>6. Life(gone, h, ws)  BY <1>2, <1>3, <2>3, <2>4, <2>5 DEF Life
  <2> QED  BY <1>2, <1>4, <2>2, <2>6 DEF last, u, gone
<1>5. CASE ~last.dirty
  <2>1. Ends(us) # {}  BY <1>1, <1>3, <1>5
  <2>2. us # {}  BY <2>1 DEF Ends
  <2>3. Life(gone, h, us)  BY <1>2, <1>3, <2>1, <2>2 DEF Life
  <2> QED  BY <1>5, <2>3 DEF last, gone
<1> QED  BY <1>4, <1>5

-----------------------------------------------------------------------------
(* The lives of all sessions.                                              *)

LEMMA MadeGrows ==
  ASSUME NEW u, made' = made \cup {u}, NEW r
  PROVE  MadeOf(r)' = IF u.of = r THEN MadeOf(r) \cup {u} ELSE MadeOf(r)
BY DEF MadeOf

LEMMA MadeStays ==
  ASSUME made' = made, NEW r
  PROVE  MadeOf(r)' = MadeOf(r)
BY DEF MadeOf

LEMMA MadeOfType ==
  ASSUME TypeOK, NEW s
  PROVE  MadeOf(s) \in SUBSET Update
BY DEF TypeOK, MadeOf

\* A call of t that drops a session makes nothing, or a new update with an end.
Dropped(t) ==
  \/ UNCHANGED <<update, made>>
  \/ \E u \in Update : /\ u \notin made /\ u.status # "Ok"
                       /\ update' = [update EXCEPT ![t] = u]
                       /\ made' = made \cup {u}

LEMMA DropLives ==
  ASSUME TypeOK, NEW t \in Threads, NEW s \in Session, NEW cells \in [Session -> CellType],
         \A r \in Session : Life(cells[r], hits[r], MadeOf(r)), cells[s].where = "live",
         NEW status \in Status, NEW c, Closed(c, "Exited") = Closed(cells[s], status),
         DropSession(t, s, c, cells), hits' = hits
  PROVE  Lives' /\ Dropped(t)
<1> DEFINE last == Closed(cells[s], status)
           u == UpdateOf(s, last)
           gone == [last EXCEPT !.where = "gone"]
<1>1. last \in CellType  BY ClosedType
<1>2. u \in Update /\ u.of = s  BY <1>1, UpdateOfType DEF UpdateOf
<1>3. cell' = [cells EXCEPT ![s] = gone]  BY DEF DropSession
<1>4. IF last.dirty THEN update' = [update EXCEPT ![t] = u] /\ made' = made \cup {u}
                    ELSE UNCHANGED <<update, made>>
  BY DEF DropSession
<1>5. /\ last.dirty => Life(gone, hits[s], MadeOf(s) \cup {u}) /\ u.status # "Ok" /\ u \notin MadeOf(s)
      /\ ~last.dirty => Life(gone, hits[s], MadeOf(s))
  <2>1. /\ cells[s] \in CellType /\ hits[s] \in Nat /\ MadeOf(s) \in SUBSET Update
        /\ Life(cells[s], hits[s], MadeOf(s))
    BY MadeOfType DEF TypeOK
  <2> QED  BY <2>1, LifeEnds
<1> HIDE DEF last, u, gone
<1>6. cell'[s] = gone /\ \A r \in Session : r # s => cell'[r] = cells[r]  BY <1>3
<1>7. CASE last.dirty
  <2>1. made' = made \cup {u} /\ update' = [update EXCEPT ![t] = u]  BY <1>4, <1>7
  <2>2. u \notin made  BY <1>2, <1>5, <1>7 DEF MadeOf
  <2>3. Dropped(t)  BY <1>2, <1>5, <1>7, <2>1, <2>2 DEF Dropped
  <2>4. ASSUME NEW r \in Session PROVE Life(cell'[r], hits'[r], MadeOf(r)')
    <3>1. MadeOf(r)' = IF r = s THEN MadeOf(r) \cup {u} ELSE MadeOf(r)
      BY <1>2, <2>1, MadeGrows
    <3> QED  BY <1>5, <1>6, <1>7, <3>1
  <2> QED  BY <2>3, <2>4 DEF Lives
<1>8. CASE ~last.dirty
  <2>1. UNCHANGED <<update, made>>  BY <1>4, <1>8
  <2>2. ASSUME NEW r \in Session PROVE Life(cell'[r], hits'[r], MadeOf(r)')
    <3>1. MadeOf(r)' = MadeOf(r)  BY <2>1, MadeStays
    <3> QED  BY <1>5, <1>6, <1>8, <3>1
  <2> QED  BY <2>1, <2>2 DEF Lives, Dropped
<1> QED  BY <1>7, <1>8

LEMMA ReferLives ==
  ASSUME TypeOK, NEW t \in Threads, NEW new, NEW cells \in [Session -> CellType],
         \A r \in Session : Life(cells[r], hits[r], MadeOf(r)),
         Refer(t, new, cells), hits' = hits
  PROVE  Lives' /\ Dropped(t)
<1>1. CASE /\ scope[t] # None /\ cells[scope[t]].where = "live"
           /\ DropSession(t, scope[t], cells[scope[t]], cells)
  <2>1. scope[t] \in Session  BY <1>1 DEF TypeOK
  <2>2. "Exited" \in Status  BY DEF Status
  <2> QED  BY <1>1, <2>1, <2>2, DropLives
<1>2. CASE cell' = cells /\ UNCHANGED <<update, made, pc>>
  <2>1. ASSUME NEW r \in Session PROVE Life(cell'[r], hits'[r], MadeOf(r)')
    <3>1. MadeOf(r)' = MadeOf(r)  BY <1>2, MadeStays
    <3> QED  BY <1>2, <3>1
  <2> QED  BY <1>2, <2>1 DEF Lives, Dropped
<1> QED  BY <1>1, <1>2 DEF Refer

\* The calls that can drop a session.
DropCall(t) == \/ \E s \in Session : StartSession(t, s)
               \/ \E u \in Threads : InheritScope(t, u)
               \/ PopScope(t)
               \/ \E status \in Status : EndSession(t, status)

LEMMA DropCallLives ==
  ASSUME TypeOK, Lives, NEW t \in Threads, DropCall(t)
  PROVE  Lives' /\ Dropped(t)
<1>0. cell \in [Session -> CellType] /\ \A r \in Session : Life(cell[r], hits[r], MadeOf(r))
  BY DEF TypeOK, Lives
<1>1. ASSUME NEW s \in Session, StartSession(t, s) PROVE Lives' /\ Dropped(t)
  <2> DEFINE fresh == [Unborn EXCEPT !.where = "live", !.dirty = TRUE]
             cells == [cell EXCEPT ![s] = fresh]
  <2>1. fresh \in CellType  BY DEF Unborn, CellType, Status
  <2>2. Life(fresh, hits[s], MadeOf(s))  BY <1>0, <1>1, LifeStarts DEF StartSession
  <2>3. Refer(t, s, cells) /\ hits' = hits  BY <1>1 DEF StartSession
  <2> HIDE DEF fresh
  <2>4. cells \in [Session -> CellType] /\ \A r \in Session : Life(cells[r], hits[r], MadeOf(r))
    BY <1>0, <2>1, <2>2
  <2> HIDE DEF cells
  <2> QED  BY <2>3, <2>4, ReferLives
<1>2. ASSUME NEW u \in Threads, InheritScope(t, u) PROVE Lives' /\ Dropped(t)
  BY <1>0, <1>2, ReferLives DEF InheritScope
<1>3. CASE PopScope(t)
  BY <1>0, <1>3, ReferLives DEF PopScope
<1>4. ASSUME NEW status \in Status, EndSession(t, status) PROVE Lives' /\ Dropped(t)
  <2> DEFINE s == scope[t]
             c == Closed(cell[s], status)
  <2>1. s \in Session /\ cell[s].where = "live" /\ DropSession(t, s, c, cell) /\ hits' = hits
    BY <1>4 DEF EndSession, TypeOK
  <2>2. cell[s] \in CellType  BY <1>0, <2>1
  <2>3. Closed(c, "Exited") = Closed(cell[s], status)  BY <2>2, ClosedTwice
  <2> HIDE DEF s, c
  <2> QED  BY <1>0, <2>1, <2>3, DropLives
<1> QED  BY <1>1, <1>2, <1>3, <1>4 DEF DropCall

LEMMA CaptureLives ==
  ASSUME TypeOK, Lives, NEW t \in Threads, NEW kind, NEW sampled,
         CaptureEvent(t, kind, sampled)
  PROVE  Lives'
<1>0. made' = made  BY DEF CaptureEvent
<1> SUFFICES ASSUME NEW r \in Session PROVE Life(cell'[r], hits'[r], MadeOf(r)')
  BY DEF Lives
<1>1. MadeOf(r)' = MadeOf(r)  BY <1>0, MadeStays
<1>2. Life(cell[r], hits[r], MadeOf(r))  BY DEF Lives
<1>3. CASE LiveSession(t) /\ r = scope[t]
  <2>1. cell[r].where = "live" /\ cell[r] \in CellType /\ hits[r] \in Nat
        /\ MadeOf(r) \in SUBSET Update
    BY <1>3, MadeOfType DEF LiveSession, TypeOK
  <2>2. cell' = [cell EXCEPT ![r] = Updated(cell[r], kind)]
        /\ hits' = [hits EXCEPT ![r] = IF kind # "info" /\ cell[r].status = "Ok" THEN @ + 1 ELSE @]
    BY <1>3 DEF CaptureEvent
  <2>3. cell'[r] = Updated(cell[r], kind)
        /\ hits'[r] = IF kind # "info" /\ cell[r].status = "Ok" THEN hits[r] + 1 ELSE hits[r]
    BY <2>2 DEF TypeOK
  <2>4. Life(Updated(cell[r], kind),
             IF kind # "info" /\ cell[r].status = "Ok" THEN hits[r] + 1 ELSE hits[r], MadeOf(r))
    BY <1>2, <2>1, LifeCaptures
  <2> QED  BY <1>1, <2>3, <2>4
<1>4. CASE ~(LiveSession(t) /\ r = scope[t])
  <2>1. cell'[r] = cell[r] /\ hits'[r] = hits[r]  BY <1>4 DEF CaptureEvent, TypeOK
  <2> QED  BY <1>1, <1>2, <2>1
<1> QED  BY <1>3, <1>4

LEMMA ItemLives ==
  ASSUME TypeOK, Lives, NEW t \in Threads, CreateEnvelopeItem(t)
  PROVE  Lives'
<1>0. hits' = hits  BY DEF CreateEnvelopeItem
<1>1. CASE mode = "Application" /\ LiveSession(t) /\ cell[scope[t]].dirty
  <2> DEFINE s == scope[t]
             u == UpdateOf(s, cell[s])
             d == [cell[s] EXCEPT !.init = FALSE, !.dirty = FALSE]
  <2>1. /\ s \in Session /\ cell[s] \in CellType /\ cell[s].where = "live" /\ cell[s].dirty
        /\ hits[s] \in Nat /\ MadeOf(s) \in SUBSET Update /\ Life(cell[s], hits[s], MadeOf(s))
    BY <1>1, MadeOfType DEF LiveSession, TypeOK, Lives
  <2>2. Life(d, hits[s], MadeOf(s) \cup {u})  BY <2>1, LifeReports
  <2>3. made' = made \cup {u} /\ cell' = [cell EXCEPT ![s].init = FALSE, ![s].dirty = FALSE]
    BY <1>1 DEF CreateEnvelopeItem
  <2>4. cell'[s] = d /\ \A r \in Session : r # s => cell'[r] = cell[r]
    BY <2>1, <2>3 DEF TypeOK, CellType
  <2>5. u.of = s  BY DEF UpdateOf
  <2> HIDE DEF u, d, s
  <2>6. ASSUME NEW r \in Session PROVE Life(cell'[r], hits'[r], MadeOf(r)')
    <3>1. MadeOf(r)' = IF r = s THEN MadeOf(r) \cup {u} ELSE MadeOf(r)
      BY <2>3, <2>5, MadeGrows
    <3> QED  BY <1>0, <2>2, <2>4, <3>1 DEF Lives
  <2> QED  BY <2>6 DEF Lives
<1>2. CASE ~(mode = "Application" /\ LiveSession(t) /\ cell[scope[t]].dirty)
  <2>1. made' = made /\ cell' = cell  BY <1>2 DEF CreateEnvelopeItem
  <2> QED  BY <1>0, <2>1 DEF Lives, MadeOf
<1> QED  BY <1>1, <1>2

LEMMA LivesStep == TypeOK /\ Lives /\ [Next]_vars => Lives'
<1> SUFFICES ASSUME TypeOK, Lives, [Next]_vars PROVE Lives'
  OBVIOUS
<1>1. ASSUME UNCHANGED <<cell, made, hits>> PROVE Lives'
  BY <1>1 DEF Lives, MadeOf
<1>2. ASSUME NEW t \in Threads, Call(t) PROVE Lives'
  <2>1. CASE DropCall(t)
    BY <2>1, DropCallLives
  <2>2. ASSUME NEW kind, NEW sampled, CaptureEvent(t, kind, sampled) PROVE Lives'
    BY <2>2, CaptureLives
  <2>3. CASE Flush(t) \/ Close(t)
    BY <1>1, <2>3 DEF Flush, Close
  <2> QED  BY <1>2, <2>1, <2>2, <2>3 DEF Call, DropCall
<1>3. ASSUME NEW t \in Threads, Step(t) PROVE Lives'
  <2>1. CASE CreateEnvelopeItem(t)
    BY <2>1, ItemLives
  <2>2. CASE Enqueue(t) \/ CloseJoin(t) \/ CloseTransport(t) \/ TrySend(t)
    BY <1>1, <2>2 DEF Enqueue, CloseJoin, CloseTransport, TrySend
  <2> QED  BY <1>3, <2>1, <2>2 DEF Step
<1>4. CASE WorkerStep
  BY <1>1, <1>4 DEF WorkerStep, WorkerFlush, TrySend
<1>5. CASE UNCHANGED vars
  BY <1>1, <1>5 DEF vars
<1> QED  BY <1>2, <1>3, <1>4, <1>5 DEF Next, Terminated

LEMMA LivesInit == Init => Lives
<1> SUFFICES ASSUME Init, NEW s \in Session PROVE Life(cell[s], hits[s], MadeOf(s))
  BY DEF Lives
<1>1. cell[s] = Unborn /\ hits[s] = 0 /\ MadeOf(s) = {}  BY DEF Init, MadeOf
<1>2. Unborn.where = "unborn" /\ Ends({}) = {}  BY DEF Unborn, Ends
<1> QED  BY <1>1, <1>2 DEF Life

\* A session's life implies what the runs check of it.
LEMMA LivesImply == TypeOK /\ Lives => OneInitOneEnd /\ LastWord
<1> SUFFICES ASSUME TypeOK, Lives PROVE OneInitOneEnd /\ LastWord
  OBVIOUS
<1>1. OneInitOneEnd
  <2> SUFFICES ASSUME NEW s \in Session
               PROVE  /\ MadeOf(s) # {} => Cardinality({ u \in MadeOf(s) : u.init }) = 1
                      /\ Cardinality(Ends(MadeOf(s))) <= 1
    BY DEF OneInitOneEnd, MadeOf, Ends
  <2>1. Life(cell[s], hits[s], MadeOf(s))  BY DEF Lives
  <2>2. MadeOf(s) # {} => Cardinality({ u \in MadeOf(s) : u.init }) = 1
    BY <2>1, FS_Singleton DEF Life
  <2>3. Cardinality(Ends(MadeOf(s))) <= 1
    <3>1. CASE Ends(MadeOf(s)) = {}
      BY <3>1, FS_EmptySet
    <3>2. CASE Ends(MadeOf(s)) # {}
      <4>1. PICK e \in Ends(MadeOf(s)) : TRUE  BY <3>2
      <4>2. \A v \in Ends(MadeOf(s)) : v = e  BY <2>1 DEF Life
      <4>3. Ends(MadeOf(s)) = {e}  BY <4>2
      <4>4. Cardinality(Ends(MadeOf(s))) = 1  BY <4>3, FS_Singleton
      <4> QED  BY <4>4
    <3> QED  BY <3>1, <3>2
  <2> QED  BY <2>2, <2>3
<1>2. LastWord
  <2> SUFFICES ASSUME NEW s \in Session
               PROVE  /\ cell[s].where = "gone" =>
                           \E u \in made : u.of = s /\ u.status # "Ok" /\ u.errors = hits[s]
                      /\ \A u \in made : u.of = s => u.errors <= hits[s]
    BY DEF LastWord
  <2>1. Life(cell[s], hits[s], MadeOf(s))  BY DEF Lives
  <2> QED  BY <2>1 DEF Life, MadeOf, Ends
<1> QED  BY <1>1, <1>2

\* For any number of threads that share the session and whatever they do
\* between update_from_event and create_envelope_item: one update says it is
\* the first, one at most says the end, and the end has every error captured
\* while the session lived (session.rs, hub.rs end_session_with_status).
THEOREM LastWordTrue == Spec => [](Lives /\ OneInitOneEnd /\ LastWord)
<1>1. Spec => []Lives  BY LivesInit, LivesStep, TypeCorrect, PTL DEF Spec
<1> QED  BY <1>1, LivesImply, TypeCorrect, PTL

-----------------------------------------------------------------------------
(* Where the updates are.                                                  *)

\* What Tracked says of a thread's envelopes, when the updates ms were made.
Carries(es, ms) ==
  \A n \in DOMAIN es : /\ \A u \in UpdatesIn(es[n].updates) : u \in ms /\ ~IsCounted(u)
                       /\ n # 1 => es[n].counts = NoCounts

LEMMA UpdatesAppend ==
  ASSUME NEW q \in Seq(Update), NEW u \in Update
  PROVE  UpdatesIn(Append(q, u)) = UpdatesIn(q) \cup {u}
<1> DEFINE r == Append(q, u)
<1>1. /\ DOMAIN q = 1 .. Len(q) /\ DOMAIN r = 1 .. Len(q) + 1 /\ Len(q) \in Nat
      /\ r[Len(q) + 1] = u /\ \A n \in 1 .. Len(q) : r[n] = q[n]
  OBVIOUS
<1> HIDE DEF r
<1>2. Len(q) + 1 \in DOMAIN r /\ DOMAIN q \subseteq DOMAIN r  BY <1>1
<1>3. \A n \in DOMAIN r : n \in DOMAIN q \/ n = Len(q) + 1  BY <1>1
<1>4. UpdatesIn(r) = UpdatesIn(q) \cup {u}
  BY <1>1, <1>2, <1>3 DEF UpdatesIn
<1> QED  BY <1>4 DEF r

\* A taken queue in the hands of a thread.
LEMMA TakenCarries ==
  ASSUME TypeOK, NEW us \in Seq(Update), NEW cs \in Counts,
         \A u \in UpdatesIn(us) : u \in made /\ ~IsCounted(u)
  PROVE  Carries(Envelopes(us, cs), made)
<1> DEFINE es == Envelopes(us, cs)
<1>1. /\ es \in Seq(EnvelopeType)
      /\ \A n \in 1 .. Len(es) : UpdatesIn(es[n].updates) \subseteq UpdatesIn(us)
      /\ \A n \in 2 .. Len(es) : es[n].counts = NoCounts
  BY EnvelopesProperties
<1> HIDE DEF es
<1>2. DOMAIN es = 1 .. Len(es) /\ Len(es) \in Nat  BY <1>1
<1>3. \A n \in DOMAIN es : n # 1 => n \in 2 .. Len(es)  BY <1>2
<1>4. Carries(es, made)  BY <1>1, <1>2, <1>3 DEF Carries
<1> QED  BY <1>4 DEF es

\* The envelopes after the first one is handed over.
LEMMA TailCarries ==
  ASSUME TypeOK, NEW a \in Actors, pc[a] \in Sending, ~stuck[a], Carries(out[a], made)
  PROVE  /\ Carries(Tail(out[a]), made)
         /\ \A u \in UpdatesIn(Head(out[a]).updates) : u \in made /\ ~IsCounted(u)
         /\ \A n \in DOMAIN Tail(out[a]) : Tail(out[a])[n].counts = NoCounts
<1> DEFINE es == out[a]
           ts == Tail(out[a])
<1>1. /\ es \in Seq(EnvelopeType) /\ es # <<>> /\ Head(es) = es[1]
      /\ ts \in Seq(EnvelopeType) /\ Len(es) \in Nat \ {0} /\ Len(ts) = Len(es) - 1
      /\ \A n \in 1 .. Len(es) - 1 : ts[n] = es[n + 1]
  BY HeadOut
<1>2. Carries(es, made)  OBVIOUS
<1> HIDE DEF es, ts
<1>3. DOMAIN es = 1 .. Len(es) /\ DOMAIN ts = 1 .. Len(es) - 1 /\ 1 \in DOMAIN es  BY <1>1
<1>4. \A n \in DOMAIN ts : n + 1 \in DOMAIN es /\ n + 1 # 1 /\ ts[n] = es[n + 1]  BY <1>1, <1>3
<1>5. \A n \in DOMAIN ts : /\ ts[n].counts = NoCounts
                           /\ \A u \in UpdatesIn(ts[n].updates) : u \in made /\ ~IsCounted(u)
  BY <1>2, <1>4 DEF Carries
<1>6. \A u \in UpdatesIn(es[1].updates) : u \in made /\ ~IsCounted(u)
  BY <1>2, <1>3 DEF Carries
<1> QED  BY <1>1, <1>5, <1>6 DEF Carries, es, ts

-----------------------------------------------------------------------------
(* The counts under way.                                                   *)

LEMMA CountNat ==
  ASSUME NEW c \in Counts, NEW ko \in Keys \X Outcome
  PROVE  c[ko] \in Nat
<1> DEFINE D == Keys \X Outcome
<1>1. c \in [D -> Nat] /\ ko \in D  BY DEF Counts
<1> HIDE DEF D
<1> QED  BY <1>1

LEMMA PlusCount ==
  ASSUME NEW c \in Counts, NEW d \in Counts, NEW ko \in Keys \X Outcome
  PROVE  Plus(c, d)[ko] = c[ko] + d[ko]
<1> DEFINE D == Keys \X Outcome
<1>1. c \in [D -> Nat] /\ ko \in D  BY DEF Counts
<1> HIDE DEF D
<1> QED  BY <1>1 DEF Plus

LEMMA NoCount ==
  ASSUME NEW ko \in Keys \X Outcome
  PROVE  NoCounts[ko] = 0
<1> DEFINE D == Keys \X Outcome
<1>1. NoCounts = [x \in D |-> 0] /\ ko \in D  BY DEF NoCounts
<1> HIDE DEF D
<1> QED  BY <1>1

LEMMA HeadCountNat ==
  ASSUME NEW es \in Seq(EnvelopeType), NEW ko \in Keys \X Outcome
  PROVE  HeadCount(es, ko) \in Nat
<1>1. CASE es = <<>>
  BY <1>1 DEF HeadCount
<1>2. CASE es # <<>>
  <2>1. Head(es) \in EnvelopeType  BY <1>2
  <2>2. Head(es).counts \in Counts  BY <2>1 DEF EnvelopeType
  <2>3. Head(es).counts[ko] \in Nat  BY <2>2, CountNat
  <2> QED  BY <1>2, <2>3 DEF HeadCount
<1> QED  BY <1>1, <1>2

\* A taken queue carries the counts it was taken with ...
LEMMA HeadCountTaken ==
  ASSUME NEW us \in Seq(Update), NEW cs \in Counts, NEW ko \in Keys \X Outcome
  PROVE  HeadCount(Envelopes(us, cs), ko) = cs[ko]
<1> DEFINE es == Envelopes(us, cs)
<1>1. /\ es \in Seq(EnvelopeType)
      /\ es = <<>> <=> (us = <<>> /\ cs = NoCounts)
      /\ es # <<>> => es[1].counts = cs
  BY EnvelopesProperties
<1> HIDE DEF es
<1>2. CASE es = <<>>
  BY <1>1, <1>2, NoCount DEF HeadCount, es
<1>3. CASE es # <<>>
  <2>1. Head(es) = es[1]  BY <1>1, <1>3
  <2> QED  BY <1>1, <1>3, <2>1 DEF HeadCount, es
<1> QED  BY <1>2, <1>3

\* ... and once its first envelope is gone it carries none.
LEMMA HeadCountNone ==
  ASSUME NEW es \in Seq(EnvelopeType), \A n \in DOMAIN es : es[n].counts = NoCounts,
         NEW ko \in Keys \X Outcome
  PROVE  HeadCount(es, ko) = 0
<1>1. CASE es = <<>>
  BY <1>1 DEF HeadCount
<1>2. CASE es # <<>>
  <2>1. Head(es) = es[1] /\ 1 \in DOMAIN es  BY <1>2
  <2> QED  BY <1>2, <2>1, NoCount DEF HeadCount
<1> QED  BY <1>1, <1>2

LEMMA ActorsFinite == IsFiniteSet(Actors)
BY ThreadsAssumption, FS_AddElement DEF Actors

\* A step of actor a changes what a carries only.
LEMMA CarryChange ==
  ASSUME TypeOK, TypeOK', NEW a \in Actors, \A b \in Actors : b # a => out'[b] = out[b],
         NEW ko \in Keys \X Outcome
  PROVE  /\ CountsInHand(ko)' + HeadCount(out[a], ko) = CountsInHand(ko) + HeadCount(out'[a], ko)
         /\ CountsInHand(ko) \in Nat /\ CountsInHand(ko)' \in Nat
         /\ HeadCount(out[a], ko) \in Nat /\ HeadCount(out'[a], ko) \in Nat
<1> DEFINE f == [b \in Actors |-> HeadCount(out[b], ko)]
           g == [b \in Actors |-> HeadCount(out'[b], ko)]
<1>1. /\ \A b \in Actors : f[b] \in Nat
      /\ \A b \in Actors : g[b] \in Nat
  <2>1. \A b \in Actors : out[b] \in Seq(EnvelopeType) /\ out'[b] \in Seq(EnvelopeType)
    BY DEF TypeOK
  <2> QED  BY <2>1, HeadCountNat
<1>2. \A b \in Actors \ {a} : f[b] = g[b]  OBVIOUS
<1>3. CountsInHand(ko) = SumFunctionOnSet(f, Actors)  BY DEF CountsInHand, SumFunction
<1>4. CountsInHand(ko)' = SumFunctionOnSet(g, Actors)  BY DEF CountsInHand, SumFunction
<1>5. f[a] = HeadCount(out[a], ko) /\ g[a] = HeadCount(out'[a], ko)  OBVIOUS
<1> HIDE DEF f, g
<1>6. /\ SumFunctionOnSet(g, Actors) + f[a] = SumFunctionOnSet(f, Actors) + g[a]
      /\ SumFunctionOnSet(f, Actors) \in Nat /\ SumFunctionOnSet(g, Actors) \in Nat
  BY <1>1, <1>2, ActorsFinite, SumChange
<1> QED  BY <1>1, <1>3, <1>4, <1>5, <1>6

\* The counts add up (the second half of NoUpdateLost).
AddUp == \A ko \in Keys \X Outcome :
  aggregated[ko] + CountsInHand(ko) + counted[ko] + lostCounts[ko] = Cardinality(CountedFor(ko))

\* A step of a keeps that when it moves counts without a session being counted.
LEMMA AddUpStep ==
  ASSUME TypeOK, TypeOK', AddUp, NEW a \in Actors, \A b \in Actors : b # a => out'[b] = out[b],
         \A ko \in Keys \X Outcome :
           /\ CountedFor(ko)' = CountedFor(ko)
           /\ aggregated'[ko] + HeadCount(out'[a], ko) + counted'[ko] + lostCounts'[ko]
                = aggregated[ko] + HeadCount(out[a], ko) + counted[ko] + lostCounts[ko]
  PROVE  AddUp'
<1> SUFFICES ASSUME NEW ko \in Keys \X Outcome
             PROVE  aggregated'[ko] + CountsInHand(ko)' + counted'[ko] + lostCounts'[ko]
                      = Cardinality(CountedFor(ko)')
  BY DEF AddUp
<1> DEFINE h == HeadCount(out[a], ko)
           h2 == HeadCount(out'[a], ko)
           k == CountsInHand(ko)
           k2 == CountsInHand(ko)'
           g == aggregated[ko]
           g2 == aggregated'[ko]
           c == counted[ko]
           c2 == counted'[ko]
           l == lostCounts[ko]
           l2 == lostCounts'[ko]
           n == Cardinality(CountedFor(ko))
           n2 == Cardinality(CountedFor(ko)')
<1>1. /\ g \in Nat /\ g2 \in Nat /\ c \in Nat /\ c2 \in Nat /\ l \in Nat /\ l2 \in Nat
  BY CountNat DEF TypeOK
<1>2. k2 + h = k + h2 /\ k \in Nat /\ k2 \in Nat /\ h \in Nat /\ h2 \in Nat
  BY CarryChange
<1>3. n2 = n /\ g2 + h2 + c2 + l2 = g + h + c + l /\ g + k + c + l = n
  BY DEF AddUp
<1> HIDE DEF h, h2, k, k2, g, g2, c, c2, l, l2, n, n2
<1>4. g2 + k2 + c2 + l2 = n2  BY <1>1, <1>2, <1>3
<1> QED  BY <1>4 DEF g2, k2, c2, l2, n2

\* ... in particular when it leaves the counts and what is under way alone.
LEMMA AddUpStays ==
  ASSUME TypeOK, AddUp, UNCHANGED <<out, aggregated, counted, lostCounts>>,
         \A ko \in Keys \X Outcome : CountedFor(ko)' = CountedFor(ko)
  PROVE  AddUp'
<1> SUFFICES ASSUME NEW ko \in Keys \X Outcome
             PROVE  aggregated'[ko] + CountsInHand(ko)' + counted'[ko] + lostCounts'[ko]
                      = Cardinality(CountedFor(ko)')
  BY DEF AddUp
<1>1. CountsInHand(ko)' = CountsInHand(ko)  BY DEF CountsInHand
<1>2. aggregated[ko] + CountsInHand(ko) + counted[ko] + lostCounts[ko] = Cardinality(CountedFor(ko))
  BY DEF AddUp
<1> QED  BY <1>1, <1>2

\* The first half of NoUpdateLost, place by place.
Somewhere(u) ==
  \/ u \in UpdatesIn(individual) \/ u \in sent \/ u \in lost
  \/ \E t \in Threads : update[t] = u
  \/ \E a \in Actors : \E n \in DOMAIN out[a] : u \in UpdatesIn(out[a][n].updates)
NoneLost == \A u \in made : ~IsCounted(u) => Somewhere(u)

LEMMA NoUpdateLostParts ==
  ASSUME TypeOK
  PROVE  NoUpdateLost <=> NoneLost /\ AddUp
<1>1. ASSUME NEW u \in made
      PROVE  u \in UpdatesIn(individual) \cup InHand \cup sent \cup lost <=> Somewhere(u)
  <2> DEFINE Held == UNION { UNION { UpdatesIn(out[a][n].updates) : n \in DOMAIN out[a] } : a \in Actors }
             Own == { update[t] : t \in { v \in Threads : update[v] # None } }
  <2>1. u \in Update /\ u # None  BY UpdateAssumption DEF TypeOK
  <2>2. u \in Own <=> \E t \in Threads : update[t] = u  BY <2>1
  <2>3. u \in Held <=> \E a \in Actors : \E n \in DOMAIN out[a] : u \in UpdatesIn(out[a][n].updates)
    <3>1. ASSUME NEW a \in Actors
          PROVE  u \in UNION { UpdatesIn(out[a][n].updates) : n \in DOMAIN out[a] }
                   <=> \E n \in DOMAIN out[a] : u \in UpdatesIn(out[a][n].updates)
      OBVIOUS
    <3>2. u \in Held <=> \E a \in Actors : u \in UNION { UpdatesIn(out[a][n].updates) : n \in DOMAIN out[a] }
      BY ZenonT(120)
    <3> QED  BY <3>1, <3>2
  <2>4. InHand = Held \cup Own  BY DEF InHand
  <2> HIDE DEF Held, Own
  <2> QED  BY <2>2, <2>3, <2>4 DEF Somewhere
<1>2. NoUpdateLost <=> /\ \A u \in made : ~IsCounted(u) =>
                              u \in UpdatesIn(individual) \cup InHand \cup sent \cup lost
                       /\ AddUp
  BY DEF NoUpdateLost, AddUp
<1>3. (\A u \in made : ~IsCounted(u) => u \in UpdatesIn(individual) \cup InHand \cup sent \cup lost)
        <=> NoneLost
  BY <1>1 DEF NoneLost
<1> QED  BY <1>2, <1>3

-----------------------------------------------------------------------------
(* The steps.                                                              *)

Kept == Tracked /\ NoneLost /\ AddUp

\* What Tracked says of the updates that the threads hold themselves.
OwnTracked ==
  \A t \in Threads : update[t] # None =>
    /\ update[t] \in made /\ update[t].status # "Ok"
    /\ IsCounted(update[t]) => update[t] \notin lost
    /\ \A u \in Threads : update[u] = update[t] => u = t

\* A step of a keeps Tracked when its new envelopes and the new queue do.
LEMMA TrackedStep ==
  ASSUME TypeOK, TypeOK', Tracked, NEW a \in Actors, \A b \in Actors : b # a => out'[b] = out[b],
         Carries(out'[a], made'), mode' = mode, made \subseteq made',
         IsFiniteSet(made'), lost' \subseteq made', OwnTracked',
         \A u \in UpdatesIn(individual') : u \in made' /\ ~IsCounted(u)
  PROVE  Tracked'
<1>1. \A u : IsCounted(u)' <=> IsCounted(u)  BY DEF IsCounted
<1>2. ASSUME NEW b \in Actors
      PROVE  \A n \in DOMAIN out'[b] :
               /\ \A u \in UpdatesIn(out'[b][n].updates) : u \in made' /\ ~IsCounted(u)
               /\ n # 1 => out'[b][n].counts = NoCounts
  <2>1. CASE b = a
    BY <2>1 DEF Carries
  <2>2. CASE b # a
    <3>1. out'[b] = out[b]  BY <2>2
    <3>2. \A n \in DOMAIN out[b] :
            /\ \A u \in UpdatesIn(out[b][n].updates) : u \in made /\ ~IsCounted(u)
            /\ n # 1 => out[b][n].counts = NoCounts
      BY DEF Tracked
    <3> QED  BY <3>1, <3>2
  <2> QED  BY <2>1, <2>2
<1>3. \A b \in Actors : \A n \in DOMAIN out'[b] :
        /\ \A u \in UpdatesIn(out'[b][n].updates) : u \in made' /\ ~IsCounted(u)'
        /\ n # 1 => out'[b][n].counts = NoCounts
  BY <1>1, <1>2
<1>4. \A u \in UpdatesIn(individual') : u \in made' /\ ~IsCounted(u)'  BY <1>1
<1> QED  BY <1>3, <1>4 DEF Tracked, OwnTracked

\* A step that takes no update back keeps them when it loses nobody else's.
LEMMA OwnStep ==
  ASSUME TypeOK, Tracked, mode' = mode, made \subseteq made',
         \A t \in Threads : update'[t] # None => /\ update'[t] = update[t]
                                                 /\ IsCounted(update[t]) => update[t] \notin lost' \ lost
  PROVE  OwnTracked'
BY DEF OwnTracked, Tracked, IsCounted

\* The sessions that were counted stay the ones, key by key.
Books(u) == u \in made /\ IsCounted(u) /\ u \notin lost /\ \A t \in Threads : u # update[t]

LEMMA CountedSame ==
  ASSUME mode' = mode, \A u : Books(u)' <=> Books(u)
  PROVE  \A ko \in Keys \X Outcome : CountedFor(ko)' = CountedFor(ko)
<1>1. ASSUME NEW ko
      PROVE  /\ CountedFor(ko) = { u \in made : Books(u) /\ <<KeyOf[u.of], OutcomeOf(u)>> = ko }
             /\ CountedFor(ko)' = { u \in made' : Books(u)' /\ <<KeyOf[u.of], OutcomeOf(u)>> = ko }
  BY DEF CountedFor, Books
<1>2. \A u : (Books(u) => u \in made) /\ (Books(u)' => u \in made')  BY DEF Books
<1>3. ASSUME NEW ko \in Keys \X Outcome PROVE CountedFor(ko)' = CountedFor(ko)
  BY <1>1, <1>2
<1> QED  BY <1>3

\* A thread that is not handing over has nothing to.
LEMMA NothingOut ==
  ASSUME TypeOK, NEW a \in Actors, pc[a] \notin Sending
  PROVE  out[a] = <<>> /\ ~stuck[a]
<1>1. ~stuck[a]  BY DEF TypeOK, Sending
<1> QED  BY <1>1 DEF TypeOK

LEMMA NoHeadCount == \A ko : HeadCount(<<>>, ko) = 0
BY DEF HeadCount

\* Closing, capturing and the like leave updates and counts where they are.
LEMMA NothingMoves ==
  ASSUME TypeOK, TypeOK', Kept,
         UNCHANGED <<mode, individual, aggregated, update, out, made, transport>>
  PROVE  Kept'
<1> USE DEF Kept
<1>1. Tracked'  BY DEF Tracked, IsCounted, transport
<1>2. NoneLost'  BY DEF NoneLost, Somewhere, IsCounted, transport
<1>3. \A u : Books(u)' <=> Books(u)  BY DEF Books, IsCounted, transport
<1>4. AddUp'
  <2>1. \A ko \in Keys \X Outcome : CountedFor(ko)' = CountedFor(ko)  BY <1>3, CountedSame
  <2> QED  BY <2>1, AddUpStays DEF transport
<1> QED  BY <1>1, <1>2, <1>4

\* The last update of a dropped session goes into the hands of the thread.
LEMMA DropKept ==
  ASSUME TypeOK, TypeOK', Kept, NEW t \in Threads, update[t] = None, Dropped(t),
         UNCHANGED <<mode, individual, aggregated, out, transport>>
  PROVE  Kept'
<1>1. CASE UNCHANGED <<update, made>>
  BY <1>1, NothingMoves
<1>2. ASSUME NEW u \in Update, u \notin made, u.status # "Ok",
             update' = [update EXCEPT ![t] = u], made' = made \cup {u}
      PROVE  Kept'
  <2>0. TypeOK /\ Tracked /\ NoneLost /\ AddUp  BY DEF Kept
  <2>1. u # None /\ update'[t] = u /\ \A v \in Threads : v # t => update'[v] = update[v]
    BY <1>2, UpdateAssumption DEF TypeOK
  <2>2. lost' = lost /\ lost \subseteq made /\ u \notin lost
    BY <1>2, <2>0 DEF Tracked, transport
  <2>3. \A v \in Threads : update[v] # None =>
          /\ update[v] \in made /\ update[v].status # "Ok"
          /\ IsCounted(update[v]) => update[v] \notin lost
          /\ \A w \in Threads : update[w] = update[v] => w = v
    BY <2>0 DEF Tracked
  <2>4. OwnTracked'
    <3> SUFFICES ASSUME NEW v \in Threads, update'[v] # None
                 PROVE  /\ update'[v] \in made' /\ update'[v].status # "Ok"
                        /\ IsCounted(update[v])' => update'[v] \notin lost'
                        /\ \A w \in Threads : update'[w] = update'[v] => w = v
      BY DEF OwnTracked
    <3>1. \A w \in Threads : w # t => update'[w] # u
      BY <1>2, <2>1, <2>3
    <3>2. CASE v = t
      BY <1>2, <2>1, <2>2, <3>1, <3>2
    <3>3. CASE v # t
      BY <1>2, <2>1, <2>2, <2>3, <3>1, <3>3 DEF IsCounted
    <3> QED  BY <3>2, <3>3
  <2>5. Tracked'
    <3>1. IsFiniteSet(made')  BY <1>2, <2>0, FS_AddElement DEF Tracked
    <3>2. \A n \in DOMAIN out[Worker] :
             /\ \A v \in UpdatesIn(out[Worker][n].updates) : v \in made' /\ ~IsCounted(v)
             /\ n # 1 => out[Worker][n].counts = NoCounts
      BY <1>2, <2>0 DEF Tracked, Actors
    <3>3. Worker \in Actors /\ Carries(out'[Worker], made')
      BY <3>2 DEF Carries, Actors
    <3>4. \A v \in UpdatesIn(individual') : v \in made' /\ ~IsCounted(v)
      BY <1>2, <2>0 DEF Tracked
    <3>5. lost' \subseteq made' /\ made \subseteq made'  BY <1>2, <2>2
    <3> QED  BY <2>0, <2>4, <3>1, <3>3, <3>4, <3>5, TrackedStep
  <2>6. NoneLost'
    <3> SUFFICES ASSUME NEW v \in made', ~IsCounted(v)' PROVE Somewhere(v)'
      BY DEF NoneLost
    <3>1. CASE v = u
      BY <2>1, <3>1 DEF Somewhere
    <3>2. CASE v \in made
      <4>1. Somewhere(v)  BY <2>0, <3>2 DEF NoneLost, IsCounted
      <4>2. v # None  BY <3>2, UpdateAssumption DEF TypeOK
      <4>3. CASE \E w \in Threads : update[w] = v
        BY <2>1, <4>2, <4>3 DEF Somewhere
      <4>4. CASE ~ \E w \in Threads : update[w] = v
        BY <4>1, <4>4 DEF Somewhere, transport
      <4> QED  BY <4>3, <4>4
    <3> QED  BY <1>2, <3>1, <3>2
  <2>7. \A v : Books(v)' <=> Books(v)
    <3> TAKE v
    <3>1. CASE v = u
      BY <1>2, <2>1, <3>1 DEF Books
    <3>2. CASE v # u
      <4>1. CASE v \in made
        <5>1. v # None  BY <4>1, UpdateAssumption DEF TypeOK
        <5>2. (\A w \in Threads : v # update'[w]) <=> (\A w \in Threads : v # update[w])
          BY <2>1, <3>2, <5>1
        <5> QED  BY <1>2, <2>2, <3>2, <4>1, <5>2 DEF Books, IsCounted
      <4>2. CASE v \notin made
        BY <1>2, <3>2, <4>2 DEF Books
      <4> QED  BY <4>1, <4>2
    <3> QED  BY <3>1, <3>2
  <2>8. AddUp'
    <3>1. \A ko \in Keys \X Outcome : CountedFor(ko)' = CountedFor(ko)  BY <2>7, CountedSame
    <3> QED  BY <2>0, <3>1, AddUpStays DEF transport
  <2> QED  BY <2>5, <2>6, <2>8 DEF Kept
<1> QED  BY <1>1, <1>2 DEF Dropped

\* A thread takes the queue, with the update in its hands if it has one.
LEMMA TakeKept ==
  ASSUME TypeOK, TypeOK', Kept, NEW a \in Actors, pc[a] \notin Sending,
         NEW us \in Seq(Update), TakeQueue(a, us, aggregated),
         UpdatesIn(individual) \subseteq UpdatesIn(us),
         \A u \in UpdatesIn(us) : u \in made /\ ~IsCounted(u),
         \A t \in Threads : update'[t] # update[t] => update'[t] = None /\ update[t] \in UpdatesIn(us),
         UNCHANGED <<mode, made, transport>>
  PROVE  Kept'
<1>0. Tracked /\ NoneLost /\ AddUp /\ out[a] = <<>> /\ ~stuck[a]  BY NothingOut DEF Kept
<1> DEFINE es == Envelopes(us, aggregated)
<1>1. aggregated \in Counts  BY DEF TypeOK
<1>2. out'[a] = es /\ \A b \in Actors : b # a => out'[b] = out[b]
  BY <1>0, TakeType
<1>3. es \in Seq(EnvelopeType)
      /\ \A u \in UpdatesIn(us) : \E n \in 1 .. Len(es) : u \in UpdatesIn(es[n].updates)
  BY <1>1, EnvelopesProperties
<1>4. Carries(es, made)  BY <1>1, TakenCarries
<1>5. \A ko \in Keys \X Outcome : HeadCount(es, ko) = aggregated[ko]
  BY <1>1, HeadCountTaken
<1>6. individual' = <<>> /\ aggregated' = NoCounts  BY DEF TakeQueue
<1> HIDE DEF es
<1>7. Tracked'
  <2>1. OwnTracked'  BY <1>0, OwnStep DEF transport
  <2>2. Carries(out'[a], made')  BY <1>2, <1>4
  <2>3. \A u \in UpdatesIn(individual') : u \in made' /\ ~IsCounted(u)
    BY <1>6 DEF UpdatesIn
  <2>4. IsFiniteSet(made') /\ lost' \subseteq made'  BY <1>0 DEF Tracked, transport
  <2> QED  BY <1>0, <1>2, <2>1, <2>2, <2>3, <2>4, TrackedStep
<1>8. \A u \in UpdatesIn(us) : Somewhere(u)'
  <2> TAKE u \in UpdatesIn(us)
  <2>1. DOMAIN es = 1 .. Len(es)  BY <1>3
  <2>2. \E n \in DOMAIN out'[a] : u \in UpdatesIn(out'[a][n].updates)  BY <1>2, <1>3, <2>1
  <2> QED  BY <2>2 DEF Somewhere
<1>9. NoneLost'
  <2> SUFFICES ASSUME NEW v \in made, ~IsCounted(v), v \notin UpdatesIn(us) PROVE Somewhere(v)'
    BY <1>8 DEF NoneLost, IsCounted
  <2>1. Somewhere(v)  BY <1>0 DEF NoneLost
  <2>2. v \notin UpdatesIn(individual)  OBVIOUS
  <2>3. CASE v \in sent \/ v \in lost
    BY <2>3 DEF Somewhere, transport
  <2>4. ASSUME NEW t \in Threads, update[t] = v PROVE Somewhere(v)'
    <3>1. update'[t] = v  BY <2>4
    <3> QED  BY <3>1 DEF Somewhere
  <2>5. ASSUME NEW b \in Actors, NEW n \in DOMAIN out[b], v \in UpdatesIn(out[b][n].updates)
        PROVE  Somewhere(v)'
    <3>1. b # a  BY <1>0, <2>5
    <3>2. out'[b] = out[b]  BY <1>2, <3>1
    <3>3. \E m \in DOMAIN out'[b] : v \in UpdatesIn(out'[b][m].updates)  BY <2>5, <3>2
    <3> QED  BY <3>3 DEF Somewhere
  <2> QED  BY <2>1, <2>2, <2>3, <2>4, <2>5 DEF Somewhere
<1>10. \A v : Books(v)' <=> Books(v)
  <2> TAKE v
  <2>1. CASE v \in made /\ IsCounted(v)
    <3>1. v # None /\ v \notin UpdatesIn(us)  BY <2>1, UpdateAssumption DEF TypeOK
    <3>2. (\A w \in Threads : v # update'[w]) <=> (\A w \in Threads : v # update[w])
      BY <3>1
    <3> QED  BY <2>1, <3>2 DEF Books, IsCounted, transport
  <2>2. CASE ~(v \in made /\ IsCounted(v))
    BY <2>2 DEF Books, IsCounted
  <2> QED  BY <2>1, <2>2
<1>11. AddUp'
  <2>1. \A ko \in Keys \X Outcome : CountedFor(ko)' = CountedFor(ko)  BY <1>10, CountedSame
  <2>2. ASSUME NEW ko \in Keys \X Outcome
        PROVE  aggregated'[ko] + HeadCount(out'[a], ko) + counted'[ko] + lostCounts'[ko]
                 = aggregated[ko] + HeadCount(out[a], ko) + counted[ko] + lostCounts[ko]
    <3>1. aggregated'[ko] = 0 /\ HeadCount(out[a], ko) = 0  BY <1>0, <1>6, NoCount, NoHeadCount
    <3>2. HeadCount(out'[a], ko) = aggregated[ko]  BY <1>2, <1>5
    <3>3. counted' = counted /\ lostCounts' = lostCounts  BY DEF transport
    <3>4. aggregated[ko] \in Nat /\ counted[ko] \in Nat /\ lostCounts[ko] \in Nat
      BY CountNat DEF TypeOK
    <3> QED  BY <3>1, <3>2, <3>3, <3>4
  <2> QED  BY <1>0, <1>2, <2>1, <2>2, AddUpStep
<1> QED  BY <1>7, <1>9, <1>11 DEF Kept

\* The transport takes an envelope, or drops it.
LEMMA SendKept ==
  ASSUME TypeOK, TypeOK', Kept, NEW a \in Actors, TrySend(a)
  PROVE  Kept'
<1>0. Tracked /\ NoneLost /\ AddUp /\ pc[a] \in Sending /\ ~stuck[a]  BY DEF Kept, TrySend
<1> DEFINE hd == Head(out[a])
           ts == Tail(out[a])
           hs == UpdatesIn(hd.updates)
<1>1. /\ out[a] \in Seq(EnvelopeType) /\ out[a] # <<>> /\ hd = out[a][1]
      /\ ts \in Seq(EnvelopeType) /\ Len(out[a]) \in Nat \ {0} /\ Len(ts) = Len(out[a]) - 1
      /\ \A n \in 1 .. Len(out[a]) - 1 : ts[n] = out[a][n + 1]
      /\ hd.counts \in Counts
  BY <1>0, HeadOut
<1>2. out'[a] = ts /\ \A b \in Actors : b # a => out'[b] = out[b]
  BY DEF TrySend, TypeOK
<1>3. /\ Carries(ts, made)
      /\ \A u \in hs : u \in made /\ ~IsCounted(u)
      /\ \A n \in DOMAIN ts : ts[n].counts = NoCounts
  <2>1. Carries(out[a], made)  BY <1>0 DEF Tracked, Carries
  <2> QED  BY <1>0, <2>1, TailCarries
<1>4. \A ko \in Keys \X Outcome : HeadCount(ts, ko) = 0 /\ HeadCount(out[a], ko) = hd.counts[ko]
  <2>1. \A ko \in Keys \X Outcome : HeadCount(ts, ko) = 0  BY <1>1, <1>3, HeadCountNone
  <2> QED  BY <1>1, <2>1 DEF HeadCount
<1>5. \/ /\ sent' = sent \cup hs /\ counted' = Plus(counted, hd.counts)
         /\ lost' = lost /\ lostCounts' = lostCounts
      \/ /\ lost' = lost \cup hs /\ lostCounts' = Plus(lostCounts, hd.counts)
         /\ sent' = sent /\ counted' = counted
  BY DEF TrySend
<1>6. UNCHANGED <<mode, individual, aggregated, update, made>>
  BY DEF TrySend, client, inputs
<1>7. \A v \in made : (\E n \in DOMAIN out[a] : v \in UpdatesIn(out[a][n].updates)) =>
        v \in hs \/ \E n \in DOMAIN ts : v \in UpdatesIn(ts[n].updates)
  <2> TAKE v \in made
  <2> SUFFICES ASSUME NEW n \in DOMAIN out[a], v \in UpdatesIn(out[a][n].updates)
               PROVE  v \in hs \/ \E m \in DOMAIN ts : v \in UpdatesIn(ts[m].updates)
    OBVIOUS
  <2> HIDE DEF hd, ts
  <2>1. n \in 1 .. Len(out[a]) /\ DOMAIN ts = 1 .. Len(out[a]) - 1  BY <1>1
  <2>2. CASE n = 1
    BY <1>1, <2>2
  <2>3. CASE n # 1
    <3>1. n - 1 \in 1 .. Len(out[a]) - 1 /\ (n - 1) + 1 = n  BY <1>1, <2>1, <2>3
    <3>2. ts[n - 1] = out[a][n]  BY <1>1, <3>1
    <3> QED  BY <2>1, <3>1, <3>2
  <2> QED  BY <2>2, <2>3
<1> HIDE DEF hd, ts, hs
<1>8. Tracked'
  <2>1. lost' \subseteq made' /\ \A u \in lost' \ lost : ~IsCounted(u)
    BY <1>0, <1>3, <1>5, <1>6 DEF Tracked
  <2>2. OwnTracked'  BY <1>0, <1>6, <2>1, OwnStep
  <2>3. Carries(out'[a], made')  BY <1>2, <1>3, <1>6
  <2>4. IsFiniteSet(made') /\ \A u \in UpdatesIn(individual') : u \in made' /\ ~IsCounted(u)
    BY <1>0, <1>6 DEF Tracked
  <2> QED  BY <1>0, <1>2, <1>6, <2>1, <2>2, <2>3, <2>4, TrackedStep
<1>9. NoneLost'
  <2> SUFFICES ASSUME NEW v \in made, ~IsCounted(v) PROVE Somewhere(v)'
    BY <1>6 DEF NoneLost, IsCounted
  <2>1. Somewhere(v)  BY <1>0 DEF NoneLost
  <2>2. v \in UpdatesIn(individual) \/ v \in sent \/ v \in lost \/ v \in hs
          \/ (\E t \in Threads : update[t] = v) => Somewhere(v)'
    BY <1>5, <1>6 DEF Somewhere
  <2>3. ASSUME NEW b \in Actors, NEW n \in DOMAIN out[b], v \in UpdatesIn(out[b][n].updates)
        PROVE  Somewhere(v)'
    <3>1. CASE b # a
      <4>1. out'[b] = out[b]  BY <1>2, <3>1
      <4>2. \E m \in DOMAIN out'[b] : v \in UpdatesIn(out'[b][m].updates)  BY <2>3, <4>1
      <4> QED  BY <4>2 DEF Somewhere
    <3>2. CASE b = a
      <4>1. v \in hs \/ \E m \in DOMAIN out'[a] : v \in UpdatesIn(out'[a][m].updates)
        BY <1>2, <1>7, <2>3, <3>2
      <4>2. CASE v \in hs
        BY <2>2, <4>2
      <4>3. CASE \E m \in DOMAIN out'[a] : v \in UpdatesIn(out'[a][m].updates)
        BY <4>3 DEF Somewhere
      <4> QED  BY <4>1, <4>2, <4>3
    <3> QED  BY <3>1, <3>2
  <2> QED  BY <2>1, <2>2, <2>3 DEF Somewhere
<1>10. \A v : Books(v)' <=> Books(v)
  BY <1>3, <1>5, <1>6 DEF Books, IsCounted
<1>11. AddUp'
  <2>1. \A ko \in Keys \X Outcome : CountedFor(ko)' = CountedFor(ko)  BY <1>6, <1>10, CountedSame
  <2>2. ASSUME NEW ko \in Keys \X Outcome
        PROVE  aggregated'[ko] + HeadCount(out'[a], ko) + counted'[ko] + lostCounts'[ko]
                 = aggregated[ko] + HeadCount(out[a], ko) + counted[ko] + lostCounts[ko]
    <3>1. HeadCount(out'[a], ko) = 0 /\ HeadCount(out[a], ko) = hd.counts[ko]  BY <1>2, <1>4
    <3>2. aggregated' = aggregated  BY <1>6
    <3>3. /\ aggregated[ko] \in Nat /\ counted[ko] \in Nat /\ lostCounts[ko] \in Nat
          /\ hd.counts[ko] \in Nat
      BY <1>1, CountNat DEF TypeOK
    <3>4. /\ Plus(counted, hd.counts)[ko] = counted[ko] + hd.counts[ko]
          /\ Plus(lostCounts, hd.counts)[ko] = lostCounts[ko] + hd.counts[ko]
      BY <1>1, PlusCount DEF TypeOK
    <3> QED  BY <1>5, <3>1, <3>2, <3>3, <3>4
  <2> QED  BY <1>0, <1>2, <2>1, <2>2, AddUpStep
<1> QED  BY <1>8, <1>9, <1>11 DEF Kept

\* An event takes the state of its session along.
LEMMA ItemKept ==
  ASSUME TypeOK, TypeOK', Kept, NEW t \in Threads, CreateEnvelopeItem(t)
  PROVE  Kept'
<1>0. Tracked /\ NoneLost /\ AddUp /\ t \in Actors /\ out[t] = <<>>
  BY NothingOut DEF Kept, CreateEnvelopeItem, Actors, Sending
<1>1. UNCHANGED <<mode, individual, aggregated, update, transport>>
  BY DEF CreateEnvelopeItem, client, inputs
<1>2. PICK e, ms : /\ out' = [out EXCEPT ![t] = <<e>>] /\ made' = made \cup ms
                   /\ e.counts = NoCounts /\ UpdatesIn(e.updates) = ms /\ IsFiniteSet(ms)
                   /\ ms # {} => mode = "Application"
  <2>1. CASE mode = "Application" /\ LiveSession(t) /\ cell[scope[t]].dirty
    <3> DEFINE u == UpdateOf(scope[t], cell[scope[t]])
    <3>1. /\ out' = [out EXCEPT ![t] = <<[updates |-> <<u>>, counts |-> NoCounts]>>]
          /\ made' = made \cup {u}
      BY <2>1 DEF CreateEnvelopeItem
    <3> HIDE DEF u
    <3>2. UpdatesIn(<<u>>) = {u}  BY DEF UpdatesIn
    <3>3. IsFiniteSet({u})  BY FS_Singleton
    <3> DEFINE x == [updates |-> <<u>>, counts |-> NoCounts]
    <3>4. x.counts = NoCounts /\ UpdatesIn(x.updates) = {u}  BY <3>2
    <3>5. out' = [out EXCEPT ![t] = <<x>>]  BY <3>1
    <3> HIDE DEF x
    <3> QED  BY <2>1, <3>1, <3>3, <3>4, <3>5
  <2>2. CASE ~(mode = "Application" /\ LiveSession(t) /\ cell[scope[t]].dirty)
    <3>1. out' = [out EXCEPT ![t] = <<EventOnly>>] /\ made' = made \cup {}
      BY <2>2 DEF CreateEnvelopeItem
    <3>2. EventOnly.counts = NoCounts /\ UpdatesIn(EventOnly.updates) = {}
      BY DEF EventOnly, UpdatesIn
    <3> QED  BY <3>1, <3>2, FS_EmptySet
  <2> QED  BY <2>1, <2>2
<1>3. out'[t] = <<e>> /\ \A b \in Actors : b # t => out'[b] = out[b]
  BY <1>0, <1>2 DEF TypeOK
<1>4. DOMAIN <<e>> = {1} /\ <<e>>[1] = e /\ Head(<<e>>) = e /\ <<e>> # <<>>  OBVIOUS
<1>5. \A u \in ms : ~IsCounted(u)  BY <1>2 DEF IsCounted
<1>6. Tracked'
  <2>1. OwnTracked'  BY <1>0, <1>1, <1>2, OwnStep DEF transport
  <2>2. Carries(out'[t], made')
    <3>1. Carries(<<e>>, made')  BY <1>2, <1>4, <1>5 DEF Carries
    <3> QED  BY <1>3, <3>1
  <2>3. IsFiniteSet(made')
    <3>1. IsFiniteSet(made)  BY <1>0 DEF Tracked
    <3> QED  BY <1>2, <3>1, FS_Union
  <2>4. lost' \subseteq made' /\ made \subseteq made'
        /\ \A u \in UpdatesIn(individual') : u \in made' /\ ~IsCounted(u)
    BY <1>0, <1>1, <1>2 DEF Tracked, transport
  <2> QED  BY <1>0, <1>1, <1>3, <2>1, <2>2, <2>3, <2>4, TrackedStep
<1>7. NoneLost'
  <2> SUFFICES ASSUME NEW v \in made', ~IsCounted(v) PROVE Somewhere(v)'
    BY <1>1 DEF NoneLost, IsCounted
  <2>1. CASE v \in ms
    <3>1. \E n \in DOMAIN out'[t] : v \in UpdatesIn(out'[t][n].updates)
      BY <1>2, <1>3, <1>4, <2>1
    <3> QED  BY <1>0, <3>1 DEF Somewhere
  <2>2. CASE v \in made
    <3>1. Somewhere(v)  BY <1>0, <2>2 DEF NoneLost
    <3>2. CASE v \in UpdatesIn(individual) \/ v \in sent \/ v \in lost
               \/ \E w \in Threads : update[w] = v
      BY <1>1, <3>2 DEF Somewhere, transport
    <3>3. ASSUME NEW b \in Actors, NEW n \in DOMAIN out[b], v \in UpdatesIn(out[b][n].updates)
          PROVE  Somewhere(v)'
      <4>1. b # t  BY <1>0, <3>3
      <4>2. out'[b] = out[b]  BY <1>3, <4>1
      <4>3. \E m \in DOMAIN out'[b] : v \in UpdatesIn(out'[b][m].updates)  BY <3>3, <4>2
      <4> QED  BY <4>3 DEF Somewhere
    <3> QED  BY <3>1, <3>2, <3>3 DEF Somewhere
  <2> QED  BY <1>2, <2>1, <2>2
<1>8. \A v : Books(v)' <=> Books(v)
  BY <1>1, <1>2, <1>5 DEF Books, IsCounted, transport
<1>9. AddUp'
  <2>1. \A ko \in Keys \X Outcome : CountedFor(ko)' = CountedFor(ko)  BY <1>1, <1>8, CountedSame
  <2>2. ASSUME NEW ko \in Keys \X Outcome
        PROVE  aggregated'[ko] + HeadCount(out'[t], ko) + counted'[ko] + lostCounts'[ko]
                 = aggregated[ko] + HeadCount(out[t], ko) + counted[ko] + lostCounts[ko]
    <3>1. HeadCount(out'[t], ko) = 0 /\ HeadCount(out[t], ko) = 0
      <4>1. HeadCount(<<e>>, ko) = 0  BY <1>2, <1>4, NoCount DEF HeadCount
      <4> QED  BY <1>0, <1>3, <4>1, NoHeadCount
    <3> QED  BY <1>1, <3>1 DEF transport
  <2> QED  BY <1>0, <1>3, <2>1, <2>2, AddUpStep
<1> QED  BY <1>6, <1>7, <1>9 DEF Kept

LEMMA OutcomeType ==
  ASSUME NEW u \in Update, u.status # "Ok"
  PROVE  OutcomeOf(u) \in Outcome
<1>1. u.status \in {"Exited", "Crashed", "Abnormal"} /\ u.errors \in Nat
  BY DEF Update, Status
<1>2. u.errors > 0 \/ u.errors = 0  BY <1>1
<1>3. CASE u.status = "Exited" /\ u.errors > 0
  BY <1>1, <1>3 DEF OutcomeOf, Outcome
<1>4. CASE u.status = "Exited" /\ u.errors = 0
  BY <1>1, <1>4 DEF OutcomeOf, Outcome
<1>5. CASE u.status = "Crashed"
  BY <1>5 DEF OutcomeOf, Outcome
<1>6. CASE u.status = "Abnormal"
  BY <1>6 DEF OutcomeOf, Outcome
<1> QED  BY <1>1, <1>2, <1>3, <1>4, <1>5, <1>6

\* The update a thread holds is ignored, queued, sent or counted.
LEMMA EnqueueKept ==
  ASSUME TypeOK, TypeOK', Kept, NEW t \in Threads, Enqueue(t)
  PROVE  Kept'
<1>0. Tracked /\ NoneLost /\ AddUp /\ t \in Actors /\ pc[t] = "enqueue" /\ pc[t] \notin Sending
  BY DEF Kept, Enqueue, Actors, Sending
<1>1. PICK u \in Update : /\ u = update[t] /\ u # None /\ u \in made /\ u.status # "Ok"
                          /\ IsCounted(u) => u \notin lost
                          /\ \A v \in Threads : update[v] = u => v = t
  BY <1>0 DEF TypeOK, Tracked
<1> DEFINE us == Append(individual, u)
<1>2. update'[t] = None /\ \A v \in Threads : v # t => update'[v] = update[v]
  BY DEF Enqueue, TypeOK
<1>3. UNCHANGED <<mode, sent, counted, lostCounts, made>>
  BY DEF Enqueue, inputs
<1>4. individual \in Seq(Update)  BY DEF TypeOK
<1>5. us \in Seq(Update) /\ UpdatesIn(us) = UpdatesIn(individual) \cup {u}
  BY <1>1, <1>4, AppendFacts, UpdatesAppend
<1> HIDE DEF us
<1>6. ASSUME ~IsCounted(u) PROVE \A v \in UpdatesIn(us) : v \in made /\ ~IsCounted(v)
  BY <1>0, <1>1, <1>5, <1>6 DEF Tracked
<1>7. Worker \in Actors /\ \A v \in made : v # None
  BY UpdateAssumption DEF Actors, TypeOK
\* The cases in which no envelope is made.
<1>8. ASSUME out' = out, lost' \subseteq lost \cup {u},
             \A v \in UpdatesIn(individual') : v \in made /\ ~IsCounted(v)
      PROVE  Tracked'
  <2>1. OwnTracked'
    <3>1. ASSUME NEW v \in Threads, update'[v] # None
          PROVE  update'[v] = update[v] /\ update[v] \notin lost' \ lost
      BY <1>1, <1>2, <1>8, <3>1
    <3> QED  BY <1>0, <1>3, <3>1, OwnStep
  <2>2. Carries(out[Worker], made')  BY <1>0, <1>3, <1>7 DEF Tracked, Carries
  <2>3. Carries(out'[Worker], made')  BY <1>8, <2>2
  <2>4. IsFiniteSet(made') /\ lost' \subseteq made'
    BY <1>0, <1>1, <1>3, <1>8 DEF Tracked
  <2>5. \A v \in UpdatesIn(individual') : v \in made' /\ ~IsCounted(v)  BY <1>3, <1>8
  <2>6. \A b \in Actors : b # Worker => out'[b] = out[b]  BY <1>8
  <2> QED  BY <1>0, <1>3, <1>7, <2>1, <2>3, <2>4, <2>5, <2>6, TrackedStep
<1>9. ASSUME out' = out, UpdatesIn(individual) \subseteq UpdatesIn(individual'), lost \subseteq lost',
             ~IsCounted(u) => u \in UpdatesIn(individual') \cup lost'
      PROVE  NoneLost'
  <2> SUFFICES ASSUME NEW v \in made, ~IsCounted(v) PROVE Somewhere(v)'
    BY <1>3 DEF NoneLost, IsCounted
  <2>1. Somewhere(v)  BY <1>0 DEF NoneLost
  <2>2. CASE v = u
    BY <1>9, <2>2 DEF Somewhere
  <2>3. ASSUME NEW w \in Threads, update[w] = v, v # u PROVE Somewhere(v)'
    <3>1. update'[w] = v  BY <1>1, <1>2, <2>3
    <3> QED  BY <3>1 DEF Somewhere
  <2>4. CASE v \in UpdatesIn(individual) \/ v \in sent \/ v \in lost
             \/ \E b \in Actors : \E n \in DOMAIN out[b] : v \in UpdatesIn(out[b][n].updates)
    BY <1>3, <1>9, <2>4 DEF Somewhere
  <2> QED  BY <2>1, <2>2, <2>3, <2>4 DEF Somewhere
\* Only the update of t can begin to count.
<1>10. ASSUME lost \subseteq lost', lost' \subseteq lost \cup {u}
       PROVE  /\ \A v : v # u => (Books(v)' <=> Books(v))
              /\ ~Books(u)
              /\ Books(u)' <=> IsCounted(u) /\ u \notin lost'
  <2>1. ASSUME NEW v, v # u PROVE Books(v)' <=> Books(v)
    <3>1. CASE v \in made
      <4>1. (\A w \in Threads : v # update'[w]) <=> (\A w \in Threads : v # update[w])
        BY <1>1, <1>2, <1>7, <2>1, <3>1
      <4> QED  BY <1>3, <1>10, <2>1, <4>1 DEF Books, IsCounted
    <3>2. CASE v \notin made
      BY <1>3, <3>2 DEF Books
    <3> QED  BY <3>1, <3>2
  <2>2. ~Books(u)  BY <1>1 DEF Books
  <2>3. \A w \in Threads : u # update'[w]  BY <1>1, <1>2
  <2>4. Books(u)' <=> IsCounted(u) /\ u \notin lost'
    BY <1>1, <1>3, <2>3 DEF Books, IsCounted
  <2> QED  BY <2>1, <2>2, <2>4
<1>11. ASSUME UNCHANGED <<aggregated, out>>, lost \subseteq lost', lost' \subseteq lost \cup {u},
              IsCounted(u) => u \in lost'
       PROVE  AddUp'
  <2>1. ~Books(u)' /\ ~Books(u) /\ \A v : v # u => (Books(v)' <=> Books(v))  BY <1>10, <1>11
  <2>2. \A v : Books(v)' <=> Books(v)
    <3> TAKE v
    <3> QED  BY <2>1
  <2>3. \A ko \in Keys \X Outcome : CountedFor(ko)' = CountedFor(ko)  BY <1>3, <2>2, CountedSame
  <2> QED  BY <1>0, <1>3, <1>11, <2>3, AddUpStays
\* A closed client ignores the update.
<1>12. CASE lost' = lost \cup {u} /\ UNCHANGED <<queue, out>>
  <2>1. \A v \in UpdatesIn(individual') : v \in made /\ ~IsCounted(v)
    BY <1>0, <1>12 DEF Tracked, queue
  <2>2. Tracked'  BY <1>8, <1>12, <2>1
  <2>3. NoneLost'  BY <1>9, <1>12 DEF queue
  <2>4. AddUp'  BY <1>11, <1>12 DEF queue
  <2> QED  BY <2>2, <2>3, <2>4 DEF Kept
\* The update is queued.
<1>13. CASE ~IsCounted(u) /\ individual' = us /\ UNCHANGED <<aggregated, out, lost>>
  <2>1. Tracked'  BY <1>6, <1>8, <1>13
  <2>2. NoneLost'  BY <1>5, <1>9, <1>13
  <2>3. AddUp'  BY <1>11, <1>13
  <2> QED  BY <2>1, <2>2, <2>3 DEF Kept
\* The queue is full and sent.
<1>14. CASE ~IsCounted(u) /\ TakeQueue(t, us, aggregated) /\ UNCHANGED lost
  <2>1. \A v \in Threads : update'[v] # update[v] => update'[v] = None /\ update[v] \in UpdatesIn(us)
    BY <1>1, <1>2, <1>5
  <2>2. UpdatesIn(individual) \subseteq UpdatesIn(us)  BY <1>5
  <2>3. \A v \in UpdatesIn(us) : v \in made /\ ~IsCounted(v)  BY <1>6, <1>14
  <2>4. UNCHANGED <<mode, made, transport>>  BY <1>3, <1>14 DEF transport
  <2> QED  BY <1>0, <1>5, <1>14, <2>1, <2>2, <2>3, <2>4, TakeKept
\* The session is counted.
<1>15. CASE /\ IsCounted(u)
            /\ aggregated' = [aggregated EXCEPT ![<<KeyOf[u.of], OutcomeOf(u)>>] = @ + 1]
            /\ UNCHANGED <<individual, out, lost>>
  <2> DEFINE k == <<KeyOf[u.of], OutcomeOf(u)>>
  <2>1. \A v \in UpdatesIn(individual') : v \in made /\ ~IsCounted(v)
    BY <1>0, <1>15 DEF Tracked
  <2>2. Tracked'  BY <1>8, <1>15, <2>1
  <2>3. NoneLost'  BY <1>9, <1>15
  <2>4. Books(u)' /\ ~Books(u) /\ \A v : v # u => (Books(v)' <=> Books(v))
    BY <1>1, <1>10, <1>15
  <2>5. k \in Keys \X Outcome
    <3>1. u.of \in Session  BY <1>1 DEF Update
    <3>2. OutcomeOf(u) \in Outcome  BY <1>1, OutcomeType
    <3> QED  BY <3>1, <3>2 DEF Keys
  <2>6. \A ko \in Keys \X Outcome : aggregated'[ko] = IF ko = k THEN aggregated[ko] + 1 ELSE aggregated[ko]
    <3> DEFINE D == Keys \X Outcome
    <3>1. aggregated \in [D -> Nat] /\ aggregated' = [aggregated EXCEPT ![k] = @ + 1] /\ k \in D
      BY <1>15, <2>5 DEF TypeOK, Counts
    <3> HIDE DEF D, k
    <3>2. \A ko \in D : aggregated'[ko] = IF ko = k THEN aggregated[ko] + 1 ELSE aggregated[ko]
      BY <3>1
    <3> QED  BY <3>2 DEF D
  <2>7. ASSUME NEW ko
        PROVE  /\ CountedFor(ko)' = IF ko = k THEN CountedFor(ko) \cup {u} ELSE CountedFor(ko)
               /\ u \notin CountedFor(ko)
    <3>1. \A v : v \in CountedFor(ko) <=> Books(v) /\ <<KeyOf[v.of], OutcomeOf(v)>> = ko
      BY DEF CountedFor, Books
    <3>2. \A v : v \in CountedFor(ko)' <=> Books(v)' /\ <<KeyOf[v.of], OutcomeOf(v)>> = ko
      BY DEF CountedFor, Books
    <3> HIDE DEF CountedFor, Books
    <3>3. u \notin CountedFor(ko)  BY <2>4, <3>1
    <3>4. \A v : v # u => (v \in CountedFor(ko)' <=> v \in CountedFor(ko))  BY <2>4, <3>1, <3>2
    <3>5. u \in CountedFor(ko)' <=> ko = k  BY <2>4, <3>2
    <3>6. CASE ko = k
      BY <3>3, <3>4, <3>5, <3>6
    <3>7. CASE ko # k
      BY <3>3, <3>4, <3>5, <3>7
    <3> QED  BY <3>3, <3>6, <3>7
  <2> HIDE DEF k
  <2>8. AddUp'
    <3> SUFFICES ASSUME NEW ko \in Keys \X Outcome
                 PROVE  aggregated'[ko] + CountsInHand(ko)' + counted'[ko] + lostCounts'[ko]
                          = Cardinality(CountedFor(ko)')
      BY DEF AddUp
    <3>1. CountsInHand(ko)' = CountsInHand(ko)  BY <1>15 DEF CountsInHand
    <3>2. aggregated[ko] + CountsInHand(ko) + counted[ko] + lostCounts[ko] = Cardinality(CountedFor(ko))
      BY <1>0 DEF AddUp
    <3>3. CASE ko # k
      <4>1. aggregated'[ko] = aggregated[ko] /\ CountedFor(ko)' = CountedFor(ko)  BY <2>6, <2>7, <3>3
      <4> QED  BY <1>3, <3>1, <3>2, <4>1
    <3>4. CASE ko = k
      <4>1. aggregated'[ko] = aggregated[ko] + 1 /\ CountedFor(ko)' = CountedFor(ko) \cup {u}
            /\ u \notin CountedFor(ko)
        BY <2>6, <2>7, <3>4
      <4>2. IsFiniteSet(CountedFor(ko))
        <5>1. IsFiniteSet(made)  BY <1>0 DEF Tracked
        <5> QED  BY <5>1, FS_Subset DEF CountedFor
      <4>3. Cardinality(CountedFor(ko)') = Cardinality(CountedFor(ko)) + 1
        BY <4>1, <4>2, FS_AddElement
      <4>4. CountsInHand(ko) \in Nat  BY <1>7, <1>15, CarryChange
      <4>5. aggregated[ko] \in Nat /\ counted[ko] \in Nat /\ lostCounts[ko] \in Nat
        BY CountNat DEF TypeOK
      <4> DEFINE g == aggregated[ko]
                 i == CountsInHand(ko)
                 c == counted[ko]
                 l == lostCounts[ko]
      <4>6. aggregated'[ko] = g + 1 /\ CountsInHand(ko)' = i /\ counted'[ko] = c /\ lostCounts'[ko] = l
        BY <1>3, <3>1, <4>1
      <4>7. Cardinality(CountedFor(ko)') = g + i + c + l + 1  BY <3>2, <4>3
      <4>8. g \in Nat /\ i \in Nat /\ c \in Nat /\ l \in Nat  BY <4>4, <4>5
      <4> HIDE DEF g, i, c, l
      <4>9. g + 1 + i + c + l = g + i + c + l + 1  BY <4>8
      <4> QED  BY <4>6, <4>7, <4>9
    <3> QED  BY <3>3, <3>4
  <2> QED  BY <2>2, <2>3, <2>8 DEF Kept
<1>16. (mode = "Application" \/ ~u.init) <=> ~IsCounted(u)
  BY DEF IsCounted, TypeOK
<1> QED  BY <1>1, <1>12, <1>13, <1>14, <1>15, <1>16 DEF Enqueue, us

LEMMA KeptInit == Init => Kept
<1> SUFFICES ASSUME Init PROVE Kept
  OBVIOUS
<1>0. /\ made = {} /\ lost = {} /\ individual = <<>> /\ out = [a \in Actors |-> <<>>]
      /\ update = [t \in Threads |-> None]
      /\ aggregated = NoCounts /\ counted = NoCounts /\ lostCounts = NoCounts
  BY DEF Init
<1>1. Tracked
  <2>1. UpdatesIn(individual) = {}  BY <1>0 DEF UpdatesIn
  <2>2. \A a \in Actors : DOMAIN out[a] = {}  BY <1>0
  <2>3. IsFiniteSet(made)  BY <1>0, FS_EmptySet
  <2> QED  BY <1>0, <2>1, <2>2, <2>3 DEF Tracked
<1>2. NoneLost  BY <1>0 DEF NoneLost
<1>3. AddUp
  <2> SUFFICES ASSUME NEW ko \in Keys \X Outcome
               PROVE  aggregated[ko] + CountsInHand(ko) + counted[ko] + lostCounts[ko]
                        = Cardinality(CountedFor(ko))
    BY DEF AddUp
  <2>1. CountedFor(ko) = {}  BY <1>0 DEF CountedFor
  <2>2. Cardinality({}) = 0  BY FS_EmptySet
  <2>3. NoCounts[ko] = 0  BY NoCount
  <2> DEFINE f == [a \in Actors |-> HeadCount(out[a], ko)]
  <2>4. \A a \in Actors : f[a] = 0  BY <1>0, NoHeadCount
  <2>5. CountsInHand(ko) = SumFunctionOnSet(f, Actors)  BY DEF CountsInHand, SumFunction
  <2> HIDE DEF f
  <2>6. CountsInHand(ko) = 0  BY <2>4, <2>5, ActorsFinite, SumZero
  <2> QED  BY <1>0, <2>1, <2>2, <2>3, <2>6
<1> QED  BY <1>1, <1>2, <1>3 DEF Kept

LEMMA KeptStep == TypeOK /\ TypeOK' /\ Lives /\ Kept /\ [Next]_vars => Kept'
<1> SUFFICES ASSUME TypeOK, TypeOK', Lives, Kept, [Next]_vars PROVE Kept'
  OBVIOUS
<1>1. ASSUME NEW a \in Actors, pc[a] \notin Sending, TakeQueue(a, individual, aggregated),
             UNCHANGED <<mode, update, made, transport>>
      PROVE  Kept'
  <2>1. individual \in Seq(Update)  BY DEF TypeOK
  <2>2. \A u \in UpdatesIn(individual) : u \in made /\ ~IsCounted(u)  BY DEF Kept, Tracked
  <2> QED  BY <1>1, <2>1, <2>2, TakeKept
<1>2. ASSUME NEW t \in Threads, DropCall(t) PROVE Kept'
  <2>1. Dropped(t)  BY <1>2, DropCallLives
  <2>2. /\ pc[t] = "idle"
        /\ UNCHANGED <<client, out, transport, inputs>>
    BY <1>2 DEF DropCall, StartSession, InheritScope, PopScope, EndSession
  <2>3. update[t] = None  BY <2>2 DEF TypeOK
  <2> QED  BY <2>1, <2>2, <2>3, DropKept DEF client, inputs
<1>3. ASSUME NEW t \in Threads, NEW kind, NEW sampled, CaptureEvent(t, kind, sampled) PROVE Kept'
  BY <1>3, NothingMoves DEF CaptureEvent, client
<1>4. ASSUME NEW t \in Threads, Flush(t) PROVE Kept'
  <2>1. t \in Actors /\ pc[t] \notin Sending  BY <1>4 DEF Flush, Actors, Sending
  <2> QED  BY <1>1, <1>4, <2>1 DEF Flush
<1>5. ASSUME NEW t \in Threads, Close(t) \/ CloseTransport(t) PROVE Kept'
  BY <1>5, NothingMoves DEF Close, CloseTransport, queue, inputs
<1>6. ASSUME NEW t \in Threads, CloseJoin(t) PROVE Kept'
  <2>1. t \in Actors /\ pc[t] \notin Sending  BY <1>6 DEF CloseJoin, Actors, Sending
  <2> QED  BY <1>1, <1>6, <2>1 DEF CloseJoin, inputs
<1>7. CASE WorkerFlush
  <2>1. Worker \in Actors /\ pc[Worker] \notin Sending  BY <1>7 DEF WorkerFlush, Actors, Sending
  <2> QED  BY <1>1, <1>7, <2>1 DEF WorkerFlush, inputs
<1>8. ASSUME NEW t \in Threads, Call(t) PROVE Kept'
  BY <1>2, <1>3, <1>4, <1>5, <1>8 DEF Call, DropCall
<1>9. ASSUME NEW t \in Threads, Step(t) PROVE Kept'
  BY <1>5, <1>6, <1>9, ItemKept, EnqueueKept, SendKept DEF Step, Actors
<1>10. CASE WorkerStep
  BY <1>7, <1>10, SendKept DEF WorkerStep, Actors
<1>11. CASE UNCHANGED vars
  BY <1>11, NothingMoves DEF vars, client, inputs
<1> QED  BY <1>8, <1>9, <1>10, <1>11 DEF Next, Terminated

\* For any number of threads and sessions and any size of an envelope: every
\* update made is queued, in a thread's hands, with the transport or lost for
\* one of the two reasons the code has, and for every start minute, user and
\* outcome the counts queued, under way, sent and lost add up to the sessions
\* that SessionFlusher::enqueue has counted, whoever flushes meanwhile.
THEOREM UpdatesAccounted == Spec => [](Tracked /\ NoUpdateLost)
<1>1. Spec => []Kept
  BY KeptInit, KeptStep, TypeCorrect, LastWordTrue, PTL DEF Spec
<1>2. TypeOK /\ Kept => Tracked /\ NoUpdateLost  BY NoUpdateLostParts DEF Kept
<1> QED  BY <1>1, <1>2, TypeCorrect, PTL

\* For any number of threads and sessions, one update of a session says that it
\* begins it and at most one that it ends it, whichever scope lets go of it
\* (session.rs create_envelope_item, Session::close, Session::drop).
THEOREM OneInitOneEndHolds == Spec => []OneInitOneEnd
BY LastWordTrue, PTL
=============================================================================
