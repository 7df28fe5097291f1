----------------------------- MODULE Spans_proofs -----------------------------
(***************************************************************************)
(* Proofs about transactions and spans, whoever drives them, and about     *)
(* those who do: the OpenTelemetry processor, the web middleware and the   *)
(* tracing layer, each with the state it keeps of its own; for any number  *)
(* of threads, spans, requests and headers and any MaxSpans.               *)
(***************************************************************************)
EXTENDS Spans, FiniteSetTheorems, SequenceTheorems, TLAPS

-----------------------------------------------------------------------------
(* The state of transactions and spans, and the calls that change it.      *)

Perf == Accounted /\ Branches /\ ForeignTraces

LEMMA KindFacts ==
  ASSUME PerfTyped, NEW n \in Nodes
  PROVE  /\ node[n] = Free \/ node[n].kind = "trx" \/ node[n].kind = "span"
         /\ node[n] = Free => node[n].kind = "free"
         /\ node[n].kind = "trx" => node[n] \in TrxRecord /\ node[n].spans \subseteq Nodes
         /\ node[n].kind = "span" => node[n] \in SpanRecord /\ node[n].trx \in Nodes
                                     /\ node[n].parent \in Nodes
<1>1. node[n] \in {Free} \cup TrxRecord \cup SpanRecord  BY DEF PerfTyped
<1>2. CASE node[n] = Free
  BY <1>2 DEF Free
<1>3. CASE node[n] \in TrxRecord
  BY <1>3 DEF TrxRecord, Free
<1>4. CASE node[n] \in SpanRecord
  BY <1>4 DEF SpanRecord, Free
<1> QED  BY <1>1, <1>2, <1>3, <1>4

LEMMA SentFacts ==
  ASSUME PerfTyped
  PROVE  \A i \in DOMAIN sent : sent[i] \in SentRecord /\ sent[i].trx \in Nodes
                                /\ sent[i].spans \subseteq Nodes
<1> SUFFICES ASSUME NEW i \in DOMAIN sent
             PROVE  sent[i] \in SentRecord /\ sent[i].trx \in Nodes /\ sent[i].spans \subseteq Nodes
  OBVIOUS
<1>1. sent[i] \in SentRecord  BY DEF PerfTyped
<1> QED  BY <1>1 DEF SentRecord

\* A transaction or a span is started.
Started(n, r) ==
  /\ node[n] = Free /\ r \in TrxRecord \cup SpanRecord
  /\ r.kind = "trx" => r.spans = {} /\ r.open = r.client /\ MayJoin(r)
  /\ r.kind = "span" =>
       /\ ~r.finished /\ IsTrx(r.trx) /\ node[r.parent] # Free /\ TrxOf(r.parent) = r.trx
       /\ r.trace = node[r.trx].trace /\ r.sampled = node[r.trx].sampled
  /\ node' = [node EXCEPT ![n] = r]
  /\ UNCHANGED <<options, sent, lost, finishing>>

LEMMA StartedStep ==
  ASSUME Perf, NEW n \in Nodes, NEW r, Started(n, r)
  PROVE  Perf'
<1>1. /\ PerfTyped /\ Marked /\ Collected /\ SentMatches /\ LostMatches /\ Branches
      /\ ForeignTraces
  BY DEF Perf, Accounted
<1>2. /\ node[n] = Free /\ node[n].kind = "free"
      /\ r \in TrxRecord \cup SpanRecord /\ r.kind \in {"trx", "span"} /\ r # Free
      /\ (r.kind = "trx" => r.spans = {} /\ r.open = r.client /\ MayJoin(r) /\ r.client \in BOOLEAN)
      /\ options' = options /\ sent' = sent /\ lost' = lost /\ finishing' = finishing
  BY <1>1, KindFacts DEF Started, TrxRecord, SpanRecord, Free
<1>21. ASSUME r.kind = "span"
       PROVE  /\ r.trx \in Nodes /\ r.parent \in Nodes /\ r.trx # n /\ r.parent # n /\ ~r.finished
              /\ node[r.trx].kind = "trx" /\ node[r.parent] # Free
              /\ (IF node[r.parent].kind = "trx" THEN r.parent ELSE node[r.parent].trx) = r.trx
              /\ r.trace = node[r.trx].trace /\ r.sampled = node[r.trx].sampled
              /\ n \notin node[r.trx].spans
  <2>1. r.trx \in Nodes /\ r.parent \in Nodes  BY <1>2, <1>21 DEF TrxRecord, SpanRecord
  <2>2. /\ ~r.finished /\ IsTrx(r.trx) /\ node[r.parent] # Free /\ TrxOf(r.parent) = r.trx
        /\ r.trace = node[r.trx].trace /\ r.sampled = node[r.trx].sampled
    BY <1>21 DEF Started
  <2>3. n \notin node[r.trx].spans  BY <1>1, <1>2, <2>1, <2>2 DEF Collected, IsSpan
  <2> QED  BY <1>2, <2>1, <2>2, <2>3 DEF IsTrx, TrxOf
<1>3. node'[n] = r /\ \A m \in Nodes : m # n => node'[m] = node[m]
  BY <1>1 DEF Started, PerfTyped
<1>4. PerfTyped'
  <2>1. node' \in [Nodes -> {Free} \cup TrxRecord \cup SpanRecord]
    BY <1>1, <1>2 DEF Started, PerfTyped
  <2> QED  BY <1>1, <1>2, <2>1 DEF PerfTyped
<1>5. \A m \in Nodes : node[m].kind = "span" =>
        /\ node[m].trx \in Nodes /\ node[m].trx # n /\ node[m].parent \in Nodes /\ node[m].parent # n
        /\ m # n
  BY <1>1, <1>2, KindFacts DEF Branches, IsTrx, IsSpan
<1>6. Range(finishing)' = Range(finishing)  BY <1>2
<1>7. Marked'
  <2>1. \A t \in Threads : finishing[t] \in Nodes \cup {None}  BY <1>1 DEF PerfTyped
  <2> QED  BY <1>1, <1>2, <1>3, <2>1, NodesAssumption DEF Marked, IsSpan
<1>8. Collected'
  <2> SUFFICES ASSUME NEW m \in Nodes, node'[m].kind = "trx"
               PROVE  /\ node'[m].open \/ node'[m].spans # {} => node'[m].client
                      /\ IsFiniteSet(node'[m].spans) /\ Cardinality(node'[m].spans) <= MaxSpans + 1
                      /\ \A k \in node'[m].spans :
                           /\ node'[k].kind = "span" /\ node'[k].trx = m /\ node'[k].finished
                           /\ k \notin Range(finishing)'
    BY DEF Collected, IsTrx, IsSpan
  <2>1. CASE m = n
    <3>1. Cardinality({}) <= MaxSpans + 1  BY FS_EmptySet, MaxSpansAssumption
    <3> QED  BY <1>2, <1>3, <2>1, <3>1, FS_EmptySet
  <2>2. CASE m # n
    <3>1. node[m].kind = "trx" /\ node'[m] = node[m] /\ node[m].spans \subseteq Nodes
      BY <1>1, <1>3, <2>2, KindFacts
    <3>2. /\ node[m].open \/ node[m].spans # {} => node[m].client
          /\ IsFiniteSet(node[m].spans) /\ Cardinality(node[m].spans) <= MaxSpans + 1
          /\ \A k \in node[m].spans :
               node[k].kind = "span" /\ node[k].trx = m /\ node[k].finished /\ k \notin Range(finishing)
      BY <1>1, <3>1 DEF Collected, IsTrx, IsSpan
    <3> QED  BY <1>3, <1>5, <1>6, <3>1, <3>2
  <2> QED  BY <2>1, <2>2
<1>9. SentMatches'
  <2>1. \A i \in DOMAIN sent : sent[i].trx \in Nodes /\ sent[i].trx # n
    BY <1>1, <1>2, SentFacts DEF SentMatches, IsTrx
  <2> QED  BY <1>1, <1>2, <1>3, <2>1 DEF SentMatches, IsTrx
<1>10. Branches'
  <2> SUFFICES ASSUME NEW m \in Nodes, node'[m].kind = "span"
               PROVE  /\ node'[node'[m].trx].kind = "trx" /\ node'[node'[m].parent] # Free
                      /\ (IF node'[node'[m].parent].kind = "trx" THEN node'[m].parent
                          ELSE node'[node'[m].parent].trx) = node'[m].trx
                      /\ node'[m].trace = node'[node'[m].trx].trace
                      /\ node'[m].sampled = node'[node'[m].trx].sampled
    BY DEF Branches, IsTrx, IsSpan, TrxOf
  <2>1. CASE m = n
    <3>1. node'[m] = r /\ r.kind = "span"  BY <1>3, <2>1
    <3>2. node'[r.trx] = node[r.trx] /\ node'[r.parent] = node[r.parent]  BY <1>21, <1>3, <3>1
    <3> QED  BY <1>21, <3>1, <3>2
  <2>2. CASE m # n
    <3>1. node[m].kind = "span" /\ node'[m] = node[m]  BY <1>3, <2>2
    <3>2. /\ node'[node[m].trx] = node[node[m].trx] /\ node'[node[m].parent] = node[node[m].parent]
      BY <1>3, <1>5, <3>1
    <3> QED  BY <1>1, <3>1, <3>2 DEF Branches, IsTrx, IsSpan, TrxOf
  <2> QED  BY <2>1, <2>2
<1>11. LostMatches'
  <2>1. ASSUME NEW m \in Nodes, m # n
        PROVE  /\ node'[m] = node[m]
               /\ node[m].kind = "span" => node'[node[m].trx] = node[node[m].trx]
    BY <1>3, <1>5, <2>1
  <2>2. lost[n] = <<>>  BY <1>1, <1>2 DEF LostMatches
  <2>3. ASSUME NEW m \in Nodes
        PROVE  /\ node'[m] = Free => lost'[m] = <<>>
               /\ IsTrx(m)' => lost'[m] = IF node'[m].client /\ ~node'[m].open /\ ~node'[m].sampled
                                        THEN <<"SampleRate">> ELSE <<>>
    BY <1>1, <1>2, <1>3, <2>1, <2>2 DEF LostMatches, IsTrx
  <2>4. ASSUME NEW m \in Nodes, node'[m].kind = "span"
        PROVE  LET t == node'[node'[m].trx] IN
               /\ m \in t.spans => lost'[m] = IF t.open \/ t.sampled THEN <<>> ELSE <<"SampleRate">>
               /\ m \notin t.spans => lost'[m] \in {<<>>, <<"BufferOverflow">>}
               /\ m \notin t.spans /\ lost'[m] # <<>> =>
                    /\ node'[m].finished /\ m \notin Range(finishing)'
                    /\ Cardinality(t.spans) = MaxSpans + 1
               /\ m \notin t.spans /\ node'[m].finished /\ m \notin Range(finishing)' /\ t.open
                    => lost'[m] # <<>>
    <3>1. CASE m = n
      <4>1. node'[m] = r /\ r.kind = "span"  BY <1>3, <2>4, <3>1
      <4>2. node'[r.trx] = node[r.trx]  BY <1>21, <1>3, <4>1
      <4> QED  BY <1>2, <1>21, <2>2, <3>1, <4>1, <4>2
    <3>2. CASE m # n
      <4>1. node[m].kind = "span"  BY <1>3, <2>4, <3>2
      <4> QED  BY <1>1, <1>2, <1>6, <2>1, <3>2, <4>1 DEF LostMatches, IsSpan
    <3> QED  BY <3>1, <3>2
  <2> QED  BY <2>3, <2>4 DEF LostMatches, IsSpan
<1>12. ForeignTraces'
  BY <1>1, <1>2, <1>3 DEF ForeignTraces, MayJoin, IsTrx
<1> QED  BY <1>4, <1>7, <1>8, <1>9, <1>10, <1>11, <1>12 DEF Perf, Accounted

\* What never changes in a transaction or a span once it was started, and, in
\* Same, what only finishing changes.
Alike(a, b) ==
  /\ a.kind = b.kind
  /\ a.kind = "trx" => /\ a.client = b.client /\ a.sampled = b.sampled /\ a.trace = b.trace
                       /\ a.parent = b.parent /\ a.incoming = b.incoming
  /\ a.kind = "span" => /\ a.trx = b.trx /\ a.sampled = b.sampled /\ a.trace = b.trace
                        /\ a.parent = b.parent

Same(a, b) ==
  /\ Alike(a, b)
  /\ a.kind = "trx" => a.open = b.open /\ a.spans = b.spans
  /\ a.kind = "span" => a.finished = b.finished

LEMMA KeptShape ==
  ASSUME PerfTyped, PerfTyped', Branches, ForeignTraces, options' = options,
         \A m \in Nodes : Alike(node[m], node'[m])
  PROVE  Branches' /\ ForeignTraces'
<1>1. \A m \in Nodes : node'[m] = Free => node[m] = Free
  <2> SUFFICES ASSUME NEW m \in Nodes, node'[m] = Free  PROVE node[m] = Free
    OBVIOUS
  <2>1. node[m].kind = "free"  BY DEF Alike, Free
  <2> QED  BY <2>1, KindFacts
<1>2. Branches'
  <2> SUFFICES ASSUME NEW m \in Nodes, node'[m].kind = "span"
               PROVE  /\ node'[node'[m].trx].kind = "trx" /\ node'[node'[m].parent] # Free
                      /\ (IF node'[node'[m].parent].kind = "trx" THEN node'[m].parent
                          ELSE node'[node'[m].parent].trx) = node'[m].trx
                      /\ node'[m].trace = node'[node'[m].trx].trace
                      /\ node'[m].sampled = node'[node'[m].trx].sampled
    BY DEF Branches, IsTrx, IsSpan, TrxOf
  <2>1. /\ node[m].kind = "span" /\ node'[m].trx = node[m].trx /\ node'[m].parent = node[m].parent
        /\ node'[m].trace = node[m].trace /\ node'[m].sampled = node[m].sampled
    BY DEF Alike
  <2>2. PICK t \in Nodes, p \in Nodes : t = node[m].trx /\ p = node[m].parent
    BY <2>1, KindFacts
  <2>3. /\ node[t].kind = "trx" /\ node[p] # Free
        /\ (IF node[p].kind = "trx" THEN p ELSE node[p].trx) = t
        /\ node[m].trace = node[t].trace /\ node[m].sampled = node[t].sampled
    BY <2>1, <2>2 DEF Branches, IsTrx, IsSpan, TrxOf
  <2>4. node[p].kind \in {"trx", "span"}  BY <2>3, KindFacts
  <2>5. /\ node'[t].kind = "trx" /\ node'[t].trace = node[t].trace
        /\ node'[t].sampled = node[t].sampled
    BY <2>3 DEF Alike
  <2>6. /\ node'[p].kind = node[p].kind /\ (node[p].kind = "span" => node'[p].trx = node[p].trx)
        /\ node'[p] # Free
    BY <1>1, <2>3 DEF Alike
  <2> QED  BY <2>1, <2>2, <2>3, <2>4, <2>5, <2>6
<1>3. ForeignTraces'
  <2> SUFFICES ASSUME NEW m \in Nodes, node'[m].kind = "trx"  PROVE MayJoin(node[m])'
    BY DEF ForeignTraces, IsTrx
  <2>1. MayJoin(node[m]) /\ Alike(node[m], node'[m]) /\ node[m].kind = "trx"
    BY DEF ForeignTraces, IsTrx, Alike
  <2> QED  BY <2>1 DEF MayJoin, Alike
<1> QED  BY <1>2, <1>3

-----------------------------------------------------------------------------
(* Data and status are set, which nothing depends on.                      *)

Touched(n, r) ==
  /\ r \in {Free} \cup TrxRecord \cup SpanRecord /\ Same(node[n], r)
  /\ node' = [node EXCEPT ![n] = r]
  /\ UNCHANGED <<options, sent, lost, finishing>>

LEMMA TouchedStep ==
  ASSUME Perf, NEW n \in Nodes, NEW r, Touched(n, r)
  PROVE  Perf'
<1>1. /\ PerfTyped /\ Marked /\ Collected /\ SentMatches /\ LostMatches /\ Branches
      /\ ForeignTraces
      /\ options' = options /\ sent' = sent /\ lost' = lost /\ finishing' = finishing
  BY DEF Perf, Accounted, Touched
<1>2. PerfTyped'
  BY <1>1 DEF PerfTyped, Touched
<1>3. \A m \in Nodes : Same(node[m], node'[m])
  <2>1. node'[n] = r /\ \A m \in Nodes : m # n => node'[m] = node[m]
    BY <1>1 DEF Touched, PerfTyped
  <2> QED  BY <2>1 DEF Touched, Same, Alike
<1>4. Branches' /\ ForeignTraces'
  BY <1>1, <1>2, <1>3, KeptShape DEF Same
<1>5. Range(finishing)' = Range(finishing) /\ \A t \in Threads : finishing[t] \in Nodes \cup {None}
  BY <1>1 DEF PerfTyped
<1>6. Marked'
  <2>1. \A t \in Threads : finishing[t] # None =>
          node'[finishing[t]].kind = "span" /\ node'[finishing[t]].finished
    BY <1>1, <1>3, <1>5 DEF Marked, IsSpan, Same, Alike
  <2> QED  BY <1>1, <2>1 DEF Marked, IsSpan
<1>7. Collected'
  <2> SUFFICES ASSUME NEW m \in Nodes, node'[m].kind = "trx"
               PROVE  /\ node'[m].open \/ node'[m].spans # {} => node'[m].client
                      /\ IsFiniteSet(node'[m].spans) /\ Cardinality(node'[m].spans) <= MaxSpans + 1
                      /\ \A k \in node'[m].spans :
                           /\ node'[k].kind = "span" /\ node'[k].trx = m /\ node'[k].finished
                           /\ k \notin Range(finishing)'
    BY DEF Collected, IsTrx, IsSpan
  <2>1. /\ node[m].kind = "trx" /\ node'[m].open = node[m].open /\ node'[m].spans = node[m].spans
        /\ node'[m].client = node[m].client /\ node[m].spans \subseteq Nodes
    BY <1>1, <1>3, KindFacts DEF Same, Alike
  <2>2. /\ node[m].open \/ node[m].spans # {} => node[m].client
        /\ IsFiniteSet(node[m].spans) /\ Cardinality(node[m].spans) <= MaxSpans + 1
        /\ \A k \in node[m].spans :
             node[k].kind = "span" /\ node[k].trx = m /\ node[k].finished /\ k \notin Range(finishing)
    BY <1>1, <2>1 DEF Collected, IsTrx, IsSpan
  <2>3. \A k \in node[m].spans : node'[k].kind = "span" /\ node'[k].trx = m /\ node'[k].finished
    BY <1>3, <2>1, <2>2 DEF Same, Alike
  <2> QED  BY <1>5, <2>1, <2>2, <2>3
<1>8. SentMatches'
  <2>1. \A m \in Nodes : /\ node'[m].kind = "trx" <=> node[m].kind = "trx"
                         /\ node[m].kind = "trx" =>
                              /\ node'[m].open = node[m].open /\ node'[m].client = node[m].client
                              /\ node'[m].sampled = node[m].sampled
                              /\ node'[m].spans = node[m].spans /\ node'[m].trace = node[m].trace
    BY <1>3 DEF Same, Alike
  <2> QED  BY <1>1, <2>1, SentFacts DEF SentMatches, IsTrx
<1>9. LostMatches'
  <2>1. ASSUME NEW m \in Nodes
        PROVE  /\ node'[m] = Free => lost'[m] = <<>>
               /\ IsTrx(m)' => lost'[m] = IF node'[m].client /\ ~node'[m].open /\ ~node'[m].sampled
                                        THEN <<"SampleRate">> ELSE <<>>
    <3>1. node'[m] = Free => node[m] = Free
      BY <1>1, <1>3, KindFacts DEF Same, Alike, Free
    <3>2. IsTrx(m)' => /\ IsTrx(m) /\ node'[m].client = node[m].client
                       /\ node'[m].open = node[m].open /\ node'[m].sampled = node[m].sampled
      BY <1>3, SMTT(90) DEF Same, Alike, IsTrx
    <3> QED  BY <1>1, <3>1, <3>2 DEF LostMatches
  <2>2. ASSUME NEW m \in Nodes, node'[m].kind = "span"
        PROVE  LET t == node'[node'[m].trx] IN
               /\ m \in t.spans => lost'[m] = IF t.open \/ t.sampled THEN <<>> ELSE <<"SampleRate">>
               /\ m \notin t.spans => lost'[m] \in {<<>>, <<"BufferOverflow">>}
               /\ m \notin t.spans /\ lost'[m] # <<>> =>
                    /\ node'[m].finished /\ m \notin Range(finishing)'
                    /\ Cardinality(t.spans) = MaxSpans + 1
               /\ m \notin t.spans /\ node'[m].finished /\ m \notin Range(finishing)' /\ t.open
                    => lost'[m] # <<>>
    <3>1. /\ node[m].kind = "span" /\ node'[m].trx = node[m].trx
          /\ node'[m].finished = node[m].finished
      BY <1>3, <2>2 DEF Same, Alike
    <3>2. PICK t \in Nodes : t = node[m].trx  BY <1>1, <3>1, KindFacts
    <3>3. node[t].kind = "trx"  BY <1>1, <3>1, <3>2 DEF Branches, IsTrx, IsSpan
    <3>4. /\ node'[t].open = node[t].open /\ node'[t].sampled = node[t].sampled
          /\ node'[t].spans = node[t].spans
      BY <1>3, <3>3 DEF Same, Alike
    <3> QED  BY <1>1, <1>5, <3>1, <3>2, <3>4 DEF LostMatches, IsSpan
  <2> QED  BY <2>1, <2>2 DEF LostMatches, IsSpan
<1> QED  BY <1>2, <1>4, <1>6, <1>7, <1>8, <1>9 DEF Perf, Accounted

-----------------------------------------------------------------------------
(* A transaction is finished: once, and then for good.                     *)

Ended(n, r) ==
  /\ node[n].kind = "trx" /\ node[n].open
  /\ r \in TrxRecord /\ Same(node[n], r)
  /\ FinishTransaction(n, r)
  /\ UNCHANGED <<options, finishing>>

LEMMA EndedStep ==
  ASSUME Perf, NEW n \in Nodes, NEW r, Ended(n, r)
  PROVE  Perf'
<1> DEFINE S == node[n].spans
           q == [r EXCEPT !.open = FALSE]
<1>1. /\ PerfTyped /\ Marked /\ Collected /\ SentMatches /\ LostMatches /\ Branches
      /\ ForeignTraces
      /\ options' = options /\ finishing' = finishing
      /\ node[n].kind = "trx" /\ node[n].open
  BY DEF Perf, Accounted, Ended
<1>2. /\ q \in TrxRecord /\ q.kind = "trx" /\ ~q.open /\ q.spans = S /\ q.trace = node[n].trace
      /\ q.sampled = node[n].sampled /\ q.client = node[n].client /\ q.sampled \in BOOLEAN
      /\ Alike(node[n], q)
      /\ r.spans = S /\ r.open /\ r.sampled = node[n].sampled /\ r.trace = node[n].trace
      /\ r.status \in Statuses \cup {None} /\ r.data \in BOOLEAN
  BY <1>1, ZenonT(120) DEF Ended, Same, Alike, TrxRecord
<1>3. /\ node[n].client /\ S \subseteq Nodes /\ IsFiniteSet(S) /\ n \notin S
      /\ \A m \in S : node[m].kind = "span" /\ node[m].trx = n /\ node[m].finished
  BY <1>1, KindFacts DEF Collected, IsTrx, IsSpan
<1>31. q.client /\ (q.sampled <=> node[n].sampled)
  BY <1>2, <1>3, Zenon
<1>4. /\ node' \in [Nodes -> {Free} \cup TrxRecord \cup SpanRecord]
      /\ node'[n] = q /\ \A m \in Nodes : m # n => node'[m] = node[m]
  BY <1>1, <1>2 DEF Ended, FinishTransaction, PerfTyped
<1>5. /\ node[n].sampled => sent' = Append(sent, Snapshot(n, r)) /\ lost' = lost
      /\ ~node[n].sampled => sent' = sent /\ lost' = Lose({n} \cup S, "SampleRate")
  BY <1>2 DEF Ended, FinishTransaction
<1>6. /\ Snapshot(n, r) \in SentRecord /\ Snapshot(n, r).trx = n /\ Snapshot(n, r).spans = S
      /\ Snapshot(n, r).trace = node[n].trace
  <2>1. node[n].trace \in Nodes \cup {Remote}  BY <1>1, KindFacts DEF TrxRecord
  <2> QED  BY <1>2, <1>3, <2>1 DEF Snapshot, SentRecord
<1> HIDE DEF q
<1>7. \A m \in Nodes : Alike(node[m], node'[m])
  BY <1>2, <1>4 DEF Alike
<1>8. \A m \in Nodes : m \in {n} \cup S => lost[m] = <<>>
  <2>1. lost[n] = <<>>  BY <1>1 DEF LostMatches, IsTrx
  <2>2. ASSUME NEW m \in S  PROVE lost[m] = <<>>
    BY <1>1, <1>3 DEF LostMatches, IsSpan
  <2> QED  BY <2>1, <2>2
<1>9. ASSUME NEW m \in Nodes
      PROVE  lost'[m] = IF m \in {n} \cup S /\ ~node[n].sampled THEN <<"SampleRate">> ELSE lost[m]
  <2>1. CASE node[n].sampled  BY <1>5, <2>1
  <2>2. CASE ~node[n].sampled
    <3>1. lost'[m] = IF m \in {n} \cup S THEN Append(lost[m], "SampleRate") ELSE lost[m]
      BY <1>5, <2>2 DEF Lose
    <3>2. m \in {n} \cup S => lost[m] = <<>>  BY <1>8
    <3>3. Append(<<>>, "SampleRate") = <<"SampleRate">>  OBVIOUS
    <3>4. CASE m \in {n} \cup S  BY <2>2, <3>1, <3>2, <3>3, <3>4
    <3>5. CASE m \notin {n} \cup S  BY <3>1, <3>5
    <3> QED  BY <3>4, <3>5
  <2> QED  BY <1>2, <2>1, <2>2
<1>10. PerfTyped'
  <2>1. sent' \in Seq(SentRecord)
    <3>1. sent \in Seq(SentRecord)  BY <1>1 DEF PerfTyped
    <3>2. Append(sent, Snapshot(n, r)) \in Seq(SentRecord)  BY <1>6, <3>1
    <3> QED  BY <1>2, <1>5, <3>1, <3>2
  <2>2. lost' \in [Nodes -> Seq({"SampleRate", "BufferOverflow"})]
    <3>1. CASE node[n].sampled  BY <1>1, <1>5, <3>1 DEF PerfTyped
    <3>2. CASE ~node[n].sampled
      <4>1. lost' = [m \in Nodes |-> IF m \in {n} \cup S THEN Append(lost[m], "SampleRate") ELSE lost[m]]
        BY <1>5, <3>2 DEF Lose
      <4>2. ASSUME NEW m \in Nodes  PROVE lost'[m] \in Seq({"SampleRate", "BufferOverflow"})
        <5>1. /\ lost[m] \in Seq({"SampleRate", "BufferOverflow"})
              /\ <<"SampleRate">> \in Seq({"SampleRate", "BufferOverflow"})
          BY <1>1 DEF PerfTyped
        <5> QED  BY <1>9, <5>1
      <4> QED  BY <4>1, <4>2
    <3> QED  BY <1>2, <3>1, <3>2
  <2> QED  BY <1>1, <1>4, <2>1, <2>2 DEF PerfTyped
<1>11. Branches' /\ ForeignTraces'
  BY <1>1, <1>7, <1>10, KeptShape
<1>12. Range(finishing)' = Range(finishing) /\ \A t \in Threads : finishing[t] \in Nodes \cup {None}
  BY <1>1 DEF PerfTyped
<1>13. Marked'
  BY <1>1, <1>4, <1>12 DEF Marked, IsSpan
<1>14. Collected'
  <2> SUFFICES ASSUME NEW m \in Nodes, node'[m].kind = "trx"
               PROVE  /\ node'[m].open \/ node'[m].spans # {} => node'[m].client
                      /\ IsFiniteSet(node'[m].spans) /\ Cardinality(node'[m].spans) <= MaxSpans + 1
                      /\ \A k \in node'[m].spans :
                           /\ node'[k].kind = "span" /\ node'[k].trx = m /\ node'[k].finished
                           /\ k \notin Range(finishing)'
    BY DEF Collected, IsTrx, IsSpan
  <2>1. /\ node[m].kind = "trx" /\ (node'[m].open => node[m].open) /\ node'[m].spans = node[m].spans
        /\ node'[m].client = node[m].client /\ node[m].spans \subseteq Nodes
    BY <1>1, <1>2, <1>4, KindFacts
  <2>2. /\ node[m].open \/ node[m].spans # {} => node[m].client
        /\ IsFiniteSet(node[m].spans) /\ Cardinality(node[m].spans) <= MaxSpans + 1
        /\ \A k \in node[m].spans :
             node[k].kind = "span" /\ node[k].trx = m /\ node[k].finished /\ k \notin Range(finishing)
    BY <1>1, <2>1 DEF Collected, IsTrx, IsSpan
  <2>3. \A k \in node[m].spans : node'[k] = node[k]
    BY <1>1, <1>4, <2>1, <2>2
  <2> QED  BY <1>12, <2>1, <2>2, <2>3
<1>15. SentMatches'
  <2>0. \A i \in DOMAIN sent : sent[i].trx \in Nodes /\ sent[i].trx # n
    BY <1>1, SentFacts DEF SentMatches
  <2>1. CASE node[n].sampled
    <3>1. /\ sent \in Seq(SentRecord) /\ sent' = Append(sent, Snapshot(n, r))
      BY <1>1, <1>5, <2>1 DEF PerfTyped
    <3>2. PICK l \in Nat : l = Len(sent)  BY <3>1
    <3>3. /\ DOMAIN sent = 1..l /\ DOMAIN sent' = 1..(l + 1)
          /\ sent'[l + 1] = Snapshot(n, r) /\ \A i \in 1..l : sent'[i] = sent[i]
      BY <3>1, <3>2
    <3>4. ASSUME NEW i \in DOMAIN sent'
          PROVE  /\ node'[sent'[i].trx].kind = "trx" /\ ~node'[sent'[i].trx].open
                 /\ node'[sent'[i].trx].client /\ node'[sent'[i].trx].sampled
                 /\ sent'[i].spans = node'[sent'[i].trx].spans
                 /\ sent'[i].trace = node'[sent'[i].trx].trace
      <4>1. CASE i = l + 1
        <5>1. /\ sent'[i].trx = n /\ node'[n] = q /\ sent'[i].spans = S
              /\ sent'[i].trace = node[n].trace
          BY <1>4, <1>6, <3>3, <4>1
        <5> QED  BY <1>2, <1>31, <2>1, <5>1
      <4>2. CASE i \in 1..l
        <5>1. PICK m \in Nodes : m = sent[i].trx /\ m # n /\ sent'[i] = sent[i]
          BY <2>0, <3>3, <4>2
        <5>2. /\ node[m].kind = "trx" /\ ~node[m].open /\ node[m].client /\ node[m].sampled
              /\ sent[i].spans = node[m].spans /\ sent[i].trace = node[m].trace
          BY <1>1, <3>3, <4>2, <5>1 DEF SentMatches, IsTrx
        <5> QED  BY <1>4, <5>1, <5>2 DEF IsTrx
      <4> QED  BY <3>3, <4>1, <4>2
    <3>5. ASSUME NEW i \in DOMAIN sent', NEW j \in DOMAIN sent', sent'[i].trx = sent'[j].trx
          PROVE  i = j
      <4>1. /\ sent'[l + 1].trx = n /\ \A k \in 1..l : sent'[k].trx # n  BY <1>6, <2>0, <3>3
      <4>2. i \in 1..l /\ j \in 1..l => i = j  BY <1>1, <3>3, <3>5 DEF SentMatches
      <4> QED  BY <3>3, <3>5, <4>1, <4>2
    <3>6. ASSUME NEW m \in Nodes, node'[m].kind = "trx", node'[m].client, ~node'[m].open, node'[m].sampled
          PROVE  \E i \in DOMAIN sent' : sent'[i].trx = m
      <4>1. CASE m = n
        BY <1>6, <3>2, <3>3, <4>1
      <4>2. CASE m # n
        <5>1. PICK i \in DOMAIN sent : sent[i].trx = m
          BY <1>1, <1>4, <3>6, <4>2 DEF SentMatches, IsTrx
        <5> QED  BY <3>2, <3>3, <5>1
      <4> QED  BY <4>1, <4>2
    <3> QED  BY <3>4, <3>5, <3>6 DEF SentMatches, IsTrx
  <2>2. CASE ~node[n].sampled
    <3>1. sent' = sent  BY <1>5, <2>2
    <3>2. \A m \in Nodes : node'[m].kind = "trx" /\ node'[m].sampled => m # n
      BY <1>2, <1>4, <2>2
    <3> QED  BY <1>1, <1>4, <2>0, <3>1, <3>2 DEF SentMatches, IsTrx
  <2> QED  BY <1>2, <2>1, <2>2
<1>16. LostMatches'
  <2>1. ASSUME NEW m \in Nodes
        PROVE  /\ node'[m] = Free => lost'[m] = <<>>
               /\ node'[m].kind = "trx" =>
                    lost'[m] = IF node'[m].client /\ ~node'[m].open /\ ~node'[m].sampled
                               THEN <<"SampleRate">> ELSE <<>>
    <3>1. CASE m = n
      <4>1. lost'[n] = IF node[n].sampled THEN <<>> ELSE <<"SampleRate">>
        BY <1>8, <1>9
      <4>2. /\ node'[m] # Free /\ node'[m].client /\ ~node'[m].open
            /\ node'[m].sampled = node[n].sampled /\ lost'[m] = lost'[n]
        BY <1>2, <1>31, <1>4, <3>1 DEF Free
      <4> QED  BY <4>1, <4>2
    <3>2. CASE m # n
      <4>1. node[m] = Free \/ node[m].kind = "trx" => m \notin {n} \cup S  BY <1>3, <3>2 DEF Free
      <4>2. node'[m] = node[m]  BY <1>4, <3>2
      <4>3. /\ node[m] = Free => lost[m] = <<>>
            /\ node[m].kind = "trx" =>
                    lost[m] = IF node[m].client /\ ~node[m].open /\ ~node[m].sampled
                               THEN <<"SampleRate">> ELSE <<>>
        BY <1>1 DEF LostMatches, IsTrx
      <4>4. node[m] = Free \/ node[m].kind = "trx" => lost'[m] = lost[m]
        BY <1>9, <4>1
      <4> QED  BY <4>2, <4>3, <4>4
    <3> QED  BY <3>1, <3>2
  <2>2. ASSUME NEW m \in Nodes, node'[m].kind = "span"
        PROVE  LET t == node'[node'[m].trx] IN
               /\ m \in t.spans => lost'[m] = IF t.open \/ t.sampled THEN <<>> ELSE <<"SampleRate">>
               /\ m \notin t.spans => lost'[m] \in {<<>>, <<"BufferOverflow">>}
               /\ m \notin t.spans /\ lost'[m] # <<>> =>
                    /\ node'[m].finished /\ m \notin Range(finishing)'
                    /\ Cardinality(t.spans) = MaxSpans + 1
               /\ m \notin t.spans /\ node'[m].finished /\ m \notin Range(finishing)' /\ t.open
                    => lost'[m] # <<>>
    <3>1. m # n /\ node[m].kind = "span" /\ node'[m] = node[m]  BY <1>2, <1>4, <2>2
    <3>2. PICK t \in Nodes : t = node[m].trx  BY <1>1, <3>1, KindFacts
    <3>3. /\ m \in node[t].spans => lost[m] = IF node[t].open \/ node[t].sampled THEN <<>> ELSE <<"SampleRate">>
          /\ m \notin node[t].spans => lost[m] \in {<<>>, <<"BufferOverflow">>}
          /\ m \notin node[t].spans /\ lost[m] # <<>> =>
               /\ node[m].finished /\ m \notin Range(finishing)
               /\ Cardinality(node[t].spans) = MaxSpans + 1
          /\ m \notin node[t].spans /\ node[m].finished /\ m \notin Range(finishing) /\ node[t].open
               => lost[m] # <<>>
      BY <1>1, <3>1, <3>2 DEF LostMatches, IsSpan
    <3>4. CASE t = n
      <4>1. CASE m \in S
        <5>1. lost'[m] = IF node[n].sampled THEN <<>> ELSE <<"SampleRate">>  BY <1>8, <1>9, <4>1
        <5> QED  BY <1>2, <1>4, <3>1, <3>2, <3>4, <4>1, <5>1
      <4>2. CASE m \notin S
        <5>1. lost'[m] = lost[m]  BY <1>9, <3>1, <4>2
        <5> QED  BY <1>2, <1>4, <1>12, <3>1, <3>2, <3>3, <3>4, <4>2, <5>1
      <4> QED  BY <4>1, <4>2
    <3>5. CASE t # n
      <4>1. m \notin {n} \cup S  BY <1>3, <3>1, <3>2, <3>5
      <4>2. lost'[m] = lost[m]  BY <1>9, <4>1
      <4>3. node'[t] = node[t]  BY <1>4, <3>5
      <4> QED  BY <1>12, <3>1, <3>2, <3>3, <4>2, <4>3
    <3> QED  BY <3>4, <3>5
  <2> QED  BY <2>1, <2>2 DEF LostMatches, IsSpan, IsTrx
<1> QED  BY <1>10, <1>11, <1>13, <1>14, <1>15, <1>16 DEF Perf, Accounted

-----------------------------------------------------------------------------
(* A span is finished: it goes to its transaction, or is lost.             *)

Pushed(n, r) ==
  /\ node[n].kind = "span" /\ (~node[n].finished \/ n \in Range(finishing))
  /\ r \in SpanRecord /\ Same(node[n], r)
  /\ PushSpan(n, r)
  /\ finishing' = [u \in Threads |-> IF finishing[u] = n THEN None ELSE finishing[u]]
  /\ options' = options

LEMMA PushedStep ==
  ASSUME Perf, NEW n \in Nodes, NEW r, Pushed(n, r)
  PROVE  Perf'
<1>1. /\ PerfTyped /\ Marked /\ Collected /\ SentMatches /\ LostMatches /\ Branches
      /\ ForeignTraces
      /\ options' = options /\ sent' = sent
      /\ node[n].kind = "span" /\ (~node[n].finished \/ n \in Range(finishing))
  BY DEF Perf, Accounted, Pushed, PushSpan
<1>2. PICK t \in Nodes : t = node[n].trx /\ node[t].kind = "trx" /\ t # n /\ t = r.trx
  <2>1. node[n].trx \in Nodes /\ r.trx = node[n].trx  BY <1>1, KindFacts DEF Pushed, Same, Alike
  <2>2. node[node[n].trx].kind = "trx"  BY <1>1 DEF Branches, IsTrx, IsSpan
  <2> QED  BY <1>1, <2>1, <2>2
<1> DEFINE S == node[t].spans
           room == Cardinality(S) <= MaxSpans
           X == IF node[t].open /\ room THEN S \cup {n} ELSE S
           q == [r EXCEPT !.finished = TRUE]
           w == [node[t] EXCEPT !.spans = X]
<1>3. /\ node[t] \in TrxRecord /\ S \subseteq Nodes /\ IsFiniteSet(S) /\ Cardinality(S) <= MaxSpans + 1
      /\ Cardinality(S) \in Nat
      /\ \A m \in S : /\ node[m].kind = "span" /\ node[m].trx = t /\ node[m].finished
                      /\ m \notin Range(finishing)
      /\ (node[t].open \/ S # {} => node[t].client)
  BY <1>1, <1>2, KindFacts, FS_CardinalityType DEF Collected, IsTrx, IsSpan
<1>4. n \notin S  BY <1>1, <1>3
<1>5. lost[n] = <<>>  BY <1>1, <1>2, <1>4 DEF LostMatches, IsSpan
<1>6. /\ q \in SpanRecord /\ q.kind = "span" /\ q.finished /\ q.trx = t /\ Alike(node[n], q)
  <2>1. /\ q.kind = r.kind /\ q.finished /\ q.trx = r.trx /\ q.sampled = r.sampled
        /\ q.trace = r.trace /\ q.parent = r.parent /\ q \in SpanRecord
    BY DEF Pushed, SpanRecord
  <2> QED  BY <1>1, <1>2, <2>1 DEF Pushed, Same, Alike
<1>7. /\ X \subseteq Nodes /\ IsFiniteSet(X) /\ Cardinality(X) <= MaxSpans + 1
      /\ (X # S => X = S \cup {n} /\ node[t].open /\ room)
  <2>1. CASE node[t].open /\ room
    <3>1. Cardinality(S \cup {n}) = Cardinality(S) + 1 /\ IsFiniteSet(S \cup {n})
      BY <1>3, <1>4, FS_AddElement
    <3> QED  BY <1>3, <2>1, <3>1, MaxSpansAssumption
  <2>2. CASE ~(node[t].open /\ room)
    BY <1>3, <2>2
  <2> QED  BY <2>1, <2>2
<1>8. /\ w \in TrxRecord /\ w.kind = "trx" /\ w.spans = X /\ w.open = node[t].open
      /\ w.client = node[t].client /\ w.sampled = node[t].sampled /\ w.trace = node[t].trace
      /\ Alike(node[t], w)
  <2>1. /\ w.kind = node[t].kind /\ w.spans = X /\ w.open = node[t].open
        /\ w.client = node[t].client /\ w.sampled = node[t].sampled /\ w.trace = node[t].trace
        /\ w.parent = node[t].parent /\ w.incoming = node[t].incoming /\ w \in TrxRecord
    BY <1>3, <1>7 DEF TrxRecord
  <2> QED  BY <1>2, <2>1 DEF Alike
<1>9. /\ node' \in [Nodes -> {Free} \cup TrxRecord \cup SpanRecord]
      /\ node'[n] = q /\ node'[t] = w /\ \A m \in Nodes : m \notin {n, t} => node'[m] = node[m]
  <2>1. node' = [node EXCEPT ![n] = q, ![t] = w]
    BY <1>1, <1>2 DEF Pushed, PushSpan, PerfTyped
  <2> QED  BY <1>1, <1>2, <1>6, <1>8, <2>1 DEF PerfTyped
<1> HIDE DEF q, w, X
<1>10. ASSUME NEW m \in Nodes
       PROVE  lost'[m] = IF m = n /\ node[t].open /\ ~room THEN <<"BufferOverflow">> ELSE lost[m]
  <2>1. CASE node[t].open /\ ~room
    <3>1. lost' = Lose({n}, "BufferOverflow")  BY <1>2, <2>1 DEF Pushed, PushSpan
    <3>2. lost'[m] = IF m = n THEN Append(lost[m], "BufferOverflow") ELSE lost[m]
      BY <3>1 DEF Lose
    <3>3. Append(<<>>, "BufferOverflow") = <<"BufferOverflow">>  OBVIOUS
    <3>4. CASE m = n  BY <1>5, <2>1, <3>2, <3>3, <3>4
    <3>5. CASE m # n  BY <3>2, <3>5
    <3> QED  BY <3>4, <3>5
  <2>2. CASE ~(node[t].open /\ ~room)
    <3>1. lost' = lost  BY <1>2, <2>2 DEF Pushed, PushSpan
    <3> QED  BY <2>2, <3>1
  <2> QED  BY <2>1, <2>2
<1>11. PerfTyped'
  <2>1. lost' \in [Nodes -> Seq({"SampleRate", "BufferOverflow"})]
    <3>1. \A m \in Nodes : lost'[m] \in Seq({"SampleRate", "BufferOverflow"})
      <4>1. ASSUME NEW m \in Nodes
            PROVE /\ lost[m] \in Seq({"SampleRate", "BufferOverflow"})
                  /\ <<"BufferOverflow">> \in Seq({"SampleRate", "BufferOverflow"})
        BY <1>1 DEF PerfTyped
      <4> QED  BY <1>10, <4>1
    <3>2. \E f : lost' = [m \in Nodes |-> f[m]]
      <4>1. lost = [m \in Nodes |-> lost[m]]  BY <1>1 DEF PerfTyped
      <4>2. CASE node[t].open /\ ~room
        <5>1. lost' = Lose({n}, "BufferOverflow")  BY <1>2, <4>2 DEF Pushed, PushSpan
        <5>2. lost' = [m \in Nodes |-> lost'[m]]  BY <5>1 DEF Lose
        <5> QED  BY <5>2
      <4>3. CASE ~(node[t].open /\ ~room)
        <5>1. lost' = lost  BY <1>2, <4>3 DEF Pushed, PushSpan
        <5> QED  BY <4>1, <5>1
      <4> QED  BY <4>2, <4>3
    <3> QED  BY <3>1, <3>2
  <2>2. finishing' \in [Threads -> Nodes \cup {None}]  BY <1>1 DEF PerfTyped, Pushed
  <2> QED  BY <1>1, <1>9, <2>1, <2>2 DEF PerfTyped
<1>12. \A m \in Nodes : Alike(node[m], node'[m])
  BY <1>6, <1>8, <1>9 DEF Alike
<1>13. Branches' /\ ForeignTraces'
  BY <1>1, <1>11, <1>12, KeptShape
<1>14. \A u \in Threads : /\ finishing'[u] = IF finishing[u] = n THEN None ELSE finishing[u]
                          /\ finishing[u] \in Nodes \cup {None} /\ None # n
  BY <1>1, NodesAssumption DEF PerfTyped, Pushed
<1>15. \A m \in Nodes : m \in Range(finishing)' <=> m \in Range(finishing) /\ m # n
  <2>1. DOMAIN finishing = Threads /\ DOMAIN finishing' = Threads  BY <1>1, <1>11 DEF PerfTyped
  <2> QED  BY <1>14, <2>1, NodesAssumption DEF Range
<1>16. Marked'
  <2>1. ASSUME NEW u \in Threads, finishing'[u] # None
        PROVE  node'[finishing'[u]].kind = "span" /\ node'[finishing'[u]].finished
    <3>1. /\ finishing'[u] = finishing[u] /\ finishing[u] \in Nodes /\ finishing[u] # n
      BY <1>14, <2>1
    <3>2. node[finishing[u]].kind = "span" /\ node[finishing[u]].finished
      BY <1>1, <2>1, <3>1 DEF Marked, IsSpan
    <3>3. node'[finishing[u]] = node[finishing[u]]  BY <1>2, <1>9, <3>1, <3>2
    <3> QED  BY <3>1, <3>2, <3>3
  <2>2. ASSUME NEW u \in Threads, NEW v \in Threads, finishing'[u] = finishing'[v], finishing'[u] # None
        PROVE  u = v
    <3>1. finishing[u] = finishing[v] /\ finishing[u] # None  BY <1>14, <2>2
    <3> QED  BY <1>1, <3>1 DEF Marked
  <2> QED  BY <2>1, <2>2 DEF Marked, IsSpan
<1>17. Collected'
  <2> SUFFICES ASSUME NEW m \in Nodes, node'[m].kind = "trx"
               PROVE  /\ node'[m].open \/ node'[m].spans # {} => node'[m].client
                      /\ IsFiniteSet(node'[m].spans) /\ Cardinality(node'[m].spans) <= MaxSpans + 1
                      /\ \A k \in node'[m].spans :
                           /\ node'[k].kind = "span" /\ node'[k].trx = m /\ node'[k].finished
                           /\ k \notin Range(finishing)'
    BY DEF Collected, IsTrx, IsSpan
  <2>0. m # n /\ node[m].kind = "trx"  BY <1>6, <1>9, <1>12 DEF Alike
  <2>1. CASE m = t
    <3>1. node'[m] = w  BY <1>9, <2>1
    <3>2. ASSUME NEW k \in X
          PROVE  /\ node'[k].kind = "span" /\ node'[k].trx = t /\ node'[k].finished
                 /\ k \notin Range(finishing)' /\ node[t].client
      <4>1. CASE k = n
        <5>1. node[t].open  BY <1>4, <1>7, <3>2, <4>1
        <5> QED  BY <1>3, <1>6, <1>9, <1>15, <4>1, <5>1
      <4>2. CASE k # n
        <5>1. k \in S /\ k \in Nodes  BY <1>3, <1>7, <3>2, <4>2
        <5>2. k # t  BY <1>2, <1>3, <5>1
        <5> QED  BY <1>3, <1>9, <1>15, <4>2, <5>1, <5>2
      <4> QED  BY <4>1, <4>2
    <3>3. node[t].open => node[t].client  BY <1>3
    <3>4. X # {} => node[t].client  BY <3>2
    <3> QED  BY <1>7, <1>8, <2>1, <3>1, <3>2, <3>3, <3>4
  <2>2. CASE m # t
    <3>1. node'[m] = node[m] /\ node[m].spans \subseteq Nodes  BY <1>1, <1>9, <2>0, <2>2, KindFacts
    <3>2. /\ node[m].open \/ node[m].spans # {} => node[m].client
          /\ IsFiniteSet(node[m].spans) /\ Cardinality(node[m].spans) <= MaxSpans + 1
          /\ \A k \in node[m].spans :
               node[k].kind = "span" /\ node[k].trx = m /\ node[k].finished /\ k \notin Range(finishing)
      BY <1>1, <2>0 DEF Collected, IsTrx, IsSpan
    <3>3. \A k \in node[m].spans : k \notin {n, t} /\ node'[k] = node[k]
      BY <1>2, <1>9, <2>2, <3>1, <3>2, ZenonT(120)
    <3> QED  BY <1>15, <3>1, <3>2, <3>3
  <2> QED  BY <2>1, <2>2
<1>18. SentMatches'
  <2>1. \A m \in Nodes : node'[m].kind = "trx" => m # n /\ node[m].kind = "trx"
    BY <1>6, <1>9, <1>12 DEF Alike
  <2>2. ASSUME NEW m \in Nodes, node[m].kind = "trx"
        PROVE  /\ node'[m].kind = "trx" /\ (~node[m].open <=> ~node'[m].open)
               /\ (node[m].client <=> node'[m].client) /\ (node[m].sampled <=> node'[m].sampled)
               /\ node'[m].trace = node[m].trace
               /\ (~node[m].open => node'[m].spans = node[m].spans)
    <3>1. CASE m = t  BY <1>7, <1>8, <1>9, <3>1
    <3>2. CASE m # t
      <4>1. node'[m] = node[m]  BY <1>1, <1>9, <2>2, <3>2
      <4> QED  BY <2>2, <4>1
    <3> QED  BY <3>1, <3>2
  <2>3. ASSUME NEW i \in DOMAIN sent
        PROVE  /\ node'[sent[i].trx].kind = "trx" /\ ~node'[sent[i].trx].open
               /\ node'[sent[i].trx].client /\ node'[sent[i].trx].sampled
               /\ sent[i].spans = node'[sent[i].trx].spans
               /\ sent[i].trace = node'[sent[i].trx].trace
    <3>1. PICK m \in Nodes : m = sent[i].trx  BY <1>1, SentFacts
    <3>2. /\ node[m].kind = "trx" /\ ~node[m].open /\ node[m].client /\ node[m].sampled
          /\ sent[i].spans = node[m].spans /\ sent[i].trace = node[m].trace
      BY <1>1, <3>1 DEF SentMatches, IsTrx
    <3> QED  BY <2>2, <3>1, <3>2
  <2>4. ASSUME NEW m \in Nodes, node'[m].kind = "trx", node'[m].client, ~node'[m].open, node'[m].sampled
        PROVE  \E i \in DOMAIN sent : sent[i].trx = m
    BY <1>1, <2>1, <2>2, <2>4 DEF SentMatches, IsTrx
  <2> QED  BY <1>1, <2>3, <2>4 DEF SentMatches, IsTrx
<1>19. LostMatches'
  <2>1. ASSUME NEW m \in Nodes
        PROVE  /\ node'[m] = Free => lost'[m] = <<>>
               /\ node'[m].kind = "trx" =>
                    lost'[m] = IF node'[m].client /\ ~node'[m].open /\ ~node'[m].sampled
                               THEN <<"SampleRate">> ELSE <<>>
    <3>0. /\ node[m] = Free => lost[m] = <<>>
          /\ node[m].kind = "trx" =>
                  lost[m] = IF node[m].client /\ ~node[m].open /\ ~node[m].sampled
                             THEN <<"SampleRate">> ELSE <<>>
      BY <1>1 DEF LostMatches, IsTrx
    <3>1. CASE m = n  BY <1>6, <1>9, <3>1 DEF Free
    <3>2. CASE m = t
      <4>1. lost'[m] = lost[m]  BY <1>2, <1>10, <3>2
      <4>2. /\ node'[m] # Free /\ node'[m].client = node[t].client
            /\ node'[m].open = node[t].open /\ node'[m].sampled = node[t].sampled
        BY <1>8, <1>9, <3>2 DEF Free
      <4> QED  BY <1>2, <3>0, <3>2, <4>1, <4>2
    <3>3. CASE m \notin {n, t}
      <4>1. lost'[m] = lost[m]  BY <1>10, <3>3
      <4>2. node'[m] = node[m]  BY <1>9, <3>3
      <4> QED  BY <3>0, <4>1, <4>2
    <3> QED  BY <3>1, <3>2, <3>3
  <2>2. ASSUME NEW m \in Nodes, node'[m].kind = "span"
        PROVE  LET x == node'[node'[m].trx] IN
               /\ m \in x.spans => lost'[m] = IF x.open \/ x.sampled THEN <<>> ELSE <<"SampleRate">>
               /\ m \notin x.spans => lost'[m] \in {<<>>, <<"BufferOverflow">>}
               /\ m \notin x.spans /\ lost'[m] # <<>> =>
                    /\ node'[m].finished /\ m \notin Range(finishing)'
                    /\ Cardinality(x.spans) = MaxSpans + 1
               /\ m \notin x.spans /\ node'[m].finished /\ m \notin Range(finishing)' /\ x.open
                    => lost'[m] # <<>>
    <3>1. CASE m = n
      <4>1. node'[node'[m].trx] = w /\ node'[m].finished  BY <1>6, <1>9, <3>1
      <4>2. m \notin Range(finishing)'  BY <1>15, <3>1
      <4>3. CASE node[t].open /\ room
        <5>1. X = S \cup {n} /\ lost'[m] = <<>>  BY <1>5, <1>10, <3>1, <4>3 DEF X
        <5> QED  BY <1>8, <3>1, <4>1, <4>3, <5>1
      <4>4. CASE node[t].open /\ ~room
        <5>1. X = S /\ lost'[m] = <<"BufferOverflow">>  BY <1>10, <3>1, <4>4 DEF X
        <5>2. Cardinality(S) = MaxSpans + 1  BY <1>3, <4>4, MaxSpansAssumption
        <5>3. <<"BufferOverflow">> # <<>>  OBVIOUS
        <5> QED  BY <1>4, <1>8, <3>1, <4>1, <4>2, <5>1, <5>2, <5>3
      <4>5. CASE ~node[t].open
        <5>1. X = S /\ lost'[m] = <<>>  BY <1>5, <1>10, <3>1, <4>5 DEF X
        <5> QED  BY <1>4, <1>8, <3>1, <4>1, <4>5, <5>1
      <4> QED  BY <4>3, <4>4, <4>5
    <3>2. CASE m # n
      <4>1. m # t /\ node'[m] = node[m]  BY <1>8, <1>9, <2>2, <3>2
      <4>2. lost'[m] = lost[m] /\ (m \in Range(finishing)' <=> m \in Range(finishing))
        BY <1>10, <1>15, <3>2
      <4>3. PICK y \in Nodes : y = node[m].trx /\ node[m].kind = "span" /\ node[y].kind = "trx"
        <5>1. node[m].kind = "span" /\ node[m].trx \in Nodes  BY <1>1, <2>2, <4>1, KindFacts
        <5> QED  BY <1>1, <5>1 DEF Branches, IsTrx, IsSpan
      <4>4. /\ m \in node[y].spans => lost[m] = IF node[y].open \/ node[y].sampled THEN <<>> ELSE <<"SampleRate">>
            /\ m \notin node[y].spans => lost[m] \in {<<>>, <<"BufferOverflow">>}
            /\ m \notin node[y].spans /\ lost[m] # <<>> =>
                 /\ node[m].finished /\ m \notin Range(finishing)
                 /\ Cardinality(node[y].spans) = MaxSpans + 1
            /\ m \notin node[y].spans /\ node[m].finished /\ m \notin Range(finishing) /\ node[y].open
                 => lost[m] # <<>>
        BY <1>1, <4>3 DEF LostMatches, IsSpan
      <4>5. CASE y = t
        <5>1. node'[node'[m].trx] = w  BY <1>9, <4>1, <4>3, <4>5
        <5>2. m \in X <=> m \in S  BY <1>7, <3>2
        <5>3. Cardinality(S) = MaxSpans + 1 => X = S  BY <1>3, <1>7, MaxSpansAssumption
        <5> QED  BY <1>8, <4>1, <4>2, <4>4, <4>5, <5>1, <5>2, <5>3
      <4>6. CASE y # t
        <5>1. node'[node'[m].trx] = node[y]  BY <1>1, <1>9, <4>1, <4>3, <4>6
        <5> QED  BY <4>1, <4>2, <4>4, <5>1
      <4> QED  BY <4>5, <4>6
    <3> QED  BY <3>1, <3>2
  <2> QED  BY <2>1, <2>2 DEF LostMatches, IsSpan, IsTrx
<1> QED  BY <1>11, <1>13, <1>16, <1>17, <1>18, <1>19 DEF Perf, Accounted

LEMMA MarkingStep ==
  ASSUME Perf, NEW u \in Threads, NEW n \in Nodes, FinishSpanStart(u, n)
  PROVE  Perf'
<1> DEFINE q == [node[n] EXCEPT !.finished = TRUE]
<1>1. /\ PerfTyped /\ Marked /\ Collected /\ SentMatches /\ LostMatches /\ Branches
      /\ ForeignTraces
      /\ options' = options /\ sent' = sent /\ lost' = lost
      /\ node[n].kind = "span" /\ ~node[n].finished /\ finishing[u] = None
  BY DEF Perf, Accounted, FinishSpanStart, IsSpan
<1>2. /\ q \in SpanRecord /\ q.kind = "span" /\ q.finished /\ q.trx = node[n].trx /\ Alike(node[n], q)
  <2>1. node[n] \in SpanRecord  BY <1>1, KindFacts
  <2>2. /\ q.kind = node[n].kind /\ q.finished /\ q.trx = node[n].trx /\ q.sampled = node[n].sampled
        /\ q.trace = node[n].trace /\ q.parent = node[n].parent /\ q \in SpanRecord
    BY <2>1 DEF SpanRecord
  <2> QED  BY <1>1, <2>2 DEF Alike
<1>3. /\ node' \in [Nodes -> {Free} \cup TrxRecord \cup SpanRecord]
      /\ node'[n] = q /\ \A m \in Nodes : m # n => node'[m] = node[m]
  <2>1. node' = [node EXCEPT ![n] = q]
    BY <1>1 DEF FinishSpanStart, PerfTyped
  <2> QED  BY <1>1, <1>2, <2>1 DEF PerfTyped
<1> HIDE DEF q
<1>4. /\ finishing' \in [Threads -> Nodes \cup {None}] /\ finishing'[u] = n
      /\ \A v \in Threads : v # u => finishing'[v] = finishing[v]
      /\ \A v \in Threads : finishing[v] # n /\ finishing[v] \in Nodes \cup {None}
  <2>1. finishing \in [Threads -> Nodes \cup {None}] /\ finishing' = [finishing EXCEPT ![u] = n]
    BY <1>1 DEF FinishSpanStart, PerfTyped
  <2>2. \A v \in Threads : finishing[v] # n
    BY <1>1, <2>1, NodesAssumption DEF Marked
  <2> QED  BY <2>1, <2>2
<1>5. PerfTyped'  BY <1>1, <1>3, <1>4 DEF PerfTyped
<1>6. \A m \in Nodes : Alike(node[m], node'[m])
  BY <1>2, <1>3 DEF Alike
<1>7. Branches' /\ ForeignTraces'
  BY <1>1, <1>5, <1>6, KeptShape
<1>8. \A m \in Nodes : m \in Range(finishing)' <=> m \in Range(finishing) \/ m = n
  <2>1. DOMAIN finishing = Threads /\ DOMAIN finishing' = Threads  BY <1>1, <1>5 DEF PerfTyped
  <2> QED  BY <1>1, <1>4, <2>1, NodesAssumption DEF Range
<1>9. /\ n \notin node[node[n].trx].spans /\ lost[n] = <<>> /\ n \notin Range(finishing)
      /\ \A m \in Nodes : node[m].kind = "trx" => n \notin node[m].spans
  <2>1. \A m \in Nodes : node[m].kind = "trx" => n \notin node[m].spans
    BY <1>1 DEF Collected, IsTrx
  <2>2. node[n].trx \in Nodes /\ node[node[n].trx].kind = "trx"
    BY <1>1, KindFacts DEF Branches, IsTrx, IsSpan
  <2>3. DOMAIN finishing = Threads  BY <1>1 DEF PerfTyped
  <2>4. n \notin Range(finishing)  BY <1>4, <2>3 DEF Range
  <2> QED  BY <1>1, <2>1, <2>2, <2>4 DEF LostMatches, IsSpan
<1>10. Marked'
  <2>1. ASSUME NEW v \in Threads, finishing'[v] # None
        PROVE  node'[finishing'[v]].kind = "span" /\ node'[finishing'[v]].finished
    <3>1. CASE v = u  BY <1>2, <1>3, <1>4, <3>1
    <3>2. CASE v # u
      <4>1. finishing'[v] = finishing[v] /\ finishing[v] \in Nodes /\ finishing[v] # n
        BY <1>4, <2>1, <3>2
      <4> QED  BY <1>1, <1>3, <2>1, <4>1 DEF Marked, IsSpan
    <3> QED  BY <3>1, <3>2
  <2> QED  BY <1>1, <1>4, <2>1 DEF Marked, IsSpan
<1>11. Collected'
  <2> SUFFICES ASSUME NEW m \in Nodes, node'[m].kind = "trx"
               PROVE  /\ node'[m].open \/ node'[m].spans # {} => node'[m].client
                      /\ IsFiniteSet(node'[m].spans) /\ Cardinality(node'[m].spans) <= MaxSpans + 1
                      /\ \A k \in node'[m].spans :
                           /\ node'[k].kind = "span" /\ node'[k].trx = m /\ node'[k].finished
                           /\ k \notin Range(finishing)'
    BY DEF Collected, IsTrx, IsSpan
  <2>1. node'[m] = node[m] /\ node[m].kind = "trx" /\ node[m].spans \subseteq Nodes
    BY <1>1, <1>2, <1>3, KindFacts
  <2>2. /\ node[m].open \/ node[m].spans # {} => node[m].client
        /\ IsFiniteSet(node[m].spans) /\ Cardinality(node[m].spans) <= MaxSpans + 1
        /\ \A k \in node[m].spans :
             node[k].kind = "span" /\ node[k].trx = m /\ node[k].finished /\ k \notin Range(finishing)
    BY <1>1, <2>1 DEF Collected, IsTrx, IsSpan
  <2>3. \A k \in node[m].spans : k # n /\ node'[k] = node[k]
    BY <1>3, <1>9, <2>1
  <2> QED  BY <1>8, <2>1, <2>2, <2>3
<1>12. SentMatches'
  <2>1. \A m \in Nodes : /\ node'[m].kind = "trx" <=> node[m].kind = "trx"
                         /\ node[m].kind = "trx" => node'[m] = node[m]
    BY <1>1, <1>2, <1>3
  <2> QED  BY <1>1, <2>1, SentFacts DEF SentMatches, IsTrx
<1>13. LostMatches'
  <2>1. ASSUME NEW m \in Nodes
        PROVE  /\ node'[m] = Free => lost'[m] = <<>>
               /\ node'[m].kind = "trx" =>
                    lost'[m] = IF node'[m].client /\ ~node'[m].open /\ ~node'[m].sampled
                               THEN <<"SampleRate">> ELSE <<>>
    BY <1>1, <1>2, <1>3 DEF LostMatches, IsTrx, Free
  <2>2. ASSUME NEW m \in Nodes, node'[m].kind = "span"
        PROVE  LET x == node'[node'[m].trx] IN
               /\ m \in x.spans => lost'[m] = IF x.open \/ x.sampled THEN <<>> ELSE <<"SampleRate">>
               /\ m \notin x.spans => lost'[m] \in {<<>>, <<"BufferOverflow">>}
               /\ m \notin x.spans /\ lost'[m] # <<>> =>
                    /\ node'[m].finished /\ m \notin Range(finishing)'
                    /\ Cardinality(x.spans) = MaxSpans + 1
               /\ m \notin x.spans /\ node'[m].finished /\ m \notin Range(finishing)' /\ x.open
                    => lost'[m] # <<>>
    <3>1. PICK y \in Nodes : y = node[m].trx /\ node[m].kind = "span" /\ node[y].kind = "trx"
      <4>1. node[m].kind = "span"  BY <1>1, <1>3, <2>2
      <4>2. node[m].trx \in Nodes  BY <1>1, <4>1, KindFacts
      <4> QED  BY <1>1, <4>1, <4>2 DEF Branches, IsTrx, IsSpan
    <3>2. node'[y] = node[y] /\ node'[m].trx = y  BY <1>1, <1>2, <1>3, <3>1
    <3>3. /\ m \in node[y].spans => lost[m] = IF node[y].open \/ node[y].sampled THEN <<>> ELSE <<"SampleRate">>
          /\ m \notin node[y].spans => lost[m] \in {<<>>, <<"BufferOverflow">>}
          /\ m \notin node[y].spans /\ lost[m] # <<>> =>
               /\ node[m].finished /\ m \notin Range(finishing)
               /\ Cardinality(node[y].spans) = MaxSpans + 1
          /\ m \notin node[y].spans /\ node[m].finished /\ m \notin Range(finishing) /\ node[y].open
               => lost[m] # <<>>
      BY <1>1, <3>1 DEF LostMatches, IsSpan
    <3>4. CASE m = n
      <4>1. m \notin node[y].spans /\ m \in Range(finishing)' /\ lost[m] = <<>>  BY <1>8, <1>9, <3>1, <3>4
      <4> QED  BY <1>1, <3>2, <3>3, <4>1
    <3>5. CASE m # n
      <4>1. node'[m] = node[m] /\ (m \in Range(finishing)' <=> m \in Range(finishing))
        BY <1>3, <1>8, <3>5
      <4> QED  BY <1>1, <3>2, <3>3, <4>1
    <3> QED  BY <3>4, <3>5
  <2> QED  BY <2>1, <2>2 DEF LostMatches, IsSpan, IsTrx
<1> QED  BY <1>5, <1>7, <1>10, <1>11, <1>12, <1>13 DEF Perf, Accounted

-----------------------------------------------------------------------------
(* What was promised follows.                                              *)

LEMMA PerfSettles ==
  ASSUME Perf
  PROVE  SettledOnce /\ TraceTree
<1>1. /\ PerfTyped /\ Marked /\ Collected /\ SentMatches /\ LostMatches /\ Branches
      /\ ForeignTraces
  BY DEF Perf, Accounted
<1>2. \A i \in DOMAIN sent :
        /\ sent[i].trx \in Nodes /\ node[sent[i].trx].kind = "trx" /\ ~node[sent[i].trx].open
        /\ node[sent[i].trx].sampled
        /\ sent[i].spans = node[sent[i].trx].spans /\ sent[i].trace = node[sent[i].trx].trace
  BY <1>1, SentFacts DEF SentMatches, IsTrx
<1>3. \A n \in Nodes : node[n].kind = "trx" => node[n].spans \subseteq Nodes
        /\ \A m \in node[n].spans : node[m].kind = "span" /\ node[m].trx = n
  BY <1>1, KindFacts DEF Collected, IsTrx, IsSpan
<1>4. <<"SampleRate">> # <<>> /\ <<"BufferOverflow">> # <<>> /\ Len(<<"SampleRate">>) = 1
      /\ Len(<<"BufferOverflow">>) = 1 /\ Len(<<>>) = 0 /\ <<"SampleRate">> # <<"BufferOverflow">>
  OBVIOUS
<1>5. NothingVanishes
  <2>1. ASSUME NEW n \in Nodes, IsSpan(n), node[n].finished, n \notin Range(finishing), node[node[n].trx].open
        PROVE  n \in node[node[n].trx].spans \/ lost[n] # <<>>
    <3>1. CASE n \notin node[node[n].trx].spans  BY <1>1, <2>1, <3>1 DEF LostMatches
    <3> QED  BY <3>1
  <2>2. ASSUME NEW n \in Nodes, IsTrx(n), node[n].client, ~node[n].open, NEW m \in {n} \cup node[n].spans
        PROVE  InEnvelope(m) # {} \/ lost[m] # <<>>
    <3>1. CASE node[n].sampled
      <4>1. PICK i \in DOMAIN sent : sent[i].trx = n  BY <1>1, <2>2, <3>1 DEF SentMatches
      <4>2. i \in InEnvelope(m)  BY <1>2, <2>2, <4>1 DEF InEnvelope
      <4> QED  BY <4>2
    <3>2. CASE ~node[n].sampled
      <4>1. lost[n] = <<"SampleRate">>  BY <1>1, <2>2, <3>2 DEF LostMatches
      <4>2. m # n => lost[m] = <<"SampleRate">>
        BY <1>1, <1>3, <2>2, <3>2 DEF LostMatches, IsSpan, IsTrx
      <4> QED  BY <1>4, <4>1, <4>2
    <3> QED  BY <3>1, <3>2
  <2> QED  BY <2>1, <2>2 DEF NothingVanishes
<1>6. SpanLimit
  <2>1. ASSUME NEW n \in Nodes, IsTrx(n)  PROVE Cardinality(node[n].spans) <= MaxSpans + 1
    BY <1>1, <2>1 DEF Collected
  <2>2. ASSUME NEW n \in Nodes, IsSpan(n), lost[n] = <<"BufferOverflow">>
        PROVE  Cardinality(node[node[n].trx].spans) = MaxSpans + 1
    <3>1. n \notin node[node[n].trx].spans  BY <1>1, <1>4, <2>2 DEF LostMatches
    <3> QED  BY <1>1, <1>4, <2>2, <3>1 DEF LostMatches
  <2> QED  BY <2>1, <2>2 DEF SpanLimit
<1>7. ASSUME NEW n \in Nodes
      PROVE  Cardinality(InEnvelope(n)) + Len(lost[n]) <= 1
  <2>1. ASSUME NEW i \in InEnvelope(n)
        PROVE  lost[n] = <<>> /\ sent[i].trx = IF node[n].kind = "trx" THEN n ELSE node[n].trx
    <3>1. i \in DOMAIN sent /\ (n = sent[i].trx \/ n \in sent[i].spans)  BY <2>1 DEF InEnvelope
    <3>2. CASE n = sent[i].trx
      BY <1>1, <1>2, <3>1, <3>2 DEF LostMatches, IsTrx
    <3>3. CASE n \in sent[i].spans
      <4>1. node[n].kind = "span" /\ node[n].trx = sent[i].trx /\ n \in node[sent[i].trx].spans
        BY <1>2, <1>3, <3>1, <3>3
      <4>2. lost[n] = <<>>  BY <1>1, <1>2, <3>1, <4>1 DEF LostMatches, IsSpan
      <4> QED  BY <4>1, <4>2
    <3> QED  BY <3>1, <3>2, <3>3
  <2>2. CASE InEnvelope(n) = {}
    <3>1. Cardinality(InEnvelope(n)) = 0  BY <2>2, FS_EmptySet
    <3>2. Len(lost[n]) \in {0, 1}
      <4>1. node[n] = Free \/ node[n].kind = "trx" \/ node[n].kind = "span"  BY <1>1, KindFacts
      <4>2. lost[n] \in {<<>>, <<"SampleRate">>, <<"BufferOverflow">>}
        <5>1. CASE node[n] = Free  BY <1>1, <5>1 DEF LostMatches
        <5>2. CASE node[n].kind = "trx"  BY <1>1, <5>2 DEF LostMatches, IsTrx
        <5>3. CASE node[n].kind = "span"
          <6>1. n \in node[node[n].trx].spans => lost[n] \in {<<>>, <<"SampleRate">>}
            BY <1>1, <5>3 DEF LostMatches, IsSpan
          <6>2. n \notin node[node[n].trx].spans => lost[n] \in {<<>>, <<"BufferOverflow">>}
            BY <1>1, <5>3 DEF LostMatches, IsSpan
          <6> QED  BY <6>1, <6>2
        <5> QED  BY <4>1, <5>1, <5>2, <5>3
      <4>3. CASE lost[n] = <<>>  BY <4>3
      <4>4. CASE lost[n] = <<"SampleRate">>  BY <4>4
      <4>5. CASE lost[n] = <<"BufferOverflow">>  BY <4>5
      <4> QED  BY <4>2, <4>3, <4>4, <4>5
    <3>3. \A c, l : c = 0 /\ l \in {0, 1} => c + l <= 1  OBVIOUS
    <3> QED  BY <3>1, <3>2, <3>3
  <2>3. CASE InEnvelope(n) # {}
    <3>1. PICK i : i \in InEnvelope(n)  BY <2>3
    <3>2. \A j \in InEnvelope(n) : j = i
      <4>1. ASSUME NEW j \in InEnvelope(n)  PROVE sent[j].trx = sent[i].trx
        BY <2>1, <3>1
      <4>2. InEnvelope(n) \subseteq DOMAIN sent  BY DEF InEnvelope
      <4> QED  BY <1>1, <3>1, <4>1, <4>2 DEF SentMatches
    <3>3. InEnvelope(n) = {i}  BY <3>1, <3>2
    <3>4. Cardinality(InEnvelope(n)) = 1  BY <3>3, FS_Singleton
    <3> QED  BY <1>4, <2>1, <3>1, <3>4
  <2> QED  BY <2>2, <2>3
<1>8. \A i \in DOMAIN sent : \A m \in sent[i].spans : node[m].trace = sent[i].trace
  BY <1>1, <1>2, <1>3 DEF Branches, IsSpan
<1> QED  BY <1>1, <1>5, <1>6, <1>7, <1>8 DEF SettledOnce, TraceTree

-----------------------------------------------------------------------------
(* The calls of the SDK, each of them one of these steps.  What was        *)
(* started stays what it is.                                               *)

Grows == \A m \in Nodes : node[m] # Free => node'[m] # Free /\ Alike(node[m], node'[m])

\* A call about n leaves the others as finished as they were.
Others(n) ==
  \A m \in Nodes \ {n} :
    /\ node[m].kind = "trx" => node'[m].open = node[m].open /\ node'[m].status = node[m].status
    /\ node[m].kind = "span" => node'[m].finished = node[m].finished

\* The contexts transactions are started from.
GoodContext(c) ==
  /\ c.trace \in Nodes \cup {Remote} /\ c.parent \in Nodes \cup {None, Remote}
  /\ c.sampled \in BOOLEAN \cup {None} /\ c.incoming \in Headers \cup {None}
  /\ c.incoming # None => c.sampled = c.incoming.sampled

LEMMA Contexts ==
  ASSUME PerfTyped, NEW n \in Nodes
  PROVE  /\ \A trace \in Nodes \cup {Remote} : GoodContext([NewContext(n) EXCEPT !.trace = trace])
         /\ \A h \in Headers \cup {None} : GoodContext(ContinueFromHeaders(n, h))
         /\ \A s \in Nodes : node[s] # Free => GoodContext(ContinueFromSpan(n, s))
         /\ GoodContext(NewContext(n))
<1>1. GoodContext(NewContext(n))  BY DEF GoodContext, NewContext
<1>2. ASSUME NEW trace \in Nodes \cup {Remote}
      PROVE  GoodContext([NewContext(n) EXCEPT !.trace = trace])
  BY DEF GoodContext, NewContext
<1>3. ASSUME NEW h \in Headers \cup {None}  PROVE GoodContext(ContinueFromHeaders(n, h))
  <2>1. CASE h = None  BY <1>1, <2>1 DEF ContinueFromHeaders
  <2>2. CASE h # None
    <3>1. h \in Headers /\ h.sampled \in BOOLEAN \cup {None}  BY <2>2, HeadersAssumption
    <3> QED  BY <2>2, <3>1 DEF ContinueFromHeaders, GoodContext
  <2> QED  BY <2>1, <2>2
<1>4. ASSUME NEW s \in Nodes, node[s] # Free  PROVE GoodContext(ContinueFromSpan(n, s))
  <2>1. node[s].trace \in Nodes \cup {Remote} /\ node[s].sampled \in BOOLEAN
    BY <1>4, KindFacts DEF TrxRecord, SpanRecord
  <2>2. s # None  BY NodesAssumption
  <2> QED  BY <2>1, <2>2 DEF ContinueFromSpan, GoodContext
<1> QED  BY <1>1, <1>2, <1>3, <1>4

LEMMA AddedGrows ==
  ASSUME PerfTyped, NEW n \in Nodes, node[n] = Free, NEW r, node' = [node EXCEPT ![n] = r]
  PROVE  Grows /\ Others(n)
<1>1. \A m \in Nodes : m # n => node'[m] = node[m]  BY DEF PerfTyped
<1> QED  BY <1>1 DEF Grows, Alike, Others

LEMMA StartTransactionStep ==
  ASSUME Perf, NEW n \in Nodes, node[n] = Free, NEW ctx, GoodContext(ctx), NEW client \in BOOLEAN,
         StartTransaction(n, ctx, client), UNCHANGED <<options, sent, lost, finishing>>
  PROVE  /\ Perf' /\ Grows /\ Others(n)
         /\ node'[n].kind = "trx" /\ node'[n].client = client /\ node'[n].open = client
         /\ node'[n].trace \in {ctx.trace, n}
<1>1. PerfTyped  BY DEF Perf, Accounted
<1> DEFINE c == IF client THEN Admitted(n, ctx) ELSE ctx
           R(sampled) ==
             [kind |-> "trx", client |-> client, open |-> client, sampled |-> sampled,
              trace |-> c.trace, parent |-> c.parent, incoming |-> c.incoming,
              spans |-> {}, status |-> None, data |-> FALSE]
<1>2. PICK sampled \in IF client THEN Decisions(c) ELSE {c.sampled = TRUE} :
        node' = [node EXCEPT ![n] = R(sampled)]
  BY DEF StartTransaction
<1>3. GoodContext(c) /\ c.trace \in {ctx.trace, n}
  <2>1. CASE c = ctx  BY <2>1
  <2>2. CASE c = NewContext(n)
    <3>1. NewContext(n).trace = n  BY DEF NewContext
    <3> QED  BY <1>1, <2>2, <3>1, Contexts
  <2> QED  BY <2>1, <2>2 DEF Admitted
<1>4. client /\ c.incoming # None => ShouldContinueTrace(c.incoming.org, options.org)
  <2>1. NewContext(n).incoming = None  BY DEF NewContext
  <2> QED  BY <2>1 DEF Admitted
<1> HIDE DEF c
<1>5. sampled \in BOOLEAN
  BY <1>2, <1>3 DEF Decisions, GoodContext
<1>6. R(sampled) \in TrxRecord
  BY <1>3, <1>5 DEF GoodContext, TrxRecord
<1>7. MayJoin(R(sampled))
  <2> SUFFICES ASSUME client, c.incoming # None
               PROVE  /\ None \notin {c.incoming.org, options.org} => c.incoming.org = options.org
                      /\ options.strict => c.incoming.org = options.org
                      /\ options.strategy \notin {"function", "disabled"} /\ c.incoming.sampled # None
                           => sampled = c.incoming.sampled
    BY DEF MayJoin
  <2>1. ShouldContinueTrace(c.incoming.org, options.org)  BY <1>4
  <2>2. options.strategy \notin {"function", "disabled"} /\ c.incoming.sampled # None
          => sampled = c.incoming.sampled
    <3>1. c.sampled = c.incoming.sampled  BY <1>3 DEF GoodContext
    <3>2. sampled \in Decisions(c)  BY <1>2
    <3> QED  BY <3>1, <3>2 DEF Decisions
  <2> QED  BY <2>1, <2>2 DEF ShouldContinueTrace
<1>8. Started(n, R(sampled))
  BY <1>2, <1>6, <1>7 DEF Started
<1>9. node'[n] = R(sampled)
  BY <1>1, <1>2 DEF PerfTyped
<1>10. Perf'  BY <1>8, StartedStep
<1>11. Grows /\ Others(n)  BY <1>1, <1>2, AddedGrows
<1> QED  BY <1>3, <1>9, <1>10, <1>11

LEMMA StartChildStep ==
  ASSUME Perf, NEW n \in Nodes, NEW p \in Nodes, node[n] = Free, node[p] # Free,
         StartChild(n, p), UNCHANGED <<options, sent, lost, finishing>>
  PROVE  /\ Perf' /\ Grows /\ Others(n)
         /\ node'[n].kind = "span" /\ node'[n].parent = p /\ ~node'[n].finished
         /\ node'[n].trx = TrxOf(p) /\ node'[n].trace = node[p].trace
<1> DEFINE r == [kind |-> "span", trx |-> TrxOf(p), sampled |-> node[p].sampled, trace |-> node[p].trace,
                 parent |-> p, finished |-> FALSE, status |-> None]
<1>1. PerfTyped /\ Branches  BY DEF Perf, Accounted
<1>2. /\ TrxOf(p) \in Nodes /\ node[TrxOf(p)].kind = "trx"
      /\ node[p].trace = node[TrxOf(p)].trace /\ node[p].sampled = node[TrxOf(p)].sampled
      /\ node[p].trace \in Nodes \cup {Remote} /\ node[p].sampled \in BOOLEAN
  <2>1. node[p].kind = "trx" \/ node[p].kind = "span"  BY <1>1, KindFacts
  <2>2. node[p].trace \in Nodes \cup {Remote} /\ node[p].sampled \in BOOLEAN
    BY <1>1, <2>1, KindFacts DEF TrxRecord, SpanRecord
  <2>3. CASE node[p].kind = "trx"  BY <2>2, <2>3 DEF TrxOf, IsTrx
  <2>4. CASE node[p].kind = "span"  BY <1>1, <2>2, <2>4, KindFacts DEF TrxOf, IsTrx, IsSpan, Branches
  <2> QED  BY <2>1, <2>3, <2>4
<1>3. r \in SpanRecord  BY <1>2 DEF SpanRecord
<1>4. Started(n, r)
  BY <1>2, <1>3 DEF Started, StartChild, IsTrx
<1>5. node'[n] = r  BY <1>1 DEF StartChild, PerfTyped
<1>6. node' = [node EXCEPT ![n] = r]  BY DEF StartChild
<1>7. Perf'  BY <1>4, StartedStep
<1>8. Grows /\ Others(n)  BY <1>1, <1>6, AddedGrows
<1> QED  BY <1>5, <1>7, <1>8

\* The setters change nothing that matters here.
LEMMA Setters ==
  ASSUME PerfTyped, NEW n \in Nodes, node[n] # Free, NEW s \in Statuses
  PROVE  LET r == node[n] IN
         /\ \A x \in {r, WithData(r), WithStatus(r, s), WithDefaultStatus(r, s),
                      WithStatus(WithData(r), s)} :
              /\ Same(r, x) /\ x \in TrxRecord \cup SpanRecord
         /\ \A x \in {WithStatus(r, s), WithDefaultStatus(r, s), WithStatus(WithData(r), s)} :
              x.status # None
<1> DEFINE r == node[n]
<1>1. (r.kind = "trx" /\ r \in TrxRecord) \/ (r.kind = "span" /\ r \in SpanRecord)
  BY KindFacts
<1>2. s # None  BY StatusesAssumption
<1> HIDE DEF r
<1>3. CASE r.kind = "trx" /\ r \in TrxRecord
  <2>1. ASSUME NEW q \in TrxRecord, Same(r, q)
        PROVE  /\ Same(r, WithData(q)) /\ WithData(q) \in TrxRecord
               /\ Same(r, WithStatus(q, s)) /\ WithStatus(q, s) \in TrxRecord
               /\ WithStatus(q, s).status = s
    <3>1. /\ [q EXCEPT !.data = TRUE] \in TrxRecord /\ Same(r, [q EXCEPT !.data = TRUE])
      BY <2>1 DEF Same, Alike, TrxRecord
    <3>2. /\ [q EXCEPT !.status = s] \in TrxRecord /\ Same(r, [q EXCEPT !.status = s])
          /\ [q EXCEPT !.status = s].status = s
      BY <2>1 DEF Same, Alike, TrxRecord
    <3> QED  BY <2>1, <3>1, <3>2 DEF WithData, WithStatus
  <2>2. Same(r, r) /\ r \in TrxRecord  BY <1>3 DEF Same, Alike
  <2>3. WithData(r) \in TrxRecord /\ Same(r, WithData(r))  BY <2>1, <2>2
  <2>4. /\ WithDefaultStatus(r, s) \in {r, WithStatus(r, s)}
        /\ WithDefaultStatus(r, s).status # None
    <3>1. WithStatus(r, s).status = s  BY <2>1, <2>2
    <3> QED  BY <1>2, <3>1 DEF WithDefaultStatus
  <2> QED  BY <1>2, <2>1, <2>2, <2>3, <2>4 DEF r
<1>4. CASE r.kind = "span" /\ r \in SpanRecord
  <2>1. WithData(r) = r  BY <1>4 DEF WithData
  <2>2. Same(r, r) /\ r \in SpanRecord  BY <1>4 DEF Same, Alike
  <2>3. /\ WithStatus(r, s) \in SpanRecord /\ Same(r, WithStatus(r, s)) /\ WithStatus(r, s).status = s
    BY <1>4 DEF WithStatus, Same, Alike, SpanRecord
  <2>4. /\ WithDefaultStatus(r, s) \in {r, WithStatus(r, s)}
        /\ WithDefaultStatus(r, s).status # None
    BY <1>2, <2>3 DEF WithDefaultStatus
  <2> QED  BY <1>2, <2>1, <2>2, <2>3, <2>4 DEF r
<1> QED  BY <1>1, <1>3, <1>4 DEF r

LEMMA TouchStep ==
  ASSUME Perf, NEW n \in Nodes, node[n] # Free, NEW r \in TrxRecord \cup SpanRecord, Same(node[n], r),
         node' = [node EXCEPT ![n] = r], UNCHANGED <<options, sent, lost, finishing>>
  PROVE  Perf' /\ Grows /\ Others(n) /\ Same(node[n], node'[n]) /\ node'[n] = r
<1>1. PerfTyped  BY DEF Perf, Accounted
<1>2. Touched(n, r)  BY DEF Touched
<1>3. node'[n] = r /\ \A m \in Nodes : m # n => node'[m] = node[m]  BY <1>1 DEF PerfTyped
<1>4. r # Free  BY DEF TrxRecord, SpanRecord, Free
<1>5. Grows  BY <1>3, <1>4 DEF Grows, Same, Alike
<1>6. Others(n)  BY <1>3 DEF Others
<1> QED  BY <1>2, <1>3, <1>5, <1>6, TouchedStep

LEMMA PushStep ==
  ASSUME Perf, NEW n \in Nodes, NEW r, Pushed(n, r)
  PROVE  Perf' /\ Grows /\ Others(n)
<1>1. PerfTyped /\ Branches  BY DEF Perf, Accounted
<1>2. /\ node[n].kind = "span" /\ r \in SpanRecord /\ Same(node[n], r)
  BY DEF Pushed
<1>3. PICK t \in Nodes : t = node[n].trx /\ node[t].kind = "trx" /\ t # n /\ t = r.trx
  <2>1. node[n].trx \in Nodes /\ r.trx = node[n].trx  BY <1>1, <1>2, KindFacts DEF Same, Alike
  <2>2. node[node[n].trx].kind = "trx"  BY <1>1, <1>2 DEF Branches, IsTrx, IsSpan
  <2> QED  BY <1>2, <2>1, <2>2
<1>4. PICK X : node' = [node EXCEPT ![n] = [r EXCEPT !.finished = TRUE], ![t].spans = X]
  BY <1>3 DEF Pushed, PushSpan
<1> DEFINE q == [r EXCEPT !.finished = TRUE]
           w == [node[t] EXCEPT !.spans = X]
<1>5. q # Free /\ Alike(node[n], q)
  <2>1. /\ q.kind = r.kind /\ q.trx = r.trx /\ q.sampled = r.sampled
        /\ q.trace = r.trace /\ q.parent = r.parent
    BY <1>2 DEF SpanRecord
  <2> QED  BY <1>2, <2>1 DEF Same, Alike, Free
<1>6. /\ w # Free /\ Alike(node[t], w) /\ w.open = node[t].open /\ w.status = node[t].status
  <2>0. node[t] \in TrxRecord  BY <1>1, <1>3, KindFacts
  <2>1. /\ w.kind = node[t].kind /\ w.open = node[t].open /\ w.status = node[t].status
        /\ w.client = node[t].client /\ w.sampled = node[t].sampled /\ w.trace = node[t].trace
        /\ w.parent = node[t].parent /\ w.incoming = node[t].incoming
    BY <2>0 DEF TrxRecord
  <2> QED  BY <1>3, <2>1 DEF Alike, Free
<1>7. node'[n] = q /\ node'[t] = w /\ \A m \in Nodes : m \notin {n, t} => node'[m] = node[m]
  <2>1. node' = [node EXCEPT ![n] = q, ![t] = w]  BY <1>1, <1>3, <1>4 DEF PerfTyped
  <2> QED  BY <1>1, <1>3, <2>1 DEF PerfTyped
<1> HIDE DEF q, w
<1>8. Grows  BY <1>5, <1>6, <1>7 DEF Grows, Alike
<1>9. Others(n)
  <2> SUFFICES ASSUME NEW m \in Nodes \ {n}
               PROVE  /\ node[m].kind = "trx" => node'[m].open = node[m].open /\ node'[m].status = node[m].status
                      /\ node[m].kind = "span" => node'[m].finished = node[m].finished
    BY DEF Others
  <2>1. CASE m = t  BY <1>3, <1>6, <1>7, <2>1
  <2>2. CASE m # t
    <3>1. node'[m] = node[m]  BY <1>7, <2>2
    <3> QED  BY <3>1
  <2> QED  BY <2>1, <2>2
<1> QED  BY <1>8, <1>9, PushedStep

LEMMA FinishTransactionStep ==
  ASSUME Perf, NEW n \in Nodes, node[n].kind = "trx", NEW r \in TrxRecord, Same(node[n], r),
         FinishTransaction(n, r), UNCHANGED <<options, finishing>>
  PROVE  Perf' /\ Grows /\ Others(n) /\ ~node'[n].open /\ node'[n].status = r.status
<1> DEFINE q == [r EXCEPT !.open = FALSE]
<1>1. PerfTyped  BY DEF Perf, Accounted
<1>2. /\ node' = [node EXCEPT ![n] = q] /\ node'[n] = q
      /\ \A m \in Nodes : m # n => node'[m] = node[m]
  BY <1>1 DEF FinishTransaction, PerfTyped
<1>3. q \in TrxRecord /\ q # Free /\ ~q.open /\ q.status = r.status /\ Alike(node[n], q)
  <2>1. /\ q.kind = r.kind /\ ~q.open /\ q.status = r.status /\ q.spans = r.spans
        /\ q.client = r.client /\ q.sampled = r.sampled /\ q.trace = r.trace
        /\ q.parent = r.parent /\ q.incoming = r.incoming /\ q \in TrxRecord
    BY DEF TrxRecord
  <2> QED  BY <2>1 DEF Same, Alike, Free
<1>4. Perf'
  <2>1. CASE node[n].open
    <3>1. Ended(n, r)  BY <2>1 DEF Ended
    <3> QED  BY <3>1, EndedStep
  <2>2. CASE ~node[n].open
    <3>1. ~r.open /\ q = r
      <4>1. ~r.open /\ r.open \in BOOLEAN  BY <2>2 DEF Same, TrxRecord
      <4> QED  BY <4>1 DEF TrxRecord
    <3>2. UNCHANGED <<sent, lost>>  BY <3>1 DEF FinishTransaction
    <3>3. Touched(n, r)  BY <1>2, <3>1, <3>2 DEF Touched
    <3> QED  BY <3>3, TouchedStep
  <2> QED  BY <2>1, <2>2
<1> HIDE DEF q
<1>5. Grows  BY <1>2, <1>3 DEF Grows, Alike
<1>6. Others(n)  BY <1>2 DEF Others
<1> QED  BY <1>2, <1>3, <1>4, <1>5, <1>6

LEMMA FinishStep ==
  ASSUME Perf, NEW n \in Nodes, node[n] # Free, NEW r \in TrxRecord \cup SpanRecord, Same(node[n], r),
         Finish(n, r), UNCHANGED <<options, finishing>>
  PROVE  Perf' /\ Grows /\ Others(n)
<1>1. PerfTyped /\ Marked  BY DEF Perf, Accounted
<1>2. r.kind = node[n].kind /\ (r.kind = "span" => r.finished = node[n].finished /\ r \in SpanRecord)
      /\ (r.kind = "trx" => r \in TrxRecord)
  BY DEF Same, Alike, TrxRecord, SpanRecord
<1>3. CASE r.kind = "trx" /\ FinishTransaction(n, r)
  BY <1>2, <1>3, FinishTransactionStep
<1>4. CASE r.kind = "span" /\ ~r.finished /\ PushSpan(n, r)
  <2>1. \A u \in Threads : finishing[u] # n
    <3>1. n # None  BY NodesAssumption
    <3> QED  BY <1>1, <1>2, <1>4, <3>1 DEF Marked
  <2>2. finishing' = [u \in Threads |-> IF finishing[u] = n THEN None ELSE finishing[u]]
    BY <1>1, <2>1 DEF PerfTyped
  <2>3. Pushed(n, r)  BY <1>2, <1>4, <2>2 DEF Pushed
  <2> QED  BY <2>3, PushStep
<1>5. CASE r.kind = "span" /\ r.finished /\ node' = [node EXCEPT ![n] = r] /\ UNCHANGED <<sent, lost>>
  BY <1>5, TouchStep
<1> QED  BY <1>3, <1>4, <1>5 DEF Finish

-----------------------------------------------------------------------------
(* The application.                                                        *)

LEMMA AppStep ==
  ASSUME Perf, AppNext
  PROVE  Perf' /\ Grows
<1>1. PerfTyped /\ Marked  BY DEF Perf, Accounted
<1>2. ASSUME NEW n \in Nodes, AppFinishTransaction(n)  PROVE Perf' /\ Grows
  <2>1. node[n] \in TrxRecord /\ Same(node[n], node[n])
    BY <1>1, <1>2, KindFacts DEF AppFinishTransaction, IsTrx, Same, Alike
  <2> QED  BY <1>2, <2>1, FinishTransactionStep DEF AppFinishTransaction, IsTrx
<1>3. ASSUME NEW n \in Nodes, NEW h \in Headers \cup {None}, AppStart(n, h)  PROVE Perf' /\ Grows
  <2>1. PICK ctx \in {ContinueFromHeaders(n, h)} \cup
              { ContinueFromSpan(n, p) : p \in { q \in Nodes \ Range(finishing) : node[q] # Free } },
             client \in BOOLEAN : StartTransaction(n, ctx, client)
    BY <1>3 DEF AppStart
  <2>2. GoodContext(ctx)
    <3>1. CASE ctx = ContinueFromHeaders(n, h)  BY <1>1, <3>1, Contexts
    <3>2. ASSUME NEW p \in Nodes, node[p] # Free, ctx = ContinueFromSpan(n, p)  PROVE GoodContext(ctx)
      BY <1>1, <3>2, Contexts
    <3> QED  BY <2>1, <3>1, <3>2
  <2> QED  BY <1>3, <2>1, <2>2, StartTransactionStep DEF AppStart
<1>4. ASSUME NEW n \in Nodes, NEW p \in Nodes, AppChild(n, p)  PROVE Perf' /\ Grows
  BY <1>4, StartChildStep DEF AppChild
<1>5. ASSUME NEW t \in Threads, FinishSpanEnd(t)  PROVE Perf' /\ Grows
  <2>1. PICK n \in Nodes : n = finishing[t]  BY <1>1, <1>5 DEF FinishSpanEnd, PerfTyped
  <2>2. node[n].kind = "span" /\ n \in Range(finishing)
    BY <1>1, <1>5, <2>1 DEF FinishSpanEnd, Marked, IsSpan, PerfTyped, Range
  <2>3. node[n] \in SpanRecord /\ Same(node[n], node[n])
    BY <1>1, <2>2, KindFacts DEF Same, Alike
  <2>4. finishing' = [u \in Threads |-> IF finishing[u] = n THEN None ELSE finishing[u]]
    <3>1. \A u \in Threads : finishing[u] = n => u = t  BY <1>1, <1>5, <2>1 DEF FinishSpanEnd, Marked
    <3> QED  BY <1>1, <1>5, <2>1, <3>1 DEF FinishSpanEnd, PerfTyped
  <2>5. Pushed(n, node[n])  BY <1>5, <2>1, <2>2, <2>3, <2>4 DEF FinishSpanEnd, Pushed
  <2> QED  BY <2>5, PushStep
<1>6. ASSUME NEW t \in Threads, NEW n \in Nodes, FinishSpanStart(t, n)  PROVE Perf' /\ Grows
  <2>1. Perf'  BY <1>6, MarkingStep
  <2>2. node[n] \in SpanRecord /\ node[n].kind = "span"
    BY <1>1, <1>6, KindFacts DEF FinishSpanStart, IsSpan
  <2>3. node'[n] = [node[n] EXCEPT !.finished = TRUE] /\ \A m \in Nodes : m # n => node'[m] = node[m]
    BY <1>1, <1>6 DEF FinishSpanStart, PerfTyped
  <2>4. node'[n] # Free /\ Alike(node[n], node'[n])
    BY <2>2, <2>3 DEF SpanRecord, Alike, Free
  <2>5. Grows  BY <2>3, <2>4 DEF Grows, Alike
  <2> QED  BY <2>1, <2>5
<1> QED  BY <1>2, <1>3, <1>4, <1>5, <1>6 DEF AppNext


LEMMA PerfFacts ==
  ASSUME Perf
  PROVE  PerfTyped /\ Branches
BY DEF Perf, Accounted

-----------------------------------------------------------------------------
(* The OpenTelemetry processor.                                            *)

OtelSpan == [kind : {"live", "ended"}, parent : Nodes \cup {None}, trace : Nodes]

LEMMA OtelFacts ==
  ASSUME OtelTyped, NEW n \in Nodes
  PROVE  /\ otel[n] = Free \/ otel[n] \in OtelSpan
         /\ otel[n] \in OtelSpan => otel[n] # Free /\ otel[n].kind \in {"live", "ended"}
         /\ otel[n] = Free => otel[n].kind = "free"
<1>1. otel[n] \in {Free} \cup OtelSpan  BY DEF OtelTyped, OtelSpan
<1> QED  BY <1>1 DEF OtelSpan, Free

\* What a new mirror has to be.
LEMMA MirrorAdded ==
  ASSUME Perf, Perf', Grows, OtelTyped, Mirrors, NEW n \in Nodes, NEW o \in OtelSpan,
         otel[n] = Free, o.kind = "live",
         otel' = [otel EXCEPT ![n] = o], span_map' = span_map \cup {n}, Others(n),
         node'[n] # Free,
         IF node'[n].kind = "trx" THEN node'[n].open ELSE ~node'[n].finished,
         node'[n].kind = "span" => /\ node'[n].parent = o.parent
                                   /\ node'[n].trx \in Nodes \ {n} /\ o.trace = otel[node'[n].trx].trace,
         node'[n].kind = "trx" => node'[n].trace \in {o.trace, Remote, n},
         \A m \in Nodes \ {n} : node'[m] = node[m]
  PROVE  OtelTyped' /\ Mirrors'
<1>1. PerfTyped /\ PerfTyped'  BY DEF Perf, Accounted
<1>2. OtelTyped'
  BY DEF OtelTyped, OtelSpan
<1>3. otel'[n] = o /\ \A m \in Nodes : m # n => otel'[m] = otel[m]
  BY DEF OtelTyped
<1>4. span_map' = { m \in Nodes : otel'[m].kind = "live" }
  BY <1>3 DEF Mirrors
<1>5. ASSUME NEW m \in Nodes
      PROVE  /\ node'[m] = Free <=> otel'[m] = Free
             /\ m \in span_map' => IF node'[m].kind = "trx" THEN node'[m].open ELSE ~node'[m].finished
             /\ node'[m].kind = "span" => /\ node'[m].parent = otel'[m].parent
                                          /\ otel'[m].trace = otel'[node'[m].trx].trace
             /\ node'[m].kind = "trx" => node'[m].trace \in {otel'[m].trace, Remote, m}
  <2>1. CASE m = n
    <3>1. otel'[n] # Free  BY <1>3, OtelFacts
    <3> QED  BY <1>3, <2>1, <3>1
  <2>2. CASE m # n
    <3>1. /\ node'[m] = node[m] /\ otel'[m] = otel[m] /\ (m \in span_map' => m \in span_map)
      BY <1>3, <2>2
    <3>2. node[m].kind = "span" => otel'[node[m].trx] = otel[node[m].trx]
      <4>1. node[m].kind = "span" => node[m].trx \in Nodes /\ node[node[m].trx].kind = "trx"
        BY <1>1, KindFacts, PerfFacts DEF Branches, IsTrx, IsSpan
      <4>2. node[n] = Free /\ node[n].kind = "free"  BY <1>1, KindFacts DEF Mirrors
      <4> QED  BY <1>3, <4>1, <4>2
    <3>3. /\ node[m] = Free <=> otel[m] = Free
          /\ m \in span_map => IF node[m].kind = "trx" THEN node[m].open ELSE ~node[m].finished
          /\ node[m].kind = "span" => /\ node[m].parent = otel[m].parent
                                      /\ otel[m].trace = otel[node[m].trx].trace
          /\ node[m].kind = "trx" => node[m].trace \in {otel[m].trace, Remote, m}
      BY DEF Mirrors, IsTrx, IsSpan
    <3> QED  BY <3>1, <3>2, <3>3
  <2> QED  BY <2>1, <2>2
<1> QED  BY <1>2, <1>4, <1>5 DEF Mirrors, IsTrx, IsSpan

LEMMA OnStartStep ==
  ASSUME Perf, OtelTyped, Mirrors, NEW n \in Nodes, NEW parent \in Nodes \cup {None},
         NEW ctx \in Headers \cup {None}, OnStart(n, parent, ctx)
  PROVE  Perf' /\ Grows /\ OtelTyped' /\ Mirrors'
<1>1. PerfTyped /\ Branches  BY PerfFacts
<1> DEFINE o == [kind |-> "live", parent |-> parent, trace |-> OtelTrace(n, parent)]
<1>2. /\ otel[n] = Free /\ otel' = [otel EXCEPT ![n] = o] /\ span_map' = span_map \cup {n}
      /\ UNCHANGED <<options, sent, lost, finishing>>
      /\ (parent # None => otel[parent] # Free)
  BY DEF OnStart
<1>3. node[n] = Free /\ node[n].kind = "free"  BY <1>1, <1>2, KindFacts DEF Mirrors
<1>4. OtelTrace(n, parent) \in Nodes
  <2>1. CASE parent = None  BY <2>1 DEF OtelTrace
  <2>2. CASE parent # None
    <3>1. parent \in Nodes /\ otel[parent] \in OtelSpan  BY <1>2, <2>2, OtelFacts
    <3> QED  BY <2>2, <3>1 DEF OtelTrace, OtelSpan
  <2> QED  BY <2>1, <2>2
<1>5. o \in OtelSpan /\ o.kind = "live" /\ o.parent = parent /\ o.trace = OtelTrace(n, parent)
  BY <1>4 DEF OtelSpan
<1> HIDE DEF o
<1>6. ASSUME NEW p \in ParentInMap(parent), StartChild(n, p)
      PROVE  Perf' /\ Grows /\ OtelTyped' /\ Mirrors'
  <2>1. p = parent /\ p \in span_map /\ p \in Nodes  BY <1>6 DEF ParentInMap, OtelTyped
  <2>2. p # None /\ otel[p] # Free /\ node[p] # Free
    BY <1>2, <2>1, NodesAssumption DEF Mirrors
  <2>3. /\ Perf' /\ Grows /\ Others(n)
        /\ node'[n].kind = "span" /\ node'[n].parent = p /\ ~node'[n].finished
        /\ node'[n].trx = TrxOf(p)
    BY <1>2, <1>3, <1>6, <2>1, <2>2, StartChildStep
  <2>4. TrxOf(p) \in Nodes \ {n} /\ otel[TrxOf(p)].trace = otel[p].trace
    <3>1. node[p].kind = "trx" \/ node[p].kind = "span"  BY <1>1, <2>1, <2>2, KindFacts
    <3>2. CASE node[p].kind = "trx"  BY <1>3, <2>1, <3>2 DEF TrxOf, IsTrx
    <3>3. CASE node[p].kind = "span"
      <4>1. node[p].trx \in Nodes /\ node[node[p].trx].kind = "trx" /\ TrxOf(p) = node[p].trx
        BY <1>1, <2>1, <3>3, KindFacts DEF Branches, IsTrx, IsSpan, TrxOf
      <4>2. otel[p].trace = otel[node[p].trx].trace  BY <2>1, <3>3 DEF Mirrors, IsSpan
      <4> QED  BY <1>3, <4>1, <4>2
    <3> QED  BY <3>1, <3>2, <3>3
  <2>5. o.trace = otel[p].trace  BY <1>5, <2>1, <2>2 DEF OtelTrace
  <2>6. \A m \in Nodes \ {n} : node'[m] = node[m]  BY <1>1, <1>6 DEF StartChild, PerfTyped
  <2>7. node'[n] # Free  BY <2>3 DEF Free
  <2>8. OtelTyped' /\ Mirrors'
    BY <1>2, <1>5, <2>1, <2>3, <2>4, <2>5, <2>6, <2>7, MirrorAdded
  <2> QED  BY <2>3, <2>8
<1>7. ASSUME NEW c, c = IF ctx # None THEN ContinueFromHeaders(n, ctx)
                        ELSE [NewContext(n) EXCEPT !.trace = OtelTrace(n, parent)],
             StartTransaction(n, c, TRUE)
      PROVE  Perf' /\ Grows /\ OtelTyped' /\ Mirrors'
  <2>1. GoodContext(c) /\ c.trace \in {Remote, o.trace}
    <3>1. CASE ctx # None
      <4>1. c.trace = Remote  BY <1>7, <3>1 DEF ContinueFromHeaders
      <4> QED  BY <1>1, <1>7, <3>1, <4>1, Contexts
    <3>2. CASE ctx = None
      <4>1. c.trace = o.trace  BY <1>5, <1>7, <3>2 DEF NewContext
      <4> QED  BY <1>1, <1>4, <1>7, <3>2, <4>1, Contexts
    <3> QED  BY <3>1, <3>2
  <2>2. /\ Perf' /\ Grows /\ Others(n)
        /\ node'[n].kind = "trx" /\ node'[n].open = TRUE /\ node'[n].trace \in {c.trace, n}
    BY <1>2, <1>3, <1>7, <2>1, StartTransactionStep
  <2>3. \A m \in Nodes \ {n} : node'[m] = node[m]
    BY <1>1, <1>7 DEF StartTransaction, PerfTyped
  <2>4. node'[n] # Free /\ node'[n].trace \in {o.trace, Remote, n} /\ node'[n].kind # "span"
    BY <2>1, <2>2 DEF Free
  <2>5. OtelTyped' /\ Mirrors'
    BY <1>2, <1>5, <2>2, <2>3, <2>4, MirrorAdded
  <2> QED  BY <2>2, <2>5
<1> QED  BY <1>6, <1>7 DEF OnStart

LEMMA OnEndStep ==
  ASSUME Perf, OtelTyped, Mirrors, NEW n \in Nodes, NEW status \in Statuses, OnEnd(n, status)
  PROVE  Perf' /\ Grows /\ OtelTyped' /\ Mirrors'
<1>1. PerfTyped /\ Branches  BY PerfFacts
<1> DEFINE o == [otel[n] EXCEPT !.kind = "ended"]
<1>2. /\ otel[n].kind = "live" /\ otel[n] \in OtelSpan /\ otel[n] # Free /\ node[n] # Free
      /\ otel' = [otel EXCEPT ![n].kind = "ended"] /\ span_map' = span_map \ {n}
      /\ UNCHANGED <<options, finishing>>
  <2>1. otel[n].kind = "live"  BY DEF OnEnd
  <2>2. otel[n] \in OtelSpan /\ otel[n] # Free  BY <2>1, OtelFacts
  <2> QED  BY <2>1, <2>2 DEF OnEnd, Removed, Mirrors
<1>3. /\ o \in OtelSpan /\ o.kind = "ended" /\ o.parent = otel[n].parent /\ o.trace = otel[n].trace
      /\ o # Free
  BY <1>2 DEF OtelSpan, Free
<1>4. otel' = [otel EXCEPT ![n] = o]  BY <1>2 DEF OtelTyped
<1> HIDE DEF o
<1>5. PICK r \in TrxRecord \cup SpanRecord : Same(node[n], r) /\ Finish(n, r)
  BY <1>1, <1>2, Setters DEF OnEnd
<1>6. Perf' /\ Grows /\ Others(n)  BY <1>2, <1>5, FinishStep
<1>7. OtelTyped'
  BY <1>2, <1>3, <1>4 DEF OtelTyped, OtelSpan
<1>8. \A m \in Nodes : /\ otel'[m] = IF m = n THEN o ELSE otel[m]
                       /\ otel'[m].trace = otel[m].trace /\ otel'[m].parent = otel[m].parent
                       /\ otel'[m] = Free <=> otel[m] = Free
  BY <1>2, <1>3, <1>4 DEF OtelTyped
<1>9. span_map' = { m \in Nodes : otel'[m].kind = "live" }
  BY <1>2, <1>3, <1>8 DEF Mirrors
<1>10. ASSUME NEW m \in Nodes
       PROVE  /\ node'[m] = Free <=> otel'[m] = Free
              /\ m \in span_map' => IF node'[m].kind = "trx" THEN node'[m].open ELSE ~node'[m].finished
              /\ node'[m].kind = "span" => /\ node'[m].parent = otel'[m].parent
                                           /\ otel'[m].trace = otel'[node'[m].trx].trace
              /\ node'[m].kind = "trx" => node'[m].trace \in {otel'[m].trace, Remote, m}
  <2>0. /\ node[m] = Free <=> otel[m] = Free
        /\ m \in span_map => IF node[m].kind = "trx" THEN node[m].open ELSE ~node[m].finished
        /\ node[m].kind = "span" => /\ node[m].parent = otel[m].parent
                                    /\ otel[m].trace = otel[node[m].trx].trace
        /\ node[m].kind = "trx" => node[m].trace \in {otel[m].trace, Remote, m}
    BY DEF Mirrors, IsTrx, IsSpan
  <2>1. CASE node[m] = Free
    <3>1. m # n /\ otel'[m] = Free /\ m \notin span_map'  BY <1>2, <1>8, <1>9, <2>0, <2>1 DEF Free
    <3>2. node'[m] = Free
      <4>1. CASE r.kind = "trx"
        BY <1>1, <1>5, <2>1, <3>1, <4>1 DEF Finish, FinishTransaction, PerfTyped
      <4>2. CASE r.kind = "span"
        <5>1. r.trx \in Nodes /\ node[r.trx].kind = "trx"
          BY <1>1, <1>5, <4>2, KindFacts DEF Same, Alike, Branches, IsSpan, IsTrx
        <5>2. r.trx # m  BY <1>1, <2>1, <5>1, KindFacts
        <5> QED  BY <1>1, <1>5, <2>1, <3>1, <4>2, <5>2 DEF Finish, PushSpan, PerfTyped
      <4> QED  BY <1>5, <4>1, <4>2 DEF TrxRecord, SpanRecord
    <3> QED  BY <3>1, <3>2 DEF Free
  <2>2. CASE node[m] # Free
    <3>1. node'[m] # Free /\ Alike(node[m], node'[m])  BY <1>6, <2>2 DEF Grows
    <3>2. node[m].kind = "trx" \/ node[m].kind = "span"  BY <1>1, <2>2, KindFacts
    <3>3. m \in span_map' => m \in span_map /\ m # n  BY <1>2
    <3>4. m # n => /\ node[m].kind = "trx" => node'[m].open = node[m].open
                   /\ node[m].kind = "span" => node'[m].finished = node[m].finished
      BY <1>6 DEF Others
    <3>5. node[m].kind = "span" => otel'[node[m].trx].trace = otel[node[m].trx].trace
      BY <1>1, <1>8, KindFacts
    <3>6. CASE node[m].kind = "trx"
      BY <1>8, <2>0, <2>2, <3>1, <3>3, <3>4, <3>6 DEF Alike
    <3>7. CASE node[m].kind = "span"
      BY <1>8, <2>0, <2>2, <3>1, <3>3, <3>4, <3>5, <3>7 DEF Alike
    <3> QED  BY <3>2, <3>6, <3>7
  <2> QED  BY <2>1, <2>2
<1> QED  BY <1>6, <1>7, <1>9, <1>10 DEF Mirrors, IsTrx, IsSpan

LEMMA OtelStep ==
  ASSUME Perf, OtelTyped, Mirrors, OtelNext
  PROVE  Perf' /\ Grows /\ OtelTyped' /\ Mirrors'
<1>1. ASSUME NEW n \in Nodes, NEW parent \in Nodes \cup {None}, NEW h \in Headers \cup {None},
             NEW ctx \in {None} \cup Headers, OnStart(n, parent, ExtractWithContext(ctx, h))
      PROVE  Perf' /\ Grows /\ OtelTyped' /\ Mirrors'
  <2>1. ExtractWithContext(ctx, h) \in Headers \cup {None}  BY DEF ExtractWithContext
  <2> QED  BY <1>1, <2>1, OnStartStep
<1>2. ASSUME NEW n \in Nodes, NEW status \in {"Ok", "UnknownError"}, OnEnd(n, status)
      PROVE  Perf' /\ Grows /\ OtelTyped' /\ Mirrors'
  BY <1>2, OnEndStep DEF Statuses
<1> QED  BY <1>1, <1>2 DEF OtelNext

\* What the processor promises.
LEMMA MirrorsMatch ==
  ASSUME Perf, OtelTyped, Mirrors
  PROVE  SpanMapMatches
<1>1. PerfTyped /\ Branches  BY PerfFacts
<1>2. ASSUME NEW n \in span_map  PROVE EventTrace(n, None) \in {otel[n].trace, Remote, TrxOf(n)}
  <2>1. n \in Nodes /\ otel[n].kind = "live"  BY DEF Mirrors
  <2>2. node[n] # Free  BY <2>1 DEF Mirrors, Free
  <2>3. EventTrace(n, None) = node[n].trace  BY DEF EventTrace
  <2>4. CASE node[n].kind = "trx"  BY <2>1, <2>3, <2>4 DEF Mirrors, TrxOf, IsTrx
  <2>5. CASE node[n].kind = "span"
    <3>1. PICK t \in Nodes : t = node[n].trx /\ node[t].kind = "trx" /\ node[n].trace = node[t].trace
      BY <1>1, <2>1, <2>5, KindFacts DEF Branches, IsTrx, IsSpan
    <3>2. TrxOf(n) = t  BY <2>5, <3>1 DEF TrxOf, IsTrx
    <3>3. otel[n].trace = otel[t].trace  BY <2>1, <2>5, <3>1 DEF Mirrors, IsSpan
    <3>4. node[t].trace \in {otel[t].trace, Remote, t}  BY <3>1 DEF Mirrors, IsTrx
    <3> QED  BY <2>3, <3>1, <3>2, <3>3, <3>4
  <2> QED  BY <1>1, <2>1, <2>2, <2>4, <2>5, KindFacts
<1> QED  BY <1>2 DEF SpanMapMatches, Mirrors, OtelTyped

-----------------------------------------------------------------------------
(* The web middleware.                                                     *)

Over(q) == q.phase = "done" \/ (q.phase = "dropped" /\ q.via = "tower")

LEMMA RequestFacts ==
  ASSUME HttpTyped, NEW r \in Requests
  PROVE  /\ req[r] = Unserved \/ req[r] \in Request
         /\ req[r] = Unserved => req[r].phase = "none"
         /\ req[r] \in Request => /\ req[r] # Unserved
                                  /\ req[r].phase \in {"called", "running", "done", "dropped"}
                                  /\ req[r].trx \in Nodes \cup {None} /\ req[r].parent \in Nodes \cup {None}
                                  /\ req[r].header \in Headers \cup {None}
<1>1. req[r] \in {Unserved} \cup Request  BY DEF HttpTyped
<1> QED  BY <1>1 DEF Unserved, Request

\* One request moves on, to q.
Moves(r, q) ==
  /\ q \in Request /\ req[r].phase # "done" /\ req' = [req EXCEPT ![r] = q] /\ bound' = bound
  /\ q.trx # None => node'[q.trx].kind = "trx"
  /\ q.trx # None => \A s \in Requests \ {r} : req[s] # Unserved => req[s].trx # q.trx
  /\ q.parent # None => node'[q.parent] # Free
  /\ q.phase = "called" /\ q.via = "tower" => q.trx = None
  /\ q.trx # None /\ Over(q) => ~node'[q.trx].open /\ node'[q.trx].status # None
  /\ \A m \in Nodes : node[m].kind = "trx" /\ m # q.trx =>
       node'[m].open = node[m].open /\ node'[m].status = node[m].status
  /\ scope_span' \in [Hubs -> Nodes \cup {None}]
  /\ scope_span'[r] # None => node'[scope_span'[r]] # Free
  /\ \A h \in Hubs \ {r} :
       \/ scope_span'[h] = scope_span[h]
       \/ h \in disturbed' /\ (scope_span'[h] # None => node'[scope_span'[h]] # Free)
  /\ disturbed \subseteq disturbed' /\ disturbed' \subseteq Hubs
  /\ q.phase = "running" /\ q.trx # None /\ r \notin disturbed' => scope_span'[r] = q.trx
  /\ \/ reported' = reported
     \/ /\ q.phase = "done"
        /\ \E s \in Nodes \cup {None} : /\ reported' = reported \cup {[req |-> r, span |-> s]}
                                        /\ q.trx # None /\ r \notin disturbed' => s = q.trx

LEMMA MovesStep ==
  ASSUME HttpTyped, Served, RequestsIsolated, Grows, NEW r \in Requests, NEW q, Moves(r, q)
  PROVE  HttpTyped' /\ Served' /\ RequestsIsolated'
<1>1. /\ q \in Request /\ q # Unserved /\ q.trx \in Nodes \cup {None} /\ q.parent \in Nodes \cup {None}
      /\ req'[r] = q /\ \A s \in Requests : s # r => req'[s] = req[s]
      /\ r \in Hubs
  BY DEF Moves, HttpTyped, Request, Unserved, Hubs
<1>2. HttpTyped'
  <2>1. req' \in [Requests -> {Unserved} \cup Request]  BY <1>1 DEF Moves, HttpTyped
  <2>2. reported' \subseteq [req : Requests, span : Nodes \cup {None}]
    <3>1. reported \subseteq [req : Requests, span : Nodes \cup {None}]  BY DEF HttpTyped
    <3>2. \A s \in Nodes \cup {None} : [req |-> r, span |-> s] \in [req : Requests, span : Nodes \cup {None}]
      OBVIOUS
    <3> QED  BY <3>1, <3>2 DEF Moves
  <2> QED  BY <2>1, <2>2 DEF Moves, HttpTyped
<1>3. ASSUME NEW h \in Hubs, scope_span'[h] # None  PROVE node'[scope_span'[h]] # Free
  <2>1. CASE h = r  BY <1>3, <2>1 DEF Moves
  <2>2. CASE h # r /\ scope_span'[h] = scope_span[h]
    <3>1. scope_span[h] \in Nodes /\ node[scope_span[h]] # Free  BY <1>3, <2>2 DEF HttpTyped, Served
    <3> QED  BY <2>2, <3>1 DEF Grows
  <2> QED  BY <1>3, <2>1, <2>2 DEF Moves
<1>4. ASSUME NEW s \in Requests, req'[s] # Unserved
      PROVE  /\ req'[s].trx # None => node'[req'[s].trx].kind = "trx"
             /\ req'[s].parent # None => node'[req'[s].parent] # Free
             /\ req'[s].phase = "called" /\ req'[s].via = "tower" => req'[s].trx = None
             /\ req'[s].trx # None /\ Over(req'[s])
                  => ~node'[req'[s].trx].open /\ node'[req'[s].trx].status # None
             /\ \A u \in Requests \ {s} : req'[u] # Unserved /\ req'[s].trx # None
                  => req'[u].trx # req'[s].trx
  <2>1. CASE s = r
    BY <1>1, <2>1 DEF Moves
  <2>2. CASE s # r
    <3>1. /\ req'[s] = req[s] /\ req[s] # Unserved
          /\ req[s].trx \in Nodes \cup {None} /\ req[s].parent \in Nodes \cup {None}
      BY <1>1, <1>4, <2>2, RequestFacts
    <3>2. /\ req[s].trx # None => node[req[s].trx].kind = "trx"
          /\ req[s].parent # None => node[req[s].parent] # Free
          /\ req[s].phase = "called" /\ req[s].via = "tower" => req[s].trx = None
          /\ req[s].trx # None /\ Over(req[s])
               => ~node[req[s].trx].open /\ node[req[s].trx].status # None
          /\ \A u \in Requests \ {s} : req[u] # Unserved /\ req[s].trx # None
               => req[u].trx # req[s].trx
      BY <3>1 DEF Served, IsTrx, Over
    <3>3. req[s].trx # None => node'[req[s].trx].kind = "trx"
      <4>1. req[s].trx # None => node[req[s].trx] # Free  BY <3>2 DEF Free
      <4> QED  BY <3>1, <3>2, <4>1 DEF Grows, Alike
    <3>4. req[s].parent # None => node'[req[s].parent] # Free  BY <3>1, <3>2 DEF Grows
    <3>5. req[s].trx # None => req[s].trx # q.trx
      BY <2>2, <3>1 DEF Moves
    <3>6. req[s].trx # None /\ Over(req[s])
               => ~node'[req[s].trx].open /\ node'[req[s].trx].status # None
      BY <3>1, <3>2, <3>5 DEF Moves
    <3>7. ASSUME NEW u \in Requests \ {s}, req'[u] # Unserved, req[s].trx # None
          PROVE  req'[u].trx # req[s].trx
      <4>1. CASE u = r  BY <1>1, <3>5, <3>7, <4>1
      <4>2. CASE u # r  BY <1>1, <3>2, <3>7, <4>2
      <4> QED  BY <4>1, <4>2
    <3> QED  BY <3>1, <3>2, <3>3, <3>4, <3>6, <3>7
  <2> QED  BY <2>1, <2>2
<1>5. ASSUME NEW e \in reported'
      PROVE  /\ req'[e.req].phase = "done"
             /\ req'[e.req].trx # None /\ e.req \notin disturbed' => e.span = req'[e.req].trx
  <2>1. CASE e \in reported
    <3>1. e.req \in Requests /\ req[e.req].phase = "done"  BY <2>1 DEF HttpTyped, Served
    <3>2. e.req # r /\ req'[e.req] = req[e.req]  BY <1>1, <3>1 DEF Moves
    <3>3. req[e.req].trx # None /\ e.req \notin disturbed => e.span = req[e.req].trx
      BY <2>1 DEF RequestsIsolated
    <3> QED  BY <3>1, <3>2, <3>3 DEF Moves
  <2>2. CASE e \notin reported
    <3>1. PICK s \in Nodes \cup {None} : /\ e = [req |-> r, span |-> s] /\ q.phase = "done"
                                         /\ q.trx # None /\ r \notin disturbed' => s = q.trx
      BY <1>5, <2>2 DEF Moves
    <3> QED  BY <1>1, <3>1
  <2> QED  BY <2>1, <2>2
<1>6. Served'
  BY <1>3, <1>4, <1>5 DEF Served, IsTrx, Over
<1>7. ASSUME NEW s \in Requests, req'[s].phase = "running", req'[s].trx # None, s \notin disturbed'
      PROVE  scope_span'[s] = req'[s].trx
  <2>1. CASE s = r  BY <1>1, <1>7, <2>1 DEF Moves
  <2>2. CASE s # r
    <3>1. s \in Hubs /\ scope_span'[s] = scope_span[s] /\ req'[s] = req[s] /\ s \notin disturbed
      BY <1>1, <1>7, <2>2 DEF Moves, Hubs
    <3> QED  BY <1>7, <3>1 DEF RequestsIsolated, Running, HubOf
  <2> QED  BY <2>1, <2>2
<1>8. ASSUME NEW h \in Hubs \ (Requests \cup disturbed')  PROVE scope_span'[h] = None
  <2>1. h # r /\ h \notin disturbed /\ h \in Hubs  BY <1>8 DEF Moves
  <2>2. scope_span'[h] = scope_span[h]  BY <1>8, <2>1 DEF Moves
  <2> QED  BY <1>8, <2>1, <2>2 DEF RequestsIsolated
<1>9. Hubs' = Hubs  BY DEF Hubs
<1>10. RequestsIsolated'
  BY <1>5, <1>7, <1>8 DEF RequestsIsolated, Running, HubOf, Hubs
<1> QED  BY <1>2, <1>6, <1>10

\* What the handler does leaves the requests alone.
LEMMA HandlerKeeps ==
  ASSUME HttpTyped, Served, RequestsIsolated, Grows, UNCHANGED httpVars,
         \A r \in Requests : req[r] # Unserved /\ req[r].trx # None /\ Over(req[r]) =>
           /\ node'[req[r].trx].open = node[req[r].trx].open
           /\ node'[req[r].trx].status = node[req[r].trx].status
  PROVE  HttpTyped' /\ Served' /\ RequestsIsolated'
<1>1. /\ bound' = bound /\ req' = req /\ scope_span' = scope_span /\ reported' = reported
      /\ disturbed' = disturbed
  BY DEF httpVars
<1>2. HttpTyped'  BY <1>1 DEF HttpTyped, Hubs
<1>3. RequestsIsolated'  BY <1>1 DEF RequestsIsolated, Running, HubOf, Hubs
<1>4. \A h \in Hubs : scope_span[h] # None => node'[scope_span[h]] # Free
  BY DEF HttpTyped, Served, Grows
<1>5. ASSUME NEW r \in Requests, req[r] # Unserved
      PROVE  /\ req[r].trx # None => node'[req[r].trx].kind = "trx"
             /\ req[r].parent # None => node'[req[r].parent] # Free
             /\ req[r].phase = "called" /\ req[r].via = "tower" => req[r].trx = None
             /\ req[r].trx # None /\ Over(req[r])
                  => ~node'[req[r].trx].open /\ node'[req[r].trx].status # None
             /\ \A u \in Requests \ {r} : req[u] # Unserved /\ req[r].trx # None
                  => req[u].trx # req[r].trx
  <2>1. req[r].trx \in Nodes \cup {None} /\ req[r].parent \in Nodes \cup {None}
    BY <1>5, RequestFacts
  <2>2. /\ req[r].trx # None => node[req[r].trx].kind = "trx"
        /\ req[r].parent # None => node[req[r].parent] # Free
        /\ req[r].phase = "called" /\ req[r].via = "tower" => req[r].trx = None
        /\ req[r].trx # None /\ Over(req[r])
             => ~node[req[r].trx].open /\ node[req[r].trx].status # None
        /\ \A u \in Requests \ {r} : req[u] # Unserved /\ req[r].trx # None
             => req[u].trx # req[r].trx
    BY <1>5 DEF Served, IsTrx, Over
  <2>3. req[r].trx # None => node'[req[r].trx].kind = "trx"
    <3>1. req[r].trx # None => node[req[r].trx] # Free  BY <2>2 DEF Free
    <3> QED  BY <2>1, <2>2, <3>1 DEF Grows, Alike
  <2>4. req[r].parent # None => node'[req[r].parent] # Free  BY <2>1, <2>2 DEF Grows
  <2> QED  BY <1>5, <2>2, <2>3, <2>4
<1>6. Served'
  BY <1>1, <1>4, <1>5 DEF Served, IsTrx, Over, Hubs
<1> QED  BY <1>2, <1>3, <1>6

HttpOK == HttpTyped /\ Served /\ RequestsIsolated

LEMMA PerfIdle ==
  ASSUME Perf, UNCHANGED perfVars
  PROVE  Perf' /\ Grows
<1>1. /\ options' = options /\ node' = node /\ sent' = sent /\ lost' = lost /\ finishing' = finishing
  BY DEF perfVars
<1>2. PerfTyped' /\ Marked' /\ Collected'
  BY <1>1 DEF Perf, Accounted, PerfTyped, Marked, Collected, IsTrx, IsSpan
<1>3. SentMatches' /\ LostMatches'
  BY <1>1 DEF Perf, Accounted, SentMatches, LostMatches, IsTrx, IsSpan
<1>4. Branches' /\ ForeignTraces'
  BY <1>1 DEF Perf, Branches, ForeignTraces, MayJoin, IsTrx, IsSpan, TrxOf
<1>5. Grows  BY <1>1 DEF Grows, Alike
<1> QED  BY <1>2, <1>3, <1>4, <1>5 DEF Perf, Accounted

LEMMA TowerCallStep ==
  ASSUME Perf, HttpOK, NEW t \in Threads, NEW r \in Requests, NEW h \in Headers \cup {None},
         NEW start \in BOOLEAN, TowerCall(t, r, h, start)
  PROVE  Perf' /\ Grows /\ HttpOK'
<1> DEFINE q == [phase |-> "called", via |-> "tower", header |-> h, start |-> start,
                 trx |-> None, parent |-> None]
<1>1. HttpTyped /\ Served /\ RequestsIsolated  BY DEF HttpOK
<1>2. Perf' /\ Grows /\ node' = node  BY PerfIdle DEF TowerCall, perfVars
<1>3. /\ t \in Hubs /\ scope_span[t] \in Nodes \cup {None}
      /\ scope_span[t] # None => node[scope_span[t]] # Free
  BY <1>1 DEF HttpTyped, Served, Hubs
<1>4. /\ scope_span' \in [Hubs -> Nodes \cup {None}] /\ scope_span'[r] = scope_span[t]
      /\ \A x \in Hubs \ {r} : scope_span'[x] = scope_span[x]
  BY <1>1, <1>3 DEF TowerCall, SpanSet, HubOf, HttpTyped, Hubs
<1>5. q \in Request  BY DEF Request
<1>6. Moves(r, q)
  BY <1>1, <1>2, <1>3, <1>4, <1>5 DEF TowerCall, Moves, Over, HttpTyped
<1> QED  BY <1>1, <1>2, <1>6, MovesStep DEF HttpOK

LEMMA TowerFirstPollStep ==
  ASSUME Perf, HttpOK, NEW r \in Requests, TowerFirstPoll(r)
  PROVE  Perf' /\ Grows /\ HttpOK'
<1>1. HttpTyped /\ Served /\ RequestsIsolated /\ PerfTyped  BY PerfFacts DEF HttpOK
<1>2. /\ req[r].phase = "called" /\ req[r].via = "tower" /\ req[r] \in Request /\ req[r].trx = None
      /\ req[r] # Unserved /\ (req[r].parent # None => node[req[r].parent] # Free)
      /\ bound' = bound /\ reported' = reported /\ disturbed' = disturbed
      /\ UNCHANGED <<options, sent, lost, finishing>>
      /\ r \in Hubs /\ scope_span[r] \in Nodes \cup {None}
      /\ scope_span[r] # None => node[scope_span[r]] # Free
      /\ disturbed \subseteq Hubs
  <2>1. req[r].phase = "called" /\ req[r].via = "tower"  BY DEF TowerFirstPoll
  <2>2. req[r] \in Request /\ req[r] # Unserved  BY <1>1, <2>1, RequestFacts
  <2>3. req[r].trx = None /\ (req[r].parent # None => node[req[r].parent] # Free)
    BY <1>1, <2>1, <2>2 DEF Served
  <2>4. /\ r \in Hubs /\ scope_span[r] \in Nodes \cup {None} /\ disturbed \subseteq Hubs
        /\ scope_span[r] # None => node[scope_span[r]] # Free
    BY <1>1 DEF HttpTyped, Served, Hubs
  <2> QED  BY <2>1, <2>2, <2>3, <2>4 DEF TowerFirstPoll
<1>3. ASSUME NEW n \in Nodes, node[n] = Free,
             StartTransaction(n, ContinueFromHeaders(n, req[r].header), TRUE),
             req' = [req EXCEPT ![r].phase = "running", ![r].trx = n, ![r].parent = scope_span[HubOf(r)]],
             SpanSet(HubOf(r), n)
      PROVE  Perf' /\ Grows /\ HttpOK'
  <2> DEFINE q == [req[r] EXCEPT !.phase = "running", !.trx = n, !.parent = scope_span[r]]
  <2>1. req' = [req EXCEPT ![r] = q]  BY <1>1, <1>3 DEF HttpTyped, HubOf
  <2>2. q \in Request /\ q.phase = "running" /\ q.trx = n /\ q.parent = scope_span[r]
    BY <1>2 DEF Request
  <2> HIDE DEF q
  <2>3. n # None  BY NodesAssumption
  <2>4. GoodContext(ContinueFromHeaders(n, req[r].header))
    BY <1>1, <1>2, Contexts, RequestFacts
  <2>5. Perf' /\ Grows /\ Others(n) /\ node'[n].kind = "trx"
    BY <1>2, <1>3, <2>4, StartTransactionStep
  <2>6. node'[n] # Free  BY <2>5 DEF Free
  <2>7. /\ scope_span' \in [Hubs -> Nodes \cup {None}] /\ scope_span'[r] = n
        /\ \A x \in Hubs \ {r} : scope_span'[x] = scope_span[x]
    BY <1>1, <1>2, <1>3 DEF SpanSet, HubOf, HttpTyped
  <2>8. \A s \in Requests \ {r} : req[s] # Unserved => req[s].trx # n
    <3>1. ASSUME NEW s \in Requests, req[s] # Unserved, req[s].trx = n  PROVE FALSE
      <4>1. node[n].kind = "trx"  BY <1>1, <2>3, <3>1 DEF Served, IsTrx
      <4> QED  BY <1>3, <4>1 DEF Free
    <3> QED  BY <3>1
  <2>9. \A m \in Nodes : node[m].kind = "trx" /\ m # n =>
          node'[m].open = node[m].open /\ node'[m].status = node[m].status
    BY <2>5 DEF Others
  <2>10. scope_span[r] # None => node'[scope_span[r]] # Free
    BY <1>2, <2>5 DEF Grows
  <2>11. Moves(r, q)
    BY <1>2, <2>1, <2>2, <2>3, <2>5, <2>6, <2>7, <2>8, <2>9, <2>10 DEF Moves, Over
  <2> QED  BY <1>1, <2>5, <2>11, MovesStep DEF HttpOK
<1>4. ASSUME req' = [req EXCEPT ![r].phase = "running"], UNCHANGED <<node, scope_span>>
      PROVE  Perf' /\ Grows /\ HttpOK'
  <2> DEFINE q == [req[r] EXCEPT !.phase = "running"]
  <2>1. req' = [req EXCEPT ![r] = q]  BY <1>1, <1>4 DEF HttpTyped
  <2>2. q \in Request /\ q.phase = "running" /\ q.trx = None /\ q.parent = req[r].parent
    BY <1>2 DEF Request
  <2> HIDE DEF q
  <2>3. Perf' /\ Grows  BY <1>2, <1>4, PerfIdle DEF perfVars
  <2>4. scope_span' \in [Hubs -> Nodes \cup {None}]  BY <1>1, <1>4 DEF HttpTyped
  <2>5. Moves(r, q)
    BY <1>2, <1>4, <2>1, <2>2, <2>4 DEF Moves, Over
  <2> QED  BY <1>1, <2>3, <2>5, MovesStep DEF HttpOK
<1> QED  BY <1>3, <1>4 DEF TowerFirstPoll

LEMMA ActixCallStep ==
  ASSUME Perf, HttpOK, NEW r \in Requests, NEW h \in Headers \cup {None},
         NEW start \in BOOLEAN, ActixCall(r, h, start)
  PROVE  Perf' /\ Grows /\ HttpOK'
<1>1. HttpTyped /\ Served /\ RequestsIsolated /\ PerfTyped  BY PerfFacts DEF HttpOK
<1>2. /\ req[r].phase = "none" /\ bound' = bound /\ reported' = reported /\ disturbed' = disturbed
      /\ UNCHANGED <<options, sent, lost, finishing>>
      /\ r \in Hubs /\ scope_span[MainHub] \in Nodes \cup {None} /\ bound \in BOOLEAN
      /\ scope_span[MainHub] # None => node[scope_span[MainHub]] # Free
      /\ disturbed \subseteq Hubs
  BY <1>1 DEF ActixCall, HttpTyped, Served, Hubs
<1>3. /\ scope_span' \in [Hubs -> Nodes \cup {None}] /\ scope_span'[r] = scope_span[MainHub]
      /\ \A x \in Hubs \ {r} : scope_span'[x] = scope_span[x]
  BY <1>1, <1>2 DEF ActixCall, SpanSet, HubOf, HttpTyped
<1>4. PICK n \in IF start THEN { m \in Nodes : node[m] = Free } ELSE {None} :
        /\ req' = [req EXCEPT ![r] = [phase |-> "called", via |-> "actix", header |-> h,
                                      start |-> start, trx |-> n, parent |-> None]]
        /\ IF start THEN StartTransaction(n, ContinueFromHeaders(n, h), bound) ELSE UNCHANGED node
  BY DEF ActixCall
<1> DEFINE q == [phase |-> "called", via |-> "actix", header |-> h,
                 start |-> start, trx |-> n, parent |-> None]
<1>5. /\ q \in Request /\ q.phase = "called" /\ q.via = "actix" /\ q.trx = n /\ q.parent = None
      /\ req' = [req EXCEPT ![r] = q]
  BY <1>4 DEF Request
<1> HIDE DEF q
<1>6. /\ Perf' /\ Grows
      /\ n # None => node'[n].kind = "trx" /\ n \in Nodes /\ node[n] = Free
      /\ \A m \in Nodes : node[m].kind = "trx" /\ m # n =>
           node'[m].open = node[m].open /\ node'[m].status = node[m].status
  <2>1. CASE start
    <3>1. n \in Nodes /\ node[n] = Free /\ StartTransaction(n, ContinueFromHeaders(n, h), bound)
      BY <1>4, <2>1
    <3>2. Perf' /\ Grows /\ Others(n) /\ node'[n].kind = "trx"
      BY <1>1, <1>2, <3>1, Contexts, StartTransactionStep
    <3> QED  BY <3>1, <3>2 DEF Others
  <2>2. CASE ~start
    <3>1. n = None /\ node' = node  BY <1>4, <2>2
    <3>2. Perf' /\ Grows  BY <1>2, <3>1, PerfIdle DEF perfVars
    <3> QED  BY <3>1, <3>2
  <2> QED  BY <2>1, <2>2
<1>7. \A s \in Requests \ {r} : req[s] # Unserved /\ n # None => req[s].trx # n
  <2>1. ASSUME NEW s \in Requests, req[s] # Unserved, req[s].trx = n, n # None  PROVE FALSE
    <3>1. node[n].kind = "trx"  BY <1>1, <2>1 DEF Served, IsTrx
    <3> QED  BY <1>6, <2>1, <3>1 DEF Free
  <2> QED  BY <2>1
<1>8. scope_span[MainHub] # None => node'[scope_span[MainHub]] # Free
  BY <1>2, <1>6 DEF Grows
<1>9. Moves(r, q)
  BY <1>2, <1>3, <1>5, <1>6, <1>7, <1>8 DEF Moves, Over
<1> QED  BY <1>1, <1>6, <1>9, MovesStep DEF HttpOK

LEMMA ActixFirstPollStep ==
  ASSUME Perf, HttpOK, NEW r \in Requests, ActixFirstPoll(r)
  PROVE  Perf' /\ Grows /\ HttpOK'
<1> DEFINE q == [req[r] EXCEPT !.phase = "running", !.parent = scope_span[r]]
<1>1. HttpTyped /\ Served /\ RequestsIsolated  BY DEF HttpOK
<1>2. Perf' /\ Grows /\ node' = node  BY PerfIdle DEF ActixFirstPoll, perfVars
<1>3. /\ req[r].phase = "called" /\ req[r] \in Request /\ req[r] # Unserved
      /\ (req[r].trx # None => node[req[r].trx].kind = "trx")
      /\ bound' = bound /\ reported' = reported /\ disturbed' = disturbed
      /\ r \in Hubs /\ scope_span[r] \in Nodes \cup {None} /\ req[r].trx \in Nodes \cup {None}
      /\ scope_span[r] # None => node[scope_span[r]] # Free
      /\ disturbed \subseteq Hubs
      /\ \A s \in Requests \ {r} : req[s] # Unserved /\ req[r].trx # None => req[s].trx # req[r].trx
  <2>1. req[r].phase = "called"  BY DEF ActixFirstPoll
  <2>2. req[r] \in Request /\ req[r] # Unserved /\ req[r].trx \in Nodes \cup {None}
    BY <1>1, <2>1, RequestFacts
  <2>3. /\ (req[r].trx # None => node[req[r].trx].kind = "trx")
        /\ \A s \in Requests \ {r} : req[s] # Unserved /\ req[r].trx # None => req[s].trx # req[r].trx
    BY <1>1, <2>2 DEF Served, IsTrx
  <2>4. /\ r \in Hubs /\ scope_span[r] \in Nodes \cup {None} /\ disturbed \subseteq Hubs
        /\ scope_span[r] # None => node[scope_span[r]] # Free
    BY <1>1 DEF HttpTyped, Served, Hubs
  <2> QED  BY <2>1, <2>2, <2>3, <2>4 DEF ActixFirstPoll
<1>4. req' = [req EXCEPT ![r] = q]  BY <1>1 DEF ActixFirstPoll, HttpTyped, HubOf
<1>5. q \in Request /\ q.phase = "running" /\ q.trx = req[r].trx /\ q.parent = scope_span[r]
  BY <1>3 DEF Request
<1> HIDE DEF q
<1>6. /\ scope_span' \in [Hubs -> Nodes \cup {None}]
      /\ scope_span'[r] = IF req[r].trx # None THEN req[r].trx ELSE scope_span[r]
      /\ \A x \in Hubs \ {r} : scope_span'[x] = scope_span[x]
  BY <1>1, <1>3 DEF ActixFirstPoll, SpanSet, HubOf, HttpTyped
<1>7. scope_span'[r] # None => node'[scope_span'[r]] # Free
  BY <1>2, <1>3, <1>6 DEF Free
<1>8. Moves(r, q)
  BY <1>2, <1>3, <1>4, <1>5, <1>6, <1>7 DEF Moves, Over
<1> QED  BY <1>1, <1>2, <1>8, MovesStep DEF HttpOK

LEMMA RunningFacts ==
  ASSUME HttpOK, NEW r \in Requests, req[r].phase \in {"called", "running"}
  PROVE  /\ req[r] \in Request /\ req[r] # Unserved /\ req[r].trx \in Nodes \cup {None} /\ r \in Hubs
         /\ req[r].trx # None => node[req[r].trx].kind = "trx" /\ node[req[r].trx] # Free
         /\ req[r].parent \in Nodes \cup {None}
         /\ req[r].parent # None => node[req[r].parent] # Free
         /\ \A s \in Requests \ {r} : req[s] # Unserved /\ req[r].trx # None => req[s].trx # req[r].trx
         /\ scope_span[r] \in Nodes \cup {None}
         /\ scope_span[r] # None => node[scope_span[r]] # Free
<1>1. HttpTyped /\ Served  BY DEF HttpOK
<1>2. req[r] \in Request /\ req[r] # Unserved /\ req[r].trx \in Nodes \cup {None}
      /\ req[r].parent \in Nodes \cup {None}
  BY <1>1, RequestFacts
<1>3. /\ req[r].trx # None => node[req[r].trx].kind = "trx"
      /\ req[r].parent # None => node[req[r].parent] # Free
      /\ \A s \in Requests \ {r} : req[s] # Unserved /\ req[r].trx # None => req[s].trx # req[r].trx
  BY <1>1, <1>2 DEF Served, IsTrx
<1>4. r \in Hubs  BY DEF Hubs
<1>5. /\ scope_span[r] \in Nodes \cup {None}
      /\ scope_span[r] # None => node[scope_span[r]] # Free
  BY <1>1, <1>4 DEF HttpTyped, Served
<1>6. req[r].trx # None => node[req[r].trx] # Free  BY <1>3 DEF Free
<1> QED  BY <1>2, <1>3, <1>4, <1>5, <1>6

LEMMA HandlerSteps ==
  ASSUME Perf, HttpOK,
         \/ \E r \in Requests, n \in Nodes : HandlerChild(r, n)
         \/ \E r \in Requests : HandlerStatus(r)
         \/ \E n \in Nodes : HandlerFinish(n)
  PROVE  Perf' /\ Grows /\ HttpOK'
<1>1. HttpTyped /\ Served /\ RequestsIsolated /\ PerfTyped  BY PerfFacts DEF HttpOK
<1>2. \A r \in Requests : req[r] # Unserved /\ req[r].trx # None => req[r].trx \in Nodes /\ node[req[r].trx].kind = "trx"
  BY <1>1, RequestFacts DEF Served, IsTrx
<1>3. ASSUME NEW r \in Requests, NEW n \in Nodes, HandlerChild(r, n)  PROVE Perf' /\ Grows /\ HttpOK'
  <2>1. scope_span[r] \in Nodes /\ node[scope_span[r]] # Free
    BY <1>3, RunningFacts DEF HandlerChild, Running, HubOf
  <2>2. Perf' /\ Grows /\ Others(n)
    BY <1>3, <2>1, StartChildStep DEF HandlerChild, HubOf
  <2>3. \A s \in Requests : req[s] # Unserved /\ req[s].trx # None => req[s].trx # n
    BY <1>2, <1>3 DEF HandlerChild, Free
  <2>4. UNCHANGED httpVars  BY <1>3 DEF HandlerChild
  <2> QED  BY <1>1, <1>2, <2>2, <2>3, <2>4, HandlerKeeps DEF Others, HttpOK
<1>4. ASSUME NEW r \in Requests, HandlerStatus(r)  PROVE Perf' /\ Grows /\ HttpOK'
  <2>1. PICK n \in Nodes : n = req[r].trx /\ node[n] # Free /\ req[r].phase = "running" /\ req[r] # Unserved
    BY <1>4, RunningFacts DEF HandlerStatus, Running
  <2>2. PICK x \in TrxRecord \cup SpanRecord : Same(node[n], x) /\ node' = [node EXCEPT ![n] = x]
    <3>1. node' = [node EXCEPT ![n] = WithStatus(node[n], "handler")]
      BY <1>4, <2>1 DEF HandlerStatus
    <3> QED  BY <1>1, <2>1, <3>1, Setters DEF Statuses
  <2>3. Perf' /\ Grows /\ Others(n)
    BY <1>4, <2>1, <2>2, TouchStep DEF HandlerStatus
  <2>4. ASSUME NEW s \in Requests, req[s] # Unserved, req[s].trx # None, Over(req[s])
        PROVE  req[s].trx # n
    <3>1. s # r  BY <2>1, <2>4 DEF Over
    <3>2. req[r].trx # None  BY <1>4 DEF HandlerStatus
    <3> QED  BY <1>1, <2>1, <2>4, <3>1, <3>2 DEF Served
  <2>5. UNCHANGED httpVars  BY <1>4 DEF HandlerStatus
  <2> QED  BY <1>1, <1>2, <2>3, <2>4, <2>5, HandlerKeeps DEF Others, HttpOK
<1>5. ASSUME NEW n \in Nodes, HandlerFinish(n)  PROVE Perf' /\ Grows /\ HttpOK'
  <2>1. node[n].kind = "span" /\ node[n] \in SpanRecord /\ node[n] # Free /\ Same(node[n], node[n])
    BY <1>1, <1>5, KindFacts DEF HandlerFinish, IsSpan, Same, Alike
  <2>2. Perf' /\ Grows /\ Others(n)
    BY <1>5, <2>1, FinishStep DEF HandlerFinish
  <2>3. UNCHANGED httpVars  BY <1>5 DEF HandlerFinish
  <2>4. \A s \in Requests : req[s] # Unserved /\ req[s].trx # None => req[s].trx # n
    BY <1>2, <2>1
  <2> QED  BY <1>1, <1>2, <2>2, <2>3, <2>4, HandlerKeeps DEF Others, HttpOK
<1> QED  BY <1>3, <1>4, <1>5

\* The end of a request's transaction.
LEMMA SettledStep ==
  ASSUME Perf, HttpOK, NEW r \in Requests, req[r].phase \in {"called", "running"},
         NEW status \in Statuses, Settled(r, status), UNCHANGED <<options, finishing>>
  PROVE  /\ Perf' /\ Grows
         /\ req[r].trx # None => ~node'[req[r].trx].open /\ node'[req[r].trx].status # None
                                 /\ node'[req[r].trx].kind = "trx"
         /\ \A m \in Nodes : node[m].kind = "trx" /\ m # req[r].trx =>
              node'[m].open = node[m].open /\ node'[m].status = node[m].status
<1>1. PerfTyped  BY PerfFacts
<1>2. CASE req[r].trx = None
  <2>1. UNCHANGED perfVars  BY <1>2 DEF Settled, perfVars
  <2> QED  BY <1>2, <2>1, PerfIdle DEF perfVars
<1>3. CASE req[r].trx # None
  <2>1. PICK n \in Nodes : n = req[r].trx /\ node[n].kind = "trx" /\ node[n] # Free
    BY <1>3, RunningFacts
  <2> DEFINE x == WithDefaultStatus(node[n], status)
  <2>2. FinishTransaction(n, x)  BY <1>3, <2>1 DEF Settled
  <2>3. Same(node[n], x) /\ x \in TrxRecord \cup SpanRecord /\ x.status # None
    BY <1>1, <2>1, Setters
  <2>4. x \in TrxRecord  BY <2>1, <2>3 DEF Same, Alike, SpanRecord
  <2> HIDE DEF x
  <2>5. Perf' /\ Grows /\ Others(n) /\ ~node'[n].open /\ node'[n].status = x.status
    BY <2>1, <2>2, <2>3, <2>4, FinishTransactionStep
  <2>6. node'[n].kind = "trx"  BY <2>1, <2>5 DEF Grows, Alike
  <2> QED  BY <2>1, <2>3, <2>5, <2>6 DEF Others
<1> QED  BY <1>2, <1>3

LEMMA ReadyStep ==
  ASSUME Perf, HttpOK, NEW r \in Requests, NEW status \in Statuses, NEW serverError,
         Ready(r, status, serverError)
  PROVE  Perf' /\ Grows /\ HttpOK'
<1> DEFINE q == [req[r] EXCEPT !.phase = "done"]
<1>1. HttpTyped /\ Served /\ RequestsIsolated  BY DEF HttpOK
<1>2. /\ req[r].phase = "running" /\ bound' = bound /\ disturbed' = disturbed
      /\ disturbed \subseteq Hubs /\ UNCHANGED <<options, finishing>>
  BY <1>1 DEF Ready, Running, HttpTyped
<1>3. /\ req[r] \in Request /\ req[r] # Unserved /\ req[r].trx \in Nodes \cup {None} /\ r \in Hubs
      /\ req[r].trx # None => node[req[r].trx].kind = "trx" /\ node[req[r].trx] # Free
      /\ req[r].parent \in Nodes \cup {None}
      /\ req[r].parent # None => node[req[r].parent] # Free
      /\ \A s \in Requests \ {r} : req[s] # Unserved /\ req[r].trx # None => req[s].trx # req[r].trx
      /\ scope_span[r] \in Nodes \cup {None}
      /\ scope_span[r] # None => node[scope_span[r]] # Free
  BY <1>2, RunningFacts
<1>4. /\ Perf' /\ Grows
      /\ req[r].trx # None => ~node'[req[r].trx].open /\ node'[req[r].trx].status # None
                              /\ node'[req[r].trx].kind = "trx"
      /\ \A m \in Nodes : node[m].kind = "trx" /\ m # req[r].trx =>
           node'[m].open = node[m].open /\ node'[m].status = node[m].status
  BY <1>2, SettledStep DEF Ready
<1>5. req' = [req EXCEPT ![r] = q]  BY <1>1 DEF Ready, HttpTyped
<1>6. q \in Request /\ q.phase = "done" /\ q.trx = req[r].trx /\ q.parent = req[r].parent
  BY <1>3 DEF Request
<1> HIDE DEF q
<1>7. /\ scope_span' \in [Hubs -> Nodes \cup {None}]
      /\ scope_span'[r] \in {req[r].parent, scope_span[r]}
      /\ \A x \in Hubs \ {r} : scope_span'[x] = scope_span[x]
  <2>1. CASE req[r].trx # None
    BY <1>1, <1>3, <2>1 DEF Ready, HubOf, HttpTyped
  <2>2. CASE req[r].trx = None
    <3>1. scope_span' = scope_span  BY <2>2 DEF Ready
    <3> QED  BY <1>1, <3>1 DEF HttpTyped
  <2> QED  BY <2>1, <2>2
<1>8. /\ scope_span'[r] # None => node'[scope_span'[r]] # Free
      /\ req[r].parent # None => node'[req[r].parent] # Free
  BY <1>3, <1>4, <1>7 DEF Grows
<1>9. \/ reported' = reported
      \/ \E s \in Nodes \cup {None} : /\ reported' = reported \cup {[req |-> r, span |-> s]}
                                      /\ req[r].trx # None /\ r \notin disturbed => s = req[r].trx
  <2>1. reported' \in {reported, reported \cup {[req |-> r, span |-> scope_span[r]]}}
    BY DEF Ready, HubOf
  <2>2. req[r].trx # None /\ r \notin disturbed => scope_span[r] = req[r].trx
    BY <1>1, <1>2 DEF RequestsIsolated, Running, HubOf
  <2> QED  BY <1>3, <2>1, <2>2
<1>10. Moves(r, q)
  BY <1>2, <1>3, <1>4, <1>5, <1>6, <1>7, <1>8, <1>9 DEF Moves, Over
<1> QED  BY <1>1, <1>4, <1>10, MovesStep DEF HttpOK

LEMMA TowerDropStep ==
  ASSUME Perf, HttpOK, NEW r \in Requests, NEW h \in Hubs, TowerDrop(r, h)
  PROVE  Perf' /\ Grows /\ HttpOK'
<1> DEFINE q == [req[r] EXCEPT !.phase = "dropped"]
<1>1. HttpTyped /\ Served /\ RequestsIsolated  BY DEF HttpOK
<1>2. /\ req[r].phase \in {"called", "running"} /\ bound' = bound /\ reported' = reported
      /\ disturbed \subseteq Hubs /\ UNCHANGED <<options, finishing>> /\ h # r
  BY <1>1 DEF TowerDrop, Running, HttpTyped
<1>3. /\ req[r] \in Request /\ req[r] # Unserved /\ req[r].trx \in Nodes \cup {None} /\ r \in Hubs
      /\ req[r].trx # None => node[req[r].trx].kind = "trx" /\ node[req[r].trx] # Free
      /\ req[r].parent \in Nodes \cup {None}
      /\ req[r].parent # None => node[req[r].parent] # Free
      /\ \A s \in Requests \ {r} : req[s] # Unserved /\ req[r].trx # None => req[s].trx # req[r].trx
      /\ scope_span[r] \in Nodes \cup {None}
      /\ scope_span[r] # None => node[scope_span[r]] # Free
  BY <1>2, RunningFacts
<1>4. /\ Perf' /\ Grows
      /\ req[r].trx # None => ~node'[req[r].trx].open /\ node'[req[r].trx].status # None
                              /\ node'[req[r].trx].kind = "trx"
      /\ \A m \in Nodes : node[m].kind = "trx" /\ m # req[r].trx =>
           node'[m].open = node[m].open /\ node'[m].status = node[m].status
  BY <1>2, SettledStep DEF TowerDrop, TowerAborted, Statuses
<1>5. req' = [req EXCEPT ![r] = q]  BY <1>1 DEF TowerDrop, HttpTyped
<1>6. q \in Request /\ q.phase = "dropped" /\ q.trx = req[r].trx /\ q.parent = req[r].parent
  BY <1>3 DEF Request
<1> HIDE DEF q
<1>7. /\ scope_span' \in [Hubs -> Nodes \cup {None}] /\ scope_span'[r] = scope_span[r]
      /\ disturbed \subseteq disturbed' /\ disturbed' \subseteq Hubs
      /\ \A x \in Hubs \ {r} :
           \/ scope_span'[x] = scope_span[x]
           \/ x \in disturbed' /\ scope_span'[x] = req[r].parent
  <2>1. CASE req[r].trx # None
    <3>1. scope_span' = [scope_span EXCEPT ![h] = req[r].parent] /\ disturbed' = disturbed \cup {h}
      BY <2>1 DEF TowerDrop, SpanSet
    <3> QED  BY <1>1, <1>2, <1>3, <3>1 DEF HttpTyped
  <2>2. CASE req[r].trx = None
    <3>1. scope_span' = scope_span /\ disturbed' = disturbed  BY <2>2 DEF TowerDrop
    <3> QED  BY <1>1, <3>1 DEF HttpTyped
  <2> QED  BY <2>1, <2>2
<1>8. /\ scope_span'[r] # None => node'[scope_span'[r]] # Free
      /\ req[r].parent # None => node'[req[r].parent] # Free
  BY <1>3, <1>4, <1>7 DEF Grows
<1>9. Moves(r, q)
  BY <1>2, <1>3, <1>4, <1>5, <1>6, <1>7, <1>8 DEF Moves, Over
<1> QED  BY <1>1, <1>4, <1>9, MovesStep DEF HttpOK

LEMMA ActixDropStep ==
  ASSUME Perf, HttpOK, NEW r \in Requests, ActixDrop(r)
  PROVE  Perf' /\ Grows /\ HttpOK'
<1> DEFINE q == [req[r] EXCEPT !.phase = "dropped"]
<1>1. HttpTyped /\ Served /\ RequestsIsolated  BY DEF HttpOK
<1>2. /\ req[r].phase \in {"called", "running"} /\ bound' = bound /\ reported' = reported
      /\ disturbed \subseteq Hubs /\ disturbed' = disturbed /\ scope_span' = scope_span
      /\ scope_span \in [Hubs -> Nodes \cup {None}] /\ req[r].via = "actix"
  BY <1>1 DEF ActixDrop, HttpTyped
<1>3. /\ req[r] \in Request /\ req[r] # Unserved /\ req[r].trx \in Nodes \cup {None} /\ r \in Hubs
      /\ req[r].trx # None => node[req[r].trx].kind = "trx" /\ node[req[r].trx] # Free
      /\ req[r].parent \in Nodes \cup {None}
      /\ req[r].parent # None => node[req[r].parent] # Free
      /\ \A s \in Requests \ {r} : req[s] # Unserved /\ req[r].trx # None => req[s].trx # req[r].trx
      /\ scope_span[r] \in Nodes \cup {None}
      /\ scope_span[r] # None => node[scope_span[r]] # Free
  BY <1>2, RunningFacts
<1>4. Perf' /\ Grows /\ node' = node  BY PerfIdle DEF ActixDrop, perfVars
<1>5. req' = [req EXCEPT ![r] = q]  BY <1>1 DEF ActixDrop, HttpTyped
<1>6. q \in Request /\ q.phase = "dropped" /\ q.via = "actix" /\ q.trx = req[r].trx /\ q.parent = req[r].parent
  BY <1>2, <1>3 DEF Request
<1> HIDE DEF q
<1>7. Moves(r, q)
  BY <1>2, <1>3, <1>4, <1>5, <1>6 DEF Moves, Over
<1> QED  BY <1>1, <1>4, <1>7, MovesStep DEF HttpOK

LEMMA HttpStep ==
  ASSUME Perf, HttpOK, TowerNext \/ ActixNext \/ HandlerNext
  PROVE  Perf' /\ Grows /\ HttpOK'
<1>1. ASSUME TowerNext  PROVE Perf' /\ Grows /\ HttpOK'
  BY <1>1, TowerCallStep, TowerFirstPollStep, TowerDropStep DEF TowerNext
<1>2. ASSUME ActixNext  PROVE Perf' /\ Grows /\ HttpOK'
  BY <1>2, ActixCallStep, ActixFirstPollStep, ActixDropStep DEF ActixNext
<1>3. ASSUME HandlerNext  PROVE Perf' /\ Grows /\ HttpOK'
  <2>1. ASSUME NEW r \in Requests, NEW e \in BOOLEAN, Ready(r, IF e THEN "InternalError" ELSE "Ok", e)
        PROVE  Perf' /\ Grows /\ HttpOK'
    BY <2>1, ReadyStep DEF Statuses
  <2> QED  BY <1>3, <2>1, HandlerSteps DEF HandlerNext
<1> QED  BY <1>1, <1>2, <1>3

\* What the middleware promises about the ends of requests.
LEMMA ServedSettles ==
  ASSUME Perf, HttpTyped, Served
  PROVE  RequestsSettled
<1>1. PerfTyped /\ SentMatches /\ LostMatches  BY DEF Perf, Accounted
<1> SUFFICES ASSUME NEW r \in Requests, Over(req[r]), req[r].trx # None, node[req[r].trx].client
             PROVE  /\ ~node[req[r].trx].open /\ node[req[r].trx].status # None
                    /\ Len(lost[req[r].trx]) + Cardinality({ i \in DOMAIN sent : sent[i].trx = req[r].trx }) = 1
  BY DEF RequestsSettled, Over
<1>2. req[r] # Unserved /\ req[r].trx \in Nodes
  <2>1. req[r].phase # "none"  BY DEF Over
  <2> QED  BY <2>1, RequestFacts
<1>3. PICK n \in Nodes : n = req[r].trx  BY <1>2
<1>4. node[n].kind = "trx" /\ ~node[n].open /\ node[n].status # None
  BY <1>2, <1>3 DEF Served, IsTrx, Over
<1>5. Len(lost[n]) + Cardinality({ i \in DOMAIN sent : sent[i].trx = n }) = 1
  <2>1. CASE node[n].sampled
    <3>1. lost[n] = <<>>  BY <1>1, <1>3, <1>4, <2>1 DEF LostMatches, IsTrx
    <3>2. PICK i \in DOMAIN sent : sent[i].trx = n
      BY <1>1, <1>3, <1>4, <2>1 DEF SentMatches, IsTrx
    <3>3. { j \in DOMAIN sent : sent[j].trx = n } = {i}  BY <1>1, <3>2 DEF SentMatches
    <3>4. Cardinality({ j \in DOMAIN sent : sent[j].trx = n }) = 1  BY <3>3, FS_Singleton, Zenon
    <3>5. Len(lost[n]) = 0  BY <3>1
    <3> QED  BY <3>4, <3>5
  <2>2. CASE ~node[n].sampled
    <3>1. lost[n] = <<"SampleRate">>  BY <1>1, <1>3, <1>4, <2>2 DEF LostMatches, IsTrx
    <3>2. { j \in DOMAIN sent : sent[j].trx = n } = {}
      BY <1>1, <2>2 DEF SentMatches
    <3>3. Cardinality({}) = 0  BY FS_EmptySet
    <3>4. Len(lost[n]) = 1  BY <3>1
    <3> QED  BY <3>2, <3>3, <3>4
  <2> QED  BY <2>1, <2>2
<1> QED  BY <1>3, <1>4, <1>5

-----------------------------------------------------------------------------
(* The tracing layer.  First its sequences.                                *)

\* Taking out the last occurrence of the last element.
LEMMA RemoveLast ==
  ASSUME NEW S, NEW e \in Seq(S), e # <<>>, NEW n, n = Last(e)
  PROVE  RemoveAt(e, SelectLastInSeq(e, LAMBDA m : m = n)) = Front(e)
<1>1. PICK l \in Nat : l = Len(e) /\ l > 0  OBVIOUS
<1> DEFINE I == { i \in 1..Len(e) : e[i] = n }
<1>2. l \in I /\ \A i \in I : l >= i /\ i \in Int  BY <1>1 DEF Last
<1>3. Max(I) = l
  <2> HIDE DEF I
  <2>1. \E x : x \in I /\ \A y \in I : x >= y  BY <1>2
  <2>2. Max(I) \in I /\ \A y \in I : Max(I) >= y  BY <2>1, Zenon DEF Max
  <2>3. PICK x : x = Max(I)  OBVIOUS
  <2>4. x \in I /\ x >= l  BY <1>2, <2>2, <2>3
  <2>5. x \in Int /\ l >= x  BY <1>2, <2>4
  <2> QED  BY <2>3, <2>4, <2>5
<1>4. SelectLastInSeq(e, LAMBDA m : m = n) = l
  BY <1>2, <1>3 DEF SelectLastInSeq
<1>5. SubSeq(e, l + 1, l) = <<>>  BY <1>1, SubSeqEmpty
<1>6. SubSeq(e, 1, l - 1) \in Seq(S)
  BY <1>1, SubSeqProperties
<1>7. SubSeq(e, 1, l - 1) \o <<>> = SubSeq(e, 1, l - 1)  BY <1>6, ConcatEmptySeq
<1> QED  BY <1>1, <1>4, <1>5, <1>7 DEF RemoveAt, Front

LEMMA LastAndFront ==
  ASSUME NEW S, NEW e \in Seq(S), e # <<>>
  PROVE  \E l \in Nat \ {0} :
           /\ Len(e) = l /\ DOMAIN e = 1..l /\ Last(e) = e[l] /\ Last(e) \in S
           /\ Front(e) \in Seq(S) /\ Len(Front(e)) = l - 1 /\ DOMAIN Front(e) = 1..(l - 1)
           /\ \A i \in 1..(l - 1) : Front(e)[i] = e[i]
<1>1. PICK l \in Nat \ {0} : l = Len(e)  OBVIOUS
<1>2. DOMAIN e = 1..l /\ Last(e) = e[l] /\ e[l] \in S  BY <1>1 DEF Last
<1>3. \A i \in 1..(l - 1) : e[i] \in S  BY <1>1
<1>4. /\ SubSeq(e, 1, l - 1) \in Seq(S)
      /\ Len(SubSeq(e, 1, l - 1)) = IF 1 <= l - 1 THEN (l - 1) - 1 + 1 ELSE 0
      /\ \A i \in 1..((l - 1) - 1 + 1) : SubSeq(e, 1, l - 1)[i] = e[1 + i - 1]
  BY <1>1, <1>3, SubSeqProperties
<1>5. Front(e) = SubSeq(e, 1, l - 1)  BY <1>1 DEF Front
<1>6. Front(e) \in Seq(S) /\ Len(Front(e)) = l - 1  BY <1>1, <1>4, <1>5
<1>7. \A i \in 1..(l - 1) : Front(e)[i] = e[i]
  <2> SUFFICES ASSUME NEW i \in 1..(l - 1)  PROVE Front(e)[i] = e[i]
    OBVIOUS
  <2>1. (l - 1) - 1 + 1 = l - 1 /\ 1 + i - 1 = i  BY <1>1
  <2> QED  BY <1>4, <1>5, <2>1
<1> QED  BY <1>1, <1>2, <1>6, <1>7

\* p[i] is the guard of the i-th span entered.
Restores(t, e, g, p, i) ==
  IF i = 1 THEN g[e[i]][p[i]] = Home(t) ELSE g[e[i]][p[i]].span = e[i - 1]
InOrder(e, p, D) == \A i, j \in D : i < j /\ e[i] = e[j] => p[i] < p[j]
Covered(e, g, p, D) == \A n \in Nodes : \A k \in DOMAIN g[n] : \E i \in D : e[i] = n /\ p[i] = k
Guarding(t, e, g, p) ==
  /\ p \in [DOMAIN e -> DOMAIN e]
  /\ \A i \in DOMAIN e : p[i] <= i /\ p[i] \in DOMAIN g[e[i]] /\ Restores(t, e, g, p, i)
  /\ InOrder(e, p, DOMAIN e) /\ Covered(e, g, p, DOMAIN e)

NestsIn(t, e, g) == e \in Seq(Nodes) /\ \E p : Guarding(t, e, g, p)

LEMMA NestedGuards ==
  Nested <=> \A t \in Threads \ unordered : NestsIn(t, entered[t], span_guards[t])
BY DEF Nested, NestsIn, Guarding, Restores, InOrder, Covered

LEMMA NestedGuardsNext ==
  Nested' <=> \A t \in Threads \ unordered' : NestsIn(t, entered'[t], span_guards'[t])
BY DEF Nested, NestsIn, Guarding, Restores, InOrder, Covered

LEMMA GuardingFacts ==
  ASSUME NEW t, NEW e \in Seq(Nodes), NEW g, NEW p, NEW l \in Nat, l = Len(e), Guarding(t, e, g, p)
  PROVE  /\ \A i \in 1..l : p[i] \in 1..l /\ p[i] <= i /\ e[i] \in Nodes
         /\ \A i \in 1..l : p[i] \in DOMAIN g[e[i]]
         /\ \A i \in 1..l : Restores(t, e, g, p, i)
         /\ InOrder(e, p, 1..l) /\ Covered(e, g, p, 1..l)
<1>1. DOMAIN e = 1..l  OBVIOUS
<1>2. p \in [1..l -> 1..l]  BY <1>1 DEF Guarding
<1>3. \A i \in 1..l : p[i] <= i /\ p[i] \in DOMAIN g[e[i]] /\ Restores(t, e, g, p, i)
  BY <1>1 DEF Guarding
<1>4. InOrder(e, p, 1..l) /\ Covered(e, g, p, 1..l)
  BY <1>1 DEF Guarding
<1>6. \A i \in 1..l : e[i] \in Nodes  BY <1>1
<1> QED  BY <1>2, <1>3, <1>4, <1>6

LEMMA GuardPushed ==
  ASSUME NEW t, NEW e \in Seq(Nodes), NEW g \in [Nodes -> Seq(TracingHubs)], NEW p, Guarding(t, e, g, p),
         NEW n \in Nodes, NEW hub \in TracingHubs,
         IF e = <<>> THEN hub = Home(t) ELSE hub.span = Last(e)
  PROVE  \E q : Guarding(t, Append(e, n), [g EXCEPT ![n] = Append(g[n], hub)], q)
<1>1. PICK l \in Nat, k \in Nat : l = Len(e) /\ k = Len(g[n]) /\ DOMAIN e = 1..l /\ DOMAIN g[n] = 1..k
  OBVIOUS
<1> DEFINE f == Append(e, n)
           h == [g EXCEPT ![n] = Append(g[n], hub)]
           q == [i \in 1..(l + 1) |-> IF i \in 1..l THEN p[i] ELSE k + 1]
<1>2. /\ DOMAIN f = 1..(l + 1) /\ f[l + 1] = n /\ \A i \in 1..l : f[i] = e[i] /\ e[i] \in Nodes
  BY <1>1
<1>3. /\ DOMAIN h[n] = 1..(k + 1) /\ h[n][k + 1] = hub /\ \A i \in 1..k : h[n][i] = g[n][i]
      /\ \A m \in Nodes : m # n => h[m] = g[m]
  <2>1. h[n] = Append(g[n], hub) /\ g[n] \in Seq(TracingHubs)  OBVIOUS
  <2> QED  BY <1>1, <2>1
<1>41. \A i \in 1..l : p[i] \in 1..l /\ p[i] <= i /\ e[i] \in Nodes
  BY <1>1, GuardingFacts
<1>42. \A i \in 1..l : p[i] \in DOMAIN g[e[i]]
  BY <1>1, GuardingFacts
<1>43. \A i \in 1..l : Restores(t, e, g, p, i)
  BY <1>1, GuardingFacts
<1>40. InOrder(e, p, 1..l) /\ Covered(e, g, p, 1..l)
  BY <1>1, GuardingFacts
<1>44. \A i, j \in 1..l : i < j /\ e[i] = e[j] => p[i] < p[j]
  BY <1>40 DEF InOrder
<1>45. \A m \in Nodes : \A x \in DOMAIN g[m] : \E i \in 1..l : e[i] = m /\ p[i] = x
  BY <1>40 DEF Covered
<1>5. k <= l
  <2>1. CASE k = 0  BY <2>1
  <2>2. CASE k > 0
    <3>1. k \in DOMAIN g[n]  BY <1>1, <2>2
    <3>2. PICK i \in 1..l : p[i] = k  BY <1>45, <3>1
    <3> QED  BY <1>41, <3>2
  <2> QED  BY <2>1, <2>2
<1>6. q[l + 1] = k + 1 /\ \A i \in 1..l : q[i] = p[i]
  BY <1>1
<1>7. e # <<>> => l > 0 /\ Last(e) = e[l]  BY <1>1 DEF Last
<1>71. e = <<>> <=> l = 0  BY <1>1
<1>8. q \in [1..(l + 1) -> 1..(l + 1)]  BY <1>41, <1>5
<1> HIDE DEF f, h, q
<1>9. ASSUME NEW i \in 1..(l + 1)
      PROVE  q[i] <= i /\ q[i] \in DOMAIN h[f[i]] /\ Restores(t, f, h, q, i)
  <2>1. CASE i = l + 1
    <3>1. q[i] = k + 1 /\ f[i] = n /\ h[n][k + 1] = hub /\ k + 1 \in DOMAIN h[n]
      BY <1>1, <1>2, <1>3, <1>6, <2>1
    <3>2. CASE l = 0  BY <1>5, <1>71, <2>1, <3>1, <3>2 DEF Restores
    <3>3. CASE l > 0
      <4>1. i # 1 /\ i - 1 = l /\ f[l] = e[l] /\ hub.span = e[l]
        BY <1>2, <1>7, <1>71, <2>1, <3>3
      <4> QED  BY <1>5, <2>1, <3>1, <4>1 DEF Restores
    <3> QED  BY <3>2, <3>3
  <2>2. CASE i \in 1..l
    <3>1. q[i] = p[i] /\ f[i] = e[i] /\ e[i] \in Nodes  BY <1>2, <1>6, <2>2
    <3>2. h[e[i]][p[i]] = g[e[i]][p[i]] /\ p[i] \in DOMAIN h[e[i]]
      <4>1. CASE e[i] = n
        <5>1. p[i] \in 1..k  BY <1>1, <1>42, <2>2, <4>1
        <5> QED  BY <1>3, <4>1, <5>1
      <4>2. CASE e[i] # n  BY <1>3, <1>42, <2>2, <3>1, <4>2
      <4> QED  BY <4>1, <4>2
    <3>3. Restores(t, e, g, p, i) /\ p[i] <= i  BY <1>41, <1>43, <2>2
    <3>4. CASE i = 1  BY <3>1, <3>2, <3>3, <3>4 DEF Restores
    <3>5. CASE i # 1
      <4>1. i - 1 \in 1..l /\ f[i - 1] = e[i - 1]  BY <1>2, <2>2, <3>5
      <4> QED  BY <3>1, <3>2, <3>3, <3>5, <4>1 DEF Restores
    <3> QED  BY <3>4, <3>5
  <2> QED  BY <2>1, <2>2
<1>10. ASSUME NEW i \in 1..(l + 1), NEW j \in 1..(l + 1), i < j, f[i] = f[j]
       PROVE  q[i] < q[j]
  <2>1. i \in 1..l /\ q[i] = p[i] /\ f[i] = e[i]  BY <1>2, <1>6, <1>10
  <2>2. CASE j = l + 1
    <3>1. e[i] = n /\ q[j] = k + 1  BY <1>2, <1>6, <1>10, <2>1, <2>2
    <3>2. p[i] \in 1..k  BY <1>1, <1>42, <2>1, <3>1
    <3> QED  BY <2>1, <3>1, <3>2
  <2>3. CASE j \in 1..l  BY <1>2, <1>44, <1>6, <1>10, <2>1, <2>3
  <2> QED  BY <2>2, <2>3
<1>11. ASSUME NEW m \in Nodes, NEW x \in DOMAIN h[m]
       PROVE  \E i \in 1..(l + 1) : f[i] = m /\ q[i] = x
  <2>1. CASE m = n /\ x = k + 1  BY <1>2, <1>6, <2>1
  <2>2. CASE ~(m = n /\ x = k + 1)
    <3>1. x \in DOMAIN g[m]
      <4>1. CASE m = n
        <5>1. x \in 1..(k + 1)  BY <1>3, <1>11, <4>1
        <5> QED  BY <1>1, <2>2, <4>1, <5>1
      <4>2. CASE m # n  BY <1>3, <1>11, <4>2
      <4> QED  BY <4>1, <4>2
    <3>2. PICK i \in 1..l : e[i] = m /\ p[i] = x  BY <1>45, <3>1
    <3>3. i \in 1..(l + 1) /\ f[i] = m /\ q[i] = x  BY <1>2, <1>6, <3>2
    <3> QED  BY <3>3
  <2> QED  BY <2>1, <2>2
<1>12. Guarding(t, f, h, q)
  <2>1. DOMAIN f = 1..(l + 1)  BY <1>2
  <2>2. InOrder(f, q, 1..(l + 1))  BY <1>10 DEF InOrder
  <2>3. Covered(f, h, q, 1..(l + 1))  BY <1>11 DEF Covered
  <2> QED  BY <1>8, <1>9, <2>1, <2>2, <2>3 DEF Guarding
<1> QED  BY <1>12 DEF f, h

\* What is left when the span n is exited last and its last guard is taken.
Popped(t, e, g, n) ==
  /\ e # <<>>
  /\ \E q : Guarding(t, Front(e), [g EXCEPT ![n] = Front(g[n])], q)
  /\ IF Front(e) = <<>> THEN Last(g[n]) = Home(t) ELSE Last(g[n]).span = Last(Front(e))

LEMMA GuardPopped ==
  ASSUME NEW t, NEW e \in Seq(Nodes), NEW g \in [Nodes -> Seq(TracingHubs)], NEW p, Guarding(t, e, g, p),
         NEW n \in Nodes, g[n] # <<>>, e # <<>> => Last(e) = n
  PROVE  Popped(t, e, g, n)
<1> SUFFICES /\ e # <<>>
             /\ \E q : Guarding(t, Front(e), [g EXCEPT ![n] = Front(g[n])], q)
             /\ IF Front(e) = <<>> THEN Last(g[n]) = Home(t) ELSE Last(g[n]).span = Last(Front(e))
  BY DEF Popped
<1>1. PICK k \in Nat \ {0} :
        /\ Len(g[n]) = k /\ DOMAIN g[n] = 1..k /\ Last(g[n]) = g[n][k]
        /\ Front(g[n]) \in Seq(TracingHubs) /\ DOMAIN Front(g[n]) = 1..(k - 1)
        /\ \A i \in 1..(k - 1) : Front(g[n])[i] = g[n][i]
  <2>1. g[n] \in Seq(TracingHubs)  OBVIOUS
  <2> QED  BY <2>1, LastAndFront, ZenonT(120)
<1>2. e # <<>>
  <2>1. PICK i \in DOMAIN e : TRUE  BY <1>1 DEF Guarding, Covered
  <2> QED  BY <2>1
<1>3. PICK l \in Nat \ {0} :
        /\ Len(e) = l /\ DOMAIN e = 1..l /\ n = e[l]
        /\ Front(e) \in Seq(Nodes) /\ Len(Front(e)) = l - 1 /\ DOMAIN Front(e) = 1..(l - 1)
        /\ \A i \in 1..(l - 1) : Front(e)[i] = e[i]
  BY <1>2, LastAndFront
<1>41. \A i \in 1..l : p[i] \in 1..l /\ p[i] <= i /\ e[i] \in Nodes
  BY <1>3, GuardingFacts
<1>42. \A i \in 1..l : p[i] \in DOMAIN g[e[i]]
  BY <1>3, GuardingFacts
<1>43. \A i \in 1..l : Restores(t, e, g, p, i)
  BY <1>3, GuardingFacts
<1>40. InOrder(e, p, 1..l) /\ Covered(e, g, p, 1..l)
  BY <1>3, GuardingFacts
<1>44. \A i, j \in 1..l : i < j /\ e[i] = e[j] => p[i] < p[j]
  BY <1>40 DEF InOrder
<1>45. \A m \in Nodes : \A x \in DOMAIN g[m] : \E i \in 1..l : e[i] = m /\ p[i] = x
  BY <1>40 DEF Covered
<1>5. p[l] = k
  <2>0. k \in DOMAIN g[n] /\ l \in 1..l  BY <1>1
  <2>1. PICK i \in 1..l : e[i] = n /\ p[i] = k  BY <1>45, <2>0
  <2>2. p[l] \in 1..k  BY <1>1, <1>3, <1>42, <2>0
  <2>3. ASSUME i # l  PROVE FALSE
    <3>1. i < l /\ e[i] = e[l]  BY <1>3, <2>1, <2>3
    <3>2. p[i] < p[l]  BY <1>44, <2>0, <3>1
    <3> QED  BY <2>1, <2>2, <3>2
  <2> QED  BY <2>1, <2>3
<1>6. IF Front(e) = <<>> THEN Last(g[n]) = Home(t) ELSE Last(g[n]).span = Last(Front(e))
  <2>0. l \in 1..l  OBVIOUS
  <2>1. IF l = 1 THEN g[n][k] = Home(t) ELSE g[n][k].span = e[l - 1]
    BY <1>3, <1>43, <1>5, <2>0 DEF Restores
  <2>2. CASE l = 1
    <3>1. Front(e) = <<>>  BY <1>3, <2>2
    <3> QED  BY <1>1, <2>1, <2>2, <3>1
  <2>3. CASE l # 1
    <3>1. Front(e) # <<>>  BY <1>3, <2>3
    <3>2. Last(Front(e)) = e[l - 1]  BY <1>3, <2>3 DEF Last
    <3> QED  BY <1>1, <2>1, <2>3, <3>1, <3>2
  <2> QED  BY <2>2, <2>3
<1> DEFINE f == Front(e)
           h == [g EXCEPT ![n] = Front(g[n])]
           q == [i \in 1..(l - 1) |-> p[i]]
<1>7. h[n] = Front(g[n]) /\ \A m \in Nodes : m # n => h[m] = g[m]  OBVIOUS
<1>8. /\ q \in [1..(l - 1) -> 1..(l - 1)] /\ \A i \in 1..(l - 1) : q[i] = p[i]
  <2>1. \A i \in 1..(l - 1) : p[i] \in 1..(l - 1)
    <3>1. ASSUME NEW i \in 1..(l - 1)  PROVE p[i] \in 1..(l - 1)
      <4>1. i \in 1..l /\ i <= l - 1  BY <1>3
      <4>2. p[i] \in 1..l /\ p[i] <= i  BY <1>41, <4>1
      <4> QED  BY <1>3, <4>1, <4>2
    <3> QED  BY <3>1
  <2> QED  BY <2>1
<1>9. f \in Seq(Nodes) /\ DOMAIN f = 1..(l - 1) /\ \A i \in 1..(l - 1) : f[i] = e[i]
  BY <1>3
<1> HIDE DEF f, h, q
<1>10. ASSUME NEW i \in 1..(l - 1)
       PROVE  q[i] <= i /\ q[i] \in DOMAIN h[f[i]] /\ Restores(t, f, h, q, i)
  <2>0. i \in 1..l /\ i < l /\ l \in 1..l  OBVIOUS
  <2>1. i \in 1..l /\ i < l /\ q[i] = p[i] /\ f[i] = e[i] /\ e[i] \in Nodes
    BY <1>41, <1>8, <1>9, <2>0
  <2>2. h[e[i]][p[i]] = g[e[i]][p[i]] /\ p[i] \in DOMAIN h[e[i]]
    <3>1. CASE e[i] = n
      <4>0. p[i] < k  BY <1>3, <1>44, <1>5, <2>0, <3>1
      <4>1. p[i] \in 1..k  BY <1>1, <1>42, <2>0, <3>1
      <4>2. p[i] \in 1..(k - 1)  BY <4>0, <4>1
      <4> QED  BY <1>1, <1>7, <3>1, <4>2
    <3>2. CASE e[i] # n  BY <1>42, <1>7, <2>1, <3>2
    <3> QED  BY <3>1, <3>2
  <2>3. Restores(t, e, g, p, i) /\ p[i] <= i  BY <1>41, <1>43, <2>0
  <2>4. CASE i = 1  BY <2>1, <2>2, <2>3, <2>4 DEF Restores
  <2>5. CASE i # 1
    <3>1. i - 1 \in 1..(l - 1) /\ f[i - 1] = e[i - 1]  BY <1>9, <2>0, <2>5
    <3> QED  BY <2>1, <2>2, <2>3, <2>5, <3>1 DEF Restores
  <2> QED  BY <2>4, <2>5
<1>11. ASSUME NEW i \in 1..(l - 1), NEW j \in 1..(l - 1), i < j, f[i] = f[j]
       PROVE  q[i] < q[j]
  <2>1. /\ i \in 1..l /\ j \in 1..l /\ e[i] = e[j] /\ q[i] = p[i] /\ q[j] = p[j]
    BY <1>3, <1>8, <1>9, <1>11
  <2> QED  BY <1>44, <1>11, <2>1
<1>12. ASSUME NEW m \in Nodes, NEW x \in DOMAIN h[m]
       PROVE  \E i \in 1..(l - 1) : f[i] = m /\ q[i] = x
  <2>1. x \in DOMAIN g[m] /\ (m = n => x \in 1..(k - 1))
    <3>1. CASE m = n
      <4>1. x \in 1..(k - 1)  BY <1>1, <1>7, <1>12, <3>1
      <4> QED  BY <1>1, <3>1, <4>1
    <3>2. CASE m # n  BY <1>7, <1>12, <3>2
    <3> QED  BY <3>1, <3>2
  <2>2. PICK i \in 1..l : e[i] = m /\ p[i] = x  BY <1>45, <2>1
  <2>3. i # l
    <3>1. ASSUME i = l  PROVE FALSE
      <4>1. m = n /\ x = k  BY <1>3, <1>5, <2>2, <3>1
      <4> QED  BY <1>1, <2>1, <4>1
    <3> QED  BY <3>1
  <2>4. i \in 1..(l - 1)  BY <1>3, <2>2, <2>3
  <2> QED  BY <1>8, <1>9, <2>2, <2>4
<1>13. Guarding(t, f, h, q)
  <2>1. DOMAIN f = 1..(l - 1)  BY <1>9
  <2>2. InOrder(f, q, 1..(l - 1))  BY <1>11 DEF InOrder
  <2>3. Covered(f, h, q, 1..(l - 1))  BY <1>12 DEF Covered
  <2> QED  BY <1>8, <1>10, <2>1, <2>2, <2>3 DEF Guarding
<1> QED  BY <1>2, <1>6, <1>13 DEF f, h

\* A thread that changes nothing of its own keeps what it has.
TracingOK == TracingTyped /\ Rooted /\ Nested /\ CurrentSpan

LEMMA HubFacts ==
  ASSUME TracingTyped, NEW t \in Threads
  PROVE  /\ thread_hub[t] \in TracingHubs /\ span_guards[t] \in [Nodes -> Seq(TracingHubs)]
         /\ Home(t) \in TracingHubs /\ Home(t).span = None
         /\ \A hub \in TracingHubs : /\ hub.span \in Nodes \cup {None}
                                     /\ \A n \in Nodes : /\ Forked(n, hub) \in TracingHubs
                                                         /\ Forked(n, hub).span = n
<1>1. thread_hub[t] \in TracingHubs /\ span_guards[t] \in [Nodes -> Seq(TracingHubs)]
  BY DEF TracingTyped
<1>2. Home(t) \in TracingHubs /\ Home(t).span = None  BY DEF Home, TracingHubs
<1> QED  BY <1>1, <1>2 DEF TracingHubs, Forked

LEMMA OnNewSpanStep ==
  ASSUME Perf, TracingOK, NEW t \in Threads, NEW n \in Nodes, NEW h \in Headers \cup {None},
         OnNewSpan(t, n, h)
  PROVE  Perf' /\ Grows /\ TracingOK'
<1>1. PerfTyped /\ Branches  BY PerfFacts
<1>2. TracingTyped /\ Rooted  BY DEF TracingOK
<1>3. /\ node[n] = Free /\ UNCHANGED <<options, sent, lost, finishing>>
      /\ UNCHANGED <<thread_hub, span_guards, entered, unordered>>
      /\ data' = [data EXCEPT ![n] = thread_hub[t]]
  BY DEF OnNewSpan
<1>4. Perf' /\ Grows /\ node'[n] # Free
  <2>1. CASE StartTransaction(n, ContinueFromHeaders(n, h), TRUE)
    <3>1. GoodContext(ContinueFromHeaders(n, h))  BY <1>1, Contexts
    <3>2. Perf' /\ Grows /\ node'[n].kind = "trx"
      BY <1>3, <2>1, <3>1, StartTransactionStep
    <3> QED  BY <3>2 DEF Free
  <2>2. CASE thread_hub[t].span # None /\ StartChild(n, thread_hub[t].span)
    <3>1. PICK p : p = thread_hub[t].span  OBVIOUS
    <3>2. p \in Nodes /\ node[p] # Free  BY <1>2, <2>2, <3>1, HubFacts DEF Rooted
    <3>3. Perf' /\ Grows /\ node'[n].kind = "span"
      BY <1>3, <2>2, <3>1, <3>2, StartChildStep
    <3> QED  BY <3>3 DEF Free
  <2> QED  BY <2>1, <2>2 DEF OnNewSpan
<1>5. TracingTyped'
  <2>1. data' \in [Nodes -> TracingHubs \cup {None}]
    <3>1. thread_hub[t] \in TracingHubs  BY <1>2, HubFacts
    <3> QED  BY <1>2, <1>3, <3>1 DEF TracingTyped
  <2> QED  BY <1>2, <1>3, <2>1 DEF TracingTyped
<1>6. Rooted'
  <2>1. \A m \in Nodes : data'[m] # None => node'[m] # Free
    BY <1>2, <1>3, <1>4 DEF Rooted, TracingTyped, Grows
  <2>2. ASSUME NEW u \in Threads
        PROVE  /\ thread_hub[u].span # None => node'[thread_hub[u].span] # Free
               /\ \A m \in Nodes : \A k \in DOMAIN span_guards[u][m] :
                    LET s == span_guards[u][m][k].span IN s # None => node'[s] # Free
    <3>1. thread_hub[u].span \in Nodes \cup {None}  BY <1>2, HubFacts
    <3>2. \A m \in Nodes : \A k \in DOMAIN span_guards[u][m] :
            span_guards[u][m][k].span \in Nodes \cup {None}
      BY <1>2, HubFacts
    <3> QED  BY <1>2, <1>4, <3>1, <3>2 DEF Rooted, Grows
  <2> QED  BY <1>3, <2>1, <2>2 DEF Rooted
<1>7. Nested' /\ CurrentSpan'
  <2>1. /\ thread_hub' = thread_hub /\ span_guards' = span_guards
        /\ entered' = entered /\ unordered' = unordered
    BY <1>3
  <2>2. CurrentSpan'  BY <2>1 DEF TracingOK, CurrentSpan
  <2>3. Nested'
    <3>1. Nested  BY DEF TracingOK
    <3> QED  BY <2>1, <3>1, NestedGuards, NestedGuardsNext
  <2> QED  BY <2>2, <2>3
<1> QED  BY <1>4, <1>5, <1>6, <1>7 DEF TracingOK

LEMMA OnEnterStep ==
  ASSUME Perf, TracingOK, NEW t \in Threads, NEW n \in Nodes, OnEnter(t, n)
  PROVE  Perf' /\ Grows /\ TracingOK'
<1>1. TracingTyped /\ Rooted /\ Nested /\ CurrentSpan  BY DEF TracingOK
<1> DEFINE hub == thread_hub[t]
           new == Forked(n, data[n])
<1>2. /\ data[n] # None /\ UNCHANGED <<perfVars, data, unordered>>
      /\ thread_hub' = [thread_hub EXCEPT ![t] = new]
      /\ span_guards' = [span_guards EXCEPT ![t][n] = Append(@, hub)]
      /\ entered' = [entered EXCEPT ![t] = Append(@, n)]
  BY DEF OnEnter, perfVars
<1>3. Perf' /\ Grows  BY <1>2, PerfIdle
<1>4. /\ new \in TracingHubs /\ new.span = n /\ node[n] # Free /\ hub \in TracingHubs
      /\ hub.span # None => node[hub.span] # Free
  <2>1. data[n] \in TracingHubs /\ node[n] # Free  BY <1>1, <1>2 DEF TracingTyped, Rooted
  <2> QED  BY <1>1, <2>1, HubFacts DEF Rooted
<1> DEFINE gs == [span_guards[t] EXCEPT ![n] = Append(span_guards[t][n], hub)]
<1> HIDE DEF new, hub
<1>5. /\ thread_hub'[t] = new /\ \A u \in Threads : u # t => thread_hub'[u] = thread_hub[u]
      /\ span_guards'[t] = gs /\ \A u \in Threads : u # t => span_guards'[u] = span_guards[u]
      /\ entered'[t] = Append(entered[t], n) /\ \A u \in Threads : u # t => entered'[u] = entered[u]
      /\ node' = node /\ data' = data /\ unordered' = unordered
  BY <1>1, <1>2 DEF TracingTyped, perfVars
<1>51. PICK k \in Nat :
         /\ DOMAIN span_guards[t][n] = 1..k /\ DOMAIN gs[n] = 1..(k + 1) /\ gs[n][k + 1] = hub
         /\ \A i \in 1..k : gs[n][i] = span_guards[t][n][i]
         /\ gs \in [Nodes -> Seq(TracingHubs)]
  <2>0. span_guards[t][n] \in Seq(TracingHubs)  BY <1>1, HubFacts
  <2>1. PICK s \in Seq(TracingHubs), k \in Nat : s = span_guards[t][n] /\ k = Len(s)
    BY <2>0
  <2>2. /\ Append(s, hub) \in Seq(TracingHubs) /\ DOMAIN s = 1..k /\ DOMAIN Append(s, hub) = 1..(k + 1)
        /\ Append(s, hub)[k + 1] = hub /\ \A i \in 1..k : Append(s, hub)[i] = s[i]
    BY <1>4, <2>1
  <2>3. gs[n] = Append(s, hub) /\ gs \in [Nodes -> Seq(TracingHubs)]
    BY <1>1, <2>1, <2>2 DEF TracingTyped
  <2> QED  BY <2>1, <2>2, <2>3
<1>52. \A m \in Nodes : m # n => gs[m] = span_guards[t][m]  BY <1>1 DEF TracingTyped
<1> HIDE DEF gs
<1>6. TracingTyped'
  <2>1. thread_hub' \in [Threads -> TracingHubs]  BY <1>1, <1>2, <1>4 DEF TracingTyped
  <2>2. span_guards' \in [Threads -> [Nodes -> Seq(TracingHubs)]]
    <3>1. span_guards' = [span_guards EXCEPT ![t] = gs]  BY <1>1, <1>2, <1>5 DEF TracingTyped
    <3> QED  BY <1>1, <1>51, <3>1 DEF TracingTyped
  <2>3. entered' = [u \in Threads |-> entered'[u]]  BY <1>1, <1>2 DEF TracingTyped
  <2> QED  BY <1>1, <1>5, <2>1, <2>2, <2>3 DEF TracingTyped
<1>7. Rooted'
  <2>1. \A m \in Nodes : data'[m] # None => node'[m] # Free  BY <1>1, <1>5 DEF Rooted
  <2>2. ASSUME NEW u \in Threads
        PROVE  /\ thread_hub'[u].span # None => node'[thread_hub'[u].span] # Free
               /\ \A m \in Nodes : \A i \in DOMAIN span_guards'[u][m] :
                    LET s == span_guards'[u][m][i].span IN s # None => node'[s] # Free
    <3>1. CASE u # t  BY <1>1, <1>5, <3>1 DEF Rooted
    <3>2. CASE u = t
      <4>1. ASSUME NEW m \in Nodes, NEW i \in DOMAIN gs[m], gs[m][i].span # None
            PROVE  node[gs[m][i].span] # Free
        <5>1. CASE m = n /\ i = k + 1  BY <1>4, <1>51, <4>1, <5>1
        <5>2. CASE ~(m = n /\ i = k + 1)
          <6>1. i \in DOMAIN span_guards[t][m] /\ gs[m][i] = span_guards[t][m][i]
            <7>1. CASE m = n
              <8>1. i \in 1..k  BY <1>51, <4>1, <5>2, <7>1
              <8> QED  BY <1>51, <7>1, <8>1
            <7>2. CASE m # n  BY <1>52, <4>1, <7>2
            <7> QED  BY <7>1, <7>2
          <6> QED  BY <1>1, <4>1, <6>1 DEF Rooted
        <5> QED  BY <5>1, <5>2
      <4> QED  BY <1>4, <1>5, <3>2, <4>1
    <3> QED  BY <3>1, <3>2
  <2> QED  BY <2>1, <2>2 DEF Rooted
<1>8. Nested'
  <2>1. ASSUME NEW u \in Threads \ unordered'
        PROVE  NestsIn(u, entered'[u], span_guards'[u])
    <3>0. NestsIn(u, entered[u], span_guards[u])  BY <1>1, <1>5, <2>1, NestedGuards
    <3>1. CASE u # t  BY <1>5, <3>0, <3>1
    <3>2. CASE u = t
      <4>0. PICK p : entered[t] \in Seq(Nodes) /\ Guarding(t, entered[t], span_guards[t], p)
        BY <3>0, <3>2 DEF NestsIn
      <4>1. PICK e \in Seq(Nodes) : e = entered[t] /\ Guarding(t, e, span_guards[t], p)
        BY <4>0
      <4>2. IF e = <<>> THEN hub = Home(t) ELSE hub.span = Last(e)
        BY <1>1, <1>5, <2>1, <3>2, <4>1 DEF CurrentSpan, hub
      <4>3. span_guards[t] \in [Nodes -> Seq(TracingHubs)]  BY <1>1, HubFacts
      <4>4. \E q : Guarding(t, Append(e, n), gs, q)
        BY <1>4, <4>1, <4>2, <4>3, GuardPushed DEF gs
      <4>5. Append(e, n) \in Seq(Nodes)  BY <4>1
      <4> QED  BY <1>5, <3>2, <4>1, <4>4, <4>5 DEF NestsIn
    <3> QED  BY <3>1, <3>2
  <2> QED  BY <2>1, NestedGuardsNext
<1>9. CurrentSpan'
  <2>1. ASSUME NEW u \in Threads \ unordered'
        PROVE  IF entered'[u] = <<>> THEN thread_hub'[u] = Home(u)
                                     ELSE thread_hub'[u].span = Last(entered'[u])
    <3>1. CASE u # t  BY <1>1, <1>5, <2>1, <3>1 DEF CurrentSpan
    <3>2. CASE u = t
      <4>1. PICK e \in Seq(Nodes) : e = entered[t]
        BY <1>1, <1>5, <2>1, <3>2, NestedGuards DEF NestsIn
      <4>2. Append(e, n) # <<>> /\ Last(Append(e, n)) = n  BY <4>1 DEF Last
      <4> QED  BY <1>4, <1>5, <3>2, <4>1, <4>2
    <3> QED  BY <3>1, <3>2
  <2> QED  BY <2>1 DEF CurrentSpan
<1> QED  BY <1>3, <1>6, <1>7, <1>8, <1>9 DEF TracingOK

LEMMA OnExitStep ==
  ASSUME Perf, TracingOK, NEW t \in Threads, NEW n \in Nodes, OnExit(t, n)
  PROVE  Perf' /\ Grows /\ TracingOK'
<1>1. TracingTyped /\ Rooted /\ Nested /\ CurrentSpan  BY DEF TracingOK
<1> DEFINE hub == Last(span_guards[t][n])
           gs == [span_guards[t] EXCEPT ![n] = Front(span_guards[t][n])]
           rest == RemoveAt(entered[t], SelectLastInSeq(entered[t], LAMBDA m : m = n))
<1>2. /\ span_guards[t][n] # <<>> /\ UNCHANGED <<perfVars, data>>
      /\ unordered' = IF Last(entered[t]) = n THEN unordered ELSE unordered \cup {t}
      /\ thread_hub' = [thread_hub EXCEPT ![t] = hub]
      /\ span_guards' = [span_guards EXCEPT ![t][n] = Front(@)]
      /\ entered' = [entered EXCEPT ![t] = rest]
  BY DEF OnExit, PoppedGuard, perfVars
<1>3. Perf' /\ Grows  BY <1>2, PerfIdle
<1>4. PICK k \in Nat \ {0} :
         /\ DOMAIN span_guards[t][n] = 1..k /\ DOMAIN gs[n] = 1..(k - 1) /\ hub = span_guards[t][n][k]
         /\ \A i \in 1..(k - 1) : gs[n][i] = span_guards[t][n][i]
         /\ gs \in [Nodes -> Seq(TracingHubs)] /\ hub \in TracingHubs
  <2>0. span_guards[t][n] \in Seq(TracingHubs)  BY <1>1, HubFacts
  <2>1. PICK s \in Seq(TracingHubs) : s = span_guards[t][n] /\ s # <<>>  BY <1>2, <2>0
  <2>2. gs[n] = Front(s)  BY <1>1, <2>1 DEF TracingTyped
  <2>3. PICK k \in Nat \ {0} :
          /\ Len(s) = k /\ DOMAIN s = 1..k /\ Last(s) = s[k] /\ Last(s) \in TracingHubs
          /\ Front(s) \in Seq(TracingHubs) /\ Len(Front(s)) = k - 1 /\ DOMAIN Front(s) = 1..(k - 1)
          /\ \A i \in 1..(k - 1) : Front(s)[i] = s[i]
    <3>1. s # <<>>  BY <2>1
    <3> QED  BY <3>1, LastAndFront, Zenon
  <2>4. gs \in [Nodes -> Seq(TracingHubs)]  BY <1>1, <2>1, <2>3 DEF TracingTyped
  <2> QED  BY <2>1, <2>2, <2>3, <2>4
<1>5. /\ thread_hub'[t] = hub /\ \A u \in Threads : u # t => thread_hub'[u] = thread_hub[u]
      /\ span_guards'[t] = gs /\ \A u \in Threads : u # t => span_guards'[u] = span_guards[u]
      /\ entered'[t] = rest /\ \A u \in Threads : u # t => entered'[u] = entered[u]
      /\ node' = node /\ data' = data /\ unordered \subseteq unordered' /\ unordered' \subseteq Threads
      /\ t \notin unordered' => Last(entered[t]) = n
  BY <1>1, <1>2 DEF TracingTyped, perfVars
<1>52. \A m \in Nodes : m # n => gs[m] = span_guards[t][m]  BY <1>1 DEF TracingTyped
<1>53. ASSUME NEW m \in Nodes, NEW i \in DOMAIN gs[m]
       PROVE  i \in DOMAIN span_guards[t][m] /\ gs[m][i] = span_guards[t][m][i]
  <2> HIDE DEF gs, hub
  <2>1. CASE m = n
    <3>1. i \in 1..(k - 1)  BY <1>4, <1>53, <2>1
    <3> QED  BY <1>4, <2>1, <3>1
  <2>2. CASE m # n  BY <1>52, <1>53, <2>2
  <2> QED  BY <2>1, <2>2
<1>54. hub.span # None => node[hub.span] # Free
  <2>1. k \in DOMAIN span_guards[t][n]  BY <1>4
  <2> HIDE DEF gs, hub
  <2> QED  BY <1>1, <1>4, <2>1 DEF Rooted
<1>6. TracingTyped'
  <2>1. thread_hub' \in [Threads -> TracingHubs]  BY <1>1, <1>2, <1>4 DEF TracingTyped
  <2>2. span_guards' \in [Threads -> [Nodes -> Seq(TracingHubs)]]
    <3>1. span_guards' = [span_guards EXCEPT ![t] = gs]  BY <1>1, <1>2 DEF TracingTyped
    <3> HIDE DEF gs, hub
    <3> QED  BY <1>1, <1>4, <3>1 DEF TracingTyped
  <2>3. entered' = [u \in Threads |-> entered'[u]]
    <3> HIDE DEF rest
    <3> QED  BY <1>1, <1>2 DEF TracingTyped
  <2> QED  BY <1>1, <1>5, <2>1, <2>2, <2>3 DEF TracingTyped
<1> HIDE DEF gs, hub
<1>7. Rooted'
  <2>1. \A m \in Nodes : data'[m] # None => node'[m] # Free  BY <1>1, <1>5 DEF Rooted
  <2>2. ASSUME NEW u \in Threads
        PROVE  /\ thread_hub'[u].span # None => node'[thread_hub'[u].span] # Free
               /\ \A m \in Nodes : \A i \in DOMAIN span_guards'[u][m] :
                    LET s == span_guards'[u][m][i].span IN s # None => node'[s] # Free
    <3>1. CASE u # t  BY <1>1, <1>5, <3>1 DEF Rooted
    <3>2. CASE u = t
      <4>1. ASSUME NEW m \in Nodes, NEW i \in DOMAIN gs[m], gs[m][i].span # None
            PROVE  node[gs[m][i].span] # Free
        <5>1. i \in DOMAIN span_guards[t][m] /\ gs[m][i] = span_guards[t][m][i]  BY <1>53, <4>1
        <5> QED  BY <1>1, <4>1, <5>1 DEF Rooted
      <4> QED  BY <1>5, <1>54, <3>2, <4>1
    <3> QED  BY <3>1, <3>2
  <2> QED  BY <2>1, <2>2 DEF Rooted
<1>8. ASSUME t \notin unordered'
      PROVE  /\ NestsIn(t, rest, gs)
             /\ IF rest = <<>> THEN hub = Home(t) ELSE hub.span = Last(rest)
  <2>1. NestsIn(t, entered[t], span_guards[t])  BY <1>1, <1>5, <1>8, NestedGuards
  <2>0. PICK p : entered[t] \in Seq(Nodes) /\ Guarding(t, entered[t], span_guards[t], p)
    BY <2>1 DEF NestsIn
  <2>2. PICK e \in Seq(Nodes) : e = entered[t] /\ Guarding(t, e, span_guards[t], p)
    BY <2>0
  <2>3. Last(e) = n /\ span_guards[t] \in [Nodes -> Seq(TracingHubs)]
    BY <1>1, <1>5, <1>8, <2>2, HubFacts
  <2>4. /\ e # <<>> /\ \E q : Guarding(t, Front(e), gs, q)
        /\ IF Front(e) = <<>> THEN hub = Home(t) ELSE hub.span = Last(Front(e))
    <3> HIDE DEF rest
    <3>1. PICK g \in [Nodes -> Seq(TracingHubs)] : g = span_guards[t]  BY <2>3
    <3>2. Guarding(t, e, g, p) /\ g[n] # <<>> /\ (e # <<>> => Last(e) = n)
      BY <1>2, <2>2, <2>3, <3>1
    <3>3. Popped(t, e, g, n)  BY <3>2, GuardPopped
    <3>4. /\ e # <<>> /\ \E q : Guarding(t, Front(e), [g EXCEPT ![n] = Front(g[n])], q)
          /\ IF Front(e) = <<>> THEN Last(g[n]) = Home(t) ELSE Last(g[n]).span = Last(Front(e))
      BY <3>3 DEF Popped
    <3> QED  BY <3>1, <3>4 DEF gs, hub
  <2>5. rest = Front(e)
    <3>1. Last(e) = n /\ e # <<>> /\ entered[t] = e  BY <2>2, <2>3, <2>4
    <3>2. RemoveAt(e, SelectLastInSeq(e, LAMBDA m : m = n)) = Front(e)
      BY <3>1, RemoveLast DEF SelectLastInSeq
    <3> QED  BY <3>1, <3>2, Zenon
  <2>6. Front(e) \in Seq(Nodes)
    <3> HIDE DEF rest
    <3> QED  BY <2>4, LastAndFront
  <2> HIDE DEF rest
  <2> QED  BY <2>4, <2>5, <2>6 DEF NestsIn
<1> HIDE DEF rest
<1>9. Nested'
  <2>1. ASSUME NEW u \in Threads \ unordered'
        PROVE  NestsIn(u, entered'[u], span_guards'[u])
    <3>1. CASE u # t  BY <1>1, <1>5, <2>1, <3>1, NestedGuards
    <3>2. CASE u = t  BY <1>5, <1>8, <2>1, <3>2
    <3> QED  BY <3>1, <3>2
  <2> QED  BY <2>1, NestedGuardsNext
<1>10. CurrentSpan'
  <2>1. ASSUME NEW u \in Threads \ unordered'
        PROVE  IF entered'[u] = <<>> THEN thread_hub'[u] = Home(u)
                                     ELSE thread_hub'[u].span = Last(entered'[u])
    <3>1. CASE u # t  BY <1>1, <1>5, <2>1, <3>1 DEF CurrentSpan
    <3>2. CASE u = t  BY <1>5, <1>8, <2>1, <3>2
    <3> QED  BY <3>1, <3>2
  <2> QED  BY <2>1 DEF CurrentSpan
<1> QED  BY <1>3, <1>6, <1>7, <1>9, <1>10 DEF TracingOK

\* A step that leaves the layer's own state alone.
LEMMA RootedGrows ==
  ASSUME TracingTyped, Rooted, Grows, UNCHANGED <<thread_hub, span_guards>>,
         \A m \in Nodes : data'[m] # None => data[m] # None
  PROVE  Rooted'
<1>1. ASSUME NEW u \in Threads
      PROVE  /\ thread_hub[u].span # None => node'[thread_hub[u].span] # Free
             /\ \A m \in Nodes : \A k \in DOMAIN span_guards[u][m] :
                  LET s == span_guards[u][m][k].span IN s # None => node'[s] # Free
  <2>1. thread_hub[u].span \in Nodes \cup {None}  BY HubFacts
  <2>2. \A m \in Nodes : \A k \in DOMAIN span_guards[u][m] :
          span_guards[u][m][k].span \in Nodes \cup {None}
    BY HubFacts
  <2> QED  BY <2>1, <2>2 DEF Rooted, Grows
<1> QED  BY <1>1 DEF Rooted, Grows

LEMMA LayerIdle ==
  ASSUME TracingOK, UNCHANGED <<thread_hub, span_guards, entered, unordered>>
  PROVE  Nested' /\ CurrentSpan'
<1>1. /\ thread_hub' = thread_hub /\ span_guards' = span_guards
      /\ entered' = entered /\ unordered' = unordered
  OBVIOUS
<1>2. CurrentSpan'  BY <1>1 DEF TracingOK, CurrentSpan
<1>3. Nested  BY DEF TracingOK
<1> QED  BY <1>1, <1>2, <1>3, NestedGuards, NestedGuardsNext

LEMMA OnRecordStep ==
  ASSUME Perf, TracingOK, NEW n \in Nodes, OnRecord(n)
  PROVE  Perf' /\ Grows /\ TracingOK'
<1>1. TracingTyped /\ Rooted /\ PerfTyped  BY PerfFacts DEF TracingOK
<1>2. /\ data[n] # None /\ node' = [node EXCEPT ![n] = WithData(node[n])]
      /\ UNCHANGED <<options, sent, lost, finishing>> /\ UNCHANGED tracingVars
  BY DEF OnRecord
<1>3. node[n] # Free  BY <1>1, <1>2 DEF Rooted
<1>4. Same(node[n], WithData(node[n])) /\ WithData(node[n]) \in TrxRecord \cup SpanRecord
  <2>1. "Ok" \in Statuses  BY DEF Statuses
  <2> QED  BY <1>1, <1>3, <2>1, Setters
<1>5. Perf' /\ Grows  BY <1>2, <1>3, <1>4, TouchStep
<1>6. /\ UNCHANGED <<thread_hub, span_guards, entered, unordered>> /\ data' = data
  BY <1>2 DEF tracingVars
<1>7. TracingTyped'  BY <1>1, <1>6 DEF TracingTyped
<1> QED  BY <1>1, <1>5, <1>6, <1>7, RootedGrows, LayerIdle DEF TracingOK

LEMMA OnCloseStep ==
  ASSUME Perf, TracingOK, NEW n \in Nodes, OnClose(n)
  PROVE  Perf' /\ Grows /\ TracingOK'
<1>1. TracingTyped /\ Rooted /\ PerfTyped  BY PerfFacts DEF TracingOK
<1>2. /\ data[n] # None /\ Finish(n, node[n]) /\ data' = [data EXCEPT ![n] = None]
      /\ UNCHANGED <<options, finishing>> /\ UNCHANGED <<thread_hub, span_guards, entered, unordered>>
  BY DEF OnClose
<1>3. node[n] # Free  BY <1>1, <1>2 DEF Rooted
<1>4. Same(node[n], node[n]) /\ node[n] \in TrxRecord \cup SpanRecord
  BY <1>1, <1>3, KindFacts DEF Same, Alike
<1>5. Perf' /\ Grows  BY <1>2, <1>3, <1>4, FinishStep
<1>6. TracingTyped'  BY <1>1, <1>2 DEF TracingTyped
<1>7. \A m \in Nodes : data'[m] # None => data[m] # None  BY <1>1, <1>2 DEF TracingTyped
<1>8. Rooted'  BY <1>1, <1>2, <1>5, <1>7, RootedGrows
<1>9. Nested' /\ CurrentSpan'  BY <1>2, LayerIdle
<1> QED  BY <1>5, <1>6, <1>8, <1>9 DEF TracingOK

LEMMA TracingStep ==
  ASSUME Perf, TracingOK, TracingNext
  PROVE  Perf' /\ Grows /\ TracingOK'
BY OnNewSpanStep, OnEnterStep, OnExitStep, OnRecordStep, OnCloseStep DEF TracingNext

-----------------------------------------------------------------------------
(* All of them.  In a behaviour one of them drives the SDK, and the others *)
(* stay as they are set up.                                                *)

LEMMA InitPerf ==
  ASSUME PerfInit
  PROVE  Perf
<1>1. \A n \in Nodes : node[n] = Free /\ node[n].kind = "free" /\ lost[n] = <<>>
  BY DEF PerfInit, Free
<1>2. \A n \in Nodes : ~IsTrx(n) /\ ~IsSpan(n)  BY <1>1 DEF IsTrx, IsSpan
<1>3. PerfTyped  BY DEF PerfInit, PerfTyped
<1>4. Marked /\ Collected /\ Branches /\ ForeignTraces
  BY <1>2 DEF PerfInit, Marked, Collected, Branches, ForeignTraces
<1>5. SentMatches
  <2>1. DOMAIN sent = {}  BY DEF PerfInit
  <2> QED  BY <1>2, <2>1 DEF SentMatches
<1>6. LostMatches  BY <1>1, <1>2 DEF LostMatches
<1> QED  BY <1>3, <1>4, <1>5, <1>6 DEF Perf, Accounted

LEMMA InitTracing ==
  ASSUME TracingInit
  PROVE  TracingOK
<1>1. /\ \A t \in Threads : /\ thread_hub[t] = Home(t) /\ entered[t] = <<>>
                            /\ span_guards[t] = [n \in Nodes |-> <<>>]
      /\ \A n \in Nodes : data[n] = None
      /\ unordered = {}
  BY DEF TracingInit
<1>2. \A t \in Threads : Home(t) \in TracingHubs /\ Home(t).span = None  BY DEF Home, TracingHubs
<1>3. TracingTyped
  <2>1. [n \in Nodes |-> <<>>] \in [Nodes -> Seq(TracingHubs)]  OBVIOUS
  <2> QED  BY <1>2, <2>1 DEF TracingInit, TracingTyped
<1>4. CurrentSpan  BY <1>1 DEF CurrentSpan
<1>5. Rooted
  <2>1. \A t \in Threads : \A n \in Nodes : DOMAIN span_guards[t][n] = {}  BY <1>1
  <2> QED  BY <1>1, <1>2, <2>1 DEF Rooted
<1>6. Nested
  <2>1. ASSUME NEW t \in Threads  PROVE NestsIn(t, entered[t], span_guards[t])
    <3> DEFINE p == [i \in {} |-> i]
    <3>0. entered[t] = <<>>  BY <1>1
    <3>1. DOMAIN <<>> = {} /\ <<>> \in Seq(Nodes)  OBVIOUS
    <3>2. \A n \in Nodes : DOMAIN span_guards[t][n] = {}  BY <1>1
    <3>3. p \in [{} -> {}]  OBVIOUS
    <3> HIDE DEF p
    <3>4. Guarding(t, entered[t], span_guards[t], p)
      BY <3>0, <3>1, <3>2, <3>3 DEF Guarding, InOrder, Covered
    <3> QED  BY <3>0, <3>1, <3>4 DEF NestsIn
  <2> QED  BY <2>1, NestedGuards
<1> QED  BY <1>3, <1>4, <1>5, <1>6 DEF TracingOK

LEMMA InitOtel ==
  ASSUME OtelInit, \A n \in Nodes : node[n] = Free
  PROVE  OtelTyped /\ Mirrors
<1>1. span_map = {} /\ \A n \in Nodes : otel[n] = Free /\ otel[n].kind = "free"
  BY DEF OtelInit, Free
<1>2. OtelTyped  BY DEF OtelInit, OtelTyped
<1>3. \A n \in Nodes : ~IsTrx(n) /\ ~IsSpan(n)  BY DEF IsTrx, IsSpan, Free
<1> QED  BY <1>1, <1>2, <1>3 DEF Mirrors

LEMMA InitHttp ==
  ASSUME HttpInit
  PROVE  HttpOK /\ RequestsSettled
<1>1. /\ \A r \in Requests : req[r] = Unserved /\ req[r].phase = "none"
      /\ \A h \in Hubs : scope_span[h] = None
      /\ reported = {} /\ disturbed = {} /\ bound \in BOOLEAN
  BY DEF HttpInit, Unserved
<1>2. HttpTyped  BY DEF HttpInit, HttpTyped, Unserved
<1>3. Served  BY <1>1 DEF Served
<1>4. RequestsIsolated  BY <1>1 DEF RequestsIsolated, Running
<1>5. RequestsSettled  BY <1>1 DEF RequestsSettled
<1> QED  BY <1>2, <1>3, <1>4, <1>5 DEF HttpOK

\* The invariant, by who drives.
LEMMA ByDriver ==
  IInv <=> /\ Perf /\ driver \in Drivers
           /\ IF driver = "tracing" THEN TracingOK ELSE TracingInit
           /\ IF driver = "otel" THEN OtelTyped /\ Mirrors ELSE OtelInit
           /\ IF driver \in {"tower", "actix"} THEN HttpOK ELSE HttpInit
BY DEF IInv, Driven, Perf, TracingOK, HttpOK

LEMMA ByDriverNext ==
  IInv' <=> /\ Perf' /\ driver' \in Drivers
            /\ IF driver' = "tracing" THEN TracingOK' ELSE TracingInit'
            /\ IF driver' = "otel" THEN (OtelTyped /\ Mirrors)' ELSE OtelInit'
            /\ IF driver' \in {"tower", "actix"} THEN HttpOK' ELSE HttpInit'
BY DEF IInv, Driven, Perf, TracingOK, HttpOK

LEMMA Idle ==
  /\ UNCHANGED tracingVars => (TracingOK => TracingTyped') /\ (TracingInit => TracingInit')
  /\ UNCHANGED otelVars => (OtelInit => OtelInit')
  /\ UNCHANGED httpVars => (HttpInit => HttpInit')
BY DEF tracingVars, otelVars, httpVars, TracingInit, OtelInit, HttpInit, TracingOK, TracingTyped

LEMMA InductiveInit ==
  ASSUME Init
  PROVE  IInv
<1>1. PerfInit /\ TracingInit /\ OtelInit /\ HttpInit /\ driver \in Drivers  BY DEF Init
<1>2. \A n \in Nodes : node[n] = Free  BY <1>1 DEF PerfInit
<1> QED  BY <1>1, <1>2, InitPerf, InitTracing, InitOtel, InitHttp, ByDriver

\* Nothing happens at all.
LEMMA StutterStep ==
  ASSUME IInv, UNCHANGED vars
  PROVE  IInv' /\ Grows
<1>1. /\ UNCHANGED perfVars /\ UNCHANGED tracingVars /\ UNCHANGED otelVars /\ UNCHANGED httpVars
      /\ driver' = driver
  BY DEF vars
<1>2. Perf  BY ByDriver
<1>3. Perf' /\ Grows  BY <1>1, <1>2, PerfIdle
<1>4. TracingOK => TracingOK'
  <2>1. /\ thread_hub' = thread_hub /\ span_guards' = span_guards /\ data' = data
        /\ entered' = entered /\ unordered' = unordered
    BY <1>1 DEF tracingVars
  <2> SUFFICES ASSUME TracingOK  PROVE TracingOK'
    OBVIOUS
  <2>2. TracingTyped /\ Rooted  BY DEF TracingOK
  <2>3. TracingTyped'  BY <2>1, <2>2 DEF TracingTyped
  <2> QED  BY <1>3, <2>1, <2>2, <2>3, RootedGrows, LayerIdle DEF TracingOK
<1>5. OtelTyped /\ Mirrors => (OtelTyped /\ Mirrors)'
  <2>1. span_map' = span_map /\ otel' = otel /\ node' = node
    BY <1>1 DEF otelVars, perfVars
  <2> QED  BY <2>1 DEF OtelTyped, Mirrors, IsTrx, IsSpan
<1>6. HttpOK => HttpOK'
  <2>1. /\ bound' = bound /\ req' = req /\ scope_span' = scope_span /\ reported' = reported
        /\ disturbed' = disturbed /\ node' = node
    BY <1>1 DEF httpVars, perfVars
  <2>2. HttpTyped => HttpTyped'  BY <2>1 DEF HttpTyped
  <2>3. Served => Served'  BY <2>1 DEF Served, IsTrx
  <2>4. RequestsIsolated => RequestsIsolated'  BY <2>1 DEF RequestsIsolated, Running
  <2> QED  BY <2>2, <2>3, <2>4 DEF HttpOK
<1> QED  BY <1>1, <1>3, <1>4, <1>5, <1>6, Idle, ByDriver, ByDriverNext

LEMMA InductiveStep ==
  ASSUME IInv, [Next]_vars
  PROVE  IInv' /\ Grows
<1>0. /\ Perf /\ driver \in Drivers
      /\ IF driver = "tracing" THEN TracingOK ELSE TracingInit
      /\ IF driver = "otel" THEN OtelTyped /\ Mirrors ELSE OtelInit
      /\ IF driver \in {"tower", "actix"} THEN HttpOK ELSE HttpInit
  BY ByDriver
<1>1. CASE driver = "api" /\ AppNext /\ UNCHANGED <<tracingVars, otelVars, httpVars>> /\ UNCHANGED driver
  <2>1. Perf' /\ Grows  BY <1>0, <1>1, AppStep
  <2> QED  BY <1>0, <1>1, <2>1, Idle, ByDriverNext
<1>2. CASE driver = "tracing" /\ TracingNext /\ UNCHANGED <<otelVars, httpVars>> /\ UNCHANGED driver
  <2>1. Perf' /\ Grows /\ TracingOK'  BY <1>0, <1>2, TracingStep
  <2> QED  BY <1>0, <1>2, <2>1, Idle, ByDriverNext
<1>3. CASE driver = "otel" /\ OtelNext /\ UNCHANGED <<tracingVars, httpVars>> /\ UNCHANGED driver
  <2>1. Perf' /\ Grows /\ OtelTyped' /\ Mirrors'  BY <1>0, <1>3, OtelStep
  <2> QED  BY <1>0, <1>3, <2>1, Idle, ByDriverNext
<1>4. CASE /\ driver \in {"tower", "actix"} /\ (TowerNext \/ ActixNext \/ HandlerNext)
           /\ UNCHANGED <<tracingVars, otelVars>> /\ UNCHANGED driver
  <2>1. Perf' /\ Grows /\ HttpOK'  BY <1>0, <1>4, HttpStep
  <2> QED  BY <1>0, <1>4, <2>1, Idle, ByDriverNext
<1>5. CASE UNCHANGED vars  BY <1>5, StutterStep
<1> QED  BY <1>1, <1>2, <1>3, <1>4, <1>5 DEF Next

LEMMA Promises ==
  ASSUME IInv
  PROVE  /\ SettledOnce /\ TraceTree /\ CurrentSpan
         /\ SpanMapMatches /\ RequestsSettled /\ RequestsIsolated
<1>1. /\ Perf
      /\ IF driver = "tracing" THEN TracingOK ELSE TracingInit
      /\ IF driver = "otel" THEN OtelTyped /\ Mirrors ELSE OtelInit
      /\ IF driver \in {"tower", "actix"} THEN HttpOK ELSE HttpInit
  BY ByDriver
<1>2. SettledOnce /\ TraceTree  BY <1>1, PerfSettles
<1>3. CurrentSpan  BY <1>1, InitTracing DEF TracingOK
<1>4. SpanMapMatches
  <2>1. CASE OtelTyped /\ Mirrors  BY <1>1, <2>1, MirrorsMatch
  <2>2. CASE OtelInit
    <3>1. span_map = {} /\ \A n \in Nodes : otel[n] = Free /\ otel[n].kind = "free"
      BY <2>2 DEF OtelInit, Free
    <3> QED  BY <3>1 DEF SpanMapMatches
  <2> QED  BY <1>1, <2>1, <2>2
<1>5. RequestsIsolated /\ RequestsSettled
  <2>1. CASE HttpOK  BY <1>1, <2>1, ServedSettles DEF HttpOK
  <2>2. CASE HttpInit  BY <2>2, InitHttp DEF HttpOK
  <2> QED  BY <1>1, <2>1, <2>2
<1> QED  BY <1>2, <1>3, <1>4, <1>5

\* Whoever uses the SDK for performance monitoring, whatever the options and however
\* many transactions, threads and requests there are: the transactions, what was sent
\* and counted, and the state of the layer, the processor and the middleware agree.
THEOREM Inductive == Spec => []IInv
<1>1. Init => IInv  BY InductiveInit
<1>2. IInv /\ [Next]_vars => IInv'  BY InductiveStep
<1> QED  BY <1>1, <1>2, PTL DEF Spec

\* Each transaction and span is sent at most once or counted as lost once, and none
\* is forgotten (Transaction::finish_with_timestamp, Span::finish_with_timestamp).
THEOREM EachSettledOnce == Spec => []SettledOnce
<1>1. IInv => SettledOnce  BY Promises
<1> QED  BY <1>1, Inductive, PTL

\* Spans hang below their transaction in its trace, and a trace is joined only if it
\* may be (start_child, Transaction::new, should_continue_trace).
THEOREM TracesAreTrees == Spec => []TraceTree
<1>1. IInv => TraceTree  BY Promises
<1> QED  BY <1>1, Inductive, PTL

\* A thread that leaves its spans in reverse order has the span it is in as the active
\* one, and its own hub back in the end (sentry-tracing on_enter, on_exit).
THEOREM ActiveSpanIsCurrent == Spec => []CurrentSpan
<1>1. IInv => CurrentSpan  BY Promises
<1> QED  BY <1>1, Inductive, PTL

\* The map of the OpenTelemetry processor has the spans that are live, each below its
\* parent and in the right trace (processor.rs on_start, on_end).
THEOREM SpanMapTrue == Spec => []SpanMapMatches
<1>1. IInv => SpanMapMatches  BY Promises
<1> QED  BY <1>1, Inductive, PTL

\* The transaction of a request that is over was closed with a status and either sent
\* or counted (sentry-tower and sentry-actix, the ends of their futures).
THEOREM RequestsGetAnswers == Spec => []RequestsSettled
<1>1. IInv => RequestsSettled  BY Promises
<1> QED  BY <1>1, Inductive, PTL

\* The active span of a request is its own transaction, and errors are reported with
\* it, as long as no future was dropped on its hub (the hubs bound by the middleware).
THEOREM RequestsKeptApart == Spec => []RequestsIsolated
<1>1. IInv => RequestsIsolated  BY Promises
<1> QED  BY <1>1, Inductive, PTL

\* What was started keeps its kind, its parent, its trace and its sampling decision,
\* whatever is set on it later and however it ends (the setters and finish).
THEOREM IdentityIsKept == Spec => [][Grows]_vars
<1>1. IInv /\ [Next]_vars => [Grows]_vars  BY InductiveStep
<1> QED  BY <1>1, Inductive, PTL DEF Spec
=============================================================================
