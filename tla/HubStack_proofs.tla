-------------------------- MODULE HubStack_proofs --------------------------
(***************************************************************************)
(* Proofs about hubs and scopes, for any number of threads, tasks, clients *)
(* and breadcrumbs and any nesting.                                        *)
(***************************************************************************)
EXTENDS HubStack, SequenceTheorems, TLAPS

-----------------------------------------------------------------------------
(* Stacks: sequences whose last element is the top.                        *)

LEMMA LastFacts ==
  ASSUME NEW S, NEW s \in Seq(S), s # <<>>
  PROVE  /\ Len(s) \in Nat \ {0} /\ Len(s) \in DOMAIN s /\ DOMAIN s = 1 .. Len(s)
         /\ Last(s) = s[Len(s)] /\ Last(s) \in S
BY DEF Last

LEMMA PushFacts ==
  ASSUME NEW S, NEW s \in Seq(S), NEW x \in S
  PROVE  /\ Append(s, x) \in Seq(S) /\ Append(s, x) # <<>>
         /\ Len(s) \in Nat /\ Len(Append(s, x)) = Len(s) + 1
         /\ \A n \in 1 .. Len(s) : Append(s, x)[n] = s[n]
         /\ Append(s, x)[Len(s) + 1] = x
         /\ Last(Append(s, x)) = x
<1>1. /\ Append(s, x) \in Seq(S)
      /\ Len(s) \in Nat /\ Len(Append(s, x)) = Len(s) + 1
      /\ \A n \in 1 .. Len(s) : Append(s, x)[n] = s[n]
      /\ Append(s, x)[Len(s) + 1] = x
  OBVIOUS
<1>2. Append(s, x) # <<>>  BY SMTT(90)
<1>3. ASSUME NEW z  PROVE Last(z) = z[Len(z)]  BY DEF Last
<1>4. Last(Append(s, x)) = Append(s, x)[Len(Append(s, x))]  BY <1>3, Zenon
<1> QED  BY <1>1, <1>2, <1>4, Zenon

LEMMA PopFacts ==
  ASSUME NEW S, NEW s \in Seq(S), s # <<>>
  PROVE  /\ Front(s) \in Seq(S) /\ Len(Front(s)) = Len(s) - 1 /\ Len(s) \in Nat \ {0}
         /\ \A n \in 1 .. Len(s) - 1 : Front(s)[n] = s[n]
         /\ Front(s) = <<>> <=> Len(s) = 1
<1>1. Len(s) \in Nat \ {0}  OBVIOUS
<1>2. /\ Front(s) \in Seq(S) /\ Len(Front(s)) = Len(s) - 1
      /\ \A n \in 1 .. Len(s) - 1 : Front(s)[n] = s[n]
  <2> DEFINE k == Len(s) - 1
  <2>1. k \in Int /\ 1 \in Int /\ \A i \in 1 .. k : s[i] \in S  BY <1>1
  <2>2. Front(s) = SubSeq(s, 1, k)  BY DEF Front
  <2>3. k \in Nat /\ k = Len(s) - 1  BY <1>1
  <2> HIDE DEF k
  <2>4. /\ SubSeq(s, 1, k) \in Seq(S)
        /\ Len(SubSeq(s, 1, k)) = IF 1 <= k THEN k - 1 + 1 ELSE 0
        /\ \A i \in 1 .. k - 1 + 1 : SubSeq(s, 1, k)[i] = s[1 + i - 1]
    BY <2>1, SubSeqProperties
  <2>5. Len(SubSeq(s, 1, k)) = k /\ \A i \in 1 .. k : SubSeq(s, 1, k)[i] = s[i]
    BY <2>3, <2>4
  <2> QED  BY <2>2, <2>3, <2>4, <2>5
<1>3. Front(s) = <<>> <=> Len(Front(s)) = 0  BY <1>2
<1> QED  BY <1>1, <1>2, <1>3

\* The sequence r is s with x as its last element.
Replaced(r, s, x) == /\ Len(r) = Len(s) /\ r[Len(s)] = x
                     /\ \A n \in 1 .. Len(s) - 1 : r[n] = s[n]

LEMMA OnTopFacts ==
  ASSUME NEW S, NEW s \in Seq(S), s # <<>>, NEW x \in S
  PROVE  OnTop(s, x) \in Seq(S) /\ OnTop(s, x) # <<>> /\ Replaced(OnTop(s, x), s, x)
<1> DEFINE r == OnTop(s, x)
<1>1. Len(s) \in Nat \ {0} /\ s \in [1 .. Len(s) -> S]  OBVIOUS
<1>2. r \in [1 .. Len(s) -> S] /\ r[Len(s)] = x /\ \A n \in 1 .. Len(s) - 1 : r[n] = s[n]
  <2> DEFINE k == Len(s)
  <2>1. k \in Nat \ {0} /\ s \in [1 .. k -> S] /\ r = [s EXCEPT ![k] = x]  BY <1>1 DEF OnTop
  <2> HIDE DEF k, r
  <2>2. k \in 1 .. k /\ \A n \in 1 .. k - 1 : n \in 1 .. k /\ n # k  BY <2>1
  <2>3. r \in [1 .. k -> S] /\ r[k] = x  BY <2>1, <2>2
  <2>4. \A n \in 1 .. k - 1 : r[n] = s[n]  BY <2>1, <2>2
  <2> QED  BY <2>3, <2>4 DEF k
<1> HIDE DEF r
<1>3. r \in Seq(S) /\ Len(r) = Len(s) /\ r # <<>>  BY <1>1, <1>2
<1> QED  BY <1>1, <1>2, <1>3 DEF r, Replaced

\* The newest breadcrumbs.
LEMMA NewestFacts ==
  ASSUME NEW S, NEW s \in Seq(S), NEW m \in Nat
  PROVE  LET r == Newest(s, m)
             d == IF Len(s) > m THEN Len(s) - m ELSE 0 IN
         /\ r \in Seq(S) /\ Len(r) = Len(s) - d /\ Len(r) <= m /\ Len(s) \in Nat
         /\ \A n \in 1 .. Len(r) : r[n] = s[n + d]
<1> DEFINE r == Newest(s, m)
           d == IF Len(s) > m THEN Len(s) - m ELSE 0
<1>1. Len(s) \in Nat /\ d \in 0 .. Len(s) /\ Len(s) - d <= m  OBVIOUS
<1>2. r = SubSeq(s, d + 1, Len(s))  BY <1>1 DEF Newest
<1> HIDE DEF d, r
<1>3. r \in Seq(S) /\ Len(r) = Len(s) - d /\ \A n \in 1 .. Len(r) : r[n] = s[n + d]
  <2>1. CASE d < Len(s)
    <3>1. d + 1 \in 1 .. Len(s)  BY <1>1, <2>1
    <3> QED  BY <1>1, <1>2, <2>1, <3>1, SubSeqProperties
  <2>2. CASE d = Len(s)
    <3>1. r = <<>>  BY <1>1, <1>2, <2>2
    <3> QED  BY <1>1, <2>2, <3>1
  <2> QED  BY <1>1, <2>1, <2>2
<1>4. Len(r) <= m  BY <1>1, <1>3
<1> QED  BY <1>1, <1>3, <1>4 DEF d, r

LEMMA NewestTwice ==
  ASSUME NEW S, NEW s \in Seq(S), NEW m \in Nat
  PROVE  Newest(Newest(s, m), m) = Newest(s, m)
<1> DEFINE r == Newest(s, m)
           q == Newest(r, m)
<1>1. r \in Seq(S) /\ Len(r) <= m /\ Len(r) \in Nat  BY NewestFacts
<1> HIDE DEF r
<1>2. q \in Seq(S) /\ Len(q) = Len(r) /\ \A n \in 1 .. Len(q) : q[n] = r[n]
  <2>1. LET d == IF Len(r) > m THEN Len(r) - m ELSE 0 IN
        /\ q \in Seq(S) /\ Len(q) = Len(r) - d
        /\ \A n \in 1 .. Len(q) : q[n] = r[n + d]
    BY <1>1, NewestFacts
  <2> HIDE DEF q
  <2>2. ~(Len(r) > m)  BY <1>1
  <2>3. q \in Seq(S) /\ Len(q) = Len(r) - 0 /\ \A n \in 1 .. Len(q) : q[n] = r[n + 0]
    BY <2>1, <2>2
  <2> QED  BY <1>1, <2>3
<1> HIDE DEF q
<1>3. q = r  BY <1>1, <1>2, SeqEqual
<1> QED  BY <1>3 DEF q, r

\* A breadcrumb more, of all or of the newest.
LEMMA NewestPush ==
  ASSUME NEW S, NEW s \in Seq(S), NEW x \in S, NEW m \in Nat
  PROVE  Newest(Append(Newest(s, m), x), m) = Newest(Append(s, x), m)
<1> DEFINE r == Newest(s, m)
           p == Append(r, x)
           w == Append(s, x)
           q == Newest(p, m)
           z == Newest(w, m)
           d == IF Len(s) > m THEN Len(s) - m ELSE 0
           e == IF Len(p) > m THEN Len(p) - m ELSE 0
           f == IF Len(w) > m THEN Len(w) - m ELSE 0
<1>1. /\ r \in Seq(S) /\ Len(r) = Len(s) - d /\ Len(r) <= m /\ Len(s) \in Nat
      /\ \A n \in 1 .. Len(r) : r[n] = s[n + d]
  BY NewestFacts
<1>2. d \in Nat /\ d <= Len(s)  BY <1>1
<1> HIDE DEF r
<1>3. /\ p \in Seq(S) /\ Len(p) = Len(r) + 1 /\ p[Len(r) + 1] = x
      /\ \A n \in 1 .. Len(r) : p[n] = r[n]
  BY <1>1, PushFacts
<1>4. /\ w \in Seq(S) /\ Len(w) = Len(s) + 1 /\ w[Len(s) + 1] = x
      /\ \A n \in 1 .. Len(s) : w[n] = s[n]
  BY PushFacts
<1> HIDE DEF p, w
<1>5. q \in Seq(S) /\ Len(q) = Len(p) - e /\ \A n \in 1 .. Len(q) : q[n] = p[n + e]
  BY <1>3, NewestFacts
<1>6. z \in Seq(S) /\ Len(z) = Len(w) - f /\ \A n \in 1 .. Len(z) : z[n] = w[n + f]
  BY <1>4, NewestFacts
<1> HIDE DEF q, z
<1>7. f = d + e /\ e \in Nat /\ f \in Nat /\ Len(q) \in Nat
  <2> DEFINE ls == Len(s)
             lr == Len(r)
             lp == Len(p)
             lw == Len(w)
             lq == Len(q)
  <2>0. ls \in Nat /\ lr \in Nat /\ lq \in Nat
    <3> HIDE DEF d, e, f
    <3> QED  BY <1>1, <1>5
  <2>1. lr = ls - d /\ lp = lr + 1 /\ lw = ls + 1 /\ lq = lp - e
    <3> HIDE DEF d, e, f
    <3> QED  BY <1>1, <1>3, <1>4, <1>5
  <2>2. /\ d = IF ls > m THEN ls - m ELSE 0
        /\ e = IF lp > m THEN lp - m ELSE 0
        /\ f = IF lw > m THEN lw - m ELSE 0
    OBVIOUS
  <2> HIDE DEF ls, lr, lp, lw, lq, d, e, f
  <2>3. f = d + e /\ e \in Nat /\ f \in Nat  BY <2>0, <2>1, <2>2
  <2> QED  BY <2>0, <2>3 DEF lq
<1> HIDE DEF d, e, f
<1>8. Len(q) = Len(z)  BY <1>1, <1>2, <1>3, <1>4, <1>5, <1>6, <1>7
<1>9. ASSUME NEW n \in 1 .. Len(q) PROVE q[n] = z[n]
  <2>1. q[n] = p[n + e] /\ z[n] = w[n + f] /\ n + e \in 1 .. Len(r) + 1
    BY <1>3, <1>5, <1>6, <1>7, <1>8, SMTT(90)
  <2>2. CASE n + e = Len(r) + 1
    <3>1. n + f = Len(s) + 1  BY <1>1, <1>2, <1>7, <2>2
    <3> QED  BY <1>3, <1>4, <2>1, <2>2, <3>1
  <2>3. CASE n + e \in 1 .. Len(r)
    <3>1. n + e + d = n + f /\ n + f \in 1 .. Len(s)  BY <1>1, <1>2, <1>7, <2>3
    <3>2. p[n + e] = s[n + e + d]  BY <1>1, <1>3, <2>3
    <3> QED  BY <1>4, <2>1, <3>1, <3>2
  <2> QED  BY <1>1, <2>1, <2>2, <2>3
<1>10. q = z  BY <1>5, <1>6, <1>8, <1>9, SeqEqual
<1> QED  BY <1>10 DEF q, z, p, w, r

-----------------------------------------------------------------------------
(* Layers, and what Hub and Scope do to the one on top.                    *)

L(c, ts, bs) == [client |-> c, scope |-> [tags |-> ts, breadcrumbs |-> bs]]

LEMMA LayerForm ==
  ASSUME NEW l \in Layer
  PROVE  /\ l = L(l.client, l.scope.tags, l.scope.breadcrumbs)
         /\ l.client \in Clients \cup {NoClient} /\ l.scope \in Scope
         /\ l.scope.tags \in SUBSET Actors /\ l.scope.breadcrumbs \in Seq(Actors)
<1>1. l.client \in Clients \cup {NoClient} /\ l.scope \in Scope  BY DEF Layer
<1>2. l.scope.tags \in SUBSET Actors /\ l.scope.breadcrumbs \in Seq(Actors)  BY <1>1 DEF Scope
<1>3. l.scope = [tags |-> l.scope.tags, breadcrumbs |-> l.scope.breadcrumbs]  BY <1>1 DEF Scope
<1>4. l = [client |-> l.client, scope |-> l.scope]  BY DEF Layer
<1> QED  BY <1>1, <1>2, <1>3, <1>4 DEF L

LEMMA LayerType ==
  ASSUME NEW c \in Clients \cup {NoClient}, NEW ts \in SUBSET Actors, NEW bs \in Seq(Actors)
  PROVE  L(c, ts, bs) \in Layer
<1>1. [tags |-> ts, breadcrumbs |-> bs] \in Scope  BY DEF Scope
<1> QED  BY <1>1 DEF L, Layer

LEMMA CrumbsForm ==
  ASSUME NEW c, NEW ts, NEW bs, NEW ns
  PROVE  [L(c, ts, bs) EXCEPT !.scope.breadcrumbs = ns] = L(c, ts, ns)
<1> DEFINE x == L(c, ts, bs)
           r == [x.scope EXCEPT !.breadcrumbs = ns]
<1>1. x.scope = [tags |-> ts, breadcrumbs |-> bs]  BY DEF L
<1>2. r = [tags |-> ts, breadcrumbs |-> ns]  BY <1>1
<1>3. [x EXCEPT !.scope.breadcrumbs = ns] = [x EXCEPT !.scope = r]  OBVIOUS
<1> HIDE DEF r
<1>4. [x EXCEPT !.scope = r] = [client |-> c, scope |-> r]  BY DEF L
<1> QED  BY <1>2, <1>3, <1>4 DEF L

LEMMA TrimForm ==
  ASSUME NEW c, NEW ts, NEW bs
  PROVE  Trimmed(L(c, ts, bs)) = L(c, ts, Newest(bs, MaxBreadcrumbs))
<1>1. L(c, ts, bs).scope.breadcrumbs = bs  BY DEF L
<1> QED  BY <1>1, CrumbsForm DEF Trimmed

LEMMA TrimType ==
  ASSUME NEW l \in Layer
  PROVE  /\ Trimmed(l) \in Layer
         /\ Len(Trimmed(l).scope.breadcrumbs) <= MaxBreadcrumbs
         /\ Trimmed(Trimmed(l)) = Trimmed(l)
<1> DEFINE c == l.client
           ts == l.scope.tags
           bs == l.scope.breadcrumbs
           ns == Newest(bs, MaxBreadcrumbs)
<1>1. l = L(c, ts, bs) /\ c \in Clients \cup {NoClient} /\ ts \in SUBSET Actors /\ bs \in Seq(Actors)
  BY LayerForm
<1> HIDE DEF c, ts, bs
<1>2. ns \in Seq(Actors) /\ Len(ns) <= MaxBreadcrumbs /\ Newest(ns, MaxBreadcrumbs) = ns
  BY <1>1, NewestFacts, NewestTwice, BoundsAssumption
<1>3. Trimmed(l) = L(c, ts, ns)  BY <1>1, TrimForm
<1> HIDE DEF ns
<1>4. L(c, ts, ns) \in Layer  BY <1>1, <1>2, LayerType
<1>5. Trimmed(L(c, ts, ns)) = L(c, ts, ns)  BY <1>2, TrimForm
<1>6. L(c, ts, ns).scope.breadcrumbs = ns  BY DEF L
<1> QED  BY <1>2, <1>3, <1>4, <1>5, <1>6

\* bind_client, on the layer and on what the actor would have alone.
LEMMA TrimBind ==
  ASSUME NEW l \in Layer, NEW c \in Clients \cup {NoClient}
  PROVE  /\ [l EXCEPT !.client = c] \in Layer
         /\ [Trimmed(l) EXCEPT !.client = c] = Trimmed([l EXCEPT !.client = c])
<1> DEFINE ts == l.scope.tags
           bs == l.scope.breadcrumbs
<1>1. l = L(l.client, ts, bs) /\ ts \in SUBSET Actors /\ bs \in Seq(Actors)  BY LayerForm
<1> HIDE DEF ts, bs
<1>2. [l EXCEPT !.client = c] = L(c, ts, bs)  BY <1>1 DEF L
<1>3. Trimmed(l) = L(l.client, ts, Newest(bs, MaxBreadcrumbs))  BY <1>1, TrimForm
<1>4. [Trimmed(l) EXCEPT !.client = c] = L(c, ts, Newest(bs, MaxBreadcrumbs))  BY <1>3 DEF L
<1> QED  BY <1>1, <1>2, <1>4, TrimForm, LayerType

\* A breadcrumb.
LEMMA TrimCrumb ==
  ASSUME NEW l \in Layer, NEW a \in Actors
  PROVE  /\ [l EXCEPT !.scope.breadcrumbs = Append(@, a)] \in Layer
         /\ [Trimmed(l) EXCEPT !.scope.breadcrumbs = Pushed(@, a)]
              = Trimmed([l EXCEPT !.scope.breadcrumbs = Append(@, a)])
<1> DEFINE c == l.client
           ts == l.scope.tags
           bs == l.scope.breadcrumbs
           as == Append(bs, a)
           ns == Newest(bs, MaxBreadcrumbs)
<1>1. l = L(c, ts, bs) /\ c \in Clients \cup {NoClient} /\ ts \in SUBSET Actors /\ bs \in Seq(Actors)
  BY LayerForm
<1>2. as \in Seq(Actors) /\ ns \in Seq(Actors) /\ Pushed(ns, a) = Newest(as, MaxBreadcrumbs)
  BY <1>1, NewestFacts, NewestPush, PushFacts, BoundsAssumption, SMTT(90) DEF Pushed
<1> HIDE DEF c, ts, bs
<1>3. [L(c, ts, bs) EXCEPT !.scope.breadcrumbs = Append(@, a)] = L(c, ts, as)
  <2>1. L(c, ts, bs).scope.breadcrumbs = bs  BY DEF L
  <2> DEFINE App(x) == Append(x, a)
  <2>2. as = App(bs)  OBVIOUS
  <2> HIDE DEF as, App
  <2>3. [L(c, ts, bs) EXCEPT !.scope.breadcrumbs = App(@)] = L(c, ts, as)
    BY <2>1, <2>2, CrumbsForm
  <2> QED  BY <2>3 DEF App
<1> HIDE DEF as
<1>4. Trimmed(l) = L(c, ts, ns)  BY <1>1, TrimForm
<1> HIDE DEF ns
<1>5. [L(c, ts, ns) EXCEPT !.scope.breadcrumbs = Pushed(@, a)] = L(c, ts, Pushed(ns, a))  BY DEF L
<1>6. L(c, ts, as) \in Layer  BY <1>1, <1>2, LayerType
<1>7. Trimmed(L(c, ts, as)) = L(c, ts, Newest(as, MaxBreadcrumbs))  BY TrimForm
<1> QED  BY <1>1, <1>2, <1>3, <1>4, <1>5, <1>6, <1>7

\* What the closure of configure_scope does.
LEMMA TrimEdit ==
  ASSUME NEW l \in Layer, NEW a \in Actors, NEW edit \in Edits
  PROVE  /\ [l EXCEPT !.scope = Edit(@, edit, a)] \in Layer
         /\ [Trimmed(l) EXCEPT !.scope = Edit(Trimmed(l).scope, edit, a)]
              = Trimmed([l EXCEPT !.scope = Edit(@, edit, a)])
<1> DEFINE c == l.client
           ts == l.scope.tags
           bs == l.scope.breadcrumbs
           ns == Newest(bs, MaxBreadcrumbs)
           es == Newest(<<>>, MaxBreadcrumbs)
           S(x, y) == [tags |-> x, breadcrumbs |-> y]
<1>1. l = L(c, ts, bs) /\ c \in Clients \cup {NoClient} /\ ts \in SUBSET Actors /\ bs \in Seq(Actors)
  BY LayerForm
<1>2. es = <<>>  BY BoundsAssumption DEF Newest
<1> HIDE DEF c, ts, bs, es
<1>3. Trimmed(l) = L(c, ts, ns)  BY <1>1, TrimForm
<1> HIDE DEF ns
<1>4. ASSUME NEW b PROVE L(c, ts, b).scope = S(ts, b)  BY DEF L
<1>5. ASSUME NEW b, NEW r PROVE [L(c, ts, b) EXCEPT !.scope = r] = [client |-> c, scope |-> r]
  BY DEF L
<1>6. ASSUME NEW b
      PROVE  Edit(S(ts, b), edit, a)
               = S(IF edit = "set" THEN ts \cup {a} ELSE IF edit = "remove" THEN ts \ {a}
                     ELSE IF edit = "clear" THEN {} ELSE ts,
                   IF edit \in {"set", "remove"} THEN b ELSE <<>>)
  <2>1. CASE edit = "set"  BY <2>1 DEF Edit
  <2>2. CASE edit = "remove"  BY <2>2 DEF Edit
  <2>3. CASE edit = "clear_breadcrumbs"  BY <2>3 DEF Edit
  <2>4. CASE edit = "clear"  BY <2>4 DEF Edit, EmptyScope
  <2> QED  BY <2>1, <2>2, <2>3, <2>4 DEF Edits
<1> DEFINE us == IF edit = "set" THEN ts \cup {a} ELSE IF edit = "remove" THEN ts \ {a}
                   ELSE IF edit = "clear" THEN {} ELSE ts
<1>7. us \in SUBSET Actors  BY <1>1
<1> HIDE DEF us
<1>8. ASSUME NEW b
      PROVE  [L(c, ts, b) EXCEPT !.scope = Edit(@, edit, a)]
               = L(c, us, IF edit \in {"set", "remove"} THEN b ELSE <<>>)
  <2>1. [L(c, ts, b) EXCEPT !.scope = Edit(@, edit, a)]
          = [client |-> c, scope |-> Edit(S(ts, b), edit, a)]
    BY DEF L
  <2>2. Edit(S(ts, b), edit, a) = S(us, IF edit \in {"set", "remove"} THEN b ELSE <<>>)
    BY <1>6 DEF us
  <2> QED  BY <2>1, <2>2 DEF L
<1>9. [L(c, ts, ns) EXCEPT !.scope = Edit(L(c, ts, ns).scope, edit, a)]
        = [L(c, ts, ns) EXCEPT !.scope = Edit(@, edit, a)]
  OBVIOUS
<1>10. CASE edit \in {"set", "remove"}
  <2>1. [l EXCEPT !.scope = Edit(@, edit, a)] = L(c, us, bs)  BY <1>1, <1>8, <1>10
  <2>2. [L(c, ts, ns) EXCEPT !.scope = Edit(L(c, ts, ns).scope, edit, a)] = L(c, us, ns)
    BY <1>8, <1>9, <1>10
  <2>3. Trimmed(L(c, us, bs)) = L(c, us, ns)  BY TrimForm DEF ns
  <2>4. L(c, us, bs) \in Layer  BY <1>1, <1>7, LayerType
  <2> QED  BY <1>3, <2>1, <2>2, <2>3, <2>4
<1>11. CASE edit \notin {"set", "remove"}
  <2>1. [l EXCEPT !.scope = Edit(@, edit, a)] = L(c, us, <<>>)  BY <1>1, <1>8, <1>11
  <2>2. [L(c, ts, ns) EXCEPT !.scope = Edit(L(c, ts, ns).scope, edit, a)] = L(c, us, <<>>)
    BY <1>8, <1>9, <1>11
  <2>3. Trimmed(L(c, us, <<>>)) = L(c, us, <<>>)  BY <1>2, TrimForm DEF es
  <2>4. <<>> \in Seq(Actors)  OBVIOUS
  <2>5. L(c, us, <<>>) \in Layer  BY <1>1, <1>7, <2>4, LayerType
  <2> QED  BY <1>3, <2>1, <2>2, <2>3, <2>5
<1> QED  BY <1>10, <1>11

-----------------------------------------------------------------------------
(* The inductive invariant, and what it says of a thread that runs.        *)

Inv == Typed /\ Apart /\ Mirrored

LEMMA CallFacts ==
  ASSUME NEW c \in CallType
  PROVE  /\ c.op \in {"none", "configure", "add_breadcrumb", "close"} \cup Captures
         /\ c.op = "none" <=> c = Idle
         /\ c.op = "configure" => c.hub \in Hubs /\ c.scope \in Scope
         /\ c.op = "add_breadcrumb" => c \in [op : {"add_breadcrumb"}, hub : Hubs, nested : Nesting]
         /\ c.op \in Captures => c \in [op : Captures, hub : Hubs, nested : Nesting, layer : Layer]
         /\ c.op = "close" => c.client \in Clients
<1>1. CASE c = Idle
  BY <1>1 DEF Idle, Captures
<1>2. CASE c \in [op : {"configure"}, hub : Hubs, scope : Scope]
  BY <1>2 DEF Idle, Captures
<1>3. CASE c \in [op : {"add_breadcrumb"}, hub : Hubs, nested : Nesting]
  BY <1>3 DEF Idle, Captures
<1>4. CASE c \in [op : Captures, hub : Hubs, nested : Nesting, layer : Layer]
  BY <1>4 DEF Idle, Captures
<1>5. CASE c \in [op : {"close"}, client : Clients]
  BY <1>5 DEF Idle, Captures
<1> QED  BY <1>1, <1>2, <1>3, <1>4, <1>5 DEF CallType

\* Two threads never run the same actor's code.
LEMMA ActorsApart ==
  ASSUME Typed, Apart, NEW t \in Threads
  PROVE  /\ Actor(t) \in Tasks \cup {t} /\ Actor(t) \in Actors
         /\ \A u \in Threads : Actor(u) = Actor(t) => u = t
<1>1. ASSUME NEW u \in Threads
      PROVE  /\ Actor(u) \in Tasks \cup {u}
             /\ Actor(u) # u => \E n \in DOMAIN frames[u] : Actor(u) = frames[u][n].actor
  <2>1. CASE frames[u] = <<>>
    BY <2>1 DEF Actor
  <2>2. CASE frames[u] # <<>>
    <3>1. frames[u] \in Seq(Frame)  BY DEF Typed
    <3>2. Len(frames[u]) \in DOMAIN frames[u] /\ Last(frames[u]) = frames[u][Len(frames[u])]
      BY <2>2, <3>1, LastFacts
    <3>3. Actor(u) = frames[u][Len(frames[u])].actor  BY <2>2, <3>2 DEF Actor
    <3>4. frames[u][Len(frames[u])].actor \in Tasks \cup {u}  BY <3>2 DEF Apart
    <3> QED  BY <3>2, <3>3, <3>4
  <2> QED  BY <2>1, <2>2
<1>2. ASSUME NEW u \in Threads, Actor(u) = Actor(t) PROVE u = t
  <2>1. CASE Actor(t) = t
    <3>1. Actor(u) \in Tasks \cup {u} /\ t \notin Tasks  BY <1>1, NamesAssumption
    <3> QED  BY <1>2, <2>1, <3>1
  <2>2. CASE Actor(t) # t
    <3>1. Actor(t) \in Tasks  BY <1>1, <2>2
    <3>2. Actor(u) # u  BY <1>2, <3>1, NamesAssumption
    <3>3. PICK n \in DOMAIN frames[u] : Actor(u) = frames[u][n].actor  BY <1>1, <3>2
    <3>4. PICK m \in DOMAIN frames[t] : Actor(t) = frames[t][m].actor  BY <1>1, <2>2
    <3>5. frames[u][n].actor = frames[t][m].actor  BY <1>2, <3>3, <3>4
    <3> QED  BY <3>5 DEF Apart
  <2> QED  BY <2>1, <2>2
<1> QED  BY <1>1, <1>2 DEF Actors

LEMMA Running ==
  ASSUME Inv, NEW t \in Threads, thread_hub[t] # NoHub, NEW a, a = Actor(t)
  PROVE  /\ a \in Actors /\ thread_hub[t] = a
         /\ layers[a] \in Seq(Layer) /\ layers[a] # <<>> /\ own[a] \in Seq(Layer) /\ own[a] # <<>>
         /\ Len(layers[a]) \in Nat \ {0} /\ Len(own[a]) = Len(layers[a])
         /\ DOMAIN layers[a] = 1 .. Len(layers[a])
         /\ \A n \in 1 .. Len(layers[a]) : layers[a][n] = Trimmed(own[a][n])
         /\ guards[a] \in Seq(Guard) /\ Len(guards[a]) \in Nat /\ Len(layers[a]) = Len(guards[a]) + 1
         /\ \A n \in 1 .. Len(guards[a]) : guards[a][n] = [hub |-> a, depth |-> n]
         /\ Top(a) \in Layer /\ Last(own[a]) \in Layer /\ Top(a) = Trimmed(Last(own[a]))
         /\ Top(a) = layers[a][Len(layers[a])] /\ Last(own[a]) = own[a][Len(layers[a])]
<1>1. a \in Actors /\ thread_hub[t] = a /\ layers[a] # <<>>
  <2>1. a \in Actors /\ thread_hub[t] = Actor(t)  BY ActorsApart DEF Inv, Apart
  <2>2. a \in Tasks \cup {t}  BY ActorsApart DEF Inv
  <2>3. CASE frames[t] = <<>>
    BY <2>1, <2>3 DEF Inv, Apart, Actor
  <2>4. CASE frames[t] # <<>>
    <3>1. frames[t] \in Seq(Frame)  BY DEF Inv, Typed
    <3>2. Len(frames[t]) \in DOMAIN frames[t] /\ Last(frames[t]) = frames[t][Len(frames[t])]
      BY <2>4, <3>1, LastFacts
    <3>3. a = frames[t][Len(frames[t])].actor  BY <2>4, <3>2 DEF Actor
    <3>4. layers[frames[t][Len(frames[t])].actor] # <<>>  BY <3>2 DEF Inv, Apart
    <3> QED  BY <2>1, <3>3, <3>4
  <2> QED  BY <2>1, <2>3, <2>4
<1>2. layers[a] \in Seq(Layer) /\ own[a] \in Seq(Layer) /\ guards[a] \in Seq(Guard)
  BY <1>1 DEF Inv, Typed, Hubs
<1>3. Stacked(a, layers[a], own[a], guards[a])  BY <1>1 DEF Inv, Mirrored
<1> HIDE DEF Inv
<1>4. /\ Len(layers[a]) \in Nat \ {0} /\ Len(own[a]) = Len(layers[a])
      /\ DOMAIN layers[a] = 1 .. Len(layers[a]) /\ DOMAIN guards[a] = 1 .. Len(guards[a])
      /\ Len(guards[a]) \in Nat /\ Len(layers[a]) = Len(guards[a]) + 1
  BY <1>1, <1>2, <1>3 DEF Stacked
<1>5. own[a] # <<>>
  <2>1. Len(own[a]) # 0  BY <1>4
  <2> QED  BY <2>1
<1>6. /\ \A n \in 1 .. Len(layers[a]) : layers[a][n] = Trimmed(own[a][n])
      /\ \A n \in 1 .. Len(guards[a]) : guards[a][n] = [hub |-> a, depth |-> n]
  BY <1>3, <1>4 DEF Stacked
<1>7. /\ Top(a) = layers[a][Len(layers[a])] /\ Top(a) \in Layer
      /\ Last(own[a]) = own[a][Len(layers[a])] /\ Last(own[a]) \in Layer
  BY <1>1, <1>2, <1>4, <1>5, LastFacts DEF Top
<1>8. Top(a) = Trimmed(Last(own[a]))
  <2>1. Len(layers[a]) \in 1 .. Len(layers[a])  BY <1>4
  <2> QED  BY <1>6, <1>7, <2>1
<1> QED  BY <1>1, <1>2, <1>4, <1>5, <1>6, <1>7, <1>8

\* The call c is one for hub a, whose stack is ls.
IsFor(c, a, ls) == /\ c.op \notin {"none", "close"} => c.hub = a
                   /\ c.op = "configure" => c.scope = Last(ls).scope

\* Thread t, which runs actor a, changes the stack of a's hub, a's guards and
\* the call it is in: the code of Hub and Scope never does more.
Changes(t, a, ls, os, gs, c) ==
  /\ thread_hub[t] # NoHub /\ a = Actor(t)
  /\ ls \in Seq(Layer) /\ ls # <<>> /\ os \in Seq(Layer) /\ gs \in Seq(Guard)
  /\ Stacked(a, ls, os, gs) /\ c \in CallType /\ IsFor(c, a, ls)
  /\ layers' = [layers EXCEPT ![a] = ls] /\ own' = [own EXCEPT ![a] = os]
  /\ guards' = [guards EXCEPT ![a] = gs] /\ call' = [call EXCEPT ![t] = c]
  /\ UNCHANGED <<thread_hub, frames, app, mixed, panicked>>
  /\ last_event_id' \in [Hubs -> Actors \cup {NoHub}] /\ slot' \subseteq Clients
  /\ calls' \in 0 .. MaxCalls

LEMMA StackStep ==
  ASSUME Inv, NEW t \in Threads, NEW a, NEW ls, NEW os, NEW gs, NEW c,
         Changes(t, a, ls, os, gs, c)
  PROVE  Inv'
<1> USE DEF Changes
<1>0. Typed /\ Apart /\ Mirrored  BY DEF Inv
<1>1. a \in Actors /\ layers[a] # <<>>  BY Running
<1>2. Typed'  BY <1>0, <1>1 DEF Typed, Hubs
<1>3. /\ layers'[a] = ls /\ own'[a] = os /\ guards'[a] = gs /\ call'[t] = c
      /\ \A b \in Actors : b # a => /\ layers'[b] = layers[b] /\ own'[b] = own[b]
                                    /\ guards'[b] = guards[b]
      /\ \A u \in Threads : u # t => call'[u] = call[u]
  BY <1>0, <1>1 DEF Typed, Hubs
<1>4. \A u \in Threads : Actor(u)' = Actor(u)  BY DEF Actor
<1>5. \A u \in Threads : \A n : Below(u, n)' = Below(u, n)  BY DEF Below
<1>6. \A b \in Actors : layers'[b] = <<>> <=> layers[b] = <<>>  BY <1>1, <1>3
<1>7. Apart'
  <2>1. ASSUME NEW u \in Threads
        PROVE  /\ thread_hub'[u] = NoHub => frames'[u] = <<>> /\ call'[u] = Idle /\ layers'[u] = <<>>
               /\ thread_hub'[u] # NoHub => thread_hub'[u] = Actor(u)' /\ layers'[u] # <<>>
               /\ call'[u].op \notin {"none", "close"} => call'[u].hub = Actor(u)'
    <3>1. u \in Actors  BY DEF Actors
    <3> QED  BY <1>0, <1>3, <1>4, <1>6, <3>1 DEF Apart, IsFor
  <2>2. ASSUME NEW u \in Threads, NEW n \in DOMAIN frames'[u]
        PROVE  /\ frames'[u][n].actor \in Tasks \cup {u}
               /\ layers'[frames'[u][n].actor] # <<>>
               /\ frames'[u][n].inner = NoHub => frames'[u][n].actor = Below(u, n)'
               /\ frames'[u][n].inner # NoHub => frames'[u][n].inner = Below(u, n)'
    <3>1. /\ frames[u][n].actor \in Tasks \cup {u}
          /\ layers[frames[u][n].actor] # <<>>
          /\ frames[u][n].inner = NoHub => frames[u][n].actor = Below(u, n)
          /\ frames[u][n].inner # NoHub => frames[u][n].inner = Below(u, n)
      BY <1>0 DEF Apart
    <3>2. frames[u][n].actor \in Actors  BY <3>1 DEF Actors
    <3> QED  BY <1>5, <1>6, <3>1, <3>2
  <2>3. thread_hub'[Main] # NoHub
        /\ \A u, v \in Threads : \A n \in DOMAIN frames'[u], m \in DOMAIN frames'[v] :
             frames'[u][n].actor = frames'[v][m].actor => u = v
    BY <1>0 DEF Apart
  <2> QED  BY <2>1, <2>2, <2>3 DEF Apart
<1>8. Mirrored'
  <2>1. ASSUME NEW b \in Actors PROVE Stacked(b, layers'[b], own'[b], guards'[b])
    <3>1. Stacked(b, layers[b], own[b], guards[b])  BY <1>0 DEF Mirrored
    <3>2. CASE b = a
      BY <1>3, <3>2
    <3>3. CASE b # a
      BY <1>3, <3>1, <3>3
    <3> QED  BY <3>2, <3>3
  <2>2. ASSUME NEW u \in Threads, call'[u].op = "configure"
        PROVE  call'[u].scope = Top(call[u].hub)'.scope
    <3>1. CASE u = t
      <4>1. call'[u].hub = a /\ call'[u].scope = Last(ls).scope  BY <1>3, <2>2, <3>1 DEF IsFor
      <4>3. Top(call[u].hub)' = Last(layers'[call'[u].hub])  BY DEF Top
      <4> QED  BY <1>3, <4>1, <4>3
    <3>2. CASE u # t
      <4>1. call'[u] = call[u] /\ call[u].op = "configure"  BY <1>3, <2>2, <3>2
      <4>2. call[u].hub = Actor(u) /\ call[u].scope = Top(call[u].hub).scope
        BY <1>0, <4>1 DEF Apart, Mirrored
      <4>3. Actor(u) # a /\ Actor(u) \in Actors  BY <1>0, <3>2, ActorsApart
      <4>4. layers'[call'[u].hub] = layers[call[u].hub]  BY <1>3, <4>1, <4>2, <4>3
      <4>5. Top(call[u].hub)' = Last(layers'[call'[u].hub])  BY DEF Top
      <4> QED  BY <4>1, <4>2, <4>4, <4>5 DEF Top
    <3> QED  BY <3>1, <3>2
  <2>4. mixed' = {} /\ panicked' = {}  BY <1>0 DEF Mirrored
  <2> QED  BY <2>1, <2>2, <2>4 DEF Mirrored
<1> QED  BY <1>2, <1>7, <1>8 DEF Inv

\* The calls that leave the stack alone, or only begin.
Keeps(t, c) ==
  /\ thread_hub[t] # NoHub
  /\ c \in CallType /\ (c.op \notin {"none", "close"} => c.hub = Actor(t))
  /\ c.op = "configure" => c.scope = Top(Actor(t)).scope
  /\ UNCHANGED <<layers, own, guards, thread_hub, frames, app, mixed, panicked>>
  /\ call' = [call EXCEPT ![t] = c]
  /\ last_event_id' \in [Hubs -> Actors \cup {NoHub}] /\ slot' \subseteq Clients
  /\ calls' \in 0 .. MaxCalls

LEMMA KeepStep ==
  ASSUME Inv, NEW t \in Threads, NEW c, Keeps(t, c)
  PROVE  Inv'
<1>0. /\ thread_hub[t] # NoHub
      /\ c \in CallType /\ (c.op \notin {"none", "close"} => c.hub = Actor(t))
      /\ c.op = "configure" => c.scope = Top(Actor(t)).scope
      /\ layers' = layers /\ own' = own /\ guards' = guards
  BY DEF Keeps
<1>1. PICK a : a = Actor(t)  OBVIOUS
<1>2. /\ a \in Actors /\ layers[a] \in Seq(Layer) /\ layers[a] # <<>> /\ own[a] \in Seq(Layer)
      /\ guards[a] \in Seq(Guard) /\ Top(a) = Last(layers[a])
  BY <1>0, <1>1, Running DEF Top
<1> DEFINE ls == layers[a]
           os == own[a]
           gs == guards[a]
<1>3. Stacked(a, ls, os, gs)  BY <1>2 DEF Inv, Mirrored
<1>4. layers' = [layers EXCEPT ![a] = ls] /\ own' = [own EXCEPT ![a] = os]
      /\ guards' = [guards EXCEPT ![a] = gs]
  BY <1>0, <1>2 DEF Inv, Typed, Hubs
<1>5. IsFor(c, a, ls)  BY <1>0, <1>1, <1>2 DEF IsFor
<1> HIDE DEF ls, os, gs
<1>7. ls \in Seq(Layer) /\ ls # <<>> /\ os \in Seq(Layer) /\ gs \in Seq(Guard)
  BY <1>2 DEF ls, os, gs
<1> HIDE DEF Inv
<1>8. Changes(t, a, ls, os, gs, c)  BY <1>0, <1>1, <1>3, <1>4, <1>5, <1>7 DEF Changes, Keeps
<1> QED  BY <1>8, StackStep

\* The calls that replace the layer on top, there and where the actor is alone.
Replaces(t, a, l, c) ==
  /\ thread_hub[t] # NoHub /\ a = Actor(t)
  /\ l \in Layer /\ c \in CallType /\ c.op \in {"none", "close"}
  /\ layers' = [layers EXCEPT ![a] = OnTop(layers[a], Trimmed(l))]
  /\ own' = [own EXCEPT ![a] = OnTop(own[a], l)] /\ call' = [call EXCEPT ![t] = c]
  /\ UNCHANGED <<guards, thread_hub, frames, app, mixed, panicked, last_event_id, slot>>
  /\ calls' \in 0 .. MaxCalls

LEMMA TopStep ==
  ASSUME Inv, NEW t \in Threads, NEW a, NEW l, NEW c, Replaces(t, a, l, c)
  PROVE  Inv'
<1> USE DEF Replaces
<1>1. /\ a \in Actors /\ layers[a] \in Seq(Layer) /\ layers[a] # <<>> /\ own[a] \in Seq(Layer)
      /\ own[a] # <<>> /\ guards[a] \in Seq(Guard) /\ Len(own[a]) = Len(layers[a])
      /\ Len(layers[a]) \in Nat \ {0}
      /\ \A n \in 1 .. Len(layers[a]) : layers[a][n] = Trimmed(own[a][n])
  BY Running
<1>2. Stacked(a, layers[a], own[a], guards[a])  BY <1>1 DEF Inv, Mirrored
<1>3. Trimmed(l) \in Layer  BY TrimType
<1>4. PICK ls : ls = OnTop(layers[a], Trimmed(l))  OBVIOUS
<1>5. PICK os : os = OnTop(own[a], l)  OBVIOUS
<1>6. PICK gs : gs = guards[a]  OBVIOUS
<1>7. ls \in Seq(Layer) /\ ls # <<>> /\ Replaced(ls, layers[a], Trimmed(l))
  BY <1>1, <1>3, <1>4, OnTopFacts
<1>8. os \in Seq(Layer) /\ Replaced(os, own[a], l)
  BY <1>1, <1>5, OnTopFacts
<1>9. Stacked(a, ls, os, gs)
  <2>1. \A n \in DOMAIN ls : ls[n] = Trimmed(os[n])
    <3> TAKE n \in DOMAIN ls
    <3>1. n \in 1 .. Len(layers[a])  BY <1>7 DEF Replaced
    <3>2. CASE n = Len(layers[a])
      BY <1>1, <1>7, <1>8, <3>2 DEF Replaced
    <3>3. CASE n # Len(layers[a])
      <4>1. n \in 1 .. Len(layers[a]) - 1  BY <1>1, <3>1, <3>3
      <4> QED  BY <1>1, <1>7, <1>8, <3>1, <4>1 DEF Replaced
    <3> QED  BY <3>2, <3>3
  <2>2. Len(ls) = Len(layers[a]) /\ Len(os) = Len(ls)  BY <1>1, <1>7, <1>8 DEF Replaced
  <2> QED  BY <1>1, <1>2, <1>6, <1>7, <2>1, <2>2 DEF Stacked
<1>10. guards' = [guards EXCEPT ![a] = gs] /\ gs \in Seq(Guard)  BY <1>1, <1>6 DEF Inv, Typed
<1>11. last_event_id' \in [Hubs -> Actors \cup {NoHub}] /\ slot' \subseteq Clients
  BY DEF Inv, Typed
<1>12. layers' = [layers EXCEPT ![a] = ls] /\ own' = [own EXCEPT ![a] = os]  BY <1>4, <1>5
<1>13. IsFor(c, a, ls)  BY DEF IsFor
<1>14. UNCHANGED <<thread_hub, frames, app, mixed, panicked>>  OBVIOUS
<1> HIDE DEF Inv
<1>15. Changes(t, a, ls, os, gs, c)
  BY <1>7, <1>8, <1>9, <1>10, <1>11, <1>12, <1>13, <1>14 DEF Changes
<1> QED  BY <1>15, StackStep

LEMMA CallsBound ==
  ASSUME Inv, NEW t \in Threads, Calls(t)
  PROVE  calls' \in 0 .. MaxCalls /\ call[t] = Idle /\ thread_hub[t] # NoHub
BY BoundsAssumption DEF Calls, Inv, Typed

\* A thread in a call is in it for the hub of the code it runs.
LEMMA InCall ==
  ASSUME Inv, NEW t \in Threads, call[t].op # "none"
  PROVE  /\ thread_hub[t] # NoHub /\ call[t] \in CallType
         /\ call[t].op # "close" => call[t].hub = Actor(t)
<1>1. call[t] \in CallType  BY DEF Inv, Typed
<1>2. call[t] # Idle  BY DEF Idle
<1> QED  BY <1>1, <1>2 DEF Inv, Apart

LEMMA IdleType == Idle \in CallType /\ Idle.op = "none" /\ \A a, ls : IsFor(Idle, a, ls)
BY DEF CallType, Idle, IsFor

LEMMA KeepAll ==
  ASSUME Inv
  PROVE  last_event_id \in [Hubs -> Actors \cup {NoHub}] /\ slot \subseteq Clients /\ calls \in 0 .. MaxCalls
BY DEF Inv, Typed

LEMMA PushScopeInv ==
  ASSUME Inv, NEW t \in Threads, PushScope(t)
  PROVE  Inv'
<1>0. PICK a : a = Actor(t)  OBVIOUS
<1>1. calls' \in 0 .. MaxCalls /\ call[t] = Idle /\ thread_hub[t] # NoHub
  BY CallsBound DEF PushScope
<1>2. /\ a \in Actors /\ thread_hub[t] = a
      /\ layers[a] \in Seq(Layer) /\ layers[a] # <<>> /\ own[a] \in Seq(Layer) /\ own[a] # <<>>
      /\ Len(layers[a]) \in Nat \ {0} /\ Len(own[a]) = Len(layers[a])
      /\ \A n \in 1 .. Len(layers[a]) : layers[a][n] = Trimmed(own[a][n])
      /\ guards[a] \in Seq(Guard) /\ Len(guards[a]) \in Nat /\ Len(layers[a]) = Len(guards[a]) + 1
      /\ \A n \in 1 .. Len(guards[a]) : guards[a][n] = [hub |-> a, depth |-> n]
      /\ Top(a) \in Layer /\ Last(own[a]) \in Layer /\ Top(a) = Trimmed(Last(own[a]))
  BY <1>0, <1>1, Running, SMTT(90)
<1> DEFINE g  == [hub |-> a, depth |-> Len(layers[a])]
           ls == Append(layers[a], Top(a))
           os == Append(own[a], Last(own[a]))
           gs == Append(guards[a], g)
<1>3. /\ layers' = [layers EXCEPT ![a] = ls] /\ guards' = [guards EXCEPT ![a] = gs]
      /\ own' = [own EXCEPT ![a] = os]
      /\ UNCHANGED <<last_event_id, thread_hub, frames, call, slot, app, mixed, panicked>>
  <2>1. /\ layers' = [layers EXCEPT ![a] = Append(@, Top(a))]
        /\ guards' = [guards EXCEPT ![a] = Append(@, [hub |-> a, depth |-> GuardDepth(layers[a])])]
        /\ own' = [own EXCEPT ![a] = Append(@, Last(@))]
        /\ UNCHANGED <<last_event_id, thread_hub, frames, call, slot, app, mixed, panicked>>
    BY <1>0, <1>2 DEF PushScope
  <2> QED  BY <1>2, <2>1 DEF GuardDepth
<1>4. g \in Guard  BY <1>2 DEF Guard, Hubs
<1> HIDE DEF g
<1>5. /\ ls \in Seq(Layer) /\ ls # <<>> /\ Len(ls) = Len(layers[a]) + 1
      /\ \A n \in 1 .. Len(layers[a]) : ls[n] = layers[a][n]
      /\ ls[Len(layers[a]) + 1] = Top(a)
  BY <1>2, PushFacts
<1>6. /\ os \in Seq(Layer) /\ Len(os) = Len(own[a]) + 1
      /\ \A n \in 1 .. Len(own[a]) : os[n] = own[a][n]
      /\ os[Len(own[a]) + 1] = Last(own[a])
  BY <1>2, PushFacts
<1>7. /\ gs \in Seq(Guard) /\ Len(gs) = Len(guards[a]) + 1
      /\ \A n \in 1 .. Len(guards[a]) : gs[n] = guards[a][n]
      /\ gs[Len(guards[a]) + 1] = g
  BY <1>2, <1>4, PushFacts
<1> HIDE DEF ls, os, gs
<1>8. \A n \in DOMAIN ls : ls[n] = Trimmed(os[n])
  <2> TAKE n \in DOMAIN ls
  <2>1. n \in 1 .. Len(layers[a]) + 1  BY <1>5
  <2>2. CASE n = Len(layers[a]) + 1
    BY <1>2, <1>5, <1>6, <2>2
  <2>3. CASE n # Len(layers[a]) + 1
    <3>1. n \in 1 .. Len(layers[a])  BY <1>2, <2>1, <2>3
    <3> QED  BY <1>2, <1>5, <1>6, <3>1
  <2> QED  BY <2>2, <2>3
<1>9. \A n \in DOMAIN gs : gs[n] = [hub |-> a, depth |-> n]
  <2> TAKE n \in DOMAIN gs
  <2>1. n \in 1 .. Len(guards[a]) + 1  BY <1>7
  <2>2. CASE n = Len(guards[a]) + 1
    BY <1>2, <1>7, <2>2 DEF g
  <2>3. CASE n # Len(guards[a]) + 1
    <3>1. n \in 1 .. Len(guards[a])  BY <1>2, <2>1, <2>3
    <3> QED  BY <1>2, <1>7, <3>1
  <2> QED  BY <2>2, <2>3
<1>10. Stacked(a, ls, os, gs)
  BY <1>2, <1>5, <1>6, <1>7, <1>8, <1>9 DEF Stacked
<1>11. call' = [call EXCEPT ![t] = Idle]  BY <1>1, <1>3 DEF Inv, Typed
<1> HIDE DEF Inv
<1>12. last_event_id' \in [Hubs -> Actors \cup {NoHub}] /\ slot' \subseteq Clients
  BY <1>3, KeepAll
<1>13. Changes(t, a, ls, os, gs, Idle)
  BY <1>0, <1>1, <1>3, <1>5, <1>6, <1>7, <1>10, <1>11, <1>12, IdleType DEF Changes
<1> QED  BY <1>13, StackStep

\* A scope guard goes with the layer it was made for, and finds the depth it has noted.
LEMMA DropScopeGuardInv ==
  ASSUME Inv, NEW t \in Threads, DropScopeGuard(t)
  PROVE  Inv'
<1>0. PICK a : a = Actor(t)  OBVIOUS
<1>1. a \in Actors /\ guards[a] # <<>> /\ call[t] = Idle
  BY <1>0, ActorsApart DEF DropScopeGuard, Inv
<1>2. thread_hub[t] # NoHub
  <2> SUFFICES ASSUME thread_hub[t] = NoHub PROVE FALSE
    OBVIOUS
  <2>1. frames[t] = <<>> /\ layers[t] = <<>>  BY DEF Inv, Apart
  <2>2. a = t  BY <1>0, <2>1 DEF Actor
  <2> QED  BY <1>1, <2>1, <2>2 DEF Inv, Mirrored, Stacked
<1>3. /\ layers[a] \in Seq(Layer) /\ layers[a] # <<>> /\ own[a] \in Seq(Layer) /\ own[a] # <<>>
      /\ Len(layers[a]) \in Nat \ {0} /\ Len(own[a]) = Len(layers[a])
      /\ \A n \in 1 .. Len(layers[a]) : layers[a][n] = Trimmed(own[a][n])
      /\ guards[a] \in Seq(Guard) /\ Len(guards[a]) \in Nat /\ Len(layers[a]) = Len(guards[a]) + 1
      /\ \A n \in 1 .. Len(guards[a]) : guards[a][n] = [hub |-> a, depth |-> n]
  BY <1>0, <1>2, Running
<1>4. Last(guards[a]) = [hub |-> a, depth |-> Len(guards[a])]
  <2>1. Len(guards[a]) \in 1 .. Len(guards[a]) /\ Last(guards[a]) = guards[a][Len(guards[a])]
    BY <1>1, <1>3, LastFacts
  <2> QED  BY <1>3, <2>1
<1>5. Len(layers[a]) > 1 /\ Len(own[a]) > 1 /\ Len(guards[a]) \in Nat \ {0}
  <2>1. Len(guards[a]) \in Nat \ {0}  BY <1>1, <1>3, LastFacts
  <2> QED  BY <1>3, <2>1
<1> DEFINE ls == Front(layers[a])
           os == Front(own[a])
           gs == Front(guards[a])
<1>6. /\ layers' = [layers EXCEPT ![a] = ls] /\ guards' = [guards EXCEPT ![a] = gs]
      /\ own' = [own EXCEPT ![a] = os] /\ panicked' = panicked
      /\ UNCHANGED <<last_event_id, thread_hub, frames, call, slot, app, calls, mixed>>
  <2>1. Last(guards[a]).hub = a /\ Last(guards[a]).depth = Len(guards[a])  BY <1>4
  <2>2. /\ layers' = [layers EXCEPT ![a] = IF Len(@) > 1 THEN Front(@) ELSE @]
        /\ guards' = [guards EXCEPT ![a] = Front(@)]
        /\ own' = [own EXCEPT ![a] = IF Len(@) > 1 THEN Front(@) ELSE @]
        /\ panicked' = IF Len(layers[a]) - 1 # Len(guards[a]) THEN panicked \cup {a} ELSE panicked
        /\ UNCHANGED <<last_event_id, thread_hub, frames, call, slot, app, calls, mixed>>
    BY <1>0, <2>1 DEF DropScopeGuard
  <2>3. Len(layers[a]) - 1 = Len(guards[a])  BY <1>3
  <2> QED  BY <1>5, <2>2, <2>3
<1>7. /\ ls \in Seq(Layer) /\ Len(ls) = Len(layers[a]) - 1 /\ ls # <<>>
      /\ \A n \in 1 .. Len(layers[a]) - 1 : ls[n] = layers[a][n]
  <2>1. ls = <<>> <=> Len(layers[a]) = 1  BY <1>3, PopFacts
  <2>2. Len(layers[a]) # 1  BY <1>3, <1>5
  <2> QED  BY <1>3, <2>1, <2>2, PopFacts
<1>8. /\ os \in Seq(Layer) /\ Len(os) = Len(own[a]) - 1
      /\ \A n \in 1 .. Len(own[a]) - 1 : os[n] = own[a][n]
  BY <1>3, PopFacts, ZenonT(120)
<1>9. /\ gs \in Seq(Guard) /\ Len(gs) = Len(guards[a]) - 1
      /\ \A n \in 1 .. Len(guards[a]) - 1 : gs[n] = guards[a][n]
  BY <1>1, <1>3, PopFacts
<1> HIDE DEF ls, os, gs
<1>10. \A n \in DOMAIN ls : ls[n] = Trimmed(os[n])
  <2> TAKE n \in DOMAIN ls
  <2>1. n \in 1 .. Len(layers[a]) - 1 /\ n \in 1 .. Len(layers[a])  BY <1>3, <1>7
  <2> QED  BY <1>3, <1>7, <1>8, <2>1
<1>11. \A n \in DOMAIN gs : gs[n] = [hub |-> a, depth |-> n]
  <2> TAKE n \in DOMAIN gs
  <2>1. n \in 1 .. Len(guards[a]) - 1 /\ n \in 1 .. Len(guards[a])  BY <1>3, <1>9
  <2> QED  BY <1>3, <1>9, <2>1
<1>12. Stacked(a, ls, os, gs)
  BY <1>3, <1>5, <1>7, <1>8, <1>9, <1>10, <1>11 DEF Stacked
<1>13. call' = [call EXCEPT ![t] = Idle]  BY <1>1, <1>6 DEF Inv, Typed
<1> HIDE DEF Inv
<1>14. last_event_id' \in [Hubs -> Actors \cup {NoHub}] /\ slot' \subseteq Clients
       /\ calls' \in 0 .. MaxCalls
  BY <1>6, KeepAll
<1>15. Changes(t, a, ls, os, gs, Idle)
  BY <1>0, <1>2, <1>6, <1>7, <1>8, <1>9, <1>12, <1>13, <1>14, IdleType DEF Changes
<1> QED  BY <1>15, StackStep
LEMMA ConfigureScopeInv ==
  ASSUME Inv, NEW t \in Threads, ConfigureScope(t)
  PROVE  Inv'
<1>0. PICK a : a = Actor(t)  OBVIOUS
<1>1. calls' \in 0 .. MaxCalls /\ call[t] = Idle /\ thread_hub[t] # NoHub
  BY CallsBound DEF ConfigureScope
<1>2. a \in Actors /\ thread_hub[t] = a /\ Top(a) \in Layer
  BY <1>0, <1>1, Running
<1> DEFINE c == [op |-> "configure", hub |-> a, scope |-> Top(a).scope]
<1>3. c \in CallType
  <2>1. Top(a).scope \in Scope  BY <1>2, LayerForm
  <2> QED  BY <1>2, <2>1 DEF CallType, Hubs
<1>4. call' = [call EXCEPT ![t] = c]
  BY <1>2 DEF ConfigureScope
<1>5. UNCHANGED <<layers, own, guards, thread_hub, frames, app, mixed, panicked, last_event_id, slot>>
  BY DEF ConfigureScope, history
<1>6. Keeps(t, c)
  BY <1>0, <1>1, <1>3, <1>4, <1>5, KeepAll DEF Keeps
<1> HIDE DEF c
<1> QED  BY <1>6, KeepStep

LEMMA AddBreadcrumbInv ==
  ASSUME Inv, NEW t \in Threads, AddBreadcrumb(t)
  PROVE  Inv'
<1>0. PICK a : a = Actor(t)  OBVIOUS
<1>1. calls' \in 0 .. MaxCalls /\ call[t] = Idle /\ thread_hub[t] # NoHub
  BY CallsBound DEF AddBreadcrumb
<1>2. a \in Actors /\ thread_hub[t] = a
  BY <1>0, <1>1, Running
<1> DEFINE c == [op |-> "add_breadcrumb", hub |-> a, nested |-> "no"]
<1>3. c \in CallType
  BY <1>2 DEF CallType, Hubs, Nesting
<1>4. call' = [call EXCEPT ![t] = c]
  BY <1>2 DEF AddBreadcrumb
<1>5. UNCHANGED <<layers, own, guards, thread_hub, frames, app, mixed, panicked, last_event_id, slot>>
  BY DEF AddBreadcrumb, history
<1>6. Keeps(t, c)
  BY <1>0, <1>1, <1>3, <1>4, <1>5, KeepAll DEF Keeps
<1> HIDE DEF c
<1> QED  BY <1>6, KeepStep

\* The event is made from what its actor would have alone.
LEMMA CaptureEventInv ==
  ASSUME Inv, NEW t \in Threads, NEW op \in Captures, CaptureEvent(t, op)
  PROVE  Inv'
<1>0. PICK a : a = Actor(t)  OBVIOUS
<1>1. calls' \in 0 .. MaxCalls /\ call[t] = Idle /\ thread_hub[t] # NoHub
  BY CallsBound DEF CaptureEvent
<1>2. /\ a \in Actors /\ thread_hub[t] = a /\ Top(a) \in Layer
      /\ Top(a) = Trimmed(Last(own[a]))
  BY <1>0, <1>1, Running
<1> DEFINE c == [op |-> op, hub |-> a, nested |-> "no", layer |-> Top(a)]
<1>3. c \in CallType /\ c.op \notin {"configure", "none", "close"}
  BY <1>2 DEF CallType, Hubs, Nesting, Captures
<1>4. call' = [call EXCEPT ![t] = c]
  BY <1>2 DEF CaptureEvent
<1>5. UNCHANGED <<layers, own, guards, thread_hub, frames, app, panicked, last_event_id, slot>>
  BY DEF CaptureEvent
<1>6. mixed' = mixed
  BY <1>0, <1>2 DEF CaptureEvent, Intended
<1>7. Keeps(t, c)
  BY <1>0, <1>1, <1>3, <1>4, <1>5, <1>6, KeepAll DEF Keeps
<1> HIDE DEF c
<1> QED  BY <1>7, KeepStep

LEMMA CaptureEventEndInv ==
  ASSUME Inv, NEW t \in Threads, CaptureEventEnd(t)
  PROVE  Inv'
<1>1. call[t].op \in Captures  BY DEF CaptureEventEnd
<1>2. thread_hub[t] # NoHub /\ call[t].op # "close"  BY <1>1, InCall DEF Captures
<1>3. Actor(t) \in Actors  BY <1>2, Running
<1>4. last_event_id' \in [Hubs -> Actors \cup {NoHub}]
  BY <1>3 DEF CaptureEventEnd, Inv, Typed
<1>5. UNCHANGED <<layers, own, guards, thread_hub, frames, app, mixed, panicked, slot, calls>>
      /\ call' = [call EXCEPT ![t] = Idle]
  BY DEF CaptureEventEnd, history
<1>6. Idle \in CallType /\ Idle.op = "none"  BY IdleType
<1>7. Keeps(t, Idle)
  BY <1>2, <1>4, <1>5, <1>6, KeepAll DEF Keeps
<1> QED  BY <1>7, KeepStep

LEMMA CloseInv ==
  ASSUME Inv, NEW t \in Threads, NEW k \in Clients, Close(t, k)
  PROVE  Inv'
<1>1. calls' \in 0 .. MaxCalls /\ call[t] = Idle /\ thread_hub[t] # NoHub
  BY CallsBound DEF Close
<1> DEFINE c == [op |-> "close", client |-> k]
<1>2. c \in CallType /\ c.op = "close"
  BY DEF CallType
<1>3. UNCHANGED <<layers, own, guards, thread_hub, frames, app, mixed, panicked, last_event_id, slot>>
      /\ call' = [call EXCEPT ![t] = c]
  BY DEF Close, history
<1>4. Keeps(t, c)
  BY <1>1, <1>2, <1>3, KeepAll DEF Keeps
<1> HIDE DEF c
<1> QED  BY <1>4, KeepStep

LEMMA CloseEndInv ==
  ASSUME Inv, NEW t \in Threads, CloseEnd(t)
  PROVE  Inv'
<1>1. call[t].op = "close"  BY DEF CloseEnd
<1>2. thread_hub[t] # NoHub  BY <1>1, InCall
<1>3. slot' \subseteq Clients  BY KeepAll DEF CloseEnd
<1>4. UNCHANGED <<layers, own, guards, thread_hub, frames, app, mixed, panicked, last_event_id, calls>>
      /\ call' = [call EXCEPT ![t] = Idle]
  BY DEF CloseEnd, history
<1>5. Idle \in CallType /\ Idle.op = "none"  BY IdleType
<1>6. Keeps(t, Idle)
  BY <1>2, <1>3, <1>4, <1>5, KeepAll DEF Keeps
<1> QED  BY <1>6, KeepStep
LEMMA ConfigureScopeEndInv ==
  ASSUME Inv, NEW t \in Threads, ConfigureScopeEnd(t)
  PROVE  Inv'
<1>0. PICK a : a = Actor(t)  OBVIOUS
<1>1. call[t].op = "configure"  BY DEF ConfigureScopeEnd
<1>2. thread_hub[t] # NoHub /\ call[t].hub = a  BY <1>0, <1>1, InCall
<1>3. call[t].scope = Top(a).scope  BY <1>1, <1>2 DEF Inv, Mirrored
<1>4. PICK o : o = Last(own[a])  OBVIOUS
<1>5. a \in Actors /\ o \in Layer /\ Top(a) = Trimmed(o)
  BY <1>0, <1>2, <1>4, Running
<1>6. PICK edit \in Edits :
        /\ WriteBack(a, Edit(Top(a).scope, edit, a))
        /\ own' = [own EXCEPT ![a] = OnTop(own[a], Edited(o, edit, a))]
  <2>1. PICK edit \in Edits :
          /\ WriteBack(call[t].hub, Edit(call[t].scope, edit, Actor(t)))
          /\ own' = [own EXCEPT ![Actor(t)] = OnTop(@, Edited(Last(@), edit, Actor(t)))]
    BY DEF ConfigureScopeEnd
  <2> QED  BY <1>0, <1>2, <1>3, <1>4, <2>1
<1>7. PICK l : l = Edited(o, edit, a)  OBVIOUS
<1>8. l \in Layer /\ [Top(a) EXCEPT !.scope = Edit(Top(a).scope, edit, a)] = Trimmed(l)
  BY <1>5, <1>7, TrimEdit DEF Edited
<1>9. layers' = [layers EXCEPT ![a] = OnTop(layers[a], Trimmed(l))]
  BY <1>6, <1>8 DEF WriteBack
<1>10. own' = [own EXCEPT ![a] = OnTop(own[a], l)]  BY <1>6, <1>7
<1>11. UNCHANGED <<guards, thread_hub, frames, app, mixed, panicked, last_event_id, slot, calls>>
       /\ call' = [call EXCEPT ![t] = Idle]
  BY DEF ConfigureScopeEnd
<1>12. Idle \in CallType /\ Idle.op = "none"  BY IdleType
<1>13. Replaces(t, a, l, Idle)
  BY <1>0, <1>2, <1>8, <1>9, <1>10, <1>11, <1>12, KeepAll DEF Replaces
<1> QED  BY <1>13, TopStep

LEMMA AddBreadcrumbEndInv ==
  ASSUME Inv, NEW t \in Threads, AddBreadcrumbEnd(t)
  PROVE  Inv'
<1>0. PICK a : a = Actor(t)  OBVIOUS
<1>1. call[t].op = "add_breadcrumb"  BY DEF AddBreadcrumbEnd
<1>2. thread_hub[t] # NoHub /\ call[t].hub = a  BY <1>0, <1>1, InCall
<1>3. PICK o : o = Last(own[a])  OBVIOUS
<1>4. a \in Actors /\ o \in Layer /\ Top(a) = Trimmed(o)
  BY <1>0, <1>2, <1>3, Running
<1>5. UNCHANGED <<guards, thread_hub, frames, app, mixed, panicked, last_event_id, slot, calls>>
       /\ call' = [call EXCEPT ![t] = Idle]
  BY DEF AddBreadcrumbEnd
<1>6. Idle \in CallType /\ Idle.op = "none"  BY IdleType
<1>7. CASE UNCHANGED <<layers, own>>
  <2>1. Keeps(t, Idle)
    BY <1>2, <1>5, <1>6, <1>7, KeepAll DEF Keeps
  <2> QED  BY <2>1, KeepStep
<1>8. CASE /\ layers' = [layers EXCEPT ![call[t].hub] =
                OnTop(@, WithCrumb(Top(call[t].hub), Actor(t)))]
           /\ own' = [own EXCEPT ![Actor(t)] =
                OnTop(@, Extended(Last(@), Actor(t)))]
  <2>1. PICK l : l = Extended(o, a)  OBVIOUS
  <2>2. l \in Layer /\ WithCrumb(Top(a), a) = Trimmed(l)
    BY <1>4, <2>1, TrimCrumb DEF Extended, WithCrumb
  <2>3. layers' = [layers EXCEPT ![a] = OnTop(layers[a], Trimmed(l))]
    BY <1>0, <1>2, <1>8, <2>2
  <2>4. own' = [own EXCEPT ![a] = OnTop(own[a], l)]  BY <1>0, <1>3, <1>8, <2>1
  <2>5. Replaces(t, a, l, Idle)
    BY <1>0, <1>2, <1>5, <1>6, <2>2, <2>3, <2>4, KeepAll DEF Replaces
  <2> QED  BY <2>5, TopStep
<1> QED  BY <1>7, <1>8 DEF AddBreadcrumbEnd

LEMMA BindClientInv ==
  ASSUME Inv, NEW t \in Threads, NEW c \in Clients \cup {NoClient}, BindClient(t, c)
  PROVE  Inv'
<1>0. PICK a : a = Actor(t)  OBVIOUS
<1>1. calls' \in 0 .. MaxCalls /\ call[t] = Idle /\ thread_hub[t] # NoHub
  BY CallsBound DEF BindClient
<1>2. PICK o : o = Last(own[a])  OBVIOUS
<1>3. a \in Actors /\ thread_hub[t] = a /\ o \in Layer /\ Top(a) = Trimmed(o)
  BY <1>0, <1>1, <1>2, Running
<1>4. PICK l : l = [o EXCEPT !.client = c]  OBVIOUS
<1>5. l \in Layer /\ [Top(a) EXCEPT !.client = c] = Trimmed(l)
  BY <1>3, <1>4, TrimBind
<1>6. layers' = [layers EXCEPT ![a] = OnTop(layers[a], Trimmed(l))]
      /\ own' = [own EXCEPT ![a] = OnTop(own[a], l)]
  BY <1>0, <1>2, <1>3, <1>4, <1>5 DEF BindClient
<1>7. UNCHANGED <<guards, thread_hub, frames, app, mixed, panicked, last_event_id, slot, call>>
  BY DEF BindClient
<1>8. call' = [call EXCEPT ![t] = Idle] /\ Idle \in CallType /\ Idle.op = "none"
  BY <1>1, <1>7, IdleType DEF Inv, Typed
<1>9. Replaces(t, a, l, Idle)
  BY <1>0, <1>1, <1>5, <1>6, <1>7, <1>8 DEF Replaces
<1> QED  BY <1>9, TopStep

\* A callback that calls the SDK: the call it is in goes on for the same hub.
LEMMA NestingInv ==
  ASSUME Inv, NEW t \in Threads, Nested(t) \/ NestedEnd(t)
  PROVE  Inv'
<1>1. PICK n \in Nesting : call' = [call EXCEPT ![t].nested = n]
  BY DEF Nested, NestedEnd, Nesting
<1>2. call[t].op \in app.nests /\ call[t] \in CallType
      /\ UNCHANGED <<layers, own, guards, thread_hub, frames, app, mixed, panicked, last_event_id, slot, calls>>
  BY DEF Nested, NestedEnd, history, Inv, Typed
<1>3. call[t].op \in {"add_breadcrumb"} \cup Captures
  <2>1. app \in [nests : SUBSET {"add_breadcrumb", "capture", "capture_error"}, closes : BOOLEAN]
    BY AppsAssumption DEF Inv, Typed
  <2>2. app.nests \subseteq {"add_breadcrumb", "capture", "capture_error"}
    BY <2>1
  <2> QED  BY <1>2, <2>2 DEF Captures
<1>4. thread_hub[t] # NoHub /\ call[t].hub = Actor(t)
  BY <1>3, InCall DEF Captures
<1>5. PICK b : b = call[t]  OBVIOUS
<1>6. PICK c : c = [b EXCEPT !.nested = n]  OBVIOUS
<1>7. c \in CallType /\ c.hub = b.hub /\ c.op \in {"add_breadcrumb"} \cup Captures
  <2>1. b \in [op : {"add_breadcrumb"}, hub : Hubs, nested : Nesting]
        \/ b \in [op : Captures, hub : Hubs, nested : Nesting, layer : Layer]
    BY <1>2, <1>3, <1>5, CallFacts
  <2>2. CASE b \in [op : {"add_breadcrumb"}, hub : Hubs, nested : Nesting]
    <3>1. c \in [op : {"add_breadcrumb"}, hub : Hubs, nested : Nesting] /\ c.hub = b.hub
      BY <1>1, <1>6, <2>2
    <3> QED  BY <3>1 DEF CallType
  <2>3. CASE b \in [op : Captures, hub : Hubs, nested : Nesting, layer : Layer]
    <3>1. c \in [op : Captures, hub : Hubs, nested : Nesting, layer : Layer] /\ c.hub = b.hub
      BY <1>1, <1>6, <2>3
    <3> QED  BY <3>1 DEF CallType
  <2> QED  BY <2>1, <2>2, <2>3
<1>8. call' = [call EXCEPT ![t] = c]  BY <1>1, <1>5, <1>6
<1>9. c.op # "configure"  BY <1>7 DEF Captures
<1>10. Keeps(t, c)
  BY <1>2, <1>4, <1>5, <1>7, <1>8, <1>9, KeepAll DEF Keeps
<1> QED  BY <1>10, KeepStep
-----------------------------------------------------------------------------
(* New hubs, and the frames of a thread.                                   *)

\* Hub h gets its first layer, x, and is a task's or the hub of a thread that had none.
Opens(h, x, y) ==
  /\ h \in Actors /\ layers[h] = <<>> /\ y \in Layer /\ x = Trimmed(y)
  /\ layers' = [layers EXCEPT ![h] = <<x>>] /\ own' = [own EXCEPT ![h] = <<y>>]
  /\ UNCHANGED <<guards, frames, call, app, mixed, panicked, last_event_id, slot>>
  /\ calls' \in 0 .. MaxCalls
  /\ \/ h \in Tasks /\ thread_hub' = thread_hub
     \/ h \in Threads /\ thread_hub[h] = NoHub /\ thread_hub' = [thread_hub EXCEPT ![h] = h]

LEMMA OpenStep ==
  ASSUME Inv, NEW h, NEW x, NEW y, Opens(h, x, y)
  PROVE  Inv'
<1>0. Typed /\ Apart /\ Mirrored  BY DEF Inv
<1>1. /\ h \in Actors /\ layers[h] = <<>> /\ y \in Layer /\ x \in Layer /\ x = Trimmed(y)
      /\ layers' = [layers EXCEPT ![h] = <<x>>] /\ own' = [own EXCEPT ![h] = <<y>>]
      /\ guards' = guards /\ frames' = frames /\ call' = call /\ app' = app /\ mixed' = mixed
      /\ panicked' = panicked /\ last_event_id' = last_event_id /\ slot' = slot
      /\ calls' \in 0 .. MaxCalls
  BY TrimType DEF Opens
<1>2. \A u \in Threads : /\ u # h => thread_hub'[u] = thread_hub[u]
                         /\ u = h => thread_hub'[u] = u /\ thread_hub[u] = NoHub
  BY <1>0, NamesAssumption DEF Opens, Typed
<1>3. thread_hub' \in [Threads -> Hubs \cup {NoHub}]
  BY <1>0 DEF Opens, Typed, Hubs, Actors
<1>4. <<x>> \in Seq(Layer) /\ <<y>> \in Seq(Layer)  BY <1>1
<1>5. Typed'
  <2>1. layers' \in [Hubs -> Seq(Layer)] /\ own' \in [Hubs -> Seq(Layer)]
    BY <1>0, <1>1, <1>4 DEF Typed, Hubs
  <2> QED  BY <1>0, <1>1, <1>3, <2>1 DEF Typed
<1>6. /\ \A b \in Actors : b # h => layers'[b] = layers[b] /\ own'[b] = own[b]
      /\ layers'[h] = <<x>> /\ own'[h] = <<y>> /\ layers'[h] # <<>>
  BY <1>0, <1>1 DEF Typed, Hubs
<1>7. \A u \in Threads : Actor(u)' = Actor(u)  BY <1>1 DEF Actor
<1>8. \A u \in Threads : \A n : Below(u, n)' = Below(u, n)  BY <1>1 DEF Below
<1>9. Apart'
  <2>1. ASSUME NEW u \in Threads
        PROVE  /\ thread_hub'[u] = NoHub => frames'[u] = <<>> /\ call'[u] = Idle /\ layers'[u] = <<>>
               /\ thread_hub'[u] # NoHub => thread_hub'[u] = Actor(u)' /\ layers'[u] # <<>>
               /\ call'[u].op \notin {"none", "close"} => call'[u].hub = Actor(u)'
    <3>1. u \in Actors /\ u # NoHub  BY NamesAssumption DEF Actors
    <3>2. CASE u # h
      BY <1>0, <1>1, <1>2, <1>6, <1>7, <3>1, <3>2 DEF Apart
    <3>3. CASE u = h
      <4>1. thread_hub'[u] = u /\ thread_hub[u] = NoHub /\ layers'[u] # <<>>
        BY <1>2, <1>6, <3>3
      <4>2. Actor(u) = u /\ call[u] = Idle  BY <1>0, <4>1 DEF Apart, Actor
      <4> QED  BY <1>1, <1>7, <3>1, <4>1, <4>2 DEF Idle
    <3> QED  BY <3>2, <3>3
  <2>2. ASSUME NEW u \in Threads, NEW n \in DOMAIN frames'[u]
        PROVE  /\ frames'[u][n].actor \in Tasks \cup {u}
               /\ layers'[frames'[u][n].actor] # <<>>
               /\ frames'[u][n].inner = NoHub => frames'[u][n].actor = Below(u, n)'
               /\ frames'[u][n].inner # NoHub => frames'[u][n].inner = Below(u, n)'
    <3>1. /\ frames[u][n].actor \in Tasks \cup {u}
          /\ layers[frames[u][n].actor] # <<>>
          /\ frames[u][n].inner = NoHub => frames[u][n].actor = Below(u, n)
          /\ frames[u][n].inner # NoHub => frames[u][n].inner = Below(u, n)
      BY <1>0, <1>1 DEF Apart
    <3>2. frames[u][n].actor \in Actors  BY <3>1 DEF Actors
    <3> QED  BY <1>1, <1>6, <1>8, <3>1, <3>2
  <2>3. thread_hub'[Main] # NoHub
    BY <1>0, <1>2, MainAssumption, NamesAssumption DEF Apart
  <2>4. \A u, v \in Threads : \A n \in DOMAIN frames'[u], m \in DOMAIN frames'[v] :
             frames'[u][n].actor = frames'[v][m].actor => u = v
    BY <1>0, <1>1 DEF Apart
  <2> QED  BY <2>1, <2>2, <2>3, <2>4 DEF Apart
<1>10. Mirrored'
  <2>1. ASSUME NEW b \in Actors PROVE Stacked(b, layers'[b], own'[b], guards'[b])
    <3>1. Stacked(b, layers[b], own[b], guards[b])  BY <1>0 DEF Mirrored
    <3>2. CASE b = h
      <4>1. guards'[b] = <<>>  BY <1>1, <3>1, <3>2 DEF Stacked
      <4>2. layers'[b] = <<x>> /\ own'[b] = <<y>>  BY <1>6, <3>2
      <4>3. Stacked(b, <<x>>, <<y>>, <<>>)  BY <1>1 DEF Stacked
      <4> QED  BY <4>1, <4>2, <4>3
    <3>3. CASE b # h
      BY <1>1, <1>6, <3>1, <3>3
    <3> QED  BY <3>2, <3>3
  <2>2. ASSUME NEW u \in Threads, call'[u].op = "configure"
        PROVE  call'[u].scope = Top(call[u].hub)'.scope
    <3>1. call[u].op = "configure"  BY <1>1, <2>2
    <3>2. thread_hub[u] # NoHub /\ call[u].hub = Actor(u)  BY <3>1, InCall
    <3>3. Actor(u) \in Actors /\ layers[Actor(u)] # <<>>  BY <3>2, Running
    <3>4. layers'[call[u].hub] = layers[call[u].hub]  BY <1>1, <1>6, <3>2, <3>3
    <3>5. call[u].scope = Top(call[u].hub).scope  BY <1>0, <3>1 DEF Mirrored
    <3>6. Top(call[u].hub)' = Last(layers'[call'[u].hub])  BY DEF Top
    <3> QED  BY <1>1, <3>4, <3>5, <3>6 DEF Top
  <2>3. mixed' = {} /\ panicked' = {}  BY <1>0, <1>1 DEF Mirrored
  <2> QED  BY <2>1, <2>2, <2>3 DEF Mirrored
<1> QED  BY <1>5, <1>9, <1>10 DEF Inv

LEMMA FirstUseInv ==
  ASSUME Inv, NEW t \in Threads, FirstUse(t)
  PROVE  Inv'
<1>1. thread_hub[t] = NoHub /\ layers[t] = <<>> /\ t \in Actors
  BY DEF FirstUse, Inv, Apart, Actors
<1>2. PICK x : x = Top(Main)  OBVIOUS
<1>3. x \in Layer /\ x = Trimmed(x)
  <2>1. Main \in Actors /\ layers[Main] # <<>>
    BY MainAssumption DEF Inv, Apart, Actors
  <2>2. layers[Main] \in Seq(Layer) /\ own[Main] \in Seq(Layer)
        /\ Stacked(Main, layers[Main], own[Main], guards[Main])
    BY <2>1 DEF Inv, Typed, Mirrored, Hubs
  <2>3. PICK n \in DOMAIN layers[Main] : x = layers[Main][n] /\ n \in 1 .. Len(layers[Main])
    BY <1>2, <2>1, <2>2, LastFacts DEF Top
  <2>4. PICK y : y = own[Main][n]  OBVIOUS
  <2>5. x = Trimmed(y) /\ y \in Layer  BY <2>2, <2>3, <2>4 DEF Stacked
  <2> QED  BY <2>5, TrimType
<1>4. layers' = [layers EXCEPT ![t] = <<x>>] /\ own' = [own EXCEPT ![t] = <<x>>]
  BY <1>2 DEF FirstUse, NewFromTop
<1>5. /\ UNCHANGED <<guards, frames, call, app, mixed, panicked, last_event_id, slot, calls>>
      /\ thread_hub' = [thread_hub EXCEPT ![t] = t]
  BY DEF FirstUse
<1>6. Opens(t, x, x)
  BY <1>1, <1>3, <1>4, <1>5, KeepAll DEF Opens
<1> QED  BY <1>6, OpenStep

LEMMA SpawnInv ==
  ASSUME Inv, NEW t \in Threads, NEW f \in Tasks, Spawn(t, f)
  PROVE  Inv'
<1>0. PICK a : a = Actor(t)  OBVIOUS
<1>1. calls' \in 0 .. MaxCalls /\ thread_hub[t] # NoHub
  BY CallsBound DEF Spawn
<1>2. PICK y : y = Last(own[a])  OBVIOUS
<1>3. thread_hub[t] = a /\ y \in Layer /\ Top(a) = Trimmed(y)
  BY <1>0, <1>1, <1>2, Running
<1>4. /\ layers[f] = <<>>
      /\ layers' = [layers EXCEPT ![f] = <<Trimmed(y)>>] /\ own' = [own EXCEPT ![f] = <<y>>]
  BY <1>0, <1>2, <1>3 DEF Spawn, NewFromTop
<1>5. UNCHANGED <<guards, frames, call, app, mixed, panicked, last_event_id, slot, thread_hub>>
  BY DEF Spawn
<1>6. Opens(f, Trimmed(y), y)
  BY <1>1, <1>3, <1>4, <1>5 DEF Opens, Actors
<1> QED  BY <1>6, OpenStep

\* Thread t, in no call, goes on in the frames fs with hub h as the current one.
Chained(t, fs) ==
  \A n \in DOMAIN fs :
    LET below == IF n = 1 THEN t ELSE fs[n - 1].actor IN
    /\ fs[n].actor \in Tasks \cup {t} /\ layers[fs[n].actor] # <<>>
    /\ fs[n].inner = NoHub => fs[n].actor = below
    /\ fs[n].inner # NoHub => fs[n].inner = below
    /\ \A u \in Threads \ {t} : \A m \in DOMAIN frames[u] : frames[u][m].actor # fs[n].actor

Goes(t, fs, h) ==
  /\ thread_hub[t] # NoHub /\ call[t] = Idle
  /\ fs \in Seq(Frame) /\ Chained(t, fs)
  /\ h = IF fs = <<>> THEN t ELSE Last(fs).actor
  /\ frames' = [frames EXCEPT ![t] = fs] /\ thread_hub' = [thread_hub EXCEPT ![t] = h]
  /\ UNCHANGED <<layers, own, guards, call, app, mixed, panicked, last_event_id, slot>>
  /\ calls' \in 0 .. MaxCalls

LEMMA FramesStep ==
  ASSUME Inv, NEW t \in Threads, NEW fs, NEW h, Goes(t, fs, h)
  PROVE  Inv'
<1>0. Typed /\ Apart /\ Mirrored  BY DEF Inv
<1>1. /\ thread_hub[t] # NoHub /\ call[t] = Idle /\ fs \in Seq(Frame) /\ Chained(t, fs)
      /\ h = IF fs = <<>> THEN t ELSE Last(fs).actor
      /\ frames' = [frames EXCEPT ![t] = fs] /\ thread_hub' = [thread_hub EXCEPT ![t] = h]
      /\ layers' = layers /\ own' = own /\ guards' = guards /\ call' = call /\ app' = app
      /\ mixed' = mixed /\ panicked' = panicked /\ last_event_id' = last_event_id
      /\ slot' = slot /\ calls' \in 0 .. MaxCalls
  BY DEF Goes
<1>2. h \in Actors /\ h # NoHub
  <2>1. CASE fs = <<>>
    BY <1>1, <2>1, NamesAssumption DEF Actors
  <2>2. CASE fs # <<>>
    <3>1. Last(fs) \in Frame  BY <1>1, <2>2, LastFacts
    <3>2. Last(fs).actor \in Actors  BY <3>1 DEF Frame
    <3> QED  BY <1>1, <2>2, <3>2, NamesAssumption DEF Actors
  <2> QED  BY <2>1, <2>2
<1>3. Typed'
  <2>1. frames' \in [Threads -> Seq(Frame)] /\ thread_hub' \in [Threads -> Hubs \cup {NoHub}]
    BY <1>0, <1>1, <1>2 DEF Typed, Hubs
  <2> QED  BY <1>0, <1>1, <2>1 DEF Typed
<1>4. /\ frames'[t] = fs /\ thread_hub'[t] = h
      /\ \A u \in Threads : u # t => frames'[u] = frames[u] /\ thread_hub'[u] = thread_hub[u]
  BY <1>0, <1>1 DEF Typed
<1>5. \A u \in Threads : u # t => Actor(u)' = Actor(u)  BY <1>4 DEF Actor
<1>6. Actor(t)' = h  BY <1>1, <1>4 DEF Actor
<1>7. Apart'
  <2>1. ASSUME NEW u \in Threads
        PROVE  /\ thread_hub'[u] = NoHub => frames'[u] = <<>> /\ call'[u] = Idle /\ layers'[u] = <<>>
               /\ thread_hub'[u] # NoHub => thread_hub'[u] = Actor(u)' /\ layers'[u] # <<>>
               /\ call'[u].op \notin {"none", "close"} => call'[u].hub = Actor(u)'
    <3>1. CASE u # t
      BY <1>0, <1>1, <1>4, <1>5, <3>1 DEF Apart
    <3>2. CASE u = t
      <4>1. layers[t] # <<>>  BY <1>0, <1>1 DEF Apart
      <4> QED  BY <1>1, <1>2, <1>4, <1>6, <3>2, <4>1 DEF Idle
    <3> QED  BY <3>1, <3>2
  <2>2. ASSUME NEW u \in Threads, NEW n \in DOMAIN frames'[u]
        PROVE  /\ frames'[u][n].actor \in Tasks \cup {u}
               /\ layers'[frames'[u][n].actor] # <<>>
               /\ frames'[u][n].inner = NoHub => frames'[u][n].actor = Below(u, n)'
               /\ frames'[u][n].inner # NoHub => frames'[u][n].inner = Below(u, n)'
    <3>1. CASE u # t
      <4>1. Below(u, n)' = Below(u, n) /\ n \in DOMAIN frames[u]  BY <1>4, <3>1 DEF Below
      <4>2. /\ frames[u][n].actor \in Tasks \cup {u}
            /\ layers[frames[u][n].actor] # <<>>
            /\ frames[u][n].inner = NoHub => frames[u][n].actor = Below(u, n)
            /\ frames[u][n].inner # NoHub => frames[u][n].inner = Below(u, n)
        BY <1>0, <4>1 DEF Apart
      <4> QED  BY <1>1, <1>4, <3>1, <4>1, <4>2
    <3>2. CASE u = t
      <4>1. Below(u, n)' = (IF n = 1 THEN t ELSE fs[n - 1].actor) /\ n \in DOMAIN fs
        BY <1>4, <3>2 DEF Below
      <4>2. /\ fs[n].actor \in Tasks \cup {t} /\ layers[fs[n].actor] # <<>>
            /\ fs[n].inner = NoHub => fs[n].actor = IF n = 1 THEN t ELSE fs[n - 1].actor
            /\ fs[n].inner # NoHub => fs[n].inner = IF n = 1 THEN t ELSE fs[n - 1].actor
        BY <1>1, <4>1 DEF Chained
      <4> QED  BY <1>1, <1>4, <3>2, <4>1, <4>2
    <3> QED  BY <3>1, <3>2
  <2>3. thread_hub'[Main] # NoHub
    BY <1>0, <1>2, <1>4, MainAssumption DEF Apart
  <2>4. ASSUME NEW u \in Threads, NEW v \in Threads,
               NEW n \in DOMAIN frames'[u], NEW m \in DOMAIN frames'[v],
               frames'[u][n].actor = frames'[v][m].actor
        PROVE  u = v
    <3>1. CASE u # t /\ v # t
      BY <1>0, <1>4, <2>4, <3>1 DEF Apart
    <3>2. CASE u = t /\ v # t
      BY <1>1, <1>4, <2>4, <3>2 DEF Chained
    <3>3. CASE u # t /\ v = t
      BY <1>1, <1>4, <2>4, <3>3 DEF Chained
    <3> QED  BY <3>1, <3>2, <3>3
  <2> QED  BY <2>1, <2>2, <2>3, <2>4 DEF Apart
<1>8. Mirrored'
  <2>1. ASSUME NEW b \in Actors PROVE Stacked(b, layers'[b], own'[b], guards'[b])
    BY <1>0, <1>1 DEF Mirrored
  <2>2. ASSUME NEW u \in Threads, call'[u].op = "configure"
        PROVE  call'[u].scope = Top(call[u].hub)'.scope
    <3>1. call[u].scope = Top(call[u].hub).scope  BY <1>0, <1>1, <2>2 DEF Mirrored
    <3>2. Top(call[u].hub)' = Last(layers'[call'[u].hub])  BY DEF Top
    <3> QED  BY <1>1, <3>1, <3>2 DEF Top
  <2>3. mixed' = {} /\ panicked' = {}  BY <1>0, <1>1 DEF Mirrored
  <2> QED  BY <2>1, <2>2, <2>3 DEF Mirrored
<1> QED  BY <1>3, <1>7, <1>8 DEF Inv
\* The code of the last frame is what runs.
LEMMA BelowFacts ==
  ASSUME Inv, NEW t \in Threads
  PROVE  /\ frames[t] \in Seq(Frame) /\ Len(frames[t]) \in Nat /\ DOMAIN frames[t] = 1 .. Len(frames[t])
         /\ Actor(t) = IF Len(frames[t]) = 0 THEN t ELSE frames[t][Len(frames[t])].actor
<1>1. frames[t] \in Seq(Frame)  BY DEF Inv, Typed
<1>2. Len(frames[t]) \in Nat /\ DOMAIN frames[t] = 1 .. Len(frames[t])
      /\ (frames[t] = <<>> <=> Len(frames[t]) = 0)
  BY <1>1
<1> QED  BY <1>1, <1>2, LastFacts DEF Actor

LEMMA SwitchInv ==
  ASSUME Inv, NEW t \in Threads, thread_hub[t] # NoHub, call[t] = Idle,
         NEW b \in Tasks \cup {t}, layers[b] # <<>>, SwitchTo(t, b, b),
         \A u \in Threads \ {t} : \A m \in DOMAIN frames[u] : frames[u][m].actor # b,
         UNCHANGED <<layers, own, guards, call, app, mixed, panicked, last_event_id, slot>>,
         calls' \in 0 .. MaxCalls
  PROVE  Inv'
<1>1. PICK a : a = Actor(t)  OBVIOUS
<1>2. thread_hub[t] = a /\ a \in Actors /\ a # NoHub
  BY <1>1, Running, NamesAssumption DEF Actors
<1>3. PICK k : k = Len(frames[t])  OBVIOUS
<1>4. /\ frames[t] \in Seq(Frame) /\ k \in Nat /\ DOMAIN frames[t] = 1 .. k
      /\ a = IF k = 0 THEN t ELSE frames[t][k].actor
  BY <1>1, <1>3, BelowFacts
<1>5. PICK fr : fr = [actor |-> b, inner |-> IF b = a THEN NoHub ELSE a, held |-> Len(guards[b])]
  OBVIOUS
<1>6. b \in Actors  BY DEF Actors
<1>7. fr \in Frame /\ fr.actor = b /\ fr.inner = IF b = a THEN NoHub ELSE a
  <2>1. Len(guards[b]) \in Nat  BY <1>6 DEF Inv, Typed
  <2> QED  BY <1>2, <1>5, <1>6, <2>1 DEF Frame, Hubs
<1>8. PICK fs : fs = Append(frames[t], fr)  OBVIOUS
<1>9. /\ fs \in Seq(Frame) /\ fs # <<>> /\ DOMAIN fs = 1 .. k + 1
      /\ fs[k + 1] = fr /\ Last(fs) = fr
  BY <1>3, <1>4, <1>7, <1>8, PushFacts
<1>10. \A n \in 1 .. k : fs[n] = frames[t][n]
  BY <1>3, <1>4, <1>7, <1>8, PushFacts
<1>11. ASSUME NEW n \in DOMAIN fs
       PROVE  LET below == IF n = 1 THEN t ELSE fs[n - 1].actor IN
              /\ fs[n].actor \in Tasks \cup {t} /\ layers[fs[n].actor] # <<>>
              /\ fs[n].inner = NoHub => fs[n].actor = below
              /\ fs[n].inner # NoHub => fs[n].inner = below
              /\ \A u \in Threads \ {t} : \A m \in DOMAIN frames[u] : frames[u][m].actor # fs[n].actor
  <2>1. CASE n \in 1 .. k
    <3>1. fs[n] = frames[t][n] /\ (n # 1 => fs[n - 1] = frames[t][n - 1])
      <4>1. n # 1 => n - 1 \in 1 .. k  BY <1>4, <2>1
      <4> QED  BY <1>10, <2>1, <4>1
    <3>2. (IF n = 1 THEN t ELSE fs[n - 1].actor) = Below(t, n)  BY <3>1 DEF Below
    <3>3. n \in DOMAIN frames[t]  BY <1>4, <2>1
    <3>4. /\ frames[t][n].actor \in Tasks \cup {t} /\ layers[frames[t][n].actor] # <<>>
          /\ frames[t][n].inner = NoHub => frames[t][n].actor = Below(t, n)
          /\ frames[t][n].inner # NoHub => frames[t][n].inner = Below(t, n)
      BY <3>3 DEF Inv, Apart
    <3>5. \A u \in Threads \ {t} : \A m \in DOMAIN frames[u] : frames[u][m].actor # frames[t][n].actor
      BY <3>3 DEF Inv, Apart
    <3> QED  BY <3>1, <3>2, <3>4, <3>5
  <2>2. CASE n = k + 1
    <3>1. (IF n = 1 THEN t ELSE fs[n - 1].actor) = a
      <4>1. CASE k = 0
        BY <1>4, <2>2, <4>1
      <4>2. CASE k # 0
        <5>1. n # 1 /\ n - 1 = k /\ k \in 1 .. k  BY <1>4, <2>2, <4>2
        <5> QED  BY <1>4, <1>10, <4>2, <5>1
      <4> QED  BY <4>1, <4>2
    <3> QED  BY <1>2, <1>7, <1>9, <2>2, <3>1
  <2> QED  BY <1>4, <1>9, <2>1, <2>2
<1>12. Chained(t, fs)  BY <1>11 DEF Chained
<1>13. /\ frames' = [frames EXCEPT ![t] = fs] /\ thread_hub' = [thread_hub EXCEPT ![t] = b]
       /\ b = IF fs = <<>> THEN t ELSE Last(fs).actor
  BY <1>2, <1>5, <1>7, <1>8, <1>9 DEF SwitchTo
<1>14. Goes(t, fs, b)
  BY <1>9, <1>12, <1>13 DEF Goes
<1> QED  BY <1>14, FramesStep

LEMMA PollInv ==
  ASSUME Inv, NEW t \in Threads, NEW f \in Tasks, Poll(t, f)
  PROVE  Inv'
<1>1. /\ layers[f] # <<>> /\ ~Polled(f) /\ call[t] = Idle /\ thread_hub[t] # NoHub
      /\ SwitchTo(t, f, f)
      /\ UNCHANGED <<layers, own, guards, call, app, mixed, panicked, last_event_id, slot, calls>>
  BY DEF Poll, history
<1>2. \A u \in Threads \ {t} : \A m \in DOMAIN frames[u] : frames[u][m].actor # f
  BY <1>1, BelowFacts DEF Polled
<1>3. calls' \in 0 .. MaxCalls  BY <1>1, KeepAll
<1> HIDE DEF Inv
<1> QED  BY <1>1, <1>2, <1>3, SwitchInv

LEMMA RunHereInv ==
  ASSUME Inv, NEW t \in Threads, RunHere(t)
  PROVE  Inv'
<1>1. calls' \in 0 .. MaxCalls /\ call[t] = Idle /\ thread_hub[t] # NoHub
  BY CallsBound DEF RunHere
<1>2. PICK a : a = Actor(t)  OBVIOUS
<1>3. a \in Tasks \cup {t} /\ a = thread_hub[t] /\ layers[a] # <<>>
  BY <1>1, <1>2, Running, ActorsApart DEF Inv
<1>4. /\ SwitchTo(t, a, a)
      /\ UNCHANGED <<layers, own, guards, call, app, mixed, panicked, last_event_id, slot>>
  BY <1>2, <1>3 DEF RunHere, history
<1>5. \A u \in Threads \ {t} : \A m \in DOMAIN frames[u] : frames[u][m].actor # a
  <2> SUFFICES ASSUME NEW u \in Threads \ {t}, NEW m \in DOMAIN frames[u], frames[u][m].actor = a
               PROVE  FALSE
    OBVIOUS
  <2>1. a \in Tasks \cup {u}  BY DEF Inv, Apart
  <2>2. a \in Tasks /\ a # t  BY <1>3, <2>1, NamesAssumption
  <2>3. Len(frames[t]) \in DOMAIN frames[t] /\ frames[t][Len(frames[t])].actor = a
    BY <1>2, <2>2, BelowFacts
  <2> QED  BY <2>3 DEF Inv, Apart
<1> QED  BY <1>1, <1>3, <1>4, <1>5, SwitchInv

\* Whoever leaves a frame finds the hub of the code below as the current one.
LEMMA LeaveInv ==
  ASSUME Inv, NEW t \in Threads, Leave(t)
  PROVE  Inv'
<1>1. frames[t] # <<>> /\ call[t] = Idle  BY DEF Leave
<1>2. thread_hub[t] # NoHub  BY <1>1 DEF Inv, Apart
<1>3. PICK a : a = Actor(t)  OBVIOUS
<1>4. thread_hub[t] = a  BY <1>2, <1>3, Running
<1>5. PICK k : k = Len(frames[t])  OBVIOUS
<1>6. /\ frames[t] \in Seq(Frame) /\ k \in Nat \ {0} /\ DOMAIN frames[t] = 1 .. k
      /\ a = frames[t][k].actor /\ Last(frames[t]) = frames[t][k]
  BY <1>1, <1>3, <1>5, BelowFacts, LastFacts
<1>7. PICK fs : fs = Front(frames[t])  OBVIOUS
<1>8. /\ fs \in Seq(Frame) /\ Len(fs) = k - 1 /\ (fs = <<>> <=> k = 1)
  BY <1>1, <1>5, <1>6, <1>7, PopFacts
<1>9. DOMAIN fs = 1 .. k - 1 /\ \A n \in 1 .. k - 1 : fs[n] = frames[t][n]
  <2>1. \A n \in 1 .. k - 1 : fs[n] = frames[t][n]  BY <1>1, <1>5, <1>6, <1>7, PopFacts
  <2> QED  BY <1>8, <2>1
<1>10. ASSUME NEW n \in DOMAIN fs
       PROVE  LET below == IF n = 1 THEN t ELSE fs[n - 1].actor IN
              /\ fs[n].actor \in Tasks \cup {t} /\ layers[fs[n].actor] # <<>>
              /\ fs[n].inner = NoHub => fs[n].actor = below
              /\ fs[n].inner # NoHub => fs[n].inner = below
              /\ \A u \in Threads \ {t} : \A m \in DOMAIN frames[u] : frames[u][m].actor # fs[n].actor
  <2>1. fs[n] = frames[t][n] /\ (n # 1 => fs[n - 1] = frames[t][n - 1])
    <3>1. n # 1 => n - 1 \in 1 .. k - 1  BY <1>6, <1>9
    <3> QED  BY <1>9, <3>1
  <2>2. (IF n = 1 THEN t ELSE fs[n - 1].actor) = Below(t, n)  BY <2>1 DEF Below
  <2>3. n \in DOMAIN frames[t]  BY <1>6, <1>9
  <2>4. /\ frames[t][n].actor \in Tasks \cup {t} /\ layers[frames[t][n].actor] # <<>>
        /\ frames[t][n].inner = NoHub => frames[t][n].actor = Below(t, n)
        /\ frames[t][n].inner # NoHub => frames[t][n].inner = Below(t, n)
    BY <2>3 DEF Inv, Apart
  <2>5. \A u \in Threads \ {t} : \A m \in DOMAIN frames[u] : frames[u][m].actor # frames[t][n].actor
    BY <2>3 DEF Inv, Apart
  <2> QED  BY <2>1, <2>2, <2>4, <2>5
<1>11. Chained(t, fs)  BY <1>10 DEF Chained
<1>12. PICK h : h = SwapBack(t, frames[t][k].inner)  OBVIOUS
<1>13. h = IF fs = <<>> THEN t ELSE Last(fs).actor
  <2>1. k \in DOMAIN frames[t]  BY <1>6
  <2>2. /\ frames[t][k].inner = NoHub => a = Below(t, k)
        /\ frames[t][k].inner # NoHub => frames[t][k].inner = Below(t, k)
    BY <1>6, <2>1 DEF Inv, Apart
  <2>3. h = Below(t, k)  BY <1>4, <1>12, <2>2 DEF SwapBack
  <2>4. CASE k = 1
    BY <1>8, <2>3, <2>4 DEF Below
  <2>5. CASE k # 1
    <3>1. k - 1 \in 1 .. k - 1 /\ fs # <<>>  BY <1>6, <1>8, <2>5
    <3>2. Last(fs) = fs[k - 1]  BY <1>8, <3>1, LastFacts
    <3>3. Last(fs) = frames[t][k - 1]  BY <1>9, <3>1, <3>2
    <3> QED  BY <2>3, <2>5, <3>1, <3>3 DEF Below
  <2> QED  BY <2>4, <2>5
<1>14. /\ frames' = [frames EXCEPT ![t] = fs] /\ thread_hub' = [thread_hub EXCEPT ![t] = h]
       /\ UNCHANGED <<layers, own, guards, call, app, mixed, panicked, last_event_id, slot, calls>>
  BY <1>6, <1>7, <1>12 DEF Leave, history
<1>15. Goes(t, fs, h)
  BY <1>1, <1>2, <1>8, <1>11, <1>13, <1>14, KeepAll DEF Goes
<1> QED  BY <1>15, FramesStep

-----------------------------------------------------------------------------
(* The theorems.                                                           *)

LEMMA InitInv == Init => Inv
<1> SUFFICES ASSUME Init PROVE Inv
  OBVIOUS
<1>1. PICK c \in Clients :
        layers = [h \in Hubs |-> IF h = Main THEN <<[client |-> c, scope |-> EmptyScope]>> ELSE <<>>]
  BY DEF Init
<1>2. PICK l : l = [client |-> c, scope |-> EmptyScope]  OBVIOUS
<1>3. l = L(c, {}, <<>>)  BY <1>2 DEF L, EmptyScope
<1>4. l \in Layer /\ Trimmed(l) = l
  <2>1. Newest(<<>>, MaxBreadcrumbs) = <<>>  BY BoundsAssumption DEF Newest
  <2>2. <<>> \in Seq(Actors)  OBVIOUS
  <2> QED  BY <1>3, <2>1, <2>2, TrimForm, LayerType
<1>5. layers = [h \in Hubs |-> IF h = Main THEN <<l>> ELSE <<>>] /\ own = layers
  BY <1>1, <1>2 DEF Init
<1>6. Main \in Threads /\ Main # NoHub /\ Main \in Actors /\ Threads \subseteq Actors
  BY MainAssumption, NamesAssumption DEF Actors
<1>7. /\ last_event_id = [h \in Hubs |-> NoHub]
      /\ thread_hub = [t \in Threads |-> IF t = Main THEN Main ELSE NoHub]
      /\ frames = [t \in Threads |-> <<>>]
      /\ guards = [a \in Actors |-> <<>>]
      /\ call = [t \in Threads |-> Idle]
      /\ slot = Clients /\ calls = 0 /\ app \in Apps /\ mixed = {} /\ panicked = {}
  BY DEF Init
<1>8. Typed
  <2>1. <<l>> \in Seq(Layer) /\ <<>> \in Seq(Layer) /\ <<>> \in Seq(Frame) /\ <<>> \in Seq(Guard)
    BY <1>4
  <2>2. layers \in [Hubs -> Seq(Layer)] /\ own \in [Hubs -> Seq(Layer)]  BY <1>5, <2>1
  <2>3. thread_hub \in [Threads -> Hubs \cup {NoHub}]  BY <1>6, <1>7 DEF Hubs
  <2>4. call \in [Threads -> CallType]  BY <1>7, IdleType
  <2>5. calls \in 0 .. MaxCalls  BY <1>7, BoundsAssumption
  <2> QED  BY <1>7, <2>1, <2>2, <2>3, <2>4, <2>5 DEF Typed
<1>9. Apart
  <2>1. \A t \in Threads : frames[t] = <<>> /\ call[t] = Idle /\ Actor(t) = t
                           /\ DOMAIN frames[t] = {}
    BY <1>7 DEF Actor
  <2>2. \A t \in Threads : layers[t] = IF t = Main THEN <<l>> ELSE <<>>
    BY <1>5, <1>6 DEF Hubs
  <2>3. thread_hub[Main] # NoHub  BY <1>6, <1>7
  <2>4. ASSUME NEW t \in Threads
        PROVE  /\ thread_hub[t] = NoHub => layers[t] = <<>>
               /\ thread_hub[t] # NoHub => thread_hub[t] = t /\ layers[t] # <<>>
    BY <1>6, <1>7, <2>2
  <2>5. Idle.op = "none"  BY IdleType
  <2> QED  BY <2>1, <2>3, <2>4, <2>5 DEF Apart
<1>10. Mirrored
  <2>1. ASSUME NEW a \in Actors PROVE Stacked(a, layers[a], own[a], guards[a])
    <3>1. guards[a] = <<>> /\ own[a] = layers[a]  BY <1>5, <1>7
    <3>2. CASE a = Main
      <4>1. layers[a] = <<l>>  BY <1>5, <3>2 DEF Hubs
      <4>2. Stacked(a, <<l>>, <<l>>, <<>>)  BY <1>4 DEF Stacked
      <4> QED  BY <3>1, <4>1, <4>2
    <3>3. CASE a # Main
      <4>1. layers[a] = <<>>  BY <1>5, <3>3 DEF Hubs
      <4>2. Stacked(a, <<>>, <<>>, <<>>)  BY DEF Stacked
      <4> QED  BY <3>1, <4>1, <4>2
    <3> QED  BY <3>2, <3>3
  <2>2. \A t \in Threads : call[t].op # "configure"  BY <1>7 DEF Idle
  <2> QED  BY <1>7, <2>1, <2>2 DEF Mirrored
<1> QED  BY <1>8, <1>9, <1>10 DEF Inv

LEMMA StutterInv ==
  ASSUME Inv, UNCHANGED vars
  PROVE  Inv'
<1>1. Typed'  BY DEF Inv, vars, Typed
<1>2. \A t \in Threads : Actor(t)' = Actor(t)  BY DEF vars, Actor
<1>3. \A t \in Threads : \A n : Below(t, n)' = Below(t, n)  BY DEF vars, Below
<1>4. Apart'  BY <1>2, <1>3 DEF Inv, vars, Apart
<1>5. \A t \in Threads : Top(call[t].hub)' = Top(call[t].hub)  BY DEF vars, Top
<1>6. Mirrored'  BY <1>5 DEF Inv, vars, Mirrored
<1> QED  BY <1>1, <1>4, <1>6 DEF Inv

LEMMA StepInv == Inv /\ [Next]_vars => Inv'
<1> SUFFICES ASSUME Inv, [Next]_vars PROVE Inv'
  OBVIOUS
<1> HIDE DEF Inv
<1>1. CASE UNCHANGED vars
  BY <1>1, StutterInv
<1>2. CASE Done
  BY <1>2, StutterInv DEF Done
<1>3. ASSUME NEW t \in Threads,
             \/ FirstUse(t) \/ \E f \in Tasks : Spawn(t, f) \/ Poll(t, f)
             \/ RunHere(t) \/ Leave(t) \/ DropScopeGuard(t) \/ Nested(t)
             \/ Start(t) \/ Finish(t)
      PROVE  Inv'
  <2>1. CASE FirstUse(t)                        BY <2>1, FirstUseInv
  <2>2. CASE \E f \in Tasks : Spawn(t, f)       BY <2>2, SpawnInv
  <2>3. CASE \E f \in Tasks : Poll(t, f)        BY <2>3, PollInv
  <2>4. CASE RunHere(t)                         BY <2>4, RunHereInv
  <2>5. CASE Leave(t)                           BY <2>5, LeaveInv
  <2>6. CASE DropScopeGuard(t)                  BY <2>6, DropScopeGuardInv
  <2>7. CASE Nested(t) \/ NestedEnd(t)          BY <2>7, NestingInv
  <2>8. CASE PushScope(t)                       BY <2>8, PushScopeInv
  <2>9. CASE ConfigureScope(t)                  BY <2>9, ConfigureScopeInv
  <2>10. CASE AddBreadcrumb(t)                  BY <2>10, AddBreadcrumbInv
  <2>11. CASE \E op \in Captures : CaptureEvent(t, op)
    BY <2>11, CaptureEventInv
  <2>12. CASE \E c \in Clients \cup {NoClient} : BindClient(t, c)
    BY <2>12, BindClientInv
  <2>13. CASE \E c \in Clients : Close(t, c)    BY <2>13, CloseInv
  <2>14. CASE ConfigureScopeEnd(t)              BY <2>14, ConfigureScopeEndInv
  <2>15. CASE AddBreadcrumbEnd(t)               BY <2>15, AddBreadcrumbEndInv
  <2>16. CASE CaptureEventEnd(t)                BY <2>16, CaptureEventEndInv
  <2>17. CASE CloseEnd(t)                       BY <2>17, CloseEndInv
  <2> QED
    BY <1>3, <2>1, <2>2, <2>3, <2>4, <2>5, <2>6, <2>7, <2>8, <2>9, <2>10, <2>11, <2>12, <2>13,
       <2>14, <2>15, <2>16, <2>17 DEF Start, Finish
<1> QED  BY <1>1, <1>2, <1>3 DEF Next

LEMMA InvAlways == Spec => []Inv
<1>1. Init => Inv  BY InitInv
<1>2. Inv /\ [Next]_vars => Inv'  BY StepInv
<1> QED  BY <1>1, <1>2, PTL DEF Spec

\* No layer of any hub ever holds more than max_breadcrumbs breadcrumbs, and every
\* variable has its type (hub.rs add_breadcrumb).
THEOREM TypeCorrect == Spec => []TypeOK
<1>1. Inv => TypeOK
  <2> SUFFICES ASSUME Inv, NEW h \in Hubs, NEW n \in 1 .. Len(layers[h])
               PROVE  Len(layers[h][n].scope.breadcrumbs) <= MaxBreadcrumbs
    BY DEF TypeOK, Inv
  <2>1. layers[h] \in Seq(Layer) /\ own[h] \in Seq(Layer) /\ Stacked(h, layers[h], own[h], guards[h])
    BY DEF Inv, Typed, Mirrored, Hubs
  <2>2. n \in DOMAIN layers[h] /\ n \in 1 .. Len(own[h])  BY <2>1 DEF Stacked
  <2>3. own[h][n] \in Layer /\ layers[h][n] = Trimmed(own[h][n])  BY <2>1, <2>2 DEF Stacked
  <2> QED  BY <2>3, TrimType
<1> QED  BY <1>1, InvAlways, PTL

\* Whatever threads poll a task, whatever is pushed, configured and called back in
\* between, its events are made from its own scope, no scope guard pops another's
\* layer and the current hub is the one of the code that runs (hub.rs
\* capture_event, scope/real.rs ScopeGuard::drop, hub_impl.rs SwitchGuard::drop).
THEOREM ScopesKeptApart == Spec => [](Apart /\ Mirrored /\ EventsUnmixed /\ GuardsInOrder)
<1>1. Inv => EventsUnmixed /\ GuardsInOrder
  <2> SUFFICES ASSUME Inv PROVE EventsUnmixed /\ GuardsInOrder
    OBVIOUS
  <2>1. CurrentHub  BY DEF Inv, Apart, CurrentHub
  <2>2. ASSUME NEW a \in Actors, NEW n \in 1 .. Len(guards[a])
        PROVE  guards[a][n].depth = n /\ guards[a][n].hub = a /\ Len(layers[a]) = Len(guards[a]) + 1
    <3>1. guards[a] \in Seq(Guard) /\ Stacked(a, layers[a], own[a], guards[a])
      BY DEF Inv, Typed, Mirrored
    <3>2. n \in DOMAIN guards[a] /\ guards[a] # <<>>  BY <3>1
    <3>3. guards[a][n] = [hub |-> a, depth |-> n] /\ Len(layers[a]) = Len(guards[a]) + 1
      BY <3>1, <3>2 DEF Stacked
    <3> QED  BY <3>3
  <2> QED  BY <2>1, <2>2 DEF EventsUnmixed, GuardsInOrder, Inv, Mirrored
<1>2. Inv => Apart /\ Mirrored  BY DEF Inv
<1> QED  BY <1>1, <1>2, InvAlways, PTL

\* The events of a task are made from what that task configured and added, and
\* from nobody else's scope, on whatever thread it is polled (hub.rs capture_event,
\* configure_scope, add_breadcrumb; futures.rs poll).
THEOREM EventsStayUnmixed == Spec => []EventsUnmixed
BY ScopesKeptApart, PTL
=============================================================================
