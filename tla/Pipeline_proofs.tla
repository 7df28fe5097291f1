--------------------------- MODULE Pipeline_proofs ---------------------------
(***************************************************************************)
(* Theorems about Pipeline.  Everything a call passes through is a fold:   *)
(* over the items of an envelope, the integrations, the setters.  Each     *)
(* kind of fold is an instance of the lemmas of Folds_proofs, with an      *)
(* invariant of its own.                                                   *)
(***************************************************************************)
EXTENDS Pipeline, FiniteSetTheorems, SequenceTheorems, TLAPS

-----------------------------------------------------------------------------
(* The rate limiter *)

\* The answers an application's transport gets are a behaviour of the rate
\* limiter, of which LimitsObeyed (Sending_proofs) says that LimitsAsAsked holds.
THEOREM LimiterWorks == Spec => LimiterSpec
<1>1. Init => LimiterInit  BY DEF Init
<1>2. [Next]_vars => [LimiterNext]_limiterVars  BY DEF Next, vars
<1> QED  BY <1>1, <1>2, PTL DEF Spec, LimiterSpec

-----------------------------------------------------------------------------
(* Sequences of anything *)

\* One element more, and a sequence in front.
LEMMA ConcatAppend ==
  ASSUME NEW S, NEW s \in Seq(S), NEW t \in Seq(S), NEW x \in S
  PROVE  /\ s \o Append(t, x) = Append(s \o t, x)
         /\ s \o t \in Seq(S) /\ Append(t, x) \in Seq(S) /\ Append(s \o t, x) \in Seq(S)
<1>1. PICK v \in Seq(S) : v = s \o t
  <2>1. s \o t \in Seq(S)  OBVIOUS
  <2> QED  BY <2>1, Zenon
<1>2. s \o Append(t, x) = Append(v, x)  BY <1>1
<1>3. Append(t, x) \in Seq(S) /\ Append(v, x) \in Seq(S)  OBVIOUS
<1> QED  BY <1>1, <1>2, <1>3, Zenon

\* A sequence is a function of its indices.
LEMMA IndexedBy ==
  ASSUME NEW s, IsSeq(s)
  PROVE  Len(s) \in Nat /\ DOMAIN s = 1 .. Len(s)
<1>1. PICK n \in Nat : n = Len(s)  BY DEF IsSeq
<1>2. s = [i \in 1 .. n |-> s[i]]  BY <1>1, Zenon DEF IsSeq
<1>3. DOMAIN s = 1 .. n  BY <1>2, Zenon
<1> QED  BY <1>1, <1>3

\* A sequence over some set is a sequence.
LEMMA SeqIsSeq ==
  ASSUME NEW S, NEW s \in Seq(S)
  PROVE  IsSeq(s)
<1>1. Len(s) \in Nat /\ s = [i \in 1 .. Len(s) |-> s[i]]  OBVIOUS
<1> QED  BY <1>1 DEF IsSeq

\* Sequences share a set with one element more.
LEMMA Common ==
  ASSUME NEW s, IsSeq(s), NEW t, IsSeq(t), NEW x
  PROVE  \E S : s \in Seq(S) /\ t \in Seq(S) /\ x \in S
<1>1. PICK m \in Nat, n \in Nat : m = Len(s) /\ n = Len(t)  BY DEF IsSeq
<1>2. s = [i \in 1 .. m |-> s[i]] /\ t = [i \in 1 .. n |-> t[i]]  BY <1>1, Zenon DEF IsSeq
<1>3. PICK S : S = { s[i] : i \in 1 .. m } \cup { t[i] : i \in 1 .. n } \cup {x}  OBVIOUS
<1>4. (\A i \in 1 .. m : s[i] \in S) /\ (\A i \in 1 .. n : t[i] \in S) /\ x \in S  BY <1>3
<1>5. [i \in 1 .. m |-> s[i]] \in Seq(S) /\ [i \in 1 .. n |-> t[i]] \in Seq(S)  BY <1>4
<1> QED  BY <1>2, <1>4, <1>5, Zenon

\* One element more.
LEMMA AppendIsSeq ==
  ASSUME NEW s, IsSeq(s), NEW x
  PROVE  /\ IsSeq(Append(s, x)) /\ Append(s, x) # <<>>
         /\ Len(Append(s, x)) = Len(s) + 1 /\ DOMAIN Append(s, x) = 1 .. Len(s) + 1 /\ Len(s) \in Nat
         /\ Append(s, x)[Len(s) + 1] = x
         /\ \A i \in 1 .. Len(s) : Append(s, x)[i] = s[i]
<1>1. PICK S : s \in Seq(S) /\ x \in S  BY Common
<1>2. Append(s, x) \in Seq(S)  BY <1>1
<1>3. IsSeq(Append(s, x))  BY <1>2, SeqIsSeq
<1> QED  BY <1>1, <1>3

\* A sequence behind another.
LEMMA ConcatIsSeq ==
  ASSUME NEW s, IsSeq(s), NEW t, IsSeq(t)
  PROVE  /\ IsSeq(s \o t) /\ Len(s \o t) = Len(s) + Len(t) /\ Len(s) \in Nat /\ Len(t) \in Nat
         /\ DOMAIN (s \o t) = 1 .. Len(s) + Len(t)
         /\ \A i \in 1 .. Len(s) : (s \o t)[i] = s[i]
         /\ \A i \in 1 .. Len(t) : (s \o t)[Len(s) + i] = t[i]
<1>1. PICK S : s \in Seq(S) /\ t \in Seq(S)  BY Common
<1>2. s \o t \in Seq(S)  BY <1>1
<1>3. IsSeq(s \o t)  BY <1>2, SeqIsSeq
<1>4. Len(s \o t) = Len(s) + Len(t) /\ Len(s) \in Nat /\ Len(t) \in Nat  BY <1>1
<1>5. \A i \in 1 .. Len(s \o t) : (s \o t)[i] = IF i <= Len(s) THEN s[i] ELSE t[i - Len(s)]
  BY <1>1, ConcatProperties
<1>6. DOMAIN (s \o t) = 1 .. Len(s) + Len(t)  BY <1>2, <1>4
<1>7. \A i \in 1 .. Len(s) : (s \o t)[i] = s[i]  BY <1>4, <1>5
<1>8. \A i \in 1 .. Len(t) : (s \o t)[Len(s) + i] = t[i]
  <2> TAKE i \in 1 .. Len(t)
  <2>1. Len(s) + i \in 1 .. Len(s \o t) /\ ~ (Len(s) + i <= Len(s)) /\ Len(s) + i - Len(s) = i  BY <1>4
  <2> QED  BY <1>5, <2>1
<1> QED  BY <1>3, <1>4, <1>6, <1>7, <1>8

\* The shortest sequences.
LEMMA EmptyIsSeq == IsSeq(<<>>) /\ \A x : IsSeq(<<x>>)
<1>1. IsSeq(<<>>)  BY SMT DEF IsSeq
<1>2. ASSUME NEW x PROVE IsSeq(<<x>>)
  <2>1. <<x>> \in Seq({x})  OBVIOUS
  <2> QED  BY <2>1, SeqIsSeq
<1> QED  BY <1>1, <1>2

\* Nothing behind, and one element behind.
LEMMA ConcatOne ==
  ASSUME NEW s, IsSeq(s), NEW x
  PROVE  s \o <<>> = s /\ <<>> \o s = s /\ s \o <<x>> = Append(s, x)
<1>1. PICK S : s \in Seq(S) /\ x \in S  BY Common
<1> QED  BY <1>1

\* Three sequences may be joined in either order.
LEMMA ConcatAssoc ==
  ASSUME NEW s, IsSeq(s), NEW t, IsSeq(t), NEW u, IsSeq(u)
  PROVE  (s \o t) \o u = s \o (t \o u)
<1>1. IsSeq(t \o u) /\ IsSeq(s \o t)  BY ConcatIsSeq
<1>2. PICK S : s \in Seq(S) /\ t \o u \in Seq(S)  BY <1>1, Common
<1>3. PICK T : t \in Seq(T) /\ u \in Seq(T)  BY Common
<1>4. PICK V : V = S \cup T  OBVIOUS
<1>5. s \in Seq(V) /\ t \in Seq(V) /\ u \in Seq(V)
  <2>1. S \subseteq V /\ T \subseteq V  BY <1>4
  <2>2. s \in Seq(V)  BY <1>2, <2>1
  <2>3. t \in Seq(V) /\ u \in Seq(V)  BY <1>3, <2>1
  <2> QED  BY <2>2, <2>3
<1>6. PICK a \in Seq(V), b \in Seq(V) : a = s \o t /\ b = t \o u
  <2>1. s \o t \in Seq(V)  BY <1>5
  <2>2. t \o u \in Seq(V)  BY <1>5
  <2> QED  BY <2>1, <2>2, Zenon
<1>7. PICK l \in Nat, m \in Nat, n \in Nat : l = Len(s) /\ m = Len(t) /\ n = Len(u)  BY <1>5
<1>8. /\ Len(a) = l + m /\ \A i \in 1 .. l + m : a[i] = IF i <= l THEN s[i] ELSE t[i - l]
      /\ Len(b) = m + n /\ \A i \in 1 .. m + n : b[i] = IF i <= m THEN t[i] ELSE u[i - m]
  <2>1. Len(s \o t) = l + m /\ Len(t \o u) = m + n  BY <1>5, <1>7, ConcatProperties
  <2>2. \A i \in 1 .. Len(s \o t) : (s \o t)[i] = IF i <= Len(s) THEN s[i] ELSE t[i - Len(s)]
    BY <1>5, ConcatProperties
  <2>3. \A i \in 1 .. Len(t \o u) : (t \o u)[i] = IF i <= Len(t) THEN t[i] ELSE u[i - Len(t)]
    BY <1>5, ConcatProperties
  <2> QED  BY <1>6, <1>7, <2>1, <2>2, <2>3
<1>9. PICK c \in Seq(V), d \in Seq(V) : c = a \o u /\ d = s \o b
  <2>1. a \o u \in Seq(V) /\ s \o b \in Seq(V)  BY <1>5
  <2> QED  BY <2>1, Zenon
<1>10. /\ Len(c) = l + m + n /\ \A i \in 1 .. l + m + n : c[i] = IF i <= l + m THEN a[i] ELSE u[i - (l + m)]
       /\ Len(d) = l + (m + n) /\ \A i \in 1 .. l + (m + n) : d[i] = IF i <= l THEN s[i] ELSE b[i - l]
  <2>1. Len(a \o u) = l + m + n /\ Len(s \o b) = l + (m + n)
    <3>1. Len(a \o u) = Len(a) + Len(u)  BY <1>5, ConcatProperties
    <3>2. Len(s \o b) = Len(s) + Len(b)  BY <1>5, ConcatProperties
    <3> QED  BY <1>7, <1>8, <3>1, <3>2
  <2>2. \A i \in 1 .. Len(a \o u) : (a \o u)[i] = IF i <= Len(a) THEN a[i] ELSE u[i - Len(a)]
    BY <1>5, ConcatProperties
  <2>3. \A i \in 1 .. Len(s \o b) : (s \o b)[i] = IF i <= Len(s) THEN s[i] ELSE b[i - Len(s)]
    BY <1>5, ConcatProperties
  <2> QED  BY <1>7, <1>8, <1>9, <2>1, <2>2, <2>3
<1>11. Len(c) = Len(d) /\ \A i \in 1 .. Len(c) : c[i] = d[i]
  <2>1. Len(c) = Len(d) /\ Len(c) = l + m + n  BY <1>10
  <2>2. ASSUME NEW i \in 1 .. l + m + n PROVE c[i] = d[i]
    <3>1. CASE i <= l
      <4>1. i \in 1 .. l + m /\ i \in 1 .. l + (m + n)  BY <3>1
      <4>2. d[i] = s[i] /\ c[i] = a[i] /\ a[i] = s[i]  BY <1>8, <1>10, <3>1, <4>1
      <4> QED  BY <4>2
    <3>2. CASE ~ (i <= l) /\ i <= l + m
      <4>1. i \in 1 .. l + m /\ i \in 1 .. l + (m + n) /\ i - l \in 1 .. m + n /\ i - l <= m  BY <3>2
      <4> QED  BY <1>8, <1>10, <3>2, <4>1
    <3>3. CASE ~ (i <= l + m)
      <4>1. i \in 1 .. l + (m + n) /\ i - l \in 1 .. m + n /\ ~ (i - l <= m) /\ ~ (i <= l)
            /\ i - (l + m) = (i - l) - m
        BY <3>3
      <4> QED  BY <1>8, <1>10, <3>3, <4>1
    <3> QED  BY <3>1, <3>2, <3>3
  <2> QED  BY <2>1, <2>2
<1>12. c = d  BY <1>11, SeqEqual
<1> QED  BY <1>6, <1>9, <1>12

\* The elements of a sequence with one element more.
LEMMA ToSetAppend ==
  ASSUME NEW S, NEW s \in Seq(S), NEW x \in S
  PROVE  ToSet(Append(s, x)) = ToSet(s) \cup {x}
<1>1. DOMAIN Append(s, x) = (1 .. Len(s)) \cup {Len(s) + 1} /\ DOMAIN s = 1 .. Len(s)  OBVIOUS
<1>2. \A i \in 1 .. Len(s) : Append(s, x)[i] = s[i]  OBVIOUS
<1>3. Append(s, x)[Len(s) + 1] = x  OBVIOUS
<1> QED  BY <1>1, <1>2, <1>3, Zenon DEF ToSet

\* The elements of a concatenation, and of one element more.
LEMMA ToSetConcat ==
  ASSUME NEW s, IsSeq(s), NEW t, IsSeq(t), NEW x
  PROVE  ToSet(s \o t) = ToSet(s) \cup ToSet(t) /\ ToSet(Append(s, x)) = ToSet(s) \cup {x}
<1>1. ToSet(s \o t) = ToSet(s) \cup ToSet(t)
  <2>1. PICK m \in Nat, n \in Nat : m = Len(s) /\ n = Len(t)  BY DEF IsSeq
  <2>2. DOMAIN s = 1 .. m /\ DOMAIN t = 1 .. n  BY <2>1, IndexedBy
  <2>3. PICK v : v = s \o t  OBVIOUS
  <2>4. DOMAIN v = 1 .. m + n /\ (\A i \in 1 .. m : v[i] = s[i]) /\ (\A i \in 1 .. n : v[m + i] = t[i])
    BY <2>1, <2>3, ConcatIsSeq
  <2>5. \A i \in 1 .. m + n : i \in 1 .. m \/ (i - m \in 1 .. n /\ m + (i - m) = i)  OBVIOUS
  <2>6. \A i \in 1 .. n : m + i \in 1 .. m + n  OBVIOUS
  <2>7. \A i \in 1 .. m : i \in 1 .. m + n  OBVIOUS
  <2>8. \A i \in 1 .. m + n : (\E j \in 1 .. m : v[i] = s[j]) \/ (\E j \in 1 .. n : v[i] = t[j])
    BY <2>4, <2>5
  <2>9. (\A i \in 1 .. m : \E j \in 1 .. m + n : v[j] = s[i]) /\ (\A i \in 1 .. n : \E j \in 1 .. m + n : v[j] = t[i])
    BY <2>4, <2>6, <2>7
  <2>10. ToSet(v) = { v[i] : i \in 1 .. m + n }  BY <2>4 DEF ToSet
  <2>11. ToSet(s) = { s[i] : i \in 1 .. m } /\ ToSet(t) = { t[i] : i \in 1 .. n }  BY <2>2 DEF ToSet
  <2> QED  BY <2>3, <2>8, <2>9, <2>10, <2>11, ZenonT(120)
<1>2. ToSet(Append(s, x)) = ToSet(s) \cup {x}
  <2>1. PICK S : s \in Seq(S) /\ x \in S  BY Common
  <2> QED  BY <2>1, ToSetAppend
<1> QED  BY <1>1, <1>2
-----------------------------------------------------------------------------
(* The items of envelopes *)

Filtered(type, items) == Where(items, LAMBDA item : item.type = type)

FilterStep(type, q, r, kept, x) == IF x.type = type THEN Append(kept, x) ELSE kept

\* What a filter has kept of u, behind r.
FilterKept(type, q, r, u, acc) ==
  IsSeq(acc) /\ ((\A i \in DOMAIN u : u[i].type # type) => acc = r)

Filtering == INSTANCE Folds_proofs WITH FoldStep <- FilterStep, FoldKept <- FilterKept

\* A set of natural numbers has a least element.
LEMMA Least ==
  ASSUME NEW Q \in SUBSET Nat, Q # {}
  PROVE  \E k \in Q : \A i \in Q : k <= i
<1> DEFINE N == {m \in Nat : (\E x \in Q : x <= m) => \E k \in Q : \A i \in Q : k <= i}
<1>1. 0 \in N
  <2> SUFFICES ASSUME NEW x \in Q, x <= 0 PROVE \E k \in Q : \A i \in Q : k <= i  OBVIOUS
  <2>1. \A i \in Q : x <= i  OBVIOUS
  <2> QED  BY <2>1
<1>2. ASSUME NEW m \in N PROVE m + 1 \in N
  <2> SUFFICES ASSUME NEW x \in Q, x <= m + 1 PROVE \E k \in Q : \A i \in Q : k <= i  OBVIOUS
  <2>1. CASE \E y \in Q : y <= m  BY <2>1
  <2>2. CASE \A y \in Q : m < y
    <3>1. \A i \in Q : x <= i  BY <2>2
    <3> QED  BY <3>1
  <2> QED  BY <2>1, <2>2
<1>3. N \in SUBSET Nat  OBVIOUS
<1>4. N = Nat
  <2> HIDE DEF N
  <2> QED  BY <1>1, <1>2, <1>3, Filtering!SetInduction
<1>5. PICK x \in Q : TRUE  OBVIOUS
<1>6. x \in N  BY <1>4
<1> QED  BY <1>6

\* The items of one type are a fold over the items.
LEMMA FilterIsFold ==
  ASSUME NEW type, NEW q, NEW r, NEW items
  PROVE  Filtered(type, items) = Filtering!Fold(type, q, r, <<>>, items)
BY Zenon DEF Filtered, Where, FilterStep, Filtering!Fold, FoldLeft, MapThenFoldSet,
      Filtering!MapThenFoldSet, Max, Filtering!Max

\* The items of one type in an envelope.
LEMMA ItemsAre ==
  ASSUME NEW envelope, NEW type
  PROVE  ItemsOf(envelope, type) = Filtered(type, envelope.items)
BY DEF ItemsOf, Filtered

\* A filter of nothing, and of one item more.
LEMMA FilterSteps ==
  ASSUME NEW type
  PROVE  /\ Filtered(type, <<>>) = <<>>
         /\ \A items, x : IsSeq(items) =>
              Filtered(type, Append(items, x)) =
                IF x.type = type THEN Append(Filtered(type, items), x) ELSE Filtered(type, items)
<1>1. Filtered(type, <<>>) = <<>>
  <2>1. Filtering!Fold(type, 0, 0, <<>>, <<>>) = <<>>  BY Filtering!FoldEmpty
  <2> QED  BY <2>1, FilterIsFold
<1>2. ASSUME NEW items, NEW x, IsSeq(items)
      PROVE  Filtered(type, Append(items, x)) = FilterStep(type, 0, 0, Filtered(type, items), x)
  <2>1. PICK S : items \in Seq(S) /\ x \in S  BY <1>2, Common
  <2>2. Filtering!Fold(type, 0, 0, <<>>, Append(items, x))
          = FilterStep(type, 0, 0, Filtering!Fold(type, 0, 0, <<>>, items), x)
    BY <2>1, Filtering!FoldAppend
  <2> QED  BY <2>2, FilterIsFold, Zenon
<1> QED  BY <1>1, <1>2, Zenon DEF FilterStep

\* The filter of a sequence is one, and items of other types behind it are not
\* kept.
LEMMA FilterFacts ==
  ASSUME NEW type, NEW items, IsSeq(items)
  PROVE  /\ IsSeq(Filtered(type, items))
         /\ \A more : IsSeq(more) /\ (\A i \in DOMAIN more : more[i].type # type) =>
              Filtered(type, items \o more) = Filtered(type, items)
<1>0. ASSUME NEW base, IsSeq(base), NEW more, IsSeq(more)
      PROVE  FilterKept(type, 0, base, more, Filtering!Fold(type, 0, base, base, more))
  <2>1. PICK S : more \in Seq(S)  BY <1>0, Common
  <2>2. FilterKept(type, 0, base, <<>>, base)  BY <1>0 DEF FilterKept
  <2>3. ASSUME NEW u \in Seq(S), NEW acc, NEW x \in S, FilterKept(type, 0, base, u, acc)
        PROVE  FilterKept(type, 0, base, Append(u, x), FilterStep(type, 0, base, acc, x))
    <3>1. IsSeq(FilterStep(type, 0, base, acc, x))
      <4>1. IsSeq(acc)  BY <2>3 DEF FilterKept
      <4>2. IsSeq(Append(acc, x))  BY <4>1, AppendIsSeq
      <4> QED  BY <4>1, <4>2, Zenon DEF FilterStep
    <3>2. ASSUME \A i \in DOMAIN Append(u, x) : Append(u, x)[i].type # type
          PROVE  FilterStep(type, 0, base, acc, x) = base
      <4>1. \A i \in 1 .. Len(u) + 1 : Append(u, x)[i].type # type  BY <3>2
      <4>2. (\A i \in 1 .. Len(u) : Append(u, x)[i] = u[i]) /\ Append(u, x)[Len(u) + 1] = x
            /\ Len(u) \in Nat /\ DOMAIN u = 1 .. Len(u)
        OBVIOUS
      <4>3. x.type # type /\ \A i \in DOMAIN u : u[i].type # type
        <5>1. Len(u) + 1 \in 1 .. Len(u) + 1 /\ \A i \in 1 .. Len(u) : i \in 1 .. Len(u) + 1  BY <4>2
        <5> QED  BY <4>1, <4>2, <5>1
      <4>4. acc = base  BY <2>3, <4>3, Zenon DEF FilterKept
      <4> QED  BY <4>3, <4>4, Zenon DEF FilterStep
    <3> QED  BY <3>1, <3>2, Zenon DEF FilterKept
  <2> QED  BY <2>1, <2>2, <2>3, Filtering!FoldInduction
<1>1. IsSeq(Filtered(type, items))
  <2>1. FilterKept(type, 0, <<>>, items, Filtering!Fold(type, 0, <<>>, <<>>, items))
    BY <1>0, EmptyIsSeq, Zenon
  <2> QED  BY <2>1, FilterIsFold, Zenon DEF FilterKept
<1>2. ASSUME NEW more, IsSeq(more), \A i \in DOMAIN more : more[i].type # type
      PROVE  Filtered(type, items \o more) = Filtered(type, items)
  <2>1. PICK S : items \in Seq(S) /\ more \in Seq(S)  BY <1>2, Common
  <2>2. PICK base : base = Filtered(type, items)  OBVIOUS
  <2>3. Filtering!Fold(type, 0, base, base, more) = base
    <3>1. FilterKept(type, 0, base, more, Filtering!Fold(type, 0, base, base, more))
      BY <1>0, <1>1, <1>2, <2>2, Zenon
    <3> QED  BY <1>2, <3>1, Zenon DEF FilterKept
  <2>4. Filtering!Fold(type, 0, base, <<>>, items \o more)
          = Filtering!Fold(type, 0, base, Filtering!Fold(type, 0, base, <<>>, items), more)
    BY <2>1, Filtering!FoldConcat
  <2> QED  BY <2>2, <2>3, <2>4, FilterIsFold, Zenon
<1> QED  BY <1>1, <1>2

AddStep(p, q, r, envelope, item) == AddItem(envelope, item)
AddKept(p, q, r, u, envelope) == envelope.items = u

Adding == INSTANCE Folds_proofs WITH FoldStep <- AddStep, FoldKept <- AddKept

\* An envelope holds the items it was filled with, in their order.
LEMMA FilledWith ==
  ASSUME NEW items, IsSeq(items)
  PROVE  FoldLeft(AddItem, NewEnvelope, items).items = items
<1>1. PICK S : items \in Seq(S)  BY Common
<1>2. AddKept(0, 0, 0, <<>>, NewEnvelope)  BY DEF AddKept, NewEnvelope
<1>3. ASSUME NEW u \in Seq(S), NEW acc, NEW x \in S, AddKept(0, 0, 0, u, acc)
      PROVE  AddKept(0, 0, 0, Append(u, x), AddStep(0, 0, 0, acc, x))
  BY <1>3 DEF AddKept, AddStep, AddItem
<1>4. AddKept(0, 0, 0, items, Adding!Fold(0, 0, 0, NewEnvelope, items))
  BY <1>1, <1>2, <1>3, Adding!FoldInduction
<1>5. FoldLeft(AddItem, NewEnvelope, items) = Adding!Fold(0, 0, 0, NewEnvelope, items)
  BY Zenon DEF AddStep, Adding!Fold, FoldLeft, MapThenFoldSet, Adding!MapThenFoldSet, Max, Adding!Max
<1> QED  BY <1>4, <1>5, Zenon DEF AddKept

-----------------------------------------------------------------------------
(* What the elements of a sequence have, one after the other *)

CollectKept(p, q, r, u, all) == TRUE

LoseStep(p, q, r, all, x) == all \o x.losses
Losing == INSTANCE Folds_proofs WITH FoldStep <- LoseStep, FoldKept <- CollectKept

LossesIn(s) == FoldLeft(LAMBDA all, x : all \o x.losses, <<>>, s)

\* The losses that client reports tell of, one report at a time.
LEMMA LossesInSteps ==
         /\ LossesIn(<<>>) = <<>>
         /\ \A s, x : IsSeq(s) => LossesIn(Append(s, x)) = LossesIn(s) \o x.losses
<1>1. \A s : LossesIn(s) = Losing!Fold(0, 0, 0, <<>>, s)
  BY Zenon DEF LossesIn, LoseStep, Losing!Fold, FoldLeft, MapThenFoldSet,
     Losing!MapThenFoldSet, Max, Losing!Max
<1>2. LossesIn(<<>>) = <<>>
  <2>1. Losing!Fold(0, 0, 0, <<>>, <<>>) = <<>>  BY Losing!FoldEmpty
  <2> QED  BY <1>1, <2>1
<1>3. ASSUME NEW s, NEW x, IsSeq(s)
      PROVE  LossesIn(Append(s, x)) = LossesIn(s) \o x.losses
  <2>1. PICK S : s \in Seq(S) /\ x \in S  BY <1>3, Common
  <2>2. Losing!Fold(0, 0, 0, <<>>, Append(s, x))
          = LoseStep(0, 0, 0, Losing!Fold(0, 0, 0, <<>>, s), x)
    BY <2>1, Losing!FoldAppend
  <2> QED  BY <1>1, <2>2, Zenon DEF LoseStep
<1> QED  BY <1>2, <1>3

HoldStep(p, q, r, all, x) == all \o x.items
Holding == INSTANCE Folds_proofs WITH FoldStep <- HoldStep, FoldKept <- CollectKept

ItemsIn(s) == FoldLeft(LAMBDA all, x : all \o x.items, <<>>, s)

\* The items of containers, one container at a time.
LEMMA ItemsInSteps ==
         /\ ItemsIn(<<>>) = <<>>
         /\ \A s, x : IsSeq(s) => ItemsIn(Append(s, x)) = ItemsIn(s) \o x.items
<1>1. \A s : ItemsIn(s) = Holding!Fold(0, 0, 0, <<>>, s)
  BY Zenon DEF ItemsIn, HoldStep, Holding!Fold, FoldLeft, MapThenFoldSet,
     Holding!MapThenFoldSet, Max, Holding!Max
<1>2. ItemsIn(<<>>) = <<>>
  <2>1. Holding!Fold(0, 0, 0, <<>>, <<>>) = <<>>  BY Holding!FoldEmpty
  <2> QED  BY <1>1, <2>1
<1>3. ASSUME NEW s, NEW x, IsSeq(s)
      PROVE  ItemsIn(Append(s, x)) = ItemsIn(s) \o x.items
  <2>1. PICK S : s \in Seq(S) /\ x \in S  BY <1>3, Common
  <2>2. Holding!Fold(0, 0, 0, <<>>, Append(s, x))
          = HoldStep(0, 0, 0, Holding!Fold(0, 0, 0, <<>>, s), x)
    BY <2>1, Holding!FoldAppend
  <2> QED  BY <1>1, <2>2, Zenon DEF HoldStep
<1> QED  BY <1>2, <1>3

SendStep(type, q, r, all, x) == all \o ItemsOf(x, type)
Sending == INSTANCE Folds_proofs WITH FoldStep <- SendStep, FoldKept <- CollectKept

SentIn(type, s) == FoldLeft(LAMBDA all, x : all \o ItemsOf(x, type), <<>>, s)

\* The items of one type in the envelopes sent, one envelope at a time.
LEMMA SentInSteps ==
  ASSUME NEW type
  PROVE  /\ SentIn(type, <<>>) = <<>>
         /\ \A s, x : IsSeq(s) => SentIn(type, Append(s, x)) = SentIn(type, s) \o ItemsOf(x, type)
<1>1. \A s : SentIn(type, s) = Sending!Fold(type, 0, 0, <<>>, s)
  BY Zenon DEF SentIn, SendStep, Sending!Fold, FoldLeft, MapThenFoldSet,
     Sending!MapThenFoldSet, Max, Sending!Max
<1>2. SentIn(type, <<>>) = <<>>
  <2>1. Sending!Fold(type, 0, 0, <<>>, <<>>) = <<>>  BY Sending!FoldEmpty
  <2> QED  BY <1>1, <2>1
<1>3. ASSUME NEW s, NEW x, IsSeq(s)
      PROVE  SentIn(type, Append(s, x)) = SentIn(type, s) \o ItemsOf(x, type)
  <2>1. PICK S : s \in Seq(S) /\ x \in S  BY <1>3, Common
  <2>2. Sending!Fold(type, 0, 0, <<>>, Append(s, x))
          = SendStep(type, 0, 0, Sending!Fold(type, 0, 0, <<>>, s), x)
    BY <2>1, Sending!FoldAppend
  <2> QED  BY <1>1, <2>2, Zenon DEF SendStep
<1> QED  BY <1>2, <1>3

-----------------------------------------------------------------------------
(* How often a sequence has an element *)

Count(s, x) == Cardinality({ i \in DOMAIN s : s[i] = x })

\* How often a sequence with one element more has an element.
LEMMA CountAppend ==
  ASSUME NEW s, IsSeq(s), NEW x, NEW y
  PROVE  /\ Count(s, x) \in Nat /\ Count(<<>>, x) = 0
         /\ Count(Append(s, y), x) = IF y = x THEN Count(s, x) + 1 ELSE Count(s, x)
<1>0. PICK t : t = Append(s, y)  OBVIOUS
<1>1. PICK n \in Nat : n = Len(s) /\ t = Append(s, y)  BY <1>0 DEF IsSeq
<1>2. DOMAIN s = 1 .. n /\ DOMAIN t = 1 .. n + 1 /\ t[n + 1] = y /\ \A i \in 1 .. n : t[i] = s[i]
  BY <1>1, IndexedBy, AppendIsSeq
<1> DEFINE I == { i \in 1 .. n : s[i] = x }
<1>3. IsFiniteSet(I) /\ Cardinality(I) \in Nat
  <2>1. IsFiniteSet(1 .. n)  BY FS_Interval
  <2> QED  BY <2>1, FS_Subset, FS_CardinalityType
<1>4. { i \in 1 .. n + 1 : t[i] = x } = IF y = x THEN I \cup {n + 1} ELSE I
  <2>1. \A i \in 1 .. n + 1 : i = n + 1 \/ i \in 1 .. n  OBVIOUS
  <2>2. n + 1 \in 1 .. n + 1 /\ n + 1 \notin I /\ \A i \in 1 .. n : i \in 1 .. n + 1 /\ i # n + 1  OBVIOUS
  <2> QED  BY <1>2, <2>1, <2>2
<1>5. n + 1 \notin I  OBVIOUS
<1>6. Cardinality(I \cup {n + 1}) = Cardinality(I) + 1
  <2> HIDE DEF I
  <2> QED  BY <1>3, <1>5, FS_AddElement
<1>7. Count(<<>>, x) = 0
  <2>1. { i \in DOMAIN <<>> : <<>>[i] = x } = {}  OBVIOUS
  <2> QED  BY <2>1, FS_EmptySet, Zenon DEF Count
<1>8. Count(s, x) = Cardinality(I)  BY <1>2 DEF Count
<1>9. Count(t, x) = Cardinality({ i \in 1 .. n + 1 : t[i] = x })  BY <1>2 DEF Count
<1> HIDE DEF I
<1> QED  BY <1>1, <1>3, <1>4, <1>6, <1>7, <1>8, <1>9

\* How often two sequences together have an element.
LEMMA CountConcat ==
  ASSUME NEW s, IsSeq(s), NEW t, IsSeq(t), NEW x
  PROVE  Count(s \o t, x) = Count(s, x) + Count(t, x)
<1>1. PICK S : s \in Seq(S) /\ t \in Seq(S)  BY Common
<1> DEFINE F(n) == SubSeq(t, 1, n)
           Whole(n) == Count(s \o F(n), x)
           Parts_(n) == Count(s, x) + Count(F(n), x)
           Q == { n \in Nat : n <= Len(t) => Whole(n) = Parts_(n) }
<1>2. 0 \in Q
  <2>1. SubSeq(t, 1, 0) = <<>> /\ s \o <<>> = s  BY <1>1
  <2>2. Count(<<>>, x) = 0 /\ Count(s, x) \in Nat  BY CountAppend
  <2>3. PICK a, b : a = Count(s, x) /\ b = Count(<<>>, x)  OBVIOUS
  <2>4. Whole(0) = a /\ Parts_(0) = a + b  BY <2>1, <2>3, Zenon
  <2>5. a + b = a  BY <2>2, <2>3
  <2>6. Whole(0) = Parts_(0)  BY <2>4, <2>5, Zenon
  <2> HIDE DEF Whole, Parts_
  <2> QED  BY <2>6
<1>3. ASSUME NEW n \in Q PROVE n + 1 \in Q
  <2> SUFFICES ASSUME n + 1 <= Len(t)
               PROVE  Whole(n + 1) = Parts_(n + 1)
    <3> HIDE DEF Whole, Parts_
    <3> QED  OBVIOUS
  <2>1. n \in Nat /\ n < Len(t) /\ Whole(n) = Parts_(n)
    <3> HIDE DEF Whole, Parts_
    <3> QED  BY <1>1
  <2> HIDE DEF Q
  <2>2. PICK u \in Seq(S) : u = SubSeq(t, 1, n)  BY <1>1, <2>1, Filtering!PrefixAppend
  <2>3. PICK y \in S : y = t[n + 1]  BY <1>1, <2>1, Filtering!PrefixAppend
  <2>4. SubSeq(t, 1, n + 1) = Append(u, y)  BY <1>1, <2>1, <2>2, <2>3, Filtering!PrefixAppend
  <2>5. s \o Append(u, y) = Append(s \o u, y)  BY <1>1, ConcatAppend
  <2>6. IsSeq(u) /\ IsSeq(s \o u)
    <3>1. IsSeq(u)  BY SeqIsSeq
    <3> QED  BY <3>1, ConcatIsSeq
  <2>7. Count(Append(s \o u, y), x) = IF y = x THEN Count(s \o u, x) + 1 ELSE Count(s \o u, x)
    BY <2>6, CountAppend
  <2>8. Count(Append(u, y), x) = IF y = x THEN Count(u, x) + 1 ELSE Count(u, x)
    BY <2>6, CountAppend
  <2>9. Count(s, x) \in Nat /\ Count(u, x) \in Nat  BY <2>6, CountAppend
  <2>10. PICK a, b, c, d, e : a = Count(s, x) /\ b = Count(u, x) /\ c = Count(s \o u, x)
                               /\ d = Count(Append(u, y), x) /\ e = Count(Append(s \o u, y), x)
    OBVIOUS
  <2>11. Whole(n) = c /\ Parts_(n) = a + b /\ Whole(n + 1) = e /\ Parts_(n + 1) = a + d
    BY <2>2, <2>4, <2>5, <2>10, Zenon
  <2>12. c = a + b  BY <2>1, <2>11, Zenon
  <2>13. e = a + d  BY <2>7, <2>8, <2>9, <2>10, <2>12
  <2> QED  BY <2>11, <2>13, Zenon
<1> HIDE DEF Q
<1>4. Q = Nat  BY <1>2, <1>3, Filtering!SetInduction DEF Q
<1>5. Len(t) \in Nat /\ SubSeq(t, 1, Len(t)) = t  BY <1>1
<1>6. Len(t) \in Q  BY <1>4, <1>5
<1> HIDE DEF Whole, Parts_
<1>7. Whole(Len(t)) = Parts_(Len(t))
  <2>1. Len(t) <= Len(t)  BY <1>5
  <2> QED  BY <1>6, <2>1 DEF Q
<1> QED  BY <1>5, <1>7, Zenon DEF Whole, Parts_
-----------------------------------------------------------------------------
(* Events *)

\* An event with a field replaced.
LEMMA EventExcept ==
  ASSUME NEW e, IsEvent(e), NEW f \in DOMAIN DefaultEvent, NEW v
  PROVE  /\ IsEvent([e EXCEPT ![f] = v]) /\ [e EXCEPT ![f] = v][f] = v
         /\ \A g \in DOMAIN DefaultEvent : g # f => [e EXCEPT ![f] = v][g] = e[g]
<1>1. PICK F : F = DOMAIN DefaultEvent  OBVIOUS
<1>2. e = [g \in F |-> e[g]]  BY <1>1 DEF IsEvent
<1>3. PICK d : d = [e EXCEPT ![f] = v]  OBVIOUS
<1>4. d = [g \in F |-> IF g = f THEN v ELSE e[g]]  BY <1>1, <1>2, <1>3
<1>5. d = [g \in F |-> d[g]] /\ \A g \in F : d[g] = IF g = f THEN v ELSE e[g]  BY <1>4
<1> QED  BY <1>1, <1>3, <1>5 DEF IsEvent

\* The fields of an event.
LEMMA EventFields ==
  DOMAIN DefaultEvent =
    {"event_id", "level", "message", "logger", "user", "transaction", "fingerprint", "tags", "extra",
     "contexts", "breadcrumbs", "exception", "threads", "stacktrace", "debug_meta", "release", "environment",
     "server_name", "platform", "sdk"}
BY DEF DefaultEvent

\* d is an event like e but for the fields F.
Alike(d, e, F) == IsEvent(d) /\ \A g \in DOMAIN DefaultEvent \ F : d[g] = e[g]

\* Two steps that leave the same fields alone.
LEMMA AlikeTwice ==
  ASSUME NEW a, NEW b, NEW c, NEW F, Alike(b, a, F), Alike(c, b, F)
  PROVE  Alike(c, a, F)
BY DEF Alike

\* The fields that the integrations, and those that the scope may change.
Integrated == {"stacktrace", "threads", "exception", "debug_meta", "contexts"}
Scoped == {"level", "user", "breadcrumbs", "extra", "tags", "contexts", "transaction", "fingerprint"}

\* An integration drops the event or works on the fields that are its own.
LEMMA IntegrationFacts ==
  ASSUME NEW i, NEW e, IsEvent(e), NEW o
  PROVE  ProcessEvent(i, e, o) = None \/ Alike(ProcessEvent(i, e, o), e, Integrated)
<1>1. Alike(AttachStacktrace(e, o), e, Integrated)
  BY EventFields DEF Alike, IsEvent, AttachStacktrace, Integrated
<1>2. Alike(AddDebugImages(e), e, Integrated)
  BY EventFields DEF Alike, IsEvent, AddDebugImages, Integrated
<1>3. Alike(AddContexts(e), e, Integrated)
  BY EventFields DEF Alike, IsEvent, AddContexts, Integrated
<1>4. Alike(ProcessStacktraces(e, o), e, Integrated)
  <2>1. \A x, y, z : Alike([e EXCEPT !.stacktrace = x, !.threads = y, !.exception = z], e, Integrated)
    BY EventFields, ZenonT(120) DEF Alike, IsEvent, Integrated
  <2> QED  BY <2>1, Zenon DEF ProcessStacktraces
<1>5. Alike(e, e, Integrated)  BY DEF Alike
<1> QED  BY <1>1, <1>2, <1>3, <1>4, <1>5, Zenon DEF ProcessEvent

RunStep(o, q, r, e, i) == IF e = None THEN None ELSE ProcessEvent(i, e, o)
RunKept(o, q, r, u, e) == e = None \/ Alike(e, r, Integrated)

Running == INSTANCE Folds_proofs WITH FoldStep <- RunStep, FoldKept <- RunKept

\* The integrations run one after another (Client::prepare_event).
LEMMA RunIsFold ==
  ASSUME NEW e, NEW o, NEW r
  PROVE  RunIntegrations(e, o) = Running!Fold(o, 0, r, e, o.integrations)
BY Zenon DEF RunIntegrations, RunStep, Running!Fold, FoldLeft, MapThenFoldSet,
   Running!MapThenFoldSet, Max, Running!Max

\* So do all of them.
LEMMA RunFacts ==
  ASSUME NEW e, IsEvent(e), NEW o, IsSeq(o.integrations)
  PROVE  RunIntegrations(e, o) = None \/ Alike(RunIntegrations(e, o), e, Integrated)
<1>1. PICK S : o.integrations \in Seq(S)  BY Common
<1>2. RunKept(o, 0, e, <<>>, e)  BY DEF RunKept, Alike
<1>3. ASSUME NEW u \in Seq(S), NEW acc, NEW i \in S, RunKept(o, 0, e, u, acc)
      PROVE  RunKept(o, 0, e, Append(u, i), RunStep(o, 0, e, acc, i))
  <2>1. CASE acc = None  BY <2>1 DEF RunKept, RunStep
  <2>2. CASE acc # None
    <3>1. Alike(acc, e, Integrated)  BY <1>3, <2>2 DEF RunKept
    <3>2. ProcessEvent(i, acc, o) = None \/ Alike(ProcessEvent(i, acc, o), acc, Integrated)
      BY <3>1, IntegrationFacts DEF Alike
    <3>3. ProcessEvent(i, acc, o) = None \/ Alike(ProcessEvent(i, acc, o), e, Integrated)
      BY <3>1, <3>2, AlikeTwice
    <3> QED  BY <2>2, <3>3, Zenon DEF RunKept, RunStep
  <2> QED  BY <2>1, <2>2
<1>4. RunKept(o, 0, e, o.integrations, Running!Fold(o, 0, e, e, o.integrations))
  BY <1>1, <1>2, <1>3, Running!FoldInduction
<1> QED  BY <1>4, RunIsFold, Zenon DEF RunKept

ProcessorStep(p, q, r, e, x) == IF e = None THEN None ELSE RunProcessor(x, e)
ProcessorKept(p, q, r, u, e) == e = None \/ Alike(e, r, {"tags"})

Processing == INSTANCE Folds_proofs WITH FoldStep <- ProcessorStep, FoldKept <- ProcessorKept

\* The processors of a scope drop the event or tag it.
LEMMA ProcessorFacts ==
  ASSUME NEW e, IsEvent(e), NEW ps, IsSeq(ps)
  PROVE  RunProcessors(ps, e) = None \/ Alike(RunProcessors(ps, e), e, {"tags"})
<1>1. PICK S : ps \in Seq(S)  BY Common
<1>2. ProcessorKept(0, 0, e, <<>>, e)  BY DEF ProcessorKept, Alike
<1>3. ASSUME NEW u \in Seq(S), NEW acc, NEW i \in S, ProcessorKept(0, 0, e, u, acc)
      PROVE  ProcessorKept(0, 0, e, Append(u, i), ProcessorStep(0, 0, e, acc, i))
  <2>1. CASE acc = None  BY <2>1 DEF ProcessorKept, ProcessorStep
  <2>2. CASE acc # None
    <3>1. Alike(acc, e, {"tags"})  BY <1>3, <2>2 DEF ProcessorKept
    <3>2. \A v : Alike([acc EXCEPT !.tags = v], e, {"tags"})
      BY <3>1, EventFields DEF Alike, IsEvent
    <3>3. RunProcessor(i, acc) = None \/ Alike(RunProcessor(i, acc), e, {"tags"})
      BY <3>1, <3>2, Zenon DEF RunProcessor
    <3> QED  BY <2>2, <3>3, Zenon DEF ProcessorKept, ProcessorStep
  <2> QED  BY <2>1, <2>2
<1>4. ProcessorKept(0, 0, e, ps, Processing!Fold(0, 0, e, e, ps))
  BY <1>1, <1>2, <1>3, Processing!FoldInduction
<1>5. RunProcessors(ps, e) = Processing!Fold(0, 0, e, e, ps)
  BY Zenon DEF RunProcessors, ProcessorStep, Processing!Fold, FoldLeft, MapThenFoldSet,
     Processing!MapThenFoldSet, Max, Processing!Max
<1> QED  BY <1>4, <1>5, Zenon DEF ProcessorKept

\* So does the scope as a whole, with the fields that are its own.
LEMMA ScopeFacts ==
  ASSUME NEW e, IsEvent(e), NEW scope, IsSeq(scope.event_processors)
  PROVE  ApplyToEvent(scope, e) = None \/ Alike(ApplyToEvent(scope, e), e, Scoped)
<1>1. PICK d : d = [e EXCEPT
       !.level = IF scope.level # None THEN scope.level ELSE @,
       !.user = IF DOMAIN @ = {} THEN scope.user ELSE @,
       !.breadcrumbs = @ \o scope.breadcrumbs,
       !.extra = Extend(@, scope.extra),
       !.tags = Extend(@, scope.tags),
       !.contexts = ApplyTrace(scope, Extend(@, scope.contexts)),
       !.transaction = IF @ = None THEN scope.transaction ELSE @,
       !.fingerprint = IF @ = "default" /\ scope.fingerprint # None THEN scope.fingerprint ELSE @]
  OBVIOUS
<1>2. ApplyToEvent(scope, e) = RunProcessors(scope.event_processors, d)  BY <1>1, Zenon DEF ApplyToEvent
<1>3. Alike(d, e, Scoped)
  <2>1. PICK D : D = DOMAIN DefaultEvent  OBVIOUS
  <2>2. e = [k \in D |-> e[k]]  BY <2>1 DEF IsEvent
  <2>3. d = [k \in D |-> d[k]]  BY <1>1, <2>2
  <2>4. \A k \in D \ Scoped : d[k] = e[k]  BY <1>1, <2>2 DEF Scoped
  <2> QED  BY <2>1, <2>3, <2>4 DEF Alike, IsEvent
<1>4. IsEvent(d)  BY <1>3 DEF Alike
<1>5. RunProcessors(scope.event_processors, d) = None \/ Alike(RunProcessors(scope.event_processors, d), d, {"tags"})
  BY <1>4, ProcessorFacts
<1>6. \A b : Alike(b, d, {"tags"}) => Alike(b, e, Scoped)
  <2>1. \A b : Alike(b, d, {"tags"}) => Alike(b, d, Scoped)  BY DEF Alike, Scoped
  <2> QED  BY <1>3, <2>1, AlikeTwice
<1> QED  BY <1>2, <1>5, <1>6

\* The options fill in what they know.
Optional == {"release", "environment", "server_name", "platform"}

\* Client::prepare_event fills in nothing but what the options tell.
LEMMA FillFacts ==
  ASSUME NEW e, IsEvent(e), NEW o
  PROVE  Alike(FillFromOptions(e, o), e, Optional)
<1>1. \A a, b, c, f : Alike([e EXCEPT !.release = a, !.environment = b, !.server_name = c, !.platform = f], e, Optional)
  <2>1. PICK D : D = DOMAIN DefaultEvent  OBVIOUS
  <2>2. e = [k \in D |-> e[k]]  BY <2>1 DEF IsEvent
  <2> SUFFICES ASSUME NEW a, NEW b, NEW c, NEW f, NEW new,
                      new = [e EXCEPT !.release = a, !.environment = b, !.server_name = c, !.platform = f]
               PROVE  Alike(new, e, Optional)
    OBVIOUS
  <2>3. new = [k \in D |-> new[k]]  BY <2>2
  <2>4. \A k \in D \ Optional : new[k] = e[k]  BY <2>2 DEF Optional
  <2> QED  BY <2>1, <2>3, <2>4 DEF Alike, IsEvent
<1> QED  BY <1>1, Zenon DEF FillFromOptions
-----------------------------------------------------------------------------
(* What one call makes of the record sdk *)

SdkFields == {"scope", "session", "last_event_id", "logs", "metrics", "pending", "unreported", "outbox",
              "trail", "fates", "ids", "panics", "calls"}

IsSdk(s) == s = [f \in SdkFields |-> s[f]]

\* t is s but for the fields F.
Becomes(s, t, F) == IsSdk(t) /\ \A f \in SdkFields \ F : t[f] = s[f]

\* Two steps change what either changes.
LEMMA BecomesTwice ==
  ASSUME NEW s, NEW t, NEW u, NEW F, NEW G, Becomes(s, t, F), Becomes(t, u, G)
  PROVE  Becomes(s, u, F \cup G)
BY DEF Becomes

\* What changes some fields changes no more than those and others.
LEMMA BecomesMore ==
  ASSUME NEW s, NEW t, NEW F, NEW G, Becomes(s, t, F), F \subseteq G
  PROVE  Becomes(s, t, G)
BY DEF Becomes

Named(v, id, o) == [v EXCEPT !.event_id = id, !.sdk = OrElse(@, o.integrations)]
Made(scope, v, id, o) == Processed(ApplyToEvent(scope, Named(v, id, o)), o)

\* What is prepared of an event, and lost for which reason.
PreparedFrom(p, c, s, v) ==
  \E made : made = Made(s.scope, v, s.ids + 1, c.options) /\
    \/ made = None /\ p = Lost("event_processor", s.session)
    \/ made # None /\ p = Lost("before_send", s.session)
    \/ made # None /\ p = Lost("sample_rate", UpdateFromEvent(s.session, FillFromOptions(made, c.options)))
    \/ made # None /\ p = [event |-> FillFromOptions(made, c.options), reason |-> None,
                           session |-> UpdateFromEvent(s.session, FillFromOptions(made, c.options))]

\* What Client::prepare_event makes of an event without an id.
LEMMA Prepares ==
  ASSUME NEW c, NEW s, NEW v, v.event_id = None, NEW kept
  PROVE  PreparedFrom(PrepareEvent(c, s, v, kept), c, s, v)
<1>1. PICK made : made = Made(s.scope, v, s.ids + 1, c.options)  OBVIOUS
<1>2. [v EXCEPT !.event_id = OrElse(@, s.ids + 1), !.sdk = OrElse(@, c.options.integrations)]
        = Named(v, s.ids + 1, c.options)
  BY DEF Named, OrElse
<1>3. PrepareEvent(c, s, v, kept) = Judged(c, s, made, kept)
  BY <1>1, <1>2, Zenon DEF PrepareEvent, Made
<1>4. \/ made = None /\ Judged(c, s, made, kept) = Lost("event_processor", s.session)
      \/ made # None /\ Judged(c, s, made, kept) = Lost("before_send", s.session)
      \/ made # None /\ Judged(c, s, made, kept) = Lost("sample_rate", UpdateFromEvent(s.session, FillFromOptions(made, c.options)))
      \/ made # None /\ Judged(c, s, made, kept) =
           [event |-> FillFromOptions(made, c.options), reason |-> None, session |-> UpdateFromEvent(s.session, FillFromOptions(made, c.options))]
  <2>1. PICK a, b, d, f : /\ a = Lost("event_processor", s.session) /\ b = Lost("before_send", s.session)
                          /\ d = Lost("sample_rate", UpdateFromEvent(s.session, FillFromOptions(made, c.options)))
                          /\ f = [event |-> FillFromOptions(made, c.options), reason |-> None,
                                  session |-> UpdateFromEvent(s.session, FillFromOptions(made, c.options))]
    OBVIOUS
  <2>2. PICK j : j = Judged(c, s, made, kept)  OBVIOUS
  <2>3. j = IF made = None THEN a
            ELSE IF c.options.before_send = "drop" THEN b
            ELSE IF ~Sampled(c.options.sample_rate, FillFromOptions(made, c.options).event_id, kept) THEN d ELSE f
    BY <2>1, <2>2, Zenon DEF Judged
  <2>4. CASE made = None
    <3>1. j = a  BY <2>3, <2>4
    <3> QED  BY <2>1, <2>2, <2>4, <3>1, Zenon
  <2>5. CASE made # None
    <3>1. j = b \/ j = d \/ j = f  BY <2>3, <2>5
    <3> QED  BY <2>1, <2>2, <2>5, <3>1, Zenon
  <2> QED  BY <2>4, <2>5
<1>5. PICK p : p = Judged(c, s, made, kept)  OBVIOUS
<1>6. PreparedFrom(p, c, s, v)
  <2> USE <1>1 DEF PreparedFrom
  <2>1. CASE made = None /\ p = Lost("event_processor", s.session)  BY <2>1, Zenon
  <2>2. CASE made # None /\ p = Lost("before_send", s.session)  BY <2>2, Zenon
  <2>3. CASE made # None /\ p = Lost("sample_rate", UpdateFromEvent(s.session, FillFromOptions(made, c.options)))  BY <2>3, Zenon
  <2>4. CASE made # None /\ p = [event |-> FillFromOptions(made, c.options), reason |-> None,
                                 session |-> UpdateFromEvent(s.session, FillFromOptions(made, c.options))]
    BY <2>4, Zenon
  <2> QED  BY <1>4, <1>5, <2>1, <2>2, <2>3, <2>4, Zenon
<1> QED  BY <1>3, <1>5, <1>6, Zenon

\* The event a source's value v becomes: the scope's and the integrations' work on it,
\* filled from the options.
MadeOf(event, scope, v, id, o) ==
  Made(scope, v, id, o) # None /\ event = FillFromOptions(Made(scope, v, id, o), o)

\* The fields of an event that nothing in the pipeline works on.
LEMMA MadeFacts ==
  ASSUME NEW scope, IsSeq(scope.event_processors), NEW v, IsEvent(v), NEW id, NEW o, IsSeq(o.integrations),
         NEW made, made = Made(scope, v, id, o), made # None
  PROVE  /\ IsEvent(made) /\ made.event_id = id /\ made.message = v.message
         /\ Alike(FillFromOptions(made, o), made, Optional)
         /\ FillFromOptions(made, o).event_id = id
<1>1. PICK n : n = Named(v, id, o)  OBVIOUS
<1>2. IsEvent(n) /\ n.event_id = id /\ n.message = v.message
  BY <1>1, EventFields DEF Named, IsEvent
<1>3. PICK e : e = ApplyToEvent(scope, n)  OBVIOUS
<1>4. e # None /\ made = RunIntegrations(e, o)  BY <1>1, <1>3, Zenon DEF Made, Processed
<1>5. Alike(e, n, Scoped)  BY <1>2, <1>3, <1>4, ScopeFacts
<1>6. Alike(made, e, Integrated)
  <2>1. IsEvent(e)  BY <1>5 DEF Alike
  <2> QED  BY <1>4, <2>1, RunFacts
<1>7. IsEvent(made) /\ made.event_id = id /\ made.message = v.message
  BY <1>2, <1>5, <1>6, EventFields DEF Alike, Scoped, Integrated
<1>8. Alike(FillFromOptions(made, o), made, Optional)  BY <1>7, FillFacts
<1>9. FillFromOptions(made, o).event_id = id  BY <1>7, <1>8, EventFields DEF Alike, Optional
<1> QED  BY <1>7, <1>8, <1>9

-----------------------------------------------------------------------------
(* Envelopes on their way *)

ReportOf(pending) == IF pending = <<>> THEN <<>> ELSE <<[type |-> "client_report", losses |-> pending]>>

\* What an envelope carries of each type.
Carries(envelope, pending, events, logs, metrics, sessions) ==
  /\ ItemsOf(envelope, "event") = events /\ ItemsOf(envelope, "log") = logs
  /\ ItemsOf(envelope, "trace_metric") = metrics /\ ItemsOf(envelope, "session") = sessions
  /\ ItemsOf(envelope, "client_report") = ReportOf(pending)

\* A sender adds the losses that are not reported yet.
LEMMA SendFacts ==
  ASSUME NEW s, IsSdk(s), NEW envelope, IsSeq(envelope.items), ItemsOf(envelope, "client_report") = <<>>
  PROVE  /\ Becomes(s, Send(s, envelope), {"outbox", "pending"})
         /\ Send(s, envelope).pending = <<>>
         /\ \E e : /\ Send(s, envelope).outbox = Append(s.outbox, e)
                   /\ Carries(e, s.pending, ItemsOf(envelope, "event"), ItemsOf(envelope, "log"),
                              ItemsOf(envelope, "trace_metric"), ItemsOf(envelope, "session"))
<1>1. PICK report : report = [type |-> "client_report", losses |-> s.pending]  OBVIOUS
<1>2. PICK e : e = IF s.pending = <<>> THEN envelope ELSE AddItem(envelope, report)  OBVIOUS
<1>3. PICK t : t = [s EXCEPT !.outbox = Append(@, e), !.pending = <<>>]  OBVIOUS
<1>4. Send(s, envelope) = t  BY <1>1, <1>2, <1>3, Zenon DEF Send
<1>5. Becomes(s, t, {"outbox", "pending"}) /\ t.pending = <<>> /\ t.outbox = Append(s.outbox, e)
  <2>1. "outbox" \in SdkFields /\ "pending" \in SdkFields  BY DEF SdkFields
  <2>2. PICK D : D = SdkFields  OBVIOUS
  <2>3. s = [f \in D |-> s[f]]  BY <2>2 DEF IsSdk
  <2>4. t = [f \in D |-> t[f]] /\ t.pending = <<>> /\ t.outbox = Append(s.outbox, e)
        /\ \A f \in D \ {"outbox", "pending"} : t[f] = s[f]
    BY <1>3, <2>1, <2>2, <2>3
  <2> QED  BY <2>2, <2>4 DEF Becomes, IsSdk
<1>6. CASE s.pending = <<>>
  <2>1. e = envelope /\ ReportOf(s.pending) = <<>>  BY <1>2, <1>6 DEF ReportOf
  <2>2. Carries(e, s.pending, ItemsOf(envelope, "event"), ItemsOf(envelope, "log"),
                ItemsOf(envelope, "trace_metric"), ItemsOf(envelope, "session"))
    BY <2>1, Zenon DEF Carries
  <2> QED  BY <1>4, <1>5, <2>2
<1>7. CASE s.pending # <<>>
  <2>1. e.items = Append(envelope.items, report)  BY <1>2, <1>7 DEF AddItem
  <2>2. report.type = "client_report" /\ ReportOf(s.pending) = <<report>>  BY <1>1, <1>7 DEF ReportOf
  <2>3. ASSUME NEW type, type # "client_report" PROVE ItemsOf(e, type) = ItemsOf(envelope, type)
    <3>1. report.type # type  BY <2>2, <2>3
    <3>2. Filtered(type, Append(envelope.items, report)) = Filtered(type, envelope.items)
      BY <3>1, FilterSteps, ZenonT(120)
    <3> QED  BY <2>1, <3>2, ItemsAre, Zenon
  <2>4. ItemsOf(e, "client_report") = <<report>>
    <3>1. Filtered("client_report", Append(envelope.items, report))
            = Append(Filtered("client_report", envelope.items), report)
      BY <2>2, FilterSteps, ZenonT(120)
    <3>2. Filtered("client_report", envelope.items) = <<>>  BY ItemsAre, Zenon
    <3>3. Append(<<>>, report) = <<report>>  OBVIOUS
    <3> QED  BY <2>1, <3>1, <3>2, <3>3, ItemsAre, Zenon
  <2>5. /\ ItemsOf(e, "event") = ItemsOf(envelope, "event") /\ ItemsOf(e, "log") = ItemsOf(envelope, "log")
        /\ ItemsOf(e, "trace_metric") = ItemsOf(envelope, "trace_metric")
        /\ ItemsOf(e, "session") = ItemsOf(envelope, "session")
    BY <2>3
  <2>6. Carries(e, s.pending, ItemsOf(envelope, "event"), ItemsOf(envelope, "log"),
                ItemsOf(envelope, "trace_metric"), ItemsOf(envelope, "session"))
    BY <2>2, <2>4, <2>5, Zenon DEF Carries
  <2> QED  BY <1>4, <1>5, <2>6
<1> QED  BY <1>6, <1>7

\* A filter of one item.
LEMMA FilterOne ==
  ASSUME NEW type, NEW item
  PROVE  Filtered(type, <<item>>) = IF item.type = type THEN <<item>> ELSE <<>>
<1>1. PICK none, f, g : none = <<>> /\ f = Filtered(type, none) /\ g = Filtered(type, Append(none, item))  OBVIOUS
<1>2. IsSeq(none)  BY <1>1, EmptyIsSeq
<1>3. f = none  BY <1>1, FilterSteps
<1>4. g = IF item.type = type THEN Append(f, item) ELSE f
  <2>1. ASSUME NEW items, IsSeq(items)
        PROVE  Filtered(type, Append(items, item)) =
                 IF item.type = type THEN Append(Filtered(type, items), item) ELSE Filtered(type, items)
    BY <2>1, FilterSteps
  <2> QED  BY <1>1, <1>2, <2>1
<1>5. Append(none, item) = <<item>>  BY <1>1
<1>6. g = Filtered(type, <<item>>)  BY <1>1, <1>5, Zenon
<1> QED  BY <1>1, <1>3, <1>4, <1>5, <1>6

\* An envelope of one item.
LEMMA OneItem ==
  ASSUME NEW item, NEW envelope, envelope.items = <<>>
  PROVE  /\ IsSeq(AddItem(envelope, item).items)
         /\ \A type : ItemsOf(AddItem(envelope, item), type) = IF item.type = type THEN <<item>> ELSE <<>>
<1>1. AddItem(envelope, item).items = Append(<<>>, item)  BY DEF AddItem
<1>2. IsSeq(<<>>) /\ IsSeq(<<item>>) /\ Append(<<>>, item) = <<item>>  BY EmptyIsSeq
<1>3. ASSUME NEW type PROVE Filtered(type, <<item>>) = IF item.type = type THEN <<item>> ELSE <<>>
  BY FilterOne, Zenon
<1> QED  BY <1>1, <1>2, <1>3, ItemsAre, Zenon

\* The items that update a session.
UpdatesOf(c, session) ==
  IF c.options.session_mode = "Application" /\ session # None /\ session.dirty
  THEN <<SessionItem(session)>> ELSE <<>>

EventItem(event) == [type |-> "event", id |-> event.event_id, event |-> event]

AttachmentsOk(attachments) ==
  IsSeq(attachments) /\ \A i \in DOMAIN attachments : attachments[i].type = "attachment"

\* The envelope of an event has one event, no report, and at most the update of a session.
LEMMA EventEnvelopeFacts ==
  ASSUME NEW c, NEW s, NEW event, NEW session, AttachmentsOk(s.scope.attachments)
  PROVE  LET e == EventEnvelope(c, s, event, session) IN
         /\ IsSeq(e.items)
         /\ ItemsOf(e, "event") = <<EventItem(event)>> /\ ItemsOf(e, "session") = UpdatesOf(c, session)
         /\ ItemsOf(e, "client_report") = <<>> /\ ItemsOf(e, "log") = <<>> /\ ItemsOf(e, "trace_metric") = <<>>
<1>1. PICK item, us, as : item = EventItem(event) /\ us = UpdatesOf(c, session) /\ as = s.scope.attachments
  OBVIOUS
<1>2. item.type = "event"  BY <1>1 DEF EventItem
<1>3. us = <<>> \/ \E u : u.type = "session" /\ us = <<u>>
  <2>1. SessionItem(session).type = "session"  BY DEF SessionItem
  <2> QED  BY <1>1, <2>1 DEF UpdatesOf
<1>4. IsSeq(us) /\ IsSeq(<<item>>)  BY <1>3, EmptyIsSeq
<1>5. IsSeq(as) /\ \A i \in DOMAIN as : as[i].type = "attachment"  BY <1>1 DEF AttachmentsOk
<1>6. PICK front : front = <<item>> \o us  OBVIOUS
<1>7. IsSeq(front) /\ IsSeq(front \o as)  BY <1>4, <1>5, <1>6, ConcatIsSeq
<1>8. EventEnvelope(c, s, event, session) = FoldLeft(AddItem, NewEnvelope, front \o as)
  BY <1>1, <1>6, Zenon DEF EventEnvelope, UpdatesOf, EventItem
<1>9. PICK e : e = EventEnvelope(c, s, event, session)  OBVIOUS
<1>10. e.items = front \o as  BY <1>7, <1>8, <1>9, FilledWith
<1>11. ASSUME NEW type, type # "attachment" PROVE ItemsOf(e, type) = Filtered(type, front)
  <2>1. \A i \in DOMAIN as : as[i].type # type  BY <1>5, <1>11
  <2>2. Filtered(type, front \o as) = Filtered(type, front)  BY <1>5, <1>7, <2>1, FilterFacts, Zenon
  <2> QED  BY <1>10, <2>2, ItemsAre, Zenon
<1>12. ASSUME NEW type
       PROVE  Filtered(type, front) = (IF "event" = type THEN <<item>> ELSE <<>>)
                                        \o (IF "session" = type THEN us ELSE <<>>)
  <2>1. Filtered(type, <<item>>) = IF "event" = type THEN <<item>> ELSE <<>>
    BY <1>2, FilterOne, Zenon
  <2>2. PICK f : f = Filtered(type, <<item>>)  OBVIOUS
  <2>3. IsSeq(f)  BY <2>1, <2>2, EmptyIsSeq
  <2>4. CASE us = <<>>
    <3>1. front = <<item>>  BY <1>4, <1>6, <2>4, ConcatOne
    <3>2. f \o <<>> = f  BY <2>3, ConcatOne
    <3> QED  BY <2>1, <2>2, <2>4, <3>1, <3>2, Zenon
  <2>5. ASSUME NEW u, u.type = "session", us = <<u>>
        PROVE  Filtered(type, front) = (IF "event" = type THEN <<item>> ELSE <<>>)
                                        \o (IF "session" = type THEN us ELSE <<>>)
    <3>1. front = Append(<<item>>, u)  BY <1>4, <1>6, <2>5, ConcatOne
    <3>2. Filtered(type, Append(<<item>>, u)) = IF u.type = type THEN Append(f, u) ELSE f
      BY <1>4, <2>2, FilterSteps, ZenonT(120)
    <3>3. f \o <<>> = f /\ f \o <<u>> = Append(f, u)  BY <2>3, ConcatOne
    <3>4. Filtered(type, front) = f \o (IF "session" = type THEN <<u>> ELSE <<>>)
      BY <2>5, <3>1, <3>2, <3>3
    <3> QED  BY <2>1, <2>2, <2>5, <3>4, Zenon
  <2> QED  BY <1>3, <2>4, <2>5
<1>13. ItemsOf(e, "event") = <<item>>
  <2>1. Filtered("event", front) = <<item>> \o <<>>  BY <1>12
  <2>2. <<item>> \o <<>> = <<item>>  OBVIOUS
  <2> QED  BY <1>11, <2>1, <2>2
<1>14. ItemsOf(e, "session") = us
  <2>1. Filtered("session", front) = <<>> \o us  BY <1>12
  <2>2. <<>> \o us = us  BY <1>4, ConcatOne
  <2> QED  BY <1>11, <2>1, <2>2
<1>15. ASSUME NEW type, type # "event", type # "session", type # "attachment" PROVE ItemsOf(e, type) = <<>>
  <2>1. Filtered(type, front) = <<>> \o <<>>  BY <1>12, <1>15
  <2>2. <<>> \o <<>> = <<>>  OBVIOUS
  <2> QED  BY <1>11, <1>15, <2>1, <2>2
<1>16. ItemsOf(e, "client_report") = <<>> /\ ItemsOf(e, "log") = <<>> /\ ItemsOf(e, "trace_metric") = <<>>
  BY <1>15
<1> QED  BY <1>1, <1>7, <1>9, <1>10, <1>13, <1>14, <1>16, Zenon
-----------------------------------------------------------------------------
(* The ledger of the captures: their fates, the events sent and the losses *)

\* How many captures met a fate.
Met(fates, fate) == Cardinality({ i \in DOMAIN fates : fates[i].fate = fate })

\* How many events met a fate, when one more has met its own.
LEMMA MetAppend ==
  ASSUME NEW fates, IsSeq(fates), NEW f, NEW fate
  PROVE  /\ Met(fates, fate) \in Nat
         /\ Met(Append(fates, f), fate) = IF f.fate = fate THEN Met(fates, fate) + 1 ELSE Met(fates, fate)
<1> DEFINE L(s) == [i \in DOMAIN s |-> s[i].fate]
<1>1. ASSUME NEW s PROVE Met(s, fate) = Count(L(s), fate)
  <2>1. DOMAIN L(s) = DOMAIN s /\ \A i \in DOMAIN s : L(s)[i] = s[i].fate  OBVIOUS
  <2>2. { i \in DOMAIN s : s[i].fate = fate } = { i \in DOMAIN L(s) : L(s)[i] = fate }  BY <2>1
  <2> QED  BY <2>2 DEF Met, Count
<1>2. PICK S : fates \in Seq(S) /\ f \in S  BY Common
<1>3. L(fates) \in Seq({ x.fate : x \in S })  BY <1>2
<1>4. IsSeq(L(fates))  BY <1>3, SeqIsSeq
<1>5. L(Append(fates, f)) = Append(L(fates), f.fate)  BY <1>2, <1>3
<1>6. Count(L(fates), fate) \in Nat
      /\ Count(Append(L(fates), f.fate), fate) = IF f.fate = fate THEN Count(L(fates), fate) + 1 ELSE Count(L(fates), fate)
  BY <1>4, CountAppend
<1> HIDE DEF L
<1> QED  BY <1>1, <1>5, <1>6

FateIds(fates) == { fates[i].id : i \in { j \in DOMAIN fates : fates[j].fate = "sent" } }

\* The ids of the events that were sent, when one more has met its fate.
LEMMA FateIdsAppend ==
  ASSUME NEW fates, IsSeq(fates), NEW f
  PROVE  FateIds(Append(fates, f)) = IF f.fate = "sent" THEN FateIds(fates) \cup {f.id} ELSE FateIds(fates)
<1>1. PICK n, all : n = Len(fates) /\ all = Append(fates, f)  OBVIOUS
<1>2. /\ n \in Nat /\ DOMAIN fates = 1 .. n /\ DOMAIN all = 1 .. n + 1
      /\ all[n + 1] = f /\ \A i \in 1 .. n : all[i] = fates[i]
  BY <1>1, AppendIsSeq DEF IsSeq
<1>3. 1 .. n + 1 = (1 .. n) \cup {n + 1}  BY <1>2
<1>4. { j \in DOMAIN all : all[j].fate = "sent" }
        = { j \in DOMAIN fates : fates[j].fate = "sent" } \cup (IF f.fate = "sent" THEN {n + 1} ELSE {})
  BY <1>2, <1>3
<1>5. ASSUME NEW x
      PROVE  x \in FateIds(all) <=> x \in FateIds(fates) \/ (f.fate = "sent" /\ x = f.id)
  <2>1. x \in FateIds(all) <=> \E j \in DOMAIN all : all[j].fate = "sent" /\ x = all[j].id
    BY DEF FateIds
  <2>2. x \in FateIds(fates) <=> \E j \in DOMAIN fates : fates[j].fate = "sent" /\ x = fates[j].id
    BY DEF FateIds
  <2> QED  BY <1>2, <1>3, <2>1, <2>2
<1> QED  BY <1>1, <1>5

EventIds(items) == { items[i].event.event_id : i \in DOMAIN items }

\* The ids of the events in the envelopes, when one more is sent.
LEMMA EventIdsAppend ==
  ASSUME NEW items, IsSeq(items), NEW x
  PROVE  EventIds(Append(items, x)) = EventIds(items) \cup {x.event.event_id}
<1>1. PICK n, all : n = Len(items) /\ all = Append(items, x)  OBVIOUS
<1>2. /\ n \in Nat /\ DOMAIN items = 1 .. n /\ DOMAIN all = 1 .. n + 1
      /\ all[n + 1] = x /\ \A i \in 1 .. n : all[i] = items[i]
  BY <1>1, AppendIsSeq DEF IsSeq
<1>3. 1 .. n + 1 = (1 .. n) \cup {n + 1}  BY <1>2
<1> QED  BY <1>1, <1>2, <1>3 DEF EventIds

WithCrumbs(scope, crumbs) == [scope EXCEPT !.breadcrumbs = crumbs]

ItemOps == {"event", "message", "hub", "error", "anyhow", "log", "logger", "slog", "tracing"}

\* The values of the events that a call captures.
SlogEvent(record) ==
  [DefaultEvent EXCEPT !.message = "message", !.extra = SlogExtra(record), !.level = SlogLevel(record.level)]

Source(call, o, v) ==
  \/ call.op = "event" /\ v = call.event
  \/ call.op \in {"message", "hub"} /\ v = EventFromMessage(call.level)
  \/ call.op = "error" /\ v = EventFromError(call.chain)
  \/ call.op = "anyhow" /\ v = EventFromAnyhow(call.chain, call.captured)
  \/ call.op = "log" /\ v = EventFromRecord(call.record)
  \/ call.op = "slog" /\ v = SlogEvent(call.record)
  \/ call.op = "tracing" /\ v = EventFromEvent(call.record, o.attach_stacktrace)
  \/ call.op = "panic" /\ (v = EventFromPanic(TRUE) \/ v = EventFromPanic(FALSE))

\* The item is that of an event some capture made.
MadeBy(item, fate, scope, o) ==
  /\ fate.fate = "sent" /\ fate.id = item.event.event_id /\ CallOk(fate.call)
  /\ \E crumbs, v : Source(fate.call, o, v) /\ MadeOf(item.event, WithCrumbs(scope, crumbs), v, fate.id, o)

Sents(outbox, fates, scope, o) ==
  /\ IsSeq(outbox) /\ IsSeq(fates) /\ IsSeq(SentIn("event", outbox))
  /\ FateIds(fates) = EventIds(SentIn("event", outbox))
  /\ Met(fates, "sent") = Len(SentIn("event", outbox))
  /\ \A i \in DOMAIN SentIn("event", outbox) :
       \E j \in DOMAIN fates : MadeBy(SentIn("event", outbox)[i], fates[j], scope, o)

\* An envelope without an event.
LEMMA SentsOther ==
  ASSUME NEW outbox, NEW fates, NEW scope, NEW o, Sents(outbox, fates, scope, o),
         NEW e, ItemsOf(e, "event") = <<>>
  PROVE  Sents(Append(outbox, e), fates, scope, o)
<1>1. IsSeq(outbox) /\ IsSeq(SentIn("event", outbox))  BY DEF Sents
<1>2. SentIn("event", Append(outbox, e)) = SentIn("event", outbox) \o <<>>  BY <1>1, SentInSteps
<1>3. SentIn("event", Append(outbox, e)) = SentIn("event", outbox)  BY <1>1, <1>2, ConcatOne
<1>4. IsSeq(Append(outbox, e))  BY <1>1, AppendIsSeq
<1> QED  BY <1>3, <1>4 DEF Sents

\* A capture whose event was lost.
LEMMA SentsLost ==
  ASSUME NEW outbox, NEW fates, NEW scope, NEW o, Sents(outbox, fates, scope, o),
         NEW f, f.fate # "sent"
  PROVE  Sents(outbox, Append(fates, f), scope, o)
<1>1. PICK sent : sent = SentIn("event", outbox)  OBVIOUS
<1>2. IsSeq(fates)  BY DEF Sents
<1>3. IsSeq(Append(fates, f)) /\ Len(fates) \in Nat /\ DOMAIN Append(fates, f) = 1 .. Len(fates) + 1
      /\ DOMAIN fates = 1 .. Len(fates) /\ \A i \in 1 .. Len(fates) : Append(fates, f)[i] = fates[i]
  BY <1>2, AppendIsSeq DEF IsSeq
<1>4. FateIds(Append(fates, f)) = FateIds(fates) /\ Met(Append(fates, f), "sent") = Met(fates, "sent")
  BY <1>2, FateIdsAppend, MetAppend
<1>5. ASSUME NEW i \in DOMAIN sent
      PROVE  \E j \in DOMAIN Append(fates, f) : MadeBy(sent[i], Append(fates, f)[j], scope, o)
  <2>1. PICK j \in DOMAIN fates : MadeBy(sent[i], fates[j], scope, o)  BY <1>1, <1>5 DEF Sents
  <2>2. j \in DOMAIN Append(fates, f) /\ Append(fates, f)[j] = fates[j]  BY <1>3
  <2> QED  BY <2>1, <2>2
<1> QED  BY <1>1, <1>3, <1>4, <1>5 DEF Sents

\* A capture whose event was sent.
LEMMA SentsEvent ==
  ASSUME NEW outbox, NEW fates, NEW scope, NEW o, Sents(outbox, fates, scope, o),
         NEW e, NEW item, ItemsOf(e, "event") = <<item>>, NEW f, MadeBy(item, f, scope, o)
  PROVE  Sents(Append(outbox, e), Append(fates, f), scope, o)
<1>1. PICK sent : sent = SentIn("event", outbox)  OBVIOUS
<1>2. IsSeq(fates) /\ IsSeq(outbox) /\ IsSeq(sent)  BY <1>1 DEF Sents
<1>3. f.fate = "sent" /\ f.id = item.event.event_id  BY DEF MadeBy
<1>4. SentIn("event", Append(outbox, e)) = Append(sent, item)
  <2>1. SentIn("event", Append(outbox, e)) = sent \o <<item>>  BY <1>1, <1>2, SentInSteps
  <2> QED  BY <1>2, <2>1, ConcatOne
<1>5. IsSeq(Append(fates, f)) /\ Len(fates) \in Nat /\ DOMAIN Append(fates, f) = 1 .. Len(fates) + 1
      /\ DOMAIN fates = 1 .. Len(fates) /\ Append(fates, f)[Len(fates) + 1] = f
      /\ \A i \in 1 .. Len(fates) : Append(fates, f)[i] = fates[i]
  BY <1>2, AppendIsSeq DEF IsSeq
<1>6. IsSeq(Append(sent, item)) /\ Len(sent) \in Nat /\ DOMAIN Append(sent, item) = 1 .. Len(sent) + 1
      /\ DOMAIN sent = 1 .. Len(sent) /\ Append(sent, item)[Len(sent) + 1] = item
      /\ Len(Append(sent, item)) = Len(sent) + 1
      /\ \A i \in 1 .. Len(sent) : Append(sent, item)[i] = sent[i]
  BY <1>2, AppendIsSeq DEF IsSeq
<1>7. FateIds(Append(fates, f)) = EventIds(Append(sent, item))
  <2>1. FateIds(Append(fates, f)) = FateIds(fates) \cup {f.id}  BY <1>2, <1>3, FateIdsAppend
  <2>2. EventIds(Append(sent, item)) = EventIds(sent) \cup {item.event.event_id}  BY <1>2, EventIdsAppend
  <2>3. FateIds(fates) = EventIds(sent)  BY <1>1 DEF Sents
  <2> QED  BY <1>3, <2>1, <2>2, <2>3
<1>8. Met(Append(fates, f), "sent") = Len(Append(sent, item))
  <2>1. Met(Append(fates, f), "sent") = Met(fates, "sent") + 1  BY <1>2, <1>3, MetAppend
  <2>2. Met(fates, "sent") = Len(sent)  BY <1>1 DEF Sents
  <2> QED  BY <1>6, <2>1, <2>2
<1>9. ASSUME NEW i \in DOMAIN Append(sent, item)
      PROVE  \E j \in DOMAIN Append(fates, f) : MadeBy(Append(sent, item)[i], Append(fates, f)[j], scope, o)
  <2>1. CASE i = Len(sent) + 1
    <3>1. Len(fates) + 1 \in DOMAIN Append(fates, f)  BY <1>5
    <3> QED  BY <1>5, <1>6, <2>1, <3>1
  <2>2. CASE i \in DOMAIN sent
    <3>1. PICK j \in DOMAIN fates : MadeBy(sent[i], fates[j], scope, o)  BY <1>1, <2>2 DEF Sents
    <3>2. j \in DOMAIN Append(fates, f) /\ Append(fates, f)[j] = fates[j]  BY <1>5
    <3>3. Append(sent, item)[i] = sent[i]  BY <1>6, <2>2
    <3> QED  BY <3>1, <3>2, <3>3
  <2> QED  BY <1>6, <1>9, <2>1, <2>2
<1>10. IsSeq(Append(outbox, e))  BY <1>2, AppendIsSeq
<1> QED  BY <1>4, <1>5, <1>6, <1>7, <1>8, <1>9, <1>10 DEF Sents
-----------------------------------------------------------------------------

ErrorLoss(reason) == [category |-> "error", reason |-> reason]

AllLosses(outbox, pending, unreported) == LossesIn(SentIn("client_report", outbox)) \o pending \o unreported

Counted(losses, fates) == \A reason \in Reasons : Count(losses, ErrorLoss(reason)) = Met(fates, reason)

Losts(outbox, pending, unreported, fates) ==
  /\ IsSeq(outbox) /\ IsSeq(pending) /\ IsSeq(unreported) /\ IsSeq(fates)
  /\ IsSeq(SentIn("client_report", outbox)) /\ IsSeq(LossesIn(SentIn("client_report", outbox)))
  /\ Counted(AllLosses(outbox, pending, unreported), fates)

\* The three parts of the losses are counted together.
LEMMA CountParts ==
  ASSUME NEW a, IsSeq(a), NEW b, IsSeq(b), NEW c, IsSeq(c), NEW x
  PROVE  /\ Count(a \o b \o c, x) = Count(a, x) + Count(b, x) + Count(c, x)
         /\ Count(a, x) \in Nat /\ Count(b, x) \in Nat /\ Count(c, x) \in Nat
<1>1. IsSeq(a \o b)  BY ConcatIsSeq
<1>2. Count(a \o b \o c, x) = Count(a \o b, x) + Count(c, x)  BY <1>1, CountConcat
<1>3. Count(a \o b, x) = Count(a, x) + Count(b, x)  BY CountConcat
<1> QED  BY <1>2, <1>3, CountAppend

\* The losses travel with an envelope.
LEMMA LostsReported ==
  ASSUME NEW outbox, NEW pending, NEW unreported, NEW fates, Losts(outbox, pending, unreported, fates),
         NEW e, ItemsOf(e, "client_report") = ReportOf(pending)
  PROVE  Losts(Append(outbox, e), <<>>, unreported, fates)
<1>1. PICK reports, told, none : /\ reports = SentIn("client_report", outbox) /\ told = LossesIn(reports)
                                 /\ none = <<>>
  OBVIOUS
<1>2. /\ IsSeq(outbox) /\ IsSeq(pending) /\ IsSeq(unreported) /\ IsSeq(fates) /\ IsSeq(reports) /\ IsSeq(told)
      /\ Counted(told \o pending \o unreported, fates)
  BY <1>1 DEF Losts, AllLosses
<1>3. IsSeq(none)  BY <1>1, EmptyIsSeq
<1>4. SentIn("client_report", Append(outbox, e)) = reports \o ReportOf(pending)  BY <1>1, <1>2, SentInSteps
<1>5. PICK later : later = SentIn("client_report", Append(outbox, e))  OBVIOUS
<1>6. IsSeq(later) /\ LossesIn(later) = told \o pending
  <2>1. CASE pending = <<>>
    <3>1. later = reports  BY <1>2, <1>4, <1>5, <2>1, ConcatOne DEF ReportOf
    <3>2. told \o pending = told  BY <1>2, <2>1, ConcatOne
    <3> QED  BY <1>1, <1>2, <3>1, <3>2
  <2>2. CASE pending # <<>>
    <3>1. PICK report : report = [type |-> "client_report", losses |-> pending]  OBVIOUS
    <3>2. later = Append(reports, report)  BY <1>2, <1>4, <1>5, <2>2, <3>1, ConcatOne DEF ReportOf
    <3>3. LossesIn(Append(reports, report)) = told \o report.losses  BY <1>1, <1>2, LossesInSteps
    <3>4. report.losses = pending  BY <3>1
    <3> QED  BY <1>2, <3>2, <3>3, <3>4, AppendIsSeq
  <2> QED  BY <2>1, <2>2
<1>7. IsSeq(told \o pending)  BY <1>2, ConcatIsSeq
<1>8. (told \o pending) \o none = told \o pending  BY <1>1, <1>7, ConcatOne
<1>9. AllLosses(Append(outbox, e), <<>>, unreported) = told \o pending \o unreported
  BY <1>1, <1>5, <1>6, <1>8 DEF AllLosses
<1>10. IsSeq(Append(outbox, e))  BY <1>2, AppendIsSeq
<1> QED  BY <1>1, <1>2, <1>3, <1>5, <1>6, <1>7, <1>9, <1>10 DEF Losts

\* One more loss, that of the event of one more capture or of something else.
LEMMA LostsMore ==
  ASSUME NEW outbox, NEW pending, NEW unreported, NEW fates, Losts(outbox, pending, unreported, fates),
         NEW l, NEW more, IsSeq(more),
         \A reason \in Reasons :
           Met(more, reason) = Met(fates, reason) + IF l = ErrorLoss(reason) THEN 1 ELSE 0
  PROVE  Losts(outbox, Append(pending, l), unreported, more)
<1>1. PICK told : told = LossesIn(SentIn("client_report", outbox))  OBVIOUS
<1>2. /\ IsSeq(pending) /\ IsSeq(unreported) /\ IsSeq(told)
      /\ Counted(told \o pending \o unreported, fates)
  BY <1>1 DEF Losts, AllLosses
<1>3. IsSeq(Append(pending, l))  BY <1>2, AppendIsSeq
<1>4. ASSUME NEW reason \in Reasons
      PROVE  Count(told \o Append(pending, l) \o unreported, ErrorLoss(reason)) = Met(more, reason)
  <2>1. PICK x : x = ErrorLoss(reason)  OBVIOUS
  <2>2. /\ Count(told \o Append(pending, l) \o unreported, x)
             = Count(told, x) + Count(Append(pending, l), x) + Count(unreported, x)
        /\ Count(told \o pending \o unreported, x) = Count(told, x) + Count(pending, x) + Count(unreported, x)
        /\ Count(told, x) \in Nat /\ Count(pending, x) \in Nat /\ Count(unreported, x) \in Nat
    BY <1>2, <1>3, CountParts
  <2>3. Count(Append(pending, l), x) = IF l = x THEN Count(pending, x) + 1 ELSE Count(pending, x)
    BY <1>2, CountAppend
  <2>4. Count(told \o pending \o unreported, x) = Met(fates, reason)  BY <1>2, <2>1 DEF Counted
  <2>5. Met(more, reason) = Met(fates, reason) + IF l = x THEN 1 ELSE 0  BY <2>1
  <2> QED  BY <2>1, <2>2, <2>3, <2>4, <2>5
<1> QED  BY <1>1, <1>3, <1>4 DEF Losts, AllLosses, Counted

\* The fate of an event that was sent.
LEMMA LostsSent ==
  ASSUME NEW outbox, NEW pending, NEW unreported, NEW fates, Losts(outbox, pending, unreported, fates),
         NEW f, f.fate = "sent"
  PROVE  Losts(outbox, pending, unreported, Append(fates, f))
<1>1. IsSeq(fates)  BY DEF Losts
<1>2. ASSUME NEW reason \in Reasons PROVE Met(Append(fates, f), reason) = Met(fates, reason)
  <2>1. f.fate # reason  BY <1>2 DEF Reasons
  <2> QED  BY <1>1, <2>1, MetAppend
<1>3. IsSeq(Append(fates, f))  BY <1>1, AppendIsSeq
<1> QED  BY <1>2, <1>3 DEF Losts, Counted

\* Another client is bound: the one before it leaves its losses unreported.
LEMMA LostsForgotten ==
  ASSUME NEW outbox, NEW pending, NEW unreported, NEW fates, Losts(outbox, pending, unreported, fates)
  PROVE  Losts(outbox, <<>>, unreported \o pending, fates)
<1>1. PICK told, none : told = LossesIn(SentIn("client_report", outbox)) /\ none = <<>>  OBVIOUS
<1>2. /\ IsSeq(pending) /\ IsSeq(unreported) /\ IsSeq(told)
      /\ Counted(told \o pending \o unreported, fates)
  BY <1>1 DEF Losts, AllLosses
<1>3. IsSeq(unreported \o pending) /\ IsSeq(none)  BY <1>1, <1>2, ConcatIsSeq, EmptyIsSeq
<1>4. ASSUME NEW reason \in Reasons
      PROVE  Count(told \o none \o (unreported \o pending), ErrorLoss(reason)) = Met(fates, reason)
  <2>1. PICK x : x = ErrorLoss(reason)  OBVIOUS
  <2>2. /\ Count(told \o none \o (unreported \o pending), x)
             = Count(told, x) + Count(none, x) + Count(unreported \o pending, x)
        /\ Count(told \o pending \o unreported, x) = Count(told, x) + Count(pending, x) + Count(unreported, x)
        /\ Count(told, x) \in Nat /\ Count(pending, x) \in Nat /\ Count(unreported, x) \in Nat
    BY <1>2, <1>3, CountParts
  <2>3. Count(unreported \o pending, x) = Count(unreported, x) + Count(pending, x)  BY <1>2, CountConcat
  <2>4. Count(none, x) = 0  BY <1>1, <1>3, CountAppend
  <2>5. Count(told \o pending \o unreported, x) = Met(fates, reason)  BY <1>2, <2>1 DEF Counted
  <2> QED  BY <2>1, <2>2, <2>3, <2>4, <2>5
<1> QED  BY <1>1, <1>3, <1>4 DEF Losts, AllLosses, Counted
-----------------------------------------------------------------------------
\* The ids of the captures are given out in order.
IdsOk(fates, ids) ==
  /\ IsSeq(fates) /\ ids \in Nat
  /\ \A i \in DOMAIN fates : fates[i].id \in 1 .. ids
  /\ \A i, j \in DOMAIN fates : i < j => fates[i].id < fates[j].id

\* The ids grow with every capture.
LEMMA IdsAppend ==
  ASSUME NEW fates, NEW ids, IdsOk(fates, ids), NEW f, f.id = ids + 1
  PROVE  IdsOk(Append(fates, f), ids + 1)
<1>1. IsSeq(fates) /\ ids \in Nat  BY DEF IdsOk
<1>2. IsSeq(Append(fates, f)) /\ Len(fates) \in Nat /\ DOMAIN Append(fates, f) = 1 .. Len(fates) + 1
      /\ DOMAIN fates = 1 .. Len(fates) /\ Append(fates, f)[Len(fates) + 1] = f
      /\ \A i \in 1 .. Len(fates) : Append(fates, f)[i] = fates[i]
  BY <1>1, AppendIsSeq DEF IsSeq
<1>3. PICK n, all : n = Len(fates) /\ all = Append(fates, f)  OBVIOUS
<1>4. ASSUME NEW i \in DOMAIN all PROVE all[i].id \in 1 .. ids + 1
  BY <1>1, <1>2, <1>3, <1>4 DEF IdsOk
<1>5. ASSUME NEW i \in DOMAIN all, NEW j \in DOMAIN all, i < j PROVE all[i].id < all[j].id
  <2>1. i \in DOMAIN fates /\ all[i] = fates[i] /\ fates[i].id \in 1 .. ids
    BY <1>2, <1>3, <1>5 DEF IdsOk
  <2>2. CASE j = n + 1  BY <1>1, <1>2, <1>3, <2>1, <2>2
  <2>3. CASE j # n + 1
    <3>1. j \in DOMAIN fates /\ all[j] = fates[j]  BY <1>2, <1>3, <1>5, <2>3
    <3> QED  BY <1>5, <2>1, <3>1 DEF IdsOk
  <2> QED  BY <2>2, <2>3
<1> QED  BY <1>1, <1>2, <1>3, <1>4, <1>5 DEF IdsOk

LastOk(last, fates) ==
  last \notin {None, 0} =>
    fates # <<>> /\ Last(fates).fate = "sent" /\ Last(fates).id = last

\* The event captured last is the one last_event_id names.
LEMMA LastAppend ==
  ASSUME NEW fates, IsSeq(fates), NEW f, f.fate = "sent"
  PROVE  LastOk(f.id, Append(fates, f))
<1>1. Append(fates, f) # <<>> /\ Len(Append(fates, f)) = Len(fates) + 1 /\ Append(fates, f)[Len(fates) + 1] = f
  BY AppendIsSeq
<1> QED  BY <1>1 DEF LastOk, Last
-----------------------------------------------------------------------------
\* The record sdk of an application with this scope, whose client has the options o.
Ledger(s, scope, o) ==
  /\ IsSdk(s)
  /\ Sents(s.outbox, s.fates, scope, o)
  /\ Losts(s.outbox, s.pending, s.unreported, s.fates)
  /\ IdsOk(s.fates, s.ids)
  /\ LastOk(s.last_event_id, s.fates)
  /\ \E crumbs : s.scope = WithCrumbs(scope, crumbs)

\* Fields that the ledger is not about.
Aside == {"session", "logs", "metrics", "trail", "calls", "panics"}

\* A step that changes what the ledger is not about.
LEMMA LedgerAside ==
  ASSUME NEW s, NEW scope, NEW o, Ledger(s, scope, o), NEW t, Becomes(s, t, Aside)
  PROVE  Ledger(t, scope, o)
<1>1. IsSdk(t) /\ t.outbox = s.outbox /\ t.fates = s.fates /\ t.pending = s.pending
      /\ t.unreported = s.unreported /\ t.ids = s.ids /\ t.last_event_id = s.last_event_id /\ t.scope = s.scope
  BY DEF Becomes, SdkFields, Aside
<1> QED  BY <1>1 DEF Ledger

\* One field is changed.
LEMMA SdkExcept ==
  ASSUME NEW s, IsSdk(s), NEW f \in SdkFields, NEW v
  PROVE  Becomes(s, [s EXCEPT ![f] = v], {f}) /\ [s EXCEPT ![f] = v][f] = v
<1>1. PICK D : D = SdkFields  OBVIOUS
<1>2. s = [g \in D |-> s[g]] /\ f \in D  BY <1>1 DEF IsSdk
<1>3. PICK t : t = [s EXCEPT ![f] = v]  OBVIOUS
<1>4. t = [g \in D |-> t[g]] /\ t[f] = v /\ \A g \in D \ {f} : t[g] = s[g]  BY <1>2, <1>3
<1> QED  BY <1>1, <1>3, <1>4 DEF Becomes, IsSdk

\* An envelope without an event is sent.
LEMMA LedgerSend ==
  ASSUME NEW s, NEW scope, NEW o, Ledger(s, scope, o),
         NEW envelope, IsSeq(envelope.items), ItemsOf(envelope, "client_report") = <<>>,
         ItemsOf(envelope, "event") = <<>>
  PROVE  Ledger(Send(s, envelope), scope, o) /\ Becomes(s, Send(s, envelope), {"outbox", "pending"})
<1>1. PICK t : t = Send(s, envelope)  OBVIOUS
<1>2. IsSdk(s)  BY DEF Ledger
<1>3. Becomes(s, t, {"outbox", "pending"}) /\ t.pending = <<>>  BY <1>1, <1>2, SendFacts
<1>4. PICK e : /\ t.outbox = Append(s.outbox, e)
               /\ Carries(e, s.pending, ItemsOf(envelope, "event"), ItemsOf(envelope, "log"),
                          ItemsOf(envelope, "trace_metric"), ItemsOf(envelope, "session"))
  BY <1>1, <1>2, SendFacts
<1>5. ItemsOf(e, "event") = <<>> /\ ItemsOf(e, "client_report") = ReportOf(s.pending)  BY <1>4 DEF Carries
<1>6. Sents(t.outbox, s.fates, scope, o)
  <2>1. Sents(s.outbox, s.fates, scope, o)  BY DEF Ledger
  <2> QED  BY <1>4, <1>5, <2>1, SentsOther
<1>7. Losts(t.outbox, t.pending, s.unreported, s.fates)
  <2>1. Losts(s.outbox, s.pending, s.unreported, s.fates)  BY DEF Ledger
  <2> QED  BY <1>3, <1>4, <1>5, <2>1, LostsReported
<1>8. IsSdk(t) /\ t.fates = s.fates /\ t.unreported = s.unreported /\ t.ids = s.ids
      /\ t.last_event_id = s.last_event_id /\ t.scope = s.scope
  BY <1>3 DEF Becomes, SdkFields
<1> QED  BY <1>1, <1>3, <1>6, <1>7, <1>8 DEF Ledger

\* Something that is no event is lost.
LEMMA LedgerLoss ==
  ASSUME NEW s, NEW scope, NEW o, Ledger(s, scope, o), NEW l, l.category # "error",
         NEW t, Becomes(s, t, {"pending"}), t.pending = Append(s.pending, l)
  PROVE  Ledger(t, scope, o)
<1>1. Losts(s.outbox, s.pending, s.unreported, s.fates) /\ IsSeq(s.fates)  BY DEF Ledger, Losts
<1>2. ASSUME NEW reason \in Reasons
      PROVE  Met(s.fates, reason) = Met(s.fates, reason) + IF l = ErrorLoss(reason) THEN 1 ELSE 0
  <2>1. l # ErrorLoss(reason)  BY DEF ErrorLoss
  <2>2. Met(s.fates, reason) \in Nat  BY <1>1, MetAppend
  <2> QED  BY <2>1, <2>2
<1>3. Losts(s.outbox, t.pending, s.unreported, s.fates)  BY <1>1, <1>2, LostsMore
<1>4. IsSdk(t) /\ t.fates = s.fates /\ t.outbox = s.outbox /\ t.unreported = s.unreported /\ t.ids = s.ids
      /\ t.last_event_id = s.last_event_id /\ t.scope = s.scope
  BY DEF Becomes, SdkFields
<1> QED  BY <1>3, <1>4 DEF Ledger
-----------------------------------------------------------------------------
(* Captures *)

\* What one capture of an event adds to the fates.
OneMore(before, after, call) == after = before \/ \E f : f.call = call /\ after = Append(before, f)

\* What the capture of an event changes.
Captures == {"ids", "session", "last_event_id", "pending", "fates", "outbox"}

\* What Recorded changes.
LEMMA RecordedFacts ==
  ASSUME NEW s, IsSdk(s), NEW p, NEW call
  PROVE  LET t == Recorded(s, p, call) IN
         /\ Becomes(s, t, {"ids", "session", "last_event_id", "pending", "fates"})
         /\ t.ids = s.ids + 1 /\ t.last_event_id = LastEventId(s, p.event)
         /\ t.pending = s.pending \o Losses(p)
         /\ t.fates = Append(s.fates, [id |-> s.ids + 1, call |-> call,
                                       fate |-> IF p.reason = None THEN "sent" ELSE p.reason])
<1>1. PICK a, b, c, d, e :
        /\ a = s.ids + 1 /\ b = p.session /\ c = LastEventId(s, p.event) /\ d = s.pending \o Losses(p)
        /\ e = Append(s.fates, [id |-> s.ids + 1, call |-> call,
                                fate |-> IF p.reason = None THEN "sent" ELSE p.reason])
  OBVIOUS
<1>2. PICK t : t = [s EXCEPT !.ids = a, !.session = b, !.last_event_id = c, !.pending = d, !.fates = e]  OBVIOUS
<1>3. Recorded(s, p, call) = t  BY <1>1, <1>2, Zenon DEF Recorded
<1>4. PICK D : D = SdkFields  OBVIOUS
<1>5. s = [g \in D |-> s[g]]  BY <1>4 DEF IsSdk
<1>6. "ids" \in D /\ "session" \in D /\ "last_event_id" \in D /\ "pending" \in D /\ "fates" \in D
  BY <1>4 DEF SdkFields
<1>7. t = [g \in D |-> t[g]] /\ t.ids = a /\ t.last_event_id = c /\ t.pending = d /\ t.fates = e
  BY <1>2, <1>5, <1>6
<1>8. \A g \in D \ {"ids", "session", "last_event_id", "pending", "fates"} : t[g] = s[g]
  BY <1>2, <1>5, <1>6
<1>9. Becomes(s, t, {"ids", "session", "last_event_id", "pending", "fates"})
  BY <1>4, <1>7, <1>8 DEF Becomes, IsSdk
<1> QED  BY <1>1, <1>3, <1>7, <1>9

\* The event is lost.
LEMMA LedgerLost ==
  ASSUME NEW s, NEW scope, NEW o, Ledger(s, scope, o), NEW p, NEW call,
         p.reason \in Reasons, p.event = None
  PROVE  /\ Ledger(Recorded(s, p, call), scope, o)
         /\ Becomes(s, Recorded(s, p, call), Captures)
         /\ OneMore(s.fates, Recorded(s, p, call).fates, call)
<1>1. PICK t, f : /\ t = Recorded(s, p, call)
                  /\ f = [id |-> s.ids + 1, call |-> call, fate |-> IF p.reason = None THEN "sent" ELSE p.reason]
  OBVIOUS
<1>3. p.reason # None /\ p.reason # "sent"  BY ReasonsAssumption DEF Reasons
<1>4. f.id = s.ids + 1 /\ f.call = call /\ f.fate = p.reason  BY <1>1, <1>3
<1>5. IsSdk(s) /\ IsSeq(s.fates) /\ IsSeq(s.pending)  BY DEF Ledger, Losts
<1>6. /\ Becomes(s, t, {"ids", "session", "last_event_id", "pending", "fates"})
      /\ t.ids = s.ids + 1 /\ t.last_event_id = LastEventId(s, p.event)
      /\ t.pending = s.pending \o Losses(p) /\ t.fates = Append(s.fates, f)
  BY <1>1, <1>5, RecordedFacts
<1>7. t.last_event_id = 0  BY <1>6 DEF LastEventId
<1>8. t.pending = Append(s.pending, ErrorLoss(p.reason))
  <2>1. Losses(p) = <<ErrorLoss(p.reason)>>  BY <1>3 DEF Losses, ErrorLoss
  <2> QED  BY <1>5, <1>6, <2>1, ConcatOne
<1>9. ASSUME NEW reason \in Reasons
      PROVE  Met(t.fates, reason) = Met(s.fates, reason) + IF ErrorLoss(p.reason) = ErrorLoss(reason) THEN 1 ELSE 0
  <2>1. ErrorLoss(p.reason) = ErrorLoss(reason) <=> p.reason = reason  BY DEF ErrorLoss
  <2>2. Met(s.fates, reason) \in Nat
        /\ Met(t.fates, reason) = IF f.fate = reason THEN Met(s.fates, reason) + 1 ELSE Met(s.fates, reason)
    BY <1>5, <1>6, MetAppend
  <2> QED  BY <1>4, <2>1, <2>2
<1>10. IsSeq(t.fates)  BY <1>5, <1>6, AppendIsSeq
<1>11. Losts(s.outbox, t.pending, s.unreported, t.fates)
  <2>1. Losts(s.outbox, s.pending, s.unreported, s.fates)  BY DEF Ledger
  <2> QED  BY <1>8, <1>9, <1>10, <2>1, LostsMore
<1>12. Sents(s.outbox, t.fates, scope, o)
  <2>1. Sents(s.outbox, s.fates, scope, o)  BY DEF Ledger
  <2>2. f.fate # "sent"  BY <1>3, <1>4
  <2> QED  BY <1>6, <2>1, <2>2, SentsLost
<1>13. IdsOk(t.fates, t.ids)
  <2>1. IdsOk(s.fates, s.ids)  BY DEF Ledger
  <2> QED  BY <1>4, <1>6, <2>1, IdsAppend
<1>14. LastOk(t.last_event_id, t.fates)  BY <1>7 DEF LastOk
<1>15. IsSdk(t) /\ t.outbox = s.outbox /\ t.unreported = s.unreported /\ t.scope = s.scope
  BY <1>6 DEF Becomes, SdkFields
<1>16. Ledger(t, scope, o)  BY <1>11, <1>12, <1>13, <1>14, <1>15 DEF Ledger
<1>17. Becomes(s, t, Captures)  BY <1>6 DEF Becomes, Captures
<1> QED  BY <1>1, <1>4, <1>6, <1>16, <1>17 DEF OneMore
-----------------------------------------------------------------------------
(* Where the events come from *)

\* An event is like the default one but for the fields F.
Fresh(v, F) == Alike(v, DefaultEvent, F)

\* Event::default is an event without an id.
LEMMA DefaultIsEvent == IsEvent(DefaultEvent) /\ DefaultEvent.event_id = None
BY DEF IsEvent, DefaultEvent

Traced(logger, level, message, exception, tags, contexts) ==
  [DefaultEvent EXCEPT !.logger = logger, !.level = level, !.message = message, !.exception = exception,
                       !.tags = tags, !.contexts = contexts]

\* Every event that a call captures is an event without an id.
LEMMA SourceFacts ==
  ASSUME NEW call, CallOk(call), NEW o, NEW v, Source(call, o, v)
  PROVE  IsEvent(v) /\ v.event_id = None
<1> DEFINE F == {"message", "level", "exception", "logger", "contexts", "extra", "tags"}
<1> USE DefaultIsEvent
<1>1. PICK D, e : D = DOMAIN DefaultEvent /\ e = DefaultEvent  OBVIOUS
<1>2. /\ e = [f \in D |-> e[f]] /\ e.event_id = None
      /\ "event_id" \in D /\ \A f \in F : f \in D
  BY <1>1, EventFields DEF IsEvent
<1>3. ASSUME NEW a, NEW b, v = [e EXCEPT !.message = a, !.level = b] PROVE IsEvent(v) /\ v.event_id = None
  BY <1>1, <1>2, <1>3 DEF IsEvent
<1>4. ASSUME NEW a, NEW b, v = [e EXCEPT !.level = a, !.exception = b] PROVE IsEvent(v) /\ v.event_id = None
  BY <1>1, <1>2, <1>4 DEF IsEvent
<1>5. CASE call.op = "event" /\ v = call.event  BY <1>5 DEF CallOk
<1>6. CASE call.op \in {"message", "hub"} /\ v = EventFromMessage(call.level)
  BY <1>1, <1>3, <1>6, Zenon DEF EventFromMessage
<1>7. CASE call.op = "error" /\ v = EventFromError(call.chain)
  BY <1>1, <1>4, <1>7, Zenon DEF EventFromError
<1>8. CASE call.op = "anyhow" /\ v = EventFromAnyhow(call.chain, call.captured)
  <2>1. PICK a : a = ExceptionsOf(call.chain)  OBVIOUS
  <2>2. PICK u : u = [e EXCEPT !.level = "error", !.exception = a]  OBVIOUS
  <2>3. u = EventFromError(call.chain)  BY <1>1, <2>1, <2>2, Zenon DEF EventFromError
  <2>4. IsEvent(u) /\ u.event_id = None  BY <1>1, <1>2, <2>2 DEF IsEvent
  <2>5. v = u \/ \E c : v = [u EXCEPT !.exception = c]  BY <1>8, <2>3 DEF EventFromAnyhow
  <2> QED  BY <1>2, <2>4, <2>5, EventFields DEF IsEvent
<1>9. CASE call.op = "log" /\ v = EventFromRecord(call.record)
  <2>1. \E a, b, c, d : v = [e EXCEPT !.logger = a, !.level = b, !.message = c, !.contexts = d]
    BY <1>1, <1>9, Zenon DEF EventFromRecord
  <2>2. PICK a, b, c, d : v = [e EXCEPT !.logger = a, !.level = b, !.message = c, !.contexts = d]  BY <2>1
  <2> QED  BY <1>1, <1>2, <2>2 DEF IsEvent
<1>10. CASE call.op = "slog" /\ v = SlogEvent(call.record)
  <2>1. \E a, b, c : v = [e EXCEPT !.message = a, !.extra = b, !.level = c]
    BY <1>1, <1>10, Zenon DEF SlogEvent
  <2>2. PICK a, b, c : v = [e EXCEPT !.message = a, !.extra = b, !.level = c]  BY <2>1
  <2> QED  BY <1>1, <1>2, <2>2 DEF IsEvent
<1>11. CASE call.op = "tracing" /\ v = EventFromEvent(call.record, o.attach_stacktrace)
  <2>1. \E m, w : v = EventFromData(call.record, m, w, o.attach_stacktrace)
    BY <1>11, Zenon DEF EventFromEvent
  <2>2. PICK m, w : v = EventFromData(call.record, m, w, o.attach_stacktrace)  BY <2>1
  <2> DEFINE errors == IF \E k \in DOMAIN call.record.fields : call.record.fields[k] = "error"
                       THEN ExceptionsOf(<<"Outer", "Inner">>) ELSE <<>>
             wraps  == errors # <<>> /\ m # None /\ o.attach_stacktrace
             all    == IF wraps THEN Append(errors, [Exception("tracing") EXCEPT !.stacktrace = CurrentStacktrace])
                       ELSE errors
             left   == [k \in DOMAIN w \ { x \in {"tags.t"} : HasKey(w, x) /\ w[x] # "array" } |-> w[k]]
  <2>3. v = Traced("target", SentryLevel(call.record.level), IF wraps THEN None ELSE m,
                   IF all = <<>> THEN all ELSE [all EXCEPT ![Len(all)].mechanism = "tracing"],
                   [k \in TagOf(w) |-> "event"],
                   Extend([k \in {"Rust Tracing Location"} |-> "event"],
                          IF DOMAIN left = {} THEN NoKeys ELSE [k \in {"Rust Tracing Fields"} |-> DOMAIN left]))
    BY <2>2, Zenon DEF EventFromData, Traced
  <2>4. \E a, b, c, d, f, g : v = Traced(a, b, c, d, f, g)  BY <2>3, ZenonT(120)
  <2>5. PICK a, b, c, d, f, g : v = Traced(a, b, c, d, f, g)  BY <2>4, Zenon
  <2> HIDE DEF errors, wraps, all, left
  <2> QED  BY <1>1, <1>2, <2>5 DEF IsEvent, Traced
<1>12. CASE call.op = "panic" /\ (v = EventFromPanic(TRUE) \/ v = EventFromPanic(FALSE))
  <2>1. EventFromPanic(TRUE) = [e EXCEPT !.message = "extracted", !.level = "fatal"]
    BY <1>1, Zenon DEF EventFromPanic
  <2>2. \E a : EventFromPanic(FALSE) = [e EXCEPT !.level = "fatal", !.exception = a]
    BY <1>1, Zenon DEF EventFromPanic
  <2>3. PICK a : EventFromPanic(FALSE) = [e EXCEPT !.level = "fatal", !.exception = a]  BY <2>2
  <2>4. CASE v = EventFromPanic(TRUE)  BY <1>3, <2>1, <2>4
  <2>5. CASE v = EventFromPanic(FALSE)  BY <1>4, <2>3, <2>5
  <2> QED  BY <1>12, <2>4, <2>5
<1> QED  BY <1>5, <1>6, <1>7, <1>8, <1>9, <1>10, <1>11, <1>12, ZenonT(120) DEF Source

\* One mapping or none.
LEMMA Perhaps ==
  ASSUME NEW b, NEW kind, NEW value
  PROVE  LET s == IF b THEN <<Mapping(kind, value)>> ELSE <<>> IN
         IsSeq(s) /\ \A x \in ToSet(s) : x.kind = kind /\ x.value = value
<1>1. PICK m, none : m = Mapping(kind, value) /\ none = <<>>  OBVIOUS
<1>2. m.kind = kind /\ m.value = value  BY <1>1 DEF Mapping
<1>3. IsSeq(none) /\ IsSeq(<<m>>)  BY <1>1, EmptyIsSeq
<1>4. ToSet(none) = {} /\ ToSet(<<m>>) = {m}  BY <1>1 DEF ToSet
<1> QED  BY <1>1, <1>2, <1>3, <1>4, Zenon

\* All events in the items of a call are of its sources.
EventsFrom(s, call, o) == IsSeq(s) /\ \A x \in ToSet(s) : x.kind = "event" => Source(call, o, x.value)

\* The items of one call may be joined.
LEMMA EventsConcat ==
  ASSUME NEW s, NEW t, NEW call, NEW o, EventsFrom(s, call, o), EventsFrom(t, call, o)
  PROVE  EventsFrom(s \o t, call, o)
<1>1. IsSeq(s) /\ IsSeq(t)  BY DEF EventsFrom
<1>2. IsSeq(s \o t) /\ ToSet(s \o t) = ToSet(s) \cup ToSet(t)  BY <1>1, ConcatIsSeq, ToSetConcat
<1> QED  BY <1>2 DEF EventsFrom

\* The items of a call, and where its events come from.
LEMMA ItemsFacts ==
  ASSUME NEW call, call.op \in ItemOps, NEW o
  PROVE  EventsFrom(Items(call, o), call, o)
<1>1. ASSUME NEW b, NEW v, Source(call, o, v)
      PROVE  EventsFrom(IF b THEN <<Mapping("event", v)>> ELSE <<>>, call, o)
  BY <1>1, Perhaps DEF EventsFrom
<1>2. ASSUME NEW b, NEW v
      PROVE  /\ EventsFrom(IF b THEN <<Mapping("log", v)>> ELSE <<>>, call, o)
             /\ EventsFrom(IF b THEN <<Mapping("breadcrumb", v)>> ELSE <<>>, call, o)
  <2>1. "log" # "event" /\ "breadcrumb" # "event"  OBVIOUS
  <2> QED  BY <2>1, Perhaps DEF EventsFrom
<1>3. ASSUME NEW v
      PROVE  /\ Source(call, o, v) => EventsFrom(<<Mapping("event", v)>>, call, o)
             /\ EventsFrom(<<Mapping("log", v)>>, call, o) /\ EventsFrom(<<Mapping("breadcrumb", v)>>, call, o)
  <2>1. Source(call, o, v) => EventsFrom(IF TRUE THEN <<Mapping("event", v)>> ELSE <<>>, call, o)  BY <1>1
  <2>2. EventsFrom(IF TRUE THEN <<Mapping("log", v)>> ELSE <<>>, call, o)
        /\ EventsFrom(IF TRUE THEN <<Mapping("breadcrumb", v)>> ELSE <<>>, call, o)
    BY <1>2
  <2> QED  BY <2>1, <2>2
<1>4. PICK items : items = Items(call, o)  OBVIOUS
<1>5. CASE call.op = "event"
  <2>1. items = <<Mapping("event", call.event)>>  BY <1>4, <1>5 DEF Items
  <2> QED  BY <1>3, <1>4, <1>5, <2>1 DEF Source
<1>6. CASE call.op = "message" \/ call.op = "hub"
  <2>1. items = <<Mapping("event", EventFromMessage(call.level))>>  BY <1>4, <1>6 DEF Items
  <2> QED  BY <1>3, <1>4, <1>6, <2>1 DEF Source
<1>7. CASE call.op = "error"
  <2>1. items = <<Mapping("event", EventFromError(call.chain))>>  BY <1>4, <1>7 DEF Items
  <2> QED  BY <1>3, <1>4, <1>7, <2>1 DEF Source
<1>8. CASE call.op = "anyhow"
  <2>1. items = <<Mapping("event", EventFromAnyhow(call.chain, call.captured))>>  BY <1>4, <1>8 DEF Items
  <2> QED  BY <1>3, <1>4, <1>8, <2>1 DEF Source
<1>9. CASE call.op = "log"
  <2>1. items = LogItems(call.filter, call.record)  BY <1>4, <1>9 DEF Items
  <2>2. Source(call, o, EventFromRecord(call.record))  BY <1>9 DEF Source
  <2>3. PICK a, b, c, d :
          /\ a = IF "Breadcrumb" \in call.filter THEN <<Mapping("breadcrumb", BreadcrumbFromRecord(call.record))>> ELSE <<>>
          /\ b = IF "Event" \in call.filter THEN <<Mapping("event", EventFromRecord(call.record))>> ELSE <<>>
          /\ c = IF "Exception" \in call.filter THEN <<Mapping("event", EventFromRecord(call.record))>> ELSE <<>>
          /\ d = IF "Log" \in call.filter THEN <<Mapping("log", LogFromRecord(call.record))>> ELSE <<>>
    OBVIOUS
  <2>4. items = a \o b \o c \o d  BY <2>1, <2>3, Zenon DEF LogItems
  <2>5. EventsFrom(a, call, o) /\ EventsFrom(b, call, o) /\ EventsFrom(c, call, o) /\ EventsFrom(d, call, o)
    BY <1>1, <1>2, <2>2, <2>3, Zenon
  <2> QED  BY <1>4, <2>4, <2>5, EventsConcat
<1>10. CASE call.op = "logger"
  <2>1. items = <<Mapping("log", LoggerLog(call.level, call.keys, call.format))>>  BY <1>4, <1>10 DEF Items
  <2> QED  BY <1>3, <1>4, <2>1
<1>11. CASE call.op = "slog"
  <2>1. items = SlogItems(SlogFilter(call.record.level), call.record)  BY <1>4, <1>11 DEF Items
  <2>2. SlogFilter(call.record.level) \in {"Breadcrumb", "Event", "Exception"}  BY DEF SlogFilter
  <2>3. \/ items = <<Mapping("event", SlogEvent(call.record))>>
        \/ \E v : items = <<Mapping("breadcrumb", v)>>
    BY <2>1, <2>2 DEF SlogItems, SlogEvent
  <2>4. Source(call, o, SlogEvent(call.record))  BY <1>11 DEF Source
  <2> QED  BY <1>3, <1>4, <2>3, <2>4
<1>12. CASE call.op = "tracing"
  <2>1. items = TracingItems(EventFilter(call.record.level), call.record, o.attach_stacktrace)
    BY <1>4, <1>12 DEF Items
  <2>2. Source(call, o, EventFromEvent(call.record, o.attach_stacktrace))  BY <1>12 DEF Source
  <2>3. PICK filter : filter = EventFilter(call.record.level)  OBVIOUS
  <2>4. PICK a, b, d :
          /\ a = IF "Breadcrumb" \in filter THEN <<Mapping("breadcrumb", BreadcrumbFromEvent(call.record))>> ELSE <<>>
          /\ b = IF "Event" \in filter THEN <<Mapping("event", EventFromEvent(call.record, o.attach_stacktrace))>> ELSE <<>>
          /\ d = IF "Log" \in filter THEN <<Mapping("log", LogFromEvent(call.record))>> ELSE <<>>
    OBVIOUS
  <2>5. items = a \o b \o d  BY <2>1, <2>3, <2>4, Zenon DEF TracingItems
  <2>6. EventsFrom(a, call, o) /\ EventsFrom(b, call, o) /\ EventsFrom(d, call, o)
    BY <1>1, <1>2, <2>2, <2>4, ZenonT(120)
  <2> QED  BY <1>4, <2>5, <2>6, EventsConcat
<1> QED  BY <1>4, <1>5, <1>6, <1>7, <1>8, <1>9, <1>10, <1>11, <1>12 DEF ItemOps
-----------------------------------------------------------------------------
\* The scope an application has had since it started, but for its breadcrumbs.
LEMMA CrumbsFacts ==
  ASSUME NEW scope, ScopeOk(scope), NEW crumbs
  PROVE  /\ WithCrumbs(scope, crumbs).event_processors = scope.event_processors
         /\ WithCrumbs(scope, crumbs).attachments = scope.attachments
         /\ WithCrumbs(scope, crumbs).breadcrumbs = crumbs
         /\ \A others : WithCrumbs(WithCrumbs(scope, crumbs), others) = WithCrumbs(scope, others)
         /\ WithCrumbs(scope, scope.breadcrumbs) = scope
<1>1. PICK D : D = DOMAIN DefaultScope  OBVIOUS
<1>2. scope = [f \in D |-> scope[f]]  BY <1>1 DEF ScopeOk
<1>3. "event_processors" \in D /\ "attachments" \in D /\ "breadcrumbs" \in D  BY <1>1 DEF DefaultScope
<1> QED  BY <1>2, <1>3 DEF WithCrumbs

\* The options of a client that can send.
ClientOk(c, o) == c.options = o /\ IsSeq(o.integrations)

\* The event is sent.
LEMMA LedgerSent ==
  ASSUME NEW s, NEW scope, ScopeOk(scope), NEW o, Ledger(s, scope, o), NEW p, NEW call, NEW c, NEW v,
         p.reason = None, p.event.event_id = s.ids + 1, CallOk(call), Source(call, o, v),
         MadeOf(p.event, s.scope, v, s.ids + 1, o)
  PROVE  /\ Ledger(SendEvent(c, s, p, call), scope, o)
         /\ Becomes(s, SendEvent(c, s, p, call), Captures)
         /\ OneMore(s.fates, SendEvent(c, s, p, call).fates, call)
<1>1. PICK f, r, envelope :
        /\ f = [id |-> s.ids + 1, call |-> call, fate |-> IF p.reason = None THEN "sent" ELSE p.reason]
        /\ r = Recorded(s, p, call) /\ envelope = EventEnvelope(c, s, p.event, p.session)
  OBVIOUS
<1>2. f.id = s.ids + 1 /\ f.call = call /\ f.fate = "sent"  BY <1>1
<1>3. IsSdk(s) /\ IsSeq(s.fates) /\ IsSeq(s.pending) /\ s.ids \in Nat  BY DEF Ledger, Losts, IdsOk
<1>4. /\ Becomes(s, r, {"ids", "session", "last_event_id", "pending", "fates"})
      /\ r.ids = s.ids + 1 /\ r.last_event_id = LastEventId(s, p.event)
      /\ r.pending = s.pending \o Losses(p) /\ r.fates = Append(s.fates, f)
  BY <1>1, <1>3, RecordedFacts
<1>5. r.pending = s.pending
  <2>1. Losses(p) = <<>>  BY DEF Losses
  <2> QED  BY <1>3, <1>4, <2>1, ConcatOne
<1>6. IsSdk(r) /\ r.outbox = s.outbox /\ r.unreported = s.unreported /\ r.scope = s.scope
  BY <1>4 DEF Becomes, SdkFields
<1>7. PICK crumbs : s.scope = WithCrumbs(scope, crumbs)  BY DEF Ledger
<1>8. AttachmentsOk(s.scope.attachments)
  <2>1. s.scope.attachments = scope.attachments  BY <1>7, CrumbsFacts
  <2>2. AttachmentsOk(scope.attachments)  BY DEF ScopeOk, AttachmentsOk
  <2> QED  BY <2>1, <2>2
<1>9. /\ IsSeq(envelope.items) /\ ItemsOf(envelope, "event") = <<EventItem(p.event)>>
      /\ ItemsOf(envelope, "client_report") = <<>>
  BY <1>1, <1>8, EventEnvelopeFacts
<1>10. PICK t : t = Send(r, envelope)  OBVIOUS
<1>11. Becomes(r, t, {"outbox", "pending"}) /\ t.pending = <<>>  BY <1>6, <1>9, <1>10, SendFacts
<1>12. PICK e : /\ t.outbox = Append(r.outbox, e)
                /\ Carries(e, r.pending, ItemsOf(envelope, "event"), ItemsOf(envelope, "log"),
                           ItemsOf(envelope, "trace_metric"), ItemsOf(envelope, "session"))
  BY <1>6, <1>9, <1>10, SendFacts
<1>13. ItemsOf(e, "event") = <<EventItem(p.event)>> /\ ItemsOf(e, "client_report") = ReportOf(s.pending)
  BY <1>5, <1>9, <1>12 DEF Carries
<1>14. IsSdk(t) /\ t.fates = r.fates /\ t.unreported = s.unreported /\ t.ids = s.ids + 1
       /\ t.last_event_id = r.last_event_id /\ t.scope = s.scope /\ t.outbox = Append(s.outbox, e)
  BY <1>4, <1>6, <1>11, <1>12 DEF Becomes, SdkFields
<1>15. PICK u : u = [t EXCEPT !.session = AfterUpdate(c, @)]  OBVIOUS
<1>16. SendEvent(c, s, p, call) = u  BY <1>1, <1>10, <1>15, Zenon DEF SendEvent
<1>17. Becomes(t, u, {"session"})
  <2>1. PICK w : w = AfterUpdate(c, t.session)  OBVIOUS
  <2>2. u = [t EXCEPT !["session"] = w]  BY <1>15, <2>1
  <2> QED  BY <1>14, <2>2, SdkExcept DEF SdkFields
<1>18. IsSdk(u) /\ u.fates = Append(s.fates, f) /\ u.unreported = s.unreported /\ u.ids = s.ids + 1
       /\ u.last_event_id = LastEventId(s, p.event) /\ u.scope = s.scope /\ u.outbox = Append(s.outbox, e)
       /\ u.pending = <<>>
  BY <1>4, <1>11, <1>14, <1>17 DEF Becomes, SdkFields
<1>19. Sents(u.outbox, u.fates, scope, o)
  <2>1. PICK item : item = EventItem(p.event)  OBVIOUS
  <2>2. item.event = p.event  BY <2>1 DEF EventItem
  <2>3. MadeBy(item, f, scope, o)  BY <1>2, <1>7, <2>2 DEF MadeBy
  <2>4. Sents(s.outbox, s.fates, scope, o)  BY DEF Ledger
  <2> QED  BY <1>13, <1>18, <2>1, <2>3, <2>4, SentsEvent
<1>20. Losts(u.outbox, u.pending, u.unreported, u.fates)
  <2>1. Losts(s.outbox, s.pending, s.unreported, s.fates)  BY DEF Ledger
  <2>2. Losts(s.outbox, s.pending, s.unreported, Append(s.fates, f))  BY <1>2, <2>1, LostsSent
  <2> QED  BY <1>13, <1>18, <2>2, LostsReported
<1>21. IdsOk(u.fates, u.ids)
  <2>1. IdsOk(s.fates, s.ids)  BY DEF Ledger
  <2> QED  BY <1>2, <1>18, <2>1, IdsAppend
<1>22. LastOk(u.last_event_id, u.fates)
  <2>1. CASE p.event = None
    <3>1. u.last_event_id = 0  BY <1>18, <2>1 DEF LastEventId
    <3> QED  BY <3>1 DEF LastOk
  <2>2. CASE p.event # None
    <3>1. u.last_event_id = f.id  BY <1>2, <1>18, <2>2 DEF LastEventId
    <3> QED  BY <1>2, <1>3, <1>18, <3>1, LastAppend
  <2> QED  BY <2>1, <2>2
<1>23. Ledger(u, scope, o)  BY <1>7, <1>18, <1>19, <1>20, <1>21, <1>22 DEF Ledger
<1>24. Becomes(s, u, Captures)
  BY <1>4, <1>11, <1>17 DEF Becomes, Captures, SdkFields
<1> QED  BY <1>2, <1>16, <1>18, <1>23, <1>24 DEF OneMore

\* Hub::capture_event and Client::capture_event.
LEMMA LedgerCapture ==
  ASSUME NEW s, NEW scope, ScopeOk(scope), NEW o, Ledger(s, scope, o), NEW call, NEW c, c # None, ClientOk(c, o),
         NEW v, CallOk(call), Source(call, o, v), NEW kept
  PROVE  LET t == CaptureEvent(c, s, v, kept, call) IN
         Ledger(t, scope, o) /\ Becomes(s, t, Captures) /\ OneMore(s.fates, t.fates, call)
<1>1. PICK t, p : t = CaptureEvent(c, s, v, kept, call) /\ p = PrepareEvent(c, s, v, kept)  OBVIOUS
<1>2. IsSdk(s)  BY DEF Ledger
<1>3. CASE ~c.enabled
  <2>1. LastEventId(s, None) = 0  BY DEF LastEventId
  <2>2. t = [s EXCEPT !["last_event_id"] = 0]  BY <1>1, <1>3, <2>1 DEF CaptureEvent
  <2>3. Becomes(s, t, {"last_event_id"}) /\ t.last_event_id = 0
    <3>1. PICK f \in SdkFields : f = "last_event_id"  BY DEF SdkFields
    <3>2. Becomes(s, [s EXCEPT ![f] = 0], {f}) /\ [s EXCEPT ![f] = 0][f] = 0  BY <1>2, SdkExcept
    <3> QED  BY <2>2, <3>1, <3>2
  <2>4. IsSdk(t) /\ t.outbox = s.outbox /\ t.fates = s.fates /\ t.pending = s.pending
        /\ t.unreported = s.unreported /\ t.ids = s.ids /\ t.scope = s.scope
    BY <2>3 DEF Becomes, SdkFields
  <2>5. LastOk(t.last_event_id, t.fates)  BY <2>3 DEF LastOk
  <2>6. Ledger(t, scope, o)  BY <2>4, <2>5 DEF Ledger
  <2>7. Becomes(s, t, Captures)  BY <2>3 DEF Becomes, Captures
  <2> QED  BY <1>1, <2>4, <2>6, <2>7 DEF OneMore
<1>4. CASE c.enabled
  <2>1. t = SendEvent(c, s, p, call)  BY <1>1, <1>4, Zenon DEF CaptureEvent
  <2>2. IsEvent(v) /\ v.event_id = None  BY SourceFacts
  <2>3. PreparedFrom(p, c, s, v)  BY <1>1, <2>2, Prepares
  <2>4. PICK made : /\ made = Made(s.scope, v, s.ids + 1, c.options)
                    /\ \/ made = None /\ p = Lost("event_processor", s.session)
                       \/ made # None /\ p = Lost("before_send", s.session)
                       \/ made # None /\ p = Lost("sample_rate", UpdateFromEvent(s.session, FillFromOptions(made, c.options)))
                       \/ made # None /\ p = [event |-> FillFromOptions(made, c.options), reason |-> None,
                                              session |-> UpdateFromEvent(s.session, FillFromOptions(made, c.options))]
    BY <2>3 DEF PreparedFrom
  <2>5. CASE p.reason \in Reasons /\ p.event = None
    <3>1. p.reason # None  BY <2>5, ReasonsAssumption
    <3>2. t = Recorded(s, p, call)  BY <2>1, <3>1, Zenon DEF SendEvent
    <3> QED  BY <1>1, <2>5, <3>2, LedgerLost
  <2>6. CASE made # None /\ p = [event |-> FillFromOptions(made, c.options), reason |-> None,
                                 session |-> UpdateFromEvent(s.session, FillFromOptions(made, c.options))]
    <3>1. p.reason = None /\ p.event = FillFromOptions(made, o)  BY <2>6 DEF ClientOk
    <3>2. MadeOf(p.event, s.scope, v, s.ids + 1, o)  BY <2>4, <2>6, <3>1 DEF MadeOf, ClientOk
    <3>3. PICK crumbs : s.scope = WithCrumbs(scope, crumbs)  BY DEF Ledger
    <3>4. IsSeq(s.scope.event_processors)
      <4>1. s.scope.event_processors = scope.event_processors  BY <3>3, CrumbsFacts
      <4>2. IsSeq(scope.event_processors)  BY DEF ScopeOk
      <4> QED  BY <4>1, <4>2
    <3>5. made = Made(s.scope, v, s.ids + 1, o)  BY <2>4 DEF ClientOk
    <3>6. FillFromOptions(made, o).event_id = s.ids + 1
      BY <2>2, <2>6, <3>4, <3>5, MadeFacts DEF ClientOk
    <3> QED  BY <1>1, <2>1, <3>1, <3>2, <3>6, LedgerSent
  <2>7. ASSUME NEW reason \in Reasons, NEW session, p = Lost(reason, session)
        PROVE  p.reason \in Reasons /\ p.event = None
    BY <2>7 DEF Lost
  <2>8. "event_processor" \in Reasons /\ "before_send" \in Reasons /\ "sample_rate" \in Reasons  BY DEF Reasons
  <2> QED  BY <2>4, <2>5, <2>6, <2>7, <2>8
<1> QED  BY <1>3, <1>4
-----------------------------------------------------------------------------
(* The other operations *)

\* The scope's breadcrumbs change.
LEMMA LedgerScope ==
  ASSUME NEW s, NEW scope, ScopeOk(scope), NEW o, Ledger(s, scope, o), NEW t, Becomes(s, t, {"scope", "trail"}),
         NEW crumbs, t.scope = WithCrumbs(s.scope, crumbs)
  PROVE  Ledger(t, scope, o)
<1>1. PICK before : s.scope = WithCrumbs(scope, before)  BY DEF Ledger
<1>2. t.scope = WithCrumbs(scope, crumbs)  BY <1>1, CrumbsFacts
<1>3. IsSdk(t) /\ t.outbox = s.outbox /\ t.fates = s.fates /\ t.pending = s.pending
      /\ t.unreported = s.unreported /\ t.ids = s.ids /\ t.last_event_id = s.last_event_id
  BY DEF Becomes, SdkFields
<1> QED  BY <1>2, <1>3 DEF Ledger

\* Nothing changes.
LEMMA BecomesSame ==
  ASSUME NEW s, IsSdk(s), NEW F
  PROVE  Becomes(s, s, F)
BY DEF Becomes

\* Hub::add_breadcrumb changes the breadcrumbs of the scope only.
LEMMA LedgerCrumb ==
  ASSUME NEW s, NEW scope, ScopeOk(scope), NEW o, Ledger(s, scope, o), NEW c, NEW crumb
  PROVE  LET t == AddBreadcrumb(c, s, crumb) IN
         Ledger(t, scope, o) /\ Becomes(s, t, {"scope", "trail"})
<1>1. PICK t : t = AddBreadcrumb(c, s, crumb)  OBVIOUS
<1>2. IsSdk(s)  BY DEF Ledger
<1>3. CASE c = None
  <2>1. t = s  BY <1>1, <1>3 DEF AddBreadcrumb
  <2> QED  BY <1>1, <1>2, <2>1, BecomesSame
<1>4. CASE c # None
  <2>1. \E a, b : t = [s EXCEPT !.trail = a, !.scope.breadcrumbs = b]  BY <1>1, <1>4, Zenon DEF AddBreadcrumb
  <2>2. PICK a, b : t = [s EXCEPT !.trail = a, !.scope.breadcrumbs = b]  BY <2>1
  <2>3. PICK D : D = SdkFields  OBVIOUS
  <2>4. s = [f \in D |-> s[f]] /\ "trail" \in D /\ "scope" \in D  BY <1>2, <2>3 DEF IsSdk, SdkFields
  <2>5. t = [f \in D |-> t[f]] /\ t.scope = [s.scope EXCEPT !.breadcrumbs = b]
        /\ \A f \in D \ {"scope", "trail"} : t[f] = s[f]
    BY <2>2, <2>4
  <2>6. Becomes(s, t, {"scope", "trail"}) /\ t.scope = WithCrumbs(s.scope, b)
    BY <2>3, <2>5 DEF Becomes, IsSdk, WithCrumbs
  <2> QED  BY <1>1, <2>6, LedgerScope
<1> QED  BY <1>3, <1>4

\* A log is lost, or queued.
LEMMA LedgerQueued ==
  ASSUME NEW s, NEW scope, NEW o, Ledger(s, scope, o), NEW t, NEW q \in {"logs", "metrics"},
         NEW category \in {"log_item", "trace_metric"},
         \/ t = s
         \/ t = [s EXCEPT !.pending = Append(@, [category |-> category, reason |-> "before_send"])]
         \/ \E entries : t = [s EXCEPT ![q] = entries]
  PROVE  Ledger(t, scope, o) /\ Becomes(s, t, {"pending", q})
<1>1. IsSdk(s)  BY DEF Ledger
<1>2. CASE t = s  BY <1>1, <1>2, BecomesSame
<1>3. CASE t = [s EXCEPT !.pending = Append(@, [category |-> category, reason |-> "before_send"])]
  <2>1. PICK l, more : l = [category |-> category, reason |-> "before_send"] /\ more = Append(s.pending, l)  OBVIOUS
  <2>2. PICK f \in SdkFields : f = "pending"  BY DEF SdkFields
  <2>3. t = [s EXCEPT ![f] = more]  BY <1>3, <2>1, <2>2
  <2>4. Becomes(s, t, {f}) /\ t[f] = more  BY <1>1, <2>3, SdkExcept
  <2>5. l.category # "error"  BY <2>1
  <2>6. Becomes(s, t, {"pending"}) /\ t.pending = Append(s.pending, l)  BY <2>1, <2>2, <2>4
  <2>7. Ledger(t, scope, o)  BY <2>5, <2>6, LedgerLoss
  <2> QED  BY <2>6, <2>7 DEF Becomes
<1>4. CASE \E entries : t = [s EXCEPT ![q] = entries]
  <2>1. PICK entries : t = [s EXCEPT ![q] = entries]  BY <1>4
  <2>2. q \in SdkFields  BY DEF SdkFields
  <2>3. Becomes(s, t, {q})  BY <1>1, <2>1, <2>2, SdkExcept
  <2>4. Becomes(s, t, Aside) /\ Becomes(s, t, {"pending", q})  BY <2>3 DEF Becomes, Aside
  <2> QED  BY <2>4, LedgerAside
<1> QED  BY <1>2, <1>3, <1>4

\* Client::capture_log sends no event and loses none.
LEMMA LedgerLog ==
  ASSUME NEW s, NEW scope, NEW o, Ledger(s, scope, o), NEW c, NEW log, NEW call
  PROVE  LET t == CaptureLog(c, s, log, call) IN
         Ledger(t, scope, o) /\ Becomes(s, t, {"pending", "logs"})
<1>1. PICK t : t = CaptureLog(c, s, log, call)  OBVIOUS
<1>2. PICK p, q : p = [s EXCEPT !.pending = Append(@, [category |-> "log_item", reason |-> "before_send"])]
                  /\ q = [s EXCEPT !.logs = Append(@, [value |-> [ApplyToLog(s.scope, log) EXCEPT
                            !.attributes = OrInsert(@, DefaultLogAttributes(c.options))],
                            from |-> log, call |-> call])]
  OBVIOUS
<1>3. t = s \/ t = p \/ t = q  BY <1>1, <1>2, Zenon DEF CaptureLog
<1>4. \E entries : q = [s EXCEPT !["logs"] = entries]  BY <1>2
<1>5. \/ t = s \/ t = [s EXCEPT !.pending = Append(@, [category |-> "log_item", reason |-> "before_send"])]
      \/ \E entries : t = [s EXCEPT !["logs"] = entries]
  BY <1>2, <1>3, <1>4
<1> QED  BY <1>1, <1>5, LedgerQueued

\* Client::capture_metric sends no event and loses none.
LEMMA LedgerMetric ==
  ASSUME NEW s, NEW scope, NEW o, Ledger(s, scope, o), NEW c, NEW m
  PROVE  LET t == CaptureMetric(c, s, m) IN
         Ledger(t, scope, o) /\ Becomes(s, t, {"pending", "metrics"})
<1>1. PICK t : t = CaptureMetric(c, s, m)  OBVIOUS
<1>2. PICK p, q : p = [s EXCEPT !.pending = Append(@, [category |-> "trace_metric", reason |-> "before_send"])]
                  /\ q = [s EXCEPT !.metrics = Append(@, [value |-> [ApplyToMetric(s.scope, IntoProtocolMetric(m),
                             c.options.send_default_pii) EXCEPT
                               !.attributes = OrInsert(@, DefaultMetricAttributes(c.options))], from |-> m])]
  OBVIOUS
<1>3. t = s \/ t = p \/ t = q  BY <1>1, <1>2, Zenon DEF CaptureMetric
<1>4. \E entries : q = [s EXCEPT !["metrics"] = entries]  BY <1>2
<1>5. \/ t = s \/ t = [s EXCEPT !.pending = Append(@, [category |-> "trace_metric", reason |-> "before_send"])]
      \/ \E entries : t = [s EXCEPT !["metrics"] = entries]
  BY <1>2, <1>3, <1>4
<1> QED  BY <1>1, <1>5, LedgerQueued

\* An envelope of one item that is neither an event nor a report.
LEMMA LedgerSendOne ==
  ASSUME NEW s, NEW scope, NEW o, Ledger(s, scope, o), NEW item, item.type # "event", item.type # "client_report",
         NEW base, base.items = <<>>
  PROVE  LET t == Send(s, AddItem(base, item)) IN
         Ledger(t, scope, o) /\ Becomes(s, t, {"outbox", "pending"})
<1>1. PICK e : e = AddItem(base, item)  OBVIOUS
<1>2. IsSeq(e.items) /\ ItemsOf(e, "event") = <<>> /\ ItemsOf(e, "client_report") = <<>>  BY <1>1, OneItem
<1> QED  BY <1>1, <1>2, LedgerSend

\* A new envelope has no item.
LEMMA NewIsEmpty == NewEnvelope.items = <<>>
BY DEF NewEnvelope

\* The flush of the batches sends no event and loses none.
LEMMA LedgerFlush ==
  ASSUME NEW s, NEW scope, NEW o, Ledger(s, scope, o), NEW c
  PROVE  LET t == FlushBatches(c, s) IN
         Ledger(t, scope, o) /\ Becomes(s, t, {"outbox", "pending", "logs", "metrics"})
<1>1. ASSUME NEW u, Ledger(u, scope, o), NEW type \in {"log", "trace_metric"}, NEW batch
      PROVE  LET t == FlushBatch(c, u, type, batch) IN
             Ledger(t, scope, o) /\ Becomes(u, t, {"outbox", "pending"})
  <2>1. PICK item : item = [type |-> type, items |-> batch]  OBVIOUS
  <2>2. item.type # "event" /\ item.type # "client_report"  BY <2>1
  <2>3. FlushBatch(c, u, type, batch) = u \/ FlushBatch(c, u, type, batch) = Send(u, AddItem(NewEnvelope, item))
    BY <2>1, Zenon DEF FlushBatch
  <2>4. Ledger(Send(u, AddItem(NewEnvelope, item)), scope, o)
        /\ Becomes(u, Send(u, AddItem(NewEnvelope, item)), {"outbox", "pending"})
    BY <1>1, <2>2, NewIsEmpty, LedgerSendOne
  <2>5. IsSdk(u)  BY <1>1 DEF Ledger
  <2> QED  BY <1>1, <2>3, <2>4, <2>5, BecomesSame
<1>2. ASSUME NEW u, Ledger(u, scope, o), NEW q \in {"logs", "metrics"}
      PROVE  LET t == [u EXCEPT ![q] = <<>>] IN Ledger(t, scope, o) /\ Becomes(u, t, {q})
  <2>1. q \in SdkFields /\ q \in Aside  BY DEF SdkFields, Aside
  <2>2. IsSdk(u)  BY <1>2 DEF Ledger
  <2>3. Becomes(u, [u EXCEPT ![q] = <<>>], {q})  BY <2>1, <2>2, SdkExcept
  <2>4. Becomes(u, [u EXCEPT ![q] = <<>>], Aside)  BY <2>1, <2>3 DEF Becomes
  <2> QED  BY <1>2, <2>3, <2>4, LedgerAside
<1>3. PICK a, b, d, e : /\ a = FlushBatch(c, s, "log", s.logs) /\ b = [a EXCEPT !["logs"] = <<>>]
                        /\ d = FlushBatch(c, b, "trace_metric", b.metrics) /\ e = [d EXCEPT !["metrics"] = <<>>]
  OBVIOUS
<1>4. FlushBatches(c, s) = e  BY <1>3, Zenon DEF FlushBatches
<1>5. Ledger(a, scope, o) /\ Becomes(s, a, {"outbox", "pending"})  BY <1>1, <1>3
<1>6. Ledger(b, scope, o) /\ Becomes(a, b, {"logs"})  BY <1>2, <1>3, <1>5
<1>7. Ledger(d, scope, o) /\ Becomes(b, d, {"outbox", "pending"})  BY <1>1, <1>3, <1>6
<1>8. Ledger(e, scope, o) /\ Becomes(d, e, {"metrics"})  BY <1>2, <1>3, <1>7
<1>9. Becomes(s, e, {"outbox", "pending", "logs", "metrics"})  BY <1>5, <1>6, <1>7, <1>8 DEF Becomes
<1> QED  BY <1>4, <1>8, <1>9

\* The session is started, ended or replaced.
LEMMA LedgerSession ==
  ASSUME NEW s, NEW scope, NEW o, Ledger(s, scope, o), NEW session
  PROVE  LET t == [s EXCEPT !.session = session] IN Ledger(t, scope, o) /\ Becomes(s, t, {"session"})
<1>1. PICK f \in SdkFields : f = "session"  BY DEF SdkFields
<1>2. IsSdk(s)  BY DEF Ledger
<1>3. Becomes(s, [s EXCEPT ![f] = session], {f})  BY <1>2, SdkExcept
<1>4. PICK t : t = [s EXCEPT !.session = session]  OBVIOUS
<1>5. Becomes(s, t, {"session"})  BY <1>1, <1>3, <1>4
<1>6. Becomes(s, t, Aside)  BY <1>5 DEF Becomes, Aside
<1> QED  BY <1>4, <1>5, <1>6, LedgerAside

\* sentry::start_session sends nothing.
LEMMA LedgerStart ==
  ASSUME NEW s, NEW scope, NEW o, Ledger(s, scope, o), NEW c
  PROVE  LET t == StartSession(c, s) IN Ledger(t, scope, o) /\ Becomes(s, t, {"session"})
<1>1. IsSdk(s)  BY DEF Ledger
<1>2. StartSession(c, s) = s \/ \E n : StartSession(c, s) = [s EXCEPT !.session = n]  BY DEF StartSession
<1> QED  BY <1>1, <1>2, BecomesSame, LedgerSession

\* sentry::end_session sends no event and loses none.
LEMMA LedgerEnd ==
  ASSUME NEW s, NEW scope, NEW o, Ledger(s, scope, o), NEW c
  PROVE  LET t == EndSession(c, s) IN Ledger(t, scope, o) /\ Becomes(s, t, {"session", "outbox", "pending"})
<1>1. IsSdk(s)  BY DEF Ledger
<1>2. PICK gone : gone = [s EXCEPT !.session = None]  OBVIOUS
<1>3. Ledger(gone, scope, o) /\ Becomes(s, gone, {"session"})  BY <1>2, LedgerSession
<1>4. \/ EndSession(c, s) = s \/ EndSession(c, s) = gone
      \/ \E ended : EndSession(c, s) = Send(gone, AddItem(NewEnvelope, SessionItem(ended)))
  BY <1>2, Zenon DEF EndSession
<1>5. ASSUME NEW ended, EndSession(c, s) = Send(gone, AddItem(NewEnvelope, SessionItem(ended)))
      PROVE  Ledger(EndSession(c, s), scope, o) /\ Becomes(s, EndSession(c, s), {"session", "outbox", "pending"})
  <2>1. PICK item : item = SessionItem(ended)  OBVIOUS
  <2>2. item.type # "event" /\ item.type # "client_report"  BY <2>1 DEF SessionItem
  <2>3. Ledger(EndSession(c, s), scope, o) /\ Becomes(gone, EndSession(c, s), {"outbox", "pending"})
    BY <1>3, <1>5, <2>1, <2>2, NewIsEmpty, LedgerSendOne
  <2>4. Becomes(s, EndSession(c, s), {"session", "outbox", "pending"})  BY <1>3, <2>3 DEF Becomes
  <2> QED  BY <2>3, <2>4
<1>6. Becomes(s, s, {"session", "outbox", "pending"}) /\ Becomes(s, gone, {"session", "outbox", "pending"})
  BY <1>1, <1>3 DEF Becomes
<1> QED  BY <1>3, <1>4, <1>5, <1>6
-----------------------------------------------------------------------------
(* One item after the other *)

\* How many panics were captured.
Panics(fates) == Cardinality({ i \in DOMAIN fates : fates[i].call.op = "panic" })

\* How many captures came of panics, with one capture more.
LEMMA PanicsAppend ==
  ASSUME NEW fates, IsSeq(fates), NEW f
  PROVE  /\ Panics(fates) \in Nat /\ Panics(<<>>) = 0
         /\ Panics(Append(fates, f)) = IF f.call.op = "panic" THEN Panics(fates) + 1 ELSE Panics(fates)
<1> DEFINE L(s) == [i \in DOMAIN s |-> s[i].call.op]
<1>1. ASSUME NEW s PROVE Panics(s) = Count(L(s), "panic")
  <2>1. DOMAIN L(s) = DOMAIN s /\ \A i \in DOMAIN s : L(s)[i] = s[i].call.op  OBVIOUS
  <2>2. { i \in DOMAIN s : s[i].call.op = "panic" } = { i \in DOMAIN L(s) : L(s)[i] = "panic" }  BY <2>1
  <2> QED  BY <2>2 DEF Panics, Count
<1>2. PICK S : fates \in Seq(S) /\ f \in S  BY Common
<1>3. L(fates) \in Seq({ x.call.op : x \in S })  BY <1>2
<1>4. IsSeq(L(fates))  BY <1>3, SeqIsSeq
<1>5. L(Append(fates, f)) = Append(L(fates), f.call.op)  BY <1>2, <1>3
<1>6. Count(L(fates), "panic") \in Nat /\ Count(<<>>, "panic") = 0
      /\ Count(Append(L(fates), f.call.op), "panic")
           = IF f.call.op = "panic" THEN Count(L(fates), "panic") + 1 ELSE Count(L(fates), "panic")
  BY <1>4, CountAppend
<1>7. L(<<>>) = <<>>  OBVIOUS
<1> HIDE DEF L
<1> QED  BY <1>1, <1>5, <1>6, <1>7

\* The fields that the capture of the items of a call may change.
ItemFields == Captures \cup {"scope", "trail", "logs"}

\* t is what captures of one call made of s.
Progress(s, t, call, scope, o) ==
  /\ Ledger(t, scope, o) /\ Becomes(s, t, ItemFields)
  /\ call.op # "panic" => Panics(t.fates) = Panics(s.fates)

\* The capture of one item of a call.
LEMMA LedgerItem ==
  ASSUME NEW s, NEW scope, ScopeOk(scope), NEW o, Ledger(s, scope, o), NEW c, c = None \/ ClientOk(c, o),
         NEW call, CallOk(call), NEW kept, NEW item,
         c # None /\ item.kind = "event" => Source(call, o, item.value)
  PROVE  Progress(s, CaptureItem(c, s, item, kept, call), call, scope, o)
<1>1. PICK t : t = CaptureItem(c, s, item, kept, call)  OBVIOUS
<1>2. IsSdk(s) /\ IsSeq(s.fates)  BY DEF Ledger, Losts
<1>3. Progress(s, s, call, scope, o)  BY <1>2, BecomesSame DEF Progress
<1>4. CASE item.kind = "event"
  <2>1. t = CaptureEvent(c, s, item.value, kept, call)  BY <1>1, <1>4 DEF CaptureItem
  <2>2. CASE c = None
    <3>1. t = s  BY <2>1, <2>2 DEF CaptureEvent
    <3> QED  BY <1>1, <1>3, <3>1
  <2>3. CASE c # None
    <3>1. Ledger(t, scope, o) /\ Becomes(s, t, Captures) /\ OneMore(s.fates, t.fates, call)
      BY <1>4, <2>1, <2>3, LedgerCapture
    <3>2. Becomes(s, t, ItemFields)  BY <3>1 DEF Becomes, ItemFields
    <3>3. call.op # "panic" => Panics(t.fates) = Panics(s.fates)  BY <1>2, <3>1, PanicsAppend DEF OneMore
    <3> QED  BY <1>1, <3>1, <3>2, <3>3 DEF Progress
  <2> QED  BY <2>2, <2>3
<1>5. CASE item.kind = "log"
  <2>1. t = CaptureLog(c, s, item.value, call)  BY <1>1, <1>5 DEF CaptureItem
  <2>2. Ledger(t, scope, o) /\ Becomes(s, t, {"pending", "logs"})  BY <2>1, LedgerLog
  <2>3. Becomes(s, t, ItemFields) /\ t.fates = s.fates  BY <2>2 DEF Becomes, ItemFields, Captures, SdkFields
  <2> QED  BY <1>1, <2>2, <2>3 DEF Progress
<1>6. CASE item.kind # "event" /\ item.kind # "log"
  <2>1. t = AddBreadcrumb(c, s, item.value)  BY <1>1, <1>6 DEF CaptureItem
  <2>2. Ledger(t, scope, o) /\ Becomes(s, t, {"scope", "trail"})  BY <2>1, LedgerCrumb
  <2>3. Becomes(s, t, ItemFields) /\ t.fates = s.fates  BY <2>2 DEF Becomes, ItemFields, SdkFields
  <2> QED  BY <1>1, <2>2, <2>3 DEF Progress
<1> QED  BY <1>4, <1>5, <1>6

ItemStep(c, kept, call, s, item) == CaptureItem(c, s, item, kept, call)
Capturing == INSTANCE Folds_proofs WITH FoldStep <- ItemStep, FoldKept <- CollectKept

Captured(c, kept, call, s, items) == FoldLeft(LAMBDA t, item : CaptureItem(c, t, item, kept, call), s, items)

\* The capture of all items of a call, by induction over them.
LEMMA LedgerItems ==
  ASSUME NEW s, NEW scope, ScopeOk(scope), NEW o, Ledger(s, scope, o), NEW c, c = None \/ ClientOk(c, o),
         NEW call, CallOk(call), NEW kept, NEW items, IsSeq(items), c # None => EventsFrom(items, call, o)
  PROVE  Progress(s, Captured(c, kept, call, s, items), call, scope, o)
<1> DEFINE R(n) == Captured(c, kept, call, s, SubSeq(items, 1, n))
           Q == { n \in Nat : n <= Len(items) => Progress(s, R(n), call, scope, o) }
<1>1. \A u : Captured(c, kept, call, s, u) = Capturing!Fold(c, kept, call, s, u)
  BY Zenon DEF Captured, ItemStep, Capturing!Fold, FoldLeft, MapThenFoldSet,
     Capturing!MapThenFoldSet, Max, Capturing!Max
<1>2. \A i \in DOMAIN items : c # None /\ items[i].kind = "event" => Source(call, o, items[i].value)
  BY DEF EventsFrom, ToSet
<1>3. PICK S : items \in Seq(S)  BY Common
<1>4. SubSeq(items, 1, Len(items)) = items /\ SubSeq(items, 1, 0) = <<>> /\ Len(items) \in Nat
  BY <1>3
<1>5. 0 \in Q
  <2>1. R(0) = s
    <3>1. Capturing!Fold(c, kept, call, s, <<>>) = s  BY Capturing!FoldEmpty
    <3>2. R(0) = Captured(c, kept, call, s, <<>>)  BY <1>4, Zenon
    <3> QED  BY <1>1, <3>1, <3>2, Zenon
  <2>2. IsSdk(s)  BY DEF Ledger
  <2>3. Progress(s, s, call, scope, o)  BY <2>2, BecomesSame DEF Progress
  <2> QED  BY <2>1, <2>3
<1>6. ASSUME NEW n \in Q PROVE n + 1 \in Q
  <2>1. SUFFICES ASSUME n + 1 <= Len(items) PROVE Progress(s, R(n + 1), call, scope, o)
    OBVIOUS
  <2>2. n \in Nat /\ n < Len(items)  BY <1>4, <2>1
  <2>3. PICK u, x : u = SubSeq(items, 1, n) /\ x = items[n + 1]  OBVIOUS
  <2>4. u \in Seq(S) /\ x \in S /\ SubSeq(items, 1, n + 1) = Append(u, x)
    BY <1>3, <2>2, <2>3, Capturing!PrefixAppend
  <2>5. Capturing!Fold(c, kept, call, s, Append(u, x))
          = ItemStep(c, kept, call, Capturing!Fold(c, kept, call, s, u), x)
    BY <2>4, Capturing!FoldAppend
  <2>6. PICK t : t = R(n)  OBVIOUS
  <2>7. R(n + 1) = CaptureItem(c, t, x, kept, call)
    BY <1>1, <2>3, <2>4, <2>5, <2>6, Zenon DEF ItemStep
  <2>8. Progress(s, t, call, scope, o)  BY <2>2, <2>6
  <2>9. c # None /\ x.kind = "event" => Source(call, o, x.value)
    <3>1. n + 1 \in DOMAIN items  BY <1>3, <2>2
    <3> QED  BY <1>2, <2>3, <3>1
  <2>10. Ledger(t, scope, o) /\ Becomes(s, t, ItemFields) /\ (call.op # "panic" => Panics(t.fates) = Panics(s.fates))
    BY <2>8 DEF Progress
  <2>11. Progress(t, R(n + 1), call, scope, o)  BY <2>7, <2>9, <2>10, LedgerItem
  <2> HIDE DEF R
  <2>12. Becomes(s, R(n + 1), ItemFields)  BY <2>10, <2>11 DEF Progress, Becomes
  <2> QED  BY <2>10, <2>11, <2>12 DEF Progress
<1>7. Q = Nat
  <2> HIDE DEF R
  <2>1. Q \in SUBSET Nat  OBVIOUS
  <2> QED  BY <1>5, <1>6, <2>1, Capturing!SetInduction
<1>8. Progress(s, R(Len(items)), call, scope, o)
  <2> HIDE DEF R
  <2>1. Len(items) \in Q  BY <1>4, <1>7
  <2> QED  BY <1>4, <2>1
<1> QED  BY <1>4, <1>8

\* One panic handler.
LEMMA LedgerReport ==
  ASSUME NEW s, NEW scope, ScopeOk(scope), NEW o, Ledger(s, scope, o), NEW c, c # None, ClientOk(c, o),
         NEW call, CallOk(call), call.op = "panic", NEW kept
  PROVE  LET t == PanicReport(c, s, kept, call) IN
         /\ Ledger(t, scope, o)
         /\ Becomes(s, t, Captures \cup {"logs", "metrics"})
         /\ Panics(t.fates) <= Panics(s.fates) + 1 /\ Panics(t.fates) \in Nat /\ Panics(s.fates) \in Nat
<1>1. PICK t : t = PanicReport(c, s, kept, call)  OBVIOUS
<1>2. IsSdk(s) /\ IsSeq(s.fates)  BY DEF Ledger, Losts
<1>3. Panics(s.fates) \in Nat  BY <1>2, PanicsAppend
<1>4. t = s \/ \E b \in BOOLEAN : t = FlushBatches(c, CaptureEvent(c, s, EventFromPanic(b), kept, call))
  BY <1>1, Zenon DEF PanicReport
<1>5. CASE t = s  BY <1>1, <1>2, <1>3, <1>5, BecomesSame
<1>6. ASSUME NEW b \in BOOLEAN, t = FlushBatches(c, CaptureEvent(c, s, EventFromPanic(b), kept, call))
      PROVE  /\ Ledger(t, scope, o)
             /\ Becomes(s, t, Captures \cup {"logs", "metrics"})
             /\ Panics(t.fates) <= Panics(s.fates) + 1 /\ Panics(t.fates) \in Nat
  <2>1. PICK u, v : u = CaptureEvent(c, s, v, kept, call) /\ v = EventFromPanic(b)  OBVIOUS
  <2>2. Source(call, o, v)  BY <2>1 DEF Source
  <2>3. Ledger(u, scope, o) /\ Becomes(s, u, Captures) /\ OneMore(s.fates, u.fates, call)
    BY <2>1, <2>2, LedgerCapture
  <2>4. Ledger(t, scope, o) /\ Becomes(u, t, {"outbox", "pending", "logs", "metrics"})
    BY <1>6, <2>1, <2>3, LedgerFlush
  <2>5. Becomes(s, t, Captures \cup {"logs", "metrics"})  BY <2>3, <2>4 DEF Becomes, Captures
  <2>6. t.fates = u.fates  BY <2>4 DEF Becomes, SdkFields
  <2>7. Panics(u.fates) <= Panics(s.fates) + 1 /\ Panics(u.fates) \in Nat
    <3>1. PICK before, after : before = s.fates /\ after = u.fates  OBVIOUS
    <3>2. CASE after = before  BY <1>3, <3>1, <3>2
    <3>3. ASSUME NEW f, after = Append(before, f) PROVE Panics(after) <= Panics(before) + 1 /\ Panics(after) \in Nat
      <4>1. Panics(after) = IF f.call.op = "panic" THEN Panics(before) + 1 ELSE Panics(before)
        BY <1>2, <3>1, <3>3, PanicsAppend
      <4> QED  BY <1>3, <3>1, <4>1
    <3> QED  BY <2>3, <3>1, <3>2, <3>3 DEF OneMore
  <2> QED  BY <2>4, <2>5, <2>6, <2>7
<1> QED  BY <1>1, <1>3, <1>4, <1>5, <1>6
-----------------------------------------------------------------------------
(* The options a client is made with *)

\* A result is an error or has a value.
LEMMA OkFacts ==
  ASSUME NEW v, NEW e
  PROVE  Ok(v).ok /\ Ok(v).value = v /\ ~Err(e).ok
BY DEF Ok, Err

\* One option is changed.
LEMMA OptionExcept ==
  ASSUME NEW o, OptionsOk(o), NEW f, NEW v, f = "integrations" => IsSeq(v),
         f = "in_app_include" => \A p \in v : IsSeq(p)
  PROVE  OptionsOk([o EXCEPT ![f] = v])
<1>1. PICK D : D = DOMAIN DefaultOptions  OBVIOUS
<1>2. o = [g \in D |-> o[g]] /\ IsSeq(o.integrations) /\ "integrations" \in D
      /\ (\A p \in o.in_app_include : IsSeq(p)) /\ "in_app_include" \in D
  BY <1>1 DEF OptionsOk, DefaultOptions
<1>3. PICK n : n = [o EXCEPT ![f] = v]  OBVIOUS
<1>4. n = [g \in D |-> n[g]] /\ n.integrations = (IF f = "integrations" THEN v ELSE o.integrations)
      /\ n.in_app_include = (IF f = "in_app_include" THEN v ELSE o.in_app_include)
  BY <1>2, <1>3
<1> QED  BY <1>1, <1>2, <1>3, <1>4 DEF OptionsOk

\* The one option a setter changes, and what it is told of it.
SetBy(o, call, f, v) ==
  /\ f = IF call.set = "maybe_release" THEN "release"
         ELSE IF call.set = "add_integration" THEN "integrations" ELSE call.set
  /\ call.set = "maybe_release" => v = IF call.value = None THEN o.release ELSE call.value
  /\ call.set \notin {"dsn", "sample_rate", "maybe_release", "add_integration"} => v = call.value
  /\ f = "integrations" => IsSeq(v)

\* A setter of ClientOptions that does not panic changes its option.
LEMMA SetterChanges ==
  ASSUME NEW o, OptionsOk(o), NEW call, SetterOk(call), Setter(o, call).ok
  PROVE  \E f, v : SetBy(o, call, f, v) /\ Setter(o, call).value = [o EXCEPT ![f] = v]
<1>1. PICK r : r = Setter(o, call)  OBVIOUS
<1>2. ASSUME NEW f, NEW v, SetBy(o, call, f, v), r = Ok([o EXCEPT ![f] = v])
      PROVE  \E g, w : SetBy(o, call, g, w) /\ r.value = [o EXCEPT ![g] = w]
  <2>1. r.value = [o EXCEPT ![f] = v]  BY <1>2, OkFacts
  <2> QED  BY <1>2, <2>1
<1>3. ASSUME NEW e, r = Err(e) PROVE FALSE  BY <1>1, <1>3, OkFacts
<1>4. CASE call.set = "dsn"
  <2>1. r = SetDsn(o, call.value)  BY <1>1, <1>4 DEF Setter
  <2>2. (\E e : r = Err(e)) \/ \E v : r = Ok([o EXCEPT !["dsn"] = v])  BY <2>1, Zenon DEF SetDsn
  <2>3. \A v : SetBy(o, call, "dsn", v)  BY <1>4 DEF SetBy
  <2> QED  BY <1>1, <1>2, <1>3, <2>2, <2>3
<1>5. CASE call.set = "sample_rate"
  <2>1. r = SetRate(o, call.value)  BY <1>1, <1>5 DEF Setter
  <2>2. (\E e : r = Err(e)) \/ \E v : r = Ok([o EXCEPT !["sample_rate"] = v])  BY <2>1, Zenon DEF SetRate
  <2>3. \A v : SetBy(o, call, "sample_rate", v)  BY <1>5 DEF SetBy
  <2> QED  BY <1>1, <1>2, <1>3, <2>2, <2>3
<1>6. CASE call.set = "maybe_release"
  <2>1. r = Ok(SetRelease(o, call.value))  BY <1>1, <1>6 DEF Setter
  <2>2. PICK v : v = IF call.value = None THEN o.release ELSE call.value  OBVIOUS
  <2>3. SetRelease(o, call.value) = [o EXCEPT !["release"] = v]  BY <2>2 DEF SetRelease
  <2>4. SetBy(o, call, "release", v)  BY <1>6, <2>2 DEF SetBy
  <2> QED  BY <1>1, <1>2, <2>1, <2>3, <2>4
<1>7. CASE call.set = "add_integration"
  <2>1. r = Ok(AddIntegration(o, call.value))  BY <1>1, <1>7 DEF Setter
  <2>2. PICK more : more = Append(o.integrations, call.value)  OBVIOUS
  <2>3. IsSeq(more)  BY <2>2, AppendIsSeq DEF OptionsOk
  <2>4. AddIntegration(o, call.value) = [o EXCEPT !["integrations"] = more]  BY <2>2 DEF AddIntegration
  <2>5. SetBy(o, call, "integrations", more)  BY <1>7, <2>3 DEF SetBy
  <2> QED  BY <1>1, <1>2, <2>1, <2>4, <2>5
<1>8. CASE call.set \notin {"dsn", "sample_rate", "maybe_release", "add_integration"}
  <2>1. r = Ok([o EXCEPT ![call.set] = call.value])
    BY <1>1, <1>8 DEF Setter, SetCallback, SetList, Set
  <2>2. SetBy(o, call, call.set, call.value)  BY <1>8 DEF SetBy, SetterOk
  <2> QED  BY <1>1, <1>2, <2>1, <2>2
<1> QED  BY <1>4, <1>5, <1>6, <1>7, <1>8

\* The last setter of a name that was given a value.
LastAsk(setters, name) == SelectLastInSeq(setters, LAMBDA call : call.set \in {name} /\ call.value # None)

\* What setters, after the options o, say of one option.
AskedOf(o, setters, option, name) ==
  IF LastAsk(setters, name) = 0 THEN o[option] ELSE setters[LastAsk(setters, name)].value

\* No setter was called.
LEMMA AskedFirst ==
  ASSUME NEW o, NEW option, NEW name
  PROVE  AskedOf(o, <<>>, option, name) = o[option]
<1> DEFINE I(s) == { i \in 1 .. Len(s) : s[i].set \in {name} /\ s[i].value # None }
<1>1. \A s : LastAsk(s, name) = IF I(s) # {} THEN Max(I(s)) ELSE 0  BY Zenon DEF LastAsk, SelectLastInSeq
<1>2. I(<<>>) = {}  OBVIOUS
<1>3. LastAsk(<<>>, name) = 0  BY <1>1, <1>2
<1> QED  BY <1>3 DEF AskedOf

\* One setter more.
LEMMA AskedMore ==
  ASSUME NEW o, NEW u, IsSeq(u), NEW x, NEW option, NEW name
  PROVE  AskedOf(o, Append(u, x), option, name) =
           IF x.set = name /\ x.value # None THEN x.value ELSE AskedOf(o, u, option, name)
<1> DEFINE T(call) == call.set \in {name} /\ call.value # None
           I(s) == { i \in 1 .. Len(s) : T(s[i]) }
<1>1. \A s : LastAsk(s, name) = IF I(s) # {} THEN Max(I(s)) ELSE 0  BY Zenon DEF LastAsk, SelectLastInSeq
<1>3. PICK n, w : n = Len(u) /\ w = Append(u, x)  OBVIOUS
<1>4. n \in Nat /\ Len(w) = n + 1 /\ w[n + 1] = x /\ \A i \in 1 .. n : w[i] = u[i]  BY <1>3, AppendIsSeq
<1>5. CASE T(x)
  <2>1. n + 1 \in I(w) /\ \A i \in I(w) : n + 1 >= i  BY <1>4, <1>5
  <2>2. I(w) \in SUBSET (1 .. n + 1)  BY <1>4
  <2> HIDE DEF I
  <2>3. Max(I(w)) = n + 1  BY <1>4, <2>1, <2>2 DEF Max
  <2>4. LastAsk(w, name) = n + 1  BY <1>1, <2>1, <2>3
  <2> QED  BY <1>3, <1>4, <1>5, <2>4 DEF AskedOf
<1>6. CASE ~T(x)
  <2>1. I(w) = I(u)  BY <1>3, <1>4, <1>6
  <2>2. I(u) = {} \/ Max(I(u)) \in 1 .. n
    <3>1. I(u) \in SUBSET (1 .. n)  BY <1>3
    <3> HIDE DEF I
    <3>2. I(u) # {} => Filtering!Max(I(u)) \in I(u)  BY <1>4, <3>1, Filtering!MaxOf
    <3>3. I(u) # {} => Max(I(u)) \in I(u)  BY <3>2 DEF Max, Filtering!Max
    <3> QED  BY <3>1, <3>3
  <2> HIDE DEF I
  <2>3. LastAsk(w, name) = LastAsk(u, name) /\ LastAsk(u, name) \in 0 .. n  BY <1>1, <1>4, <2>1, <2>2
  <2>4. LastAsk(u, name) = 0 \/ w[LastAsk(u, name)] = u[LastAsk(u, name)]  BY <1>4, <2>3
  <2>5. AskedOf(o, w, option, name) = AskedOf(o, u, option, name)  BY <2>3, <2>4 DEF AskedOf
  <2> QED  BY <1>3, <1>6, <2>5
<1> QED  BY <1>5, <1>6

\* The options n are what was asked for last.
Told(o, setters, n) ==
  /\ n.release = AskedOf(o, setters, "release", "maybe_release")
  /\ n.environment = AskedOf(o, setters, "environment", "environment")
  /\ n.http_proxy = AskedOf(o, setters, "http_proxy", "http_proxy")
  /\ n.https_proxy = AskedOf(o, setters, "https_proxy", "https_proxy")
  /\ n.send_default_pii = AskedOf(o, setters, "send_default_pii", "send_default_pii")

\* One setter gives options again, those it was asked for.
LEMMA SetterKeeps ==
  ASSUME NEW base, NEW u, IsSeq(u), NEW o, OptionsOk(o), Told(base, u, o),
         NEW call, SetterOk(call), Setter(o, call).ok
  PROVE  OptionsOk(Setter(o, call).value) /\ Told(base, Append(u, call), Setter(o, call).value)
<1>1. PICK f, v : SetBy(o, call, f, v) /\ Setter(o, call).value = [o EXCEPT ![f] = v]  BY SetterChanges
<1>2. PICK n : n = [o EXCEPT ![f] = v]  OBVIOUS
<1>3. OptionsOk(n)
  <2>1. f = "in_app_include" => \A p \in v : IsSeq(p)  BY <1>1 DEF SetBy, SetterOk
  <2> QED  BY <1>1, <1>2, <2>1, OptionExcept DEF SetBy
<1>4. PICK D : D = DOMAIN DefaultOptions  OBVIOUS
<1>5. o = [g \in D |-> o[g]]  BY <1>4 DEF OptionsOk
<1>6. "release" \in D /\ "environment" \in D /\ "http_proxy" \in D /\ "https_proxy" \in D /\ "send_default_pii" \in D
  BY <1>4 DEF DefaultOptions
<1>7. \A g \in D : n[g] = IF g = f THEN v ELSE o[g]  BY <1>2, <1>5
<1>8. call.set \in (D \ {"release"}) \cup {"maybe_release", "add_integration"}
  BY <1>4 DEF SetterOk, SetterNames
<1>9. ASSUME NEW name \in {"environment", "http_proxy", "https_proxy", "send_default_pii"}
      PROVE  /\ call.set = name => f = name /\ v = call.value /\ v # None
             /\ call.set # name => f # name
  BY <1>1, <1>9 DEF SetBy, SetterOk
<1>10. n.release = AskedOf(base, Append(u, call), "release", "maybe_release")
  <2>1. PICK w : w = AskedOf(base, Append(u, call), "release", "maybe_release")  OBVIOUS
  <2>2. w = IF call.set = "maybe_release" /\ call.value # None THEN call.value ELSE o.release
    <3>1. AskedOf(base, Append(u, call), "release", "maybe_release")
            = IF call.set = "maybe_release" /\ call.value # None THEN call.value
              ELSE AskedOf(base, u, "release", "maybe_release")
      BY AskedMore
    <3>2. AskedOf(base, u, "release", "maybe_release") = o.release  BY Zenon DEF Told
    <3> QED  BY <2>1, <3>1, <3>2, Zenon
  <2>3. CASE call.set = "maybe_release"
    <3>1. f = "release" /\ v = IF call.value = None THEN o.release ELSE call.value  BY <1>1, <2>3 DEF SetBy
    <3>2. n.release = v  BY <1>6, <1>7, <3>1
    <3> QED  BY <2>1, <2>2, <2>3, <3>1, <3>2
  <2>4. CASE call.set # "maybe_release"
    <3>1. f # "release"  BY <1>1, <1>8, <2>4 DEF SetBy
    <3>2. n.release = o.release  BY <1>6, <1>7, <3>1
    <3> QED  BY <2>1, <2>2, <2>4, <3>2
  <2> QED  BY <2>3, <2>4
<1>11. ASSUME NEW y, NEW z
       PROVE  AskedOf(base, Append(u, call), y, z)
                = IF call.set = z /\ call.value # None THEN call.value ELSE AskedOf(base, u, y, z)
  BY AskedMore
<1>12. ASSUME NEW name \in {"environment", "http_proxy", "https_proxy", "send_default_pii"}
       PROVE  n[name] = AskedOf(base, Append(u, call), name, name)
  <2>1. o[name] = AskedOf(base, u, name, name) /\ name \in D  BY <1>6, <1>12 DEF Told
  <2>2. PICK w : w = AskedOf(base, Append(u, call), name, name)  OBVIOUS
  <2>3. w = IF call.set = name /\ call.value # None THEN call.value ELSE o[name]
    <3>1. AskedOf(base, Append(u, call), name, name)
            = IF call.set = name /\ call.value # None THEN call.value ELSE AskedOf(base, u, name, name)
      BY <1>11
    <3>2. w = IF call.set = name /\ call.value # None THEN call.value ELSE AskedOf(base, u, name, name)
      BY <2>2, <3>1
    <3> QED  BY <2>1, <3>2
  <2>4. (call.set = name => f = name /\ v = call.value /\ v # None) /\ (call.set # name => f # name)
    BY <1>9, <1>12, Zenon
  <2>5. n[name] = IF name = f THEN v ELSE o[name]  BY <1>7, <2>1
  <2>6. n[name] = w
    <3>1. CASE call.set = name  BY <2>3, <2>4, <2>5, <3>1
    <3>2. CASE call.set # name  BY <2>3, <2>4, <2>5, <3>2
    <3> QED  BY <3>1, <3>2
  <2> QED  BY <2>2, <2>6
<1> QED  BY <1>1, <1>2, <1>3, <1>10, <1>12 DEF Told

SetStep(p, q, r, acc, call) == IF acc.ok THEN Setter(acc.value, call) ELSE acc
SetKept(p, q, r, u, acc) == acc.ok => OptionsOk(acc.value) /\ Told(r, u, acc.value)
Setting == INSTANCE Folds_proofs WITH FoldStep <- SetStep, FoldKept <- SetKept

\* So do all setters the application calls.
LEMMA BuiltOk ==
  ASSUME NEW o, OptionsOk(o), NEW setters, IsSeq(setters), \A i \in DOMAIN setters : SetterOk(setters[i]),
         Built(o, setters).ok
  PROVE  OptionsOk(Built(o, setters).value) /\ Told(o, setters, Built(o, setters).value)
<1>1. PICK S : S = { setters[i] : i \in DOMAIN setters }  OBVIOUS
<1>2. setters \in Seq(S)
  <2>1. PICK n \in Nat : n = Len(setters) /\ setters = [i \in 1 .. n |-> setters[i]]  BY DEF IsSeq
  <2> QED  BY <1>1, <2>1
<1>3. SetKept(0, 0, o, <<>>, Ok(o))
  <2>1. Told(o, <<>>, o)  BY AskedFirst DEF Told
  <2> QED  BY <2>1, OkFacts DEF SetKept
<1>4. ASSUME NEW u \in Seq(S), NEW acc, NEW x \in S, SetKept(0, 0, o, u, acc)
      PROVE  SetKept(0, 0, o, Append(u, x), SetStep(0, 0, o, acc, x))
  <2>1. SetterOk(x)  BY <1>1, <1>4
  <2>2. IsSeq(u)  BY SeqIsSeq
  <2> QED  BY <1>4, <2>1, <2>2, SetterKeeps DEF SetKept, SetStep
<1>5. SetKept(0, 0, o, setters, Setting!Fold(0, 0, o, Ok(o), setters))
  BY <1>2, <1>3, <1>4, Setting!FoldInduction
<1>6. Built(o, setters) = Setting!Fold(0, 0, o, Ok(o), setters)
  BY Zenon DEF Built, SetStep, Setting!Fold, FoldLeft, MapThenFoldSet,
     Setting!MapThenFoldSet, Max, Setting!Max
<1> QED  BY <1>5, <1>6 DEF SetKept

SetUpStep(p, q, r, o, i) == SetUp(i, o)
SetUpKept(p, q, r, u, o) ==
  OptionsOk(o) /\ \A f \in DOMAIN DefaultOptions \ {"server_name"} : o[f] = r[f]
Preparing == INSTANCE Folds_proofs WITH FoldStep <- SetUpStep, FoldKept <- SetUpKept

\* The options m have the defaults of apply_defaults where o has none of its own.
Defaulted(m, o, env) ==
  /\ m.release = OrElse(o.release, env.SENTRY_RELEASE)
  /\ m.environment = OrElse(OrElse(o.environment, env.SENTRY_ENVIRONMENT), BuildEnvironment(env))
  /\ m.http_proxy = OrElse(o.http_proxy, HttpProxyVar(env))
  /\ m.https_proxy = OrElse(OrElse(o.https_proxy, HttpsProxyVar(env)), m.http_proxy)
  /\ m.send_default_pii = o.send_default_pii
  /\ m.default_integrations = o.default_integrations
  /\ m.integrations = OrderedIntegrations(o)

\* apply_defaults gives options with the defaults.
LEMMA DefaultsOk ==
  ASSUME NEW o, OptionsOk(o), NEW env
  PROVE  OptionsOk(ApplyDefaults(o, env)) /\ Defaulted(ApplyDefaults(o, env), o, env)
<1>1. PICK d : d = ApplyDefaults(o, env)  OBVIOUS
<1>2. PICK a, b, c, e, gs : /\ a = OrElse(o.release, env.SENTRY_RELEASE)
                            /\ b = OrElse(OrElse(o.environment, env.SENTRY_ENVIRONMENT), BuildEnvironment(env))
                            /\ c = OrElse(o.http_proxy, HttpProxyVar(env))
                            /\ e = OrElse(OrElse(o.https_proxy, HttpsProxyVar(env)), OrElse(o.http_proxy, HttpProxyVar(env)))
                            /\ gs = OrderedIntegrations(o)
  OBVIOUS
<1>3. \E t, x, y : d = [o EXCEPT !.transport = t, !.integrations = gs, !.dsn = x, !.release = a, !.environment = b,
                                !.http_proxy = c, !.https_proxy = e, !.accept_invalid_certs = y]
  BY <1>1, <1>2 DEF ApplyDefaults
<1>4. PICK t, x, y : d = [o EXCEPT !.transport = t, !.integrations = gs, !.dsn = x, !.release = a, !.environment = b,
                                !.http_proxy = c, !.https_proxy = e, !.accept_invalid_certs = y]
  BY <1>3
<1>5. IsSeq(gs)
  <2>1. IsSeq(<<>>)  BY EmptyIsSeq
  <2>2. IsSeq(DefaultIntegrations)
    <3>1. ASSUME NEW k, NEW l, NEW m, NEW n, NEW r PROVE IsSeq(<<k, l, m, n, r>>)
      <4>1. <<k, l, m, n, r>> \in Seq({k, l, m, n, r})  OBVIOUS
      <4> QED  BY <4>1, SeqIsSeq
    <3> QED  BY <3>1, Zenon DEF DefaultIntegrations
  <2> QED  BY <1>2, <2>1, <2>2, ConcatIsSeq DEF OrderedIntegrations, OptionsOk
<1>6. PICK D : D = DOMAIN DefaultOptions  OBVIOUS
<1>7. /\ o = [f \in D |-> o[f]] /\ \A p \in o.in_app_include : IsSeq(p)
      /\ {"integrations", "in_app_include", "release", "environment", "http_proxy", "https_proxy",
          "send_default_pii", "default_integrations"} \subseteq D
  BY <1>6 DEF OptionsOk, DefaultOptions
<1>8. /\ d = [f \in D |-> d[f]] /\ d.integrations = gs /\ d.in_app_include = o.in_app_include
      /\ d.release = a /\ d.environment = b /\ d.http_proxy = c /\ d.https_proxy = e
      /\ d.send_default_pii = o.send_default_pii /\ d.default_integrations = o.default_integrations
  BY <1>4, <1>7
<1>9. OptionsOk(d)  BY <1>5, <1>6, <1>7, <1>8 DEF OptionsOk
<1>10. Defaulted(d, o, env)  BY <1>2, <1>8, Zenon DEF Defaulted
<1> QED  BY <1>1, <1>9, <1>10

\* The options of a client are as the application's, its integrations set up.
LEMMA SetUpOk ==
  ASSUME NEW o, OptionsOk(o), NEW env
  PROVE  OptionsOk(SetUpAll(ApplyDefaults(o, env))) /\ Defaulted(SetUpAll(ApplyDefaults(o, env)), o, env)
<1>1. PICK d : d = ApplyDefaults(o, env)  OBVIOUS
<1>2. OptionsOk(d) /\ Defaulted(d, o, env)  BY <1>1, DefaultsOk
<1>3. PICK S : d.integrations \in Seq(S)  BY <1>2, Common DEF OptionsOk
<1>4. ASSUME NEW u \in Seq(S), NEW acc, NEW i \in S, SetUpKept(0, 0, d, u, acc)
      PROVE  SetUpKept(0, 0, d, Append(u, i), SetUpStep(0, 0, d, acc, i))
  <2>1. OptionsOk(acc)  BY <1>4 DEF SetUpKept
  <2>2. SetUp(i, acc) = acc \/ \E v : SetUp(i, acc) = [acc EXCEPT !.server_name = v]  BY DEF SetUp
  <2>3. ASSUME NEW v, SetUp(i, acc) = [acc EXCEPT !.server_name = v]
        PROVE  SetUpKept(0, 0, d, Append(u, i), SetUp(i, acc))
    <3>1. OptionsOk([acc EXCEPT !.server_name = v])  BY <2>1, OptionExcept
    <3>2. PICK D : D = DOMAIN DefaultOptions  OBVIOUS
    <3>3. acc = [f \in D |-> acc[f]]  BY <2>1, <3>2 DEF OptionsOk
    <3>4. PICK n : n = [acc EXCEPT !.server_name = v]  OBVIOUS
    <3>5. \A f \in D \ {"server_name"} : n[f] = acc[f]  BY <3>3, <3>4
    <3> QED  BY <1>4, <2>3, <3>1, <3>2, <3>4, <3>5 DEF SetUpKept
  <2>4. CASE SetUp(i, acc) = acc  BY <1>4, <2>4 DEF SetUpKept, SetUpStep
  <2> QED  BY <2>2, <2>3, <2>4 DEF SetUpStep
<1>5. SetUpKept(0, 0, d, d.integrations, Preparing!Fold(0, 0, d, d, d.integrations))
  <2>1. SetUpKept(0, 0, d, <<>>, d)  BY <1>2 DEF SetUpKept
  <2> QED  BY <1>3, <1>4, <2>1, Preparing!FoldInduction
<1>6. PICK m : m = SetUpAll(d)  OBVIOUS
<1>7. m = Preparing!Fold(0, 0, d, d, d.integrations)
  BY <1>6, Zenon DEF SetUpAll, SetUpStep, Preparing!Fold, FoldLeft, MapThenFoldSet,
     Preparing!MapThenFoldSet, Max, Preparing!Max
<1>8. OptionsOk(m) /\ \A f \in DOMAIN DefaultOptions \ {"server_name"} : m[f] = d[f]
  BY <1>5, <1>7 DEF SetUpKept
<1>9. /\ m.release = d.release /\ m.environment = d.environment /\ m.http_proxy = d.http_proxy
      /\ m.https_proxy = d.https_proxy /\ m.send_default_pii = d.send_default_pii
      /\ m.default_integrations = d.default_integrations /\ m.integrations = d.integrations
  BY <1>8 DEF DefaultOptions
<1>10. Defaulted(m, o, env)  BY <1>2, <1>9, Zenon DEF Defaulted
<1> QED  BY <1>1, <1>6, <1>8, <1>10
-----------------------------------------------------------------------------
(* The invariant of the application *)

\* The options sentry::init makes the client with, when it does not panic.
Mine == SetUpAll(ApplyDefaults(Given(Built(scenario.options, scenario.setters)).value, scenario.env))

\* sentry::init does not panic on what it is given.
Accepted == Given(Built(scenario.options, scenario.setters)).ok

ClientIs(c, o) ==
  c = [options |-> c.options, enabled |-> c.enabled, closed |-> c.closed] /\ ClientOk(c, o)

Account ==
  /\ scenario \in Scenarios
  /\ Ledger(sdk, scenario.scope, Mine)
  /\ sdk.panics \in Nat /\ Panics(sdk.fates) <= sdk.panics
  /\ hooks \in {0, 1}
  /\ client = None \/ ClientIs(client, Mine)
  /\ phase = "running" => ClientIs(client, Mine)
  /\ client # None \/ phase = "running" => Accepted

\* What the calls of the application leave alone.
Rest == <<scenario, phase, client, hooks>>

\* A step of sdk alone keeps the invariant.
LEMMA AccountStep ==
  ASSUME Account, UNCHANGED Rest, Ledger(sdk', scenario.scope, Mine),
         sdk'.panics \in Nat, Panics(sdk'.fates) <= sdk'.panics
  PROVE  Account'
<1>1. scenario' = scenario /\ phase' = phase /\ client' = client /\ hooks' = hooks  BY DEF Rest
<1>2. Mine' = Mine /\ Accepted' = Accepted  BY <1>1 DEF Mine, Accepted, Given
<1> QED  BY <1>1, <1>2 DEF Account

\* What ScenariosAssumption says of the application at hand.
LEMMA ScenarioFacts ==
  ASSUME Account
  PROVE  /\ ScopeOk(scenario.scope) /\ OptionsOk(scenario.options) /\ IsSeq(scenario.setters)
         /\ \A call \in scenario.calls : CallOk(call)
         /\ \A i \in DOMAIN scenario.setters : SetterOk(scenario.setters[i])
         /\ IsSdk(sdk)
BY ScenariosAssumption DEF Account, Ledger

\* The ledger of an application that has captured nothing.
LEMMA EmptyLedger ==
  ASSUME NEW scope, ScopeOk(scope), NEW o, NEW s, IsSdk(s), s.outbox = <<>>, s.fates = <<>>, s.pending = <<>>,
         s.unreported = <<>>, s.ids = 0, s.last_event_id = None, s.scope = scope
  PROVE  Ledger(s, scope, o)
<1>1. PICK none : none = <<>>  OBVIOUS
<1>2. IsSeq(none) /\ DOMAIN none = {} /\ Len(none) = 0  BY <1>1, EmptyIsSeq
<1>3. SentIn("event", none) = none /\ SentIn("client_report", none) = none /\ LossesIn(none) = none
  BY <1>1, SentInSteps, LossesInSteps
<1>4. \A f : Met(none, f) = 0
  <2>1. \A f : { i \in DOMAIN none : none[i].fate = f } = {}  BY <1>2
  <2> QED  BY <2>1, FS_EmptySet DEF Met
<1>5. Sents(none, none, scope, o)
  <2>1. FateIds(none) = {} /\ EventIds(none) = {}  BY <1>2 DEF FateIds, EventIds
  <2> QED  BY <1>2, <1>3, <1>4, <2>1 DEF Sents
<1>6. Losts(none, none, none, none)
  <2>1. none \o none \o none = none  BY <1>1
  <2>2. \A x : Count(none, x) = 0  BY <1>1, <1>2, CountAppend
  <2> QED  BY <1>2, <1>3, <1>4, <2>1, <2>2 DEF Losts, AllLosses, Counted
<1>7. IdsOk(none, 0) /\ LastOk(None, none)  BY <1>2 DEF IdsOk, LastOk
<1>8. s.scope = WithCrumbs(scope, scope.breadcrumbs)  BY CrumbsFacts
<1> QED  BY <1>1, <1>5, <1>6, <1>7, <1>8 DEF Ledger

\* The invariant holds at first.
LEMMA AccountInit == Init => Account
<1> SUFFICES ASSUME Init PROVE Account  OBVIOUS
<1>1. scenario \in Scenarios /\ phase = "start" /\ client = None /\ hooks = 0  BY DEF Init
<1>2. ScopeOk(scenario.scope)  BY <1>1, ScenariosAssumption
<1>3. PICK s : s = sdk  OBVIOUS
<1>4. s = [scope |-> scenario.scope, session |-> None, last_event_id |-> None,
            logs |-> <<>>, metrics |-> <<>>, pending |-> <<>>, unreported |-> <<>>,
            outbox |-> <<>>, trail |-> <<>>, fates |-> <<>>, ids |-> 0, panics |-> 0, calls |-> 0]
  BY <1>3, Zenon DEF Init
<1>5. IsSdk(s) /\ s.outbox = <<>> /\ s.fates = <<>> /\ s.pending = <<>>
      /\ s.unreported = <<>> /\ s.ids = 0 /\ s.last_event_id = None /\ s.scope = scenario.scope /\ s.panics = 0
  <2>1. DOMAIN s = SdkFields  BY <1>4 DEF SdkFields
  <2>2. s = [f \in DOMAIN s |-> s[f]]  BY <1>4
  <2> QED  BY <1>4, <2>1, <2>2 DEF IsSdk
<1>6. Ledger(s, scenario.scope, Mine)  BY <1>2, <1>5, EmptyLedger
<1>7. Panics(s.fates) = 0  BY <1>5, EmptyIsSeq, PanicsAppend
<1> QED  BY <1>1, <1>3, <1>5, <1>6, <1>7 DEF Account

\* The items of one call.
LEMMA AccountItems ==
  ASSUME Account, NEW call \in scenario.calls, call.op \in ItemOps, CaptureItems(call)
  PROVE  Account'
<1>1. UNCHANGED Rest  BY DEF CaptureItems, Rest
<1>2. PICK kept \in RandomChoices :
        sdk' = [FoldLeft(LAMBDA s, item : CaptureItem(client, s, item, kept, call), sdk,
                         Items(call, IF client = None THEN DefaultOptions ELSE client.options))
                  EXCEPT !.calls = @ + 1]
  BY Zenon DEF CaptureItems
<1>3. PICK items : items = Items(call, IF client = None THEN DefaultOptions ELSE client.options)  OBVIOUS
<1>4. PICK t : t = Captured(client, kept, call, sdk, items)  OBVIOUS
<1>5. sdk' = [t EXCEPT !.calls = @ + 1]  BY <1>2, <1>3, <1>4, Zenon DEF Captured
<1>6. /\ ScopeOk(scenario.scope) /\ CallOk(call) /\ IsSdk(sdk) /\ Ledger(sdk, scenario.scope, Mine)
      /\ client = None \/ ClientOk(client, Mine)
  BY ScenarioFacts DEF Account, ClientIs
<1>7. IsSeq(items) /\ (client # None => EventsFrom(items, call, Mine))
  <2>1. EventsFrom(items, call, IF client = None THEN DefaultOptions ELSE client.options)  BY <1>3, ItemsFacts
  <2> QED  BY <1>6, <2>1 DEF EventsFrom, ClientOk
<1>8. Progress(sdk, t, call, scenario.scope, Mine)  BY <1>4, <1>6, <1>7, LedgerItems
<1>9. call.op # "panic"  BY DEF ItemOps
<1>10. Ledger(t, scenario.scope, Mine) /\ Panics(t.fates) = Panics(sdk.fates) /\ t.panics = sdk.panics /\ IsSdk(t)
  BY <1>8, <1>9 DEF Progress, Becomes, ItemFields, Captures, SdkFields
<1>11. Becomes(t, sdk', {"calls"})
  <2>1. PICK f \in SdkFields : f = "calls"  BY DEF SdkFields
  <2>2. PICK n : n = t.calls + 1  OBVIOUS
  <2>3. sdk' = [t EXCEPT ![f] = n]  BY <1>5, <2>1, <2>2
  <2> QED  BY <1>10, <2>1, <2>3, SdkExcept
<1>12. Ledger(sdk', scenario.scope, Mine)
  <2>1. Becomes(t, sdk', Aside)  BY <1>11 DEF Becomes, Aside
  <2> QED  BY <1>10, <2>1, LedgerAside
<1>13. sdk'.fates = t.fates /\ sdk'.panics = t.panics  BY <1>11 DEF Becomes, SdkFields
<1>14. sdk'.panics \in Nat /\ Panics(sdk'.fates) <= sdk'.panics  BY <1>10, <1>13 DEF Account
<1> QED  BY <1>1, <1>12, <1>14, AccountStep
-----------------------------------------------------------------------------
\* A call's own count, and that of the panics.
LEMMA Called ==
  ASSUME NEW t, IsSdk(t), NEW u, NEW n, u = [t EXCEPT !.calls = n]
  PROVE  Becomes(t, u, {"calls"})
<1>1. PICK f \in SdkFields : f = "calls"  BY DEF SdkFields
<1>2. u = [t EXCEPT ![f] = n]  BY <1>1
<1> QED  BY <1>1, <1>2, SdkExcept

\* A step that captures no event.
LEMMA AccountQuiet ==
  ASSUME Account, UNCHANGED Rest, NEW t, Ledger(t, scenario.scope, Mine), t.fates = sdk.fates, t.panics = sdk.panics,
         sdk' = t \/ \E n : sdk' = [t EXCEPT !.calls = n]
  PROVE  Account'
<1>1. IsSdk(t)  BY DEF Ledger
<1>2. Becomes(t, sdk', {"calls"})  BY <1>1, Called, BecomesSame
<1>3. Ledger(sdk', scenario.scope, Mine)
  <2>1. Becomes(t, sdk', Aside)  BY <1>2 DEF Becomes, Aside
  <2> QED  BY <2>1, LedgerAside
<1>4. sdk'.fates = sdk.fates /\ sdk'.panics = sdk.panics  BY <1>2 DEF Becomes, SdkFields
<1> QED  BY <1>3, <1>4, AccountStep DEF Account

\* The calls that go through Hub::with_active.
LEMMA AccountWithActive ==
  ASSUME Account, NEW call \in scenario.calls, call.op \in ItemOps, WithActive(call)
  PROVE  Account'
<1>1. CASE Active  BY <1>1, AccountItems DEF WithActive
<1>2. CASE ~Active
  <2>1. UNCHANGED Rest /\ \E n : sdk' = [sdk EXCEPT !.calls = n]  BY <1>2 DEF WithActive, Rest
  <2> QED  BY <2>1, AccountQuiet DEF Account
<1> QED  BY <1>1, <1>2

\* The capture of a metric.
LEMMA AccountMetric ==
  ASSUME Account, NEW call, CallMetric(call)
  PROVE  Account'
<1>1. PICK t : t = CaptureMetric(client, sdk, call.metric)  OBVIOUS
<1>2. UNCHANGED Rest /\ \E n : sdk' = [t EXCEPT !.calls = n]  BY <1>1 DEF CallMetric, Rest
<1>3. Ledger(t, scenario.scope, Mine) /\ Becomes(sdk, t, {"pending", "metrics"})
  BY <1>1, LedgerMetric DEF Account
<1>4. t.fates = sdk.fates /\ t.panics = sdk.panics  BY <1>3 DEF Becomes, SdkFields
<1> QED  BY <1>2, <1>3, <1>4, AccountQuiet

\* The flush of the batches.
LEMMA AccountFlush ==
  ASSUME Account, Flush
  PROVE  Account'
<1>1. sdk' = FlushBatches(client, sdk) /\ UNCHANGED Rest  BY DEF Flush, Rest
<1>2. Ledger(sdk', scenario.scope, Mine) /\ Becomes(sdk, sdk', {"outbox", "pending", "logs", "metrics"})
  BY <1>1, LedgerFlush DEF Account
<1>3. sdk'.fates = sdk.fates /\ sdk'.panics = sdk.panics  BY <1>2 DEF Becomes, SdkFields
<1> QED  BY <1>1, <1>2, <1>3, AccountStep DEF Account

\* The finish of a transaction.
LEMMA AccountTransaction ==
  ASSUME Account, NEW call, CallTransaction(call)
  PROVE  Account'
<1>1. UNCHANGED Rest  BY DEF CallTransaction, Rest
<1>2. CASE ~Active
  <2>1. \E n : sdk' = [sdk EXCEPT !.calls = n]  BY <1>2 DEF CallTransaction
  <2> QED  BY <1>1, <2>1, AccountQuiet DEF Account
<1>3. CASE Active
  <2>1. PICK envelope : envelope = FinishedTransaction(client, sdk, call.transaction)  OBVIOUS
  <2>2. sdk' = [Send(sdk, envelope) EXCEPT !.calls = @ + 1, !.ids = @ + 1]
    BY <1>3, <2>1, Zenon DEF CallTransaction
  <2>3. \E base, item : envelope = AddItem(base, item) /\ base.items = <<>> /\ item.type = "transaction"
    <3>1. PICK base, item :
            /\ base = [NewEnvelope EXCEPT !.headers.trace = [trace_id |-> call.transaction.trace_id,
                                                            public_key |-> client.options.dsn.public_key]]
            /\ envelope = AddItem(base, item) /\ item.type = "transaction"
      <4>1. PICK a, b, full : a = "transaction" /\ b = sdk.ids + 1 /\
              full = [ApplyToTransaction(sdk.scope, [call.transaction EXCEPT
                        !.contexts = Extend(@, TraceContext(call.transaction.trace_id))]) EXCEPT
                        !.release = client.options.release, !.environment = client.options.environment,
                        !.server_name = client.options.server_name]
        OBVIOUS
      <4>2. PICK item : item = [type |-> a, id |-> b, event |-> full]  OBVIOUS
      <4>3. item.type = "transaction"  BY <4>1, <4>2
      <4>4. envelope = AddItem([NewEnvelope EXCEPT !.headers.trace = [trace_id |-> call.transaction.trace_id,
                                  public_key |-> client.options.dsn.public_key]], item)
        BY <2>1, <4>1, <4>2, Zenon DEF FinishedTransaction
      <4> QED  BY <4>3, <4>4
    <3>2. base.items = NewEnvelope.items
      <4>1. NewEnvelope = [headers |-> NewEnvelope.headers, items |-> NewEnvelope.items]  BY DEF NewEnvelope
      <4> QED  BY <3>1, <4>1
    <3> QED  BY <3>1, <3>2, NewIsEmpty
  <2>4. PICK t : t = Send(sdk, envelope)  OBVIOUS
  <2>5. Ledger(sdk, scenario.scope, Mine)  BY DEF Account
  <2>6. Ledger(t, scenario.scope, Mine) /\ Becomes(sdk, t, {"outbox", "pending"})
    BY <2>3, <2>4, <2>5, LedgerSendOne
  <2>7. /\ IsSdk(sdk') /\ sdk'.ids = t.ids + 1 /\ sdk'.panics = t.panics
        /\ sdk'.outbox = t.outbox /\ sdk'.fates = t.fates /\ sdk'.pending = t.pending
        /\ sdk'.unreported = t.unreported /\ sdk'.last_event_id = t.last_event_id /\ sdk'.scope = t.scope
    <3>1. PICK D : D = SdkFields  OBVIOUS
    <3>2. t = [f \in D |-> t[f]] /\ "calls" \in D /\ "ids" \in D /\ "panics" \in D /\ "outbox" \in D
          /\ "fates" \in D /\ "pending" \in D /\ "unreported" \in D /\ "last_event_id" \in D /\ "scope" \in D
      BY <2>6, <3>1 DEF Ledger, IsSdk, SdkFields
    <3>3. PICK u : u = sdk'  OBVIOUS
    <3>4. PICK m : m = t.calls + 1  OBVIOUS
    <3>5. PICK n : n = t.ids + 1  OBVIOUS
    <3>6. u = [t EXCEPT !.calls = m, !.ids = n]  BY <2>2, <2>4, <3>3, <3>4, <3>5
    <3>7. u = [f \in D |-> u[f]] /\ u.ids = n /\ \A f \in D \ {"calls", "ids"} : u[f] = t[f]
      BY <3>2, <3>6
    <3> QED  BY <3>1, <3>2, <3>3, <3>5, <3>7 DEF IsSdk
  <2>8. IdsOk(t.fates, t.ids + 1)
    <3>1. IdsOk(t.fates, t.ids)  BY <2>6 DEF Ledger
    <3> QED  BY <3>1 DEF IdsOk
  <2>9. Ledger(sdk', scenario.scope, Mine)  BY <2>6, <2>7, <2>8 DEF Ledger
  <2>10. sdk'.fates = sdk.fates /\ sdk'.panics = sdk.panics  BY <2>6, <2>7 DEF Becomes, SdkFields
  <2> QED  BY <1>1, <2>9, <2>10, AccountStep DEF Account
<1> QED  BY <1>2, <1>3

PanicStep(c, kept, call, s, h) == PanicReport(c, s, kept, call)
Panicking == INSTANCE Folds_proofs WITH FoldStep <- PanicStep, FoldKept <- CollectKept

\* A chain with one panic handler calls it once.
LEMMA OneHandler ==
  ASSUME NEW c, NEW kept, NEW call, NEW s
  PROVE  FoldLeft(LAMBDA t, h : PanicReport(c, t, kept, call), s, [h \in 1 .. 1 |-> h])
           = PanicReport(c, s, kept, call)
<1>1. PICK one, none : one = [h \in 1 .. 1 |-> h] /\ none = <<>>  OBVIOUS
<1>2. none \in Seq({1}) /\ one = Append(none, 1)  BY <1>1
<1>3. FoldLeft(LAMBDA t, h : PanicReport(c, t, kept, call), s, one) = Panicking!Fold(c, kept, call, s, one)
  BY Zenon DEF PanicStep, Panicking!Fold, FoldLeft, MapThenFoldSet,
     Panicking!MapThenFoldSet, Max, Panicking!Max
<1>4. Panicking!Fold(c, kept, call, s, Append(none, 1))
        = PanicStep(c, kept, call, Panicking!Fold(c, kept, call, s, none), 1)
  BY <1>2, Panicking!FoldAppend
<1>5. Panicking!Fold(c, kept, call, s, none) = s  BY <1>1, Panicking!FoldEmpty
<1> QED  BY <1>1, <1>2, <1>3, <1>4, <1>5, ZenonT(120) DEF PanicStep

\* A panic: the handler, which is in the chain once, reports it once.
LEMMA AccountPanic ==
  ASSUME Account, NEW call \in scenario.calls, CallPanic(call)
  PROVE  Account'
<1>1. UNCHANGED Rest /\ call.op = "panic"  BY DEF CallPanic, Rest, MayCall
<1>2. PICK kept \in RandomChoices :
        sdk' = [(IF Active /\ hooks > 0
                 THEN FoldLeft(LAMBDA s, h : PanicReport(client, s, kept, call), sdk, [h \in 1..hooks |-> h])
                 ELSE sdk) EXCEPT !.calls = @ + 1, !.panics = @ + 1]
  BY Zenon DEF CallPanic
<1>3. PICK after : after = IF Active /\ hooks > 0
                           THEN FoldLeft(LAMBDA s, h : PanicReport(client, s, kept, call), sdk, [h \in 1..hooks |-> h])
                           ELSE sdk
  OBVIOUS
<1>4. sdk' = [after EXCEPT !.calls = @ + 1, !.panics = @ + 1]  BY <1>2, <1>3, ZenonT(120)
<1>5. /\ ScopeOk(scenario.scope) /\ CallOk(call) /\ IsSdk(sdk) /\ Ledger(sdk, scenario.scope, Mine)
      /\ client = None \/ ClientOk(client, Mine)
      /\ IsSeq(sdk.fates) /\ sdk.panics \in Nat /\ Panics(sdk.fates) <= sdk.panics
  BY ScenarioFacts DEF Account, ClientIs, Ledger, Losts
<1>6. /\ Ledger(after, scenario.scope, Mine) /\ after.panics = sdk.panics
      /\ Panics(after.fates) \in Nat /\ Panics(after.fates) <= sdk.panics + 1
  <2>1. CASE Active /\ hooks > 0
    <3>1. hooks = 1 /\ client # None  BY <2>1 DEF Account, Active
    <3>2. after = PanicReport(client, sdk, kept, call)  BY <1>3, <2>1, <3>1, OneHandler, ZenonT(120)
    <3>3. /\ Ledger(after, scenario.scope, Mine)
          /\ Becomes(sdk, after, Captures \cup {"logs", "metrics"})
          /\ Panics(after.fates) <= Panics(sdk.fates) + 1 /\ Panics(after.fates) \in Nat
          /\ Panics(sdk.fates) \in Nat
      BY <1>1, <1>5, <3>1, <3>2, LedgerReport
    <3>4. after.panics = sdk.panics  BY <3>3 DEF Becomes, Captures, SdkFields
    <3> QED  BY <1>5, <3>3, <3>4
  <2>2. CASE ~(Active /\ hooks > 0)
    <3>1. after = sdk  BY <1>3, <2>2
    <3>2. Panics(sdk.fates) \in Nat  BY <1>5, PanicsAppend
    <3> QED  BY <1>5, <3>1, <3>2
  <2> QED  BY <2>1, <2>2
<1>7. IsSdk(after)  BY <1>6 DEF Ledger
<1>8. Becomes(after, sdk', {"calls", "panics"}) /\ sdk'.panics = sdk.panics + 1
  <2>1. PICK D : D = SdkFields  OBVIOUS
  <2>2. after = [f \in D |-> after[f]] /\ "calls" \in D /\ "panics" \in D
    BY <1>7, <2>1 DEF IsSdk, SdkFields
  <2>3. PICK u : u = sdk'  OBVIOUS
  <2>4. PICK m : m = after.calls + 1  OBVIOUS
  <2>5. PICK n : n = after.panics + 1  OBVIOUS
  <2>6. u = [after EXCEPT !.calls = m, !.panics = n]  BY <1>4, <2>3, <2>4, <2>5
  <2>7. u = [f \in D |-> u[f]] /\ u.panics = n /\ \A f \in D \ {"calls", "panics"} : u[f] = after[f]
    BY <2>2, <2>6
  <2> QED  BY <1>6, <2>1, <2>3, <2>5, <2>7 DEF Becomes, IsSdk
<1>9. Ledger(sdk', scenario.scope, Mine) /\ sdk'.fates = after.fates
  <2>1. Becomes(after, sdk', Aside)  BY <1>8 DEF Becomes, Aside
  <2>2. sdk'.fates = after.fates  BY <1>8 DEF Becomes, SdkFields
  <2> QED  BY <1>6, <2>1, <2>2, LedgerAside
<1>10. sdk'.panics \in Nat /\ Panics(sdk'.fates) <= sdk'.panics  BY <1>5, <1>6, <1>8, <1>9
<1> QED  BY <1>1, <1>9, <1>10, AccountStep
-----------------------------------------------------------------------------
\* The drop of the guard ends the session and flushes the batches of the client it closes.
LEMMA AccountDrop ==
  ASSUME Account, DropGuard
  PROVE  Account'
<1>1. PICK s : s = EndSession(client, sdk)  OBVIOUS
<1>2. /\ phase = "running" /\ phase' = "closed" /\ scenario' = scenario /\ hooks' = hooks
      /\ sdk' = FlushBatches(client, s) /\ client' = [client EXCEPT !.enabled = FALSE, !.closed = TRUE]
  BY <1>1 DEF DropGuard
<1>3. Mine' = Mine /\ Accepted' = Accepted  BY <1>2 DEF Mine, Accepted, Given
<1>4. Ledger(s, scenario.scope, Mine) /\ Becomes(sdk, s, {"session", "outbox", "pending"})
  BY <1>1, LedgerEnd DEF Account
<1>5. Ledger(sdk', scenario.scope, Mine) /\ Becomes(s, sdk', {"outbox", "pending", "logs", "metrics"})
  BY <1>2, <1>4, LedgerFlush
<1>6. sdk'.fates = sdk.fates /\ sdk'.panics = sdk.panics  BY <1>4, <1>5 DEF Becomes, SdkFields
<1>7. ClientIs(client', Mine)
  <2>1. ClientIs(client, Mine)  BY <1>2 DEF Account
  <2>2. PICK c, d : c = client /\ d = client'  OBVIOUS
  <2>3. c = [options |-> c.options, enabled |-> c.enabled, closed |-> c.closed]  BY <2>1, <2>2 DEF ClientIs
  <2>4. d = [options |-> c.options, enabled |-> FALSE, closed |-> TRUE]  BY <1>2, <2>2, <2>3
  <2>5. d = [options |-> d.options, enabled |-> d.enabled, closed |-> d.closed] /\ d.options = c.options  BY <2>4
  <2> QED  BY <2>1, <2>2, <2>5 DEF ClientIs, ClientOk
<1>8. phase' # "running"  BY <1>2
<1> QED  BY <1>2, <1>3, <1>5, <1>6, <1>7, <1>8 DEF Account

\* What init is given is options still, those that were asked for.
LEMMA GivenOk ==
  ASSUME Account, Accepted
  PROVE  LET given == Given(Built(scenario.options, scenario.setters)).value
         IN  OptionsOk(given) /\ Told(scenario.options, scenario.setters, given)
<1>1. PICK built, given : built = Built(scenario.options, scenario.setters) /\ given = Given(built)  OBVIOUS
<1>2. OptionsOk(scenario.options) /\ IsSeq(scenario.setters)
      /\ \A i \in DOMAIN scenario.setters : SetterOk(scenario.setters[i])
  BY ScenarioFacts
<1>3. built.ok => OptionsOk(built.value) /\ Told(scenario.options, scenario.setters, built.value)
  BY <1>1, <1>2, BuiltOk
<1>4. given.ok  BY <1>1 DEF Accepted
<1>5. OptionsOk(given.value) /\ Told(scenario.options, scenario.setters, given.value)
  <2>1. CASE scenario.text = None \/ ~built.ok
    <3>1. given = built  BY <1>1, <2>1, Zenon DEF Given
    <3> QED  BY <1>3, <1>4, <3>1
  <2>2. CASE scenario.text # None /\ built.ok
    <3>1. given = FromTextAndOptions(scenario.text, built.value)  BY <1>1, <2>2, Zenon DEF Given
    <3>2. (\E e : given = Err(e)) \/ \E v : given = Ok([built.value EXCEPT !.dsn = v])
      BY <3>1, Zenon DEF FromTextAndOptions
    <3>3. ASSUME NEW e, given = Err(e) PROVE FALSE  BY <1>4, <3>3, OkFacts
    <3>4. ASSUME NEW v, given = Ok([built.value EXCEPT !.dsn = v])
          PROVE  OptionsOk(given.value) /\ Told(scenario.options, scenario.setters, given.value)
      <4>1. PICK b, n : b = built.value /\ n = given.value  OBVIOUS
      <4>2. n = [b EXCEPT !.dsn = v]  BY <3>4, <4>1, OkFacts
      <4>3. OptionsOk(b) /\ Told(scenario.options, scenario.setters, b)  BY <1>3, <2>2, <4>1
      <4>4. OptionsOk(n)  BY <4>2, <4>3, OptionExcept
      <4>5. PICK D : D = DOMAIN DefaultOptions  OBVIOUS
      <4>6. b = [f \in D |-> b[f]]
            /\ {"release", "environment", "http_proxy", "https_proxy", "send_default_pii"} \subseteq D
        BY <4>3, <4>5 DEF OptionsOk, DefaultOptions
      <4>7. n.release = b.release /\ n.environment = b.environment /\ n.http_proxy = b.http_proxy
            /\ n.https_proxy = b.https_proxy /\ n.send_default_pii = b.send_default_pii
        BY <4>2, <4>6
      <4> QED  BY <4>1, <4>3, <4>4, <4>7, Zenon DEF Told
    <3> QED  BY <3>2, <3>3, <3>4
  <2> QED  BY <2>1, <2>2
<1> QED  BY <1>1, <1>5, Zenon

\* A client is bound: what the one before it has not reported is forgotten with it.
LEMMA LedgerBound ==
  ASSUME NEW s, NEW scope, NEW o, Ledger(s, scope, o), NEW t,
         t = [s EXCEPT !.pending = <<>>, !.unreported = @ \o s.pending]
  PROVE  Ledger(t, scope, o) /\ t.fates = s.fates /\ t.panics = s.panics
<1>1. PICK a, b : a = <<>> /\ b = s.unreported \o s.pending  OBVIOUS
<1>2. t = [s EXCEPT !.pending = a, !.unreported = b]  BY <1>1
<1>3. PICK D : D = SdkFields  OBVIOUS
<1>4. s = [f \in D |-> s[f]] /\ "pending" \in D /\ "unreported" \in D  BY <1>3 DEF Ledger, IsSdk, SdkFields
<1>5. t = [f \in D |-> t[f]] /\ t.pending = a /\ t.unreported = b
      /\ \A f \in D \ {"pending", "unreported"} : t[f] = s[f]
  BY <1>2, <1>4
<1>6. IsSdk(t) /\ t.outbox = s.outbox /\ t.fates = s.fates /\ t.ids = s.ids /\ t.panics = s.panics
      /\ t.last_event_id = s.last_event_id /\ t.scope = s.scope
  BY <1>3, <1>5 DEF IsSdk, SdkFields
<1>7. Losts(t.outbox, t.pending, t.unreported, t.fates)
  <2>1. Losts(s.outbox, s.pending, s.unreported, s.fates)  BY DEF Ledger
  <2>2. Losts(s.outbox, <<>>, s.unreported \o s.pending, s.fates)  BY <2>1, LostsForgotten
  <2> QED  BY <1>1, <1>5, <1>6, <2>2
<1> QED  BY <1>6, <1>7 DEF Ledger

\* sentry::init keeps the ledger of the clients before.
LEMMA AccountSentryInit ==
  ASSUME Account, SentryInit
  PROVE  Account'
<1>1. PICK given : given = Given(Built(scenario.options, scenario.setters))  OBVIOUS
<1>2. scenario' = scenario /\ InitWith(given)  BY <1>1 DEF SentryInit
<1>3. Mine' = Mine /\ Accepted' = Accepted  BY <1>2 DEF Mine, Accepted, Given
<1>4. CASE ~given.ok
  <2>1. phase' = "panicked" /\ client' = client /\ hooks' = hooks /\ sdk' = sdk  BY <1>2, <1>4 DEF InitWith
  <2>2. phase' # "running"  BY <2>1
  <2> QED  BY <1>2, <1>3, <2>1, <2>2 DEF Account
<1>5. CASE given.ok
  <2>1. StartClient(Mine)  BY <1>1, <1>2, <1>5, Zenon DEF InitWith, Mine
  <2>2. OptionsOk(Mine)
    <3>1. Accepted  BY <1>1, <1>5 DEF Accepted
    <3>2. OptionsOk(given.value)  BY <1>1, <3>1, GivenOk, Zenon
    <3> QED  BY <1>1, <3>2, SetUpOk DEF Mine
  <2>3. PICK o : o = Mine  OBVIOUS
  <2>4. PICK c, bound : /\ c = [options |-> o, enabled |-> HasSender(o), closed |-> FALSE]
                        /\ bound = [sdk EXCEPT !.pending = <<>>, !.unreported = @ \o sdk.pending]
    OBVIOUS
  <2>5. /\ phase' = "running" /\ client' = c /\ hooks' = HooksAfter(hooks, o)
        /\ sdk' = StartSession(c, bound) \/ sdk' = bound
    BY <2>1, <2>3, <2>4, Zenon DEF StartClient
  <2>6. ClientIs(c, Mine)
    <3>1. c.options = o /\ c = [options |-> c.options, enabled |-> c.enabled, closed |-> c.closed]  BY <2>4, SMTT(90)
    <3> QED  BY <2>2, <2>3, <3>1 DEF ClientIs, ClientOk, OptionsOk
  <2>7. Ledger(bound, scenario.scope, Mine) /\ bound.fates = sdk.fates /\ bound.panics = sdk.panics
    <3>1. Ledger(sdk, scenario.scope, Mine)  BY DEF Account
    <3> QED  BY <2>4, <3>1, LedgerBound, ZenonT(120)
  <2>8. Ledger(sdk', scenario.scope, Mine) /\ sdk'.fates = sdk.fates /\ sdk'.panics = sdk.panics
    <3>1. PICK t : t = StartSession(c, bound)  OBVIOUS
    <3>2. Ledger(t, scenario.scope, Mine) /\ Becomes(bound, t, {"session"})  BY <2>7, <3>1, LedgerStart
    <3>3. t.fates = bound.fates /\ t.panics = bound.panics  BY <3>2 DEF Becomes, SdkFields
    <3> QED  BY <2>5, <2>7, <3>1, <3>2, <3>3
  <2>9. hooks' \in {0, 1}  BY <2>5 DEF HooksAfter, Account
  <2>10. Accepted  BY <1>1, <1>5 DEF Accepted
  <2> QED  BY <1>2, <1>3, <2>5, <2>6, <2>8, <2>9, <2>10 DEF Account
<1> QED  BY <1>4, <1>5

\* The other steps leave the application's side alone.
LEMMA AccountSame ==
  ASSUME Account, UNCHANGED <<Rest, sdk>>
  PROVE  Account'
<1>1. UNCHANGED Rest /\ sdk' = sdk  OBVIOUS
<1> QED  BY <1>1, AccountStep DEF Account

\* Every step keeps the invariant.
LEMMA AccountNext ==
  ASSUME Account, [Next]_vars
  PROVE  Account'
<1>1. CASE SentryInit  BY <1>1, AccountSentryInit
<1>2. CASE Flush  BY <1>2, AccountFlush
<1>3. CASE DropGuard  BY <1>3, AccountDrop
<1>4. CASE Deliver
  <2>1. UNCHANGED <<Rest, sdk>>  BY <1>4 DEF Deliver, Rest
  <2> QED  BY <2>1, AccountSame
<1>5. CASE ContinueTrace
  <2>1. UNCHANGED <<Rest, sdk>>  BY <1>5, Zenon DEF ContinueTrace, Rest
  <2> QED  BY <2>1, AccountSame
<1>6. CASE MakeSchedule
  <2>1. UNCHANGED <<Rest, sdk>>  BY <1>6 DEF MakeSchedule, Rest
  <2> QED  BY <2>1, AccountSame
<1>7. ASSUME NEW call \in scenario.calls,
             \/ CallEvent(call) \/ CallMessage(call) \/ CallError(call) \/ CallAnyhow(call)
             \/ CallLog(call) \/ CallSlog(call) \/ CallTracing(call)
      PROVE  Account'
  <2>1. call.op \in ItemOps /\ WithActive(call)
    BY <1>7, Zenon DEF CallEvent, CallMessage, CallError, CallAnyhow, CallLog, CallSlog, CallTracing, MayCall, ItemOps
  <2> QED  BY <2>1, AccountWithActive
<1>8. ASSUME NEW call \in scenario.calls, CallHub(call) \/ CallLogger(call)
      PROVE  Account'
  <2>1. call.op \in ItemOps /\ CaptureItems(call)
    BY <1>8, Zenon DEF CallHub, CallLogger, MayCall, ItemOps
  <2> QED  BY <2>1, AccountItems
<1>9. ASSUME NEW call \in scenario.calls, CallMetric(call)  PROVE Account'  BY <1>9, AccountMetric
<1>10. ASSUME NEW call \in scenario.calls, CallPanic(call)  PROVE Account'  BY <1>10, AccountPanic
<1>11. ASSUME NEW call \in scenario.calls, CallTransaction(call)  PROVE Account'  BY <1>11, AccountTransaction
<1>12. CASE UNCHANGED appVars
  <2>1. UNCHANGED <<Rest, sdk>>  BY <1>12 DEF appVars, Rest
  <2> QED  BY <2>1, AccountSame
<1>13. CASE UNCHANGED vars
  <2>1. UNCHANGED appVars  BY <1>13 DEF vars
  <2> QED  BY <1>12, <2>1
<1> QED
  BY <1>1, <1>2, <1>3, <1>4, <1>5, <1>6, <1>7, <1>8, <1>9, <1>10, <1>11, <1>12, <1>13, ZenonT(120) DEF Next, AppNext

\* The invariant is OneFate and more.
LEMMA AccountShows == Account => OneFate
<1> SUFFICES ASSUME Account PROVE OneFate  OBVIOUS
<1>1. Ledger(sdk, scenario.scope, Mine)  BY DEF Account
<1>2. /\ Sents(sdk.outbox, sdk.fates, scenario.scope, Mine)
      /\ Losts(sdk.outbox, sdk.pending, sdk.unreported, sdk.fates)
      /\ LastOk(sdk.last_event_id, sdk.fates)
  BY <1>1 DEF Ledger
<1>3. \A type : ItemsSent(type) = SentIn(type, sdk.outbox)  BY Zenon DEF ItemsSent, SentIn
<1>4. LastIdWasSent  BY <1>2 DEF LastOk, LastIdWasSent
<1>5. PanicReportedOnce  BY DEF Account, Panics, PanicReportedOnce
<1>6. PICK items : items = ItemsSent("event")  OBVIOUS
<1>7. IsSeq(items) /\ FateIds(sdk.fates) = EventIds(items) /\ Met(sdk.fates, "sent") = Len(items)
  BY <1>2, <1>3, <1>6 DEF Sents
<1>8. EventsSent = [i \in DOMAIN items |-> items[i].event]  BY <1>6, Zenon DEF EventsSent
<1>9. EventIds(items) = { event.event_id : event \in ToSet(EventsSent) }  BY <1>8 DEF EventIds, ToSet
<1>10. Len(EventsSent) = Len(items)
  <2>1. PICK S : items \in Seq(S)  BY <1>7, Common
  <2>2. PICK E : E = [i \in DOMAIN items |-> items[i].event]  OBVIOUS
  <2>3. E \in Seq({ x.event : x \in S }) /\ Len(E) = Len(items)  BY <2>1, <2>2
  <2> QED  BY <1>8, <2>2, <2>3
<1>11. PICK losses : losses = AllLosses(sdk.outbox, sdk.pending, sdk.unreported)  OBVIOUS
<1>12. FoldLeft(LAMBDA all, item : all \o item.losses, <<>>, ItemsSent("client_report")) \o sdk.pending \o sdk.unreported
         = losses
  BY <1>3, <1>11, Zenon DEF AllLosses, LossesIn
<1>13. \A reason \in Reasons :
         Cardinality({ i \in DOMAIN losses : losses[i] = [category |-> "error", reason |-> reason] })
           = Cardinality({ i \in DOMAIN sdk.fates : sdk.fates[i].fate = reason })
  BY <1>2, <1>11, Zenon DEF Losts, Counted, Count, Met, ErrorLoss
<1>14. /\ { sdk.fates[i].id : i \in { j \in DOMAIN sdk.fates : sdk.fates[j].fate = "sent" } }
            = { event.event_id : event \in ToSet(EventsSent) }
       /\ Cardinality({ j \in DOMAIN sdk.fates : sdk.fates[j].fate = "sent" }) = Len(EventsSent)
  BY <1>7, <1>9, <1>10, Zenon DEF FateIds, Met
<1> QED  BY <1>4, <1>5, <1>12, <1>13, <1>14, ZenonT(120) DEF OneFate

\* The inductive invariant of the application.
THEOREM AccountHolds == Spec => []Account
<1>1. Init => Account  BY AccountInit
<1>2. Account /\ [Next]_vars => Account'  BY AccountNext
<1> QED  BY <1>1, <1>2, PTL DEF Spec

\* Every event captured meets one fate.
THEOREM EveryEventHasOneFate == Spec => []OneFate
<1>1. Spec => []Account  BY AccountHolds
<1>2. Account => OneFate  BY AccountShows
<1> QED  BY <1>1, <1>2, PTL
-----------------------------------------------------------------------------
(* What every event sent tells *)

Place(fates, id) == SelectInSeq(fates, LAMBDA f : f.id = id)

\* The fate of an event is found by its id.
LEMMA FateFound ==
  ASSUME NEW fates, NEW ids, IdsOk(fates, ids), NEW j \in DOMAIN fates, NEW id, id = fates[j].id
  PROVE  Place(fates, id) = j
<1>1. PICK n \in Nat : n = Len(fates)  BY DEF IdsOk, IsSeq
<1>2. DOMAIN fates = 1 .. n  BY <1>1 DEF IdsOk, IsSeq
<1>3. \A i \in 1 .. n : fates[i].id = id => i = j
  <2>1. \A i, k \in 1 .. n : i < k => fates[i].id < fates[k].id  BY <1>2 DEF IdsOk
  <2>2. \A i \in 1 .. n : fates[i].id \in Nat  BY <1>2 DEF IdsOk
  <2> TAKE i \in 1 .. n
  <2> QED  BY <1>2, <2>1, <2>2
<1>4. { i \in 1 .. n : fates[i].id = id } = {j}  BY <1>2, <1>3
<1>5. { i \in 1 .. Len(fates) : fates[i].id = id } = {j}  BY <1>1, <1>4
<1>6. Min({j}) = j  BY <1>2 DEF Min
<1> QED  BY <1>5, <1>6, Zenon DEF Place, SelectInSeq

\* An event sent is one that a call of the application made.
MadeFrom(event, call, id, scope, o) ==
  CallOk(call) /\ \E crumbs, v : Source(call, o, v) /\ MadeOf(event, WithCrumbs(scope, crumbs), v, id, o)

\* FateOf names the call.
LEMMA EventStory ==
  ASSUME Account, NEW event \in ToSet(EventsSent)
  PROVE  MadeFrom(event, FateOf(event).call, event.event_id, scenario.scope, Mine)
<1>1. /\ Sents(sdk.outbox, sdk.fates, scenario.scope, Mine) /\ IdsOk(sdk.fates, sdk.ids)
  BY DEF Account, Ledger
<1>2. PICK items : items = SentIn("event", sdk.outbox)  OBVIOUS
<1>3. EventsSent = [i \in DOMAIN items |-> items[i].event]  BY <1>2, Zenon DEF EventsSent, ItemsSent, SentIn
<1>4. PICK i \in DOMAIN items : event = items[i].event  BY <1>3 DEF ToSet
<1>5. PICK j \in DOMAIN sdk.fates : MadeBy(items[i], sdk.fates[j], scenario.scope, Mine)
  <2>1. \A k \in DOMAIN items : \E j \in DOMAIN sdk.fates : MadeBy(items[k], sdk.fates[j], scenario.scope, Mine)
    BY <1>1, <1>2, Zenon DEF Sents
  <2> QED  BY <2>1
<1>6. sdk.fates[j].id = event.event_id /\ CallOk(sdk.fates[j].call)  BY <1>4, <1>5 DEF MadeBy
<1>7. Place(sdk.fates, event.event_id) = j  BY <1>1, <1>6, FateFound
<1>8. FateOf(event) = sdk.fates[j]  BY <1>7, Zenon DEF FateOf, Place
<1>9. \E crumbs, v : Source(sdk.fates[j].call, Mine, v)
                     /\ MadeOf(event, WithCrumbs(scenario.scope, crumbs), v, event.event_id, Mine)
  BY <1>4, <1>5, <1>6 DEF MadeBy
<1> QED  BY <1>6, <1>8, <1>9 DEF MadeFrom
-----------------------------------------------------------------------------
\* What the application asked for, and the environment, decides what its client is like.
LEMMA MineFacts ==
  ASSUME Account, Accepted
  PROVE  /\ OptionsOk(Mine)
         /\ Mine.release = OrElse(Asked("release", {"maybe_release"}), scenario.env.SENTRY_RELEASE)
         /\ Mine.environment = OrElse(OrElse(Asked("environment", {"environment"}), scenario.env.SENTRY_ENVIRONMENT),
                                      BuildEnvironment(scenario.env))
         /\ Mine.http_proxy = OrElse(Asked("http_proxy", {"http_proxy"}), HttpProxyVar(scenario.env))
         /\ Mine.https_proxy = OrElse(OrElse(Asked("https_proxy", {"https_proxy"}), HttpsProxyVar(scenario.env)),
                                      OrElse(Asked("http_proxy", {"http_proxy"}), HttpProxyVar(scenario.env)))
         /\ Mine.send_default_pii = Asked("send_default_pii", {"send_default_pii"})
         /\ \E given : IsSeq(given)
              /\ Mine.integrations = (IF Mine.default_integrations THEN DefaultIntegrations ELSE <<>>) \o given
<1>1. PICK given : given = Given(Built(scenario.options, scenario.setters)).value  OBVIOUS
<1>2. OptionsOk(given) /\ Told(scenario.options, scenario.setters, given)  BY <1>1, GivenOk, Zenon
<1>3. OptionsOk(Mine) /\ Defaulted(Mine, given, scenario.env)
  <2>1. OptionsOk(SetUpAll(ApplyDefaults(given, scenario.env)))
        /\ Defaulted(SetUpAll(ApplyDefaults(given, scenario.env)), given, scenario.env)
    BY <1>2, SetUpOk
  <2> QED  BY <1>1, <2>1, Zenon DEF Mine
<1>4. ASSUME NEW option, NEW name
      PROVE  AskedOf(scenario.options, scenario.setters, option, name) = Asked(option, {name})
  BY Zenon DEF AskedOf, LastAsk, Asked
<1>5. PICK m : m = Mine  OBVIOUS
<1>6. PICK a, b, c, d, p : /\ a = Asked("release", {"maybe_release"}) /\ b = Asked("environment", {"environment"})
                           /\ c = Asked("http_proxy", {"http_proxy"}) /\ d = Asked("https_proxy", {"https_proxy"})
                           /\ p = Asked("send_default_pii", {"send_default_pii"})
  OBVIOUS
<1>7. given.release = a /\ given.environment = b /\ given.http_proxy = c /\ given.https_proxy = d
      /\ given.send_default_pii = p
  BY <1>2, <1>4, <1>6, Zenon DEF Told
<1>8. /\ m.release = OrElse(a, scenario.env.SENTRY_RELEASE)
      /\ m.environment = OrElse(OrElse(b, scenario.env.SENTRY_ENVIRONMENT), BuildEnvironment(scenario.env))
      /\ m.http_proxy = OrElse(c, HttpProxyVar(scenario.env))
      /\ m.https_proxy = OrElse(OrElse(d, HttpsProxyVar(scenario.env)), OrElse(c, HttpProxyVar(scenario.env)))
      /\ m.send_default_pii = p
  BY <1>3, <1>5, <1>7 DEF Defaulted
<1>9. IsSeq(given.integrations)
      /\ m.integrations = (IF m.default_integrations THEN DefaultIntegrations ELSE <<>>) \o given.integrations
  BY <1>2, <1>3, <1>5 DEF Defaulted, OrderedIntegrations, OptionsOk
<1> QED  BY <1>3, <1>5, <1>6, <1>8, <1>9
-----------------------------------------------------------------------------
(* Functions and the patterns of in_app_include *)

\* What str::trim_start_matches leaves.
LEMMA TrimStartFacts ==
  ASSUME NEW s, IsSeq(s), NEW x
  PROVE  \E n \in 0 .. Len(s) : /\ TrimStart(s, x) = SubSeq(s, n + 1, Len(s))
                                /\ \A i \in 1 .. n : s[i] = x
                                /\ n < Len(s) => s[n + 1] # x
<1> DEFINE kept == { i \in DOMAIN s : s[i] # x }
<1>1. PICK l \in Nat : l = Len(s)  BY DEF IsSeq
<1>2. DOMAIN s = 1 .. l  BY <1>1 DEF IsSeq
<1>3. CASE kept = {}
  <2>1. TrimStart(s, x) = <<>>  BY <1>3 DEF TrimStart
  <2>2. SubSeq(s, l + 1, l) = <<>>
    <3>1. PICK S : s \in Seq(S)  BY Common
    <3> QED  BY <1>1, <3>1
  <2>3. \A i \in 1 .. l : s[i] = x  BY <1>2, <1>3
  <2> QED  BY <1>1, <2>1, <2>2, <2>3
<1>4. CASE kept # {}
  <2>1. PICK k \in kept : \A i \in kept : k <= i
    <3>1. kept \in SUBSET Nat  BY <1>2
    <3> HIDE DEF kept
    <3> QED  BY <1>4, <3>1, Least
  <2>2. Min(kept) = k
    <3>1. k \in 1 .. l  BY <1>2
    <3>2. \A i \in kept : i \in 1 .. l  BY <1>2
    <3>3. PICK Q : Q = kept  OBVIOUS
    <3>4. k \in Q /\ \A i \in Q : k <= i  BY <2>1, <3>3
    <3>5. PICK m : m = Min(Q)  OBVIOUS
    <3>6. m \in Q /\ \A i \in Q : m <= i  BY <3>4, <3>5, Zenon DEF Min
    <3>7. m <= k /\ k <= m /\ m \in Nat /\ k \in Nat  BY <1>1, <3>2, <3>3, <3>4, <3>6
    <3> QED  BY <3>3, <3>5, <3>7
  <2>3. TrimStart(s, x) = SubSeq(s, k, l)  BY <1>1, <1>4, <2>2 DEF TrimStart
  <2>4. PICK n : n = k - 1  OBVIOUS
  <2>5. n \in 0 .. l /\ n + 1 = k /\ s[k] # x  BY <1>1, <1>2, <2>1, <2>4
  <2>6. \A i \in 1 .. n : s[i] = x  BY <1>1, <1>2, <2>1, <2>4
  <2> QED  BY <1>1, <2>3, <2>5, <2>6
<1> QED  BY <1>3, <1>4

\* A text that does not begin with x stays as it is.
LEMMA TrimNone ==
  ASSUME NEW s, IsSeq(s), NEW x, s = <<>> \/ s[1] # x
  PROVE  TrimStart(s, x) = s
<1>1. PICK n \in 0 .. Len(s) : /\ TrimStart(s, x) = SubSeq(s, n + 1, Len(s))
                               /\ \A i \in 1 .. n : s[i] = x
  BY TrimStartFacts
<1>2. PICK S : s \in Seq(S)  BY Common
<1>3. n = 0
  <2>1. CASE s = <<>>  BY <1>1, <2>1
  <2>2. CASE s[1] # x  BY <1>1, <1>2, <2>2
  <2> QED  BY <2>1, <2>2
<1>4. SubSeq(s, 1, Len(s)) = s  BY <1>2
<1> QED  BY <1>1, <1>3, <1>4

\* Behind an opening that both have, they match as before.
MatchAt(func, pattern, dots, colons) ==
  /\ Len(pattern) <= Len(func)
  /\ \A i \in DOMAIN pattern : func[i] = pattern[i] \/ (func[i] = dots /\ pattern[i] = colons)

LEMMA MatchBehind ==
  ASSUME NEW func, IsSeq(func), NEW pattern, IsSeq(pattern), NEW dots, NEW colons,
         MatchAt(func, pattern, dots, colons), NEW n \in 0 .. Len(pattern)
  PROVE  MatchAt(SubSeq(func, n + 1, Len(func)), SubSeq(pattern, n + 1, Len(pattern)), dots, colons)
<1>1. PICK S : func \in Seq(S) /\ pattern \in Seq(S)  BY Common
<1>2. PICK f, p : f = SubSeq(func, n + 1, Len(func)) /\ p = SubSeq(pattern, n + 1, Len(pattern))  OBVIOUS
<1>3. Len(f) = Len(func) - n /\ Len(p) = Len(pattern) - n /\ DOMAIN p = 1 .. Len(pattern) - n
      /\ Len(pattern) <= Len(func) /\ Len(func) \in Nat /\ Len(pattern) \in Nat
  BY <1>1, <1>2 DEF MatchAt
<1>4. ASSUME NEW i \in DOMAIN p PROVE f[i] = p[i] \/ (f[i] = dots /\ p[i] = colons)
  <2>1. f[i] = func[n + i] /\ p[i] = pattern[n + i] /\ n + i \in DOMAIN pattern
    BY <1>1, <1>2, <1>3, <1>4
  <2> QED  BY <2>1 DEF MatchAt
<1> QED  BY <1>2, <1>3, <1>4 DEF MatchAt

\* A function that starts with a pattern is found by it (function_starts_with), unless the pattern
\* itself begins with what is taken off the function.
LEMMA StartsMatch ==
  ASSUME NEW func, IsSeq(func), NEW pattern, IsSeq(pattern), Bare(pattern), StartsWith(func, pattern)
  PROVE  FunctionStartsWith(func, pattern)
<1>1. PICK of, open, under, dots, colons :
        of = "<F as " /\ open = "<" /\ under = "_<" /\ dots = ".." /\ colons = "::"
  OBVIOUS
<1>2. open # colons /\ dots \notin {of, open, under}  BY <1>1, Zenon
<1>3. Openings = {of, open, under}  BY <1>1, Zenon DEF Openings
<1>4. \A f, p : StartsWith(f, p) <=> MatchAt(f, p, dots, colons)  BY <1>1, Zenon DEF StartsWith, MatchAt
<1>5. pattern = <<>> \/ pattern[1] \notin {of, under}
  <2>1. pattern = <<>> \/ pattern[1] \notin {of, open, under} \ {open}  BY <1>1, <1>3, Zenon DEF Bare
  <2>2. of # open /\ under # open  BY <1>1, Zenon
  <2> QED  BY <2>1, <2>2
<1>6. MatchAt(func, pattern, dots, colons)  BY <1>4
<1>7. PICK n \in 0 .. Len(pattern) : /\ TrimStart(pattern, open) = SubSeq(pattern, n + 1, Len(pattern))
                                     /\ \A i \in 1 .. n : pattern[i] = open
                                     /\ n < Len(pattern) => pattern[n + 1] # open
  BY TrimStartFacts
<1>8. PICK S : func \in Seq(S) /\ pattern \in Seq(S)  BY Common
<1>9. PICK rest : rest = TrimStart(pattern, open)  OBVIOUS
<1>10. Len(pattern) - Len(rest) = n /\ Len(func) \in Nat /\ Len(pattern) \in Nat  BY <1>7, <1>8, <1>9
<1>11. FunctionStartsWith(func, pattern) <=>
         IF n = 0 THEN StartsWith(TrimStart(TrimStart(TrimStart(func, of), open), under), pattern)
         ELSE /\ n <= Len(func) /\ \A i \in 1 .. n : func[i] \in Openings
              /\ StartsWith(SubSeq(func, n + 1, Len(func)), rest)
  <2>1. FunctionStartsWith(func, pattern) <=>
          LET r == TrimStart(pattern, open)
              k == Len(pattern) - Len(r)
          IN  IF k = 0 THEN StartsWith(TrimStart(TrimStart(TrimStart(func, of), open), under), pattern)
              ELSE /\ k <= Len(func) /\ \A i \in 1 .. k : func[i] \in Openings
                   /\ StartsWith(SubSeq(func, k + 1, Len(func)), r)
    BY <1>1, Zenon DEF FunctionStartsWith
  <2> QED  BY <1>9, <1>10, <2>1
<1>12. CASE n = 0
  <2>1. CASE pattern = <<>>
    <3>1. \A f : IsSeq(f) => IsSeq(TrimStart(f, of)) /\ IsSeq(TrimStart(f, open)) /\ IsSeq(TrimStart(f, under))
      <4> TAKE f
      <4> HAVE IsSeq(f)
      <4>1. ASSUME NEW x PROVE IsSeq(TrimStart(f, x))
        <5>1. PICK T : f \in Seq(T)  BY Common
        <5>2. PICK k \in 0 .. Len(f) : TrimStart(f, x) = SubSeq(f, k + 1, Len(f))  BY TrimStartFacts
        <5>3. SubSeq(f, k + 1, Len(f)) \in Seq(T)  BY <5>1
        <5> QED  BY <5>2, <5>3, SeqIsSeq
      <4> QED  BY <4>1
    <3>2. PICK f : f = TrimStart(TrimStart(TrimStart(func, of), open), under)  OBVIOUS
    <3>3. IsSeq(f)  BY <3>1, <3>2
    <3>4. Len(f) \in Nat  BY <3>3 DEF IsSeq
    <3>5. MatchAt(f, pattern, dots, colons)  BY <2>1, <3>4 DEF MatchAt
    <3> QED  BY <1>4, <1>11, <1>12, <3>2, <3>5
  <2>2. CASE pattern # <<>>
    <3>1. 1 \in DOMAIN pattern /\ pattern[1] # open  BY <1>7, <1>8, <1>12, <2>2
    <3>2. func[1] = pattern[1] \/ func[1] = dots  BY <1>6, <3>1 DEF MatchAt
    <3>3. func[1] \notin {of, open, under}  BY <1>2, <1>5, <2>2, <3>1, <3>2
    <3>4. TrimStart(func, of) = func /\ TrimStart(func, open) = func /\ TrimStart(func, under) = func
      BY <3>3, TrimNone
    <3> QED  BY <1>11, <1>12, <3>4
  <2> QED  BY <2>1, <2>2
<1>13. CASE n # 0
  <2>1. n <= Len(func)  BY <1>6, <1>10 DEF MatchAt
  <2>2. ASSUME NEW i \in 1 .. n PROVE func[i] \in Openings
    <3>1. i \in DOMAIN pattern /\ pattern[i] = open  BY <1>7, <1>8
    <3>2. func[i] = open  BY <1>2, <1>6, <3>1 DEF MatchAt
    <3> QED  BY <1>3, <3>2
  <2>3. MatchAt(SubSeq(func, n + 1, Len(func)), rest, dots, colons)  BY <1>6, <1>7, <1>9, MatchBehind
  <2> QED  BY <1>4, <1>11, <1>13, <2>1, <2>2, <2>3
<1> QED  BY <1>12, <1>13
-----------------------------------------------------------------------------
(* How a stack trace is classified *)

\* A frame that has a mark keeps it, one with a function the application names gets one,
\* and there is at the end a frame of the application, or else nothing but foreign ones.
Marked(frames, include, new) ==
  /\ IsTrace(new) /\ DOMAIN new = DOMAIN frames
  /\ \A i \in DOMAIN frames : /\ frames[i].in_app # None => new[i] = frames[i]
                              /\ new[i].function = frames[i].function
                              /\ /\ frames[i].function # None /\ frames[i].in_app = None
                                 /\ MatchesAny(frames[i].function, include)
                                 => new[i].in_app = TRUE
  /\ \/ \E i \in DOMAIN frames : new[i].in_app = TRUE
     \/ \A i \in DOMAIN frames : new[i].in_app = FALSE

\* process_event_stacktrace marks frames that way.
LEMMA ProcessFacts ==
  ASSUME NEW frames, IsTrace(frames), NEW include, NEW exclude
  PROVE  Marked(frames, include, ProcessStacktrace(frames, include, exclude))
<1> SUFFICES ASSUME NEW new, new = ProcessStacktrace(frames, include, exclude)
             PROVE  Marked(frames, include, new)
  OBVIOUS
<1>1. PICK D, F, T : /\ D = DOMAIN frames /\ F = { frames[i].function : i \in DOMAIN frames } /\ T = {TRUE, FALSE, None}
  OBVIOUS
<1>2. /\ frames \in [D -> [function : F, in_app : T]] /\ None \notin [D -> [function : F, in_app : T]]
      /\ \A i \in D : frames[i].function = None \/ IsSeq(frames[i].function)
  BY <1>1, Zenon DEF IsTrace
<1>3. PICK mark : mark = [i \in D |-> FrameMark(frames[i], include, exclude)]  OBVIOUS
<1>4. ASSUME NEW i \in D
      PROVE  /\ mark[i] \in T /\ (frames[i].in_app # None => mark[i] = frames[i].in_app)
             /\ frames[i].function # None /\ frames[i].in_app = None /\ MatchesAny(frames[i].function, include)
                => mark[i] = TRUE
  <2>1. frames[i].in_app \in T  BY <1>2
  <2> QED  BY <1>1, <1>3, <2>1 DEF FrameMark
<1>5. PICK marked : marked = [i \in D |-> [frames[i] EXCEPT !.in_app = mark[i]]]  OBVIOUS
<1>6. marked \in [D -> [function : F, in_app : T]]
      /\ \A i \in D : marked[i].function = frames[i].function /\ marked[i].in_app = mark[i]
  <2>1. ASSUME NEW i \in D
        PROVE  /\ marked[i] \in [function : F, in_app : T]
               /\ marked[i].function = frames[i].function /\ marked[i].in_app = mark[i]
    <3>1. frames[i] \in [function : F, in_app : T] /\ mark[i] \in T  BY <1>2, <1>4
    <3>2. marked[i] = [frames[i] EXCEPT !.in_app = mark[i]]  BY <1>5
    <3> QED  BY <3>1, <3>2
  <2> QED  BY <1>5, <2>1
<1>8. new = Decided(marked)
  <2>1. marked = [i \in DOMAIN frames |-> [frames[i] EXCEPT !.in_app = FrameMark(frames[i], include, exclude)]]
    BY <1>1, <1>3, <1>5
  <2> QED  BY <2>1 DEF ProcessStacktrace
<1>9. /\ new \in [D -> [function : F, in_app : T]]
      /\ \A i \in D : new[i].function = frames[i].function /\ (mark[i] # None => new[i].in_app = mark[i])
      /\ (\E i \in D : new[i].in_app = TRUE) \/ (\A i \in D : new[i].in_app = FALSE)
  <2>1. CASE \E i \in DOMAIN marked : marked[i].function # None /\ marked[i].in_app = TRUE
    <3>1. new = marked  BY <1>8, <2>1 DEF Decided
    <3> QED  BY <1>6, <2>1, <3>1
  <2>2. CASE ~ \E i \in DOMAIN marked : marked[i].function # None /\ marked[i].in_app = TRUE
    <3>1. new = [i \in D |-> [marked[i] EXCEPT !.in_app = IF mark[i] = None THEN TRUE ELSE mark[i]]]
      <4>1. new = [i \in DOMAIN marked |-> [marked[i] EXCEPT !.in_app = IF marked[i].in_app = None THEN TRUE ELSE marked[i].in_app]]
        BY <1>8, <2>2 DEF Decided
      <4> QED  BY <1>6, <4>1
    <3>2. \A i \in D : /\ new[i] \in [function : F, in_app : T] /\ new[i].function = frames[i].function
                       /\ new[i].in_app = IF mark[i] = None THEN TRUE ELSE mark[i]
      <4> SUFFICES ASSUME NEW i \in D
                   PROVE  /\ new[i] \in [function : F, in_app : T] /\ new[i].function = frames[i].function
                          /\ new[i].in_app = IF mark[i] = None THEN TRUE ELSE mark[i]
        OBVIOUS
      <4>1. marked[i] \in [function : F, in_app : T] /\ marked[i].function = frames[i].function  BY <1>6
      <4>2. PICK x : x = IF mark[i] = None THEN TRUE ELSE mark[i]  OBVIOUS
      <4>3. x \in T  BY <1>1, <1>4, <4>2
      <4>4. new[i] = [marked[i] EXCEPT !.in_app = x]  BY <3>1, <4>2
      <4> QED  BY <4>1, <4>2, <4>3, <4>4
    <3>3. new \in [D -> [function : F, in_app : T]]  BY <3>1, <3>2
    <3>4. \A i \in D : mark[i] \in T  BY <1>4
    <3>5. (\E i \in D : new[i].in_app = TRUE) \/ (\A i \in D : new[i].in_app = FALSE)  BY <1>1, <3>2, <3>4
    <3> QED  BY <3>2, <3>3, <3>5
  <2> QED  BY <2>1, <2>2
<1>10. ASSUME NEW i \in D, frames[i].in_app # None PROVE new[i] = frames[i]
  <2>1. new[i].in_app = frames[i].in_app /\ new[i].function = frames[i].function  BY <1>4, <1>9, <1>10
  <2>2. new[i] \in [function : F, in_app : T] /\ frames[i] \in [function : F, in_app : T]  BY <1>2, <1>9
  <2> QED  BY <2>1, <2>2
<1>11. { new[i].function : i \in DOMAIN new } = F /\ DOMAIN new = D  BY <1>1, <1>9
<1>12. IsTrace(new)
  <2>1. \A i \in D : new[i].function = None \/ IsSeq(new[i].function)  BY <1>2, <1>9
  <2> QED  BY <1>1, <1>2, <1>9, <1>11, <2>1, Zenon DEF IsTrace
<1>13. TRUE # None  BY TracesAssumption
<1> QED  BY <1>1, <1>4, <1>9, <1>10, <1>11, <1>12, <1>13 DEF Marked

\* A trace before it is classified: one of the application's own, or one without a mark.
Half(own, frames) == IsTrace(frames) /\ (frames \in own \/ \A i \in DOMAIN frames : frames[i].in_app = None)

\* A trace that is classified.
Good(own, include, frames) ==
  /\ IsTrace(frames)
  /\ \/ \E i \in DOMAIN frames : frames[i].in_app = TRUE
     \/ \A i \in DOMAIN frames : frames[i].in_app = FALSE
  /\ \A i \in DOMAIN frames :
       /\ frames[i].function # None
       /\ \E p \in include : Bare(p) /\ StartsWith(frames[i].function, p)
       => \/ frames[i].in_app = TRUE
          \/ frames[i].in_app = FALSE /\ \E t \in own : i \in DOMAIN t /\ t[i] = frames[i]

\* ProcessStacktraceIntegration classifies a trace ...
LEMMA HalfToGood ==
  ASSUME NEW own, NEW frames, Half(own, frames), NEW include, \A p \in include : IsSeq(p), NEW exclude
  PROVE  Good(own, include, ProcessStacktrace(frames, include, exclude))
<1>1. PICK new : new = ProcessStacktrace(frames, include, exclude)  OBVIOUS
<1>2. IsTrace(frames)  BY DEF Half
<1>3. Marked(frames, include, new)  BY <1>1, <1>2, ProcessFacts
<1>4. ASSUME NEW i \in DOMAIN new, new[i].function # None,
             NEW p \in include, Bare(p), StartsWith(new[i].function, p)
      PROVE  new[i].in_app = TRUE \/ (new[i].in_app = FALSE /\ \E t \in own : i \in DOMAIN t /\ t[i] = new[i])
  <2>1. i \in DOMAIN frames /\ new[i].function = frames[i].function  BY <1>3, <1>4 DEF Marked
  <2>2. CASE frames[i].in_app = None
    <3>1. IsSeq(frames[i].function)  BY <1>2, <1>4, <2>1, Zenon DEF IsTrace
    <3>2. FunctionStartsWith(frames[i].function, p)  BY <1>4, <2>1, <3>1, StartsMatch
    <3>3. MatchesAny(frames[i].function, include)  BY <3>2 DEF MatchesAny
    <3> QED  BY <1>3, <1>4, <2>1, <2>2, <3>3 DEF Marked
  <2>3. CASE frames[i].in_app # None
    <3>1. new[i] = frames[i] /\ frames \in own  BY <1>3, <2>1, <2>3 DEF Half, Marked
    <3>2. frames[i].in_app \in {TRUE, FALSE, None}
      <4>1. \E F : frames \in [DOMAIN frames -> [function : F, in_app : {TRUE, FALSE, None}]]
        BY <1>2, Zenon DEF IsTrace
      <4> QED  BY <2>1, <4>1
    <3> QED  BY <2>1, <2>3, <3>1, <3>2
  <2> QED  BY <2>2, <2>3
<1> QED  BY <1>1, <1>3, <1>4 DEF Good, Marked

\* ... and leaves one that is classified as it was found.
LEMMA GoodStaysGood ==
  ASSUME NEW own, NEW include, NEW frames, Good(own, include, frames), NEW exclude
  PROVE  Good(own, include, ProcessStacktrace(frames, include, exclude))
<1>1. PICK new : new = ProcessStacktrace(frames, include, exclude)  OBVIOUS
<1>2. IsTrace(frames) /\ None \notin BOOLEAN  BY TracesAssumption DEF Good
<1>3. Marked(frames, include, new)  BY <1>1, <1>2, ProcessFacts
<1>4. ASSUME NEW i \in DOMAIN new, new[i].function # None,
             NEW p \in include, Bare(p), StartsWith(new[i].function, p)
      PROVE  new[i].in_app = TRUE \/ (new[i].in_app = FALSE /\ \E t \in own : i \in DOMAIN t /\ t[i] = new[i])
  <2>1. i \in DOMAIN frames /\ new[i].function = frames[i].function  BY <1>3, <1>4 DEF Marked
  <2>2. \/ frames[i].in_app = TRUE
        \/ frames[i].in_app = FALSE /\ \E t \in own : i \in DOMAIN t /\ t[i] = frames[i]
    BY <1>4, <2>1 DEF Good
  <2>3. frames[i].in_app # None  BY <1>2, <2>2
  <2>4. new[i] = frames[i]  BY <1>3, <2>1, <2>3 DEF Marked
  <2> QED  BY <2>2, <2>4
<1> QED  BY <1>1, <1>3, <1>4 DEF Good, Marked
-----------------------------------------------------------------------------
(* The stack traces of an event on its way through the integrations *)

\* An event with threads and exceptions.
Shaped(e) ==
  /\ IsEvent(e) /\ IsSeq(e.threads)
  /\ \A i \in DOMAIN e.exception : e.exception[i] = [f \in DOMAIN Exception(None) |-> e.exception[i][f]]

Halves(own, e) == Shaped(e) /\ \A t \in Traces(e) : Half(own, t)
Goods(own, o, e) == Shaped(e) /\ \A t \in Traces(e) : Good(own, o.in_app_include, t)

\* Where a stack trace is asked for there is one.
Attached(o, e) == o.attach_stacktrace => HasStacktrace(e)

\* Events with the same stack traces.
SameTraces(e, d) == IsEvent(d) /\ d.exception = e.exception /\ d.threads = e.threads /\ d.stacktrace = e.stacktrace

LEMMA TracesKept ==
  ASSUME NEW e, NEW d, SameTraces(e, d)
  PROVE  Traces(d) = Traces(e) /\ (HasStacktrace(d) <=> HasStacktrace(e)) /\ (Shaped(e) => Shaped(d))
BY DEF SameTraces, Traces, HasStacktrace, Shaped

\* What has the same stack traces is in the same state.
LEMMA KeptSame ==
  ASSUME NEW e, NEW d, SameTraces(e, d), NEW own, NEW o
  PROVE  /\ Halves(own, e) => Halves(own, d)
         /\ Goods(own, o, e) => Goods(own, o, d)
         /\ Attached(o, e) => Attached(o, d)
<1>1. Traces(d) = Traces(e) /\ (HasStacktrace(d) <=> HasStacktrace(e)) /\ (Shaped(e) => Shaped(d))  BY TracesKept
<1> QED  BY <1>1 DEF Halves, Goods, Attached

\* The frames of a stack trace that is attached have no mark.
LEMMA CurrentUnmarked ==
  Half({}, CurrentStacktrace) /\ \A own : Half(own, CurrentStacktrace)
<1>1. \A x : Frame(x).in_app = None  BY DEF Frame
<1>2. \E a, b, c, d, e : CurrentStacktrace = <<Frame(a), Frame(b), Frame(c), Frame(d), Frame(e)>>
  BY Zenon DEF CurrentStacktrace
<1>3. PICK a, b, c, d, e : CurrentStacktrace = <<Frame(a), Frame(b), Frame(c), Frame(d), Frame(e)>>  BY <1>2, Zenon
<1>4. \A i \in DOMAIN CurrentStacktrace : CurrentStacktrace[i].in_app = None  BY <1>1, <1>3
<1>5. IsTrace(CurrentStacktrace)  BY TracesAssumption
<1> QED  BY <1>4, <1>5 DEF Half

\* AttachStacktraceIntegration adds the current stack trace where there is none.
LEMMA AttachFacts ==
  ASSUME NEW e, Shaped(e), NEW o, NEW d, d = AttachStacktrace(e, o)
  PROVE  /\ Shaped(d) /\ Traces(d) \subseteq Traces(e) \cup {CurrentStacktrace}
         /\ Attached(o, d) /\ (Attached(o, e) => d = e)
<1>1. CASE o.attach_stacktrace /\ ~HasStacktrace(e)
  <2>1. PICK more : more = Append(e.threads, CurrentStacktrace)  OBVIOUS
  <2>2. d = [e EXCEPT !.threads = more]  BY <1>1, <2>1, Zenon DEF AttachStacktrace
  <2>3. IsEvent(d) /\ d.threads = more /\ d.exception = e.exception /\ d.stacktrace = e.stacktrace
    <3>1. PICK D : D = DOMAIN DefaultEvent  OBVIOUS
    <3>2. e = [f \in D |-> e[f]] /\ {"threads", "exception", "stacktrace"} \subseteq D
      BY <3>1, EventFields DEF Shaped, IsEvent
    <3> QED  BY <2>2, <3>1, <3>2 DEF IsEvent
  <2>4. /\ IsSeq(more) /\ more # <<>> /\ DOMAIN more = 1 .. Len(e.threads) + 1 /\ Len(e.threads) \in Nat
        /\ more[Len(e.threads) + 1] = CurrentStacktrace
        /\ \A i \in 1 .. Len(e.threads) : more[i] = e.threads[i]
        /\ DOMAIN e.threads = 1 .. Len(e.threads)
    BY <2>1, AppendIsSeq DEF Shaped, IsSeq
  <2>5. Shaped(d)  BY <2>3, <2>4 DEF Shaped
  <2>6. { d.threads[i] : i \in DOMAIN d.threads } \subseteq { e.threads[i] : i \in DOMAIN e.threads } \cup {CurrentStacktrace}
    <3> SUFFICES ASSUME NEW i \in DOMAIN more
                 PROVE  more[i] = CurrentStacktrace \/ \E j \in DOMAIN e.threads : more[i] = e.threads[j]
      BY <2>3
    <3> QED  BY <2>4
  <2>7. Traces(d) \subseteq Traces(e) \cup {CurrentStacktrace}  BY <2>3, <2>6 DEF Traces
  <2>8. HasStacktrace(d)  BY <2>3, <2>4 DEF HasStacktrace
  <2> QED  BY <1>1, <2>5, <2>7, <2>8 DEF Attached
<1>2. CASE ~(o.attach_stacktrace /\ ~HasStacktrace(e))
  <2>1. d = e  BY <1>2, Zenon DEF AttachStacktrace
  <2> QED  BY <1>2, <2>1 DEF Attached
<1> QED  BY <1>1, <1>2

\* ProcessStacktraceIntegration classifies the stack traces of an event one by one.
LEMMA ClassifiedFacts ==
  ASSUME NEW e, Shaped(e), \A t \in Traces(e) : IsTrace(t), NEW o, NEW d, d = ProcessStacktraces(e, o)
  PROVE  /\ Shaped(d) /\ (Attached(o, e) => Attached(o, d))
         /\ \A t \in Traces(d) : \E s \in Traces(e) : t = ProcessStacktrace(s, o.in_app_include, o.in_app_exclude)
<1> DEFINE New(s) == ProcessStacktrace(s, o.in_app_include, o.in_app_exclude)
<1>1. \A s \in Traces(e) : New(s) # None
  <2> TAKE s \in Traces(e)
  <2>1. IsTrace(New(s))  BY ProcessFacts DEF Marked
  <2> QED  BY <2>1 DEF IsTrace
<1>2. PICK x, y, z : /\ x = Classified(e.stacktrace, o)
                     /\ y = [i \in DOMAIN e.threads |-> Classified(e.threads[i], o)]
                     /\ z = [i \in DOMAIN e.exception |-> ClassifiedException(e.exception[i], o)]
  OBVIOUS
<1>3. d = [e EXCEPT !.stacktrace = x, !.threads = y, !.exception = z]
  BY <1>2, Zenon DEF ProcessStacktraces
<1>4. IsEvent(d) /\ d.stacktrace = x /\ d.threads = y /\ d.exception = z
  <2>1. PICK D : D = DOMAIN DefaultEvent  OBVIOUS
  <2>2. e = [f \in D |-> e[f]] /\ {"threads", "exception", "stacktrace"} \subseteq D
    BY <2>1, EventFields DEF Shaped, IsEvent
  <2> QED  BY <1>3, <2>1, <2>2 DEF IsEvent
<1>5. ASSUME NEW i \in DOMAIN e.exception
      PROVE  z[i] = [f \in DOMAIN Exception(None) |-> z[i][f]] /\ z[i].stacktrace = Classified(e.exception[i].stacktrace, o)
  <2>1. PICK D : D = DOMAIN Exception(None)  OBVIOUS
  <2>2. e.exception[i] = [f \in D |-> e.exception[i][f]] /\ "stacktrace" \in D
    BY <2>1 DEF Shaped, Exception
  <2>3. PICK a, b : a = e.exception[i] /\ b = Classified(e.exception[i].stacktrace, o)  OBVIOUS
  <2>4. z[i] = [a EXCEPT !.stacktrace = b]  BY <1>2, <2>3 DEF ClassifiedException
  <2> QED  BY <2>1, <2>2, <2>3, <2>4
<1>6. IsSeq(y) /\ DOMAIN y = DOMAIN e.threads /\ DOMAIN z = DOMAIN e.exception
      /\ \A i \in DOMAIN y : y[i] = Classified(e.threads[i], o)
  <2>1. PICK n \in Nat : n = Len(e.threads) /\ DOMAIN e.threads = 1 .. n  BY DEF Shaped, IsSeq
  <2>2. y \in Seq({ y[i] : i \in 1 .. n })  BY <1>2, <2>1
  <2> QED  BY <1>2, <2>2, SeqIsSeq
<1>7. Shaped(d)  BY <1>4, <1>5, <1>6 DEF Shaped
<1>8. ASSUME NEW s PROVE Classified(s, o) = IF s = None THEN None ELSE New(s)  BY DEF Classified
<1> HIDE DEF New
<1>9. ASSUME NEW t \in Traces(d) PROVE \E s \in Traces(e) : t = New(s)
  <2>1. t # None
        /\ (t = x \/ (\E i \in DOMAIN y : t = y[i]) \/ \E i \in DOMAIN z : t = z[i].stacktrace)
    BY <1>4 DEF Traces
  <2>2. CASE t = x
    <3>1. e.stacktrace # None /\ t = New(e.stacktrace)  BY <1>2, <1>8, <2>1, <2>2
    <3>2. e.stacktrace \in Traces(e)  BY <3>1 DEF Traces
    <3> QED  BY <3>1, <3>2
  <2>3. ASSUME NEW i \in DOMAIN y, t = y[i] PROVE \E s \in Traces(e) : t = New(s)
    <3>1. i \in DOMAIN e.threads /\ e.threads[i] # None /\ t = New(e.threads[i])  BY <1>6, <1>8, <2>1, <2>3
    <3>2. e.threads[i] \in Traces(e)  BY <3>1 DEF Traces
    <3> QED  BY <3>1, <3>2
  <2>4. ASSUME NEW i \in DOMAIN z, t = z[i].stacktrace PROVE \E s \in Traces(e) : t = New(s)
    <3>1. /\ i \in DOMAIN e.exception /\ e.exception[i].stacktrace # None
          /\ t = New(e.exception[i].stacktrace)
      BY <1>5, <1>6, <1>8, <2>1, <2>4
    <3>2. e.exception[i].stacktrace \in Traces(e)  BY <3>1 DEF Traces
    <3> QED  BY <3>1, <3>2
  <2> QED  BY <2>1, <2>2, <2>3, <2>4
<1>10. HasStacktrace(e) => HasStacktrace(d)
  <2>1. ASSUME e.stacktrace # None PROVE d.stacktrace # None
    <3>1. e.stacktrace \in Traces(e)  BY <2>1 DEF Traces
    <3> QED  BY <1>1, <1>2, <1>4, <1>8, <2>1, <3>1 DEF New
  <2>2. ASSUME e.threads # <<>> PROVE d.threads # <<>>
    <3>1. PICK n \in Nat : e.threads = [i \in 1 .. n |-> e.threads[i]]  BY DEF Shaped, IsSeq
    <3>2. n # 0  BY <2>2, <3>1
    <3>3. 1 \in DOMAIN y  BY <1>6, <3>1, <3>2
    <3> QED  BY <1>4, <3>3
  <2>3. ASSUME NEW i \in DOMAIN e.exception, e.exception[i].stacktrace # None
        PROVE  i \in DOMAIN d.exception /\ d.exception[i].stacktrace # None
    <3>1. e.exception[i].stacktrace \in Traces(e)  BY <2>3 DEF Traces
    <3>2. New(e.exception[i].stacktrace) # None  BY <1>1, <3>1
    <3>3. z[i].stacktrace = Classified(e.exception[i].stacktrace, o)  BY <1>5
    <3>4. z[i].stacktrace = New(e.exception[i].stacktrace)  BY <1>8, <2>3, <3>3
    <3> QED  BY <1>4, <1>6, <2>3, <3>2, <3>4
  <2>4. e.stacktrace # None \/ e.threads # <<>> \/ (\E i \in DOMAIN e.exception : e.exception[i].stacktrace # None)
        => d.stacktrace # None \/ d.threads # <<>> \/ (\E i \in DOMAIN d.exception : d.exception[i].stacktrace # None)
    BY <2>1, <2>2, <2>3, Zenon
  <2> QED  BY <2>4, Zenon DEF HasStacktrace
<1> QED  BY <1>7, <1>9, <1>10 DEF Attached, New
-----------------------------------------------------------------------------
(* What the integrations make of the stack traces *)

\* Integrations that leave the stack traces alone.
LEMMA OtherSteps ==
  ASSUME NEW e, IsEvent(e)
  PROVE  SameTraces(e, AddDebugImages(e)) /\ SameTraces(e, AddContexts(e)) /\ SameTraces(e, e)
<1>1. \A v : SameTraces(e, [e EXCEPT !.debug_meta = v]) /\ SameTraces(e, [e EXCEPT !.contexts = v])
  BY EventFields DEF SameTraces, IsEvent
<1>2. SameTraces(e, e)  BY DEF SameTraces
<1> QED  BY <1>1, <1>2, Zenon DEF AddDebugImages, AddContexts

\* A stack trace that an event is given is to be classified, like those it has.
LEMMA AttachHalf ==
  ASSUME NEW own, NEW e, Halves(own, e), NEW o
  PROVE  Halves(own, AttachStacktrace(e, o)) /\ Attached(o, AttachStacktrace(e, o))
<1>1. PICK d : d = AttachStacktrace(e, o)  OBVIOUS
<1>2. Shaped(d) /\ Traces(d) \subseteq Traces(e) \cup {CurrentStacktrace} /\ Attached(o, d)
  BY <1>1, AttachFacts DEF Halves
<1>3. Half(own, CurrentStacktrace)  BY CurrentUnmarked
<1> QED  BY <1>1, <1>2, <1>3 DEF Halves

\* All are classified together.
LEMMA ProcessHalf ==
  ASSUME NEW own, NEW o, \A p \in o.in_app_include : IsSeq(p), NEW e, Halves(own, e)
  PROVE  /\ Goods(own, o, ProcessStacktraces(e, o))
         /\ Attached(o, e) => Attached(o, ProcessStacktraces(e, o))
<1>1. PICK d : d = ProcessStacktraces(e, o)  OBVIOUS
<1>2. Shaped(e) /\ \A t \in Traces(e) : IsTrace(t)  BY DEF Halves, Half
<1>3. /\ Shaped(d) /\ (Attached(o, e) => Attached(o, d))
      /\ \A t \in Traces(d) : \E s \in Traces(e) : t = ProcessStacktrace(s, o.in_app_include, o.in_app_exclude)
  BY <1>1, <1>2, ClassifiedFacts
<1>4. ASSUME NEW t \in Traces(d) PROVE Good(own, o.in_app_include, t)
  <2>1. PICK s \in Traces(e) : t = ProcessStacktrace(s, o.in_app_include, o.in_app_exclude)  BY <1>3
  <2>2. Half(own, s)  BY DEF Halves
  <2> QED  BY <2>1, <2>2, HalfToGood
<1> QED  BY <1>1, <1>3, <1>4 DEF Goods

\* Nothing changes that any more.
LEMMA StepGood ==
  ASSUME NEW own, NEW o, NEW e, Goods(own, o, e), Attached(o, e), NEW i,
         NEW d, d = ProcessEvent(i, e, o), d # None
  PROVE  Goods(own, o, d) /\ Attached(o, d)
<1>1. \/ d = AttachStacktrace(e, o) \/ d = AddDebugImages(e) \/ d = AddContexts(e)
      \/ d = ProcessStacktraces(e, o) \/ d = e
  BY Zenon DEF ProcessEvent
<1>2. CASE d = AttachStacktrace(e, o)
  <2>1. d = e  BY <1>2, AttachFacts DEF Goods
  <2> QED  BY <2>1
<1>3. CASE d = AddDebugImages(e) \/ d = AddContexts(e) \/ d = e
  <2>1. SameTraces(e, d)  BY <1>3, OtherSteps DEF Goods, Shaped
  <2> QED  BY <2>1, KeptSame
<1>4. CASE d = ProcessStacktraces(e, o)
  <2>1. Shaped(e) /\ \A t \in Traces(e) : IsTrace(t)  BY DEF Goods, Good
  <2>2. /\ Shaped(d) /\ (Attached(o, e) => Attached(o, d))
        /\ \A t \in Traces(d) : \E s \in Traces(e) : t = ProcessStacktrace(s, o.in_app_include, o.in_app_exclude)
    BY <1>4, <2>1, ClassifiedFacts
  <2>3. ASSUME NEW t \in Traces(d) PROVE Good(own, o.in_app_include, t)
    <3>1. PICK s \in Traces(e) : t = ProcessStacktrace(s, o.in_app_include, o.in_app_exclude)  BY <2>2
    <3>2. Good(own, o.in_app_include, s)  BY DEF Goods
    <3> QED  BY <3>1, <3>2, GoodStaysGood
  <2> QED  BY <2>2, <2>3 DEF Goods
<1> QED  BY <1>1, <1>2, <1>3, <1>4

\* An event on its way: before the default integrations, among them, behind them.
Early(own, e) == e = None \/ Halves(own, e)
Ready(own, o, e) == e = None \/ (Halves(own, e) /\ Attached(o, e))
Late(own, o, e) == e = None \/ (Goods(own, o, e) /\ Attached(o, e))

\* The default integrations take an event that way.
LEMMA DefaultSteps ==
  ASSUME NEW own, NEW o, \A p \in o.in_app_include : IsSeq(p), NEW e
  PROVE  /\ Early(own, e) => Ready(own, o, RunStep(o, own, 0, e, "attach-stacktrace"))
         /\ Ready(own, o, e) => /\ Ready(own, o, RunStep(o, own, 0, e, "debug-images"))
                                /\ Ready(own, o, RunStep(o, own, 0, e, "contexts"))
                                /\ Ready(own, o, RunStep(o, own, 0, e, "panic"))
                                /\ Late(own, o, RunStep(o, own, 0, e, "process-stacktrace"))
         /\ Late(own, o, e) => \A i : Late(own, o, RunStep(o, own, 0, e, i))
<1>1. CASE e = None
  <2>1. \A i : RunStep(o, own, 0, e, i) = None  BY <1>1 DEF RunStep
  <2> QED  BY <2>1, Zenon DEF Early, Ready, Late
<1>2. CASE e # None
  <2>1. \A i : RunStep(o, own, 0, e, i) = ProcessEvent(i, e, o)  BY <1>2 DEF RunStep
  <2>2. /\ ProcessEvent("attach-stacktrace", e, o) = AttachStacktrace(e, o)
        /\ ProcessEvent("debug-images", e, o) = AddDebugImages(e)
        /\ ProcessEvent("contexts", e, o) = AddContexts(e)
        /\ ProcessEvent("panic", e, o) = e
        /\ ProcessEvent("process-stacktrace", e, o) = ProcessStacktraces(e, o)
    BY Zenon DEF ProcessEvent
  <2>3. Early(own, e) => Ready(own, o, AttachStacktrace(e, o))  BY <1>2, AttachHalf DEF Early, Ready
  <2>4. ASSUME Ready(own, o, e)
        PROVE  /\ Ready(own, o, AddDebugImages(e)) /\ Ready(own, o, AddContexts(e)) /\ Ready(own, o, e)
               /\ Late(own, o, ProcessStacktraces(e, o))
    <3>1. Halves(own, e) /\ Attached(o, e) /\ IsEvent(e)  BY <1>2, <2>4 DEF Ready, Halves, Shaped
    <3>2. \A d : SameTraces(e, d) => Ready(own, o, d)  BY <3>1, KeptSame DEF Ready
    <3>3. Late(own, o, ProcessStacktraces(e, o))  BY <3>1, ProcessHalf DEF Late
    <3> QED  BY <3>1, <3>2, <3>3, OtherSteps
  <2>5. ASSUME Late(own, o, e), NEW i PROVE Late(own, o, ProcessEvent(i, e, o))
    <3>1. Goods(own, o, e) /\ Attached(o, e)  BY <1>2, <2>5 DEF Late
    <3>2. PICK d : d = ProcessEvent(i, e, o)  OBVIOUS
    <3>3. d # None => Goods(own, o, d) /\ Attached(o, d)  BY <3>1, <3>2, StepGood
    <3>4. Late(own, o, d)  BY <3>3 DEF Late
    <3> QED  BY <3>2, <3>4
  <2> QED  BY <2>1, <2>2, <2>3, <2>4, <2>5, Zenon
<1> QED  BY <1>1, <1>2

ClassKept(o, own, r, u, e) == Late(own, o, e)

Classifying == INSTANCE Folds_proofs WITH FoldStep <- RunStep, FoldKept <- ClassKept

\* The default integrations and those of the application behind them classify
\* every stack trace (Client::prepare_event).
LEMMA RunClassifies ==
  ASSUME NEW own, NEW o, \A p \in o.in_app_include : IsSeq(p), NEW given, IsSeq(given),
         o.integrations = DefaultIntegrations \o given, NEW e, Early(own, e)
  PROVE  Late(own, o, RunIntegrations(e, o))
<1>1. PICK a, b, c, d, f : /\ a = "attach-stacktrace" /\ b = "debug-images" /\ c = "contexts"
                           /\ d = "panic" /\ f = "process-stacktrace"
  OBVIOUS
<1>2. DefaultIntegrations = <<a, b, c, d, f>>  BY <1>1, Zenon DEF DefaultIntegrations
<1>3. PICK T : given \in Seq(T)  BY Common
<1>4. PICK S : S = T \cup {a, b, c, d, f}  OBVIOUS
<1>5. given \in Seq(S) /\ <<a, b, c, d, f>> \in Seq(S)  BY <1>3, <1>4
<1> DEFINE F(s) == Classifying!Fold(o, own, 0, e, s)
<1>6. RunIntegrations(e, o) = F(<<a, b, c, d, f>> \o given)
  <2>1. RunIntegrations(e, o) = F(o.integrations)
    BY Zenon DEF RunIntegrations, RunStep, Classifying!Fold, FoldLeft, MapThenFoldSet,
       Classifying!MapThenFoldSet, Max, Classifying!Max
  <2> QED  BY <1>2, <2>1, Zenon
<1>7. Late(own, o, F(<<a, b, c, d, f>>))
  <2>1. /\ a \in S /\ b \in S /\ c \in S /\ d \in S /\ f \in S
        /\ <<>> \in Seq(S) /\ <<a>> \in Seq(S) /\ <<a, b>> \in Seq(S) /\ <<a, b, c>> \in Seq(S)
        /\ <<a, b, c, d>> \in Seq(S)
    BY <1>4
  <2>2. /\ <<a>> = Append(<<>>, a) /\ <<a, b>> = Append(<<a>>, b) /\ <<a, b, c>> = Append(<<a, b>>, c)
        /\ <<a, b, c, d>> = Append(<<a, b, c>>, d) /\ <<a, b, c, d, f>> = Append(<<a, b, c, d>>, f)
    OBVIOUS
  <2>3. \A s \in Seq(S) : \A x \in S : F(Append(s, x)) = RunStep(o, own, 0, F(s), x)
    BY Classifying!FoldAppend
  <2>4. F(<<>>) = e  BY Classifying!FoldEmpty
  <2>5. PICK s1, s2, s3, s4, s5 : /\ s1 = F(<<a>>) /\ s2 = F(<<a, b>>) /\ s3 = F(<<a, b, c>>)
                                  /\ s4 = F(<<a, b, c, d>>) /\ s5 = F(<<a, b, c, d, f>>)
    OBVIOUS
  <2>6. s1 = RunStep(o, own, 0, e, a)
    <3>1. F(Append(<<>>, a)) = RunStep(o, own, 0, F(<<>>), a)  BY <2>1, <2>3
    <3> QED  BY <2>2, <2>4, <2>5, <3>1, Zenon
  <2>7. s2 = RunStep(o, own, 0, s1, b)
    <3>1. F(Append(<<a>>, b)) = RunStep(o, own, 0, F(<<a>>), b)  BY <2>1, <2>3
    <3> QED  BY <2>2, <2>5, <3>1, Zenon
  <2>8. s3 = RunStep(o, own, 0, s2, c)
    <3>1. F(Append(<<a, b>>, c)) = RunStep(o, own, 0, F(<<a, b>>), c)  BY <2>1, <2>3
    <3> QED  BY <2>2, <2>5, <3>1, Zenon
  <2>9. s4 = RunStep(o, own, 0, s3, d)
    <3>1. F(Append(<<a, b, c>>, d)) = RunStep(o, own, 0, F(<<a, b, c>>), d)  BY <2>1, <2>3
    <3> QED  BY <2>2, <2>5, <3>1, Zenon
  <2>10. s5 = RunStep(o, own, 0, s4, f)
    <3>1. F(Append(<<a, b, c, d>>, f)) = RunStep(o, own, 0, F(<<a, b, c, d>>), f)  BY <2>1, <2>3
    <3> QED  BY <2>2, <2>5, <3>1, Zenon
  <2>11. ASSUME NEW x
         PROVE  /\ Early(own, x) => Ready(own, o, RunStep(o, own, 0, x, a))
                /\ Ready(own, o, x) => /\ Ready(own, o, RunStep(o, own, 0, x, b))
                                       /\ Ready(own, o, RunStep(o, own, 0, x, c))
                                       /\ Ready(own, o, RunStep(o, own, 0, x, d))
                                       /\ Late(own, o, RunStep(o, own, 0, x, f))
    BY <1>1, DefaultSteps, Zenon
  <2> HIDE DEF F
  <2>12. Ready(own, o, s1)  BY <2>6, <2>11
  <2>13. Ready(own, o, s2)  BY <2>7, <2>11, <2>12
  <2>14. Ready(own, o, s3)  BY <2>8, <2>11, <2>13
  <2>15. Ready(own, o, s4)  BY <2>9, <2>11, <2>14
  <2>16. Late(own, o, s5)  BY <2>10, <2>11, <2>15
  <2> QED  BY <2>5, <2>16, Zenon
<1>8. F(<<a, b, c, d, f>> \o given) = Classifying!Fold(o, own, 0, F(<<a, b, c, d, f>>), given)
  <2>1. PICK s : s = <<a, b, c, d, f>>  OBVIOUS
  <2>2. Classifying!Fold(o, own, 0, e, s \o given) = Classifying!Fold(o, own, 0, Classifying!Fold(o, own, 0, e, s), given)
    <3>1. s \in Seq(S) /\ given \in Seq(S)  BY <1>5, <2>1
    <3> QED  BY <3>1, Classifying!FoldConcat
  <2> QED  BY <2>1, <2>2, Zenon
<1>9. PICK base : base = F(<<a, b, c, d, f>>)  OBVIOUS
<1>10. ClassKept(o, own, 0, given, Classifying!Fold(o, own, 0, base, given))
  <2>1. ClassKept(o, own, 0, <<>>, base)  BY <1>7, <1>9 DEF ClassKept
  <2>2. \A u \in Seq(S) : \A acc : \A x \in S :
          ClassKept(o, own, 0, u, acc) => ClassKept(o, own, 0, Append(u, x), RunStep(o, own, 0, acc, x))
    BY DefaultSteps DEF ClassKept
  <2> QED  BY <1>5, <2>1, <2>2, Classifying!FoldInduction
<1> QED  BY <1>6, <1>8, <1>9, <1>10, Zenon DEF ClassKept
-----------------------------------------------------------------------------
(* The stack traces that events are captured with *)

\* An exception without a mark in its stack trace.
Raw(x) ==
  /\ x = [f \in DOMAIN Exception(None) |-> x[f]]
  /\ x.stacktrace = None \/ Half({}, x.stacktrace)

Raws(s) == \A i \in DOMAIN s : Raw(s[i])

LEMMA RawException ==
  /\ \A ty : Raw(Exception(ty))
  /\ \A x, t : Raw(x) /\ Half({}, t) => Raw([x EXCEPT !.stacktrace = t])
  /\ \A x, m : Raw(x) => Raw([x EXCEPT !.mechanism = m])
<1>1. PICK D : D = DOMAIN Exception(None)  OBVIOUS
<1>2. D = {"ty", "mechanism", "handled", "stacktrace"}  BY <1>1 DEF Exception
<1>3. ASSUME NEW ty PROVE Raw(Exception(ty))  BY <1>1 DEF Raw, Exception
<1>4. ASSUME NEW x, NEW t, Raw(x), Half({}, t) PROVE Raw([x EXCEPT !.stacktrace = t])
  <2>1. x = [f \in D |-> x[f]]  BY <1>1, <1>4 DEF Raw
  <2>2. PICK y : y = [x EXCEPT !.stacktrace = t]  OBVIOUS
  <2>3. y = [f \in D |-> y[f]] /\ y.stacktrace = t  BY <1>2, <2>1, <2>2
  <2> QED  BY <1>1, <1>4, <2>2, <2>3 DEF Raw
<1>5. ASSUME NEW x, NEW m, Raw(x) PROVE Raw([x EXCEPT !.mechanism = m])
  <2>1. x = [f \in D |-> x[f]]  BY <1>1, <1>5 DEF Raw
  <2>2. PICK y : y = [x EXCEPT !.mechanism = m]  OBVIOUS
  <2>3. y = [f \in D |-> y[f]] /\ y.stacktrace = x.stacktrace  BY <1>2, <2>1, <2>2
  <2> QED  BY <1>1, <1>5, <2>2, <2>3 DEF Raw
<1> QED  BY <1>3, <1>4, <1>5

\* So are those of a chain of sources.
LEMMA RawChain ==
  ASSUME NEW chain PROVE Raws(ExceptionsOf(chain))
BY RawException DEF Raws, ExceptionsOf

\* Stack traces that the SDK captures have no mark.
LEMMA RawTraces ==
  /\ Half({}, CurrentStacktrace) /\ Half({}, AnyhowStacktrace)
  /\ \A own, t : Half({}, t) => Half(own, t)
<1>1. Half({}, CurrentStacktrace)  BY CurrentUnmarked
<1>2. \A own, t : Half({}, t) => Half(own, t)  BY DEF Half
<1>3. \A x : Frame(x).in_app = None  BY DEF Frame
<1>4. \E a : AnyhowStacktrace = <<Frame(a)>>  BY Zenon DEF AnyhowStacktrace
<1>5. PICK a : AnyhowStacktrace = <<Frame(a)>>  BY <1>4
<1>6. \A i \in DOMAIN AnyhowStacktrace : AnyhowStacktrace[i].in_app = None  BY <1>3, <1>5
<1>7. IsTrace(AnyhowStacktrace)  BY TracesAssumption
<1> QED  BY <1>1, <1>2, <1>6, <1>7 DEF Half

\* An event of the SDK's own is to be classified.
LEMMA FreshHalves ==
  ASSUME NEW v, IsEvent(v), v.threads = <<>>, v.stacktrace = None, Raws(v.exception), NEW own
  PROVE  Halves(own, v)
<1>1. \A i \in DOMAIN v.exception : v.exception[i] = [f \in DOMAIN Exception(None) |-> v.exception[i][f]]
  BY DEF Raws, Raw
<1>2. Shaped(v)  BY <1>1, EmptyIsSeq DEF Shaped
<1>3. ASSUME NEW t \in Traces(v) PROVE Half(own, t)
  <2>1. t # None /\ \E i \in DOMAIN v.exception : t = v.exception[i].stacktrace  BY DEF Traces
  <2>2. Half({}, t)  BY <2>1 DEF Raws, Raw
  <2> QED  BY <2>2, RawTraces
<1> QED  BY <1>2, <1>3 DEF Halves

\* The stack traces of the application's own event, and none of another's.
OwnTraces(call) == IF call.op = "event" THEN Traces(call.event) ELSE {}

Blank(v) == IsEvent(v) /\ v.threads = <<>> /\ v.stacktrace = None /\ v.exception = <<>>

\* The event of an error whose backtrace anyhow has captured.
LEMMA AnyhowFacts ==
  ASSUME NEW chain, NEW captured, NEW v, v = EventFromAnyhow(chain, captured)
  PROVE  v.threads = <<>> /\ v.stacktrace = None /\ Raws(v.exception)
<1>1. PICK D, e : D = DOMAIN DefaultEvent /\ e = DefaultEvent  OBVIOUS
<1>2. /\ e = [f \in D |-> e[f]] /\ e.threads = <<>> /\ e.stacktrace = None
      /\ "exception" \in D /\ "threads" \in D /\ "stacktrace" \in D /\ "level" \in D
  BY <1>1, EventFields DEF DefaultEvent
<1>3. PICK a : a = ExceptionsOf(chain)  OBVIOUS
<1>4. PICK u : u = [e EXCEPT !.level = "error", !.exception = a]  OBVIOUS
<1>5. u = EventFromError(chain)  BY <1>1, <1>3, <1>4, Zenon DEF EventFromError
<1>6. u = [f \in D |-> u[f]] /\ u.exception = a /\ u.threads = <<>> /\ u.stacktrace = None
  BY <1>2, <1>4
<1>7. Raws(a)  BY <1>3, RawChain
<1>8. CASE captured
  <2>1. PICK t, n : t = AnyhowStacktrace /\ n = Len(chain)  OBVIOUS
  <2>2. v = [u EXCEPT !.exception[n].stacktrace = t]  BY <1>5, <1>8, <2>1 DEF EventFromAnyhow
  <2>3. PICK b : b = [a EXCEPT ![n].stacktrace = t]  OBVIOUS
  <2>4. v.exception = b /\ v.threads = <<>> /\ v.stacktrace = None  BY <1>2, <1>6, <2>2, <2>3
  <2>5. Half({}, t)  BY <2>1, RawTraces
  <2>6. a = [i \in DOMAIN a |-> a[i]]  BY <1>3 DEF ExceptionsOf
  <2>7. ASSUME NEW i \in DOMAIN b PROVE Raw(b[i])
    <3>1. i \in DOMAIN a /\ b[i] = IF i = n THEN [a[i] EXCEPT !.stacktrace = t] ELSE a[i]  BY <2>3, <2>6
    <3>2. Raw(a[i])  BY <1>7, <3>1 DEF Raws
    <3> QED  BY <2>5, <3>1, <3>2, RawException
  <2> QED  BY <2>4, <2>7 DEF Raws
<1>9. CASE ~captured
  <2>1. v = u  BY <1>5, <1>9 DEF EventFromAnyhow
  <2> QED  BY <1>6, <1>7, <2>1
<1> QED  BY <1>8, <1>9

\* The event of a panic.
LEMMA PanicFacts ==
  ASSUME NEW v, v = EventFromPanic(TRUE) \/ v = EventFromPanic(FALSE)
  PROVE  v.threads = <<>> /\ v.stacktrace = None /\ Raws(v.exception)
<1>1. PICK D, e : D = DOMAIN DefaultEvent /\ e = DefaultEvent  OBVIOUS
<1>2. /\ e = [f \in D |-> e[f]] /\ e.threads = <<>> /\ e.stacktrace = None /\ e.exception = <<>>
      /\ "exception" \in D /\ "threads" \in D /\ "stacktrace" \in D /\ "level" \in D
  BY <1>1, EventFields DEF DefaultEvent
<1>3. CASE v = EventFromPanic(TRUE)
  <2>1. v = [e EXCEPT !.message = "extracted", !.level = "fatal"]  BY <1>1, <1>3, Zenon DEF EventFromPanic
  <2>2. v.threads = <<>> /\ v.stacktrace = None /\ v.exception = <<>>  BY <1>2, <2>1
  <2> QED  BY <2>2 DEF Raws
<1>4. CASE v = EventFromPanic(FALSE)
  <2>1. PICK x : x = [ty |-> "panic", mechanism |-> "panic", handled |-> FALSE, stacktrace |-> CurrentStacktrace]
    OBVIOUS
  <2>2. v = [e EXCEPT !.level = "fatal", !.exception = <<x>>]
    BY <1>1, <1>4, <2>1, Zenon DEF EventFromPanic
  <2>3. v.threads = <<>> /\ v.stacktrace = None /\ v.exception = <<x>>  BY <1>2, <2>2
  <2>4. x.stacktrace = CurrentStacktrace /\ x = [f \in DOMAIN Exception(None) |-> x[f]]  BY <2>1 DEF Exception
  <2>5. Raw(x)  BY <2>4, RawTraces DEF Raw
  <2>6. Raws(<<x>>)  BY <2>5 DEF Raws
  <2> QED  BY <2>3, <2>6
<1> QED  BY <1>3, <1>4

\* The event of a tracing event: the exception that is put around its errors has the
\* current stack trace.
LEMMA TracedFacts ==
  ASSUME NEW record, NEW m, NEW w, NEW attach, NEW v, v = EventFromData(record, m, w, attach)
  PROVE  v.threads = <<>> /\ v.stacktrace = None /\ Raws(v.exception)
<1> DEFINE errors == IF \E k \in DOMAIN record.fields : record.fields[k] = "error"
                     THEN ExceptionsOf(<<"Outer", "Inner">>) ELSE <<>>
           wraps  == errors # <<>> /\ m # None /\ attach
           all    == IF wraps THEN Append(errors, [Exception("tracing") EXCEPT !.stacktrace = CurrentStacktrace])
                     ELSE errors
           last   == IF all = <<>> THEN all ELSE [all EXCEPT ![Len(all)].mechanism = "tracing"]
           left   == [k \in DOMAIN w \ { x \in {"tags.t"} : HasKey(w, x) /\ w[x] # "array" } |-> w[k]]
<1>1. v = Traced("target", SentryLevel(record.level), IF wraps THEN None ELSE m, last,
                 [k \in TagOf(w) |-> "event"],
                 Extend([k \in {"Rust Tracing Location"} |-> "event"],
                        IF DOMAIN left = {} THEN NoKeys ELSE [k \in {"Rust Tracing Fields"} |-> DOMAIN left]))
  BY Zenon DEF EventFromData, Traced
<1>2. PICK l : l = last  OBVIOUS
<1>3. \E a, b, c, d, f : v = Traced(a, b, c, l, d, f)
  <2> HIDE DEF last, wraps, left
  <2> QED  BY <1>1, <1>2, Zenon
<1>4. v.exception = l /\ v.threads = <<>> /\ v.stacktrace = None
  <2>1. PICK D, e : D = DOMAIN DefaultEvent /\ e = DefaultEvent  OBVIOUS
  <2>2. /\ e = [f \in D |-> e[f]] /\ e.threads = <<>> /\ e.stacktrace = None
        /\ "exception" \in D /\ "threads" \in D /\ "stacktrace" \in D
    BY <2>1, EventFields DEF DefaultEvent
  <2>3. PICK a, b, c, d, f : v = Traced(a, b, c, l, d, f)  BY <1>3, Zenon
  <2> HIDE DEF errors, wraps, all, last, left
  <2> QED  BY <2>1, <2>2, <2>3 DEF Traced
<1>5. Raws(errors) /\ IsSeq(errors)
  <2>1. PICK chain : chain = <<"Outer", "Inner">>  OBVIOUS
  <2>2. DOMAIN chain = 1 .. 2  BY <2>1
  <2>3. PICK a : a = ExceptionsOf(chain)  OBVIOUS
  <2>4. a = [i \in 1 .. 2 |-> a[i]]  BY <2>2, <2>3 DEF ExceptionsOf
  <2>5. IsSeq(a)
    <3>1. a \in Seq({ a[i] : i \in 1 .. 2 })  BY <2>4
    <3> QED  BY <3>1, SeqIsSeq
  <2>6. Raws(a) /\ Raws(<<>>) /\ IsSeq(<<>>)  BY <2>3, RawChain, EmptyIsSeq DEF Raws
  <2> QED  BY <2>1, <2>3, <2>5, <2>6, Zenon
<1>6. Raws(all) /\ IsSeq(all)
  <2>1. PICK s, x : s = errors /\ x = [Exception("tracing") EXCEPT !.stacktrace = CurrentStacktrace]  OBVIOUS
  <2>2. Raw(x)  BY <2>1, RawTraces, RawException
  <2>3. Raws(s) /\ IsSeq(s)  BY <1>5, <2>1
  <2>4. Raws(Append(s, x)) /\ IsSeq(Append(s, x))  BY <2>2, <2>3, AppendIsSeq DEF Raws
  <2>5. all = s \/ all = Append(s, x)  BY <2>1, Zenon
  <2> HIDE DEF all
  <2> QED  BY <2>3, <2>4, <2>5
<1>7. Raws(l)
  <2>1. PICK s, n, mark : s = all /\ n = Len(all) /\ mark = "tracing"  OBVIOUS
  <2>2. l = s \/ l = [s EXCEPT ![n].mechanism = mark]  BY <1>2, <2>1, Zenon
  <2>3. Raws(s) /\ s = [i \in DOMAIN s |-> s[i]]  BY <1>6, <2>1 DEF IsSeq
  <2> HIDE DEF all, last
  <2>4. ASSUME l = [s EXCEPT ![n].mechanism = mark], NEW i \in DOMAIN l PROVE Raw(l[i])
    <3>1. i \in DOMAIN s /\ l[i] = IF i = n THEN [s[i] EXCEPT !.mechanism = mark] ELSE s[i]  BY <2>3, <2>4
    <3>2. Raw(s[i])  BY <2>3, <3>1 DEF Raws
    <3> QED  BY <3>1, <3>2, RawException
  <2> QED  BY <2>2, <2>3, <2>4 DEF Raws
<1> HIDE DEF errors, wraps, all, last, left
<1> QED  BY <1>4, <1>7

\* Every event that is captured is to be classified.
LEMMA SourceHalves ==
  ASSUME NEW call, CallOk(call), NEW o, NEW v, Source(call, o, v)
  PROVE  Halves(OwnTraces(call), v)
<1>1. IsEvent(v)  BY SourceFacts
<1>2. PICK own : own = OwnTraces(call)  OBVIOUS
<1>3. PICK D, e : D = DOMAIN DefaultEvent /\ e = DefaultEvent  OBVIOUS
<1>4. /\ e = [f \in D |-> e[f]] /\ e.threads = <<>> /\ e.stacktrace = None /\ e.exception = <<>>
      /\ "exception" \in D /\ "threads" \in D /\ "stacktrace" \in D
  BY <1>3, EventFields DEF DefaultEvent
<1>5. Raws(<<>>)  BY DEF Raws
<1>6. ASSUME v.threads = <<>>, v.stacktrace = None, Raws(v.exception) PROVE Halves(own, v)
  BY <1>1, <1>6, FreshHalves
<1>7. CASE call.op = "event" /\ v = call.event
  <2>1. StacksOk(v) /\ own = Traces(v)  BY <1>2, <1>7 DEF CallOk, OwnTraces
  <2>2. Shaped(v) /\ \A t \in Traces(v) : IsTrace(t)  BY <1>1, <2>1 DEF StacksOk, Shaped
  <2> QED  BY <2>1, <2>2, <1>2 DEF Halves, Half
<1>8. CASE call.op \in {"message", "hub"} /\ v = EventFromMessage(call.level)
  <2>1. v = [e EXCEPT !.message = "message", !.level = call.level]  BY <1>3, <1>8, Zenon DEF EventFromMessage
  <2>2. v.threads = <<>> /\ v.stacktrace = None /\ v.exception = <<>>  BY <1>4, <2>1
  <2> QED  BY <1>2, <1>5, <1>6, <2>2
<1>9. CASE call.op = "error" /\ v = EventFromError(call.chain)
  <2>1. v = EventFromAnyhow(call.chain, FALSE)  BY <1>9 DEF EventFromAnyhow
  <2> QED  BY <1>2, <1>6, <2>1, AnyhowFacts
<1>10. CASE call.op = "anyhow" /\ v = EventFromAnyhow(call.chain, call.captured)
  BY <1>2, <1>6, <1>10, AnyhowFacts
<1>11. CASE call.op = "log" /\ v = EventFromRecord(call.record)
  <2>1. \E a, b, c, d : v = [e EXCEPT !.logger = a, !.level = b, !.message = c, !.contexts = d]
    BY <1>3, <1>11, Zenon DEF EventFromRecord
  <2>2. PICK a, b, c, d : v = [e EXCEPT !.logger = a, !.level = b, !.message = c, !.contexts = d]  BY <2>1
  <2>3. v.threads = <<>> /\ v.stacktrace = None /\ v.exception = <<>>  BY <1>4, <2>2
  <2> QED  BY <1>2, <1>5, <1>6, <2>3
<1>12. CASE call.op = "slog" /\ v = SlogEvent(call.record)
  <2>1. \E a, b, c : v = [e EXCEPT !.message = a, !.extra = b, !.level = c]
    BY <1>3, <1>12, Zenon DEF SlogEvent
  <2>2. PICK a, b, c : v = [e EXCEPT !.message = a, !.extra = b, !.level = c]  BY <2>1
  <2>3. v.threads = <<>> /\ v.stacktrace = None /\ v.exception = <<>>  BY <1>4, <2>2
  <2> QED  BY <1>2, <1>5, <1>6, <2>3
<1>13. CASE call.op = "tracing" /\ v = EventFromEvent(call.record, o.attach_stacktrace)
  <2>1. \E m, w : v = EventFromData(call.record, m, w, o.attach_stacktrace)
    BY <1>13, Zenon DEF EventFromEvent
  <2>2. PICK m, w : v = EventFromData(call.record, m, w, o.attach_stacktrace)  BY <2>1
  <2> QED  BY <1>2, <1>6, <2>2, TracedFacts
<1>14. CASE call.op = "panic" /\ (v = EventFromPanic(TRUE) \/ v = EventFromPanic(FALSE))
  BY <1>2, <1>6, <1>14, PanicFacts
<1> QED  BY <1>7, <1>8, <1>9, <1>10, <1>11, <1>12, <1>13, <1>14, ZenonT(120) DEF Source
-----------------------------------------------------------------------------
(* What becomes of the stack traces *)

\* Naming an event, applying the scope to it and filling it from the options leave its
\* stack traces alone.
LEMMA AroundTraces ==
  /\ \A v, id, o : IsEvent(v) => SameTraces(v, Named(v, id, o))
  /\ \A d, e : Alike(d, e, Scoped) => SameTraces(e, d)
  /\ \A d, e : Alike(d, e, Optional) => SameTraces(e, d)
<1>1. ASSUME NEW v, NEW id, NEW o, IsEvent(v) PROVE SameTraces(v, Named(v, id, o))
  <2>1. PICK D : D = DOMAIN DefaultEvent  OBVIOUS
  <2>2. v = [f \in D |-> v[f]] /\ {"exception", "threads", "stacktrace"} \subseteq D
    BY <1>1, <2>1, EventFields DEF IsEvent
  <2>3. PICK s : s = OrElse(v.sdk, o.integrations)  OBVIOUS
  <2>4. PICK n : n = [v EXCEPT !.event_id = id, !.sdk = s]  OBVIOUS
  <2>5. n = Named(v, id, o)
    <3>1. PICK a : a = [v EXCEPT !.event_id = id]  OBVIOUS
    <3>2. a.sdk = v.sdk  BY <2>2, <3>1
    <3>3. Named(v, id, o) = [a EXCEPT !.sdk = OrElse(a.sdk, o.integrations)]  BY <3>1, Zenon DEF Named
    <3>4. Named(v, id, o) = [a EXCEPT !.sdk = s]  BY <2>3, <3>2, <3>3, Zenon
    <3> QED  BY <2>4, <3>1, <3>4, Zenon
  <2>6. n = [f \in D |-> n[f]] /\ n.exception = v.exception /\ n.threads = v.threads /\ n.stacktrace = v.stacktrace
    BY <2>2, <2>4
  <2> QED  BY <2>1, <2>5, <2>6 DEF SameTraces, IsEvent
<1>2. \A d, e : Alike(d, e, Scoped) => SameTraces(e, d)
  BY EventFields DEF Alike, Scoped, SameTraces
<1>3. \A d, e : Alike(d, e, Optional) => SameTraces(e, d)
  BY EventFields DEF Alike, Optional, SameTraces
<1> QED  BY <1>1, <1>2, <1>3

\* Every stack trace an event is sent with has been classified.
LEMMA MadeGood ==
  ASSUME NEW event, NEW call, NEW id, NEW scope, NEW o, MadeFrom(event, call, id, scope, o), ScopeOk(scope),
         \A p \in o.in_app_include : IsSeq(p), NEW given, IsSeq(given),
         o.integrations = DefaultIntegrations \o given
  PROVE  Goods(OwnTraces(call), o, event)
<1>1. PICK own : own = OwnTraces(call)  OBVIOUS
<1>2. PICK crumbs, v : CallOk(call) /\ Source(call, o, v) /\ MadeOf(event, WithCrumbs(scope, crumbs), v, id, o)
  BY DEF MadeFrom
<1>3. PICK s : s = WithCrumbs(scope, crumbs)  OBVIOUS
<1>4. PICK made : made = Made(s, v, id, o)  OBVIOUS
<1>5. made # None /\ event = FillFromOptions(made, o)  BY <1>2, <1>3, <1>4, Zenon DEF MadeOf
<1>6. Halves(own, v) /\ IsEvent(v)  BY <1>1, <1>2, SourceHalves, SourceFacts
<1>7. PICK n : n = Named(v, id, o)  OBVIOUS
<1>8. Halves(own, n) /\ IsEvent(n)
  <2>1. SameTraces(v, n)  BY <1>6, <1>7, AroundTraces
  <2> QED  BY <1>6, <2>1, KeptSame DEF SameTraces
<1>9. PICK e : e = ApplyToEvent(s, n)  OBVIOUS
<1>10. e # None /\ made = RunIntegrations(e, o)  BY <1>4, <1>5, <1>7, <1>9, Zenon DEF Made, Processed
<1>11. Early(own, e)
  <2>1. IsSeq(s.event_processors)  BY <1>3, CrumbsFacts DEF ScopeOk
  <2>2. SameTraces(n, e)  BY <1>8, <1>9, <1>10, <2>1, ScopeFacts, AroundTraces
  <2> QED  BY <1>8, <2>2, KeptSame DEF Early
<1>12. Goods(own, o, made)
  <2>1. Late(own, o, made)  BY <1>10, <1>11, RunClassifies
  <2> QED  BY <1>5, <2>1 DEF Late
<1>13. SameTraces(made, event)
  <2>1. Alike(event, made, Optional)  BY <1>5, <1>12, FillFacts DEF Goods, Shaped
  <2> QED  BY <2>1, AroundTraces
<1> QED  BY <1>1, <1>12, <1>13, KeptSame

\* What the application asked for, and what events are made of.
LEMMA InAppShown == Account => InAppDecided
<1> SUFFICES ASSUME Account, client # None, client.options.default_integrations,
                    NEW event \in ToSet(EventsSent), NEW frames \in Traces(event)
             PROVE  LET call   == FateOf(event).call
                        Own(i) == call.op = "event" /\ \E own \in Traces(call.event) : i \in DOMAIN own /\ own[i] = frames[i]
                    IN
                    /\ \/ \E i \in DOMAIN frames : frames[i].in_app = TRUE
                       \/ \A i \in DOMAIN frames : frames[i].in_app = FALSE
                    /\ \A i \in DOMAIN frames :
                         /\ frames[i].function # None
                         /\ \E p \in client.options.in_app_include : Bare(p) /\ StartsWith(frames[i].function, p)
                         => frames[i].in_app = TRUE \/ (frames[i].in_app = FALSE /\ Own(i))
  BY Zenon DEF InAppDecided
<1>1. Accepted /\ client.options = Mine /\ ScopeOk(scenario.scope)
  <2>1. ClientIs(client, Mine) /\ Accepted  BY DEF Account
  <2>2. ScopeOk(scenario.scope)  BY ScenarioFacts, Zenon
  <2> QED  BY <2>1, <2>2 DEF ClientIs, ClientOk
<1>2. PICK o : o = Mine  OBVIOUS
<1>3. PICK given : IsSeq(given) /\ o.integrations = DefaultIntegrations \o given
  <2>1. o.default_integrations  BY <1>1, <1>2
  <2>2. \E given : IsSeq(given)
          /\ o.integrations = (IF o.default_integrations THEN DefaultIntegrations ELSE <<>>) \o given
    BY <1>1, <1>2, MineFacts
  <2> QED  BY <2>1, <2>2
<1>4. \A p \in o.in_app_include : IsSeq(p)  BY <1>1, <1>2, MineFacts DEF OptionsOk
<1>5. PICK call : call = FateOf(event).call  OBVIOUS
<1>6. MadeFrom(event, call, event.event_id, scenario.scope, o)  BY <1>2, <1>5, EventStory
<1>7. Goods(OwnTraces(call), o, event)  BY <1>1, <1>3, <1>4, <1>6, MadeGood
<1>8. Good(OwnTraces(call), o.in_app_include, frames)  BY <1>7 DEF Goods
<1>9. ASSUME NEW i
      PROVE (\E t \in OwnTraces(call) : i \in DOMAIN t /\ t[i] = frames[i])
            <=> call.op = "event" /\ \E own \in Traces(call.event) : i \in DOMAIN own /\ own[i] = frames[i]
  BY DEF OwnTraces
<1> QED  BY <1>1, <1>2, <1>5, <1>8, <1>9, Zenon DEF Good

\* The default integrations decide of every frame whether it is the application's.
THEOREM TracesClassified == Spec => []InAppDecided
<1>1. Spec => []Account  BY AccountHolds
<1>2. Account => InAppDecided  BY InAppShown
<1> QED  BY <1>1, <1>2, PTL
=============================================================================
