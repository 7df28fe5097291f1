---------------------------- MODULE Folds_proofs ----------------------------
(***************************************************************************)
(* Sums over finite sets (SumFunctionOnSet of the module Functions), for   *)
(* the proofs about counters: client reports and session aggregates; and   *)
(* folds of sequences (FoldLeft of SequencesExt), for the proofs about     *)
(* what passes through the pipeline.  Both are recursive functions on the  *)
(* subsets of a set, so every fact is an induction; the induction          *)
(* principles are stated for sets, which the provers can instantiate, and  *)
(* follow from well-foundedness.                                           *)
(***************************************************************************)
EXTENDS Integers, FiniteSets, Functions, Folds, Sequences, WellFoundedInduction, TLAPS

\* The operation of a fold, under parameters p, q and r, and what each step of
\* it keeps, for the modules that instantiate this one; sums use neither.
CONSTANTS FoldStep(_, _, _, _, _), FoldKept(_, _, _, _, _)

\* A set of naturals that holds 0 and every successor holds all of them.
LEMMA SetInduction ==
  ASSUME NEW Q \in SUBSET Nat, 0 \in Q, \A n \in Q : n + 1 \in Q
  PROVE  Q = Nat
<1>1. SUFFICES ASSUME Nat \ Q # {} PROVE FALSE
  OBVIOUS
<1>2. PICK x \in Nat \ Q : \A y \in Nat \ Q : ~ (y < x)
  <2> DEFINE R == OpToRel(<, Nat)
  <2>1. R = {ss \in Nat \X Nat : ss[1] < ss[2]}  BY DEF OpToRel
  <2> HIDE DEF R
  <2>2. IsWellFoundedOn(R, Nat)  BY NatLessThanWellFounded DEF R
  <2>3. PICK x \in Nat \ Q : \A y \in Nat \ Q : <<y, x>> \notin R
    BY <2>2, <1>1, WFMin
  <2>4. \A y \in Nat \ Q : ~ (y < x)  BY <2>1, <2>3
  <2> QED  BY <2>4
<1>3. x # 0 /\ x - 1 \in Nat
  OBVIOUS
<1>4. x - 1 \in Q
  BY <1>2, <1>3
<1> QED  BY <1>3, <1>4

-----------------------------------------------------------------------------
\* The element a sum takes next, and what makes g the partial sums of f.
Pick(s) == CHOOSE x \in s : TRUE
Summed(f, g, D) == g = [s \in D |-> IF s = {} THEN 0 ELSE f[Pick(s)] + g[s \ {Pick(s)}]]

LEMMA Unfold ==
  ASSUME NEW f, NEW S
  PROVE  SumFunctionOnSet(f, S) = (CHOOSE g : Summed(f, g, SUBSET S))[S]
BY DEF SumFunctionOnSet, FoldFunctionOnSet, MapThenFoldSet, Summed, Pick

\* No more than n elements: what the inductions below count down.
Within(s, n) == \E f : s \subseteq { f[i] : i \in 1 .. n }

\* A finite set is within some number; so are its subsets, which are finite too.
LEMMA FiniteWithin ==
  ASSUME NEW S, IsFiniteSet(S)
  PROVE  \E n \in Nat : Within(S, n)
<1>1. PICK seq \in Seq(S) : \A x \in S : \E i \in 1 .. Len(seq) : seq[i] = x  BY DEF IsFiniteSet
<1>2. PICK n \in Nat : n = Len(seq)  OBVIOUS
<1>3. S \subseteq { seq[i] : i \in 1 .. n }  BY <1>1, <1>2
<1> QED  BY <1>3 DEF Within

LEMMA WithinSubset ==
  ASSUME NEW S, NEW n, Within(S, n), NEW T \in SUBSET S
  PROVE  Within(T, n)
BY DEF Within

LEMMA SubsetFinite ==
  ASSUME NEW S, IsFiniteSet(S), NEW T \in SUBSET S
  PROVE  IsFiniteSet(T)
<1>1. CASE T = {}
  <2>1. <<>> \in Seq(T)  OBVIOUS
  <2> QED  BY <1>1, <2>1 DEF IsFiniteSet
<1>2. CASE T # {}
  <2>1. PICK seq \in Seq(S) : \A x \in S : \E i \in 1 .. Len(seq) : seq[i] = x  BY DEF IsFiniteSet
  <2>2. PICK n \in Nat : n = Len(seq)  OBVIOUS
  <2>3. PICK y \in T : TRUE  BY <1>2
  <2>4. PICK two : two = [i \in 1 .. n |-> IF seq[i] \in T THEN seq[i] ELSE y]  OBVIOUS
  <2>5. \A i \in 1 .. n : two[i] \in T  BY <2>4
  <2>6. two \in Seq(T) /\ Len(two) = n  BY <2>4, <2>5
  <2>7. \A x \in T : \E i \in 1 .. n : two[i] = x  BY <2>1, <2>2, <2>4
  <2> QED  BY <2>6, <2>7 DEF IsFiniteSet
<1> QED  BY <1>1, <1>2

LEMMA EmptyWithin ==
  ASSUME NEW s, Within(s, 0)
  PROVE  s = {}
BY DEF Within

\* Taking an element out of a set makes it smaller.
LEMMA WithinRemove ==
  ASSUME NEW s, NEW n \in Nat, Within(s, n + 1), NEW x \in s
  PROVE  Within(s \ {x}, n)
<1>1. PICK f : s \subseteq { f[i] : i \in 1 .. n + 1 }  BY DEF Within
<1>2. PICK k \in 1 .. n + 1 : f[k] = x  BY <1>1
<1>3. PICK g : g = [i \in 1 .. n |-> IF i = k THEN f[n + 1] ELSE f[i]]  OBVIOUS
<1>4. ASSUME NEW y \in s \ {x} PROVE \E i \in 1 .. n : g[i] = y
  <2>1. PICK i \in 1 .. n + 1 : f[i] = y  BY <1>1
  <2>2. i # k  BY <1>2, <2>1
  <2>3. CASE i = n + 1
    <3>1. k \in 1 .. n  BY <2>2, <2>3
    <3> QED  BY <1>3, <2>1, <2>3, <3>1
  <2>4. CASE i # n + 1
    <3>1. i \in 1 .. n  BY <2>4
    <3> QED  BY <1>3, <2>1, <2>2, <3>1
  <2> QED  BY <2>3, <2>4
<1>5. s \ {x} \subseteq { g[i] : i \in 1 .. n }  BY <1>4
<1> QED  BY <1>5 DEF Within

\* So does taking out the next element of a sum.
LEMMA PickSmaller ==
  ASSUME NEW s, s # {}
  PROVE  /\ Pick(s) \in s
         /\ \A n \in Nat : Within(s, n + 1) => Within(s \ {Pick(s)}, n)
<1>1. Pick(s) \in s  BY DEF Pick
<1> QED  BY <1>1, WithinRemove

LEMMA EmptyFinite == IsFiniteSet({})
<1>1. <<>> \in Seq({})  OBVIOUS
<1> QED  BY <1>1 DEF IsFiniteSet

LEMMA IntervalFinite ==
  ASSUME NEW n \in Nat
  PROVE  IsFiniteSet(1 .. n)
<1>1. PICK seq : seq = [i \in 1 .. n |-> i]  OBVIOUS
<1>2. seq \in Seq(1 .. n) /\ Len(seq) = n  BY <1>1
<1>3. \A x \in 1 .. n : \E i \in 1 .. Len(seq) : seq[i] = x  BY <1>1, <1>2
<1> QED  BY <1>2, <1>3 DEF IsFiniteSet

\* The recursion defines a function.
LEMMA SumExists ==
  ASSUME NEW f, NEW S, IsFiniteSet(S)
  PROVE  \E g : Summed(f, g, SUBSET S)
<1> DEFINE D(n) == {s \in SUBSET S : Within(s, n)}
           Q == {n \in Nat : \E g : Summed(f, g, D(n))}
<1>1. 0 \in Q
  <2> DEFINE g == [s \in D(0) |-> 0]
  <2>1. \A s \in D(0) : s = {}  BY EmptyWithin
  <2>2. Summed(f, g, D(0))  BY <2>1 DEF Summed
  <2> QED  BY <2>2
<1>2. ASSUME NEW n \in Q PROVE n + 1 \in Q
  <2>1. PICK g : Summed(f, g, D(n))
    OBVIOUS
  <2> DEFINE h == [s \in D(n + 1) |-> IF s = {} THEN 0 ELSE f[Pick(s)] + g[s \ {Pick(s)}]]
  <2>2. ASSUME NEW s \in D(n + 1), s # {}
        PROVE  s \ {Pick(s)} \in D(n) /\ s \ {Pick(s)} \in D(n + 1)
    BY <2>2, PickSmaller, WithinSubset
  <2>3. \A s \in D(n) : g[s] = IF s = {} THEN 0 ELSE f[Pick(s)] + g[s \ {Pick(s)}]
    BY <2>1 DEF Summed
  <2>4. \A s \in D(n) : s \in D(n + 1) => h[s] = g[s]
    BY <2>3
  <2>5. \A s \in D(n + 1) : s # {} => h[s \ {Pick(s)}] = g[s \ {Pick(s)}]
    BY <2>2, <2>4
  <2>6. h = [s \in D(n + 1) |-> IF s = {} THEN 0 ELSE f[Pick(s)] + h[s \ {Pick(s)}]]
    <3> DEFINE k == [s \in D(n + 1) |-> IF s = {} THEN 0 ELSE f[Pick(s)] + h[s \ {Pick(s)}]]
    <3>1. \A s \in D(n + 1) : h[s] = k[s]  BY <2>5
    <3> QED  BY <3>1
  <2>7. Summed(f, h, D(n + 1))  BY <2>6 DEF Summed
  <2> HIDE DEF h, D
  <2> QED  BY <2>7
<1> HIDE DEF Q
<1>3. Q = Nat  BY <1>1, <1>2, SetInduction DEF Q
<1>4. PICK n \in Nat : Within(S, n)  BY FiniteWithin
<1>5. D(n) = SUBSET S  BY <1>4, WithinSubset
<1> QED  BY <1>3, <1>5 DEF Q

\* Two such functions agree where both are defined.
LEMMA SumUnique ==
  ASSUME NEW f, NEW S, IsFiniteSet(S), NEW T \in SUBSET S
  PROVE  \A g, h : Summed(f, g, SUBSET S) /\ Summed(f, h, SUBSET T) => g[T] = h[T]
<1> SUFFICES ASSUME NEW g, Summed(f, g, SUBSET S), NEW h, Summed(f, h, SUBSET T)
             PROVE  g[T] = h[T]
  OBVIOUS
<1> DEFINE Q == {n \in Nat : \A U \in SUBSET T : Within(U, n) => g[U] = h[U]}
<1>0. ASSUME NEW U \in SUBSET T
      PROVE  /\ g[U] = IF U = {} THEN 0 ELSE f[Pick(U)] + g[U \ {Pick(U)}]
             /\ h[U] = IF U = {} THEN 0 ELSE f[Pick(U)] + h[U \ {Pick(U)}]
  BY DEF Summed
<1>1. 0 \in Q
  <2> SUFFICES ASSUME NEW U \in SUBSET T, Within(U, 0) PROVE g[U] = h[U]
    OBVIOUS
  <2>1. U = {}  BY EmptyWithin
  <2> QED  BY <1>0, <2>1
<1>2. ASSUME NEW n \in Q PROVE n + 1 \in Q
  <2> SUFFICES ASSUME NEW U \in SUBSET T, Within(U, n + 1) PROVE g[U] = h[U]
    OBVIOUS
  <2>0. n \in Nat /\ \A V \in SUBSET T : Within(V, n) => g[V] = h[V]
    OBVIOUS
  <2> HIDE DEF Q
  <2> DEFINE V == U \ {Pick(U)}
  <2>1. CASE U # {}
    <3>1. V \in SUBSET T /\ Within(V, n)  BY <2>0, <2>1, PickSmaller
    <3>2. g[V] = h[V]  BY <2>0, <3>1
    <3> QED  BY <1>0, <2>1, <3>2
  <2>2. CASE U = {}  BY <1>0, <2>2
  <2> QED  BY <2>1, <2>2
<1> HIDE DEF Q
<1>3. Q = Nat  BY <1>1, <1>2, SetInduction DEF Q
<1>4. PICK n \in Nat : Within(T, n)  BY FiniteWithin, WithinSubset
<1> QED  BY <1>3, <1>4 DEF Q

-----------------------------------------------------------------------------
\* The empty sum.
LEMMA SumEmpty ==
  ASSUME NEW f
  PROVE  SumFunctionOnSet(f, {}) = 0
<1> DEFINE g == CHOOSE g : Summed(f, g, SUBSET {})
<1>1. Summed(f, g, SUBSET {})  BY SumExists, EmptyFinite
<1> HIDE DEF g
<1>2. g[{}] = 0  BY <1>1 DEF Summed
<1> QED  BY <1>2, Unfold DEF g

LEMMA SumPick ==
  ASSUME NEW f, NEW S, IsFiniteSet(S), S # {}
  PROVE  SumFunctionOnSet(f, S) = f[Pick(S)] + SumFunctionOnSet(f, S \ {Pick(S)})
<1> DEFINE T == S \ {Pick(S)}
           g == CHOOSE g : Summed(f, g, SUBSET S)
           h == CHOOSE h : Summed(f, h, SUBSET T)
<1>1. IsFiniteSet(T) /\ T \in SUBSET S  BY SubsetFinite
<1>2. Summed(f, g, SUBSET S) /\ Summed(f, h, SUBSET T)  BY <1>1, SumExists
<1>3. SumFunctionOnSet(f, S) = g[S] /\ SumFunctionOnSet(f, T) = h[T]  BY Unfold
<1> HIDE DEF g, h, T
<1>4. g[T] = h[T]
  <2>1. T \in SUBSET S  BY <1>1
  <2>2. \A k, l : Summed(f, k, SUBSET S) /\ Summed(f, l, SUBSET T) => k[T] = l[T]
    BY <2>1, SumUnique
  <2> QED  BY <2>2, <1>2
<1>5. g[S] = f[Pick(S)] + g[T]  BY <1>2 DEF Summed, T
<1> QED  BY <1>3, <1>4, <1>5 DEF T

-----------------------------------------------------------------------------
\* A sum of naturals is a natural.
LEMMA SumNat ==
  ASSUME NEW S, IsFiniteSet(S), NEW f, \A x \in S : f[x] \in Nat
  PROVE  SumFunctionOnSet(f, S) \in Nat
<1> DEFINE Q == {n \in Nat : \A U \in SUBSET S : Within(U, n) => SumFunctionOnSet(f, U) \in Nat}
<1>1. 0 \in Q
  <2> SUFFICES ASSUME NEW U \in SUBSET S, Within(U, 0)
               PROVE  SumFunctionOnSet(f, U) \in Nat
    OBVIOUS
  <2>1. U = {}  BY EmptyWithin
  <2> QED  BY <2>1, SumEmpty
<1>2. ASSUME NEW n \in Q PROVE n + 1 \in Q
  <2> SUFFICES ASSUME NEW U \in SUBSET S, Within(U, n + 1)
               PROVE  SumFunctionOnSet(f, U) \in Nat
    OBVIOUS
  <2>0. n \in Nat /\ \A V \in SUBSET S : Within(V, n) => SumFunctionOnSet(f, V) \in Nat
    OBVIOUS
  <2> HIDE DEF Q
  <2> DEFINE V == U \ {Pick(U)}
  <2>1. CASE U # {}
    <3>1. V \in SUBSET S /\ Within(V, n) /\ Pick(U) \in U  BY <2>0, <2>1, PickSmaller
    <3>2. SumFunctionOnSet(f, V) \in Nat /\ f[Pick(U)] \in Nat  BY <2>0, <3>1
    <3>3. SumFunctionOnSet(f, U) = f[Pick(U)] + SumFunctionOnSet(f, V)  BY <2>1, SubsetFinite, SumPick
    <3> QED  BY <3>2, <3>3
  <2>2. CASE U = {}  BY <2>2, SumEmpty
  <2> QED  BY <2>1, <2>2
<1> HIDE DEF Q
<1>3. Q = Nat  BY <1>1, <1>2, SetInduction DEF Q
<1>4. S \in SUBSET S /\ \E n \in Nat : Within(S, n)  BY FiniteWithin
<1> QED  BY <1>3, <1>4 DEF Q

\* A sum does not depend on the order: any element can be taken out first.
LEMMA SumRemove ==
  ASSUME NEW S, IsFiniteSet(S), NEW f, \A x \in S : f[x] \in Nat, NEW x \in S
  PROVE  SumFunctionOnSet(f, S) = f[x] + SumFunctionOnSet(f, S \ {x})
<1> DEFINE Sum(T) == SumFunctionOnSet(f, T)
           Q == {n \in Nat : \A U \in SUBSET S : Within(U, n) => \A u \in U : Sum(U) = f[u] + Sum(U \ {u})}
<1>0. \A U \in SUBSET S : Sum(U) \in Nat
  <2> SUFFICES ASSUME NEW U \in SUBSET S PROVE Sum(U) \in Nat
    OBVIOUS
  <2>1. IsFiniteSet(U) /\ \A u \in U : f[u] \in Nat  BY SubsetFinite
  <2> QED  BY <2>1, SumNat
<1>1. 0 \in Q
  <2> SUFFICES ASSUME NEW U \in SUBSET S, Within(U, 0), NEW u \in U PROVE FALSE
    OBVIOUS
  <2> QED  BY EmptyWithin
<1> HIDE DEF Sum
<1>2. ASSUME NEW n \in Q PROVE n + 1 \in Q
  <2> SUFFICES ASSUME NEW U \in SUBSET S, Within(U, n + 1), NEW u \in U
               PROVE  Sum(U) = f[u] + Sum(U \ {u})
    OBVIOUS
  <2>0. n \in Nat /\ \A V \in SUBSET S : Within(V, n)
                          => \A v \in V : Sum(V) = f[v] + Sum(V \ {v})
    OBVIOUS
  <2> HIDE DEF Q
  <2> DEFINE p == Pick(U)
  <2>1. U # {} /\ IsFiniteSet(U)  BY SubsetFinite
  <2>2. p \in U  BY <2>1, PickSmaller
  <2>3. Sum(U) = f[p] + Sum(U \ {p})  BY <2>1, SumPick DEF Sum
  <2> HIDE DEF p
  <2>4. CASE u = p
    BY <2>3, <2>4
  <2>5. CASE u # p
    <3>1. /\ U \ {u} \in SUBSET S /\ p \in U \ {u}
          /\ U \ {p} \in SUBSET S /\ u \in U \ {p}
          /\ (U \ {u}) \ {p} = (U \ {p}) \ {u} /\ (U \ {p}) \ {u} \in SUBSET S
      BY <2>2, <2>5
    <3>2. Within(U \ {u}, n) /\ Within(U \ {p}, n)  BY <2>0, <2>2, WithinRemove
    <3>3. Sum(U \ {u}) = f[p] + Sum((U \ {u}) \ {p})  BY <3>1, <3>2, <2>0
    <3>4. Sum(U \ {p}) = f[u] + Sum((U \ {p}) \ {u})  BY <3>1, <3>2, <2>0
    <3>5. f[p] \in Nat /\ f[u] \in Nat /\ Sum((U \ {p}) \ {u}) \in Nat  BY <3>1, <2>2, <1>0
    <3> QED  BY <3>1, <3>3, <3>4, <3>5, <2>3
  <2> QED  BY <2>4, <2>5
<1> HIDE DEF Q
<1>3. Q = Nat  BY <1>1, <1>2, SetInduction DEF Q
<1>4. S \in SUBSET S /\ \E n \in Nat : Within(S, n)  BY FiniteWithin
<1> QED  BY <1>3, <1>4 DEF Q, Sum

\* A sum depends on the values at the elements of the set only.
LEMMA SumSame ==
  ASSUME NEW S, IsFiniteSet(S), NEW f, NEW g, \A x \in S : f[x] = g[x]
  PROVE  SumFunctionOnSet(f, S) = SumFunctionOnSet(g, S)
<1> DEFINE F(T) == SumFunctionOnSet(f, T)
           G(T) == SumFunctionOnSet(g, T)
           Q == {n \in Nat : \A U \in SUBSET S : Within(U, n) => F(U) = G(U)}
<1>1. 0 \in Q
  <2> SUFFICES ASSUME NEW U \in SUBSET S, Within(U, 0) PROVE F(U) = G(U)
    OBVIOUS
  <2>1. U = {}  BY EmptyWithin
  <2> QED  BY <2>1, SumEmpty
<1>2. ASSUME NEW n \in Q PROVE n + 1 \in Q
  <2> SUFFICES ASSUME NEW U \in SUBSET S, Within(U, n + 1) PROVE F(U) = G(U)
    OBVIOUS
  <2>0. n \in Nat /\ \A V \in SUBSET S : Within(V, n) => F(V) = G(V)
    OBVIOUS
  <2> HIDE DEF Q
  <2> DEFINE V == U \ {Pick(U)}
  <2>1. CASE U # {}
    <3>1. V \in SUBSET S /\ Within(V, n) /\ Pick(U) \in U  BY <2>0, <2>1, PickSmaller
    <3>2. F(U) = f[Pick(U)] + F(V) /\ G(U) = g[Pick(U)] + G(V)  BY <2>1, SubsetFinite, SumPick
    <3> HIDE DEF F, G
    <3>3. F(V) = G(V) /\ f[Pick(U)] = g[Pick(U)]  BY <2>0, <3>1
    <3> QED  BY <3>2, <3>3
  <2>2. CASE U = {}  BY <2>2, SumEmpty
  <2> QED  BY <2>1, <2>2
<1> HIDE DEF Q, F, G
<1>3. Q = Nat  BY <1>1, <1>2, SetInduction DEF Q
<1>4. S \in SUBSET S /\ \E n \in Nat : Within(S, n)  BY FiniteWithin
<1> QED  BY <1>3, <1>4 DEF Q, F, G

\* When one value changes, the sum changes by as much.
LEMMA SumChange ==
  ASSUME NEW S, IsFiniteSet(S), NEW x \in S,
         NEW f, \A y \in S : f[y] \in Nat,
         NEW g, \A y \in S : g[y] \in Nat,
         \A y \in S \ {x} : f[y] = g[y]
  PROVE  /\ SumFunctionOnSet(g, S) + f[x] = SumFunctionOnSet(f, S) + g[x]
         /\ SumFunctionOnSet(f, S) \in Nat /\ SumFunctionOnSet(g, S) \in Nat
<1> DEFINE T == S \ {x}
<1>1. IsFiniteSet(T)  BY SubsetFinite
<1>2. SumFunctionOnSet(f, T) = SumFunctionOnSet(g, T)  BY <1>1, SumSame
<1>3. SumFunctionOnSet(f, T) \in Nat  BY <1>1, SumNat
<1>4. SumFunctionOnSet(f, S) = f[x] + SumFunctionOnSet(f, T)  BY SumRemove
<1>5. SumFunctionOnSet(g, S) = g[x] + SumFunctionOnSet(g, T)  BY SumRemove
<1> HIDE DEF T
<1> QED  BY <1>2, <1>3, <1>4, <1>5

\* A sum of zeros.
LEMMA SumZero ==
  ASSUME NEW S, IsFiniteSet(S), NEW f, \A x \in S : f[x] = 0
  PROVE  SumFunctionOnSet(f, S) = 0
<1> DEFINE Q == {n \in Nat : \A U \in SUBSET S : Within(U, n) => SumFunctionOnSet(f, U) = 0}
<1>1. 0 \in Q
  <2> SUFFICES ASSUME NEW U \in SUBSET S, Within(U, 0)
               PROVE  SumFunctionOnSet(f, U) = 0
    OBVIOUS
  <2>1. U = {}  BY EmptyWithin
  <2> QED  BY <2>1, SumEmpty
<1>2. ASSUME NEW n \in Q PROVE n + 1 \in Q
  <2> SUFFICES ASSUME NEW U \in SUBSET S, Within(U, n + 1)
               PROVE  SumFunctionOnSet(f, U) = 0
    OBVIOUS
  <2>0. n \in Nat /\ \A V \in SUBSET S : Within(V, n) => SumFunctionOnSet(f, V) = 0
    OBVIOUS
  <2> HIDE DEF Q
  <2> DEFINE V == U \ {Pick(U)}
  <2>1. CASE U # {}
    <3>1. V \in SUBSET S /\ Within(V, n) /\ Pick(U) \in U  BY <2>0, <2>1, PickSmaller
    <3>2. SumFunctionOnSet(f, V) = 0 /\ f[Pick(U)] = 0  BY <2>0, <3>1
    <3>3. SumFunctionOnSet(f, U) = f[Pick(U)] + SumFunctionOnSet(f, V)  BY <2>1, SubsetFinite, SumPick
    <3> QED  BY <3>2, <3>3
  <2>2. CASE U = {}  BY <2>2, SumEmpty
  <2> QED  BY <2>1, <2>2
<1> HIDE DEF Q
<1>3. Q = Nat  BY <1>1, <1>2, SetInduction DEF Q
<1>4. S \in SUBSET S /\ \E n \in Nat : Within(S, n)  BY FiniteWithin
<1> QED  BY <1>3, <1>4 DEF Q

\* The sum over the positions of a sequence is the sum over the first k and
\* the sum over the rest, which g numbers from 1.
LEMMA SumSplit ==
  ASSUME NEW k \in Nat, NEW n \in Nat,
         NEW f, \A i \in 1 .. k + n : f[i] \in Nat,
         NEW g, \A i \in 1 .. n : g[i] = f[k + i]
  PROVE  SumFunctionOnSet(f, 1 .. k + n)
           = SumFunctionOnSet(f, 1 .. k) + SumFunctionOnSet(g, 1 .. n)
<1> DEFINE F(m) == SumFunctionOnSet(f, 1 .. m)
           G(m) == SumFunctionOnSet(g, 1 .. m)
           Q == {m \in Nat : m <= n => F(k + m) = F(k) + G(m)}
<1>0. \A m \in Nat : m <= n => F(k + m) \in Nat /\ F(k) \in Nat /\ G(m) \in Nat
  <2> SUFFICES ASSUME NEW m \in Nat, m <= n
               PROVE  F(k + m) \in Nat /\ F(k) \in Nat /\ G(m) \in Nat
    OBVIOUS
  <2>1. IsFiniteSet(1 .. k + m) /\ IsFiniteSet(1 .. k) /\ IsFiniteSet(1 .. m)
    <3>1. k + m \in Nat  OBVIOUS
    <3> QED  BY <3>1, IntervalFinite
  <2>2. /\ \A i \in 1 .. k + m : f[i] \in Nat
        /\ \A i \in 1 .. k : f[i] \in Nat
        /\ \A i \in 1 .. m : g[i] \in Nat
    OBVIOUS
  <2> QED  BY <2>1, <2>2, SumNat
<1>1. 0 \in Q
  <2>1. 1 .. 0 = {} /\ k + 0 = k  OBVIOUS
  <2>2. G(0) = 0  BY <2>1, SumEmpty
  <2>3. F(k) \in Nat  BY <1>0
  <2> HIDE DEF F, G
  <2> QED  BY <2>1, <2>2, <2>3
<1>2. ASSUME NEW m \in Q PROVE m + 1 \in Q
  <2> SUFFICES ASSUME m + 1 <= n PROVE F(k + (m + 1)) = F(k) + G(m + 1)
    OBVIOUS
  <2>0. m \in Nat /\ m <= n /\ F(k + m) = F(k) + G(m)
    OBVIOUS
  <2> HIDE DEF Q
  <2> DEFINE a == k + (m + 1)
             b == m + 1
  <2>a. a \in Nat \ {0} /\ b \in Nat \ {0} /\ a - 1 = k + m /\ b - 1 = m  BY <2>0
  <2>b. ASSUME NEW j \in Nat \ {0}
        PROVE  (1 .. j) \ {j} = 1 .. j - 1 /\ j \in 1 .. j
    OBVIOUS
  <2>1. /\ (1 .. a) \ {a} = 1 .. k + m /\ a \in 1 .. a
        /\ (1 .. b) \ {b} = 1 .. m /\ b \in 1 .. b
    <3> HIDE DEF a, b
    <3> QED  BY <2>a, <2>b
  <2>2. IsFiniteSet(1 .. k + (m + 1)) /\ IsFiniteSet(1 .. m + 1)
    <3>1. k + (m + 1) \in Nat /\ m + 1 \in Nat  BY <2>0
    <3> QED  BY <3>1, IntervalFinite
  <2>3. /\ \A i \in 1 .. k + (m + 1) : f[i] \in Nat
        /\ \A i \in 1 .. m + 1 : g[i] \in Nat
    BY <2>0
  <2>4. F(a) = f[a] + F(k + m)
    <3> HIDE DEF a
    <3>0. IsFiniteSet(1 .. a) /\ a \in 1 .. a /\ \A x \in 1 .. a : f[x] \in Nat
      BY <2>1, <2>2, <2>3 DEF a
    <3>1. SumFunctionOnSet(f, 1 .. a) = f[a] + SumFunctionOnSet(f, (1 .. a) \ {a})
      BY <3>0, SumRemove, Zenon
    <3> QED  BY <3>1, <2>1
  <2>5. G(b) = g[b] + G(m)
    <3> HIDE DEF b
    <3>0. IsFiniteSet(1 .. b) /\ b \in 1 .. b /\ \A x \in 1 .. b : g[x] \in Nat
      BY <2>1, <2>2, <2>3 DEF b
    <3>1. SumFunctionOnSet(g, 1 .. b) = g[b] + SumFunctionOnSet(g, (1 .. b) \ {b})
      BY <3>0, SumRemove, Zenon
    <3> QED  BY <3>1, <2>1
  <2>6. f[k + (m + 1)] = g[m + 1] /\ g[m + 1] \in Nat  BY <2>0
  <2>7. F(k) \in Nat /\ G(m) \in Nat  BY <2>0, <1>0
  <2> HIDE DEF F, G
  <2> QED  BY <2>0, <2>4, <2>5, <2>6, <2>7
<1> HIDE DEF Q
<1>3. Q = Nat  BY <1>1, <1>2, SetInduction DEF Q
<1>4. n \in Q  BY <1>3
<1> QED  BY <1>4 DEF Q

-----------------------------------------------------------------------------
\* What is folded, in the order of the sequence: FoldLeft with its definition
\* expanded, so that an instance of this module does not bring SequencesExt along.
Max(s) == CHOOSE x \in s : \A y \in s : x >= y

Fold(p, q, r, base, seq) ==
  MapThenFoldSet(LAMBDA x, acc : FoldStep(p, q, r, acc, x), base,
                 LAMBDA i : seq[i], LAMBDA s : Max(s), DOMAIN seq)

Folds(p, q, r, base, seq, g, n) ==
  g = [s \in SUBSET (1..n) |-> IF s = {} THEN base ELSE FoldStep(p, q, r, g[s \ {Max(s)}], seq[Max(s)])]

LEMMA UnfoldFold ==
  ASSUME NEW p, NEW q, NEW r, NEW base, NEW seq, NEW n, DOMAIN seq = 1..n
  PROVE  Fold(p, q, r, base, seq) = (CHOOSE g : Folds(p, q, r, base, seq, g, n))[1..n]
BY DEF Fold, MapThenFoldSet, Folds

LEMMA MaxOf ==
  ASSUME NEW n \in Nat, NEW s \in SUBSET (1..n), s # {}
  PROVE  /\ Max(s) \in s
         /\ \A x \in s : x <= Max(s)
<1> DEFINE Q == {m \in Nat : \A u \in SUBSET (1..m) : u # {} => \E x \in u : \A y \in u : x >= y}
<1>1. 0 \in Q
  <2>1. \A u \in SUBSET (1..0) : u = {}  OBVIOUS
  <2> QED  BY <2>1
<1>2. ASSUME NEW m \in Q PROVE m + 1 \in Q
  <2>0. m \in Nat /\ \A u \in SUBSET (1..m) : u # {} => \E x \in u : \A y \in u : x >= y
    OBVIOUS
  <2> SUFFICES ASSUME NEW u \in SUBSET (1..(m + 1)), u # {} PROVE \E x \in u : \A y \in u : x >= y
    OBVIOUS
  <2> HIDE DEF Q
  <2>1. CASE m + 1 \in u
    <3>1. \A y \in u : m + 1 >= y  BY <2>0
    <3> QED  BY <2>1, <3>1
  <2>2. CASE m + 1 \notin u
    <3>1. u \in SUBSET (1..m)  BY <2>0, <2>2
    <3> QED  BY <2>0, <3>1
  <2> QED  BY <2>1, <2>2
<1> HIDE DEF Q
<1>3. Q = Nat  BY <1>1, <1>2, SetInduction DEF Q
<1>4. \E x \in s : \A y \in s : x >= y  BY <1>3 DEF Q
<1>5. Max(s) \in s /\ \A y \in s : Max(s) >= y  BY <1>4 DEF Max
<1>6. PICK k : k = Max(s)  OBVIOUS
<1>7. k \in s /\ \A y \in s : k >= y  BY <1>5, <1>6
<1>8. \A y \in s : y <= k
  <2> SUFFICES ASSUME NEW y \in s PROVE y <= k
    OBVIOUS
  <2>1. k \in Int /\ y \in Int /\ k >= y  BY <1>7
  <2> QED  BY <2>1
<1> QED  BY <1>6, <1>7, <1>8

LEMMA MaxTop ==
  ASSUME NEW n \in Nat, NEW s \in SUBSET (1..(n + 1))
  PROVE  /\ n + 1 \in s => Max(s) = n + 1 /\ s \ {n + 1} \in SUBSET (1..n)
         /\ n + 1 \notin s => s \in SUBSET (1..n)
         /\ s # {} => s \ {Max(s)} \in SUBSET (1..n) /\ Max(s) \in 1..(n + 1)
<1>1. n + 1 \in Nat  OBVIOUS
<1>2. s # {} => Max(s) \in s /\ \A x \in s : x <= Max(s)  BY <1>1, MaxOf
<1>5. n + 1 \notin s => s \in SUBSET (1..n)
  <2> SUFFICES ASSUME n + 1 \notin s, NEW x \in s PROVE x \in 1..n
    OBVIOUS
  <2> QED  OBVIOUS
<1>3. n + 1 \in s => Max(s) = n + 1
  <2> SUFFICES ASSUME n + 1 \in s PROVE Max(s) = n + 1
    OBVIOUS
  <2>1. n + 1 <= Max(s) /\ Max(s) \in 1..(n + 1)  BY <1>2
  <2> QED  BY <2>1
<1>4. s # {} => s \ {Max(s)} \in SUBSET (1..n)
  <2> SUFFICES ASSUME s # {}, NEW x \in s, x # Max(s) PROVE x \in 1..n
    OBVIOUS
  <2>1. x <= Max(s) /\ Max(s) \in 1..(n + 1) /\ x \in 1..(n + 1)  BY <1>2
  <2> QED  BY <2>1
<1>6. n + 1 \in s => s \ {n + 1} \in SUBSET (1..n)
  BY <1>3, <1>4
<1> QED  BY <1>2, <1>3, <1>4, <1>5, <1>6

\* The recursion of a fold defines a function.
LEMMA FoldExists ==
  ASSUME NEW p, NEW q, NEW r, NEW base, NEW seq, NEW n \in Nat
  PROVE  \E g : Folds(p, q, r, base, seq, g, n)
<1> DEFINE Q == {m \in Nat : \E g : Folds(p, q, r, base, seq, g, m)}
<1>1. 0 \in Q
  <2> DEFINE g == [s \in SUBSET (1..0) |-> base]
  <2>1. \A s \in SUBSET (1..0) : s = {}  OBVIOUS
  <2>2. Folds(p, q, r, base, seq, g, 0)  BY <2>1 DEF Folds
  <2> QED  BY <2>2
<1>2. ASSUME NEW m \in Q PROVE m + 1 \in Q
  <2>1. PICK g : Folds(p, q, r, base, seq, g, m)
    OBVIOUS
  <2>0. m \in Nat  OBVIOUS
  <2> DEFINE h == [s \in SUBSET (1..(m + 1)) |->
                     IF s = {} THEN base ELSE FoldStep(p, q, r, g[s \ {Max(s)}], seq[Max(s)])]
             k == [s \in SUBSET (1..(m + 1)) |->
                     IF s = {} THEN base ELSE FoldStep(p, q, r, h[s \ {Max(s)}], seq[Max(s)])]
  <2>2. ASSUME NEW s \in SUBSET (1..(m + 1)), s # {} PROVE s \ {Max(s)} \in SUBSET (1..m)
    BY <2>0, <2>2, MaxTop
  <2>3. \A s \in SUBSET (1..m) : h[s] = g[s]
    <3>1. SUBSET (1..m) \subseteq SUBSET (1..(m + 1))  BY <2>0
    <3> QED  BY <2>1, <3>1 DEF Folds
  <2>4. \A s \in SUBSET (1..(m + 1)) : h[s] = k[s]  BY <2>2, <2>3
  <2>5. h = k  BY <2>4
  <2>6. Folds(p, q, r, base, seq, h, m + 1)  BY <2>5 DEF Folds
  <2> HIDE DEF h
  <2> QED  BY <2>6, <2>0
<1> HIDE DEF Q
<1>3. Q = Nat  BY <1>1, <1>2, SetInduction DEF Q
<1> QED  BY <1>3 DEF Q

\* A sequence with one element more is folded in the same way up to that one.
LEMMA FoldUnique ==
  ASSUME NEW p, NEW q, NEW r, NEW base, NEW seq, NEW two, NEW n \in Nat,
         \A i \in 1..n : seq[i] = two[i],
         NEW g, Folds(p, q, r, base, seq, g, n), NEW h, Folds(p, q, r, base, two, h, n + 1)
  PROVE  g[1..n] = h[1..n]
<1> DEFINE Q == {i \in Nat : i <= n => \A s \in SUBSET (1..i) : g[s] = h[s]}
<1>0. ASSUME NEW s \in SUBSET (1..n)
      PROVE  /\ g[s] = IF s = {} THEN base ELSE FoldStep(p, q, r, g[s \ {Max(s)}], seq[Max(s)])
             /\ h[s] = IF s = {} THEN base ELSE FoldStep(p, q, r, h[s \ {Max(s)}], two[Max(s)])
  <2>1. s \in SUBSET (1..n) /\ s \in SUBSET (1..(n + 1))  OBVIOUS
  <2> QED  BY <2>1 DEF Folds
<1>1. 0 \in Q
  <2>1. \A s \in SUBSET (1..0) : s = {} /\ s \in SUBSET (1..n)  OBVIOUS
  <2>2. \A s \in SUBSET (1..0) : g[s] = h[s]  BY <1>0, <2>1
  <2> QED  BY <2>2
<1>2. ASSUME NEW i \in Q PROVE i + 1 \in Q
  <2> SUFFICES ASSUME i + 1 <= n, NEW s \in SUBSET (1..(i + 1)) PROVE g[s] = h[s]
    OBVIOUS
  <2>0. i \in Nat /\ \A u \in SUBSET (1..i) : g[u] = h[u]  OBVIOUS
  <2> HIDE DEF Q
  <2>1. s \in SUBSET (1..n)  BY <2>0
  <2>2. CASE s = {}  BY <1>0, <2>1, <2>2
  <2>3. CASE s # {}
    <3>1. s \ {Max(s)} \in SUBSET (1..i) /\ Max(s) \in 1..(i + 1)  BY <2>0, <2>3, MaxTop
    <3>2. seq[Max(s)] = two[Max(s)]  BY <3>1, <2>0
    <3>3. g[s \ {Max(s)}] = h[s \ {Max(s)}]  BY <3>1, <2>0
    <3> QED  BY <1>0, <2>1, <2>3, <3>2, <3>3
  <2> QED  BY <2>2, <2>3
<1> HIDE DEF Q
<1>3. Q = Nat  BY <1>1, <1>2, SetInduction DEF Q
<1>4. n \in Q  BY <1>3
<1>5. \A s \in SUBSET (1..n) : g[s] = h[s]  BY <1>4 DEF Q
<1>6. 1..n \in SUBSET (1..n)  OBVIOUS
<1> QED  BY <1>5, <1>6

\* The fold of the empty sequence, and of one element more.
LEMMA FoldEmpty ==
  ASSUME NEW p, NEW q, NEW r, NEW base
  PROVE  Fold(p, q, r, base, <<>>) = base
<1> DEFINE g == CHOOSE g : Folds(p, q, r, base, <<>>, g, 0)
<1>1. Folds(p, q, r, base, <<>>, g, 0)  BY FoldExists
<1> HIDE DEF g
<1>2. g[1..0] = base
  <2>1. 1..0 \in SUBSET (1..0) /\ 1..0 = {}  OBVIOUS
  <2> QED  BY <1>1, <2>1 DEF Folds
<1>3. DOMAIN <<>> = 1..0  OBVIOUS
<1> QED  BY <1>2, <1>3, UnfoldFold DEF g

LEMMA FoldAppend ==
  ASSUME NEW p, NEW q, NEW r, NEW base, NEW S, NEW seq \in Seq(S), NEW x \in S
  PROVE  Fold(p, q, r, base, Append(seq, x)) = FoldStep(p, q, r, Fold(p, q, r, base, seq), x)
<1>1. PICK n \in Nat : DOMAIN seq = 1..n /\ Len(seq) = n  OBVIOUS
<1>2. PICK two : two = Append(seq, x)  OBVIOUS
<1>3. DOMAIN two = 1..(n + 1) /\ two[n + 1] = x /\ \A i \in 1..n : seq[i] = two[i]  BY <1>1, <1>2
<1> DEFINE g == CHOOSE g : Folds(p, q, r, base, seq, g, n)
           h == CHOOSE h : Folds(p, q, r, base, two, h, n + 1)
<1>4. Folds(p, q, r, base, seq, g, n) /\ Folds(p, q, r, base, two, h, n + 1)
  <2>1. n + 1 \in Nat  OBVIOUS
  <2> QED  BY <2>1, FoldExists
<1>5. Fold(p, q, r, base, seq) = g[1..n] /\ Fold(p, q, r, base, two) = h[1..(n + 1)]
  BY <1>1, <1>3, UnfoldFold
<1> HIDE DEF g, h
<1>6. h[1..(n + 1)] = FoldStep(p, q, r, h[1..n], x)
  <2>0. n + 1 \in 1..(n + 1)  OBVIOUS
  <2>1. 1..(n + 1) \in SUBSET (1..(n + 1)) /\ 1..(n + 1) # {} /\ n + 1 \in 1..(n + 1)  BY <2>0
  <2>2. Max(1..(n + 1)) = n + 1  BY <2>1, MaxTop
  <2>3. (1..(n + 1)) \ {n + 1} = 1..n  OBVIOUS
  <2>4. PICK u : u = 1..(n + 1)  OBVIOUS
  <2>5. h[u] = IF u = {} THEN base ELSE FoldStep(p, q, r, h[u \ {Max(u)}], two[Max(u)])
    BY <1>4, <2>1, <2>4 DEF Folds
  <2> QED  BY <1>3, <2>1, <2>2, <2>3, <2>4, <2>5
<1>7. g[1..n] = h[1..n]
  <2>1. \A i \in 1..n : seq[i] = two[i]  BY <1>3
  <2> QED  BY <1>4, <2>1, FoldUnique
<1> QED  BY <1>2, <1>5, <1>6, <1>7

\* The elements of a prefix, and one more.
LEMMA PrefixAppend ==
  ASSUME NEW S, NEW seq \in Seq(S), NEW n \in Nat, n < Len(seq)
  PROVE  /\ SubSeq(seq, 1, n) \in Seq(S) /\ seq[n + 1] \in S
         /\ SubSeq(seq, 1, n + 1) = Append(SubSeq(seq, 1, n), seq[n + 1])
<1>1. n + 1 \in 1..Len(seq)  OBVIOUS
<1> QED  BY <1>1

LEMMA WholePrefix ==
  ASSUME NEW S, NEW seq \in Seq(S)
  PROVE  SubSeq(seq, 1, Len(seq)) = seq /\ SubSeq(seq, 1, 0) = <<>>
OBVIOUS

\* A fold over two sequences, one after the other.
LEMMA FoldConcat ==
  ASSUME NEW p, NEW q, NEW r, NEW base, NEW S, NEW seq \in Seq(S), NEW more \in Seq(S)
  PROVE  Fold(p, q, r, base, seq \o more) = Fold(p, q, r, Fold(p, q, r, base, seq), more)
<1>0. PICK mid : mid = Fold(p, q, r, base, seq)  OBVIOUS
<1> DEFINE Both(n) == Fold(p, q, r, base, seq \o SubSeq(more, 1, n))
           Then(n) == Fold(p, q, r, mid, SubSeq(more, 1, n))
           Q == {n \in Nat : n <= Len(more) => Both(n) = Then(n)}
<1>1. 0 \in Q
  <2>1. SubSeq(more, 1, 0) = <<>>  BY WholePrefix
  <2>2. seq \o <<>> = seq  OBVIOUS
  <2>3. Fold(p, q, r, mid, <<>>) = mid  BY FoldEmpty
  <2> QED  BY <1>0, <2>1, <2>2, <2>3
<1>2. ASSUME NEW n \in Q PROVE n + 1 \in Q
  <2> SUFFICES ASSUME n + 1 <= Len(more) PROVE Both(n + 1) = Then(n + 1)
    OBVIOUS
  <2>0. n \in Nat /\ n < Len(more) /\ Both(n) = Then(n)  OBVIOUS
  <2> HIDE DEF Q
  <2>1. PICK u \in Seq(S) : u = SubSeq(more, 1, n)  BY <2>0, PrefixAppend
  <2>2. PICK x \in S : x = more[n + 1]  BY <2>0, PrefixAppend
  <2>3. SubSeq(more, 1, n + 1) = Append(u, x)  BY <2>0, <2>1, <2>2, PrefixAppend
  <2>a. seq \o u \in Seq(S)  BY <2>1
  <2>4. PICK v \in Seq(S) : v = seq \o u  BY <2>a, Zenon
  <2>5. seq \o Append(u, x) = Append(v, x)  BY <2>4
  <2>6. Fold(p, q, r, base, Append(v, x)) = FoldStep(p, q, r, Fold(p, q, r, base, v), x)  BY FoldAppend
  <2>7. Fold(p, q, r, mid, Append(u, x)) = FoldStep(p, q, r, Fold(p, q, r, mid, u), x)  BY FoldAppend
  <2>8. Fold(p, q, r, base, v) = Fold(p, q, r, mid, u)  BY <2>0, <2>1, <2>4
  <2> QED  BY <2>3, <2>5, <2>6, <2>7, <2>8
<1> HIDE DEF Q
<1>3. Q = Nat  BY <1>1, <1>2, SetInduction DEF Q
<1>4. Len(more) \in Q  BY <1>3
<1>5. Both(Len(more)) = Then(Len(more))
  <2>1. Len(more) <= Len(more)  OBVIOUS
  <2> QED  BY <1>4, <2>1 DEF Q
<1>6. SubSeq(more, 1, Len(more)) = more  BY WholePrefix
<1> QED  BY <1>0, <1>5, <1>6

\* Induction over a sequence: what holds of the empty one and is kept by one more
\* element holds of the whole sequence and of the fold over it.
LEMMA FoldInduction ==
  ASSUME NEW p, NEW q, NEW r, NEW base, NEW S, NEW seq \in Seq(S), FoldKept(p, q, r, <<>>, base),
         \A u \in Seq(S) : \A acc : \A x \in S :
           FoldKept(p, q, r, u, acc) => FoldKept(p, q, r, Append(u, x), FoldStep(p, q, r, acc, x))
  PROVE  FoldKept(p, q, r, seq, Fold(p, q, r, base, seq))
<1> DEFINE Q == {n \in Nat : n <= Len(seq) =>
                   FoldKept(p, q, r, SubSeq(seq, 1, n), Fold(p, q, r, base, SubSeq(seq, 1, n)))}
<1>1. 0 \in Q
  <2>1. SubSeq(seq, 1, 0) = <<>>  BY WholePrefix
  <2>2. Fold(p, q, r, base, <<>>) = base  BY FoldEmpty
  <2> QED  BY <2>1, <2>2
<1>2. ASSUME NEW n \in Q PROVE n + 1 \in Q
  <2> SUFFICES ASSUME n + 1 <= Len(seq)
               PROVE  FoldKept(p, q, r, SubSeq(seq, 1, n + 1), Fold(p, q, r, base, SubSeq(seq, 1, n + 1)))
    OBVIOUS
  <2>0. /\ n \in Nat /\ n < Len(seq)
        /\ FoldKept(p, q, r, SubSeq(seq, 1, n), Fold(p, q, r, base, SubSeq(seq, 1, n)))
    OBVIOUS
  <2> HIDE DEF Q
  <2>1. PICK u \in Seq(S) : u = SubSeq(seq, 1, n)  BY <2>0, PrefixAppend
  <2>2. PICK x \in S : x = seq[n + 1]  BY <2>0, PrefixAppend
  <2>3. SubSeq(seq, 1, n + 1) = Append(u, x)  BY <2>0, <2>1, <2>2, PrefixAppend
  <2>4. PICK acc : acc = Fold(p, q, r, base, u)  OBVIOUS
  <2>5. Fold(p, q, r, base, Append(u, x)) = FoldStep(p, q, r, acc, x)  BY <2>4, FoldAppend
  <2>6. FoldKept(p, q, r, u, acc)  BY <2>0, <2>1, <2>4
  <2>7. FoldKept(p, q, r, Append(u, x), FoldStep(p, q, r, acc, x))  BY <2>6
  <2> QED  BY <2>3, <2>5, <2>7
<1> HIDE DEF Q
<1>3. Q = Nat  BY <1>1, <1>2, SetInduction DEF Q
<1>4. Len(seq) \in Q  BY <1>3
<1>5. FoldKept(p, q, r, SubSeq(seq, 1, Len(seq)), Fold(p, q, r, base, SubSeq(seq, 1, Len(seq))))
  <2>1. Len(seq) <= Len(seq)  OBVIOUS
  <2> QED  BY <1>4, <2>1 DEF Q
<1>6. SubSeq(seq, 1, Len(seq)) = seq  BY WholePrefix
<1> QED  BY <1>5, <1>6
=============================================================================
