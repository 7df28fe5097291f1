------------------------ MODULE ClientReports_proofs ------------------------
EXTENDS ClientReports, Folds_proofs, FiniteSetTheorems

\* Every pair has its own counter: index and iter_reason_categories
\* (inner.rs 70-86) are inverse to each other, whatever the number of
\* categories and reasons.
LEMMA IndexInSlots ==
  ASSUME NEW c \in Category, NEW r \in Reason
  PROVE  Index(c, r) \in Slots
<1>1. c * NR + NR <= NC * NR
  <2>1. (c + 1) * NR <= NC * NR  BY CountsAssumption DEF Category
  <2>2. (c + 1) * NR = c * NR + NR  BY CountsAssumption DEF Category
  <2> QED  BY <2>1, <2>2
<1>2. c * NR \in Nat /\ NC * NR \in Nat  BY CountsAssumption DEF Category
<1> QED  BY <1>1, <1>2, CountsAssumption DEF Index, Slots, Reason

LEMMA PairOfIndex ==
  ASSUME NEW c \in Category, NEW r \in Reason
  PROVE  ReasonCategory(Index(c, r)) = [category |-> c, reason |-> r]
<1>1. (c * NR + r) \div NR = c  BY CountsAssumption DEF Category, Reason
<1>2. (c * NR + r) % NR = r  BY CountsAssumption DEF Category, Reason
<1> QED  BY <1>1, <1>2 DEF ReasonCategory, Index

LEMMA IndexOfPair ==
  ASSUME NEW i \in Slots
  PROVE  /\ ReasonCategory(i) \in Pairs
         /\ Index(ReasonCategory(i).category, ReasonCategory(i).reason) = i
<1>1. i \div NR \in Category  BY CountsAssumption DEF Category, Slots
<1>2. i % NR \in Reason  BY CountsAssumption DEF Reason, Slots
<1>3. (i \div NR) * NR + (i % NR) = i  BY CountsAssumption DEF Slots
<1> QED  BY <1>1, <1>2, <1>3 DEF ReasonCategory, Index, Pairs

-----------------------------------------------------------------------------
LEMMA SlotsNat == /\ NC * NR \in Nat \ {0}
                  /\ Slots \subseteq Nat
                  /\ 0 \in Slots
                  /\ \A i \in Slots : i + 1 \in 0 .. NC * NR
<1>1. NC * NR \in Nat \ {0}  BY CountsAssumption
<1> QED  BY <1>1 DEF Slots

LEMMA TailLeft ==
  ASSUME NEW S, NEW s \in Seq(S), s # <<>>
  PROVE  Head(s) \in S /\ Tail(s) \in Seq(S)
OBVIOUS

LEMMA WithReasonType ==
  ASSUME NEW data \in Envelopes, NEW r \in Reason
  PROVE  WithReason(data, r) \in Seq(Item)
<1> DEFINE Loss == [category : 0 .. NC - 1, quantity : Nat]
<1>1. data \in Seq(Loss)  BY EnvelopesAssumption
<1>2. Len(data) \in Nat /\ data \in [1 .. Len(data) -> Loss]
  <2> HIDE DEF Loss
  <2> QED  BY <1>1
<1>3. WithReason(data, r) \in [1 .. Len(data) -> Item]
  BY <1>2 DEF WithReason, Item, Category
<1> QED  BY <1>2, <1>3

-----------------------------------------------------------------------------
(* What sequences of items add up to.                                      *)

LEMMA ShareNat ==
  ASSUME NEW item \in Item, NEW p
  PROVE  Share(item, p) \in Nat
BY DEF Share, Item

LEMMA QuantitySum ==
  ASSUME NEW items \in Seq(Item), NEW p
  PROVE  LET f == [n \in 1 .. Len(items) |-> Share(items[n], p)] IN
         /\ Len(items) \in Nat /\ IsFiniteSet(1 .. Len(items))
         /\ QuantityOf(items, p) = SumFunctionOnSet(f, 1 .. Len(items))
         /\ \A n \in 1 .. Len(items) : f[n] \in Nat
<1> DEFINE f == [n \in 1 .. Len(items) |-> Share(items[n], p)]
<1>1. Len(items) \in Nat /\ DOMAIN items = 1 .. Len(items)
      /\ \A n \in 1 .. Len(items) : items[n] \in Item
  OBVIOUS
<1>2. IsFiniteSet(1 .. Len(items))
  <2>1. 1 \in Int /\ Len(items) \in Int  BY <1>1
  <2> QED  BY <2>1, FS_Interval
<1>3. \A n \in 1 .. Len(items) : f[n] \in Nat  BY <1>1, ShareNat
<1>4. QuantityOf(items, p) = SumFunctionOnSet(f, 1 .. Len(items))
  BY <1>1 DEF QuantityOf, SumFunction
<1> QED  BY <1>1, <1>2, <1>3, <1>4

LEMMA QuantityNat ==
  ASSUME NEW items \in Seq(Item), NEW p
  PROVE  QuantityOf(items, p) \in Nat
BY QuantitySum, SumNat

LEMMA QuantityEmpty ==
  ASSUME NEW p
  PROVE  QuantityOf(<<>>, p) = 0
<1>1. <<>> \in Seq(Item) /\ 1 .. Len(<<>>) = {}  OBVIOUS
<1> QED  BY <1>1, QuantitySum, SumEmpty

\* A report appended to an envelope's own losses adds to them.
LEMMA QuantityConcat ==
  ASSUME NEW a \in Seq(Item), NEW b \in Seq(Item), NEW p
  PROVE  QuantityOf(a \o b, p) = QuantityOf(a, p) + QuantityOf(b, p)
<1> DEFINE c == a \o b
           F(s) == [n \in 1 .. Len(s) |-> Share(s[n], p)]
<1>1. c \in Seq(Item) /\ Len(c) = Len(a) + Len(b) /\ Len(a) \in Nat /\ Len(b) \in Nat
  OBVIOUS
<1>2. /\ \A n \in 1 .. Len(a) : n \in 1 .. Len(c) /\ c[n] = a[n]
      /\ \A n \in 1 .. Len(b) : Len(a) + n \in 1 .. Len(c) /\ c[Len(a) + n] = b[n]
  OBVIOUS
<1> HIDE DEF c
<1>3. \A n \in 1 .. Len(a) + Len(b) : F(c)[n] \in Nat  BY <1>1, QuantitySum
<1>4. \A n \in 1 .. Len(b) : F(b)[n] = F(c)[Len(a) + n]  BY <1>2
<1>5. \A n \in 1 .. Len(a) : F(c)[n] = F(a)[n]  BY <1>2
<1>6. SumFunctionOnSet(F(c), 1 .. Len(a) + Len(b))
        = SumFunctionOnSet(F(c), 1 .. Len(a)) + SumFunctionOnSet(F(b), 1 .. Len(b))
  <2> DEFINE f == F(c)
             g == F(b)
             k == Len(a)
             m == Len(b)
  <2>1. /\ k \in Nat /\ m \in Nat
        /\ \A n \in 1 .. k + m : f[n] \in Nat
        /\ \A n \in 1 .. m : g[n] = f[k + n]
    BY <1>1, <1>3, <1>4
  <2> HIDE DEF f, g, k, m
  <2>2. SumFunctionOnSet(f, 1 .. k + m) = SumFunctionOnSet(f, 1 .. k) + SumFunctionOnSet(g, 1 .. m)
    BY <2>1, SumSplit
  <2> QED  BY <2>2 DEF f, g, k, m
<1>7. SumFunctionOnSet(F(c), 1 .. Len(a)) = SumFunctionOnSet(F(a), 1 .. Len(a))
  <2>1. IsFiniteSet(1 .. Len(a))  BY QuantitySum
  <2> HIDE DEF F
  <2> QED  BY <2>1, <1>5, SumSame
<1>8. /\ QuantityOf(c, p) = SumFunctionOnSet(F(c), 1 .. Len(a) + Len(b))
      /\ QuantityOf(a, p) = SumFunctionOnSet(F(a), 1 .. Len(a))
      /\ QuantityOf(b, p) = SumFunctionOnSet(F(b), 1 .. Len(b))
  BY <1>1, QuantitySum
<1> HIDE DEF F
<1>9. QuantityOf(c, p) = QuantityOf(a, p) + QuantityOf(b, p)  BY <1>6, <1>7, <1>8
<1> QED  BY <1>9 DEF c

LEMMA QuantityOne ==
  ASSUME NEW item \in Item, NEW p
  PROVE  QuantityOf(<<item>>, p) = Share(item, p)
<1> DEFINE f == [n \in 1 .. 1 |-> Share(<<item>>[n], p)]
<1>1. <<item>> \in Seq(Item) /\ Len(<<item>>) = 1 /\ 1 \in 1 .. 1 /\ (1 .. 1) \ {1} = {}
  OBVIOUS
<1>2. f[1] = Share(item, p)  BY <1>1
<1>3. QuantityOf(<<item>>, p) = SumFunctionOnSet(f, 1 .. 1)
  BY <1>1, QuantitySum
<1>4. IsFiniteSet(1 .. 1) /\ \A n \in 1 .. 1 : f[n] \in Nat  BY <1>1, QuantitySum
<1> HIDE DEF f
<1>5. SumFunctionOnSet(f, 1 .. 1) = f[1] + SumFunctionOnSet(f, (1 .. 1) \ {1})
  BY <1>1, <1>4, SumRemove
<1>6. SumFunctionOnSet(f, (1 .. 1) \ {1}) = 0  BY <1>1, SumEmpty
<1>7. Share(item, p) \in Nat  BY ShareNat
<1> QED  BY <1>2, <1>3, <1>5, <1>6, <1>7

\* The counter that joins a report.
LEMMA QuantityAppend ==
  ASSUME NEW a \in Seq(Item), NEW item \in Item, NEW p
  PROVE  QuantityOf(Append(a, item), p) = QuantityOf(a, p) + Share(item, p)
<1>1. Append(a, item) = a \o <<item>> /\ <<item>> \in Seq(Item)  OBVIOUS
<1>2. QuantityOf(a \o <<item>>, p) = QuantityOf(a, p) + QuantityOf(<<item>>, p)
  BY <1>1, QuantityConcat
<1>3. QuantityOf(<<item>>, p) = Share(item, p)  BY QuantityOne
<1>4. QuantityOf(Append(a, item), p) = QuantityOf(a \o <<item>>, p)  BY <1>1, Zenon
<1> QED  BY <1>2, <1>3, <1>4

\* The loss that leaves a recorder's list.
LEMMA QuantityTail ==
  ASSUME NEW a \in Seq(Item), a # <<>>, NEW p
  PROVE  QuantityOf(a, p) = Share(Head(a), p) + QuantityOf(Tail(a), p)
<1>1. a = <<Head(a)>> \o Tail(a) /\ Head(a) \in Item /\ Tail(a) \in Seq(Item)
      /\ <<Head(a)>> \in Seq(Item)
  OBVIOUS
<1>2. QuantityOf(<<Head(a)>> \o Tail(a), p) = QuantityOf(<<Head(a)>>, p) + QuantityOf(Tail(a), p)
  BY <1>1, QuantityConcat, ZenonT(120)
<1>3. QuantityOf(<<Head(a)>>, p) = Share(Head(a), p)  BY <1>1, QuantityOne
<1>4. QuantityOf(a, p) = QuantityOf(<<Head(a)>> \o Tail(a), p)  BY <1>1, Zenon
<1> QED  BY <1>2, <1>3, <1>4

-----------------------------------------------------------------------------
\* The next-loss step of a recorder keeps the types of its own state.
LEMMA NextLossType ==
  ASSUME TypeOK, NEW t \in Threads, todo[t] # <<>>, NextLoss(t)
  PROVE  /\ todo' \in [Threads -> Seq(Item)]
         /\ pc' \in [Threads -> {"idle", "add", "store", "drain", "send"}]
         /\ \A u \in Threads : /\ pc'[u] \in {"add", "store"} => todo'[u] # <<>>
                               /\ pc'[u] = "drain" => pc[u] = "drain"
<1>1. Tail(todo[t]) \in Seq(Item)  BY TailLeft DEF TypeOK
<1> QED  BY <1>1 DEF TypeOK, NextLoss

LEMMA RecordLostDataType ==
  ASSUME TypeOK, NEW t \in Threads, NEW items \in Seq(Item), RecordLostData(t, items)
  PROVE  /\ todo' \in [Threads -> Seq(Item)]
         /\ pc' \in [Threads -> {"idle", "add", "store", "drain", "send"}]
         /\ \A u \in Threads : /\ pc'[u] \in {"add", "store"} => todo'[u] # <<>>
                               /\ pc'[u] = "drain" => pc[u] = "drain"
BY DEF TypeOK, RecordLostData

LEMMA EmptySeq == ASSUME NEW S PROVE <<>> \in Seq(S)
OBVIOUS

LEMMA TypeInit == Init => TypeOK
<1> SUFFICES ASSUME Init PROVE TypeOK
  OBVIOUS
<1>1. <<>> \in Seq(Item)  BY EmptySeq
<1>2. todo \in [Threads -> Seq(Item)] /\ report \in [Threads -> Seq(Item)]
  BY <1>1 DEF Init
<1>3. /\ inner \in [Slots -> Nat]
      /\ pc \in [Threads -> {"idle", "add", "store", "drain", "send"}]
      /\ cursor \in [Threads -> 0 .. NC * NR]
  BY SlotsNat DEF Init
<1> QED  BY <1>2, <1>3 DEF Init, TypeOK

LEMMA TypeStep == TypeOK /\ [Next]_vars => TypeOK'
<1> SUFFICES ASSUME TypeOK, [Next]_vars PROVE TypeOK'
  OBVIOUS
<1>1. ASSUME NEW t \in Threads, NEW data \in Envelopes, NEW r \in Reason,
             ItemLost(t, data, r)
      PROVE  TypeOK'
  <2>1. WithReason(data, r) \in Seq(Item)  BY WithReasonType
  <2>2. lost' \in [Pairs -> Nat]  BY <1>1, <2>1, QuantityNat DEF ItemLost, TypeOK
  <2> QED  BY <1>1, <2>1, <2>2, RecordLostDataType, SMTT(90) DEF ItemLost, TypeOK, shared
<1>2. ASSUME NEW t \in Threads, NEW data \in Envelopes, NEW r \in Reason,
             EnvelopeLost(t, data, r)
      PROVE  TypeOK'
  <2>1. EnvelopeLosses(data, r, report[t]) \in Seq(Item)
    BY WithReasonType DEF EnvelopeLosses, TypeOK
  <2>2. lost' \in [Pairs -> Nat]
    BY <1>2, WithReasonType, QuantityNat DEF EnvelopeLost, TypeOK
  <2> QED  BY <1>2, <2>1, <2>2, RecordLostDataType, SMTT(90) DEF EnvelopeLost, TypeOK, shared
<1>3. ASSUME NEW t \in Threads, RecordNothing(t)  PROVE TypeOK'
  <2>1. todo[t] # <<>>  BY <1>3 DEF RecordNothing, TypeOK
  <2> QED  BY <1>3, <2>1, NextLossType DEF RecordNothing, TypeOK, shared, history
<1>4. ASSUME NEW t \in Threads, FetchAdd(t)  PROVE TypeOK'
  <2>1. todo[t] # <<>> /\ todo[t] \in Seq(Item)  BY <1>4 DEF FetchAdd, TypeOK
  <2>2. Head(todo[t]) \in Item  BY <2>1, TailLeft
  <2>3. Index(Head(todo[t]).category, Head(todo[t]).reason) \in Slots
    BY <2>2, IndexInSlots DEF Item
  <2>4. inner' \in [Slots -> Nat]
    BY <1>4, <2>2, <2>3 DEF FetchAdd, TypeOK, Item
  <2> QED  BY <1>4, <2>1, <2>4 DEF FetchAdd, TypeOK, history
<1>5. ASSUME NEW t \in Threads, StoreFlag(t)  PROVE TypeOK'
  <2>1. todo[t] # <<>>  BY <1>5 DEF StoreFlag, TypeOK
  <2> QED  BY <1>5, <2>1, NextLossType DEF StoreFlag, TypeOK, history
<1>6. ASSUME NEW t \in Threads, SwapFlag(t)  PROVE TypeOK'
  <2>1. report' \in [Threads -> Seq(Item)]  BY <1>6, EmptySeq DEF SwapFlag, TypeOK
  <2>2. /\ cursor' \in [Threads -> 0 .. NC * NR]
        /\ \A u \in Threads : cursor'[u] = cursor[u] \/ cursor'[u] = 0
    BY <1>6, SlotsNat DEF SwapFlag, TypeOK
  <2>3. pc' \in [Threads -> {"idle", "add", "store", "drain", "send"}]
    BY <1>6 DEF SwapFlag, TypeOK
  <2>4. \A u \in Threads : /\ pc'[u] \in {"add", "store"} => todo'[u] # <<>>
                           /\ pc'[u] = "drain" => cursor'[u] \in Slots
    BY <1>6, SlotsNat DEF SwapFlag, TypeOK
  <2> QED  BY <1>6, <2>1, <2>2, <2>3, <2>4 DEF SwapFlag, TypeOK, history
<1>7. ASSUME NEW t \in Threads, SwapCounter(t)  PROVE TypeOK'
  <2> DEFINE i == cursor[t]
             new == [category |-> ReasonCategory(i).category,
                     reason |-> ReasonCategory(i).reason, quantity |-> inner[i]]
  <2>1. i \in Slots /\ i + 1 \in 0 .. NC * NR
    BY <1>7, SlotsNat DEF SwapCounter, TypeOK
  <2>2. new \in Item
    <3>1. ReasonCategory(i) \in Pairs /\ inner[i] \in Nat
      BY <2>1, IndexOfPair DEF TypeOK
    <3> QED  BY <3>1 DEF Pairs, Item
  <2>3. Append(report[t], new) \in Seq(Item)  BY <2>2 DEF TypeOK
  <2>4. report' \in [Threads -> Seq(Item)]
    <3>1. report' = [report EXCEPT ![t] = IF inner[i] > 0 THEN Append(@, new) ELSE @]
      BY <1>7 DEF SwapCounter
    <3> HIDE DEF new
    <3> QED  BY <3>1, <2>3 DEF TypeOK
  <2>5. /\ inner' \in [Slots -> Nat]
        /\ cursor' \in [Threads -> 0 .. NC * NR]
        /\ pc' \in [Threads -> {"idle", "add", "store", "drain", "send"}]
    BY <1>7, <2>1 DEF SwapCounter, TypeOK
  <2>6. \A u \in Threads : /\ pc'[u] \in {"add", "store"} => todo'[u] # <<>>
                           /\ pc'[u] = "drain" => cursor'[u] \in Slots
    BY <1>7, <2>1 DEF SwapCounter, TypeOK
  <2> QED  BY <1>7, <2>4, <2>5, <2>6 DEF SwapCounter, TypeOK, history
<1>8. ASSUME NEW t \in Threads, EnvelopeSent(t)  PROVE TypeOK'
  <2>1. delivered' \in [Pairs -> Nat]  BY <1>8, QuantityNat DEF EnvelopeSent, TypeOK
  <2> QED  BY <1>8, <2>1 DEF EnvelopeSent, TypeOK, shared
<1>9. CASE UNCHANGED vars
  BY <1>9 DEF vars, TypeOK
<1> QED
  BY <1>1, <1>2, <1>3, <1>4, <1>5, <1>6, <1>7, <1>8, <1>9 DEF Next, Step

\* The state keeps its types for any number of threads, categories, reasons
\* and losses; in particular no recorder or drain leaves the counter array.
THEOREM TypeCorrect == Spec => []TypeOK
BY TypeInit, TypeStep, PTL DEF Spec

-----------------------------------------------------------------------------
LEMMA NoStrandedStep == TypeOK /\ NoStrandedLoss /\ [Next]_vars => NoStrandedLoss'
<1> SUFFICES ASSUME TypeOK, NoStrandedLoss, [Next]_vars,
                    NEW i \in Slots, inner'[i] > 0
             PROVE  \/ has_reports'
                    \/ \E t \in Threads : pc'[t] = "store"
                    \/ \E t \in Threads : pc'[t] = "drain" /\ cursor'[t] <= i
  BY DEF NoStrandedLoss
<1> DEFINE Covered == \/ has_reports
                      \/ \E t \in Threads : pc[t] = "store"
                      \/ \E t \in Threads : pc[t] = "drain" /\ cursor[t] <= i
\* Steps that leave the counters alone start from a covered counter.
<1>0. inner' = inner => Covered
  BY DEF NoStrandedLoss
\* Steps that end no recorder's and no drain's claim on the counter keep it.
<1>a. ASSUME Covered, has_reports' = has_reports,
             \A t \in Threads : /\ pc[t] = "store" => pc'[t] = "store"
                                /\ pc[t] = "drain" => pc'[t] = "drain" /\ cursor'[t] = cursor[t]
      PROVE  Covered'
  BY <1>a
<1>1. ASSUME NEW t \in Threads, NEW data \in Envelopes, NEW r \in Reason,
             ItemLost(t, data, r) \/ EnvelopeLost(t, data, r)
      PROVE  Covered'
  BY <1>1, <1>0, <1>a
  DEF ItemLost, EnvelopeLost, RecordLostData, TypeOK, shared
<1>2. ASSUME NEW t \in Threads, RecordNothing(t)  PROVE Covered'
  BY <1>2, <1>0, <1>a DEF RecordNothing, NextLoss, TypeOK, shared
<1>3. ASSUME NEW t \in Threads, FetchAdd(t)  PROVE Covered'
  \* The recorder itself now owes the flag.
  BY <1>3 DEF FetchAdd, TypeOK
<1>4. ASSUME NEW t \in Threads, StoreFlag(t)  PROVE Covered'
  BY <1>4 DEF StoreFlag
<1>5. ASSUME NEW t \in Threads, SwapFlag(t)  PROVE Covered'
  <2>1. CASE has_reports
    \* The drain starts at 0, below every counter.
    BY <1>5, <2>1, SlotsNat DEF SwapFlag, TypeOK
  <2>2. CASE ~has_reports
    BY <1>5, <2>2, <1>0, <1>a DEF SwapFlag, TypeOK
  <2> QED  BY <2>1, <2>2
<1>6. ASSUME NEW t \in Threads, SwapCounter(t)  PROVE Covered'
  <2>1. cursor[t] \in Slots /\ inner' = [inner EXCEPT ![cursor[t]] = 0]
    BY <1>6 DEF SwapCounter, TypeOK
  <2>2. i # cursor[t] /\ inner'[i] = inner[i]
    BY <2>1 DEF TypeOK
  <2>3. Covered
    BY <2>2 DEF NoStrandedLoss
  <2>4. CASE has_reports
    BY <1>6, <2>4 DEF SwapCounter
  <2>5. CASE \E u \in Threads : pc[u] = "store"
    BY <1>6, <2>5 DEF SwapCounter, TypeOK
  <2>6. CASE \E u \in Threads : pc[u] = "drain" /\ cursor[u] <= i
    <3>1. PICK u \in Threads : pc[u] = "drain" /\ cursor[u] <= i
      BY <2>6
    <3>2. CASE u = t
      <4>1. cursor[t] + 1 <= i /\ cursor[t] + 1 \in Slots
        BY <3>1, <3>2, <2>1, <2>2, SlotsNat DEF Slots
      <4>2. pc'[t] = "drain" /\ cursor'[t] = cursor[t] + 1
        BY <1>6, <4>1 DEF SwapCounter, TypeOK
      <4> QED  BY <4>1, <4>2
    <3>3. CASE u # t
      BY <1>6, <3>1, <3>3 DEF SwapCounter, TypeOK
    <3> QED  BY <3>2, <3>3
  <2> QED  BY <2>3, <2>4, <2>5, <2>6
<1>7. ASSUME NEW t \in Threads, EnvelopeSent(t)  PROVE Covered'
  BY <1>7, <1>0, <1>a DEF EnvelopeSent, TypeOK, shared
<1>8. CASE UNCHANGED vars
  BY <1>8, <1>0, <1>a DEF vars
<1> QED
  BY <1>1, <1>2, <1>3, <1>4, <1>5, <1>6, <1>7, <1>8 DEF Next, Step

\* For any number of threads and counters, a loss that was recorded is never
\* left behind where no thread would look for it (inner.rs 21-59).
THEOREM NothingStranded == Spec => []NoStrandedLoss
<1>1. Init => NoStrandedLoss  BY DEF Init, NoStrandedLoss
<1> QED  BY <1>1, TypeCorrect, NoStrandedStep, PTL DEF Spec

-----------------------------------------------------------------------------
(* The books.                                                              *)

LEMMA CleanStep == TypeOK /\ HandsClean /\ [Next]_vars => HandsClean'
<1> SUFFICES ASSUME TypeOK, HandsClean, [Next]_vars PROVE HandsClean'
  OBVIOUS
<1>1. ASSUME NEW t \in Threads, NEW data \in Envelopes, NEW r \in Reason,
             ItemLost(t, data, r) \/ EnvelopeLost(t, data, r)
      PROVE  HandsClean'
  BY <1>1, ZenonT(120) DEF ItemLost, EnvelopeLost, RecordLostData, HandsClean, TypeOK
<1>2. ASSUME NEW t \in Threads, RecordNothing(t) \/ StoreFlag(t)  PROVE HandsClean'
  BY <1>2 DEF RecordNothing, StoreFlag, NextLoss, HandsClean, TypeOK
<1>3. ASSUME NEW t \in Threads, FetchAdd(t)  PROVE HandsClean'
  BY <1>3 DEF FetchAdd, HandsClean, TypeOK
<1>4. ASSUME NEW t \in Threads, SwapFlag(t) \/ EnvelopeSent(t)  PROVE HandsClean'
  BY <1>4 DEF SwapFlag, EnvelopeSent, HandsClean, TypeOK
<1>5. ASSUME NEW t \in Threads, SwapCounter(t)  PROVE HandsClean'
  BY <1>5 DEF SwapCounter, HandsClean, TypeOK
<1>6. CASE UNCHANGED vars
  BY <1>6 DEF vars, HandsClean
<1> QED  BY <1>1, <1>2, <1>3, <1>4, <1>5, <1>6 DEF Next, Step

\* What all threads have in hand for the pair p.
Hands(p) == SumFunction([t \in Threads |-> InHand(t, p)])

LEMMA InHandNat ==
  ASSUME TypeOK, NEW t \in Threads, NEW p
  PROVE  InHand(t, p) \in Nat
<1>1. (IF pc[t] = "store" THEN Tail(todo[t]) ELSE todo[t]) \in Seq(Item)
  BY TailLeft DEF TypeOK
<1>2. report[t] \in Seq(Item)  BY DEF TypeOK
<1>3. /\ QuantityOf(IF pc[t] = "store" THEN Tail(todo[t]) ELSE todo[t], p) \in Nat
      /\ QuantityOf(report[t], p) \in Nat
  BY <1>1, <1>2, QuantityNat, Zenon
<1> QED  BY <1>3 DEF InHand

\* A step of thread t moves only what t has in hand.
LEMMA HandChange ==
  ASSUME TypeOK, TypeOK', NEW t \in Threads, NEW p \in Pairs,
         \A u \in Threads \ {t} : pc'[u] = pc[u] /\ todo'[u] = todo[u] /\ report'[u] = report[u]
  PROVE  /\ Hands(p)' + InHand(t, p) = Hands(p) + InHand(t, p)'
         /\ Hands(p) \in Nat /\ Hands(p)' \in Nat
         /\ InHand(t, p) \in Nat /\ InHand(t, p)' \in Nat
<1> DEFINE f == [u \in Threads |-> InHand(u, p)]
           g == [u \in Threads |-> InHand(u, p)']
<1>1. /\ \A u \in Threads : f[u] \in Nat
      /\ \A u \in Threads : g[u] \in Nat
  <2>1. \A u \in Threads : InHand(u, p) \in Nat  BY InHandNat
  <2>2. \A u \in Threads : InHand(u, p)' \in Nat
    <3> TAKE u \in Threads
    <3>1. (IF pc'[u] = "store" THEN Tail(todo'[u]) ELSE todo'[u]) \in Seq(Item)
      BY TailLeft DEF TypeOK
    <3>2. report'[u] \in Seq(Item)  BY DEF TypeOK
    <3>3. /\ QuantityOf(IF pc'[u] = "store" THEN Tail(todo'[u]) ELSE todo'[u], p) \in Nat
          /\ QuantityOf(report'[u], p) \in Nat
      BY <3>1, <3>2, QuantityNat, Zenon
    <3> QED  BY <3>3 DEF InHand
  <2> QED  BY <2>1, <2>2
<1>2. \A u \in Threads \ {t} : f[u] = g[u]
  BY DEF InHand
<1>3. Hands(p) = SumFunctionOnSet(f, Threads) /\ Hands(p)' = SumFunctionOnSet(g, Threads)
  BY DEF Hands, SumFunction
<1>4. f[t] = InHand(t, p) /\ g[t] = InHand(t, p)'
  OBVIOUS
<1> HIDE DEF f, g
<1>5. /\ SumFunctionOnSet(g, Threads) + f[t] = SumFunctionOnSet(f, Threads) + g[t]
      /\ SumFunctionOnSet(f, Threads) \in Nat /\ SumFunctionOnSet(g, Threads) \in Nat
  BY <1>1, <1>2, ThreadsAssumption, SumChange
<1> QED  BY <1>1, <1>3, <1>4, <1>5

\* What t has in hand when its call is in the step c, its list is td and its
\* report rp.
Holding(c, td, rp, p) ==
  QuantityOf(IF c = "store" THEN Tail(td) ELSE td, p) + QuantityOf(rp, p)

LEMMA HoldingNow ==
  ASSUME NEW t, NEW p
  PROVE  /\ InHand(t, p) = Holding(pc[t], todo[t], report[t], p)
         /\ InHand(t, p)' = Holding(pc'[t], todo'[t], report'[t], p)
BY DEF InHand, Holding

\* The two pairs of an index are one.
LEMMA SamePair ==
  ASSUME NEW p \in Pairs, NEW c \in Category, NEW r \in Reason
  PROVE  /\ Index(p.category, p.reason) \in Slots
         /\ Index(c, r) \in Slots
         /\ Index(c, r) = Index(p.category, p.reason) <=> (c = p.category /\ r = p.reason)
<1>1. p.category \in Category /\ p.reason \in Reason  BY DEF Pairs
<1>2. /\ ReasonCategory(Index(c, r)) = [category |-> c, reason |-> r]
      /\ ReasonCategory(Index(p.category, p.reason))
           = [category |-> p.category, reason |-> p.reason]
  BY <1>1, PairOfIndex
<1>3. Index(c, r) = Index(p.category, p.reason) => c = p.category /\ r = p.reason
  BY <1>2
<1> QED  BY <1>1, <1>3, IndexInSlots

LEMMA BalanceStep == TypeOK /\ TypeOK' /\ HandsClean /\ BooksBalance /\ [Next]_vars
                       => BooksBalance'
<1> SUFFICES ASSUME TypeOK, TypeOK', HandsClean, BooksBalance, [Next]_vars,
                    NEW p \in Pairs
             PROVE  lost'[p] = delivered'[p] + inner'[Index(p.category, p.reason)] + Hands(p)'
  BY DEF BooksBalance, Hands
<1> DEFINE k == Index(p.category, p.reason)
           Balanced == lost'[p] = delivered'[p] + inner'[k] + Hands(p)'
           Others(t) == \A u \in Threads \ {t} :
                          pc'[u] = pc[u] /\ todo'[u] = todo[u] /\ report'[u] = report[u]
<1>1. k \in Slots  BY IndexInSlots DEF Pairs
<1>2. lost[p] = delivered[p] + inner[k] + Hands(p)  BY DEF BooksBalance, Hands
<1>3. /\ lost[p] \in Nat /\ lost'[p] \in Nat /\ delivered[p] \in Nat /\ delivered'[p] \in Nat
      /\ inner[k] \in Nat /\ inner'[k] \in Nat
  <2> HIDE DEF k
  <2> QED  BY <1>1 DEF TypeOK
<1> HIDE DEF k
\* A step balances when what t has in hand changes by what the books do.
<1>4. ASSUME NEW t \in Threads, Others(t),
             lost'[p] + delivered[p] + inner[k] + Holding(pc[t], todo[t], report[t], p)
               = lost[p] + delivered'[p] + inner'[k] + Holding(pc'[t], todo'[t], report'[t], p)
      PROVE  Balanced
  <2>1. /\ Hands(p)' + InHand(t, p) = Hands(p) + InHand(t, p)'
        /\ Hands(p) \in Nat /\ Hands(p)' \in Nat
        /\ InHand(t, p) \in Nat /\ InHand(t, p)' \in Nat
    BY <1>4, HandChange
  <2>2. lost'[p] + delivered[p] + inner[k] + InHand(t, p)
          = lost[p] + delivered'[p] + inner'[k] + InHand(t, p)'
    BY <1>4, HoldingNow
  <2> DEFINE l == lost[p]      l2 == lost'[p]
             d == delivered[p] d2 == delivered'[p]
             i == inner[k]     i2 == inner'[k]
             h == InHand(t, p) h2 == InHand(t, p)'
             a == Hands(p)     a2 == Hands(p)'
  <2>3. /\ l \in Nat /\ l2 \in Nat /\ d \in Nat /\ d2 \in Nat /\ i \in Nat /\ i2 \in Nat
        /\ h \in Nat /\ h2 \in Nat /\ a \in Nat /\ a2 \in Nat
        /\ l = d + i + a /\ a2 + h = a + h2 /\ l2 + d + i + h = l + d2 + i2 + h2
    BY <1>2, <1>3, <2>1, <2>2
  <2> HIDE DEF l, l2, d, d2, i, i2, h, h2, a, a2
  <2>4. l2 = d2 + i2 + a2  BY <2>3
  <2> QED  BY <2>4 DEF l2, d2, i2, a2
<1>5. ASSUME NEW t \in Threads
      PROVE  /\ pc[t] # "store" => Holding(pc[t], todo[t], report[t], p)
                                     = QuantityOf(todo[t], p) + QuantityOf(report[t], p)
             /\ pc'[t] # "store" => Holding(pc'[t], todo'[t], report'[t], p)
                                     = QuantityOf(todo'[t], p) + QuantityOf(report'[t], p)
             /\ pc[t] = "store" => Holding(pc[t], todo[t], report[t], p)
                                     = QuantityOf(Tail(todo[t]), p) + QuantityOf(report[t], p)
             /\ pc'[t] = "store" => Holding(pc'[t], todo'[t], report'[t], p)
                                     = QuantityOf(Tail(todo'[t]), p) + QuantityOf(report'[t], p)
             /\ QuantityOf(todo[t], p) \in Nat /\ QuantityOf(report[t], p) \in Nat
             /\ todo[t] # <<>> => /\ QuantityOf(Tail(todo[t]), p) \in Nat
                                  /\ Head(todo[t]) \in Item
                                  /\ Share(Head(todo[t]), p) \in Nat
                                  /\ QuantityOf(todo[t], p) = Share(Head(todo[t]), p)
                                                                + QuantityOf(Tail(todo[t]), p)
             /\ todo[t] = <<>> => QuantityOf(todo[t], p) = 0
             /\ report[t] = <<>> => QuantityOf(report[t], p) = 0
             /\ QuantityOf(<<>>, p) = 0
  <2>1. todo[t] \in Seq(Item) /\ report[t] \in Seq(Item)  BY DEF TypeOK
  <2>2. QuantityOf(todo[t], p) \in Nat /\ QuantityOf(report[t], p) \in Nat
    BY <2>1, QuantityNat
  <2>3. ASSUME todo[t] # <<>>
        PROVE  /\ QuantityOf(Tail(todo[t]), p) \in Nat
               /\ Head(todo[t]) \in Item
               /\ Share(Head(todo[t]), p) \in Nat
               /\ QuantityOf(todo[t], p) = Share(Head(todo[t]), p) + QuantityOf(Tail(todo[t]), p)
    <3>1. Head(todo[t]) \in Item /\ Tail(todo[t]) \in Seq(Item)  BY <2>1, <2>3, TailLeft
    <3> QED  BY <2>1, <2>3, <3>1, QuantityNat, QuantityTail, ShareNat
  <2>4. QuantityOf(<<>>, p) = 0  BY QuantityEmpty
  <2>5. /\ pc[t] # "store" => Holding(pc[t], todo[t], report[t], p)
                                     = QuantityOf(todo[t], p) + QuantityOf(report[t], p)
        /\ pc'[t] # "store" => Holding(pc'[t], todo'[t], report'[t], p)
                                     = QuantityOf(todo'[t], p) + QuantityOf(report'[t], p)
        /\ pc[t] = "store" => Holding(pc[t], todo[t], report[t], p)
                                     = QuantityOf(Tail(todo[t]), p) + QuantityOf(report[t], p)
        /\ pc'[t] = "store" => Holding(pc'[t], todo'[t], report'[t], p)
                                     = QuantityOf(Tail(todo'[t]), p) + QuantityOf(report'[t], p)
    BY DEF Holding
  <2> QED  BY <2>2, <2>3, <2>4, <2>5
<1>6. ASSUME NEW t \in Threads, NEW data \in Envelopes, NEW r \in Reason, ItemLost(t, data, r)
      PROVE  Balanced
  <2> DEFINE new == WithReason(data, r)
  <2>1. new \in Seq(Item) /\ QuantityOf(new, p) \in Nat  BY WithReasonType, QuantityNat
  <2>2. /\ todo'[t] = new /\ report' = report /\ pc[t] = "idle" /\ pc'[t] # "store"
        /\ lost'[p] = lost[p] + QuantityOf(new, p)
        /\ delivered' = delivered /\ inner' = inner /\ Others(t)
    BY <1>6 DEF ItemLost, RecordLostData, TypeOK, shared
  <2>3. todo[t] = <<>>  BY <2>2 DEF HandsClean
  <2>a. Holding(pc[t], todo[t], report[t], p) = QuantityOf(report[t], p)
    BY <1>5, <2>1, <2>2, <2>3
  <2>b. Holding(pc'[t], todo'[t], report'[t], p) = QuantityOf(new, p) + QuantityOf(report[t], p)
    BY <1>5, <2>1, <2>2, <2>3
  <2>c. QuantityOf(report[t], p) \in Nat
    BY <1>5, <2>1, <2>2
  <2>d. lost'[p] + delivered[p] + inner[k] + Holding(pc[t], todo[t], report[t], p)
          = lost[p] + delivered'[p] + inner'[k] + Holding(pc'[t], todo'[t], report'[t], p)
    BY <1>3, <2>a, <2>b, <2>c, <2>1, <2>2, SMTT(90)
  <2> QED  BY <1>4, <2>d, <2>1, <2>2
<1>7. ASSUME NEW t \in Threads, NEW data \in Envelopes, NEW r \in Reason, EnvelopeLost(t, data, r)
      PROVE  Balanced
  <2> DEFINE new == WithReason(data, r)
  <2>1. new \in Seq(Item) /\ QuantityOf(new, p) \in Nat  BY WithReasonType, QuantityNat
  <2>2. /\ todo'[t] = new \o report[t] /\ report'[t] = <<>> /\ pc[t] = "send" /\ pc'[t] # "store"
        /\ lost'[p] = lost[p] + QuantityOf(new, p)
        /\ delivered' = delivered /\ inner' = inner /\ Others(t)
    BY <1>7 DEF EnvelopeLost, EnvelopeLosses, RecordLostData, TypeOK, shared
  <2>3. todo[t] = <<>>  BY <2>2 DEF HandsClean
  <2>4. QuantityOf(new \o report[t], p) = QuantityOf(new, p) + QuantityOf(report[t], p)
    BY <2>1, QuantityConcat DEF TypeOK
  <2>5. QuantityOf(todo'[t], p) = QuantityOf(new, p) + QuantityOf(report[t], p)
        /\ QuantityOf(report'[t], p) = 0
    BY <2>2, <2>4, QuantityEmpty
  <2>6. pc[t] # "store" /\ pc'[t] # "store"  BY <2>2
  <2>a. Holding(pc[t], todo[t], report[t], p) = QuantityOf(report[t], p)
    BY <1>5, <2>3, <2>6
  <2>b. Holding(pc'[t], todo'[t], report'[t], p) = QuantityOf(new, p) + QuantityOf(report[t], p)
    <3>1. Holding(pc'[t], todo'[t], report'[t], p)
            = QuantityOf(todo'[t], p) + QuantityOf(report'[t], p)
      BY <1>5, <2>6
    <3>2. QuantityOf(report[t], p) \in Nat  BY <1>5
    <3> QED  BY <2>1, <2>5, <3>1, <3>2
  <2>c. QuantityOf(report[t], p) \in Nat
    BY <1>5, <2>1, <2>2
  <2>d. lost'[p] + delivered[p] + inner[k] + Holding(pc[t], todo[t], report[t], p)
          = lost[p] + delivered'[p] + inner'[k] + Holding(pc'[t], todo'[t], report'[t], p)
    BY <1>3, <2>a, <2>b, <2>c, <2>1, <2>2, SMTT(90)
  <2> QED  BY <1>4, <2>d, <2>1, <2>2
<1>8. ASSUME NEW t \in Threads, RecordNothing(t) PROVE Balanced
  <2>1. /\ todo[t] # <<>> /\ todo'[t] = Tail(todo[t]) /\ report' = report
        /\ pc[t] = "add" /\ pc'[t] # "store" /\ Others(t)
        /\ lost' = lost /\ delivered' = delivered /\ inner' = inner
    BY <1>8 DEF RecordNothing, NextLoss, TypeOK, shared, history
  <2>2. Share(Head(todo[t]), p) = 0  BY <1>8 DEF RecordNothing, Share
  <2> QED  BY <1>3, <1>4, <1>5, <2>1, <2>2, SMTT(90)
<1>9. ASSUME NEW t \in Threads, FetchAdd(t) PROVE Balanced
  <2> DEFINE l == Head(todo[t])
  <2>1. /\ todo[t] # <<>> /\ todo' = todo /\ report' = report
        /\ pc[t] = "add" /\ pc'[t] = "store" /\ Others(t)
        /\ lost' = lost /\ delivered' = delivered
        /\ inner' = [inner EXCEPT ![Index(l.category, l.reason)] = @ + l.quantity]
    BY <1>9 DEF FetchAdd, TypeOK, history
  <2>2. l \in Item  BY <1>5, <2>1
  <2> HIDE DEF l
  <2>3. /\ l.category \in Category /\ l.reason \in Reason /\ l.quantity \in Nat
    BY <2>2 DEF Item
  <2>4. /\ Index(l.category, l.reason) \in Slots
        /\ Index(l.category, l.reason) = k <=> (l.category = p.category /\ l.reason = p.reason)
    BY <2>3, SamePair DEF k
  <2>5. inner'[k] = inner[k] + Share(l, p)
    BY <2>1, <2>3, <2>4, <1>1, <1>3 DEF TypeOK, Share
  <2>a. Holding(pc[t], todo[t], report[t], p) = QuantityOf(todo[t], p) + QuantityOf(report[t], p)
    BY <1>5, <2>1
  <2>b. Holding(pc'[t], todo'[t], report'[t], p) = QuantityOf(Tail(todo[t]), p) + QuantityOf(report[t], p)
    BY <1>5, <2>1
  <2>c. /\ QuantityOf(todo[t], p) = Share(l, p) + QuantityOf(Tail(todo[t]), p)
        /\ Share(l, p) \in Nat /\ QuantityOf(Tail(todo[t]), p) \in Nat /\ QuantityOf(report[t], p) \in Nat
    BY <1>5, <2>1, <2>5 DEF l
  <2>d. lost'[p] + delivered[p] + inner[k] + Holding(pc[t], todo[t], report[t], p)
          = lost[p] + delivered'[p] + inner'[k] + Holding(pc'[t], todo'[t], report'[t], p)
    BY <1>3, <2>a, <2>b, <2>c, <2>1, <2>5, SMTT(90)
  <2> QED  BY <1>4, <2>d, <2>1
<1>10. ASSUME NEW t \in Threads, StoreFlag(t) PROVE Balanced
  <2>1. /\ todo[t] # <<>> /\ todo'[t] = Tail(todo[t]) /\ report' = report
        /\ pc[t] = "store" /\ pc'[t] # "store" /\ Others(t)
        /\ lost' = lost /\ delivered' = delivered /\ inner' = inner
    BY <1>10 DEF StoreFlag, NextLoss, TypeOK, history
  <2> QED  BY <1>3, <1>4, <1>5, <2>1
<1>11. ASSUME NEW t \in Threads, SwapFlag(t) PROVE Balanced
  <2>1. /\ todo' = todo /\ report'[t] = <<>> /\ report[t] = <<>>
        /\ pc[t] = "idle" /\ pc'[t] # "store" /\ Others(t)
        /\ lost' = lost /\ delivered' = delivered /\ inner' = inner
    BY <1>11 DEF SwapFlag, HandsClean, TypeOK, history
  <2> QED  BY <1>3, <1>4, <1>5, <2>1, SMTT(90)
<1>12. ASSUME NEW t \in Threads, SwapCounter(t) PROVE Balanced
  <2> DEFINE i == cursor[t]
             item == [category |-> ReasonCategory(i).category,
                      reason |-> ReasonCategory(i).reason, quantity |-> inner[i]]
  <2>1. /\ i \in Slots /\ todo' = todo /\ pc[t] = "drain" /\ pc'[t] # "store" /\ Others(t)
        /\ lost' = lost /\ delivered' = delivered
        /\ inner' = [inner EXCEPT ![i] = 0]
        /\ report'[t] = IF inner[i] > 0 THEN Append(report[t], item) ELSE report[t]
    BY <1>12 DEF SwapCounter, TypeOK, history
  <2>2. ReasonCategory(i) \in Pairs /\ inner[i] \in Nat
        /\ Index(ReasonCategory(i).category, ReasonCategory(i).reason) = i
    BY <2>1, IndexOfPair DEF TypeOK
  <2>3. /\ ReasonCategory(i).category \in Category /\ ReasonCategory(i).reason \in Reason
        /\ item \in Item
    BY <2>2 DEF Pairs, Item
  <2>4. i = k <=> (item.category = p.category /\ item.reason = p.reason)
    BY <2>2, <2>3, SamePair DEF k
  <2>5. inner[k] = inner'[k] + Share(item, p)
    <3>1. item.quantity = inner[i]  OBVIOUS
    <3> HIDE DEF item, i
    <3> QED  BY <2>1, <2>4, <1>1, <1>3, <3>1 DEF TypeOK, Share
  <2>6. QuantityOf(report'[t], p) = QuantityOf(report[t], p) + Share(item, p)
    <3>1. CASE inner[i] > 0
      BY <2>1, <2>3, <3>1, QuantityAppend DEF TypeOK
    <3>2. CASE ~(inner[i] > 0)
      <4>1. inner[i] = 0 /\ item.quantity = 0  BY <2>2, <3>2
      <4>2. Share(item, p) = 0  BY <4>1 DEF Share
      <4> QED  BY <2>1, <3>2, <4>2, <1>5
    <3> QED  BY <3>1, <3>2
  <2>7. Share(item, p) \in Nat  BY <2>3, ShareNat
  <2> HIDE DEF item, i
  <2>a. Holding(pc[t], todo[t], report[t], p) = QuantityOf(todo[t], p) + QuantityOf(report[t], p)
    BY <1>5, <2>1
  <2>b. Holding(pc'[t], todo'[t], report'[t], p) = QuantityOf(todo[t], p) + QuantityOf(report'[t], p)
    BY <1>5, <2>1
  <2>c. QuantityOf(todo[t], p) \in Nat /\ QuantityOf(report[t], p) \in Nat
    BY <1>5, <2>1, <2>5, <2>6, <2>7
  <2>d. lost'[p] + delivered[p] + inner[k] + Holding(pc[t], todo[t], report[t], p)
          = lost[p] + delivered'[p] + inner'[k] + Holding(pc'[t], todo'[t], report'[t], p)
    BY <1>3, <2>a, <2>b, <2>c, <2>1, <2>5, <2>6, <2>7
  <2> QED  BY <1>4, <2>d, <2>1, <2>5, <2>6, <2>7
<1>13. ASSUME NEW t \in Threads, EnvelopeSent(t) PROVE Balanced
  <2>1. /\ todo' = todo /\ report'[t] = <<>> /\ pc[t] = "send" /\ pc'[t] # "store" /\ Others(t)
        /\ lost' = lost /\ delivered'[p] = delivered[p] + QuantityOf(report[t], p)
        /\ inner' = inner
    BY <1>13 DEF EnvelopeSent, TypeOK, shared
  <2>a. Holding(pc[t], todo[t], report[t], p) = QuantityOf(todo[t], p) + QuantityOf(report[t], p)
    BY <1>5, <2>1
  <2>b. Holding(pc'[t], todo'[t], report'[t], p) = QuantityOf(todo[t], p)
    BY <1>5, <2>1
  <2>c. QuantityOf(todo[t], p) \in Nat /\ QuantityOf(report[t], p) \in Nat
    BY <1>5, <2>1
  <2>d. lost'[p] + delivered[p] + inner[k] + Holding(pc[t], todo[t], report[t], p)
          = lost[p] + delivered'[p] + inner'[k] + Holding(pc'[t], todo'[t], report'[t], p)
    BY <1>3, <2>a, <2>b, <2>c, <2>1, SMTT(90)
  <2> QED  BY <1>4, <2>d, <2>1
<1>14. CASE UNCHANGED vars
  <2>1. Hands(p)' = Hands(p)
    BY <1>14 DEF vars, Hands, InHand
  <2> QED  BY <1>2, <1>14, <2>1 DEF vars, k
<1> QED
  BY <1>6, <1>7, <1>8, <1>9, <1>10, <1>11, <1>12, <1>13, <1>14 DEF Next, Step, k

\* The induction: types, clean hands and balanced books hold together.
LEMMA BooksInit == Init => HandsClean /\ BooksBalance
<1> SUFFICES ASSUME Init PROVE HandsClean /\ BooksBalance
  OBVIOUS
<1>1. HandsClean  BY DEF Init, HandsClean
<1>2. ASSUME NEW p \in Pairs
      PROVE  lost[p] = delivered[p] + inner[Index(p.category, p.reason)] + Hands(p)
  <2>1. Index(p.category, p.reason) \in Slots  BY IndexInSlots DEF Pairs
  <2>2. lost[p] = 0 /\ delivered[p] = 0 /\ inner[Index(p.category, p.reason)] = 0
    BY <2>1 DEF Init
  <2> DEFINE f == [t \in Threads |-> InHand(t, p)]
  <2>3. \A t \in Threads : f[t] = 0
    <3> TAKE t \in Threads
    <3>1. todo[t] = <<>> /\ report[t] = <<>> /\ pc[t] = "idle"  BY DEF Init
    <3>2. InHand(t, p) = QuantityOf(<<>>, p) + QuantityOf(<<>>, p)  BY <3>1 DEF InHand
    <3> QED  BY <3>2, QuantityEmpty
  <2>4. Hands(p) = SumFunctionOnSet(f, Threads)  BY DEF Hands, SumFunction
  <2> HIDE DEF f
  <2>5. Hands(p) = 0  BY <2>3, <2>4, ThreadsAssumption, SumZero
  <2> QED  BY <2>2, <2>5
<1> QED  BY <1>1, <1>2 DEF BooksBalance, Hands

\* For any number of threads, categories, reasons and losses the books balance
\* at every step of every interleaving: what record_lost_data was called with
\* is in a delivered report, in its counter or in the hands of a thread
\* (inner.rs 21-59, mod.rs 55-75).
THEOREM BooksAlwaysBalance == Spec => [](HandsClean /\ BooksBalance)
<1>1. TypeOK /\ HandsClean /\ BooksBalance /\ [Next]_vars
        => (TypeOK /\ HandsClean /\ BooksBalance)'
  BY TypeStep, CleanStep, BalanceStep
<1> QED  BY <1>1, BooksInit, TypeInit, PTL DEF Spec

-----------------------------------------------------------------------------
(* The aggregator implements the ledger.                                   *)

\* What was lost is never less than what was delivered.
LEMMA LostCoversDelivered ==
  ASSUME TypeOK, BooksBalance, NEW p \in Pairs
  PROVE  /\ lost[p] \in Nat /\ delivered[p] \in Nat
         /\ lost[p] - delivered[p] \in Nat
<1>1. lost[p] \in Nat /\ delivered[p] \in Nat  BY DEF TypeOK
<1>2. Index(p.category, p.reason) \in Slots  BY IndexInSlots DEF Pairs
<1>3. inner[Index(p.category, p.reason)] \in Nat  BY <1>2 DEF TypeOK
<1>4. Hands(p) \in Nat
  <2> DEFINE f == [t \in Threads |-> InHand(t, p)]
  <2>1. \A t \in Threads : f[t] \in Nat  BY InHandNat
  <2>2. Hands(p) = SumFunctionOnSet(f, Threads)  BY DEF Hands, SumFunction
  <2> HIDE DEF f
  <2> QED  BY <2>1, <2>2, ThreadsAssumption, SumNat
<1>5. lost[p] = delivered[p] + inner[Index(p.category, p.reason)] + Hands(p)
  BY DEF BooksBalance, Hands
<1> QED  BY <1>1, <1>3, <1>4, <1>5

\* A step loses telemetry, delivers a report or leaves the books alone.
LEMMA HistoryStep ==
  ASSUME TypeOK, TypeOK', [Next]_vars
  PROVE  \/ delivered' = delivered /\ \A p \in Pairs : lost'[p] >= lost[p]
         \/ lost' = lost /\ \A p \in Pairs : delivered'[p] >= delivered[p]
<1>1. ASSUME NEW t \in Threads, NEW data \in Envelopes, NEW r \in Reason,
             ItemLost(t, data, r) \/ EnvelopeLost(t, data, r)
      PROVE  delivered' = delivered /\ \A p \in Pairs : lost'[p] >= lost[p]
  <2>1. WithReason(data, r) \in Seq(Item)  BY WithReasonType
  <2>2. \A p \in Pairs : lost'[p] = lost[p] + QuantityOf(WithReason(data, r), p)
    BY <1>1 DEF ItemLost, EnvelopeLost
  <2>3. \A p \in Pairs : QuantityOf(WithReason(data, r), p) \in Nat  BY <2>1, QuantityNat
  <2>4. delivered' = delivered  BY <1>1 DEF ItemLost, EnvelopeLost
  <2> QED  BY <2>2, <2>3, <2>4 DEF TypeOK
<1>2. ASSUME NEW t \in Threads, EnvelopeSent(t)
      PROVE  lost' = lost /\ \A p \in Pairs : delivered'[p] >= delivered[p]
  <2>1. \A p \in Pairs : delivered'[p] = delivered[p] + QuantityOf(report[t], p)
    BY <1>2 DEF EnvelopeSent
  <2>2. \A p \in Pairs : QuantityOf(report[t], p) \in Nat  BY QuantityNat DEF TypeOK
  <2>3. lost' = lost  BY <1>2 DEF EnvelopeSent
  <2> QED  BY <2>1, <2>2, <2>3 DEF TypeOK
<1>3. ASSUME NEW t \in Threads,
             RecordNothing(t) \/ FetchAdd(t) \/ StoreFlag(t) \/ SwapFlag(t) \/ SwapCounter(t)
      PROVE  delivered' = delivered /\ lost' = lost
  BY <1>3 DEF RecordNothing, FetchAdd, StoreFlag, SwapFlag, SwapCounter, history
<1>4. CASE UNCHANGED vars
  BY <1>4 DEF vars, TypeOK
<1>5. delivered' = delivered /\ lost' = lost => \A p \in Pairs : lost'[p] >= lost[p]
  BY DEF TypeOK
<1> QED  BY <1>1, <1>2, <1>3, <1>4, <1>5 DEF Next, Step

\* The refinement: the aggregator with its counters, flag, drains and lost
\* reports implements the ledger, in which nothing is reported that was not
\* lost and nothing is reported twice (take_pending_report, record_lost_data).
THEOREM ImplementsLedger == Spec => LedgerSpec
<1> DEFINE Covered == \A p \in Pairs : /\ lost[p] \in Nat /\ delivered[p] \in Nat
                                       /\ lost[p] - delivered[p] \in Nat
<1> HIDE DEF Covered
<1>0. TypeOK /\ BooksBalance => Covered  BY LostCoversDelivered DEF Covered
<1>a. TypeOK' /\ BooksBalance' => Covered'  BY <1>0, PTL
<1>1. Init => Ledger!Init
  <2> SUFFICES ASSUME Init PROVE Ledger!Init
    OBVIOUS
  <2>1. \A p \in Pairs : lost[p] - delivered[p] = 0  BY DEF Init
  <2>2. delivered = [p \in Pairs |-> 0]  BY DEF Init
  <2> QED  BY <2>1, <2>2 DEF Ledger!Init
<1>2. TypeOK /\ TypeOK' /\ BooksBalance /\ BooksBalance' /\ [Next]_vars
        => [Ledger!Next]_Ledger!ledger
  <2> SUFFICES ASSUME TypeOK, TypeOK', BooksBalance, BooksBalance', [Next]_vars
               PROVE  Ledger!Next
    OBVIOUS
  <2>1. \A p \in Pairs : /\ lost[p] \in Nat /\ delivered[p] \in Nat
                         /\ lost[p] - delivered[p] \in Nat
    BY <1>0 DEF Covered
  <2>2. \A p \in Pairs : /\ lost'[p] \in Nat /\ delivered'[p] \in Nat
                         /\ lost'[p] - delivered'[p] \in Nat
    BY <1>a DEF Covered
  <2>3. CASE delivered' = delivered /\ \A p \in Pairs : lost'[p] >= lost[p]
    <3>1. \A p \in Pairs : lost'[p] - delivered'[p] >= lost[p] - delivered[p]
      BY <2>1, <2>2, <2>3
    <3>2. Ledger!Lose  BY <2>3, <3>1 DEF Ledger!Lose
    <3> QED  BY <3>2 DEF Ledger!Next
  <2>4. CASE lost' = lost /\ \A p \in Pairs : delivered'[p] >= delivered[p]
    <3>1. \A p \in Pairs : /\ lost'[p] - delivered'[p] >= 0
                           /\ (lost'[p] - delivered'[p]) + delivered'[p]
                                = (lost[p] - delivered[p]) + delivered[p]
      BY <2>1, <2>2, <2>4
    <3>2. delivered' = [p \in Pairs |-> delivered'[p]]  BY DEF TypeOK
    <3>3. Ledger!Deliver  BY <2>4, <3>1, <3>2 DEF Ledger!Deliver
    <3> QED  BY <3>3 DEF Ledger!Next
  <2> QED  BY <2>3, <2>4, HistoryStep
<1>3. LedgerSpec <=> Ledger!Init /\ [][Ledger!Next]_Ledger!ledger
  BY DEF LedgerSpec, Ledger!Spec
<1> QED  BY <1>1, <1>2, <1>3, TypeCorrect, BooksAlwaysBalance, PTL DEF Spec
=============================================================================
