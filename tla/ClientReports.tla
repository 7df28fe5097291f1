---------------------------- MODULE ClientReports ----------------------------
(***************************************************************************)
(* The aggregator of client reports (sentry-core client_reports): an array *)
(* of atomic counters, one per pair of a data category and a discard      *)
(* reason, and an atomic flag that says whether any counter may be         *)
(* nonzero.  Any thread records losses and any thread that sends an        *)
(* envelope drains the counters into a report attached to that envelope;  *)
(* nothing is locked, so every atomic operation is a step of its own.     *)
(*                                                                         *)
(* Atomics are modelled sequentially consistent (see README).             *)
(***************************************************************************)
EXTENDS Naturals, Sequences, FiniteSets, Functions

CONSTANTS
  Threads,      \* the threads of the application and of the transport
  NC,           \* number of data categories, Category::VARIANTS.len()
  NR,           \* number of discard reasons, Reason::VARIANTS.len()
  Envelopes,    \* the losses an item or envelope stands for: sequences of
                \* [category, quantity] (LossSource::losses)
  MaxLosses     \* bound: how many items or envelopes are lost in a behaviour

ASSUME ThreadsAssumption == IsFiniteSet(Threads)
ASSUME CountsAssumption == NC \in Nat \ {0} /\ NR \in Nat \ {0}
ASSUME EnvelopesAssumption ==
  Envelopes \subseteq Seq([category : 0 .. NC - 1, quantity : Nat])

Category == 0 .. NC - 1
Reason   == 0 .. NR - 1
Slots    == 0 .. NC * NR - 1        \* the positions of the array
Pairs    == [category : Category, reason : Reason]

\* The position of a pair's counter.
Index(category, reason) == category * NR + reason

\* Mutant: reasons outside, categories inside.
ReasonCategory_Transposed(i) == [category |-> i % NC, reason |-> i \div NC]

\* The pair the i-th counter stands for: categories outside, reasons inside.
ReasonCategory(i) == [category |-> i \div NR, reason |-> i % NR]

VARIABLES
  inner,          \* the counters
  has_reports,    \* the flag
  pc,             \* what each thread is doing
  todo,           \* losses the thread has still to record
  cursor,         \* the counter a draining thread swaps next
  report,         \* the report items the thread has collected
  lost,           \* history: what was lost, by pair
  delivered,      \* history: what delivered reports said, by pair
  losses          \* how many items or envelopes were lost (bounded)

shared  == <<inner, has_reports>>
history == <<lost, delivered, losses>>
vars == <<inner, has_reports, pc, todo, cursor, report, lost, delivered, losses>>

Item == [category : Category, reason : Reason, quantity : Nat]

\* How much an item, and a sequence of items, says of the pair p.
Share(item, p) == IF item.category = p.category /\ item.reason = p.reason
                  THEN item.quantity ELSE 0
QuantityOf(items, p) == SumFunction([n \in DOMAIN items |-> Share(items[n], p)])

Init == /\ inner       = [i \in Slots |-> 0]
        /\ has_reports = FALSE
        /\ pc     = [t \in Threads |-> "idle"]
        /\ todo   = [t \in Threads |-> <<>>]
        /\ cursor = [t \in Threads |-> 0]
        /\ report = [t \in Threads |-> <<>>]
        /\ lost      = [p \in Pairs |-> 0]
        /\ delivered = [p \in Pairs |-> 0]
        /\ losses = 0

-----------------------------------------------------------------------------
(* Recording a loss.                                                       *)

\* The losses of lost data, each with the reason of the call.
WithReason(data, reason) ==
  [n \in DOMAIN data |-> [category |-> data[n].category, reason |-> reason,
                          quantity |-> data[n].quantity]]

\* record_lost_data: the losses are recorded one after the other.
RecordLostData(t, items) ==
  /\ todo' = [todo EXCEPT ![t] = items]
  /\ pc'   = [pc EXCEPT ![t] = IF items = <<>> THEN "idle" ELSE "add"]

\* An item is dropped before it gets into an envelope.
ItemLost(t, data, reason) ==
  /\ pc[t] = "idle"
  /\ losses < MaxLosses
  /\ RecordLostData(t, WithReason(data, reason))
  /\ lost' = [p \in Pairs |-> lost[p] + QuantityOf(WithReason(data, reason), p)]
  /\ losses' = losses + 1
  /\ UNCHANGED <<shared, cursor, report, delivered>>

\* The thread is done with the first loss of its list.
NextLoss(t) ==
  /\ todo' = [todo EXCEPT ![t] = Tail(todo[t])]
  /\ pc'   = [pc EXCEPT ![t] = IF Tail(todo[t]) = <<>> THEN "idle" ELSE "add"]

\* record_loss, quantity 0: nothing to do.
RecordNothing(t) ==
  /\ pc[t] = "add"
  /\ Head(todo[t]).quantity = 0
  /\ NextLoss(t)
  /\ UNCHANGED <<shared, cursor, report, history>>

\* record_loss, first atomic: the counter is raised ...
FetchAdd(t) ==
  /\ pc[t] = "add"
  /\ Head(todo[t]).quantity > 0
  /\ LET l == Head(todo[t]) IN
       inner' = [inner EXCEPT ![Index(l.category, l.reason)] = @ + l.quantity]
  /\ pc' = [pc EXCEPT ![t] = "store"]
  /\ UNCHANGED <<has_reports, todo, cursor, report, history>>

\* ... second atomic: and then the flag.
StoreFlag(t) ==
  /\ pc[t] = "store"
  /\ has_reports' = TRUE
  /\ NextLoss(t)
  /\ UNCHANGED <<inner, cursor, report, history>>

-----------------------------------------------------------------------------
(* Sending an envelope with the pending report.                            *)

\* take_pending_report: the flag is taken down; if it was not up there is no
\* report and the envelope goes out without one.
SwapFlag(t) ==
  /\ pc[t] = "idle"
  /\ has_reports' = FALSE
  /\ pc' = [pc EXCEPT ![t] = IF has_reports THEN "drain" ELSE "send"]
  /\ cursor' = [cursor EXCEPT ![t] = 0]
  /\ report' = [report EXCEPT ![t] = <<>>]
  /\ UNCHANGED <<inner, todo, history>>

\* Mutant: the flag is taken down again once the last counter is drained.
SwapCounter_FlagDownAfter(t) ==
  /\ pc[t] = "drain"
  /\ LET i == cursor[t] IN
       /\ inner' = [inner EXCEPT ![i] = 0]
       /\ report' = [report EXCEPT ![t] =
            IF inner[i] > 0
            THEN Append(@, [category |-> ReasonCategory(i).category,
                            reason |-> ReasonCategory(i).reason, quantity |-> inner[i]])
            ELSE @]
       /\ cursor' = [cursor EXCEPT ![t] = i + 1]
       /\ pc' = [pc EXCEPT ![t] = IF i + 1 \in Slots THEN "drain" ELSE "send"]
       /\ has_reports' = (has_reports /\ i + 1 \in Slots)
  /\ UNCHANGED <<todo, history>>

\* One counter is swapped with 0; a nonzero one becomes an item of the report.
SwapCounter(t) ==
  /\ pc[t] = "drain"
  /\ LET i == cursor[t]
         p == ReasonCategory(i)
     IN /\ inner' = [inner EXCEPT ![i] = 0]
        /\ report' = [report EXCEPT ![t] =
             IF inner[i] > 0
             THEN Append(@, [category |-> p.category, reason |-> p.reason,
                             quantity |-> inner[i]])
             ELSE @]
        /\ cursor' = [cursor EXCEPT ![t] = i + 1]
        /\ pc' = [pc EXCEPT ![t] = IF i + 1 \in Slots THEN "drain" ELSE "send"]
  /\ UNCHANGED <<has_reports, todo, history>>

\* The transport delivers the envelope and the report in it.
EnvelopeSent(t) ==
  /\ pc[t] = "send"
  /\ pc' = [pc EXCEPT ![t] = "idle"]
  /\ delivered' = [p \in Pairs |-> delivered[p] + QuantityOf(report[t], p)]
  /\ report' = [report EXCEPT ![t] = <<>>]
  /\ UNCHANGED <<shared, todo, cursor, lost, losses>>

\* Mutants: the report takes the reason of the envelope; the report is forgotten.
EnvelopeLosses_Relabelled(data, reason, items) ==
  WithReason(data, reason) \o [n \in DOMAIN items |-> [items[n] EXCEPT !.reason = reason]]
EnvelopeLosses_ReportForgotten(data, reason, items) == WithReason(data, reason)

\* The losses of an envelope that holds a report: its own items with the
\* reason of this loss, then the report's items, which keep their reasons.
EnvelopeLosses(data, reason, items) == WithReason(data, reason) \o items

\* The transport loses the envelope (queue full, rate limit, network ...) and
\* records it with its reason, the report in it included.
EnvelopeLost(t, data, reason) ==
  /\ pc[t] = "send"
  /\ losses < MaxLosses
  /\ RecordLostData(t, EnvelopeLosses(data, reason, report[t]))
  /\ lost' = [p \in Pairs |-> lost[p] + QuantityOf(WithReason(data, reason), p)]
  /\ report' = [report EXCEPT ![t] = <<>>]
  /\ losses' = losses + 1
  /\ UNCHANGED <<shared, cursor, delivered>>

-----------------------------------------------------------------------------
Step(t) == \/ RecordNothing(t) \/ FetchAdd(t) \/ StoreFlag(t)
           \/ SwapFlag(t) \/ SwapCounter(t) \/ EnvelopeSent(t)

Next == \E t \in Threads :
          \/ Step(t)
          \/ \E data \in Envelopes, reason \in Reason :
               ItemLost(t, data, reason) \/ EnvelopeLost(t, data, reason)

Spec == Init /\ [][Next]_vars

(***************************************************************************)
(* Every thread keeps running, keeps sending envelopes (a report travels   *)
(* only with one), and the transport loses at most MaxLosses of them.      *)
(***************************************************************************)
FairSpec == Spec /\ \A t \in Threads : WF_vars(Step(t))

-----------------------------------------------------------------------------
TypeOK ==
  /\ inner \in [Slots -> Nat]
  /\ has_reports \in BOOLEAN
  /\ pc \in [Threads -> {"idle", "add", "store", "drain", "send"}]
  /\ todo \in [Threads -> Seq(Item)]
  /\ cursor \in [Threads -> 0 .. NC * NR]
  /\ report \in [Threads -> Seq(Item)]
  /\ lost \in [Pairs -> Nat] /\ delivered \in [Pairs -> Nat]
  /\ losses \in Nat
  /\ \A t \in Threads : /\ pc[t] \in {"add", "store"} => todo[t] # <<>>
                        /\ pc[t] = "drain" => cursor[t] \in Slots

(***************************************************************************)
(* No recorded loss is stranded (inner.rs 21-59): a nonzero counter is     *)
(* always going to be drained.  Either the flag is up, so the next         *)
(* envelope drains it, or a recorder is about to put the flag up, or a     *)
(* thread that took the flag down has not yet come to that counter.        *)
(***************************************************************************)
NoStrandedLoss ==
  \A i \in Slots : inner[i] > 0 =>
    \/ has_reports
    \/ \E t \in Threads : pc[t] = "store"
    \/ \E t \in Threads : pc[t] = "drain" /\ cursor[t] <= i

\* A thread's list and report are empty outside the calls that fill them, so
\* that no call overwrites what an earlier one left behind.
HandsClean ==
  \A t \in Threads : /\ pc[t] \notin {"add", "store"} => todo[t] = <<>>
                     /\ pc[t] \notin {"drain", "send"} => report[t] = <<>>

\* What is on its way from one place to the next in the hands of thread t.
\* In "store" the first loss of the list is already in its counter.
InHand(t, p) ==
  QuantityOf(IF pc[t] = "store" THEN Tail(todo[t]) ELSE todo[t], p)
    + QuantityOf(report[t], p)

(***************************************************************************)
(* The books balance at every step, for every category and reason: what    *)
(* was lost is what was delivered, what is in the pair's counter and what  *)
(* some thread has in hand.  A report that is lost with its envelope keeps *)
(* the reasons of its items (client_reports/mod.rs 55-75).                 *)
(***************************************************************************)
BooksBalance ==
  \A p \in Pairs :
    lost[p] = delivered[p] + inner[Index(p.category, p.reason)]
                + SumFunction([t \in Threads |-> InHand(t, p)])

\* The aggregator implements the ledger: no step reports what was not lost or
\* reports a loss twice (take_pending_report and record_lost_data together).
Ledger == INSTANCE LossLedger WITH
            pending <- [p \in Pairs |-> lost[p] - delivered[p]]
LedgerSpec == Ledger!Spec

\* Every loss is reported in the end (record_loss's doc comment, mod.rs 79-81).
AllReported == <>[](delivered = lost)
=============================================================================
