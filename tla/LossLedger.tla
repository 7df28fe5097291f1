----------------------------- MODULE LossLedger -----------------------------
(***************************************************************************)
(* What client reports promise: the books of lost telemetry balance.      *)
(* For every pair of a data category and a discard reason the ledger      *)
(* holds what was lost and not yet reported (pending) and what a report   *)
(* that reached the server said was lost (delivered).  Nothing is         *)
(* reported that was not lost, nothing is reported twice, and nothing     *)
(* lost disappears from the books.  ClientReports implements this         *)
(* specification with relaxed atomic counters and a flag.                 *)
(***************************************************************************)
EXTENDS Naturals

CONSTANT Pairs              \* the (category, reason) pairs of the books

VARIABLES pending, delivered
ledger == <<pending, delivered>>

Init == /\ pending   = [p \in Pairs |-> 0]
        /\ delivered = [p \in Pairs |-> 0]

\* Telemetry is lost: some entries of the books grow.
Lose == /\ \A p \in Pairs : pending'[p] >= pending[p]
        /\ pending' = [p \in Pairs |-> pending'[p]]
        /\ UNCHANGED delivered

\* A report arrives: what it says moves from pending to delivered.
Deliver == /\ \A p \in Pairs : /\ delivered'[p] >= delivered[p]
                               /\ pending'[p] >= 0
                               /\ pending'[p] + delivered'[p] = pending[p] + delivered[p]
           /\ delivered' = [p \in Pairs |-> delivered'[p]]
           /\ pending'   = [p \in Pairs |-> pending'[p]]

Next == Lose \/ Deliver

Spec == Init /\ [][Next]_ledger
=============================================================================
