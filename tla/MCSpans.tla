------------------------------- MODULE MCSpans -------------------------------
(* Small instances of Spans. *)
EXTENDS Spans, TLC
MCHeaders == {[sampled |-> FALSE, org |-> "o1"], [sampled |-> TRUE, org |-> "o2"]}
MCTracingOptions == [strategy |-> "always", org |-> "o1", strict |-> FALSE]
MCOrgs == {None, "o1"}
MCStrategies == {"always", "function"}
MCSymmetry == Permutations(Threads) \cup Permutations(Requests) \cup Permutations(Nodes)
====
