----------------------------- MODULE MCHubStack -----------------------------
(* Instances of HubStack for TLC.                                          *)
EXTENDS HubStack, TLC

\* Every callback may call the SDK, and clients are closed while others capture.
MCApps == {[nests |-> {"add_breadcrumb", "capture", "capture_error"}, closes |-> TRUE]}

\* before_send may capture, and the client is closed meanwhile.
MCClosing == {[nests |-> {"capture"}, closes |-> TRUE]}

\* Callbacks log, and a logger sends breadcrumbs to the SDK: before_breadcrumb, or
\* before_send of a captured error.
MCLogging == {[nests |-> {n}, closes |-> FALSE] : n \in {"add_breadcrumb", "capture_error"}}

\* Nothing tells the tasks apart.
MCSymmetry == Permutations(Tasks)
====
