--------------------------- MODULE MCClientReports ---------------------------
(* Two threads, two categories, two reasons.                               *)
EXTENDS ClientReports

CONSTANTS t1, t2
MCThreads == {t1, t2}

\* An event; a transaction with its spans; an empty attachment.
MCEnvelopes == { <<[category |-> 0, quantity |-> 1]>>,
                 <<[category |-> 0, quantity |-> 1], [category |-> 1, quantity |-> 2]>>,
                 <<[category |-> 1, quantity |-> 0]>> }
=============================================================================
