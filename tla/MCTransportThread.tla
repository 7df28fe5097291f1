-------------------------- MODULE MCTransportThread --------------------------
(* Two callers, one of which flushes twice, and two envelopes: an event    *)
(* with a session update and an attachment, and a transaction with its     *)
(* trace header.                                                           *)
EXTENDS TransportThread, TLC

CONSTANTS c1, c2, e1, e2

MCCallers   == {c1, c2}
MCMaxFlush  == (c1 :> 2) @@ (c2 :> 1)
MCEnvelopes == {e1, e2}

Item(e, kind) == [of |-> e, kind |-> kind]
MCContents ==
  (e1 :> [items |-> {Item(e1, "event"), Item(e1, "session"), Item(e1, "attachment")},
          event_id |-> TRUE, trace |-> FALSE]) @@
  (e2 :> [items |-> {Item(e2, "transaction")}, event_id |-> TRUE, trace |-> TRUE])

\* No limit; limits on errors and on everything, which end one after the other.
MCLimits == {{}, {"any", "error"}}
=============================================================================
