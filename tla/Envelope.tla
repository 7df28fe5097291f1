------------------------------ MODULE Envelope ------------------------------
(***************************************************************************)
(* Envelopes as the transport sees them: the items (records with a kind;   *)
(* their contents are not modelled), whether the header names the event,   *)
(* and whether it carries the dynamic sampling context (trace).  Items     *)
(* form a set: no operation here depends on their order.                   *)
(***************************************************************************)
EXTENDS Naturals

Kind == {"event", "transaction", "session", "attachment", "logs", "metrics",
         "client_report", "raw"}

\* The kinds of item that give an envelope its event id.
EventKinds == {"event", "transaction"}

HasEvent(items) == \E i \in items : i.kind \in EventKinds

\* The rate-limiting category an item of the envelope counts against.
RateLimitingCategory(kind) ==
  CASE kind = "event"       -> "error"
    [] kind = "session"     -> "session"
    [] kind = "transaction" -> "transaction"
    [] kind = "attachment"  -> "attachment"
    [] kind = "logs"        -> "log_item"
    [] kind = "metrics"     -> "trace_metric"
    [] OTHER                -> "any"

\* Mutant: no second pass over the attachments.
FilterItems_OnePass(accepted) == accepted

\* The items Envelope::filter keeps: those its predicate accepts, less the
\* attachments when no event or transaction is left to attach them to.
FilterItems(accepted) == { i \in accepted : i.kind = "attachment" => HasEvent(accepted) }

\* Envelope::filter: the kept items are added to a new envelope, whose header
\* has the event id of its event and nothing else; a raw envelope is passed on.
Filter(envelope, accepted) ==
  IF \E i \in envelope.items : i.kind = "raw"
  THEN [envelope EXCEPT !.items = FilterItems(accepted)]
  ELSE [items |-> FilterItems(accepted), event_id |-> HasEvent(FilterItems(accepted)),
        trace |-> FALSE]
=============================================================================
