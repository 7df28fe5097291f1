---------------------------- MODULE TraceHeaders ----------------------------
(***************************************************************************)
(* The headers that carry a trace from one service to the next: writing    *)
(* sentry-trace, and reading sentry-trace and baggage from a list of       *)
(* headers that may repeat, be malformed and come in any order.            *)
(***************************************************************************)
EXTENDS Text
CONSTANTS
  TraceIds, SpanIds,   \* tokens that parse as a trace id, as a span id
  OrgIds               \* tokens that parse as an organization id

SampledSuffix(sampled) ==
  IF sampled = None THEN <<>> ELSE <<"-", IF sampled THEN "1" ELSE "0">>

\* TracePropagationContext::sentry_trace_header.
SentryTraceHeader(ctx) == <<ctx.trace_id, "-", ctx.span_id>> \o SampledSuffix(ctx.sampled)

\* The decision in the third part; anything but 1 and 0 is no decision.
ParseSampled(part) == IF part = <<"1">> THEN TRUE ELSE IF part = <<"0">> THEN FALSE ELSE None

\* TracePropagationContext::from_sentry_trace: the context, or None.  Only the
\* first two dashes separate.
FromSentryTrace(text) ==
  LET header == TrimMatches(text, " ")
      first  == SplitOnce(header, "-")
      rest   == IF Len(first) = 2 THEN SplitOnce(first[2], "-") ELSE << <<>> >>
  IN  IF \E t \in TraceIds, s \in SpanIds : first[1] = <<t>> /\ rest[1] = <<s>>
      THEN [trace_id |-> first[1][1], span_id |-> rest[1][1],
            sampled |-> IF Len(rest) = 2 THEN ParseSampled(rest[2]) ELSE None, org_id |-> None]
      ELSE None

\* SentryBaggage::update_from_header: the members are separated by commas,
\* what follows a semicolon is dropped, and a value that is no id is passed over.
UpdateFromHeader(org, text) ==
  LET members == SelectSeq(Split(text, ","), LAMBDA m : Len(SplitOnce(m, "=")) = 2)
      Pair(m) == [k |-> TrimMatches(SplitOnce(m, "=")[1], " "),
                  v |-> TrimMatches(SplitOnce(SplitOnce(m, "=")[2], ";")[1], " ")]
      valid   == SelectSeq(members, LAMBDA m : /\ Pair(m).k = <<"sentry-org_id">>
                                               /\ \E o \in OrgIds : Pair(m).v = <<o>>)
  IN  IF valid = <<>> THEN org ELSE Pair(Last(valid)).v[1]

\* One more sentry-trace header: a valid one replaces what was read before, an
\* invalid one counts only while there is none.
NextContext(acc, ctx) ==
  IF ctx # None THEN [error |-> None, ctx |-> ctx]
  ELSE IF acc.ctx # None THEN acc ELSE [error |-> "Invalid", ctx |-> None]

\* One more header of the request.
NextHeader(acc, h) ==
  CASE h.name = "sentry-trace" -> [acc EXCEPT !.res = NextContext(@, FromSentryTrace(h.value))]
    [] h.name = "baggage"      -> [acc EXCEPT !.org = UpdateFromHeader(@, h.value)]
    [] OTHER -> acc

\* The organization of the baggage goes into the context, if there is one.
WithOrg(final) ==
  IF final.res.ctx = None THEN final.res ELSE [final.res EXCEPT !.ctx.org_id = final.org]

\* TracePropagationContext::try_from_headers.
TryFromHeaders(headers) ==
  WithOrg(FoldLeft(NextHeader, [res |-> [error |-> "Missing", ctx |-> None], org |-> None], headers))
=============================================================================
