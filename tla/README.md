# A TLA+ model of sentry-rust

This project models the Sentry SDK for Rust: hubs, scopes and spans, what a
capture passes through, and the way an event, a session update, a log or the
record of a loss travels from the thread that captures it to the server, through
queues, workers, locks, rate limits, failures and shutdown. TLC checks the models on
small instances, and TLAPS proves for every value of the constants the safety
properties of everything that is concurrent, what becomes of every event that is
captured, and what the server's rate limits come to.
`PROJECT.json` lists the components, runs, mutants, the source lines behind each
definition, hazards, findings and theorems.

## The system

| Component | State | Operations | Talks to |
|---|---|---|---|
| Hub, scope stack (`hub.rs`, `hub_impl.rs`, `scope/real.rs`, `futures.rs`) | per thread: the current hub; per hub: an RwLock'ed stack of layers (client, scope); scopes share a session cell | push and pop of scopes by guards, `configure_scope`, `bind_client`, `start_session`, `end_session`, switching hubs for a closure or a future | client; sessions |
| Client (`client/mod.rs`) | options, RwLock'ed session flusher and batchers, envelope sender | `capture_event`, `capture_log`, `capture_metric`, `enqueue_session`, `flush`, `close` | flusher, batchers, sender |
| Sessions (`session.rs`) | session: update, dirty flag; flusher: queue of updates, aggregated counts, shutdown flag with condition variable, worker thread | update from event, close, drop; enqueue, flush, interval | client, sender |
| Batcher (`client/batcher.rs`) | queue, shutdown flag with condition variable, worker thread | enqueue, flush, drop, interval | sender |
| Envelope sender (`client/envelope_sender.rs`) | RwLock'ed slot with the transport, client report recorder | send with a closure that makes the envelope, attach the pending report, flush, shut down | transport, client reports |
| Client reports (`client/client_reports/`, `envelope_losses.rs`) | an array of atomic counters and an atomic flag, without a lock | record losses, take the pending report | everybody that loses data |
| Transport thread (`transports/thread.rs`, `tokio_thread.rs`) | bounded channel, shutdown flag, worker, rate limits | send (never blocks), flush (with ack channel), drop (joins) | rate limiter, HTTP |
| Rate limiter (`transports/ratelimit.rs`) | end of the limit of each category | update from response headers, is_disabled, filter | envelope |
| HTTP transports (`curl.rs`, `reqwest.rs`, `ureq.rs`, `embedded_svc_http.rs`) | the HTTP client | one request per envelope, the outcome of which updates limits and losses | server |
| Envelope and protocol types (`sentry-types`) | data | add item, filter, serialise, parse | |
| Performance (`performance/`) | transaction and spans behind mutexes | start, set, finish; sampling; trace headers | client |
| Integrations (`sentry-tracing`, `-opentelemetry`, `-tower`, `-actix`, `-panic`, `-log`, `-slog`, ...) | span maps and guard stacks; otherwise none | callbacks of the foreign libraries | hub |

### What is hard, and what has to be right

* Losses are recorded and drained without locks by any number of threads. Every
  loss must be reported once, under its own category and reason, even if the
  report itself is lost with the envelope it travels in.
* The transport's channel fills up, its worker may be rate limited, stuck in a
  request, panicked, or never started. Senders must not block, every item must be
  settled once, flush must tell the truth and return, drop must end.
* Two kinds of worker threads are shut down by flag, condition variable and join
  while other threads capture, flush and close. Nothing accepted may be lost and
  close must not wait for the interval.
* A session is shared by hubs of several threads, updated in one critical section
  and put into an envelope in another, and ended under two locks.
* Debug logging takes a lock of the hub, wherever it is called from.
* Hubs are switched by guards, for closures and for futures that are polled in
  pieces, by any thread and inside each other. Callbacks of the application run
  with locks held, and the code they call takes locks again.
* Transactions and spans are shared by threads and finished in any order, twice,
  or never; the tracing layer, OpenTelemetry, tower and actix each drive them with
  life cycles of their own, in which futures are dropped and spans exited out of
  order.
* What an event carries and what becomes of it depends on options, environment,
  scope, integrations, callbacks, sampling and session, in a certain order with
  many early returns; each loss has to be counted once.
* Texts of others are parsed: DSNs, headers of requests and answers, envelopes,
  crontab schedules. What is printed has to be read back as the same.

Each of these is an entry of `hazards` in `PROJECT.json`, with the line where it
bites and the property that covers it.

## Modules

| Module | What it is |
|---|---|
| `ClientReports` | the counter array and the flag, one step for every atomic operation; recording, draining, delivery and loss of envelopes with a report in them |
| `LossLedger` | what client reports promise: abstract books of pending and delivered losses; `ClientReports!LedgerSpec` says that the aggregator implements them, with `pending = lost - delivered` |
| `Envelope` | item kinds, rate limiting categories and `Envelope::filter` as operators |
| `TransportThread` | channel, callers, worker loop, rate limits, request outcomes, drop; uses `Envelope` |
| `Batcher` | queue, worker, flush and close under the client's RwLock, transport slot |
| `Sessions` | session cells shared by scopes, capture, the flusher with its queue and counts, close, the hub lock held when a session is dropped |
| `HubStack` | hubs, their stacks under locks, scope guards and hub switch guards, threads and futures, breadcrumbs, capture and close with the callbacks inside |
| `Performance` | contexts, sampling, transactions and spans behind their mutexes |
| `TracingLayer`, `OtelProcessor`, `HttpMiddleware` | the three users of it with state of their own; each extends `Performance` |
| `Spans` | their composition: a behaviour has one driver (`api`, `tracing`, `otel`, `tower`, `actix`); the properties of all of them |
| `Text` | texts as sequences of tokens, and the functions of `str` that are used on them |
| `Dsn`, `TraceHeaders`, `Crontab`, `EnvelopeWire`, `Stacktraces` | parsers, printers and classification as operators |
| `RateLimiter` | the rate limiter's headers and clock |
| `Options` | options, their setters, the environment, defaults |
| `ScopeData`, `EventSources` | what a scope adds to events, logs, metrics and transactions; what errors, panics, and records of log, slog and tracing become |
| `Pipeline` | the composition: an application that initialises the SDK, makes calls, flushes, and drops the guard; `Next` is one action per call |
| `MC*` | the constants of the runs |
| `ClientReports_proofs`, `TransportThread_proofs`, `Sessions_proofs`, `HubStack_proofs` | theorems about the module of that name |
| `Spans_proofs` | lemmas about every call on transactions and spans, the theorem's part that does not depend on who makes it, then the application, the tracing layer, the OpenTelemetry processor and the middleware, and the theorems about `Spans` |
| `Sending_proofs` | theorems about `Batcher` and `RateLimiter`, two parts that know nothing of each other |
| `Pipeline_proofs` | theorems about `Pipeline` and the modules it extends: the fate of every event and the classification of its stack traces |
| `Folds_proofs` | what sums over finite sets and folds over sequences obey; used by `ClientReports_proofs` and `Sessions_proofs`, and by `Sending_proofs` and `Pipeline_proofs`, which instantiate it for each kind of fold |

`Pipeline` has the sequence of steps inside one call and is sequential;
`HubStack`, `Sessions`, `Batcher`, `Spans`, `ClientReports` and `TransportThread`
have the interleavings, with the data of a call abstracted to what they can mix up.
`Batcher` and `Sessions` use the same client lock and transport slot; each has
only its own queue, because `Client::flush` and `close` treat flusher and
batchers one after the other and independently.

### State and code

*ClientReports.* `inner` and `has_reports` are the two fields of
`ClientReportAggregatorInner`. `FetchAdd` and `StoreFlag` are the two atomics of
`record_loss`; `SwapFlag` and one `SwapCounter` per position are the atomics of
`take_pending_report_vec`. `todo`, `cursor` and `report` are the locals of the
thread inside these functions. `lost` and `delivered` are history. The quantities
of an item (what `LossSource::losses` returns) are the constant `Envelopes`.

*TransportThread.* `chan` is the bounded channel of `Task`s, `shutdown` the
AtomicBool, `worker` and `task` the position of the loop and the task in hand,
`rl` the set of categories limited now. A flush has three steps (blocking send of
the request, wait with timeout, return). Its ack channel is named by caller and
round; an answer to a flush that has timed out goes to a closed channel.
`FlushReturn` may fail at any time: that is the timeout. `Init` includes the
thread that could not be spawned (`spawn(..).ok()`). `fate` is history.
The tokio variant has the same control.

*Batcher.* `present` is the client's `Option<Batcher>`, the guards of its RwLock
are told from `pc` (`Reading`, `Writing`): in `close` the write guard is a
temporary that lives until the batcher is dropped. A batch is taken under the
queue's mutex and sent after it, which is two steps. The worker holds the shutdown
mutex except while it waits, so `SetFlag` waits while it is sending; a
notification is lost if the worker does not wait.

*Sessions.* A `cell` is the `Arc<Mutex<Option<Session>>>` of a scope, `scope` what
the top scope of each thread's hub refers to. A session goes with the last
reference or with `end_session`; both happen under the write lock of the hub's
stack (`HoldsStack`). `end_session` moreover keeps the mutex of the cell while the
session is dropped (`CellLocked`). `mode` is the client's option, either one in
`Init`. `FullAtDrop` is a constant that says whether the channel may be full at the
moment a session is dropped; the passing run has it FALSE, and `sessions_full`
shows what happens otherwise. The worker's handshake, which `Batcher` has in
detail, is one step here.

*HubStack.* An actor is the body of a thread or a task (a future with a bound hub,
or a closure given to `Hub::run`); every actor has its own hub, so a hub is named
after it. `layers` are the stacks, `thread_hub` is `THREAD_HUB`, `frames` are the
`SwitchGuard`s alive on a thread (`SwitchTo`, `SwapBack`; a guard for the hub that
is current already swaps nothing), `guards` the `ScopeGuard`s an actor holds, which
survive from one poll to the next. A call that runs a callback has two steps, and
the locks it holds in between are told from `call`: `add_breadcrumb` the write
lock of the stack (`Locked`), `capture_error` its read lock (`Writable`),
captures the read lock of the transport slot, `close` its write lock, and a writer
that waits keeps new readers out, as in the standard library's lock on Linux.
`configure_scope` holds none: it copies, calls and writes back. `Apps` says which
callbacks may call the SDK again and whether clients are closed; in `hub` all of them
may, and clients are. `own` is history: the
stack the actor would have if it were alone, which `EventsUnmixed` compares.

*Performance.* A node is a transaction or a span, in a small set of names. A
transaction's `open` is `inner.transaction.is_some()`; a span's finish has two
steps, the mark under the span's lock and the push under the transaction's
(`FinishSpanStart`, `FinishSpanEnd`). `sent` and `lost` are history. Random
decisions are choices (`Decisions`).

*TracingLayer.* `data` is the hub in `SentrySpanData`, `span_guards` is
`SPAN_GUARDS`. A hub is the thread it comes from and its active span. Spans are
exited in any order, on the thread they were entered on. *OtelProcessor.* `span_map`
is `SPAN_MAP`; OpenTelemetry's own spans (`otel`) are external. *HttpMiddleware.*
`req` is what the future of a request holds; `scope_span` the active span of each
hub. `TowerDrop` puts the span back on whatever hub is current where the future is
dropped, as the code does; `ActixDrop` has no code behind it, and that is the point.

*Pipeline.* `scenario` is what one application is built with: DSN, environment,
options, setters, scope, and the calls it may make. `client` is the bound client,
`sdk` what captures change: the scope, the session, the batches, the losses pending,
and the envelopes handed to the transport (`outbox`); `fates` and `trail` are
history. A field of a `tracing` event is the kind of its value. Global functions run only with an active client (`WithActive`), methods of
`Hub` always (`CallHub`, `CallLogger`, `CallPanic`). `PrepareEvent` is the chain of
`prepare_event`; event ids are numbers. `Deliver` is one request, of
what the rate limiter's filter makes of the envelope with no limit in force
(`FilterEnvelope`, without the trace header), whole or cut anywhere, and its reader; `ContinueTrace` and `MakeSchedule` are the headers and
schedules an application meets, and `RateLimiter!Answer` the answers its transport
gets. `limits` is the struct of `ratelimit.rs`, `now` the clock in seconds, and an
answer carries beside its text what the server meant (`asks`), which the property
goes by.

## Runs

| Run | Instance | Shows |
|---|---|---|
| `client_reports` | 2 threads, 2 categories, 2 reasons, 2 losses | `NoStrandedLoss`, `BooksBalance`, refinement of `LossLedger`, `AllReported` |
| `transport_thread` | 2 callers (2 and 1 flushes), 2 envelopes, channel of 2 | `FlushTruthful`, `AllAccounted`, `SettledOnce`, `RespectsLimits`, `FlushReturns`, `DropEnds` |
| `batcher` | 2 threads, 3 items, batches of 2, 2 calls of flush or close | `NothingLost`, `CloseSendsAll`, `FlushLeavesNone`, `CloseEnds`, `EventuallySent` |
| `sessions` | 2 threads, 2 sessions of one user, 1 event, 1 flush or close, envelopes of 2, both modes | `TypeOK`, `OneInitOneEnd`, `LastWord`, `NoUpdateLost`, `EndReported` |
| `hub` | 2 threads, 2 futures, 1 client, 4 calls, nesting of 2, 1 breadcrumb | `TypeOK` (with the bound of breadcrumbs), `EventsUnmixed`, `GuardsInOrder` (with `CurrentHub`), `CallsReturnUnlessReentered` |
| `spans` | 5 drivers, 2 threads, 2 requests, 3 transactions and spans, `MaxSpans` 0, 2 incoming headers, sampling always or by function, strict or not, with and without an organisation | `SettledOnce` (with `NothingVanishes`, `SpanLimit`), `TraceTree` (with `ForeignTraces`), `CurrentSpan`, `SpanMapMatches`, `RequestsSettled`, `RequestsIsolated` |
| `pipeline` | about 2300 applications in 13 families, 2 inits, 3 calls | `OneFate` (with `LastIdWasSent`, `PanicReportedOnce`), `SessionCounts`, `InAppDecided`, `Precedence` (with `AttributesKept`), `OneTrace` (with `LastValidHeader`), `RequestMatchesDsn` (with `DsnRoundTrip`), `ReadBack`, `CrontabGrammar`, `RecordsShown` (with `BreadcrumbTrail`), `LimitsAsAsked` |

The `TypeOK` of `ClientReports`, `TransportThread` and `Batcher` is proved. The
inductive invariants named under Proofs hold in these instances too (`IInv` of `Spans`
can be added to the invariants of `Spans.cfg`). Five runs show a disagreement between the code and what the repository says:

| Run | Shows |
|---|---|
| `transport_thread_hung` | `flush` has a timeout for the answer only: with a full channel and a server that does not answer it blocks in the send before |
| `transport_thread_trace` | `Envelope::filter` rebuilds every envelope without its trace header |
| `sessions_full` | the end of a session that fills the flusher's queue, with a full transport, logs under the write lock of its own hub: a self-deadlock |
| `hub_reentrant` | a callback that calls the SDK while its own thread holds the lock of the stack (`before_breadcrumb`, or `before_send` inside `capture_error`) never returns |
| `tracing_fields` | a `tracing` event whose message is looked for in a field (`message`, or else `error`) that holds a number or boolean becomes an event and a log that show the field nowhere; an error there is missing in the log |

Two of the passing properties are what is left beside these.

`CallsReturnUnlessReentered` says that every call returns or is `Stuck`, of which there
are two ways. One is `hub_reentrant`: the callback has called the SDK under the lock of
its own thread's stack. The other needs two threads: a `before_send` callback captures
(`is_occupied`, `envelope_sender.rs:162`) under the transport slot's read lock (`:189`)
while another thread closes the client and waits in between for the write lock (`:210`);
neither goes on, and the timeout of `Client::close` does not help, as it counts from the
transport's shutdown. `HubReentrant.cfg` with `Apps <- MCClosing` shows this one. The
applications of `hub` do both, so the system may stop there, and deadlock is not checked.

`RecordsShown` lets a field be missing that holds a number or boolean where the message is
looked for (`MessageSource`), and nothing else: this is `tracing_fields`.

`FlushLeavesNone` is what `Client::flush` does promise of batches: when it returns,
what was captured before is with the transport or in the hands of a thread that is
sending it. Another thread's batch may still be in hand, so flush is no barrier.

### What the parsers are checked against

`DsnRoundTrip` reads a DSN's text again; `RequestMatchesDsn` compares the request
with the text itself, split at its slashes, and reads the authentication header
back. `ReadBack` reads an envelope from all of its prefixes, with attachments that
hold newlines and headers of items. `CrontabGrammar` compares the validator with the
set of all texts the grammar generates, for texts of up to five tokens in two of the
segments. `LastValidHeader` (of the trace and of the organization) and `LimitsAsAsked` compare a loop over headers with
what the last word of the sender was.

### Why the bounds are enough

*ClientReports*: four counters let a drainer be before, at or behind the counter a
recorder raises; two losses let a report be lost with its envelope and be
recorded again; one of the envelopes has two categories, one has quantity 0.
*TransportThread*: with a channel of two, full and empty channels, a flush between
envelopes and overflow happen; two flushes by one caller are what a stale answer
needs. *Batcher*: three items fill one batch of two and leave one; two calls let
flush and close, or two closes, overlap. *Sessions*: two sessions fill a queue of
two, two threads can share a cell, and the update of one thread can be carried by
the envelope of the other. *HubStack*: two futures can be polled inside each other
and on both threads, and four calls are enough for a scope to be pushed, configured,
captured from and disturbed. *Spans*: with `MaxSpans` 0 a transaction holds one span
and the second is one too many; three nodes make a transaction, a child and a
grandchild, or two transactions; two requests can disturb each other. The tracing
layer has the most states per node, so its client has one set of options.
*Pipeline*: a family varies what one group of properties is about and keeps the rest
fixed; three calls let an event follow a crash or a loss be reported by a later
envelope, two inits let hooks and sessions meet; two answers with two groups each
are the shortest history in which one limit replaces, shadows or outlives another.
All bounds are named: `MaxLosses`, `MaxFlush`, `MaxCalls`, `MaxEvents`, `MaxDepth`,
`MaxEntered`, `MaxInits`, `MaxAnswers`, `MaxNow`. Symmetry is used in `spans`, whose
properties are invariants and treat all threads, requests
and nodes alike.

### Fairness

A thread inside a call of the SDK goes on with it (weak fairness of its steps):
the operating system schedules it. Calls themselves are the application's choice
and are never assumed, except in `client_reports`, where a report travels only
with an envelope and `AllReported` therefore assumes that threads keep sending and
that envelopes are lost finitely often. `WF(Network)` in `TransportThread` says
that every request ends: this is an assumption on the HTTP library and the server,
as the code sets no request timeout, and `HungServerSpec` leaves it out. A flush
that waits for room gets it because flushes and envelopes are finite (the
standard library also serves waiting senders in order). `SF(SetFlag)` and
`SF(CloseJoin)`: the worker gives the shutdown mutex up for a whole interval
between two batches. That the interval ends (`IntervalEnds`) is the premise of
`EventuallySent` only; `CloseEnds` does not need it, which is the point of the
notification. In `Sessions` the interval is part of `WF(WorkerStep)`.
In `HubStack` a thread inside a call goes on with it and callbacks return
(`WF(Finish(t))`); that a lock is free when it is wanted is what `CallsReturnUnlessReentered`
checks, not what it assumes. `Spans` and `Pipeline` have no liveness: nothing there
waits.

## Proofs

All from the named assumptions on the constants, for any number of threads,
hubs, sessions, requests, transactions and envelopes. The assumptions say that sizes
are positive (`CapacityAssumption`, `MaxItemsAssumption`, `CountsAssumption`, ...),
that envelopes are made of items, each of its own envelope (`ContentsAssumption`,
`OwnItems`), that `None`, `NoHub`, `Remote` and the worker are not among what they
stand apart from (`NamesAssumption`, `UpdateAssumption`, `NodesAssumption`,
`HeadersAssumption`, `StatusesAssumption`), and, where something is summed over
them, that there are finitely many threads (`ThreadsAssumption`). For `Pipeline` they
say that options, setters, scopes and events have the fields of their types, and that a
new event has no id yet (`ScenariosAssumption`, with `OptionsOk`, `SetterOk`, `ScopeOk`
and `CallOk`), that stack traces captured at run time are made of frames
(`TracesAssumption`), that ids do not contain the separators of a header
(`IdsAssumption`), that absence is no reason for a loss
(`ReasonsAssumption`), that the clock ends after every limit that can be asked for and
that numbers, dates and separators are different texts (`LimiterAssumption`), and that
what an answer of the server asks for is what its text says (`AnswersAssumption`,
with `Asks` reading the text by the places of its separators, as the model's parser
does not). Bounds such as `MaxFlush`, `MaxCalls` or `MaxEntered` may have any value.

* `ClientReports_proofs`
  * `NothingStranded`: `NoStrandedLoss` is inductive with `TypeOK`. A nonzero counter
    is covered by the flag, by a recorder between its two atomics, or by a drainer
    that has not come to it. A counter that is swapped is 0 afterwards, the flag goes
    down only when a drainer starts at 0, and a recorder leaves `store` by putting
    the flag up. `IndexInSlots`, `PairOfIndex` and `IndexOfPair` are the arithmetic
    of `category * NR + reason`.
  * `BooksAlwaysBalance`: `BooksBalance` is inductive with `HandsClean` (a thread's
    list and report are empty outside the calls that fill them, so no call overwrites
    what an earlier one left). Each step moves a quantity from one term of the sum to
    another.
  * `ImplementsLedger`: every initial state is one of `LossLedger`, and every step is
    a step of it or leaves it alone, with `BooksBalance` for a step's guard.
* `TransportThread_proofs`
  * `FlushIsTruthful`: `FlushTruthful` is not inductive; it follows from `FlushOrder`,
    the conjunction of `KnownSent` (what a flush waits for and what is pending was
    sent, so that a later send is not among it), `RoundsStarted` and
    `BlockedNotAsked` (the ack channel of a starting flush is unused),
    `BehindPending` (the request of a waiting flush is behind all it waits for) and
    `AnsweredAfter` (once it is received, all of that is gone).
  * `EverythingAccounted`: `AllAccounted` with `Custody`: a queued envelope is in one
    place only, its items have no fate there (`OnePlace`, `Unsettled`), what is sent is
    of the envelope in hand (`SendsItsTask`), and the shutdown task is never without
    the flag (`FlagFirst`).
  * `FatesAreFinal`, `LimitsRespected`: the action properties `SettledOnce` and
    `RespectsLimits`, the first from `Custody`.
* `Sending_proofs`
  * `NoItemLost`, `CloseLeavesNothing`: `NothingLost` needs `Fresh` (captured items
    are new) and `CloseOrder`: the write guard excludes everyone else until worker
    and queue are done, and only then the slot is emptied.
  * `FlushIsComplete`: `FlushLeavesNone` from those and `FlushProgress`: what a flush
    found accepted is out of the queue for good once it has taken the queue.
  * `LimitsObeyed`: `LimitsAsAsked`, of every behaviour of the limiter's own clock and
    answers (`LimiterSpec`). `InvLimits` says that the limits are what all orders
    of the answers make of none at all (`Applied`); it is kept because the parser finds in
    a header the orders its text states. The header is one text, joined with commas and
    split again at commas, colons and semicolons, each a fold with an invariant about
    the pieces found so far.
* `Sessions_proofs`
  * `LastWordTrue`, `OneInitOneEndHolds`: neither property is inductive; `Life` says
    how a session's cell, the errors captured and the updates made of it agree: it is
    first until something was made of it, and its end has been made exactly when it is
    over and not dirty. `Life` speaks of one session and says nothing of threads, so one
    lemma for each thing that happens to a cell (`LifeStarts`, `LifeCaptures`,
    `LifeReports`, `LifeEnds`) keeps it whatever the others do.
  * `UpdatesAccounted`: `NoUpdateLost` with `Tracked`: what is queued or in an envelope
    was made and is not itself counted, the end in a thread's hands is nobody else's,
    and only the first envelope of a flush has counts.
* `HubStack_proofs`
  * `ScopesKeptApart`, `EventsStayUnmixed`: `Apart` says that an actor runs on one
    thread at most, that each frame remembers the hub below it, and that a call is for
    the current hub of its thread; `Mirrored` that each hub's stack is what its actor
    alone would have made, with one layer for each guard (`Stacked`), and that the
    scope copied by `configure_scope` is still on top. Polling, callbacks and
    switch guards disturb the first, calls the second.
* `Spans_proofs`
  * `Inductive`: `IInv` in its parts.
    `Accounted`: the types; a span between its two locks is marked by one thread
    (`Marked`); a transaction has collected only finished spans of its own, one more
    than `MAX_SPANS` at most (`Collected`); what was sent and what was counted is what
    the records say (`SentMatches`, `LostMatches`). `Branches` and `ForeignTraces` are
    about traces. `Driven` is about the state of whoever makes the calls: `Rooted` and
    `Nested` for the tracing layer (the spans entered have guards of their own, in the
    order of entering, and each guard restores the hub of the span entered before it),
    `Mirrors` for the OpenTelemetry processor, `Served` for the middleware.
  * Its first part reduces every call to one of five kinds of step on the records
    (`StartedStep`, `TouchedStep`, `EndedStep`, `PushedStep`, `MarkingStep`) and proves
    `Accounted`, `Branches` and `ForeignTraces` for each; the users' part is proved from
    what such a step keeps: `Grows` (what was started keeps its kind, parent, trace and
    decision, the theorem `IdentityIsKept`) and `Others` (no other transaction or span
    is opened, closed or finished).
  * `EachSettledOnce`, `TracesAreTrees`, `ActiveSpanIsCurrent`, `SpanMapTrue`,
    `RequestsGetAnswers`, `RequestsKeptApart`: the invariants of the run, from `IInv`.
    `CurrentSpan` speaks of threads that exit in reverse order, and `RequestsIsolated`
    of hubs under which no future was dropped, because the code promises no more.
* `Pipeline_proofs`
  * `LimiterWorks`: `LimiterSpec`, so that `LimitsObeyed` is about every application.
  * `EveryEventHasOneFate`: `OneFate`, with `LastIdWasSent` and `PanicReportedOnce`, from
    `AccountHolds`. `OneFate` alone is not inductive. `Account` adds that every sent event
    is what scope, integrations and options make of the value of the call its fate
    names (`Sents`), that the losses in the reports sent, those pending and those that a
    replaced client left are together the losses among the fates (`Losts`), that ids grow
    (`IdsOk`), which makes the sent one of each id the only one, that the last id is that
    of the last fate (`LastOk`), that the scope is the application's but for its
    breadcrumbs, and that each client has the options which the setters, the defaults
    and the environment make (`BuiltOk`, `SetUpOk`). One lemma for each kind of call says
    what becomes of this ledger.
  * `TracesClassified`: `InAppDecided`, from `Account`, which says that an event sent is what
    the pipeline made of the value of a call. Such a value comes from one of the sources
    (`SourceHalves`): no frame has a mark but those of the application's own event. Of the
    default integrations those before `process-stacktrace` change traces only by adding one
    without marks, which `process-stacktrace` then classifies (`ProcessHalf`). An integration
    of the application's, added later, keeps what was decided, the same one again included
    (`GoodStaysGood`, `StepGood`): what is taken off a function's text does not hide a
    pattern of `in_app_include`, unless the pattern itself begins with it, which is why the
    property speaks of `Bare` patterns only. Scope and options touch no trace
    (`AroundTraces`).
* `TypeCorrect` in each but the last two (of `Sending_proofs`, the batcher's); for `HubStack` it includes that no layer holds
  more than `MaxBreadcrumbs`.

Sums and what runs through a sequence are folds. An induction over data would need an
operator as parameter; `Folds_proofs` therefore goes through the well-foundedness of
strict inclusion: it shows that the recursion of a fold defines one function, and from
that that an element can be taken out of a sum, that a sum changes by what one value
changes, that the sum over a sequence splits, that a fold over a longer sequence is one
step more (`FoldAppend`), and that what each step keeps holds of the whole
(`FoldInduction`). The step and what it keeps are constant operators of that module, and
each fold of `Pipeline` and of the rate limiter is an instance of it.

Only model-checked, and why:

* Liveness (`AllReported`, `FlushReturns`, `DropEnds`, `CloseEnds`, `EventuallySent`,
  `EndReported`, `CallsReturnUnlessReentered` and the liveness that the violating runs refute): it
  rests on fairness and on `ENABLED`, which the prover has no rules for.
* The other properties of `pipeline`. `RequestMatchesDsn`, `ReadBack` and
  `CrontabGrammar` are about what a parser makes of every text. `SessionCounts`,
  `Precedence`, `OneTrace` and `RecordsShown` follow what one field
  becomes on its way, and depend on what the application puts into its events and scopes.

## What is not modelled

* Atomics are sequentially consistent here, while `inner.rs` uses relaxed
  increments and acquire/release on the flag. When two recorders store the flag one
  after the other (`inner.rs:24`), a drainer that reads the second store does not
  synchronise with the first recorder, whose addition may come after the drainer's
  swap: the loss then waits in its counter until the next one raises the flag.
* Times, except for the rate limiter: intervals and timeouts end at any moment, and
  limits in `TransportThread` too.
* In `Sessions` each thread has a hub of its own and one scope; a session referred
  to from lower layers of the stack is left out. In `HubStack` clients live as long
  as their guard, so `bind_client` never drops one (hazard at `hub_impl.rs:214`), and
  no two actors use one hub at the same time, which `configure_scope` forbids.
* Several transport slots on one transport (`clone_with_new_transport_slot`).
* The builds without the feature `client`, whose functions do nothing.
* Contents of events beyond the fields somebody reads or competes for: the derived
  serialisation of the protocol types, names and descriptions of spans, request
  bodies, the contexts of operating system and device, debug images and the
  symbolication of stack traces. They are data without control, or I/O.
* The HTTP libraries, `url`, `serde_json`, `tracing`, `opentelemetry`, `tower` and
  `actix-web`: external, and modelled by how the code uses them.

`PROJECT.json` lists what is left out component by component.

## Plan

Written first, in this order: `ClientReports` with `LossLedger`; `Envelope` and
`TransportThread`; `Batcher`; `Sessions`. Then `HubStack`; `Performance` with its
three users and `Spans`; the parsers; `Options`, `ScopeData`, `EventSources` and
`Pipeline`; `RateLimiter`. Left:

1. `EnvelopeSender` with several slots on one transport.
2. A client dropped by `bind_client` under the lock of the stack.
3. From `Account`: `Precedence`, `OneTrace` and `SessionCounts` for all events and scopes.
