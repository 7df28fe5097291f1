------------------------------- MODULE HubStack -------------------------------
(***************************************************************************)
(* Hubs, their stacks of scopes and the thread-local current hub           *)
(* (sentry-core hub.rs, hub_impl.rs, scope/real.rs, futures.rs, api.rs).   *)
(*                                                                         *)
(* Code runs as one of several actors: the body of a thread, or a task,    *)
(* which is a future with a hub bound to it (SentryFuture) or a closure    *)
(* given to Hub::run.  A task is polled by any thread, in pieces, possibly *)
(* inside a piece of another task, and keeps its scope guards between the  *)
(* pieces.  Every actor has a hub of its own, as the documentation asks    *)
(* for, so a hub is named after its actor; Hub::main() is that of Main.    *)
(*                                                                         *)
(* The calls into user code (the closure of configure_scope,               *)
(* before_breadcrumb, before_send) are steps of their own, with the locks  *)
(* held that the code holds there.                                         *)
(***************************************************************************)
EXTENDS SequencesExt, Naturals

CONSTANTS
  Threads,         \* threads that use the SDK
  Main,            \* the one on which PROCESS_HUB is initialised
  Tasks,           \* futures with a hub, and closures given to Hub::run
  Clients,         \* clients bound to hubs, kept alive by their ClientInitGuard
  NoClient,        \* Option::None of a client
  NoHub,           \* no hub yet, or no hub to restore
  MaxBreadcrumbs,  \* options.max_breadcrumbs
  Apps,            \* kinds of applications: which callbacks call the SDK again, and
                   \* whether clients are closed while other code uses them
  MaxCalls,        \* bound: calls the actors make altogether
  MaxDepth         \* bound: nesting of frames on a thread and of scopes

ASSUME MainAssumption == Main \in Threads
ASSUME BoundsAssumption == MaxBreadcrumbs \in Nat /\ MaxCalls \in Nat /\ MaxDepth \in Nat
ASSUME AppsAssumption ==
  Apps \subseteq [nests : SUBSET {"add_breadcrumb", "capture", "capture_error"}, closes : BOOLEAN]
ASSUME NamesAssumption ==
  /\ Threads \cap Tasks = {}
  /\ NoHub \notin Threads \cup Tasks /\ NoClient \notin Clients

VARIABLES
  layers,         \* layers[h]: the stack of hub h, its top last; empty before it exists
  last_event_id,  \* last_event_id[h]: who captured the last event on h
  thread_hub,     \* THREAD_HUB of each thread
  frames,         \* frames[t]: the switch guards alive on thread t, with the code they cover
  guards,         \* guards[a]: the scope guards actor a holds, the newest last
  call,           \* the call of the SDK each thread is in
  slot,           \* the clients whose transport slot is occupied
  calls,          \* number of calls made
  app,            \* the kind of application this is
  own,            \* history: the stack actor a would have if it were alone
  mixed,          \* history: actors whose event was not made from their own scope
  panicked        \* history: actors that dropped a scope guard out of order

vars == <<layers, last_event_id, thread_hub, frames, guards, call, slot, calls,
          app, own, mixed, panicked>>
history == <<app, own, mixed, panicked>>

Actors == Threads \cup Tasks
Hubs   == Actors

\* The user code that runs on thread t now.
Actor(t) == IF frames[t] = <<>> THEN t ELSE Last(frames[t]).actor

EmptyScope == [tags |-> {}, breadcrumbs |-> <<>>]
Idle       == [op |-> "none"]
Captures   == {"capture", "capture_error"}

\* What a scope does with a layer's breadcrumbs: the newest ones are kept.
Newest(crumbs, n) == SubSeq(crumbs, IF Len(crumbs) > n THEN Len(crumbs) - n + 1 ELSE 1, Len(crumbs))

\* The layer an event should be made from, if the actor shared nothing.
Trimmed(layer) == [layer EXCEPT !.scope.breadcrumbs = Newest(@, MaxBreadcrumbs)]
Intended(a) == Trimmed(Last(own[a]))

\* Mutant: configure_scope keeps the lock during its closure, and takes it again.
Locked_Configuring(h) ==
  \E t \in Threads : call[t].op \in {"add_breadcrumb", "configure"} /\ call[t].hub = h

\* The write lock of a stack is held while before_breadcrumb runs.
Locked(h)  == \E t \in Threads : call[t].op = "add_breadcrumb" /\ call[t].hub = h
\* capture_error keeps the read lock while the event is captured; writers wait.
Writable(h) == ~Locked(h) /\ \A t \in Threads : call[t].op = "capture_error" => call[t].hub # h
\* A waiting writer of a transport slot keeps new readers out.
Closing(c) == \E t \in Threads : call[t].op = "close" /\ call[t].client = c
Sending(c) == \E t \in Threads : call[t].op \in Captures /\ call[t].layer.client = c

Top(h) == Last(layers[h])
OnTop(stack, layer) == [stack EXCEPT ![Len(stack)] = layer]

\* Hub::is_active_and_usage_safe: it waits for the stack and for the slot.
Readable(h) == /\ ~Locked(h)
               /\ Top(h).client # NoClient => ~Closing(Top(h).client)
Active(h)   == Top(h).client \in slot

\* Thread t, in no call, makes one on its current hub.
Calls(t) == /\ call[t] = Idle /\ thread_hub[t] # NoHub
            /\ calls < MaxCalls /\ calls' = calls + 1

Init ==
  /\ \E c \in Clients :      \* sentry::init has bound a client on the main thread
       layers = [h \in Hubs |-> IF h = Main THEN <<[client |-> c, scope |-> EmptyScope]>>
                                            ELSE <<>>]
  /\ last_event_id = [h \in Hubs |-> NoHub]
  /\ thread_hub = [t \in Threads |-> IF t = Main THEN Main ELSE NoHub]
  /\ frames = [t \in Threads |-> <<>>]
  /\ guards = [a \in Actors |-> <<>>]
  /\ call = [t \in Threads |-> Idle]
  /\ slot = Clients /\ calls = 0 /\ app \in Apps
  /\ own = layers /\ mixed = {} /\ panicked = {}

-----------------------------------------------------------------------------
(* The current hub of a thread and who changes it.                         *)

\* Hub::new_from_top: hub h gets the top layer of hub `from`, and nothing else.
NewFromTop(h, from) == layers' = [layers EXCEPT ![h] = <<Top(from)>>]

\* The first use of THREAD_HUB on a thread other than the main one.
FirstUse(t) ==
  /\ thread_hub[t] = NoHub /\ ~Locked(Main)
  /\ thread_hub' = [thread_hub EXCEPT ![t] = t]
  /\ NewFromTop(t, Main)
  /\ own' = [own EXCEPT ![t] = <<Top(Main)>>]
  /\ UNCHANGED <<last_event_id, frames, guards, call, slot, app, calls, mixed, panicked>>

\* An actor makes a task: bind_hub or Hub::run with a hub new_from_top of its own.
Spawn(t, f) ==
  LET h == thread_hub[t] IN
  /\ layers[f] = <<>> /\ Calls(t) /\ ~Locked(h)
  /\ NewFromTop(f, h)
  /\ own' = [own EXCEPT ![f] = <<Last(own[Actor(t)])>>]
  /\ UNCHANGED <<last_event_id, thread_hub, frames, guards, call, slot, app, mixed, panicked>>

Polled(f) == \E t \in Threads : \E n \in 1 .. Len(frames[t]) : frames[t][n].actor = f

\* SwitchGuard::new, and the code that runs until the guard is dropped.
SwitchTo(t, hub, actor) ==
  /\ frames' = [frames EXCEPT ![t] = Append(@, [actor |-> actor,
                    inner |-> IF hub = thread_hub[t] THEN NoHub ELSE thread_hub[t],
                    held |-> Len(guards[actor])])]
  /\ thread_hub' = [thread_hub EXCEPT ![t] = hub]

\* SentryFuture::poll, or the call of Hub::run: the task goes on, on this thread.
Poll(t, f) ==
  /\ layers[f] # <<>> /\ ~Polled(f)
  /\ call[t] = Idle /\ thread_hub[t] # NoHub /\ Len(frames[t]) < MaxDepth
  /\ SwitchTo(t, f, f)
  /\ UNCHANGED <<layers, last_event_id, guards, call, slot, calls, history>>

\* Hub::run(Hub::current(), ..): the same actor goes on in the closure.
RunHere(t) ==
  /\ Calls(t) /\ Len(frames[t]) < MaxDepth
  /\ SwitchTo(t, thread_hub[t], Actor(t))
  /\ UNCHANGED <<layers, last_event_id, guards, call, slot, history>>

\* Mutant: the guard restores the hub of the thread and not the previous one.
SwapBack_ToThread(t, inner) == t

\* SwitchGuard::drop.
SwapBack(t, inner) == IF inner = NoHub THEN thread_hub[t] ELSE inner

\* The poll or the closure returns.  A future may keep its scope guards, a
\* closure has dropped those it took.
Leave(t) ==
  LET frame == Last(frames[t]) IN
  /\ frames[t] # <<>> /\ call[t] = Idle
  /\ frame.inner = NoHub => Len(guards[frame.actor]) = frame.held
  /\ frames' = [frames EXCEPT ![t] = Front(@)]
  /\ thread_hub' = [thread_hub EXCEPT ![t] = SwapBack(t, frame.inner)]
  /\ UNCHANGED <<layers, last_event_id, guards, call, slot, calls, history>>

-----------------------------------------------------------------------------
(* Scopes.                                                                 *)

\* Stack::depth after Stack::push, the number of layers below the new top.
GuardDepth(stack) == Len(stack)

\* Hub::push_scope, also the first half of with_scope.
PushScope(t) ==
  LET h == thread_hub[t] a == Actor(t) IN
  /\ Calls(t) /\ Writable(h) /\ Len(layers[h]) <= MaxDepth
  /\ layers' = [layers EXCEPT ![h] = Append(@, Top(h))]
  /\ guards' = [guards EXCEPT ![a] = Append(@, [hub |-> h, depth |-> GuardDepth(layers[h])])]
  /\ own' = [own EXCEPT ![a] = Append(@, Last(@))]
  /\ UNCHANGED <<last_event_id, thread_hub, frames, call, slot, app, mixed, panicked>>

\* ScopeGuard::drop: the layer is popped first, and then the depth compared.
\* The guards of one actor go in the order the language drops them.
DropScopeGuard(t) ==
  LET a == Actor(t) guard == Last(guards[a]) IN
  /\ guards[a] # <<>> /\ call[t] = Idle /\ Writable(guard.hub)
  /\ frames[t] # <<>> /\ Last(frames[t]).inner = NoHub
       => Len(guards[a]) > Last(frames[t]).held
  /\ guards' = [guards EXCEPT ![a] = Front(@)]
  /\ layers' = [layers EXCEPT ![guard.hub] = IF Len(@) > 1 THEN Front(@) ELSE @]
  /\ panicked' = IF Len(layers[guard.hub]) - 1 # guard.depth
                 THEN panicked \cup {a} ELSE panicked
  /\ own' = [own EXCEPT ![a] = IF Len(@) > 1 THEN Front(@) ELSE @]
  /\ UNCHANGED <<last_event_id, thread_hub, frames, call, slot, app, calls, mixed>>

\* What the closure given to configure_scope does: set or remove, clear some or all.
Edits == {"set", "remove", "clear_breadcrumbs", "clear"}
Edit(scope, edit, a) ==
  CASE edit = "set"               -> [scope EXCEPT !.tags = @ \cup {a}]
    [] edit = "remove"            -> [scope EXCEPT !.tags = @ \ {a}]
    [] edit = "clear_breadcrumbs" -> [scope EXCEPT !.breadcrumbs = <<>>]
    [] edit = "clear"             -> EmptyScope
Edited(layer, edit, a) == [layer EXCEPT !.scope = Edit(@, edit, a)]

\* configure_scope, first half: a copy of the top scope, no lock kept.
ConfigureScope(t) ==
  LET h == thread_hub[t] IN
  /\ Calls(t) /\ Readable(h) /\ Active(h)
  /\ call' = [call EXCEPT ![t] = [op |-> "configure", hub |-> h, scope |-> Top(h).scope]]
  /\ UNCHANGED <<layers, last_event_id, thread_hub, frames, guards, slot, history>>

\* Mutant: the copy goes to the base layer of the stack.
WriteBack_Base(h, scope) ==
  layers' = [layers EXCEPT ![h] = [@ EXCEPT ![1] = [@ EXCEPT !.scope = scope]]]

\* with_current_scope_mut(|ptr| *ptr = new_scope)
WriteBack(h, scope) ==
  layers' = [layers EXCEPT ![h] = OnTop(@, [Top(h) EXCEPT !.scope = scope])]

\* Second half: the copy replaces what is then the top scope.
ConfigureScopeEnd(t) ==
  LET c == call[t] a == Actor(t) IN
  /\ c.op = "configure" /\ Writable(c.hub)
  /\ \E edit \in Edits :
       /\ WriteBack(c.hub, Edit(c.scope, edit, a))
       /\ own' = [own EXCEPT ![a] = OnTop(@, Edited(Last(@), edit, a))]
  /\ call' = [call EXCEPT ![t] = Idle]
  /\ UNCHANGED <<last_event_id, thread_hub, frames, guards, slot, app, calls, mixed, panicked>>

\* add_breadcrumb: before_breadcrumb is about to run, under the write lock.
AddBreadcrumb(t) ==
  LET h == thread_hub[t] IN
  /\ Calls(t) /\ Readable(h) /\ Writable(h) /\ Active(h)
  /\ call' = [call EXCEPT ![t] = [op |-> "add_breadcrumb", hub |-> h, nested |-> "no"]]
  /\ UNCHANGED <<layers, last_event_id, thread_hub, frames, guards, slot, history>>

\* Mutant: the oldest breadcrumb makes room only when one more than allowed is there.
Pushed_OneLate(crumbs, a) == Newest(Append(crumbs, a), MaxBreadcrumbs + 1)

\* push_back, and pop_front until there are no more than max_breadcrumbs.
Pushed(crumbs, a) == Newest(Append(crumbs, a), MaxBreadcrumbs)
WithCrumb(layer, a) == [layer EXCEPT !.scope.breadcrumbs = Pushed(@, a)]

\* What the actor would have alone is all of its breadcrumbs.
Extended(layer, a) == [layer EXCEPT !.scope.breadcrumbs = Append(@, a)]

\* before_breadcrumb returns: the breadcrumb is kept or dropped, and the lock released.
AddBreadcrumbEnd(t) ==
  LET c == call[t] a == Actor(t) IN
  /\ c.op = "add_breadcrumb" /\ c.nested # "yes"
  /\ \/ /\ layers' = [layers EXCEPT ![c.hub] = OnTop(@, WithCrumb(Top(c.hub), a))]
        /\ own' = [own EXCEPT ![a] = OnTop(@, Extended(Last(@), a))]
     \/ UNCHANGED <<layers, own>>
  /\ call' = [call EXCEPT ![t] = Idle]
  /\ UNCHANGED <<last_event_id, thread_hub, frames, guards, slot, app, calls, mixed, panicked>>

\* bind_client on the current hub.  The old client lives on with its init guard.
BindClient(t, c) ==
  LET h == thread_hub[t] a == Actor(t) IN
  /\ Calls(t) /\ Writable(h)
  /\ layers' = [layers EXCEPT ![h] = OnTop(@, [Top(h) EXCEPT !.client = c])]
  /\ own' = [own EXCEPT ![a] = OnTop(@, [Last(@) EXCEPT !.client = c])]
  /\ UNCHANGED <<last_event_id, thread_hub, frames, guards, call, slot, app, mixed, panicked>>

-----------------------------------------------------------------------------
(* Capturing and closing.                                                  *)

\* capture_event and capture_error: the top layer is copied, and with the slot's read
\* guard in hand the event is prepared from it, which runs processors and before_send.
CaptureEvent(t, op) ==
  LET h == thread_hub[t] IN
  /\ Calls(t) /\ Readable(h) /\ Active(h)
  /\ call' = [call EXCEPT ![t] = [op |-> op, hub |-> h, nested |-> "no", layer |-> Top(h)]]
  /\ mixed' = IF Top(h) = Intended(Actor(t)) THEN mixed ELSE mixed \cup {Actor(t)}
  /\ UNCHANGED <<layers, last_event_id, thread_hub, frames, guards, slot, app, own, panicked>>

\* The event is sent or dropped; either way the hub remembers its id.
CaptureEventEnd(t) ==
  /\ call[t].op \in Captures /\ call[t].nested # "yes"
  /\ last_event_id' = [last_event_id EXCEPT ![call[t].hub] = Actor(t)]
  /\ call' = [call EXCEPT ![t] = Idle]
  /\ UNCHANGED <<layers, thread_hub, frames, guards, slot, calls, history>>

\* Client::close, called by its init guard or by the user: it waits for the
\* write lock of the transport slot.
Close(t, c) ==
  /\ Calls(t) /\ app.closes /\ c \in slot
  /\ call' = [call EXCEPT ![t] = [op |-> "close", client |-> c]]
  /\ UNCHANGED <<layers, last_event_id, thread_hub, frames, guards, slot, history>>

CloseEnd(t) ==
  /\ call[t].op = "close" /\ ~Sending(call[t].client)
  /\ slot' = slot \ {call[t].client}
  /\ call' = [call EXCEPT ![t] = Idle]
  /\ UNCHANGED <<layers, last_event_id, thread_hub, frames, guards, calls, history>>

-----------------------------------------------------------------------------
(* User code called back by the SDK that calls the SDK itself, for example *)
(* because it logs.                                                        *)

Nested(t) ==
  /\ call[t].op \in app.nests /\ call[t].nested = "no"
  /\ call' = [call EXCEPT ![t].nested = "yes"]
  /\ UNCHANGED <<layers, last_event_id, thread_hub, frames, guards, slot, calls, history>>

\* Hub::with_active reads the stack and the slot, and a breadcrumb writes the stack:
\* this thread has locked it (before_breadcrumb), reads it (before_send under
\* capture_error), or only reads the slot (before_send under capture_event).
NestedEnd(t) ==
  /\ call[t].op \in app.nests /\ call[t].nested = "yes" /\ Readable(call[t].hub) /\ Writable(call[t].hub)
  /\ call' = [call EXCEPT ![t].nested = "done"]
  /\ UNCHANGED <<layers, last_event_id, thread_hub, frames, guards, slot, calls, history>>

-----------------------------------------------------------------------------
Start(t) == \/ PushScope(t) \/ ConfigureScope(t) \/ AddBreadcrumb(t)
            \/ \E op \in Captures : CaptureEvent(t, op)
            \/ \E c \in Clients \cup {NoClient} : BindClient(t, c)
            \/ \E c \in Clients : Close(t, c)
Finish(t) == \/ ConfigureScopeEnd(t) \/ AddBreadcrumbEnd(t) \/ CaptureEventEnd(t)
             \/ NestedEnd(t) \/ CloseEnd(t)
\* The bound is used up and everybody has come back.
Done == /\ calls = MaxCalls /\ \A t \in Threads : call[t] = Idle /\ frames[t] = <<>>
        /\ \A t \in Threads : guards[t] = <<>>
        /\ UNCHANGED vars
Next == \/ Done
        \/ \E t \in Threads :
          \/ FirstUse(t) \/ \E f \in Tasks : Spawn(t, f) \/ Poll(t, f)
          \/ RunHere(t) \/ Leave(t) \/ DropScopeGuard(t) \/ Nested(t)
          \/ Start(t) \/ Finish(t)

\* A thread inside a call goes on with it, and callbacks return.
Spec == Init /\ [][Next]_vars /\ \A t \in Threads : WF_vars(Finish(t))

-----------------------------------------------------------------------------
Scope == [tags : SUBSET Actors, breadcrumbs : Seq(Actors)]
Layer == [client : Clients \cup {NoClient}, scope : Scope]
Frame == [actor : Actors, inner : Hubs \cup {NoHub}, held : Nat]
Guard == [hub : Hubs, depth : Nat \ {0}]

Nesting  == {"no", "yes", "done"}
CallType == {Idle} \cup [op : {"configure"}, hub : Hubs, scope : Scope]
                   \cup [op : {"add_breadcrumb"}, hub : Hubs, nested : Nesting]
                   \cup [op : Captures, hub : Hubs, nested : Nesting, layer : Layer]
                   \cup [op : {"close"}, client : Clients]

Typed ==
  /\ layers \in [Hubs -> Seq(Layer)] /\ own \in [Hubs -> Seq(Layer)]
  /\ last_event_id \in [Hubs -> Actors \cup {NoHub}]
  /\ thread_hub \in [Threads -> Hubs \cup {NoHub}]
  /\ frames \in [Threads -> Seq(Frame)]
  /\ guards \in [Actors -> Seq(Guard)]
  /\ call \in [Threads -> CallType]
  /\ slot \subseteq Clients /\ calls \in 0 .. MaxCalls /\ app \in Apps
  /\ mixed \subseteq Actors /\ panicked \subseteq Actors

\* Types and bounds: no hub holds more breadcrumbs than max_breadcrumbs, in any layer
\* of its stack, also after copies made before were written back (hub.rs
\* add_breadcrumb, configure_scope).
TypeOK ==
  /\ Typed
  /\ \A h \in Hubs : \A n \in 1 .. Len(layers[h]) :
       Len(layers[h][n].scope.breadcrumbs) <= MaxBreadcrumbs

\* Every event is made from the client, the tags and the newest breadcrumbs its
\* own actor has set or inherited, in whatever pieces and on whatever threads the
\* actor runs (hub.rs capture_event, futures.rs poll).
EventsUnmixed == mixed = {}

\* Whatever was polled, nested and left on a thread, Hub::current() is the hub of
\* the code that runs, and the thread's own in the end (hub_impl.rs SwitchGuard).
CurrentHub == \A t \in Threads : thread_hub[t] # NoHub => thread_hub[t] = Actor(t)

\* Guards of different actors, alive at the same time on the same thread, are dropped
\* in order: none pops another's scope (scope/real.rs ScopeGuard::drop does not
\* panic), and none leaves another's hub as the current one (hub_impl.rs SwitchGuard).
GuardsInOrder ==
  /\ CurrentHub
  /\ panicked = {}
  /\ \A a \in Actors : \A n \in 1 .. Len(guards[a]) :
       guards[a][n].depth = n /\ guards[a][n].hub = a /\ Len(layers[a]) = Len(guards[a]) + 1

(***************************************************************************)
(* What makes these inductive.  Every actor runs on one thread at most: a  *)
(* thread's frames are of tasks that no other thread polls, or go on with  *)
(* the code below them, and each remembers the hub of the code below, if   *)
(* it is another.  A thread in a call is in it for its current hub.        *)
(***************************************************************************)
Below(t, n) == IF n = 1 THEN t ELSE frames[t][n - 1].actor
Apart ==
  /\ thread_hub[Main] # NoHub
  /\ \A t \in Threads :
       /\ thread_hub[t] = NoHub => frames[t] = <<>> /\ call[t] = Idle /\ layers[t] = <<>>
       /\ thread_hub[t] # NoHub => thread_hub[t] = Actor(t) /\ layers[t] # <<>>
       /\ call[t].op \notin {"none", "close"} => call[t].hub = Actor(t)
       /\ \A n \in DOMAIN frames[t] :
            /\ frames[t][n].actor \in Tasks \cup {t}
            /\ layers[frames[t][n].actor] # <<>>
            /\ frames[t][n].inner = NoHub => frames[t][n].actor = Below(t, n)
            /\ frames[t][n].inner # NoHub => frames[t][n].inner = Below(t, n)
  /\ \A t, u \in Threads : \A n \in DOMAIN frames[t], m \in DOMAIN frames[u] :
       frames[t][n].actor = frames[u][m].actor => t = u

\* The stack ls of actor a mirrors what it would have alone, os, and has a layer
\* for each of the guards gs that a holds, on top of the first.
Stacked(a, ls, os, gs) ==
  /\ Len(os) = Len(ls)
  /\ \A n \in DOMAIN ls : ls[n] = Trimmed(os[n])
  /\ ls = <<>> => gs = <<>>
  /\ ls # <<>> => Len(ls) = Len(gs) + 1
  /\ \A n \in DOMAIN gs : gs[n] = [hub |-> a, depth |-> n]

\* The scope that configure_scope has copied is still the one on top.
Mirrored ==
  /\ \A a \in Actors : Stacked(a, layers[a], own[a], guards[a])
  /\ \A t \in Threads : call[t].op = "configure" => call[t].scope = Top(call[t].hub).scope
  /\ mixed = {} /\ panicked = {}

\* Every call of the SDK returns: no thread waits for ever for the lock of a stack
\* or of a transport slot (hub.rs with_active: "This prevents accidental recursive
\* calls into the client").  The code keeps this only as CallsReturnUnlessReentered
\* says.
CallsReturn == \A t \in Threads : call[t].op # "none" ~> call[t].op = "none"

\* A callback has called the SDK while its own thread has the stack locked
\* (before_breadcrumb, or before_send below capture_error), or reads the slot of a
\* client that somebody waits to close.
Reentered(t) ==
  /\ call[t].op \in {"add_breadcrumb"} \cup Captures /\ call[t].nested = "yes"
  /\ call[t].op = "capture" => call[t].layer.client # NoClient /\ Closing(call[t].layer.client)

\* It waits for itself, or for that close; and the close waits for it.
Stuck(t) ==
  \/ Reentered(t)
  \/ /\ call[t].op = "close"
     /\ \E u \in Threads : /\ Reentered(u) /\ call[u].op \in Captures
                           /\ call[u].layer.client = call[t].client

\* Every call of the SDK returns, whatever other threads capture, configure and
\* close at the same time and whichever callbacks call the SDK, but for exactly these:
\* a callback's under the lock of its own thread's stack, one that meets a close of
\* its client halfway, and that close (hub.rs add_breadcrumb, error.rs capture_error,
\* envelope_sender.rs send_envelope_with and shutdown).
CallsReturnUnlessReentered ==
  \A t \in Threads : call[t].op # "none" ~> (call[t].op = "none" \/ Stuck(t))
====
