---------------------------- MODULE Sending_proofs ----------------------------
(***************************************************************************)
(* Theorems about two parts that stand between a capture and the network   *)
(* and know nothing of each other: the batcher of logs and metrics, and    *)
(* the rate limiter, whose headers are texts.  Splitting a text, writing   *)
(* and reading a header and applying its groups are folds; each kind of    *)
(* fold is an instance of the lemmas of Folds_proofs, with an invariant of *)
(* its own.                                                                *)
(***************************************************************************)
EXTENDS Batcher, RateLimiter, SequenceTheorems, TLAPS

-----------------------------------------------------------------------------
(* The batcher *)

LEMMA TypeInit == Init => TypeOK
<1> SUFFICES ASSUME Init PROVE TypeOK
  OBVIOUS
<1>1. /\ item \in [Threads -> SUBSET Items] /\ hand \in [Threads -> SUBSET Items]
      /\ before \in [Threads -> SUBSET Items]
      /\ \A t \in Threads : item[t] = {} /\ hand[t] = {}
  BY DEF Init
<1>2. pc \in [Threads -> {"idle"}]  BY DEF Init
<1> QED  BY <1>1, <1>2 DEF Init, TypeOK

LEMMA TypeStep == TypeOK /\ [Next]_vars => TypeOK'
<1> SUFFICES ASSUME TypeOK, [Next]_vars PROVE TypeOK'
  OBVIOUS
<1> USE DEF TypeOK, Goto, Reading, Writing
<1>1. ASSUME NEW t \in Threads, NEW i \in Items, Capture(t, i)  PROVE TypeOK'
  BY <1>1 DEF Capture, workerVars, transport
<1>2. ASSUME NEW t \in Threads, Enqueue(t)  PROVE TypeOK'
  <2> HIDE DEF Reading, Writing
  <2>1. /\ accepted' \subseteq Items /\ item' \in [Threads -> SUBSET Items]
        /\ item' = [item EXCEPT ![t] = {}]
    BY <1>2 DEF Enqueue
  <2>2. CASE pc' = [pc EXCEPT ![t] = "log_send"] /\ hand' = [hand EXCEPT ![t] = queue \cup item[t]]
              /\ queue' = {}
    BY <1>2, <2>1, <2>2 DEF Enqueue, workerVars, transport, Reading
  <2>3. CASE pc' = [pc EXCEPT ![t] = "idle"] /\ queue' = queue \cup item[t] /\ UNCHANGED hand
    BY <1>2, <2>1, <2>3 DEF Enqueue, workerVars, transport
  <2> QED  BY <1>2, <2>2, <2>3 DEF Enqueue
<1>3. ASSUME NEW t \in Threads, LogSend(t)  PROVE TypeOK'
  BY <1>3 DEF LogSend, HandOver, SendEnvelope, workerVars
<1>4. ASSUME NEW t \in Threads, FlushStart(t)  PROVE TypeOK'
  <2>1. before' \in [Threads -> SUBSET Items] /\ calls' \in Nat
    BY <1>4 DEF FlushStart
  <2>2. /\ pc' = [pc EXCEPT ![t] = "flush_take"] \/ pc' = [pc EXCEPT ![t] = "flush_transport"]
        /\ pc[t] = "idle"
    BY <1>4 DEF FlushStart
  <2> QED  BY <1>4, <2>1, <2>2 DEF FlushStart, workerVars, transport
<1>5. ASSUME NEW t \in Threads, FlushTake(t)  PROVE TypeOK'
  BY <1>5 DEF FlushTake, TakeQueue, workerVars, transport
<1>6. ASSUME NEW t \in Threads, FlushSend(t)  PROVE TypeOK'
  BY <1>6 DEF FlushSend, HandOver, SendEnvelope, workerVars
<1>7. ASSUME NEW t \in Threads, FlushTransport(t) \/ FlushReturn(t)  PROVE TypeOK'
  BY <1>7 DEF FlushTransport, FlushReturn, workerVars, transport
<1>8. ASSUME NEW t \in Threads, CloseStart(t)  PROVE TypeOK'
  <2>1. pc' = [pc EXCEPT ![t] = "set_flag"] \/ pc' = [pc EXCEPT ![t] = "close_transport"]
    <3>1. CASE present  BY <1>8, <3>1 DEF CloseStart
    <3>2. CASE ~present  BY <1>8, <3>2 DEF CloseStart
    <3> QED  BY <3>1, <3>2
  <2>2. pc[t] = "idle" /\ calls' \in Nat  BY <1>8 DEF CloseStart
  <2> QED  BY <1>8, <2>1, <2>2, ZenonT(120) DEF CloseStart, workerVars, transport
<1>9. ASSUME NEW t \in Threads, SetFlag(t) \/ Notify(t) \/ Join(t)  PROVE TypeOK'
  BY <1>9, ZenonT(120) DEF SetFlag, Notify, Join, workerVars, transport
<1>10. ASSUME NEW t \in Threads, CloseTake(t)  PROVE TypeOK'
  BY <1>10 DEF CloseTake, TakeQueue, workerVars, transport
<1>11. ASSUME NEW t \in Threads, CloseSend(t)  PROVE TypeOK'
  BY <1>11 DEF CloseSend, HandOver, SendEnvelope, workerVars
<1>12. ASSUME NEW t \in Threads, CloseTransport(t)  PROVE TypeOK'
  BY <1>12 DEF CloseTransport, workerVars
<1>13. CASE Worker
  BY <1>13, ZenonT(120) DEF Worker, WorkerStart, WorkerExit, WorkerTake, WorkerSend, SendEnvelope,
               threadVars, transport
<1>14. CASE UNCHANGED vars
  BY <1>14 DEF vars
<1> QED
  BY <1>1, <1>2, <1>3, <1>4, <1>5, <1>6, <1>7, <1>8, <1>9, <1>10, <1>11, <1>12, <1>13, <1>14
  DEF Next, Step, Terminated

\* The batcher keeps its types, and a batch is in a thread's or the worker's
\* hands only between taking it and giving it to the transport.
THEOREM TypeCorrect == Spec => []TypeOK
BY TypeInit, TypeStep, PTL DEF Spec

-----------------------------------------------------------------------------
(* Closing.                                                                *)

LEMMA CloseOrderInit == Init => CloseOrder
BY DEF Init, CloseOrder, Reading, Writing

\* Steps that change no thread's place in a guard.
LEMMA CloseOrderStep == TypeOK /\ CloseOrder /\ [Next]_vars => CloseOrder'
<1> SUFFICES ASSUME TypeOK, CloseOrder, [Next]_vars PROVE CloseOrder'
  OBVIOUS
<1> USE DEF CloseOrder, TypeOK, Goto, Reading, Writing
<1>1. ASSUME NEW t \in Threads, NEW i \in Items, Capture(t, i)  PROVE CloseOrder'
  BY <1>1 DEF Capture, workerVars, transport
<1>2. ASSUME NEW t \in Threads, Enqueue(t)  PROVE CloseOrder'
  <2>1. /\ pc[t] = "enqueue"
        /\ pc' = [pc EXCEPT ![t] = "log_send"] \/ pc' = [pc EXCEPT ![t] = "idle"]
        /\ UNCHANGED <<present, shutdown, worker, slot, closed>>
    BY <1>2 DEF Enqueue, workerVars, transport
  <2>2. present  BY <2>1
  <2> QED  BY <2>1, <2>2
<1>3. ASSUME NEW t \in Threads, LogSend(t)  PROVE CloseOrder'
  BY <1>3 DEF LogSend, HandOver, SendEnvelope, workerVars
<1>4. ASSUME NEW t \in Threads, FlushStart(t)  PROVE CloseOrder'
  <2>1. /\ pc[t] = "idle"
        /\ pc' = [pc EXCEPT ![t] = IF present THEN "flush_take" ELSE "flush_transport"]
        /\ UNCHANGED <<present, shutdown, worker, slot, closed, queue>>
    BY <1>4 DEF FlushStart, workerVars, transport
  <2> QED  BY <2>1
<1>5. ASSUME NEW t \in Threads, FlushTake(t)  PROVE CloseOrder'
  BY <1>5 DEF FlushTake, TakeQueue, workerVars, transport
<1>6. ASSUME NEW t \in Threads, FlushSend(t)  PROVE CloseOrder'
  BY <1>6 DEF FlushSend, HandOver, SendEnvelope, workerVars
<1>7. ASSUME NEW t \in Threads, FlushTransport(t) \/ FlushReturn(t)  PROVE CloseOrder'
  BY <1>7 DEF FlushTransport, FlushReturn, workerVars, transport
<1>8. ASSUME NEW t \in Threads, CloseStart(t)  PROVE CloseOrder'
  <2>1. /\ pc[t] = "idle" /\ present' = FALSE
        /\ \A u \in Threads : pc[u] \notin Reading \cup Writing
        /\ UNCHANGED <<shutdown, worker, slot, closed, queue>>
    BY <1>8 DEF CloseStart, CanWrite, workerVars, transport
  <2>2. CASE present
    <3>1. pc' = [pc EXCEPT ![t] = "set_flag"]  BY <1>8, <2>2 DEF CloseStart
    <3> QED  BY <2>1, <2>2, <3>1
  <2>3. CASE ~present
    <3>1. pc' = [pc EXCEPT ![t] = "close_transport"]  BY <1>8, <2>3 DEF CloseStart
    <3> QED  BY <2>1, <2>3, <3>1
  <2> QED  BY <2>2, <2>3
<1>9. ASSUME NEW t \in Threads, SetFlag(t)  PROVE CloseOrder'
  BY <1>9 DEF SetFlag, workerVars, transport
<1>10. ASSUME NEW t \in Threads, Notify(t)  PROVE CloseOrder'
  BY <1>10 DEF Notify, workerVars, transport
<1>11. ASSUME NEW t \in Threads, Join(t)  PROVE CloseOrder'
  BY <1>11 DEF Join, workerVars, transport
<1>12. ASSUME NEW t \in Threads, CloseTake(t)  PROVE CloseOrder'
  BY <1>12 DEF CloseTake, TakeQueue, workerVars, transport
<1>13. ASSUME NEW t \in Threads, CloseSend(t)  PROVE CloseOrder'
  <2>1. /\ pc[t] = "close_send" /\ pc' = [pc EXCEPT ![t] = "close_transport"]
        /\ UNCHANGED <<present, shutdown, worker, slot, closed, queue>>
    BY <1>13 DEF CloseSend, HandOver, SendEnvelope, workerVars
  <2>2. ~present /\ queue = {} /\ worker = "exited"
         /\ \A u \in Threads \ {t} : pc[u] \notin Writing
    BY <2>1
  <2> QED  BY <2>1, <2>2
<1>14. ASSUME NEW t \in Threads, CloseTransport(t)  PROVE CloseOrder'
  BY <1>14 DEF CloseTransport, workerVars
<1>15. CASE Worker
  BY <1>15 DEF Worker, WorkerStart, WorkerExit, WorkerTake, WorkerSend, SendEnvelope,
               threadVars, transport
<1>16. CASE UNCHANGED vars
  BY <1>16 DEF vars
<1> QED
  BY <1>1, <1>2, <1>3, <1>4, <1>5, <1>6, <1>7, <1>8, <1>9, <1>10, <1>11, <1>12, <1>13,
     <1>14, <1>15, <1>16
  DEF Next, Step, Terminated

\* While anyone has a batch or may take one, the transport is still there.
LEMMA SlotWhileBusy ==
  ASSUME TypeOK, CloseOrder
  PROVE  /\ \A t \in Threads : pc[t] \in Reading \cup Writing => slot
         /\ worker = "sending" => slot
BY DEF TypeOK, CloseOrder

-----------------------------------------------------------------------------
(* Items.                                                                  *)

LEMMA FreshInit == Init => Fresh
BY DEF Init, Fresh

LEMMA FreshStep == TypeOK /\ Fresh /\ [Next]_vars => Fresh'
<1> SUFFICES ASSUME TypeOK, Fresh, [Next]_vars PROVE Fresh'
  OBVIOUS
<1> USE DEF Fresh, TypeOK
<1>1. ASSUME NEW t \in Threads, NEW i \in Items, Capture(t, i)  PROVE Fresh'
  <2>1. CASE UNCHANGED item
    BY <1>1, <2>1 DEF Capture
  <2>2. CASE item' = [item EXCEPT ![t] = {i}]
    <3>1. i \notin captured /\ captured' = captured \cup {i} /\ accepted' = accepted
      BY <1>1 DEF Capture
    <3> QED  BY <2>2, <3>1
  <2> QED  BY <1>1, <2>1, <2>2 DEF Capture
<1>2. ASSUME NEW t \in Threads, Enqueue(t)  PROVE Fresh'
  <2>1. accepted' = accepted \cup item[t] /\ item' = [item EXCEPT ![t] = {}]
         /\ captured' = captured
    BY <1>2 DEF Enqueue
  <2> QED  BY <2>1
<1>3. CASE UNCHANGED <<item, captured, accepted>>
  BY <1>3
<1> QED
  BY <1>1, <1>2, <1>3
  DEF Next, Step, Terminated, vars, Worker, WorkerStart, WorkerExit, WorkerTake, WorkerSend,
      threadVars, LogSend, FlushStart, FlushTake, FlushSend, FlushTransport, FlushReturn,
      CloseStart, SetFlag, Notify, Join, CloseTake, CloseSend, CloseTransport

\* What NothingLost says of the item i.
LEMMA NothingLostStep ==
  TypeOK /\ CloseOrder /\ Fresh /\ NothingLost /\ [Next]_vars => NothingLost'
<1> SUFFICES ASSUME TypeOK, CloseOrder, Fresh, NothingLost, [Next]_vars
             PROVE  NothingLost'
  OBVIOUS
<1>1. ASSUME NEW t \in Threads, Enqueue(t)  PROVE NothingLost'
  <2>1. /\ accepted' = accepted \cup item[t]
        /\ UNCHANGED <<batch, sent, dropped>>
        /\ hand[t] = {} /\ item[t] \subseteq Items /\ item[t] \cap accepted = {}
    BY <1>1 DEF Enqueue, workerVars, transport, TypeOK, Fresh
  <2>2. CASE hand' = [hand EXCEPT ![t] = queue \cup item[t]] /\ queue' = {}
    BY <2>1, <2>2 DEF NothingLost, TypeOK
  <2>3. CASE queue' = queue \cup item[t] /\ UNCHANGED hand
    BY <2>1, <2>3 DEF NothingLost, TypeOK
  <2> QED  BY <1>1, <2>2, <2>3 DEF Enqueue
<1>2. ASSUME NEW t \in Threads, LogSend(t) \/ FlushSend(t) \/ CloseSend(t)  PROVE NothingLost'
  <2>1. /\ UNCHANGED <<queue, batch, accepted>>
        /\ HandOver(t) /\ slot
    BY <1>2, SlotWhileBusy DEF LogSend, FlushSend, CloseSend, workerVars, Reading, Writing
  <2>2. sent' = sent \cup hand[t] /\ dropped' = dropped /\ hand' = [hand EXCEPT ![t] = {}]
    BY <2>1 DEF HandOver, SendEnvelope
  <2> QED  BY <2>1, <2>2 DEF NothingLost, TypeOK
<1>3. ASSUME NEW t \in Threads, FlushTake(t) \/ CloseTake(t)  PROVE NothingLost'
  <2>1. /\ UNCHANGED <<batch, sent, dropped, accepted>>
        /\ hand' = [hand EXCEPT ![t] = queue] /\ queue' = {} /\ hand[t] = {}
    BY <1>3 DEF FlushTake, CloseTake, TakeQueue, workerVars, transport, TypeOK
  <2> QED  BY <2>1 DEF NothingLost, TypeOK
<1>4. CASE WorkerTake
  <2>1. /\ UNCHANGED <<hand, sent, dropped, accepted>>
        /\ batch' = queue /\ queue' = {} /\ batch = {}
    BY <1>4 DEF WorkerTake, threadVars, transport, TypeOK
  <2> QED  BY <2>1 DEF NothingLost, TypeOK
<1>5. CASE WorkerSend
  <2>1. /\ UNCHANGED <<hand, queue, accepted>> /\ batch' = {}
        /\ sent' = sent \cup batch /\ dropped' = dropped
    BY <1>5, SlotWhileBusy DEF WorkerSend, SendEnvelope, threadVars
  <2> QED  BY <2>1 DEF NothingLost, TypeOK
<1>6. CASE UNCHANGED <<queue, batch, hand, sent, dropped, accepted>>
  BY <1>6 DEF NothingLost
<1> QED
  BY <1>1, <1>2, <1>3, <1>4, <1>5, <1>6
  DEF Next, Step, Terminated, vars, Worker, WorkerStart, WorkerExit, threadVars, workerVars,
      transport, Capture, FlushStart, FlushTransport, FlushReturn, CloseStart, SetFlag, Notify,
      Join, CloseTransport

\* For any number of threads and items: no accepted item is lost, sent twice or
\* given to an emptied slot (batcher.rs 115-164 under client/mod.rs 511-571).
THEOREM NoItemLost == Spec => []NothingLost
<1>1. Init => NothingLost
  <2> SUFFICES ASSUME Init PROVE NothingLost
    OBVIOUS
  <2>1. queue = {} /\ batch = {} /\ sent = {} /\ dropped = {} /\ accepted = {}
         /\ \A t \in Threads : hand[t] = {}
    BY DEF Init
  <2> QED  BY <2>1 DEF NothingLost
<1> QED
  BY <1>1, TypeCorrect, CloseOrderInit, CloseOrderStep, FreshInit, FreshStep, NothingLostStep,
     PTL DEF Spec

\* For any number of threads and items: when a call of close returns, whoever
\* else logs, flushes or closes, every accepted item is with the transport.
THEOREM CloseLeavesNothing == Spec => []CloseSendsAll
<1>1. TypeOK /\ CloseOrder /\ NothingLost => CloseSendsAll
  <2> SUFFICES ASSUME TypeOK, CloseOrder, NothingLost, closed PROVE accepted = sent
    BY DEF CloseSendsAll
  <2>1. queue = {} /\ worker = "exited" /\ \A t \in Threads : pc[t] \notin Reading \cup Writing
    BY DEF CloseOrder, TypeOK
  <2>2. batch = {} /\ \A t \in Threads : hand[t] = {}
    BY <2>1 DEF TypeOK, Reading, Writing
  <2> QED  BY <2>1, <2>2, ZenonT(120) DEF NothingLost, TypeOK
<1> QED
  BY <1>1, TypeCorrect, CloseOrderInit, CloseOrderStep, NoItemLost, PTL DEF Spec

-----------------------------------------------------------------------------
(* Flushing.                                                               *)

\* The queue shrinks or takes in what was not accepted before.
LEMMA QueueStep ==
  ASSUME TypeOK, Fresh, [Next]_vars
  PROVE  /\ accepted \subseteq accepted'
         /\ queue' \cap accepted \subseteq queue
<1>1. ASSUME NEW t \in Threads, Enqueue(t)
      PROVE  accepted \subseteq accepted' /\ queue' \cap accepted \subseteq queue
  <2>1. item[t] \cap accepted = {}  BY DEF Fresh
  <2> QED  BY <1>1, <2>1 DEF Enqueue
<1>2. CASE accepted' = accepted /\ (queue' = queue \/ queue' = {})
  BY <1>2
<1> QED
  BY <1>1, <1>2
  DEF Next, Step, Terminated, vars, Worker, WorkerStart, WorkerExit, WorkerTake, WorkerSend,
      threadVars, Capture, LogSend, FlushStart, FlushTake, TakeQueue, FlushSend, FlushTransport,
      FlushReturn, CloseStart, SetFlag, Notify, Join, CloseTake, CloseSend, CloseTransport

LEMMA FlushProgressStep ==
  TypeOK /\ CloseOrder /\ Fresh /\ FlushProgress /\ [Next]_vars => FlushProgress'
<1> SUFFICES ASSUME TypeOK, CloseOrder, Fresh, FlushProgress, [Next]_vars
             PROVE  FlushProgress'
  OBVIOUS
<1>0. accepted \subseteq accepted' /\ queue' \cap accepted \subseteq queue
  BY QueueStep
\* A thread whose flush is where it was keeps its claim, whoever else moves.
<1>a. ASSUME NEW t \in Threads, before'[t] = before[t], pc'[t] = pc[t]
      PROVE  /\ pc'[t] \in {"flush_take", "flush_send", "flush_transport", "flushed"}
                  => before'[t] \subseteq accepted'
             /\ pc'[t] \in {"flush_send", "flush_transport", "flushed"}
                  => before'[t] \cap queue' = {}
  BY <1>0, <1>a DEF FlushProgress
<1>1. ASSUME NEW t \in Threads, FlushStart(t)  PROVE FlushProgress'
  <2>1. /\ before' = [before EXCEPT ![t] = accepted] /\ accepted' = accepted
        /\ queue' = queue
        /\ \A u \in Threads : pc[u] \notin Writing
    BY <1>1 DEF FlushStart, CanRead
  <2>2. CASE present
    <3>1. pc' = [pc EXCEPT ![t] = "flush_take"]  BY <1>1, <2>2 DEF FlushStart, Goto
    <3> QED  BY <1>a, <2>1, <3>1 DEF FlushProgress, TypeOK
  <2>3. CASE ~present
    <3>1. pc' = [pc EXCEPT ![t] = "flush_transport"]  BY <1>1, <2>3 DEF FlushStart, Goto
    <3>2. queue = {}  BY <2>1, <2>3 DEF CloseOrder
    <3> QED  BY <1>a, <2>1, <3>1, <3>2 DEF FlushProgress, TypeOK
  <2> QED  BY <2>2, <2>3
<1>2. ASSUME NEW t \in Threads, FlushTake(t)  PROVE FlushProgress'
  <2>1. /\ before' = before /\ queue' = {} /\ accepted' = accepted
        /\ pc[t] = "flush_take" /\ pc' = [pc EXCEPT ![t] = "flush_send"]
    BY <1>2 DEF FlushTake, TakeQueue, Goto
  <2> QED  BY <1>a, <2>1 DEF FlushProgress, TypeOK
<1>3. ASSUME NEW t \in Threads, FlushSend(t) \/ FlushTransport(t)  PROVE FlushProgress'
  <2>1. /\ before' = before /\ queue' = queue /\ accepted' = accepted
        /\ pc[t] \in {"flush_send", "flush_transport"}
        /\ pc' = [pc EXCEPT ![t] = "flush_transport"] \/ pc' = [pc EXCEPT ![t] = "flushed"]
    BY <1>3 DEF FlushSend, FlushTransport, Goto
  <2> QED  BY <1>a, <2>1 DEF FlushProgress, TypeOK
\* The other steps move a thread that is in no flush, or end one.
<1>4. ASSUME NEW t \in Threads,
             \A u \in Threads \ {t} : pc'[u] = pc[u] /\ before'[u] = before[u],
             pc'[t] \notin {"flush_take", "flush_send", "flush_transport", "flushed"}
      PROVE  FlushProgress'
  BY <1>4, <1>a DEF FlushProgress
<1>5. ASSUME NEW t \in Threads,
             \/ Enqueue(t) \/ LogSend(t) \/ FlushReturn(t) \/ CloseStart(t) \/ SetFlag(t)
             \/ Notify(t) \/ Join(t) \/ CloseTake(t) \/ CloseSend(t) \/ CloseTransport(t)
      PROVE  FlushProgress'
  <2>1. \E place \in {"idle", "log_send", "set_flag", "close_transport", "notify", "join",
                     "close_take", "close_send"} : pc' = [pc EXCEPT ![t] = place]
    <3>1. ASSUME CloseStart(t)
          PROVE  pc' = [pc EXCEPT ![t] = "set_flag"] \/ pc' = [pc EXCEPT ![t] = "close_transport"]
      BY <3>1 DEF CloseStart, Goto
    <3> QED
      BY <1>5, <3>1 DEF Enqueue, LogSend, FlushReturn, SetFlag, Notify, Join, CloseTake,
                        CloseSend, CloseTransport, Goto
  <2>2. \A u \in Threads \ {t} : before'[u] = before[u]
    BY <1>5 DEF Enqueue, LogSend, FlushReturn, CloseStart, SetFlag, Notify, Join, CloseTake,
                CloseSend, CloseTransport, TypeOK
  <2> QED  BY <1>4, <2>1, <2>2 DEF TypeOK
<1>6. ASSUME NEW t \in Threads, NEW i \in Items, Capture(t, i)  PROVE FlushProgress'
  <2>1. before' = before /\ (pc' = pc \/ pc' = [pc EXCEPT ![t] = "enqueue"])
    BY <1>6 DEF Capture, Goto
  <2> QED  BY <1>4, <1>a, <2>1 DEF FlushProgress, TypeOK
<1>7. CASE Worker \/ UNCHANGED vars
  <2>1. before' = before /\ pc' = pc
    BY <1>7 DEF Worker, WorkerStart, WorkerExit, WorkerTake, WorkerSend, threadVars, vars
  <2> QED  BY <1>a, <2>1 DEF FlushProgress
<1> QED
  BY <1>1, <1>2, <1>3, <1>5, <1>6, <1>7 DEF Next, Step, Terminated

\* For any number of threads and items: when Client::flush returns, what had been
\* accepted before it was called is with the transport or in a batch that somebody
\* else took first (batcher.rs 137-150).
THEOREM FlushIsComplete == Spec => []FlushLeavesNone
<1>1. Init => FlushProgress
  BY DEF Init, FlushProgress
<1>2. TypeOK /\ NothingLost /\ FlushProgress => FlushLeavesNone
  <2> SUFFICES ASSUME TypeOK, NothingLost, FlushProgress, NEW t \in Threads, pc[t] = "flushed",
                      NEW i \in before[t]
               PROVE  i \in sent \cup batch \cup UNION { hand[u] : u \in Threads \ {t} }
    BY DEF FlushLeavesNone
  <2>1. i \in accepted /\ i \notin queue /\ hand[t] = {} /\ i \in Items
    BY DEF FlushProgress, TypeOK
  <2>2. i \in batch \cup sent \/ \E u \in Threads : i \in hand[u]
    BY <2>1 DEF NothingLost
  <2>3. CASE \E u \in Threads : i \in hand[u]
    <3>1. PICK u \in Threads : i \in hand[u]  BY <2>3
    <3>2. u # t  BY <2>1, <3>1
    <3> QED  BY <3>1, <3>2
  <2> QED  BY <2>2, <2>3
<1> QED
  BY <1>1, <1>2, TypeCorrect, CloseOrderInit, CloseOrderStep, FreshInit, FreshStep, NoItemLost,
     FlushProgressStep, PTL DEF Spec

-----------------------------------------------------------------------------
(* Sequences *)

\* One element more, and a sequence in front.
LEMMA ConcatAppend ==
  ASSUME NEW S, NEW s \in Seq(S), NEW t \in Seq(S), NEW x \in S
  PROVE  /\ s \o Append(t, x) = Append(s \o t, x)
         /\ s \o t \in Seq(S) /\ Append(t, x) \in Seq(S) /\ Append(s \o t, x) \in Seq(S)
<1>1. PICK v \in Seq(S) : v = s \o t
  <2>1. s \o t \in Seq(S)  OBVIOUS
  <2> QED  BY <2>1, Zenon
<1>2. s \o Append(t, x) = Append(v, x)  BY <1>1
<1>3. Append(t, x) \in Seq(S) /\ Append(v, x) \in Seq(S)  OBVIOUS
<1> QED  BY <1>1, <1>2, <1>3, Zenon

\* The last element replaced.
LEMMA ExceptLast ==
  ASSUME NEW S, NEW s \in Seq(S), NEW x \in S, NEW y \in S
  PROVE  /\ [Append(s, x) EXCEPT ![Len(Append(s, x))] = y] = Append(s, y)
         /\ Append(s, x)[Len(Append(s, x))] = x
<1>1. PICK l \in Seq(S), m \in Seq(S), n \in Nat : l = Append(s, x) /\ m = Append(s, y) /\ n = Len(s)
  <2>1. Append(s, x) \in Seq(S) /\ Append(s, y) \in Seq(S) /\ Len(s) \in Nat  OBVIOUS
  <2> QED  BY <2>1, Zenon
<1>2. /\ Len(l) = n + 1 /\ DOMAIN l = 1 .. n + 1 /\ l[n + 1] = x /\ \A i \in 1 .. n : l[i] = s[i]
      /\ Len(m) = n + 1 /\ DOMAIN m = 1 .. n + 1 /\ m[n + 1] = y /\ \A i \in 1 .. n : m[i] = s[i]
  BY <1>1
<1>3. PICK k : k = [l EXCEPT ![n + 1] = y]  OBVIOUS
<1>4. k \in Seq(S) /\ Len(k) = n + 1 /\ \A i \in 1 .. n + 1 : k[i] = IF i = n + 1 THEN y ELSE l[i]
  <2>1. n + 1 \in 1 .. Len(l)  BY <1>2
  <2> QED  BY <1>2, <1>3, <2>1, ExceptSeq
<1>5. \A i \in 1 .. Len(k) : k[i] = m[i]  BY <1>2, <1>4
<1>6. k = m  BY <1>2, <1>4, <1>5, SeqEqual
<1> QED  BY <1>1, <1>2, <1>3, <1>6

-----------------------------------------------------------------------------
(* Splitting a text *)

SplitFrom(sep, pieces, s) ==
  FoldLeft(LAMBDA acc, x : IF x = sep THEN Append(acc, <<>>)
                           ELSE [acc EXCEPT ![Len(acc)] = Append(@, x)], pieces, s)

SplitStep(sep, front, r, acc, x) ==
  IF x = sep THEN Append(acc, <<>>) ELSE [acc EXCEPT ![Len(acc)] = Append(@, x)]

\* The pieces closed and the open one after the text u, when r[1] is open at its
\* start, and behind what pieces ever.  r[2] is the set of texts.
SplitKept(sep, front, r, u, acc) ==
  \E done \in Seq(r[2]), open \in r[2] :
    /\ acc = Append(front \o done, open)
    /\ SplitFrom(sep, <<r[1]>>, u) = Append(done, open)
    /\ (\A i \in DOMAIN u : u[i] # sep) => done = <<>> /\ open = r[1] \o u

Splitting == INSTANCE Folds_proofs WITH FoldStep <- SplitStep, FoldKept <- SplitKept

\* SplitFrom is the fold of the instance (str::split of the header texts).
LEMMA SplitIsFold ==
  ASSUME NEW sep, NEW p, NEW r, NEW pieces, NEW s
  PROVE  SplitFrom(sep, pieces, s) = Splitting!Fold(sep, p, r, pieces, s)
BY DEF SplitFrom, Splitting!Fold, SplitStep, FoldLeft, MapThenFoldSet,
       Splitting!MapThenFoldSet, Max, Splitting!Max

\* A split starts with one empty piece.
LEMMA SplitIsFrom ==
  ASSUME NEW s, NEW sep
  PROVE  Split(s, sep) = SplitFrom(sep, << <<>> >>, s)
BY DEF Split, SplitFrom

\* One token more in the text is one step more of the split.
LEMMA SplitFromAppend ==
  ASSUME NEW sep, NEW pieces, NEW S, NEW u \in Seq(S), NEW x \in S
  PROVE  SplitFrom(sep, pieces, Append(u, x)) = SplitStep(sep, 0, 0, SplitFrom(sep, pieces, u), x)
BY SplitIsFold, Splitting!FoldAppend, SMTT(90)

\* The empty text leaves the pieces as they are.
LEMMA SplitFromEmpty ==
  ASSUME NEW sep, NEW pieces
  PROVE  SplitFrom(sep, pieces, <<>>) = pieces
<1>1. SplitFrom(sep, pieces, <<>>) = Splitting!Fold(sep, 0, 0, pieces, <<>>)  BY SplitIsFold
<1> QED  BY <1>1, Splitting!FoldEmpty

\* One token more: a piece is closed, or the open one grows.
StepsTo(sep, p, r, done, open, x) ==
  SplitStep(sep, p, r, Append(done, open), x)
    = IF x = sep THEN Append(Append(done, open), <<>>) ELSE Append(done, Append(open, x))

\* A step of the split closes the open piece at a separator, and else lengthens it.
LEMMA SplitStepFacts ==
  ASSUME NEW sep, NEW p, NEW r, NEW T, NEW done \in Seq(T), NEW open \in T, NEW x, Append(open, x) \in T
  PROVE  StepsTo(sep, p, r, done, open, x)
<1>1. PICK y \in T : y = Append(open, x)  BY Zenon
<1>2. /\ [Append(done, open) EXCEPT ![Len(Append(done, open))] = y] = Append(done, y)
      /\ Append(done, open)[Len(Append(done, open))] = open
  BY ExceptLast
<1> QED  BY <1>1, <1>2 DEF SplitStep, StepsTo

\* Texts over the tokens S.
TextsOver(S, T) == T = Seq(S)

\* What a split makes of a text, behind the pieces closed before it and with the open piece w.
LEMMA SplitFacts ==
  ASSUME NEW sep, NEW S, NEW T, TextsOver(S, T), NEW front \in Seq(T), NEW w \in T, NEW s \in Seq(S)
  PROVE  SplitKept(sep, front, <<w, T>>, s, SplitFrom(sep, Append(front, w), s))
<1> DEFINE base == Append(front, w)
<1>r. PICK r : r = <<w, T>>  OBVIOUS
<1>0. r[1] = w /\ r[2] = T  BY <1>r
<1>1. SplitFrom(sep, <<w>>, <<>>) = <<w>>  BY SplitFromEmpty
<1>2. SplitKept(sep, front, r, <<>>, base)
  <2>1. <<>> \in Seq(T) /\ Append(front \o <<>>, w) = base /\ <<w>> = Append(<<>>, w) /\ w \o <<>> = w
    BY DEF TextsOver
  <2> QED  BY <1>0, <1>1, <2>1 DEF SplitKept
<1>3. ASSUME NEW u \in Seq(S), NEW acc, NEW x \in S, SplitKept(sep, front, r, u, acc)
      PROVE  SplitKept(sep, front, r, Append(u, x), SplitStep(sep, front, r, acc, x))
  <2>1. PICK done \in Seq(T), open \in T :
          /\ acc = Append(front \o done, open)
          /\ SplitFrom(sep, <<w>>, u) = Append(done, open)
          /\ (\A i \in DOMAIN u : u[i] # sep) => done = <<>> /\ open = w \o u
    BY <1>0, <1>3 DEF SplitKept
  <2>2. /\ front \o done \in Seq(T)
        /\ front \o Append(done, open) = Append(front \o done, open)
        /\ Append(done, open) \in Seq(T)
    BY ConcatAppend
  <2>8. Append(open, x) \in T /\ <<>> \in T  BY DEF TextsOver
  <2>5. PICK prev \in Seq(T) : prev = front \o done  BY <2>2, Zenon
  <2>6. StepsTo(sep, front, r, prev, open, x) /\ StepsTo(sep, 0, 0, done, open, x)
    BY <2>5, <2>8, SplitStepFacts
  <2>3. SplitFrom(sep, <<w>>, Append(u, x)) = SplitStep(sep, 0, 0, Append(done, open), x)
    <3>1. SplitFrom(sep, <<w>>, Append(u, x)) = SplitStep(sep, 0, 0, SplitFrom(sep, <<w>>, u), x)
      BY SplitFromAppend
    <3> QED  BY <2>1, <3>1
  <2>4. CASE x = sep
    <3>1. SplitStep(sep, front, r, acc, x) = Append(front \o Append(done, open), <<>>)
      BY <2>1, <2>2, <2>4, <2>5, <2>6 DEF StepsTo
    <3>2. SplitFrom(sep, <<w>>, Append(u, x)) = Append(Append(done, open), <<>>)
      BY <2>3, <2>4, <2>6 DEF StepsTo
    <3>3. ~ \A i \in DOMAIN Append(u, x) : Append(u, x)[i] # sep
      <4>1. Len(u) + 1 \in DOMAIN Append(u, x) /\ Append(u, x)[Len(u) + 1] = x  OBVIOUS
      <4> QED  BY <2>4, <4>1
    <3> QED  BY <1>0, <2>2, <3>1, <3>2, <3>3, <2>8 DEF SplitKept
  <2>9. CASE x # sep
    <3>1. SplitStep(sep, front, r, acc, x) = Append(front \o done, Append(open, x))
      BY <2>1, <2>5, <2>6, <2>9 DEF StepsTo
    <3>2. SplitFrom(sep, <<w>>, Append(u, x)) = Append(done, Append(open, x))
      BY <2>3, <2>6, <2>9 DEF StepsTo
    <3>3. ASSUME \A i \in DOMAIN Append(u, x) : Append(u, x)[i] # sep
          PROVE  done = <<>> /\ Append(open, x) = w \o Append(u, x)
      <4>1. \A i \in DOMAIN u : i \in DOMAIN Append(u, x) /\ Append(u, x)[i] = u[i]  OBVIOUS
      <4>2. done = <<>> /\ open = w \o u  BY <2>1, <3>3, <4>1
      <4>3. w \o Append(u, x) = Append(w \o u, x)  BY ConcatAppend, SMTT(90) DEF TextsOver
      <4> QED  BY <4>2, <4>3
    <3> QED  BY <1>0, <3>1, <3>2, <3>3, <2>8 DEF SplitKept
  <2> QED  BY <2>4, <2>9
<1>4. SplitKept(sep, front, r, s, Splitting!Fold(sep, front, r, base, s))
  <2> HIDE DEF base
  <2> QED  BY <1>2, <1>3, Splitting!FoldInduction
<1> QED  BY <1>4, <1>r, SplitIsFold

\* What is split is never empty, and a sequence of texts.
LEMMA SplitTyped ==
  ASSUME NEW sep, NEW S, NEW T, TextsOver(S, T), NEW s \in Seq(S)
  PROVE  Split(s, sep) \in Seq(T) /\ Len(Split(s, sep)) > 0
<1>1. <<>> \in T /\ <<>> \in Seq(T) /\ Append(<<>>, <<>>) = << <<>> >>  BY DEF TextsOver
<1>2. SplitKept(sep, <<>>, << <<>>, T >>, s, SplitFrom(sep, << <<>> >>, s))  BY <1>1, SplitFacts
<1>3. PICK done \in Seq(T), open \in T : Split(s, sep) = Append(done, open)
  BY <1>2, SplitIsFrom DEF SplitKept
<1> QED  BY <1>3

\* A text without the separator is one piece.
LEMMA SplitNone ==
  ASSUME NEW sep, NEW S, NEW T, TextsOver(S, T), NEW s \in Seq(S), \A i \in DOMAIN s : s[i] # sep
  PROVE  Split(s, sep) = <<s>>
<1>1. <<>> \in T /\ <<>> \in Seq(T) /\ Append(<<>>, <<>>) = << <<>> >>  BY DEF TextsOver
<1>2. SplitKept(sep, <<>>, << <<>>, T >>, s, SplitFrom(sep, << <<>> >>, s))  BY <1>1, SplitFacts
<1>3. SplitFrom(sep, << <<>> >>, s) = Append(<<>>, <<>> \o s)  BY <1>2 DEF SplitKept
<1>4. <<>> \o s = s  OBVIOUS
<1> QED  BY <1>3, <1>4, SplitIsFrom

\* The pieces of two texts with a separator between them are those of the first
\* and those of the second.
LEMMA SplitConcat ==
  ASSUME NEW S, NEW T, TextsOver(S, T), NEW sep \in S, NEW a \in Seq(S), NEW b \in Seq(S)
  PROVE  Split(Append(a, sep) \o b, sep) = Split(a, sep) \o Split(b, sep)
<1>1. PICK one : one = << <<>> >>  OBVIOUS
<1>2. PICK front \in Seq(T) : front = Split(a, sep)
  <2>1. Split(a, sep) \in Seq(T)  BY SplitTyped
  <2> QED  BY <2>1, Zenon
<1>3. SplitFrom(sep, one, Append(a, sep)) = Append(front, <<>>)
  BY <1>1, <1>2, SplitFromAppend, SplitIsFrom DEF SplitStep
<1>4. SplitFrom(sep, one, Append(a, sep) \o b) = SplitFrom(sep, Append(front, <<>>), b)
  <2>0. Append(a, sep) \in Seq(S)  OBVIOUS
  <2>1. PICK u \in Seq(S) : u = Append(a, sep)  BY <2>0, Zenon
  <2>2. Splitting!Fold(sep, 0, 0, one, u \o b)
          = Splitting!Fold(sep, 0, 0, Splitting!Fold(sep, 0, 0, one, u), b)
    BY Splitting!FoldConcat
  <2>3. /\ SplitFrom(sep, one, u \o b) = Splitting!Fold(sep, 0, 0, one, u \o b)
        /\ SplitFrom(sep, one, u) = Splitting!Fold(sep, 0, 0, one, u)
        /\ SplitFrom(sep, SplitFrom(sep, one, u), b) = Splitting!Fold(sep, 0, 0, SplitFrom(sep, one, u), b)
    BY SplitIsFold
  <2>4. SplitFrom(sep, one, u \o b) = SplitFrom(sep, SplitFrom(sep, one, u), b)  BY <2>2, <2>3, Zenon
  <2> QED  BY <1>3, <2>1, <2>4, Zenon
<1>5. <<>> \in T  BY DEF TextsOver
<1>6. SplitKept(sep, front, << <<>>, T >>, b, SplitFrom(sep, Append(front, <<>>), b))
  BY <1>5, SplitFacts
<1>7. PICK done \in Seq(T), open \in T :
        /\ SplitFrom(sep, Append(front, <<>>), b) = Append(front \o done, open)
        /\ SplitFrom(sep, one, b) = Append(done, open)
  BY <1>1, <1>6 DEF SplitKept
<1>8. front \o Append(done, open) = Append(front \o done, open)  BY ConcatAppend
<1> QED  BY <1>1, <1>2, <1>4, <1>7, <1>8, SplitIsFrom

\* The piece before the first separator, and the pieces of what follows it.
LEMMA SplitAt ==
  ASSUME NEW S, NEW T, TextsOver(S, T), NEW sep \in S, NEW s \in Seq(S), NEW k \in 1 .. Len(s),
         s[k] = sep, \A i \in 1 .. k - 1 : s[i] # sep
  PROVE  Split(s, sep) = <<SubSeq(s, 1, k - 1)>> \o Split(SubSeq(s, k + 1, Len(s)), sep)
<1>1. PICK a \in Seq(S), b \in Seq(S) : a = SubSeq(s, 1, k - 1) /\ b = SubSeq(s, k + 1, Len(s))
  <2>1. SubSeq(s, 1, k - 1) \in Seq(S) /\ SubSeq(s, k + 1, Len(s)) \in Seq(S)  OBVIOUS
  <2> QED  BY <2>1, Zenon
<1>2. Append(a, sep) \o b = s
  <2>1. PICK n \in Nat : n = Len(s)  BY LenProperties
  <2>0. Append(a, sep) \in Seq(S)  OBVIOUS
  <2>2. PICK c \in Seq(S) : c = Append(a, sep)  BY <2>0, Zenon
  <2>3. Len(a) = k - 1 /\ \A i \in 1 .. k - 1 : a[i] = s[i]  BY <1>1
  <2>4. Len(b) = n - k /\ \A i \in 1 .. n - k : b[i] = s[k + i]  BY <1>1, <2>1
  <2>5. Len(c) = k /\ \A i \in 1 .. k : c[i] = s[i]  BY <2>2, <2>3
  <2>6. PICK d \in Seq(S) : d = c \o b  BY ConcatProperties
  <2>11. Len(c \o b) = Len(c) + Len(b)
         /\ \A i \in 1 .. Len(c) + Len(b) : (c \o b)[i] = IF i <= Len(c) THEN c[i] ELSE b[i - Len(c)]
    BY ConcatProperties
  <2>12. PICK m \in Nat : m = Len(b)  BY LenProperties
  <2>13. m = n - k /\ k + m = n  BY <2>1, <2>4, <2>12
  <2>7. Len(d) = n /\ \A i \in 1 .. n : d[i] = IF i <= k THEN c[i] ELSE b[i - k]
    BY <2>5, <2>6, <2>11, <2>12, <2>13
  <2>8. \A i \in 1 .. n : i > k => i - k \in 1 .. n - k /\ k + (i - k) = i  BY <2>1
  <2>9. \A i \in 1 .. n : i <= k => i \in 1 .. k  BY <2>1
  <2>10. \A i \in 1 .. n : d[i] = s[i]  BY <2>1, <2>4, <2>5, <2>7, <2>8, <2>9
  <2> QED  BY <2>1, <2>2, <2>6, <2>7, <2>10, SeqEqual
<1>3. Split(a, sep) = <<a>>
  <2>1. \A i \in DOMAIN a : a[i] # sep  BY <1>1
  <2> QED  BY <2>1, SplitNone
<1>4. Split(Append(a, sep) \o b, sep) = Split(a, sep) \o Split(b, sep)  BY SplitConcat
<1> QED  BY <1>1, <1>2, <1>3, <1>4, Zenon

\* The elements of a sequence with one element more.
LEMMA ToSetAppend ==
  ASSUME NEW S, NEW s \in Seq(S), NEW x \in S
  PROVE  ToSet(Append(s, x)) = ToSet(s) \cup {x}
<1>1. DOMAIN Append(s, x) = (1 .. Len(s)) \cup {Len(s) + 1} /\ DOMAIN s = 1 .. Len(s)  OBVIOUS
<1>2. \A i \in 1 .. Len(s) : Append(s, x)[i] = s[i]  OBVIOUS
<1>3. Append(s, x)[Len(s) + 1] = x  OBVIOUS
<1> QED  BY <1>1, <1>2, <1>3, Zenon DEF ToSet

\* When a sequence that is not empty has one given element only.
LEMMA AppendOne ==
  ASSUME NEW S, NEW s \in Seq(S), NEW x \in S, NEW y \in S
  PROVE  Append(s, y) # <<>> /\ (Append(s, y) = <<x>> <=> s = <<>> /\ y = x)
<1>1. PICK v \in Seq(S), n \in Nat : v = Append(s, y) /\ n = Len(s)
  <2>1. Append(s, y) \in Seq(S) /\ Len(s) \in Nat  OBVIOUS
  <2> QED  BY <2>1, Zenon
<1>2. Len(v) = n + 1 /\ v[n + 1] = y  BY <1>1
<1>3. v # <<>>  BY <1>2
<1>4. ASSUME v = <<x>> PROVE s = <<>> /\ y = x
  <2>1. Len(<<x>>) = 1 /\ <<x>>[1] = x  OBVIOUS
  <2>2. n = 0  BY <1>2, <1>4, <2>1
  <2>3. s = <<>>
    <3>1. Len(s) = 0 => s = <<>>  OBVIOUS
    <3> QED  BY <1>1, <2>2, <3>1, Zenon
  <2>4. v[1] = y  BY <1>2, <2>2
  <2>5. v[1] = x  BY <1>4, <2>1, Zenon
  <2> QED  BY <2>3, <2>4, <2>5, Zenon
<1>5. ASSUME s = <<>>, y = x PROVE v = <<x>>
  <2>1. Append(<<>>, x) = <<x>>  OBVIOUS
  <2>2. v = Append(<<>>, x)  BY <1>1, <1>5, Zenon
  <2> QED  BY <2>1, <2>2, Zenon
<1> QED  BY <1>1, <1>3, <1>4, <1>5

\* Where a token starts a piece, and the pieces that are one token.
Starts(u, sep, x, i) == u[i] = x /\ (i = 1 \/ u[i - 1] = sep)

AloneKept(sep, x, r, u, acc) ==
  \E done \in Seq(r), open \in r :
    /\ acc = Append(done, open)
    /\ open = <<>> <=> (u = <<>> \/ u[Len(u)] = sep)
    /\ open = <<x>> <=> (u # <<>> /\ Starts(u, sep, x, Len(u)))
    /\ <<x>> \in ToSet(done) <=> \E i \in 1 .. Len(u) - 1 : Starts(u, sep, x, i) /\ u[i + 1] = sep

Finding == INSTANCE Folds_proofs WITH FoldStep <- SplitStep, FoldKept <- AloneKept

\* One token more keeps what AloneKept says of a split.
LEMMA AloneSteps ==
  ASSUME NEW S, NEW T, TextsOver(S, T), NEW sep \in S, NEW x \in S, x # sep,
         NEW u \in Seq(S), NEW acc, NEW y \in S, AloneKept(sep, x, T, u, acc)
  PROVE  AloneKept(sep, x, T, Append(u, y), SplitStep(sep, x, T, acc, y))
<1>1. PICK done \in Seq(T), open \in T :
        /\ acc = Append(done, open)
        /\ open = <<>> <=> (u = <<>> \/ u[Len(u)] = sep)
        /\ open = <<x>> <=> (u # <<>> /\ Starts(u, sep, x, Len(u)))
        /\ <<x>> \in ToSet(done) <=> \E i \in 1 .. Len(u) - 1 : Starts(u, sep, x, i) /\ u[i + 1] = sep
  BY DEF AloneKept
<1>2. Append(open, y) \in T /\ <<>> \in T  BY DEF TextsOver
<1>3. StepsTo(sep, x, T, done, open, y)  BY <1>2, SplitStepFacts
<1>4. PICK v \in Seq(S), n \in Nat : v = Append(u, y) /\ n = Len(u)
  <2>1. Append(u, y) \in Seq(S) /\ Len(u) \in Nat  OBVIOUS
  <2> QED  BY <2>1, Zenon
<1>5. Len(v) = n + 1 /\ v[n + 1] = y /\ v # <<>> /\ \A i \in 1 .. n : v[i] = u[i]  BY <1>4
<1>6. u = <<>> <=> n = 0  BY <1>4
<1>7. \A i \in 1 .. n : Starts(v, sep, x, i) <=> Starts(u, sep, x, i)  BY <1>5 DEF Starts
<1>8. CASE y = sep
  <2>1. SplitStep(sep, x, T, acc, y) = Append(Append(done, open), <<>>) /\ Append(done, open) \in Seq(T)
    BY <1>1, <1>3, <1>8 DEF StepsTo
  <2>2. <<x>> \in ToSet(Append(done, open)) <=> <<x>> \in ToSet(done) \/ open = <<x>>
    BY ToSetAppend
  <2>3. (\E i \in 1 .. (n + 1) - 1 : Starts(v, sep, x, i) /\ v[i + 1] = sep)
          <=> \/ \E i \in 1 .. n - 1 : Starts(u, sep, x, i) /\ u[i + 1] = sep
              \/ n # 0 /\ Starts(u, sep, x, n)
    <3>1. \A i \in 1 .. n - 1 : i \in 1 .. n /\ i + 1 \in 1 .. n  BY <1>4
    <3>2. \A i \in 1 .. (n + 1) - 1 : i \in 1 .. n - 1 \/ (n # 0 /\ i = n)  BY <1>4
    <3>3. n # 0 => n \in 1 .. (n + 1) - 1  BY <1>4
    <3>4. ASSUME NEW i \in 1 .. (n + 1) - 1, Starts(v, sep, x, i), v[i + 1] = sep
          PROVE  \/ \E j \in 1 .. n - 1 : Starts(u, sep, x, j) /\ u[j + 1] = sep
                 \/ n # 0 /\ Starts(u, sep, x, n)
      <4>1. CASE i \in 1 .. n - 1
        <5>1. i \in 1 .. n /\ i + 1 \in 1 .. n  BY <3>1, <4>1
        <5>2. Starts(u, sep, x, i) /\ u[i + 1] = sep  BY <1>5, <1>7, <3>4, <5>1
        <5> QED  BY <4>1, <5>2
      <4>2. CASE n # 0 /\ i = n
        <5>1. n \in 1 .. n  BY <4>2
        <5> QED  BY <1>7, <3>4, <4>2, <5>1
      <4> QED  BY <3>2, <4>1, <4>2
    <3>5. ASSUME NEW i \in 1 .. n - 1, Starts(u, sep, x, i), u[i + 1] = sep
          PROVE  i \in 1 .. (n + 1) - 1 /\ Starts(v, sep, x, i) /\ v[i + 1] = sep
      <4>1. i \in 1 .. n /\ i + 1 \in 1 .. n /\ i \in 1 .. (n + 1) - 1  BY <1>4
      <4> QED  BY <1>5, <1>7, <3>5, <4>1
    <3>6. n # 0 /\ Starts(u, sep, x, n) => n \in 1 .. (n + 1) - 1 /\ Starts(v, sep, x, n) /\ v[n + 1] = sep
      <4>1. n # 0 => n \in 1 .. n  OBVIOUS
      <4> QED  BY <1>5, <1>7, <1>8, <3>3, <4>1
    <3> QED  BY <3>4, <3>5, <3>6
  <2>4. <<x>> # <<>>  OBVIOUS
  <2>5. ~ Starts(v, sep, x, n + 1)  BY <1>5, <1>8 DEF Starts
  <2> QED  BY <1>1, <1>2, <1>4, <1>5, <1>6, <1>8, <2>1, <2>2, <2>3, <2>4, <2>5, ZenonT(120) DEF AloneKept
<1>9. CASE y # sep
  <2>1. SplitStep(sep, x, T, acc, y) = Append(done, Append(open, y))
    BY <1>1, <1>3, <1>9 DEF StepsTo
  <2>2. Append(open, y) # <<>> /\ (Append(open, y) = <<x>> <=> open = <<>> /\ y = x)
    BY AppendOne DEF TextsOver
  <2>3. (\E i \in 1 .. (n + 1) - 1 : Starts(v, sep, x, i) /\ v[i + 1] = sep)
          <=> \E i \in 1 .. n - 1 : Starts(u, sep, x, i) /\ u[i + 1] = sep
    <3>1. \A i \in 1 .. n - 1 : i \in 1 .. n /\ i + 1 \in 1 .. n /\ i \in 1 .. (n + 1) - 1  BY <1>4
    <3>2. \A i \in 1 .. (n + 1) - 1 : i \in 1 .. n - 1 \/ (n # 0 /\ i = n)  BY <1>4
    <3> QED  BY <1>4, <1>5, <1>7, <1>9, <3>1, <3>2
  <2>4. Starts(v, sep, x, n + 1) <=> y = x /\ (n = 0 \/ u[n] = sep)
    <3>1. n # 0 => n \in 1 .. n /\ (n + 1) - 1 = n /\ n + 1 # 1  BY <1>4
    <3>2. n = 0 <=> n + 1 = 1  BY <1>4
    <3> QED  BY <1>5, <3>1, <3>2 DEF Starts
  <2> QED  BY <1>1, <1>2, <1>4, <1>5, <1>6, <1>9, <2>1, <2>2, <2>3, <2>4, ZenonT(120) DEF AloneKept
<1> QED  BY <1>8, <1>9

HasPiece(s, sep, x) == \E c \in ToSet(Split(s, sep)) : c = <<x>>
StandsAlone(s, sep, x) == \E i \in 1 .. Len(s) : Starts(s, sep, x, i) /\ (i = Len(s) \/ s[i + 1] = sep)

\* A token is a piece of its own where the text or a separator ends on both its sides.
LEMMA SplitAlone ==
  ASSUME NEW S, NEW T, TextsOver(S, T), NEW sep \in S, NEW x \in S, x # sep, NEW s \in Seq(S)
  PROVE  HasPiece(s, sep, x) <=> StandsAlone(s, sep, x)
<1>1. PICK one : one = << <<>> >>  OBVIOUS
<1>2. AloneKept(sep, x, T, <<>>, one)
  <2>1. <<>> \in Seq(T) /\ <<>> \in T /\ one = Append(<<>>, <<>>) /\ <<>> # <<x>>  BY <1>1 DEF TextsOver
  <2>2. <<x>> \notin ToSet(<<>>)  BY DEF ToSet
  <2>3. ~ \E i \in 1 .. Len(<<>>) - 1 : Starts(<<>>, sep, x, i) /\ <<>>[i + 1] = sep  OBVIOUS
  <2> QED  BY <2>1, <2>2, <2>3 DEF AloneKept
<1>3. ASSUME NEW u \in Seq(S), NEW acc, NEW y \in S, AloneKept(sep, x, T, u, acc)
      PROVE  AloneKept(sep, x, T, Append(u, y), SplitStep(sep, x, T, acc, y))
  BY <1>3, AloneSteps
<1>4. AloneKept(sep, x, T, s, Finding!Fold(sep, x, T, one, s))
  BY <1>2, <1>3, Finding!FoldInduction
<1>5. Finding!Fold(sep, x, T, one, s) = Split(s, sep)
  BY <1>1 DEF Split, Finding!Fold, SplitStep, FoldLeft, MapThenFoldSet,
              Finding!MapThenFoldSet, Max, Finding!Max
<1>6. PICK done \in Seq(T), open \in T :
        /\ Split(s, sep) = Append(done, open)
        /\ open = <<x>> <=> (s # <<>> /\ Starts(s, sep, x, Len(s)))
        /\ <<x>> \in ToSet(done) <=> \E i \in 1 .. Len(s) - 1 : Starts(s, sep, x, i) /\ s[i + 1] = sep
  BY <1>4, <1>5 DEF AloneKept
<1>7. <<x>> \in ToSet(Split(s, sep)) <=> <<x>> \in ToSet(done) \/ open = <<x>>
  BY <1>6, ToSetAppend
<1>8. PICK n \in Nat : n = Len(s)  BY LenProperties
<1>9. /\ \A i \in 1 .. n : i \in 1 .. n - 1 \/ i = n
      /\ \A i \in 1 .. n - 1 : i \in 1 .. n
      /\ n # 0 => n \in 1 .. n
      /\ s # <<>> <=> n # 0
      /\ n = 0 => 1 .. n = {}
  BY <1>8
<1> QED  BY <1>6, <1>7, <1>8, <1>9 DEF HasPiece, StandsAlone

\* Trimming takes nothing of a text that neither starts nor ends with the token,
\* and of one with the token in front that token.
LEMMA Trimmed ==
  ASSUME NEW S, NEW s \in Seq(S), s # <<>>, NEW x \in S, s[1] # x, s[Len(s)] # x
  PROVE  TrimMatches(s, x) = s /\ TrimMatches(<<x>> \o s, x) = s
<1>1. PICK n \in Nat \ {0} : n = Len(s)  OBVIOUS
<1>2. TrimMatches(s, x) = s
  <2> DEFINE kept == { i \in DOMAIN s : s[i] # x }
  <2>1. 1 \in kept /\ n \in kept /\ \A i \in kept : i \in Nat /\ 1 <= i /\ i <= n  BY <1>1
  <2>2. Min(kept) = 1 /\ Max(kept) = n  BY <2>1 DEF Min, Max
  <2>3. SubSeq(s, 1, n) = s  BY <1>1
  <2> QED  BY <2>1, <2>2, <2>3 DEF TrimMatches
<1>3. TrimMatches(<<x>> \o s, x) = s
  <2>0. <<x>> \o s \in Seq(S)  OBVIOUS
  <2>1. PICK u \in Seq(S) : u = <<x>> \o s  BY <2>0, Zenon
  <2>2. DOMAIN u = 1 .. n + 1 /\ Len(u) = n + 1 /\ u[1] = x /\ \A i \in 2 .. n + 1 : u[i] = s[i - 1]
    BY <1>1, <2>1
  <2> DEFINE kept == { i \in DOMAIN u : u[i] # x }
  <2>3. 2 \in kept /\ n + 1 \in kept  BY <1>1, <2>2
  <2>4. \A i \in kept : i \in Nat /\ 2 <= i /\ i <= n + 1  BY <1>1, <2>2
  <2>5. Min(kept) = 2 /\ Max(kept) = n + 1  BY <2>3, <2>4 DEF Min, Max
  <2>6. SubSeq(u, 2, n + 1) = s
    <3>1. SubSeq(u, 2, n + 1) \in Seq(S) /\ Len(SubSeq(u, 2, n + 1)) = n  BY <2>2
    <3>2. ASSUME NEW i \in 1 .. n PROVE SubSeq(u, 2, n + 1)[i] = s[i]  BY <2>2
    <3> QED  BY <1>1, <3>1, <3>2, SeqEqual
  <2> QED  BY <2>1, <2>3, <2>5, <2>6 DEF TrimMatches
<1> QED  BY <1>2, <1>3

-----------------------------------------------------------------------------
(* The header with categories: from its text back to the groups *)

\* A group whose text the header can carry; S is the set of tokens.
Carried(S, comma, space, g) ==
  /\ g.text \in Seq(S) /\ g.text # <<>> /\ \A j \in DOMAIN g.text : g.text[j] # comma
  /\ g.text[1] # space /\ g.text[Len(g.text)] # space

Piece(space, u, i) == IF i = 1 THEN u[1].text ELSE <<space>> \o u[i].text

HeaderStep(comma, space, r, text, g) == IF text = <<>> THEN g.text ELSE text \o <<comma, space>> \o g.text

\* The groups of the header so far, and the pieces its text splits into.
HeaderKept(comma, space, r, u, text) ==
  \/ u = <<>> /\ text = <<>>
  \/ u # <<>> /\ text # <<>> /\ text \in Seq(r) /\ Split(text, comma) = [i \in 1 .. Len(u) |-> Piece(space, u, i)]

Heading == INSTANCE Folds_proofs WITH FoldStep <- HeaderStep, FoldKept <- HeaderKept

\* A text in front of another, with a token and a space between them.
Joins(S, a, x, y, b) ==
  /\ a \o <<x, y>> \o b = Append(a, x) \o (<<y>> \o b)
  /\ a \o <<x, y>> \o b \in Seq(S) /\ a \o <<x, y>> \o b # <<>> /\ <<y>> \o b \in Seq(S)

\* Two texts joined by two tokens, token by token.
LEMMA Joined ==
  ASSUME NEW S, NEW a \in Seq(S), NEW b \in Seq(S), NEW x \in S, NEW y \in S
  PROVE  Joins(S, a, x, y, b)
<1>1. PICK c \in Seq(S), d \in Seq(S), e \in Seq(S), two \in Seq(S), m \in Nat, n \in Nat :
        /\ c = a \o two /\ d = Append(a, x) /\ e = <<y>> \o b /\ two = <<x, y>>
        /\ m = Len(a) /\ n = Len(b)
  <2>1. /\ a \o <<x, y>> \in Seq(S) /\ Append(a, x) \in Seq(S) /\ <<y>> \o b \in Seq(S) /\ <<x, y>> \in Seq(S)
        /\ Len(a) \in Nat /\ Len(b) \in Nat
    OBVIOUS
  <2> QED  BY <2>1, Zenon
<1>2. Len(two) = 2 /\ two[1] = x /\ two[2] = y  BY <1>1
<1>3. Len(c) = m + 2 /\ \A i \in 1 .. m + 2 : c[i] = IF i <= m THEN a[i] ELSE two[i - m]
  <2>1. Len(a \o two) = Len(a) + Len(two)
        /\ \A i \in 1 .. Len(a) + Len(two) : (a \o two)[i] = IF i <= Len(a) THEN a[i] ELSE two[i - Len(a)]
    BY ConcatProperties
  <2> QED  BY <1>1, <1>2, <2>1
<1>4. Len(d) = m + 1 /\ \A i \in 1 .. m + 1 : d[i] = IF i <= m THEN a[i] ELSE x
  <2>1. Len(d) = m + 1 /\ d[m + 1] = x /\ \A i \in 1 .. m : d[i] = a[i]  BY <1>1
  <2>2. \A i \in 1 .. m + 1 : (i <= m => i \in 1 .. m) /\ (~ i <= m => i = m + 1)  BY <1>1
  <2> QED  BY <2>1, <2>2
<1>5. Len(e) = n + 1 /\ \A i \in 1 .. n + 1 : e[i] = IF i = 1 THEN y ELSE b[i - 1]
  BY <1>1
<1>6. PICK f \in Seq(S), g \in Seq(S) : f = c \o b /\ g = d \o e
  <2>1. c \o b \in Seq(S) /\ d \o e \in Seq(S)  OBVIOUS
  <2> QED  BY <2>1, Zenon
<1>7. Len(f) = m + n + 2 /\ \A i \in 1 .. m + n + 2 : f[i] = IF i <= m + 2 THEN c[i] ELSE b[i - (m + 2)]
  <2>1. Len(c \o b) = Len(c) + Len(b)
        /\ \A i \in 1 .. Len(c) + Len(b) : (c \o b)[i] = IF i <= Len(c) THEN c[i] ELSE b[i - Len(c)]
    BY ConcatProperties
  <2>2. (m + 2) + n = m + n + 2  OBVIOUS
  <2> QED  BY <1>1, <1>3, <1>6, <2>1, <2>2, ZenonT(120)
<1>8. Len(g) = m + n + 2 /\ \A i \in 1 .. m + n + 2 : g[i] = IF i <= m + 1 THEN d[i] ELSE e[i - (m + 1)]
  <2>1. Len(d \o e) = Len(d) + Len(e)
        /\ \A i \in 1 .. Len(d) + Len(e) : (d \o e)[i] = IF i <= Len(d) THEN d[i] ELSE e[i - Len(d)]
    BY ConcatProperties
  <2>2. (m + 1) + (n + 1) = m + n + 2  OBVIOUS
  <2> QED  BY <1>4, <1>5, <1>6, <2>1, <2>2
<1>9. ASSUME NEW i \in 1 .. m + n + 2 PROVE f[i] = g[i]
  <2>1. CASE i <= m
    <3>1. i \in 1 .. m + 2 /\ i \in 1 .. m + 1 /\ i <= m + 2 /\ i <= m + 1  BY <2>1
    <3> QED  BY <1>3, <1>4, <1>7, <1>8, <2>1, <3>1
  <2>2. CASE i = m + 1
    <3>1. i \in 1 .. m + 2 /\ i \in 1 .. m + 1 /\ i <= m + 2 /\ i <= m + 1 /\ ~ i <= m /\ i - m = 1  BY <2>2
    <3> QED  BY <1>2, <1>3, <1>4, <1>7, <1>8, <3>1
  <2>3. CASE i = m + 2
    <3>1. i \in 1 .. m + 2 /\ i <= m + 2 /\ ~ i <= m + 1 /\ ~ i <= m /\ i - m = 2 /\ i - (m + 1) = 1 /\ 1 \in 1 .. n + 1
      BY <2>3
    <3> QED  BY <1>2, <1>3, <1>5, <1>7, <1>8, <3>1
  <2>4. CASE i > m + 2
    <3>1. /\ ~ i <= m + 2 /\ ~ i <= m + 1 /\ i - (m + 1) \in 1 .. n + 1 /\ i - (m + 1) # 1
          /\ (i - (m + 1)) - 1 = i - (m + 2)
      BY <2>4
    <3> QED  BY <1>5, <1>7, <1>8, <3>1, ZenonT(120)
  <2> QED  BY <2>1, <2>2, <2>3, <2>4
<1>10. f = g  BY <1>7, <1>8, <1>9, SeqEqual
<1>11. f # <<>>  BY <1>7
<1> QED  BY <1>1, <1>6, <1>10, <1>11 DEF Joins

\* One element more of a sequence that is given place by place.
LEMMA Listed ==
  ASSUME NEW S, NEW n \in Nat, NEW f, \A i \in 1 .. n + 1 : f[i] \in S
  PROVE  Append([i \in 1 .. n |-> f[i]], f[n + 1]) = [i \in 1 .. n + 1 |-> f[i]]
<1>1. PICK s \in Seq(S), v \in Seq(S), x \in S :
        s = [i \in 1 .. n |-> f[i]] /\ v = [i \in 1 .. n + 1 |-> f[i]] /\ x = f[n + 1]
  <2>1. [i \in 1 .. n |-> f[i]] \in Seq(S) /\ [i \in 1 .. n + 1 |-> f[i]] \in Seq(S) /\ f[n + 1] \in S
    OBVIOUS
  <2> QED  BY <2>1, Zenon
<1>2. Append(s, x) \in Seq(S)  OBVIOUS
<1>3. PICK w \in Seq(S) : w = Append(s, x)  BY <1>2, Zenon
<1>4. Len(s) = n /\ Len(v) = n + 1  BY <1>1
<1>5. Len(w) = n + 1 /\ w[n + 1] = x /\ \A i \in 1 .. n : w[i] = s[i]  BY <1>3, <1>4
<1>6. ASSUME NEW i \in 1 .. n + 1 PROVE w[i] = v[i]  BY <1>1, <1>5
<1>7. w = v  BY <1>4, <1>5, <1>6, SeqEqual
<1> QED  BY <1>1, <1>3, <1>7

\* One group more in a header keeps what HeaderKept says of its text.
LEMMA HeaderSteps ==
  ASSUME NEW S, NEW T, TextsOver(S, T), NEW comma \in S, NEW space \in S, space # comma, NEW G, \A h \in G : Carried(S, comma, space, h),
         NEW u \in Seq(G), NEW text, NEW g \in G, HeaderKept(comma, space, S, u, text)
  PROVE  HeaderKept(comma, space, S, Append(u, g), HeaderStep(comma, space, S, text, g))
<1>0. Carried(S, comma, space, g)  OBVIOUS
<1>1. PICK v \in Seq(G), n \in Nat : v = Append(u, g) /\ n = Len(u)
  <2>1. Append(u, g) \in Seq(G) /\ Len(u) \in Nat  OBVIOUS
  <2> QED  BY <2>1, Zenon
<1>2. Len(v) = n + 1 /\ v[n + 1] = g /\ \A i \in 1 .. n : v[i] = u[i]  BY <1>1
<1>3. v # <<>>  BY <1>2
<1>4. CASE text = <<>>
  <2>1. n = 0 /\ HeaderStep(comma, space, S, text, g) = g.text  BY <1>1, <1>4 DEF HeaderKept, HeaderStep
  <2>2. Split(g.text, comma) = <<g.text>>  BY <1>0, SplitNone DEF Carried
  <2>3. [i \in 1 .. 1 |-> Piece(space, v, i)] = <<g.text>>
    <3>1. v[1] = g  BY <1>2, <2>1
    <3>2. Piece(space, v, 1) = g.text  BY <3>1 DEF Piece
    <3> QED  BY <3>2
  <2>4. Len(v) = 1  BY <1>2, <2>1
  <2> QED  BY <1>0, <1>1, <1>3, <2>1, <2>2, <2>3, <2>4 DEF HeaderKept, Carried
<1>5. CASE text # <<>>
  <2>1. /\ u # <<>> /\ text \in Seq(S) /\ Split(text, comma) = [i \in 1 .. n |-> Piece(space, u, i)]
        /\ HeaderStep(comma, space, S, text, g) = text \o <<comma, space>> \o g.text
    BY <1>1, <1>5 DEF HeaderKept, HeaderStep
  <2>2. PICK p \in Seq(S) : p = <<space>> \o g.text
    <3>1. <<space>> \o g.text \in Seq(S)  BY <1>0 DEF Carried
    <3> QED  BY <3>1, Zenon
  <2>3. /\ text \o <<comma, space>> \o g.text = Append(text, comma) \o p
        /\ text \o <<comma, space>> \o g.text \in Seq(S) /\ text \o <<comma, space>> \o g.text # <<>>
    <3>1. PICK t \in Seq(S) : t = g.text  BY <1>0 DEF Carried
    <3>2. Joins(S, text, comma, space, t)  BY <2>1, Joined
    <3> QED  BY <2>2, <3>1, <3>2, Zenon DEF Joins
  <2>4. Split(p, comma) = <<p>>
    <3>1. PICK t \in Seq(S) : t = g.text  BY <1>0 DEF Carried
    <3>2. \A i \in DOMAIN t : t[i] # comma  BY <1>0, <3>1 DEF Carried
    <3>3. \A i \in DOMAIN p : p[i] = space \/ \E j \in DOMAIN t : p[i] = t[j]  BY <2>2, <3>1
    <3>4. \A i \in DOMAIN p : p[i] # comma  BY <3>2, <3>3
    <3> QED  BY <3>4, SplitNone
  <2>5. Split(text \o <<comma, space>> \o g.text, comma) = Split(text, comma) \o <<p>>
    <3>1. Split(Append(text, comma) \o p, comma) = Split(text, comma) \o Split(p, comma)
      BY <2>1, SplitConcat, ZenonT(120)
    <3> QED  BY <2>3, <2>4, <3>1, Zenon
  <2>6. Split(text, comma) \in Seq(T)  BY <2>1, SplitTyped
  <2>7. p \in T  BY <2>2 DEF TextsOver
  <2>8. Split(text, comma) \o <<p>> = Append(Split(text, comma), p)  BY <2>6, <2>7
  <2>9. PICK f : f = [i \in 1 .. n + 1 |-> Piece(space, v, i)]  OBVIOUS
  <2>10. \A i \in 1 .. n : f[i] = Piece(space, u, i)
    <3>1. u # <<>> => n # 0  BY <1>1
    <3>2. 1 \in 1 .. n  BY <2>1, <3>1
    <3> QED  BY <1>2, <2>9, <3>2 DEF Piece
  <2>11. f[n + 1] = p
    <3>1. n + 1 # 1  BY <1>1, <2>1
    <3> QED  BY <1>2, <2>2, <2>9, <3>1 DEF Piece
  <2>12. \A i \in 1 .. n + 1 : f[i] \in T
    <3>1. \A i \in 1 .. n : Split(text, comma)[i] \in T
      <4>1. PICK s \in Seq(T) : s = Split(text, comma)  BY <2>6, Zenon
      <4>2. DOMAIN s = 1 .. n  BY <2>1, <4>1
      <4>3. \A i \in DOMAIN s : s[i] \in T  OBVIOUS
      <4> QED  BY <4>1, <4>2, <4>3
    <3>2. \A i \in 1 .. n : f[i] \in T  BY <2>1, <2>10, <3>1
    <3> QED  BY <2>7, <2>11, <3>2
  <2>13. Append([i \in 1 .. n |-> f[i]], f[n + 1]) = [i \in 1 .. n + 1 |-> f[i]]  BY <2>12, Listed
  <2>14. Split(text, comma) = [i \in 1 .. n |-> f[i]]  BY <2>1, <2>10
  <2>15. [i \in 1 .. n + 1 |-> f[i]] = f  BY <2>9
  <2>16. Split(text \o <<comma, space>> \o g.text, comma) = f
    BY <2>5, <2>8, <2>11, <2>13, <2>14, <2>15, Zenon
  <2> QED  BY <1>1, <1>2, <1>3, <2>1, <2>3, <2>9, <2>16 DEF HeaderKept
<1> QED  BY <1>4, <1>5

\* The pieces of a header are the texts of its groups, but for the spaces.
LEMMA HeaderSplits ==
  ASSUME NEW S, NEW T, TextsOver(S, T), NEW comma \in S, NEW space \in S, space # comma, NEW G, \A h \in G : Carried(S, comma, space, h),
         NEW gs \in Seq(G)
  PROVE  HeaderKept(comma, space, S, gs, Heading!Fold(comma, space, S, <<>>, gs))
<1>1. HeaderKept(comma, space, S, <<>>, <<>>)  BY DEF HeaderKept
<1>2. ASSUME NEW u \in Seq(G), NEW text, NEW g \in G, HeaderKept(comma, space, S, u, text)
      PROVE  HeaderKept(comma, space, S, Append(u, g), HeaderStep(comma, space, S, text, g))
  BY <1>2, HeaderSteps
<1>3. HeaderKept(comma, space, S, gs, Heading!Fold(comma, space, S, <<>>, gs))
  BY <1>1, <1>2, Heading!FoldInduction
<1> QED  BY <1>3

\* The text of a header is a fold over its groups.
LEMMA HeaderIsFold ==
  ASSUME NEW gs, NEW r
  PROVE  HeaderText(gs) = Heading!Fold(",", " ", r, <<>>, gs)
BY Zenon DEF HeaderText, Heading!Fold, HeaderStep, FoldLeft, MapThenFoldSet,
       Heading!MapThenFoldSet, Max, Heading!Max

-----------------------------------------------------------------------------
(* A group of the header: what its pieces name is what its text asks for *)

NamedIn(semi, categories) ==
  IF categories = <<>> THEN {"global"}
  ELSE { l \in LimitCategories : \E c \in ToSet(Split(categories, semi)) : c = <<l>> }

Ends(colon, text) == { n \in 3..Len(text) : text[n] = colon }

AsksBy(colon, semi, text) ==
  IF text[1] \notin DOMAIN TenthsOf \/ Ends(colon, text) = {} \/ text[2] # colon THEN {}
  ELSE IF 3 \in Ends(colon, text) THEN {"global"}
  ELSE { l \in LimitCategories : \E i \in 3..(Min(Ends(colon, text)) - 1) :
           text[i] = l /\ text[i - 1] \in {colon, semi} /\ text[i + 1] \in {colon, semi} }

\* What a group asks for, with its separators as parameters.
LEMMA AsksIsBy ==
  ASSUME NEW text, NEW categories
  PROVE  Asks(text) = AsksBy(":", ";", text) /\ NamedBy(categories) = NamedIn(";", categories)
BY Zenon DEF Asks, AsksBy, Ends, NamedBy, NamedIn

\* A set of natural numbers has a least element.
LEMMA Least ==
  ASSUME NEW Q \in SUBSET Nat, Q # {}
  PROVE  \E k \in Q : \A i \in Q : k <= i
<1> DEFINE N == {m \in Nat : (\E x \in Q : x <= m) => \E k \in Q : \A i \in Q : k <= i}
<1>1. 0 \in N
  <2> SUFFICES ASSUME NEW x \in Q, x <= 0 PROVE \E k \in Q : \A i \in Q : k <= i  OBVIOUS
  <2>1. \A i \in Q : x <= i  OBVIOUS
  <2> QED  BY <2>1
<1>2. ASSUME NEW m \in N PROVE m + 1 \in N
  <2> SUFFICES ASSUME NEW x \in Q, x <= m + 1 PROVE \E k \in Q : \A i \in Q : k <= i  OBVIOUS
  <2>1. CASE \E y \in Q : y <= m  BY <2>1
  <2>2. CASE \A y \in Q : m < y
    <3>1. \A i \in Q : x <= i  BY <2>2
    <3> QED  BY <3>1
  <2> QED  BY <2>1, <2>2
<1>3. N \in SUBSET Nat  OBVIOUS
<1>4. N = Nat
  <2> HIDE DEF N
  <2> QED  BY <1>1, <1>2, <1>3, Splitting!SetInduction
<1>5. PICK x \in Q : TRUE  OBVIOUS
<1>6. x \in N  BY <1>4
<1> QED  BY <1>6

\* The first place of a token in a text that has it.
LEMMA FirstPlace ==
  ASSUME NEW S, NEW s \in Seq(S), NEW x, \E i \in 1 .. Len(s) : s[i] = x
  PROVE  \E k \in 1 .. Len(s) : s[k] = x /\ \A i \in 1 .. k - 1 : s[i] # x
<1> DEFINE Q == {i \in 1 .. Len(s) : s[i] = x}
<1>1. PICK k \in Q : \A i \in Q : k <= i
  <2>1. Q \in SUBSET Nat /\ Q # {}  OBVIOUS
  <2> HIDE DEF Q
  <2> QED  BY <2>1, Least
<1>2. \A i \in 1 .. k - 1 : s[i] # x
  <2> SUFFICES ASSUME NEW i \in 1 .. k - 1, s[i] = x PROVE FALSE  OBVIOUS
  <2>1. i \in Q /\ ~ k <= i  OBVIOUS
  <2> QED  BY <1>1, <2>1
<1> QED  BY <1>2

\* The names between the first two colons.
NamedBetween(colon, semi, text, c, j, l) ==
  (\E p \in ToSet(Split(c, semi)) : p = <<l>>)
    <=> \E i \in 3..((j + 2) - 1) : text[i] = l /\ text[i - 1] \in {colon, semi} /\ text[i + 1] \in {colon, semi}

\* The categories of a group are what stands between its first two colons.
LEMMA BetweenColons ==
  ASSUME NEW S, NEW T, TextsOver(S, T), NEW colon \in S, NEW semi \in S, colon # semi,
         LimitCategories \subseteq S, colon \notin LimitCategories, semi \notin LimitCategories,
         NEW text \in Seq(S), NEW c \in Seq(S), NEW j \in Nat \ {0},
         text[2] = colon, text[j + 2] = colon,
         Len(c) = j - 1, \A i \in 1 .. j - 1 : c[i] = text[i + 2] /\ c[i] # colon,
         NEW l \in LimitCategories
  PROVE  NamedBetween(colon, semi, text, c, j, l)
<1>1. (\E p \in ToSet(Split(c, semi)) : p = <<l>>)
        <=> \E i \in 1 .. Len(c) : Starts(c, semi, l, i) /\ (i = Len(c) \/ c[i + 1] = semi)
  <2>1. l \in S /\ l # semi  OBVIOUS
  <2>2. HasPiece(c, semi, l) <=> StandsAlone(c, semi, l)  BY <2>1, SplitAlone
  <2> QED  BY <2>2, Zenon DEF HasPiece, StandsAlone
<1>2. ASSUME NEW i \in 1 .. j - 1
      PROVE  /\ (Starts(c, semi, l, i) /\ (i = j - 1 \/ c[i + 1] = semi))
                  <=> /\ text[i + 2] = l /\ text[(i + 2) - 1] \in {colon, semi}
                      /\ text[(i + 2) + 1] \in {colon, semi}
  <2>1. c[i] = text[i + 2]  OBVIOUS
  <2>2. (i = 1 \/ c[i - 1] = semi) <=> text[(i + 2) - 1] \in {colon, semi}
    <3>1. CASE i = 1
      <4>1. (i + 2) - 1 = 2  BY <3>1
      <4> QED  BY <3>1, <4>1
    <3>2. CASE i # 1
      <4>1. i - 1 \in 1 .. j - 1 /\ (i - 1) + 2 = (i + 2) - 1  BY <3>2
      <4>2. c[i - 1] = text[(i + 2) - 1] /\ c[i - 1] # colon  BY <4>1
      <4> QED  BY <3>2, <4>2
    <3> QED  BY <3>1, <3>2
  <2>3. (i = j - 1 \/ c[i + 1] = semi) <=> text[(i + 2) + 1] \in {colon, semi}
    <3>1. CASE i = j - 1
      <4>1. (i + 2) + 1 = j + 2  BY <3>1
      <4> QED  BY <3>1, <4>1
    <3>2. CASE i # j - 1
      <4>1. i + 1 \in 1 .. j - 1 /\ (i + 1) + 2 = (i + 2) + 1  BY <3>2
      <4>2. c[i + 1] = text[(i + 2) + 1] /\ c[i + 1] # colon  BY <4>1
      <4> QED  BY <3>2, <4>2
    <3> QED  BY <3>1, <3>2
  <2> QED  BY <2>1, <2>2, <2>3 DEF Starts
<1>3. \A i \in 1 .. j - 1 : i + 2 \in 3..((j + 2) - 1)  OBVIOUS
<1>4. \A i \in 3..((j + 2) - 1) : i - 2 \in 1 .. j - 1 /\ (i - 2) + 2 = i  OBVIOUS
<1>5. ASSUME NEW i \in 3..((j + 2) - 1), text[i] = l, text[i - 1] \in {colon, semi}, text[i + 1] \in {colon, semi}
      PROVE  \E k \in 1 .. j - 1 : Starts(c, semi, l, k) /\ (k = j - 1 \/ c[k + 1] = semi)
  <2>1. PICK k \in 1 .. j - 1 : k + 2 = i  BY <1>4
  <2> QED  BY <1>2, <1>5, <2>1
<1>6. ASSUME NEW k \in 1 .. j - 1, Starts(c, semi, l, k), k = j - 1 \/ c[k + 1] = semi
      PROVE  \E i \in 3..((j + 2) - 1) : text[i] = l /\ text[i - 1] \in {colon, semi} /\ text[i + 1] \in {colon, semi}
  <2>1. PICK i \in 3..((j + 2) - 1) : i = k + 2  BY <1>3
  <2> QED  BY <1>2, <1>6, <2>1
<1> QED  BY <1>1, <1>5, <1>6 DEF NamedBetween

\* A group is read as asking for what its text asks for, and for nothing otherwise.
GroupRead(colon, semi, text, splits) ==
  IF IsSeconds(splits[1]) /\ ~ Len(splits) < 3
  THEN /\ text[1] \in DOMAIN TenthsOf /\ splits[1][1] = text[1]
       /\ NamedIn(semi, splits[2]) = AsksBy(colon, semi, text)
  ELSE AsksBy(colon, semi, text) = {}

\* The separators of a group are tokens, and neither numbers nor names of limits.
Separators(S, colon, semi) ==
  /\ colon \in S /\ semi \in S /\ colon # semi /\ colon \notin DOMAIN TenthsOf
  /\ LimitCategories \subseteq S /\ colon \notin LimitCategories /\ semi \notin LimitCategories

\* What update_from_sentry_header reads in one group of the header.
LEMMA GroupNames ==
  ASSUME NEW S, NEW T, TextsOver(S, T), NEW colon, NEW semi, Separators(S, colon, semi),
         NEW text \in Seq(S), text # <<>>
  PROVE  GroupRead(colon, semi, text, Split(text, colon))
<1>0. /\ colon \in S /\ semi \in S /\ colon # semi /\ colon \notin DOMAIN TenthsOf
      /\ LimitCategories \subseteq S /\ colon \notin LimitCategories /\ semi \notin LimitCategories
  BY DEF Separators
<1>1. PICK n \in Nat \ {0} : n = Len(text)  OBVIOUS
<1>2. CASE \A i \in 1 .. n : text[i] # colon
  <2>1. Split(text, colon) = <<text>>  BY <1>1, <1>2, SplitNone
  <2>2. Len(Split(text, colon)) < 3  BY <2>1
  <2>3. Ends(colon, text) = {}
    <3>1. \A i \in 3 .. n : i \in 1 .. n  OBVIOUS
    <3> QED  BY <1>1, <1>2, <3>1 DEF Ends
  <2> QED  BY <2>2, <2>3 DEF GroupRead, AsksBy
<1>3. CASE \E i \in 1 .. n : text[i] = colon
  <2>1. PICK k \in 1 .. n : text[k] = colon /\ \A i \in 1 .. k - 1 : text[i] # colon
    BY <1>1, <1>3, FirstPlace
  <2>0. SubSeq(text, 1, k - 1) \in Seq(S) /\ SubSeq(text, k + 1, n) \in Seq(S)  BY <1>1
  <2>2. PICK a \in Seq(S), b \in Seq(S) : a = SubSeq(text, 1, k - 1) /\ b = SubSeq(text, k + 1, n)
    BY <2>0, Zenon
  <2>3. Len(a) = k - 1 /\ \A i \in 1 .. k - 1 : a[i] = text[i]  BY <1>1, <2>2
  <2>4. Len(b) = n - k /\ \A i \in 1 .. n - k : b[i] = text[k + i]  BY <1>1, <2>2
  <2>5. Split(text, colon) = <<a>> \o Split(b, colon)
    BY <1>0, <1>1, <2>1, <2>2, SplitAt
  <2>6. PICK more \in Seq(T) : more = Split(b, colon) /\ Len(more) > 0
    <3>1. Split(b, colon) \in Seq(T) /\ Len(Split(b, colon)) > 0  BY SplitTyped
    <3> QED  BY <3>1, Zenon
  <2>7. a \in T  BY DEF TextsOver
  <2>8. PICK splits \in Seq(T) : splits = <<a>> \o more
    <3>1. <<a>> \o more \in Seq(T)  BY <2>7
    <3> QED  BY <3>1, Zenon
  <2>9. splits[1] = a /\ splits[2] = more[1] /\ Len(splits) = 1 + Len(more)  BY <2>6, <2>7, <2>8
  <2>10. splits = Split(text, colon)  BY <2>5, <2>6, <2>8, Zenon
  <2>11. CASE k = 1
    <3>1. text[1] \notin DOMAIN TenthsOf  BY <1>0, <2>1, <2>11
    <3>2. ~ IsSeconds(splits[1])  BY <2>3, <2>9, <2>11 DEF IsSeconds
    <3> QED  BY <2>10, <3>1, <3>2 DEF GroupRead, AsksBy
  <2>12. CASE k > 2
    <3>1. text[2] # colon  BY <2>1, <2>12
    <3>2. ~ IsSeconds(splits[1])  BY <2>3, <2>9, <2>12 DEF IsSeconds
    <3> QED  BY <2>10, <3>1, <3>2 DEF GroupRead, AsksBy
  <2>13. CASE k = 2
    <3>1. Len(a) = 1 /\ a[1] = text[1] /\ text[2] = colon  BY <2>1, <2>3, <2>13
    <3>2. IsSeconds(splits[1]) <=> text[1] \in DOMAIN TenthsOf  BY <2>9, <3>1 DEF IsSeconds
    <3>3. n >= 2 /\ Len(b) = n - 2 /\ \A i \in 1 .. n - 2 : b[i] = text[i + 2]
      <4>1. n >= 2 /\ Len(b) = n - 2  BY <2>4, <2>13
      <4>2. \A i \in 1 .. n - 2 : b[i] = text[2 + i] /\ 2 + i = i + 2  BY <2>4, <2>13
      <4> QED  BY <4>1, <4>2
    <3>4. CASE \A i \in 1 .. n - 2 : b[i] # colon
      <4>1. Split(b, colon) = <<b>>
        <5>1. DOMAIN b = 1 .. n - 2  BY <3>3
        <5> QED  BY <1>0, <3>4, <5>1, SplitNone
      <4>2. Len(splits) < 3
        <5>1. Len(<<b>>) = 1  OBVIOUS
        <5> QED  BY <2>6, <2>9, <4>1, <5>1
      <4>3. Ends(colon, text) = {}
        <5>1. \A i \in 3 .. n : i - 2 \in 1 .. n - 2 /\ (i - 2) + 2 = i  BY <3>3
        <5>2. \A i \in 3 .. n : text[i] # colon  BY <3>3, <3>4, <5>1
        <5> QED  BY <1>1, <5>2 DEF Ends
      <4> QED  BY <2>10, <4>2, <4>3 DEF GroupRead, AsksBy
    <3>5. CASE \E i \in 1 .. n - 2 : b[i] = colon
      <4>1. PICK j \in 1 .. n - 2 : b[j] = colon /\ \A i \in 1 .. j - 1 : b[i] # colon
        BY <3>3, <3>5, FirstPlace
      <4>0. SubSeq(b, 1, j - 1) \in Seq(S) /\ SubSeq(b, j + 1, n - 2) \in Seq(S)  BY <3>3
      <4>2. PICK c \in Seq(S), d \in Seq(S) : c = SubSeq(b, 1, j - 1) /\ d = SubSeq(b, j + 1, n - 2)
        BY <4>0, Zenon
      <4>3. Len(c) = j - 1 /\ \A i \in 1 .. j - 1 : c[i] = b[i]  BY <3>3, <4>2, SMTT(90)
      <4>4. more = <<c>> \o Split(d, colon)  BY <1>0, <2>6, <3>3, <4>1, <4>2, SplitAt
      <4>5. PICK rest \in Seq(T) : rest = Split(d, colon) /\ Len(rest) > 0
        <5>1. Split(d, colon) \in Seq(T) /\ Len(Split(d, colon)) > 0  BY SplitTyped
        <5> QED  BY <5>1, Zenon
      <4>6. c \in T  BY DEF TextsOver
      <4>7. more[1] = c /\ Len(more) = 1 + Len(rest)  BY <4>4, <4>5, <4>6
      <4>8. splits[2] = c /\ ~ Len(splits) < 3
        <5>1. PICK m \in Nat : m = Len(rest)  BY LenProperties
        <5> QED  BY <2>9, <4>5, <4>7, <5>1
      <4>9. j + 2 \in Ends(colon, text) /\ \A i \in Ends(colon, text) : i \in Nat /\ j + 2 <= i
        <5>1. j + 2 \in 3 .. n /\ text[j + 2] = colon  BY <3>3, <4>1
        <5>2. ASSUME NEW i \in 3 .. n, text[i] = colon, ~ j + 2 <= i PROVE FALSE
          <6>1. i - 2 \in 1 .. j - 1 /\ i - 2 \in 1 .. n - 2 /\ (i - 2) + 2 = i  BY <5>2
          <6>2. b[i - 2] = text[i]  BY <3>3, <6>1
          <6> QED  BY <4>1, <5>2, <6>1, <6>2
        <5> QED  BY <1>1, <5>1, <5>2 DEF Ends
      <4>10. Min(Ends(colon, text)) = j + 2  BY <4>9 DEF Min
      <4>11. Ends(colon, text) # {}  BY <4>9
      <4>12. 3 \in Ends(colon, text) <=> c = <<>>
        <5>1. c = <<>> <=> j = 1  BY <4>3
        <5>2. 3 \in Ends(colon, text) => j = 1  BY <4>9
        <5>3. j = 1 => 3 \in Ends(colon, text)  BY <4>9
        <5> QED  BY <5>1, <5>2, <5>3
      <4>13. ASSUME text[1] \in DOMAIN TenthsOf
             PROVE  NamedIn(semi, c) = AsksBy(colon, semi, text)
        <5>1. ASSUME NEW l \in LimitCategories
              PROVE  NamedBetween(colon, semi, text, c, j, l)
          <6>1. \A i \in 1 .. j - 1 : c[i] = text[i + 2] /\ c[i] # colon
            <7>1. \A i \in 1 .. j - 1 : i \in 1 .. n - 2  OBVIOUS
            <7> QED  BY <3>3, <4>1, <4>3, <7>1
          <6>2. j \in Nat \ {0} /\ text[j + 2] = colon  BY <3>3, <4>1
          <6> QED  BY <1>0, <3>1, <4>3, <6>1, <6>2, BetweenColons
        <5> QED  BY <3>1, <4>10, <4>11, <4>12, <4>13, <5>1, Zenon DEF NamedIn, AsksBy, NamedBetween
      <4>14. text[1] \notin DOMAIN TenthsOf => AsksBy(colon, semi, text) = {}  BY DEF AsksBy
      <4> QED  BY <2>9, <2>10, <3>1, <3>2, <4>8, <4>13, <4>14, Zenon DEF GroupRead
    <3> QED  BY <3>4, <3>5
  <2> QED  BY <2>11, <2>12, <2>13
<1> QED  BY <1>2, <1>3

-----------------------------------------------------------------------------
(* Times *)

AtTime(t, seconds) ==
  IF t + seconds > LastTime THEN (IF t + DefaultDelay > LastTime THEN t ELSE t + DefaultDelay) ELSE t + seconds

\* A time after now, with the clock as a parameter.
LEMMA TimeAfterIsAt ==
  ASSUME NEW seconds
  PROVE  TimeAfter(seconds) = AtTime(now, seconds)
BY Zenon DEF TimeAfter, TimeAfterDefaultDelay, AtTime

AfterAt(at, tenths) ==
  CHOOSE t \in at..LastTime : 10 * (t - at) >= tenths
                              /\ \A u \in at..(t - 1) : 10 * (u - at) < tenths

UntilAt(at, text) ==
  IF text \in DOMAIN TenthsOf /\ TenthsOf[text] <= 10 * (LastTime - at) THEN AfterAt(at, TenthsOf[text])
  ELSE IF text \in DOMAIN DateOf THEN DateOf[text] ELSE at + DefaultDelay

\* What LimiterAssumption says of the clock and the texts of times.
LEMMA ClockFacts ==
  /\ DefaultDelay \in Nat /\ LastTime \in Nat /\ MaxNow \in Nat /\ MaxNow + DefaultDelay <= LastTime
  /\ \A text \in DOMAIN TenthsOf : TenthsOf[text] \in Int /\ text \notin DOMAIN DateOf
  /\ \A text \in DOMAIN DateOf : DateOf[text] \in Int
  /\ ":" \notin DOMAIN TenthsOf
  /\ None \notin Int /\ None \notin DOMAIN TenthsOf /\ None \notin DOMAIN DateOf
BY Zenon, LimiterAssumption DEF LimiterAssumption

\* Without the separator, whose text the arithmetic has no use for.
LEMMA ClockNumbers ==
  /\ DefaultDelay \in Nat /\ LastTime \in Nat /\ MaxNow \in Nat /\ MaxNow + DefaultDelay <= LastTime
  /\ \A text \in DOMAIN TenthsOf : TenthsOf[text] \in Int /\ text \notin DOMAIN DateOf
  /\ \A text \in DOMAIN DateOf : DateOf[text] \in Int
  /\ None \notin Int /\ None \notin DOMAIN TenthsOf /\ None \notin DOMAIN DateOf
BY Zenon, ClockFacts

\* A number of seconds is rounded up, never below zero, and a delay beyond the
\* clock's end is the default one.
LEMMA UntilOfNumber ==
  ASSUME NEW t \in 0..MaxNow, NEW text \in DOMAIN TenthsOf
  PROVE  UntilAt(t, text) = AtTime(t, WholeSeconds(text))
<1>0. DefaultDelay \in Nat /\ LastTime \in Nat /\ t \in Nat /\ t + DefaultDelay <= LastTime
  BY ClockNumbers
<1>1. PICK v \in Int : v = TenthsOf[text]  BY ClockNumbers
<1>2. PICK c \in Int : c = (v + 9) \div 10 /\ 10 * c <= v + 9 /\ v + 9 < 10 * c + 10
  OBVIOUS
<1>3. PICK w \in Nat : w = IF c < 0 THEN 0 ELSE c  OBVIOUS
<1>4. WholeSeconds(text) = w  BY <1>1, <1>2, <1>3 DEF WholeSeconds
<1>5. 10 * w >= v /\ (w = 0 \/ 10 * (w - 1) < v)  BY <1>2, <1>3
<1>6. CASE v <= 10 * (LastTime - t)
  <2>1. t + w <= LastTime  BY <1>0, <1>5, <1>6
  <2>2. AtTime(t, w) = t + w  BY <1>0, <2>1 DEF AtTime
  <2>3. t + w \in t..LastTime /\ 10 * ((t + w) - t) >= v
    BY <1>0, <1>5, <2>1
  <2>4. \A u \in t..((t + w) - 1) : 10 * (u - t) < v  BY <1>0, <1>5
  <2>5. ASSUME NEW x \in t..LastTime, 10 * (x - t) >= v, \A u \in t..(x - 1) : 10 * (u - t) < v
        PROVE  x = t + w
    <3>1. ASSUME x < t + w PROVE FALSE
      <4>1. x \in t..((t + w) - 1)  BY <1>0, <3>1
      <4> QED  BY <1>0, <2>4, <2>5, <4>1
    <3>2. ASSUME t + w < x PROVE FALSE
      <4>1. t + w \in t..(x - 1)  BY <1>0, <3>2
      <4> QED  BY <1>0, <2>3, <2>5, <4>1
    <3> QED  BY <1>0, <3>1, <3>2
  <2>6. AfterAt(t, v) = t + w  BY <2>3, <2>4, <2>5 DEF AfterAt
  <2> QED  BY <1>1, <1>4, <1>6, <2>2, <2>6 DEF UntilAt
<1>7. CASE v > 10 * (LastTime - t)
  <2>1. t + w > LastTime  BY <1>0, <1>5, <1>7
  <2>2. AtTime(t, w) = t + DefaultDelay  BY <1>0, <2>1 DEF AtTime
  <2>3. ~ v <= 10 * (LastTime - t)  BY <1>0, <1>7
  <2>4. text \notin DOMAIN DateOf  BY ClockNumbers
  <2> QED  BY <1>1, <1>4, <2>2, <2>3, <2>4 DEF UntilAt
<1> QED  BY <1>0, <1>6, <1>7

\* The end of a limit is a time, whatever the text says.
LEMMA UntilIsTime ==
  ASSUME NEW t \in 0..MaxNow, NEW text
  PROVE  UntilAt(t, text) \in Int /\ UntilAt(t, text) # None
<1>1. None \notin Int  BY ClockNumbers
<1>2. UntilAt(t, text) \in Int
  <2>1. CASE text \in DOMAIN TenthsOf
    <3>1. PICK w \in Nat : w = WholeSeconds(text)
      <4>1. PICK v \in Int : v = TenthsOf[text]  BY <2>1, ClockNumbers
      <4>2. (v + 9) \div 10 \in Int  OBVIOUS
      <4> QED  BY <4>1, <4>2 DEF WholeSeconds
    <3>2. UntilAt(t, text) = AtTime(t, w)  BY <2>1, <3>1, UntilOfNumber
    <3> QED  BY <3>2, ClockNumbers DEF AtTime
  <2>2. CASE text \notin DOMAIN TenthsOf /\ text \in DOMAIN DateOf
    BY <2>2, ClockNumbers DEF UntilAt
  <2>3. CASE text \notin DOMAIN TenthsOf /\ text \notin DOMAIN DateOf
    BY <2>3, ClockNumbers DEF UntilAt
  <2> QED  BY <2>1, <2>2, <2>3
<1> QED  BY <1>1, <1>2

-----------------------------------------------------------------------------
(* Orders applied to limits, the last one counting *)

LastNaming(os, l) == SelectLastInSeq(os, LAMBDA o : l \in o.names)

IsLast(os, l, k) ==
  \/ k = 0 /\ \A i \in 1 .. Len(os) : l \notin os[i].names
  \/ k \in 1 .. Len(os) /\ l \in os[k].names /\ \A i \in 1 .. Len(os) : i > k => l \notin os[i].names

\* The last order that names a limit is found.
LEMMA LastExists ==
  ASSUME NEW os, Len(os) \in Nat, NEW l
  PROVE  IsLast(os, l, LastNaming(os, l))
<1>1. PICK n \in Nat : n = Len(os)  OBVIOUS
<1> DEFINE I == { i \in 1 .. n : l \in os[i].names }
<1>2. LastNaming(os, l) = IF I # {} THEN Max(I) ELSE 0
  BY <1>1 DEF LastNaming, SelectLastInSeq
<1>3. CASE I = {}  BY <1>1, <1>2, <1>3 DEF IsLast
<1>4. CASE I # {}
  <2>1. I \in SUBSET (1 .. n)  OBVIOUS
  <2>2. Splitting!Max(I) \in I /\ \A y \in I : Splitting!Max(I) >= y
    <3> HIDE DEF I
    <3> QED  BY <1>4, <2>1, Splitting!MaxOf
  <2>3. PICK m \in I : m = Max(I) /\ \A y \in I : m >= y  BY <2>2 DEF Max, Splitting!Max
  <2>4. \A i \in 1 .. n : i > m => l \notin os[i].names  BY <2>3
  <2> QED  BY <1>1, <1>2, <1>4, <2>3, <2>4 DEF IsLast
<1> QED  BY <1>3, <1>4

\* There is one last order that names a limit.
LEMMA LastUnique ==
  ASSUME NEW os, Len(os) \in Nat, NEW l, NEW j, NEW k, IsLast(os, l, j), IsLast(os, l, k)
  PROVE  j = k
<1>1. PICK n \in Nat : n = Len(os)  OBVIOUS
<1>2. CASE j = 0 \/ k = 0  BY <1>1, <1>2 DEF IsLast
<1>3. CASE j # 0 /\ k # 0
  <2>1. j \in 1 .. n /\ k \in 1 .. n /\ ~ j > k /\ ~ k > j  BY <1>1, <1>3 DEF IsLast
  <2> QED  BY <2>1
<1> QED  BY <1>2, <1>3

\* What is left of limits after orders.
Applied(ls, os) ==
  [l \in Limits |-> IF LastNaming(os, l) = 0 THEN ls[l] ELSE os[LastNaming(os, l)].until]

AppliedOne(ls, o) == [l \in Limits |-> IF l \in o.names THEN o.until ELSE ls[l]]

\* No order changes no limit.
LEMMA AppliedEmpty ==
  ASSUME NEW ls, ls = [l \in Limits |-> ls[l]]
  PROVE  Applied(ls, <<>>) = ls
<1>1. \A l : LastNaming(<<>>, l) = 0
  <2> SUFFICES ASSUME NEW l PROVE LastNaming(<<>>, l) = 0  OBVIOUS
  <2>1. Len(<<>>) = 0  OBVIOUS
  <2>2. IsLast(<<>>, l, LastNaming(<<>>, l))  BY <2>1, LastExists
  <2> QED  BY <2>1, <2>2 DEF IsLast
<1> QED  BY <1>1 DEF Applied

\* The last order comes after the others.
LEMMA AppliedAppend ==
  ASSUME NEW ls, NEW O, NEW os \in Seq(O), NEW o \in O
  PROVE  Applied(ls, Append(os, o)) = AppliedOne(Applied(ls, os), o)
<1>1. PICK n \in Nat, v \in Seq(O) : n = Len(os) /\ v = Append(os, o)
  <2>1. Append(os, o) \in Seq(O) /\ Len(os) \in Nat  OBVIOUS
  <2> QED  BY <2>1, Zenon
<1>2. Len(v) = n + 1 /\ v[n + 1] = o /\ \A i \in 1 .. n : v[i] = os[i]  BY <1>1
<1>3. ASSUME NEW l \in Limits
      PROVE  (IF LastNaming(v, l) = 0 THEN ls[l] ELSE v[LastNaming(v, l)].until)
               = IF l \in o.names THEN o.until ELSE Applied(ls, os)[l]
  <2>1. PICK k : k = LastNaming(os, l)  OBVIOUS
  <2>2. IsLast(os, l, k) /\ IsLast(v, l, LastNaming(v, l))  BY <1>1, <1>2, <2>1, LastExists
  <2>3. Applied(ls, os)[l] = IF k = 0 THEN ls[l] ELSE os[k].until  BY <2>1 DEF Applied
  <2>4. CASE l \in o.names
    <3>1. IsLast(v, l, n + 1)  BY <1>2, <2>4 DEF IsLast
    <3>2. LastNaming(v, l) = n + 1  BY <1>2, <2>2, <3>1, LastUnique
    <3> QED  BY <1>2, <2>4, <3>2
  <2>5. CASE l \notin o.names
    <3>1. IsLast(v, l, k)
      <4>1. CASE k = 0
        <5>1. \A i \in 1 .. n + 1 : i \in 1 .. n \/ i = n + 1  OBVIOUS
        <5> QED  BY <1>1, <1>2, <2>2, <2>5, <4>1, <5>1 DEF IsLast
      <4>2. CASE k # 0
        <5>1. k \in 1 .. n /\ l \in os[k].names /\ \A i \in 1 .. n : i > k => l \notin os[i].names
          BY <1>1, <2>2, <4>2 DEF IsLast
        <5>2. \A i \in 1 .. n + 1 : i \in 1 .. n \/ i = n + 1  OBVIOUS
        <5>3. k \in 1 .. n + 1 /\ l \in v[k].names  BY <1>2, <5>1
        <5>4. \A i \in 1 .. n + 1 : i > k => l \notin v[i].names  BY <1>2, <2>5, <5>1, <5>2
        <5> QED  BY <1>2, <5>3, <5>4 DEF IsLast
      <4> QED  BY <4>1, <4>2
    <3>2. LastNaming(v, l) = k  BY <1>2, <2>2, <3>1, LastUnique
    <3>3. k = 0 \/ k \in 1 .. n  BY <1>1, <2>2 DEF IsLast
    <3> QED  BY <1>2, <2>3, <2>5, <3>2, <3>3
  <2> QED  BY <2>4, <2>5
<1> QED  BY <1>1, <1>3 DEF Applied, AppliedOne

\* Orders may be applied in two parts.
LEMMA AppliedConcat ==
  ASSUME NEW ls, NEW O, NEW a \in Seq(O), NEW b \in Seq(O)
  PROVE  Applied(ls, a \o b) = Applied(Applied(ls, a), b)
<1>1. PICK m \in Nat, n \in Nat, v \in Seq(O) : m = Len(a) /\ n = Len(b) /\ v = a \o b
  <2>1. a \o b \in Seq(O) /\ Len(a) \in Nat /\ Len(b) \in Nat  OBVIOUS
  <2> QED  BY <2>1, Zenon
<1>2. Len(v) = m + n /\ \A i \in 1 .. m + n : v[i] = IF i <= m THEN a[i] ELSE b[i - m]
  <2>1. Len(a \o b) = Len(a) + Len(b)
        /\ \A i \in 1 .. Len(a) + Len(b) : (a \o b)[i] = IF i <= Len(a) THEN a[i] ELSE b[i - Len(a)]
    BY ConcatProperties
  <2> QED  BY <1>1, <2>1
<1>3. \A i \in 1 .. m : i \in 1 .. m + n /\ v[i] = a[i]  BY <1>2
<1>4. \A i \in 1 .. n : m + i \in 1 .. m + n /\ v[m + i] = b[i]
  <2>1. \A i \in 1 .. n : m + i \in 1 .. m + n /\ ~ m + i <= m /\ (m + i) - m = i  OBVIOUS
  <2> QED  BY <1>2, <2>1
<1>5. \A i \in 1 .. m + n : i \in 1 .. m \/ \E j \in 1 .. n : i = m + j
  <2> SUFFICES ASSUME NEW i \in 1 .. m + n, ~ i \in 1 .. m PROVE \E j \in 1 .. n : i = m + j  OBVIOUS
  <2>1. i - m \in 1 .. n /\ i = m + (i - m)  OBVIOUS
  <2> QED  BY <2>1
<1>6. ASSUME NEW l \in Limits
      PROVE  (IF LastNaming(v, l) = 0 THEN ls[l] ELSE v[LastNaming(v, l)].until)
               = IF LastNaming(b, l) = 0 THEN Applied(ls, a)[l] ELSE b[LastNaming(b, l)].until
  <2>1. PICK j, k : j = LastNaming(a, l) /\ k = LastNaming(b, l)  OBVIOUS
  <2>2. IsLast(a, l, j) /\ IsLast(b, l, k) /\ IsLast(v, l, LastNaming(v, l))
    <3>1. Len(a) \in Nat /\ Len(b) \in Nat /\ Len(v) \in Nat  BY LenProperties
    <3> QED  BY <2>1, <3>1, LastExists, Zenon
  <2>3. Applied(ls, a)[l] = IF j = 0 THEN ls[l] ELSE a[j].until  BY <2>1 DEF Applied
  <2>4. CASE k = 0
    <3>1. \A i \in 1 .. n : l \notin b[i].names  BY <1>1, <2>2, <2>4 DEF IsLast
    <3>2. \A i \in 1 .. n : l \notin v[m + i].names  BY <1>4, <3>1
    <3>3. IsLast(v, l, j)
      <4>1. CASE j = 0
        <5>1. \A i \in 1 .. m : l \notin a[i].names  BY <1>1, <2>2, <4>1 DEF IsLast
        <5>2. \A i \in 1 .. m + n : l \notin v[i].names  BY <1>3, <1>5, <3>2, <5>1
        <5> QED  BY <1>2, <4>1, <5>2 DEF IsLast
      <4>2. CASE j # 0
        <5>1. j \in 1 .. m /\ l \in a[j].names /\ \A i \in 1 .. m : i > j => l \notin a[i].names
          BY <1>1, <2>2, <4>2 DEF IsLast
        <5>2. \A i \in 1 .. m + n : i > j => l \notin v[i].names  BY <1>3, <1>5, <3>2, <5>1
        <5> QED  BY <1>2, <1>3, <5>1, <5>2 DEF IsLast
      <4> QED  BY <4>1, <4>2
    <3>4. LastNaming(v, l) = j  BY <1>2, <2>2, <3>3, LastUnique
    <3>5. j = 0 \/ j \in 1 .. m  BY <1>1, <2>2 DEF IsLast
    <3> QED  BY <1>3, <2>1, <2>3, <2>4, <3>4, <3>5
  <2>5. CASE k # 0
    <3>1. k \in 1 .. n /\ l \in b[k].names /\ \A i \in 1 .. n : i > k => l \notin b[i].names
      BY <1>1, <2>2, <2>5 DEF IsLast
    <3>2. m + k \in 1 .. m + n /\ l \in v[m + k].names  BY <1>4, <3>1
    <3>3. ASSUME NEW i \in 1 .. m + n, i > m + k PROVE l \notin v[i].names
      <4>1. PICK h \in 1 .. n : i = m + h
        <5>1. ~ i \in 1 .. m  BY <3>1, <3>3
        <5> QED  BY <1>5, <5>1
      <4>2. h > k  BY <3>1, <3>3, <4>1
      <4> QED  BY <1>4, <3>1, <4>1, <4>2
    <3>4. IsLast(v, l, m + k)  BY <1>2, <3>2, <3>3 DEF IsLast
    <3>5. LastNaming(v, l) = m + k  BY <1>2, <2>2, <3>4, LastUnique
    <3>6. m + k # 0  BY <3>1
    <3> QED  BY <1>4, <2>1, <2>5, <3>1, <3>5, <3>6
  <2> QED  BY <2>4, <2>5
<1> QED  BY <1>1, <1>6 DEF Applied

-----------------------------------------------------------------------------
(* A header applied group after group *)

\* What a group asks for at a time.
OrderOf(t, text) == [names |-> Asks(text), until |-> UntilAt(t, text[1])]

GroupStep(t, base, r, ls, text) ==
  LET splits == Split(text, ":")
  IN  IF ~IsSeconds(splits[1]) \/ Len(splits) < 3 THEN ls
      ELSE [l \in Limits |-> IF l \in NamedBy(splits[2]) THEN AtTime(t, WholeSeconds(splits[1][1])) ELSE ls[l]]

GroupsKept(t, base, r, u, ls) == ls = Applied(base, [i \in 1 .. Len(u) |-> OrderOf(t, u[i])])

Grouping == INSTANCE Folds_proofs WITH FoldStep <- GroupStep, FoldKept <- GroupsKept

\* ParseGroup, with the clock as a parameter.
LEMMA GroupIsStep ==
  ASSUME NEW ls, NEW text, NEW base, NEW r
  PROVE  ParseGroup(ls, text) = GroupStep(now, base, r, ls, text)
BY Zenon, TimeAfterIsAt DEF ParseGroup, GroupStep

IsLimits(ls) == ls = [l \in Limits |-> ls[l]]

HasSeparators(S) == Separators(S, ":", ";")

\* A group of the header sets the limits it asks for, and no other.
LEMMA GroupApplied ==
  ASSUME NEW S, NEW T, TextsOver(S, T), HasSeparators(S), NEW t \in 0..MaxNow, NEW base, NEW r,
         NEW ls, IsLimits(ls), NEW text \in Seq(S), text # <<>>
  PROVE  GroupStep(t, base, r, ls, text) = AppliedOne(ls, OrderOf(t, text))
<1>1. PICK colon, semi : colon = ":" /\ semi = ";"  OBVIOUS
<1>2. PICK splits : splits = Split(text, colon)  OBVIOUS
<1>3. GroupRead(colon, semi, text, splits)
  <2>1. Separators(S, colon, semi)  BY <1>1, Zenon DEF HasSeparators
  <2> QED  BY <1>2, <2>1, GroupNames
<1>4. Asks(text) = AsksBy(colon, semi, text) /\ NamedBy(splits[2]) = NamedIn(semi, splits[2])
  BY <1>1, AsksIsBy, Zenon
<1>5. GroupStep(t, base, r, ls, text)
        = IF ~IsSeconds(splits[1]) \/ Len(splits) < 3 THEN ls
          ELSE [l \in Limits |-> IF l \in NamedBy(splits[2]) THEN AtTime(t, WholeSeconds(splits[1][1])) ELSE ls[l]]
  BY <1>1, <1>2, Zenon DEF GroupStep
<1>6. CASE IsSeconds(splits[1]) /\ ~ Len(splits) < 3
  <2>1. /\ text[1] \in DOMAIN TenthsOf /\ splits[1][1] = text[1]
        /\ NamedBy(splits[2]) = Asks(text)
    BY <1>3, <1>4, <1>6, Zenon DEF GroupRead
  <2>2. AtTime(t, WholeSeconds(splits[1][1])) = UntilAt(t, text[1])  BY <2>1, UntilOfNumber
  <2> QED  BY <1>5, <1>6, <2>1, <2>2 DEF AppliedOne, OrderOf
<1>7. CASE ~ (IsSeconds(splits[1]) /\ ~ Len(splits) < 3)
  <2>1. Asks(text) = {}  BY <1>3, <1>4, <1>7, Zenon DEF GroupRead
  <2>2. GroupStep(t, base, r, ls, text) = ls  BY <1>5, <1>7, Zenon
  <2> QED  BY <2>1, <2>2 DEF AppliedOne, OrderOf, IsLimits
<1> QED  BY <1>6, <1>7

\* One group more keeps what GroupsKept says of the limits.
LEMMA GroupsSteps ==
  ASSUME NEW S, NEW T, TextsOver(S, T), HasSeparators(S), NEW t \in 0..MaxNow, NEW base, NEW r,
         NEW us \in Seq(T \ {<<>>}), NEW ls, GroupsKept(t, base, r, us, ls), NEW text \in T \ {<<>>}
  PROVE  GroupsKept(t, base, r, Append(us, text), GroupStep(t, base, r, ls, text))
<1>1. PICK n \in Nat, v \in Seq(T \ {<<>>}) : n = Len(us) /\ v = Append(us, text)
  <2>1. Append(us, text) \in Seq(T \ {<<>>}) /\ Len(us) \in Nat  OBVIOUS
  <2> QED  BY <2>1, Zenon
<1>2. Len(v) = n + 1 /\ v[n + 1] = text /\ \A i \in 1 .. n : v[i] = us[i]  BY <1>1
<1>3. PICK f : f = [i \in 1 .. n + 1 |-> OrderOf(t, v[i])]  OBVIOUS
<1>4. PICK O : O = {f[i] : i \in 1 .. n + 1}  OBVIOUS
<1>5. \A i \in 1 .. n + 1 : f[i] \in O  BY <1>4
<1>6. Append([i \in 1 .. n |-> f[i]], f[n + 1]) = [i \in 1 .. n + 1 |-> f[i]]  BY <1>5, Listed
<1>7. [i \in 1 .. n |-> f[i]] = [i \in 1 .. n |-> OrderOf(t, us[i])]  BY <1>2, <1>3
<1>8. f[n + 1] = OrderOf(t, text)  BY <1>2, <1>3
<1>9. [i \in 1 .. n + 1 |-> f[i]] = f  BY <1>3
<1>10. ls = Applied(base, [i \in 1 .. n |-> f[i]])  BY <1>1, <1>7 DEF GroupsKept
<1>11. IsLimits(ls)  BY <1>10 DEF IsLimits, Applied
<1>12. text \in Seq(S) /\ text # <<>>  BY DEF TextsOver
<1>13. GroupStep(t, base, r, ls, text) = AppliedOne(ls, f[n + 1])
  <2>1. GroupStep(t, base, r, ls, text) = AppliedOne(ls, OrderOf(t, text))
    BY <1>11, <1>12, GroupApplied
  <2> QED  BY <1>8, <2>1, Zenon
<1>14. [i \in 1 .. n |-> f[i]] \in Seq(O) /\ f[n + 1] \in O  BY <1>5
<1>15. Applied(base, Append([i \in 1 .. n |-> f[i]], f[n + 1]))
         = AppliedOne(Applied(base, [i \in 1 .. n |-> f[i]]), f[n + 1])
  <2>1. PICK os \in Seq(O), o \in O : os = [i \in 1 .. n |-> f[i]] /\ o = f[n + 1]
    BY <1>14, Zenon
  <2>2. Applied(base, Append(os, o)) = AppliedOne(Applied(base, os), o)  BY AppliedAppend
  <2> QED  BY <2>1, <2>2, Zenon
<1>16. GroupStep(t, base, r, ls, text) = Applied(base, f)
  BY <1>6, <1>9, <1>10, <1>13, <1>15, Zenon
<1>17. f = [i \in 1 .. Len(v) |-> OrderOf(t, v[i])]  BY <1>2, <1>3
<1> QED  BY <1>1, <1>16, <1>17, Zenon DEF GroupsKept

\* A header sets the limits its groups ask for, one after another.
LEMMA GroupsApplied ==
  ASSUME NEW S, NEW T, TextsOver(S, T), HasSeparators(S), NEW t \in 0..MaxNow, NEW base, IsLimits(base), NEW r,
         NEW ts \in Seq(T \ {<<>>})
  PROVE  Grouping!Fold(t, base, r, base, ts) = Applied(base, [i \in 1 .. Len(ts) |-> OrderOf(t, ts[i])])
<1>1. GroupsKept(t, base, r, <<>>, base)
  <2>1. [i \in 1 .. Len(<<>>) |-> OrderOf(t, <<>>[i])] = <<>>  OBVIOUS
  <2>2. Applied(base, <<>>) = base  BY AppliedEmpty DEF IsLimits
  <2> QED  BY <2>1, <2>2, Zenon DEF GroupsKept
<1>2. ASSUME NEW us \in Seq(T \ {<<>>}), NEW ls, NEW text \in T \ {<<>>}, GroupsKept(t, base, r, us, ls)
      PROVE  GroupsKept(t, base, r, Append(us, text), GroupStep(t, base, r, ls, text))
  BY <1>2, GroupsSteps
<1>3. GroupsKept(t, base, r, ts, Grouping!Fold(t, base, r, base, ts))
  <2> DEFINE U == T \ {<<>>}
  <2> HIDE DEF U
  <2>1. ASSUME NEW us \in Seq(U), NEW ls, NEW text \in U, GroupsKept(t, base, r, us, ls)
        PROVE  GroupsKept(t, base, r, Append(us, text), GroupStep(t, base, r, ls, text))
    BY <1>2, <2>1 DEF U
  <2>2. ts \in Seq(U)  BY DEF U
  <2> QED  BY <1>1, <2>1, <2>2, Grouping!FoldInduction
<1> QED  BY <1>3 DEF GroupsKept

\* An empty group changes nothing.
LEMMA TrimNothing ==
  ASSUME NEW x
  PROVE  TrimMatches(<<>>, x) = <<>>
<1>1. { i \in DOMAIN <<>> : <<>>[i] # x } = {}  OBVIOUS
<1> QED  BY <1>1, Zenon DEF TrimMatches

\* An empty group changes nothing.
LEMMA NoGroup ==
  ASSUME NEW t, NEW base, NEW r, NEW ls
  PROVE  GroupStep(t, base, r, ls, <<>>) = ls
<1>1. PICK colon, S, T : colon = ":" /\ T = Seq(S)  OBVIOUS
<1>2. TextsOver(S, T) /\ <<>> \in Seq(S)  BY <1>1, SMT DEF TextsOver
<1>3. Split(<<>>, colon) = << <<>> >>
  <2>1. \A i \in DOMAIN <<>> : <<>>[i] # colon  OBVIOUS
  <2> QED  BY <1>2, <2>1, SplitNone
<1>4. ~ IsSeconds(<<>>) /\ << <<>> >>[1] = <<>>  BY DEF IsSeconds
<1> QED  BY <1>1, <1>3, <1>4, Zenon DEF GroupStep

\* A sequence is a function of its indices.
LEMMA IndexedBy ==
  ASSUME NEW s, IsSeq(s)
  PROVE  Len(s) \in Nat /\ DOMAIN s = 1 .. Len(s)
<1>1. PICK n \in Nat : n = Len(s)  BY DEF IsSeq
<1>2. s = [i \in 1 .. n |-> s[i]]  BY <1>1, Zenon DEF IsSeq
<1>3. DOMAIN s = 1 .. n  BY <1>2, Zenon
<1> QED  BY <1>1, <1>3

\* A group of an answer is as the header can carry it, and means what it says.
GroupOk(comma, space, g) ==
  /\ IsSeq(g.text) /\ g.text # <<>> /\ \A j \in DOMAIN g.text : g.text[j] # comma
  /\ g.text[1] # space /\ Last(g.text) # space
  /\ g.asks = Asks(g.text)

\* The groups of the answers considered are such as AnswersAssumption says.
LEMMA AnswerOk ==
  ASSUME NEW a \in Answers, a.groups # None
  PROVE  IsSeq(a.groups) /\ \A i \in DOMAIN a.groups : GroupOk(",", " ", a.groups[i])
BY AnswersAssumption, Zenon DEF GroupOk

\* The tokens of a header: those of its groups, the separators and the names.
Marks == {",", " ", ":", ";"} \cup LimitCategories
TokensOf(gs) == Marks \cup UNION { {gs[i].text[j] : j \in DOMAIN gs[i].text} : i \in DOMAIN gs }

\* The separators of a header are tokens like others.
LEMMA TokensFit ==
  ASSUME NEW gs
  PROVE  HasSeparators(TokensOf(gs)) /\ "," \in TokensOf(gs) /\ " " \in TokensOf(gs) /\ " " # ","
<1>1. ":" # ";" /\ ":" \notin LimitCategories /\ ";" \notin LimitCategories  BY Zenon DEF LimitCategories
<1>2. ":" \notin DOMAIN TenthsOf  BY ClockFacts, Zenon
<1>3. " " # ","  BY Zenon
<1> QED  BY <1>1, <1>2, <1>3, Zenon DEF HasSeparators, Separators, TokensOf, Marks

\* What is folded over: the trimmed pieces of a header's text.
PiecesOf(comma, space, text) ==
  [i \in DOMAIN Split(text, comma) |-> TrimMatches(Split(text, comma)[i], space)]

\* update_from_sentry_header is a fold over the pieces of the header.
LEMMA HeaderIsGroups ==
  ASSUME NEW text, NEW r
  PROVE  UpdateFromSentryHeader(text) = Grouping!Fold(now, limits, r, limits, PiecesOf(",", " ", text))
BY Zenon DEF UpdateFromSentryHeader, PiecesOf, ParseGroup, Grouping!Fold, GroupStep,
       TimeAfter, TimeAfterDefaultDelay, AtTime, FoldLeft, MapThenFoldSet,
       Grouping!MapThenFoldSet, Max, Grouping!Max

\* The pieces of a header of groups are their texts; of an empty header, an empty one.
LEMMA PiecesAre ==
  ASSUME NEW S, NEW T, TextsOver(S, T), NEW comma \in S, NEW space \in S, space # comma,
         NEW gs, IsSeq(gs), \A i \in DOMAIN gs : GroupOk(comma, space, gs[i]) /\ gs[i].text \in Seq(S),
         NEW text, text = Heading!Fold(comma, space, S, <<>>, gs)
  PROVE  IF gs = <<>> THEN text = <<>> /\ Split(text, comma) = << <<>> >>
         ELSE PiecesOf(comma, space, text) = [i \in 1 .. Len(gs) |-> gs[i].text]
<1>1. PICK n \in Nat : n = Len(gs)  BY DEF IsSeq
<1>2. DOMAIN gs = 1 .. n  BY <1>1, Zenon DEF IsSeq
<1>3. PICK G : G = {gs[i] : i \in 1 .. n}  OBVIOUS
<1>4. gs \in Seq(G)
  <2>1. [i \in 1 .. n |-> gs[i]] \in Seq(G)  BY <1>3
  <2> QED  BY <1>1, <2>1, Zenon DEF IsSeq
<1>5. ASSUME NEW h \in G PROVE Carried(S, comma, space, h)
  <2>1. PICK i \in 1 .. n : h = gs[i]  BY <1>3
  <2>2. GroupOk(comma, space, h) /\ h.text \in Seq(S)  BY <1>2, <2>1
  <2> QED  BY <2>2, Zenon DEF GroupOk, Carried, Last
<1>6. HeaderKept(comma, space, S, gs, text)  BY <1>4, <1>5, HeaderSplits
<1>7. CASE gs = <<>>
  <2>1. text = <<>>  BY <1>6, <1>7, Zenon DEF HeaderKept
  <2>2. <<>> \in Seq(S) /\ \A i \in DOMAIN <<>> : <<>>[i] # comma  OBVIOUS
  <2>3. Split(<<>>, comma) = << <<>> >>  BY <2>2, SplitNone
  <2> QED  BY <1>7, <2>1, <2>3, Zenon
<1>8. CASE gs # <<>>
  <2>1. Split(text, comma) = [i \in 1 .. n |-> Piece(space, gs, i)]
    BY <1>1, <1>6, <1>8, Zenon DEF HeaderKept
  <2>2. ASSUME NEW i \in 1 .. n PROVE TrimMatches(Piece(space, gs, i), space) = gs[i].text
    <3>1. gs[i] \in G  BY <1>3
    <3>2. PICK t \in Seq(S) : t = gs[i].text /\ t # <<>> /\ t[1] # space /\ t[Len(t)] # space
      BY <1>5, <3>1 DEF Carried
    <3>3. TrimMatches(t, space) = t /\ TrimMatches(<<space>> \o t, space) = t  BY <3>2, Trimmed
    <3>4. Piece(space, gs, i) = IF i = 1 THEN gs[1].text ELSE <<space>> \o t  BY <3>2, Zenon DEF Piece
    <3>5. CASE i = 1  BY <3>2, <3>3, <3>4, <3>5
    <3>6. CASE i # 1  BY <3>2, <3>3, <3>4, <3>6, Zenon
    <3> QED  BY <3>5, <3>6
  <2>3. DOMAIN Split(text, comma) = 1 .. n
        /\ \A i \in 1 .. n : Split(text, comma)[i] = Piece(space, gs, i)  BY <2>1
  <2> QED  BY <1>1, <1>8, <2>2, <2>3 DEF PiecesOf
<1> QED  BY <1>7, <1>8

\* A header with categories is applied as its groups ask, one after another.
LEMMA HeaderApplied ==
  ASSUME NEW a \in Answers, a.groups # None, now \in 0..MaxNow, IsLimits(limits)
  PROVE  UpdateFromSentryHeader(HeaderText(a.groups))
           = Applied(limits, [i \in 1 .. Len(a.groups) |-> OrderOf(now, a.groups[i].text)])
<1>1. PICK gs, comma, space, S, T, text, n :
        /\ gs = a.groups /\ comma = "," /\ space = " " /\ S = TokensOf(gs) /\ T = Seq(S)
        /\ text = HeaderText(gs) /\ n = Len(gs)
  OBVIOUS
<1>2. TextsOver(S, T) /\ HasSeparators(S) /\ comma \in S /\ space \in S /\ space # comma
  BY <1>1, TokensFit, Zenon DEF TextsOver
<1>3. IsSeq(gs) /\ \A i \in DOMAIN gs : GroupOk(comma, space, gs[i])
  BY <1>1, AnswerOk, Zenon
<1>4. n \in Nat /\ DOMAIN gs = 1 .. n
  BY <1>1, <1>3 DEF IsSeq
<1>5. ASSUME NEW i \in DOMAIN gs PROVE gs[i].text \in Seq(S)
  <2>0. S = TokensOf(gs)  BY <1>1, Zenon
  <2>1. \A j \in DOMAIN gs[i].text : gs[i].text[j] \in S  BY <2>0 DEF TokensOf
  <2>2. IsSeq(gs[i].text)  BY <1>3 DEF GroupOk
  <2>3. PICK t : t = gs[i].text  OBVIOUS
  <2>4. PICK m \in Nat : m = Len(t)  BY <2>2, <2>3 DEF IsSeq
  <2>5. t = [j \in 1 .. m |-> t[j]]  BY <2>2, <2>3, <2>4, Zenon DEF IsSeq
  <2>6. DOMAIN t = 1 .. m  BY <2>5, Zenon
  <2>7. \A j \in 1 .. m : t[j] \in S  BY <2>1, <2>3, <2>6, Zenon
  <2>8. [j \in 1 .. m |-> t[j]] \in Seq(S)  BY <2>7
  <2> QED  BY <2>3, <2>5, <2>8, Zenon
<1>6. text = Heading!Fold(comma, space, S, <<>>, gs)  BY <1>1, HeaderIsFold, Zenon
<1>7. IF gs = <<>> THEN text = <<>> /\ Split(text, comma) = << <<>> >>
      ELSE PiecesOf(comma, space, text) = [i \in 1 .. n |-> gs[i].text]
  <2>1. n = Len(gs)  BY <1>1, Zenon
  <2>2. \A i \in DOMAIN gs : GroupOk(comma, space, gs[i]) /\ gs[i].text \in Seq(S)  BY <1>3, <1>5
  <2> QED  BY <1>2, <1>3, <1>6, <2>1, <2>2, PiecesAre
<1>8. UpdateFromSentryHeader(text) = Grouping!Fold(now, limits, 0, limits, PiecesOf(comma, space, text))
  BY <1>1, HeaderIsGroups, Zenon
<1>9. CASE gs = <<>>
  <2>1. PiecesOf(comma, space, text) = << <<>> >>
    <3>1. TrimMatches(<<>>, space) = <<>>  BY TrimNothing
    <3>2. Split(text, comma) = << <<>> >>  BY <1>7, <1>9
    <3>3. DOMAIN << <<>> >> = {1} /\ << <<>> >>[1] = <<>>  OBVIOUS
    <3>4. [i \in {1} |-> <<>>] = << <<>> >>  OBVIOUS
    <3>5. PiecesOf(comma, space, text) = [i \in {1} |-> <<>>]  BY <3>1, <3>2, <3>3 DEF PiecesOf
    <3> QED  BY <3>4, <3>5
  <2>2. Grouping!Fold(now, limits, 0, limits, << <<>> >>) = limits
    <3>1. Append(<<>>, <<>>) = << <<>> >>  OBVIOUS
    <3>6. PICK U : U = {<<>>}  OBVIOUS
    <3>4. PICK e \in U, s \in Seq(U) : e = <<>> /\ s = <<>>
      <4>1. <<>> \in U /\ <<>> \in Seq(U)  BY <3>6
      <4> QED  BY <4>1, Zenon
    <3>5. Grouping!Fold(now, limits, 0, limits, Append(s, e))
            = GroupStep(now, limits, 0, Grouping!Fold(now, limits, 0, limits, s), e)
      BY Grouping!FoldAppend
    <3>2. Grouping!Fold(now, limits, 0, limits, Append(<<>>, <<>>))
            = GroupStep(now, limits, 0, Grouping!Fold(now, limits, 0, limits, <<>>), <<>>)
      BY <3>4, <3>5, Zenon
    <3>3. Grouping!Fold(now, limits, 0, limits, <<>>) = limits  BY Grouping!FoldEmpty
    <3>7. GroupStep(now, limits, 0, limits, <<>>) = limits  BY NoGroup
    <3> QED  BY <3>1, <3>2, <3>3, <3>7
  <2>3. [i \in 1 .. n |-> OrderOf(now, gs[i].text)] = <<>>
    <3>1. n = 0  BY <1>1, <1>9
    <3> QED  BY <3>1
  <2>4. Applied(limits, <<>>) = limits  BY AppliedEmpty DEF IsLimits
  <2> QED  BY <1>1, <1>8, <2>1, <2>2, <2>3, <2>4, Zenon
<1>10. CASE gs # <<>>
  <2>1. PICK ts : ts = [i \in 1 .. n |-> gs[i].text]  OBVIOUS
  <2>2. ts \in Seq(T \ {<<>>})
    <3>1. \A i \in 1 .. n : gs[i].text \in T /\ gs[i].text # <<>>
      BY <1>1, <1>3, <1>4, <1>5, Zenon DEF GroupOk
    <3>2. PICK U : U = T \ {<<>>}  OBVIOUS
    <3>3. \A i \in 1 .. n : gs[i].text \in U  BY <3>1, <3>2
    <3>4. [i \in 1 .. n |-> gs[i].text] \in Seq(U)  BY <1>4, <3>3
    <3> QED  BY <2>1, <3>2, <3>4, Zenon
  <2>3. Len(ts) = n /\ \A i \in 1 .. n : ts[i] = gs[i].text  BY <1>4, <2>1
  <2>4. Grouping!Fold(now, limits, 0, limits, ts)
          = Applied(limits, [i \in 1 .. Len(ts) |-> OrderOf(now, ts[i])])
    BY <1>2, <2>2, GroupsApplied
  <2>5. [i \in 1 .. Len(ts) |-> OrderOf(now, ts[i])] = [i \in 1 .. n |-> OrderOf(now, gs[i].text)]
    BY <2>3
  <2>6. PiecesOf(comma, space, text) = ts  BY <1>7, <1>10, <2>1
  <2> QED  BY <1>1, <1>8, <2>4, <2>5, <2>6, Zenon
<1> QED  BY <1>9, <1>10

-----------------------------------------------------------------------------
(* LimitsAsAsked *)

OrderRecs == [names : SUBSET Limits, until : Int]
Entries == [at : 0..MaxNow, answer : Answers]

OrdersOf(t, a) ==
  IF a.groups # None
  THEN [i \in DOMAIN a.groups |-> [names |-> a.groups[i].asks, until |-> UntilAt(t, a.groups[i].text[1])]]
  ELSE IF a.retry_after # None \/ a.status = 429
  THEN << [names |-> {"global"}, until |-> UntilAt(t, a.retry_after)] >> ELSE <<>>

\* The orders of an answer in the history.
LEMMA OrdersAre ==
  ASSUME NEW entry
  PROVE  Orders(entry) = OrdersOf(entry.at, entry.answer)
<1>1. Orders(entry) =
        CASE entry.answer.groups # None ->
               [i \in DOMAIN entry.answer.groups |-> [names |-> entry.answer.groups[i].asks,
                                                      until |-> UntilAt(entry.at, entry.answer.groups[i].text[1])]]
          [] entry.answer.groups = None /\ (entry.answer.retry_after # None \/ entry.answer.status = 429) ->
               << [names |-> {"global"}, until |-> UntilAt(entry.at, entry.answer.retry_after)] >>
          [] OTHER -> <<>>
  BY Zenon DEF Orders, UntilAt, AfterAt
<1>2. PICK t, a : t = entry.at /\ a = entry.answer  OBVIOUS
<1>3. CASE a.groups # None  BY <1>1, <1>2, <1>3 DEF OrdersOf
<1>4. CASE a.groups = None /\ (a.retry_after # None \/ a.status = 429)  BY <1>1, <1>2, <1>4 DEF OrdersOf
<1>5. CASE a.groups = None /\ ~ (a.retry_after # None \/ a.status = 429)  BY <1>1, <1>2, <1>5 DEF OrdersOf
<1> QED  BY <1>3, <1>4, <1>5

\* A group asks for limits there are.
LEMMA AsksLimits ==
  ASSUME NEW text
  PROVE  Asks(text) \in SUBSET Limits
<1>1. Asks(text) = {} \/ Asks(text) = {"global"} \/ Asks(text) \subseteq LimitCategories
  <2>1. AsksBy(":", ";", text) = {} \/ AsksBy(":", ";", text) = {"global"} \/ AsksBy(":", ";", text) \subseteq LimitCategories
    <3>1. \A colon, semi : \/ AsksBy(colon, semi, text) = {} \/ AsksBy(colon, semi, text) = {"global"}
                           \/ AsksBy(colon, semi, text) \subseteq LimitCategories
      BY DEF AsksBy
    <3> QED  BY <3>1, Zenon
  <2> QED  BY <2>1, AsksIsBy, Zenon
<1> QED  BY <1>1 DEF Limits

\* The orders of an answer are orders.
LEMMA OrdersTyped ==
  ASSUME NEW t \in 0..MaxNow, NEW a \in Answers
  PROVE  OrdersOf(t, a) \in Seq(OrderRecs)
<1>1. CASE a.groups # None
  <2>0. PICK gs : gs = a.groups  OBVIOUS
  <2>1. PICK n \in Nat : gs = a.groups /\ n = Len(gs) /\ DOMAIN gs = 1 .. n
    <3>1. IsSeq(gs)  BY <1>1, <2>0, AnswerOk, Zenon
    <3>2. Len(gs) \in Nat /\ DOMAIN gs = 1 .. Len(gs)  BY <3>1, IndexedBy
    <3> QED  BY <2>0, <3>2
  <2>2. ASSUME NEW i \in 1 .. n
        PROVE  [names |-> gs[i].asks, until |-> UntilAt(t, gs[i].text[1])] \in OrderRecs
    <3>1. gs[i].asks = Asks(gs[i].text)
      <4>1. GroupOk(",", " ", gs[i])  BY <1>1, <2>1, AnswerOk, Zenon
      <4> QED  BY <4>1, Zenon DEF GroupOk
    <3> QED  BY <3>1, AsksLimits, UntilIsTime DEF OrderRecs
  <2>3. [i \in 1 .. n |-> [names |-> gs[i].asks, until |-> UntilAt(t, gs[i].text[1])]] \in Seq(OrderRecs)
    BY <2>2
  <2> QED  BY <1>1, <2>1, <2>3 DEF OrdersOf
<1>2. CASE a.groups = None
  <2>1. [names |-> {"global"}, until |-> UntilAt(t, a.retry_after)] \in OrderRecs
    BY UntilIsTime DEF OrderRecs, Limits
  <2>2. PICK o \in OrderRecs : o = [names |-> {"global"}, until |-> UntilAt(t, a.retry_after)]
    BY <2>1
  <2>3. <<o>> \in Seq(OrderRecs) /\ <<>> \in Seq(OrderRecs)  OBVIOUS
  <2> QED  BY <1>2, <2>2, <2>3 DEF OrdersOf
<1> QED  BY <1>1, <1>2

\* One order of the general limit.
LEMMA GlobalApplied ==
  ASSUME NEW ls, IsLimits(ls), NEW v
  PROVE  [ls EXCEPT !.global = v] = Applied(ls, << [names |-> {"global"}, until |-> v] >>)
<1>1. PICK o, O : o = [names |-> {"global"}, until |-> v] /\ O = {o}  OBVIOUS
<1>2. o \in O /\ <<>> \in Seq(O) /\ Append(<<>>, o) = <<o>>  BY <1>1
<1>3. Applied(ls, Append(<<>>, o)) = AppliedOne(Applied(ls, <<>>), o)  BY <1>2, AppliedAppend
<1>4. Applied(ls, <<>>) = ls  BY AppliedEmpty DEF IsLimits
<1>5. AppliedOne(ls, o) = [ls EXCEPT !.global = v]
  <2>1. "global" \in Limits  BY DEF Limits
  <2>2. DOMAIN ls = Limits  BY DEF IsLimits
  <2> QED  BY <1>1, <2>1, <2>2 DEF AppliedOne, IsLimits
<1> QED  BY <1>1, <1>2, <1>3, <1>4, <1>5

\* What an answer makes of the limits is what it orders.
LEMMA AnswerApplied ==
  ASSUME NEW a \in Answers, now \in 0..MaxNow, IsLimits(limits), Answer(a)
  PROVE  limits' = Applied(limits, OrdersOf(now, a))
<1>0. limits' = CASE a.groups # None      -> UpdateFromSentryHeader(HeaderText(a.groups))
                  [] a.groups = None /\ a.retry_after # None -> UpdateFromRetryAfter(a.retry_after)
                  [] a.groups = None /\ a.retry_after = None /\ a.status = 429 -> UpdateFrom429
                  [] OTHER                -> limits
  BY DEF Answer
<1>1. CASE a.groups # None
  <2>0. PICK gs : gs = a.groups  OBVIOUS
  <2>1. PICK n \in Nat : gs = a.groups /\ n = Len(gs) /\ DOMAIN gs = 1 .. n
    <3>1. IsSeq(gs)  BY <1>1, <2>0, AnswerOk, Zenon
    <3>2. Len(gs) \in Nat /\ DOMAIN gs = 1 .. Len(gs)  BY <3>1, IndexedBy
    <3> QED  BY <2>0, <3>2
  <2>2. \A i \in 1 .. n : OrderOf(now, gs[i].text) = [names |-> gs[i].asks, until |-> UntilAt(now, gs[i].text[1])]
    <3> SUFFICES ASSUME NEW i \in 1 .. n
                 PROVE  OrderOf(now, gs[i].text) = [names |-> gs[i].asks, until |-> UntilAt(now, gs[i].text[1])]
      OBVIOUS
    <3>1. GroupOk(",", " ", gs[i])  BY <1>1, <2>1, AnswerOk, Zenon
    <3>2. gs[i].asks = Asks(gs[i].text)  BY <3>1, Zenon DEF GroupOk
    <3> QED  BY <3>2, Zenon DEF OrderOf
  <2>3. limits' = Applied(limits, [i \in 1 .. n |-> OrderOf(now, gs[i].text)])
    BY <1>0, <1>1, <2>1, HeaderApplied
  <2>4. OrdersOf(now, a) = [i \in 1 .. n |-> OrderOf(now, gs[i].text)]
    BY <1>1, <2>1, <2>2 DEF OrdersOf
  <2> QED  BY <2>3, <2>4
<1>2. CASE a.groups = None /\ a.retry_after # None
  <2>1. limits' = [limits EXCEPT !.global = UntilAt(now, a.retry_after)]
    <3>1. PICK header : header = a.retry_after  OBVIOUS
    <3>2. Len(<<header>>) = 1 /\ <<header>>[1] = header  OBVIOUS
    <3>3. IsSeconds(<<header>>) <=> header \in DOMAIN TenthsOf  BY <3>2, Zenon DEF IsSeconds
    <3>4. now + DefaultDelay <= LastTime /\ now \in Nat /\ DefaultDelay \in Nat /\ LastTime \in Nat
      BY ClockNumbers
    <3>5. limits' = UpdateFromRetryAfter(header)  BY <1>0, <1>2, <3>1
    <3>9. PICK v : v = CASE IsSeconds(<<header>>)     -> TimeAfter(WholeSeconds(header))
                         [] header \in DOMAIN DateOf -> DateOf[header]
                         [] OTHER                    -> TimeAfterDefaultDelay
      OBVIOUS
    <3>10. limits' = [limits EXCEPT !.global = v]  BY <3>5, <3>9, Zenon DEF UpdateFromRetryAfter
    <3>11. header \in DOMAIN TenthsOf => header \notin DOMAIN DateOf  BY ClockNumbers
    <3>6. CASE header \in DOMAIN TenthsOf
      <4>1. UntilAt(now, header) = TimeAfter(WholeSeconds(header))  BY <3>6, UntilOfNumber, TimeAfterIsAt
      <4>2. v = TimeAfter(WholeSeconds(header))  BY <3>3, <3>6, <3>9, <3>11
      <4> QED  BY <3>1, <3>10, <4>1, <4>2, Zenon
    <3>7. CASE header \notin DOMAIN TenthsOf /\ header \in DOMAIN DateOf
      <4>1. UntilAt(now, header) = DateOf[header]  BY <3>7 DEF UntilAt
      <4>2. v = DateOf[header]  BY <3>3, <3>7, <3>9
      <4> QED  BY <3>1, <3>10, <4>1, <4>2, Zenon
    <3>8. CASE header \notin DOMAIN TenthsOf /\ header \notin DOMAIN DateOf
      <4>1. UntilAt(now, header) = TimeAfterDefaultDelay  BY <3>4, <3>8 DEF UntilAt, TimeAfterDefaultDelay
      <4>2. v = TimeAfterDefaultDelay  BY <3>3, <3>8, <3>9
      <4> QED  BY <3>1, <3>10, <4>1, <4>2, Zenon
    <3> QED  BY <3>6, <3>7, <3>8
  <2>2. OrdersOf(now, a) = << [names |-> {"global"}, until |-> UntilAt(now, a.retry_after)] >>
    BY <1>2 DEF OrdersOf
  <2> QED  BY <2>1, <2>2, GlobalApplied
<1>3. CASE a.groups = None /\ a.retry_after = None /\ a.status = 429
  <2>1. UntilAt(now, None) = TimeAfterDefaultDelay
    <3>1. None \notin DOMAIN TenthsOf /\ None \notin DOMAIN DateOf  BY ClockNumbers
    <3>2. now + DefaultDelay <= LastTime /\ now \in Nat /\ DefaultDelay \in Nat /\ LastTime \in Nat
      BY ClockNumbers
    <3> QED  BY <3>1, <3>2 DEF UntilAt, TimeAfterDefaultDelay
  <2>2. limits' = [limits EXCEPT !.global = UntilAt(now, a.retry_after)]
    BY <1>0, <1>3, <2>1 DEF UpdateFrom429
  <2>3. OrdersOf(now, a) = << [names |-> {"global"}, until |-> UntilAt(now, a.retry_after)] >>
    BY <1>3 DEF OrdersOf
  <2> QED  BY <2>2, <2>3, GlobalApplied
<1>4. CASE a.groups = None /\ a.retry_after = None /\ a.status # 429
  <2>1. limits' = limits  BY <1>0, <1>4
  <2>2. OrdersOf(now, a) = <<>>  BY <1>4 DEF OrdersOf
  <2> QED  BY <2>1, <2>2, AppliedEmpty DEF IsLimits
<1> QED  BY <1>1, <1>2, <1>3, <1>4
-----------------------------------------------------------------------------
\* All the orders of the answers so far, in their order.
OrdersStep(p, q, r, all, entry) == all \o Orders(entry)
OrdersKept(p, q, r, prefix, all) == TRUE

Ordering == INSTANCE Folds_proofs WITH FoldStep <- OrdersStep, FoldKept <- OrdersKept

AllOrders(as) == FoldLeft(LAMBDA all, entry : all \o Orders(entry), <<>>, as)

\* All orders of the history are a fold over its answers.
LEMMA OrdersAreFold ==
  ASSUME NEW as
  PROVE  AllOrders(as) = Ordering!Fold(0, 0, 0, <<>>, as)
BY Zenon DEF AllOrders, OrdersStep, Ordering!Fold, FoldLeft, MapThenFoldSet, Ordering!MapThenFoldSet,
      Max, Ordering!Max

NoLimits == [l \in Limits |-> None]

\* The limits are what the orders of all the answers make of none at all.
InvLimits ==
  /\ now \in 0..MaxNow /\ answers \in Seq(Entries)
  /\ AllOrders(answers) \in Seq(OrderRecs)
  /\ limits = Applied(NoLimits, AllOrders(answers))

\* No limit is set at first.
LEMMA LimitsInit == LimiterInit => InvLimits
<1> SUFFICES ASSUME LimiterInit PROVE InvLimits  OBVIOUS
<1>1. AllOrders(<<>>) = <<>>
  <2>1. Ordering!Fold(0, 0, 0, <<>>, <<>>) = <<>>  BY Ordering!FoldEmpty
  <2> QED  BY <2>1, OrdersAreFold
<1>2. Applied(NoLimits, <<>>) = NoLimits  BY AppliedEmpty DEF NoLimits
<1>3. now \in 0..MaxNow  BY ClockNumbers DEF LimiterInit
<1>4. answers = <<>> /\ limits = NoLimits  BY DEF LimiterInit, NoLimits
<1>5. <<>> \in Seq(Entries) /\ <<>> \in Seq(OrderRecs)  OBVIOUS
<1> QED  BY <1>1, <1>2, <1>3, <1>4, <1>5 DEF InvLimits

\* Time passes and leaves the limits alone.
LEMMA LimitsTick == InvLimits /\ Tick => InvLimits'
<1> SUFFICES ASSUME InvLimits, Tick PROVE InvLimits'  OBVIOUS
<1>1. answers' = answers /\ limits' = limits /\ now' \in 0..MaxNow  BY ClockNumbers DEF InvLimits, Tick
<1>2. AllOrders(answers)' = AllOrders(answers)  BY <1>1
<1> QED  BY <1>1, <1>2 DEF InvLimits, NoLimits

\* An answer of the server is taken in by the limits and the history alike.
LEMMA LimitsAnswer ==
  ASSUME NEW a \in Answers, InvLimits, Answer(a)
  PROVE  InvLimits'
<1>1. PICK entry \in Entries : entry = [at |-> now, answer |-> a]  BY DEF InvLimits, Entries
<1>2. answers' = Append(answers, entry) /\ now' = now  BY <1>1 DEF Answer
<1>3. PICK os \in Seq(OrderRecs) : os = AllOrders(answers)  BY DEF InvLimits
<1>4. PICK new \in Seq(OrderRecs) : new = Orders(entry) /\ new = OrdersOf(now, a)
  <2>1. OrdersOf(now, a) \in Seq(OrderRecs)  BY OrdersTyped DEF InvLimits
  <2>2. entry.at = now /\ entry.answer = a  BY <1>1
  <2>3. Orders(entry) = OrdersOf(now, a)  BY <2>2, OrdersAre
  <2> QED  BY <2>1, <2>3
<1>5. AllOrders(answers') = os \o new
  <2>1. answers \in Seq(Entries)  BY DEF InvLimits
  <2>2. Ordering!Fold(0, 0, 0, <<>>, Append(answers, entry))
          = OrdersStep(0, 0, 0, Ordering!Fold(0, 0, 0, <<>>, answers), entry)
    BY <2>1, Ordering!FoldAppend
  <2>3. AllOrders(Append(answers, entry)) = AllOrders(answers) \o Orders(entry)
    BY <2>2, OrdersAreFold, Zenon DEF OrdersStep
  <2> QED  BY <1>2, <1>3, <1>4, <2>3
<1>6. limits = Applied(NoLimits, os)  BY <1>3 DEF InvLimits
<1>7. limits' = Applied(limits, new)
  <2>1. IsLimits(limits)  BY <1>6 DEF Applied, IsLimits
  <2>2. now \in 0..MaxNow  BY DEF InvLimits
  <2> QED  BY <1>4, <2>1, <2>2, AnswerApplied
<1>8. limits' = Applied(NoLimits, os \o new)  BY <1>6, <1>7, AppliedConcat
<1>9. os \o new \in Seq(OrderRecs)  BY ConcatProperties
<1>10. answers' \in Seq(Entries)  BY <1>2 DEF InvLimits
<1>11. now' \in 0..MaxNow  BY <1>2 DEF InvLimits
<1> QED  BY <1>5, <1>8, <1>9, <1>10, <1>11 DEF InvLimits, NoLimits

\* Held at the moment: the last order that names the limit runs still.
LEMMA HeldIsLeft ==
  ASSUME InvLimits, NEW l \in Limits, NEW os, os = AllOrders(answers)
  PROVE  (limits[l] # None /\ limits[l] >= now)
           <=> (LastNaming(os, l) # 0 /\ os[LastNaming(os, l)].until >= now)
<1>1. PICK k : k = LastNaming(os, l)  OBVIOUS
<1>2. os \in Seq(OrderRecs)  BY DEF InvLimits
<1>3. IsLast(os, l, k)
  <2>1. Len(os) \in Nat  BY <1>2
  <2> QED  BY <1>1, <2>1, LastExists
<1>4. limits[l] = IF k = 0 THEN None ELSE os[k].until  BY <1>1 DEF InvLimits, Applied, NoLimits
<1>5. CASE k = 0  BY <1>1, <1>4, <1>5
<1>6. CASE k # 0
  <2>1. k \in 1 .. Len(os)  BY <1>3, <1>6 DEF IsLast
  <2>2. os[k].until \in Int
    <3>1. os[k] \in OrderRecs  BY <1>2, <2>1
    <3> QED  BY <3>1 DEF OrderRecs
  <2>3. os[k].until # None  BY <2>2, ClockNumbers
  <2> QED  BY <1>1, <1>4, <1>6, <2>3
<1> QED  BY <1>5, <1>6

\* The invariant says what is limited at any time.
LEMMA LimitsHeld == InvLimits => LimitsAsAsked
<1> SUFFICES ASSUME InvLimits PROVE LimitsAsAsked  OBVIOUS
<1>1. PICK os : os = AllOrders(answers)  OBVIOUS
<1>2. \A l \in Limits : (limits[l] # None /\ limits[l] >= now)
                       <=> (LastNaming(os, l) # 0 /\ os[LastNaming(os, l)].until >= now)
  BY <1>1, HeldIsLeft
<1>3. "global" \in Limits /\ LimitCategories \subseteq Limits /\ "any" \notin LimitCategories
  BY DEF Limits, LimitCategories
<1> DEFINE Held(l) == LET i == SelectLastInSeq(os, LAMBDA o : l \in o.names) IN i # 0 /\ os[i].until >= now
<1>4. \A l : Held(l) <=> (LastNaming(os, l) # 0 /\ os[LastNaming(os, l)].until >= now)
  BY Zenon DEF LastNaming
<1> HIDE DEF Held
<1>5. \A c \in LimitCategories : IsDisabled(c) <=> Held("global") \/ Held(c)
  <2> TAKE c \in LimitCategories
  <2>1. c # "any" /\ c \in Limits  BY <1>3
  <2>2. (limits[c] # None /\ limits[c] >= now) <=> Held(c)  BY <1>2, <1>4, <2>1, Zenon
  <2>3. (limits["global"] # None /\ limits["global"] >= now) <=> Held("global")  BY <1>2, <1>3, <1>4, Zenon
  <2> QED  BY <2>1, <2>2, <2>3, Zenon DEF IsDisabled
<1>6. IsDisabled("any") <=> Held("global")
  <2>3. (limits["global"] # None /\ limits["global"] >= now) <=> Held("global")  BY <1>2, <1>3, <1>4, Zenon
  <2> QED  BY <2>3, Zenon DEF IsDisabled
<1> QED  BY <1>1, <1>5, <1>6, Zenon DEF Held, LimitsAsAsked, AllOrders

\* A category is kept back exactly as long as the server asked last, for the
\* category or for everything, whatever headers the answers had (ratelimit.rs,
\* all updates and is_disabled).
THEOREM LimitsObeyed == LimiterSpec => []LimitsAsAsked
<1>1. LimiterInit => InvLimits  BY LimitsInit
<1>2. InvLimits /\ [LimiterNext]_limiterVars => InvLimits'
  <2> SUFFICES ASSUME InvLimits, [LimiterNext]_limiterVars PROVE InvLimits'  OBVIOUS
  <2>1. CASE UNCHANGED limiterVars
    <3>1. AllOrders(answers)' = AllOrders(answers)  BY <2>1 DEF limiterVars
    <3> QED  BY <2>1, <3>1 DEF limiterVars, InvLimits, NoLimits
  <2>2. CASE Tick  BY <2>2, LimitsTick
  <2>3. CASE \E a \in Answers : Answer(a)  BY <2>3, LimitsAnswer
  <2> QED  BY <2>1, <2>2, <2>3 DEF LimiterNext
<1>3. InvLimits => LimitsAsAsked  BY LimitsHeld
<1> QED  BY <1>1, <1>2, <1>3, PTL DEF LimiterSpec
=============================================================================
