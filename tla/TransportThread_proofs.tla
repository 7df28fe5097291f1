----------------------- MODULE TransportThread_proofs -----------------------
EXTENDS TransportThread, TLAPS

-----------------------------------------------------------------------------
(* Tasks.                                                                  *)

LEMMA TaskIdentity ==
  ASSUME NEW e, NEW f, NEW c, NEW d, NEW m, NEW n
  PROVE  /\ SendEnvelope(e) = SendEnvelope(f) => e = f
         /\ Flush(c, m) = Flush(d, n) => c = d /\ m = n
         /\ SendEnvelope(e) # Flush(c, m)
         /\ Shutdown # SendEnvelope(e) /\ Shutdown # Flush(c, m)
         /\ NoTask # SendEnvelope(e) /\ NoTask # Flush(c, m)
<1>1. SendEnvelope(e).type = "send" /\ SendEnvelope(e).env = e  BY DEF SendEnvelope
<1>2. SendEnvelope(f).env = f  BY DEF SendEnvelope
<1>3. Flush(c, m).type = "flush" /\ Flush(c, m).by = c /\ Flush(c, m).round = m
  BY DEF Flush
<1>4. Flush(d, n).by = d /\ Flush(d, n).round = n  BY DEF Flush
<1>5. Shutdown.type = "shutdown" /\ NoTask.type = "none"  BY DEF Shutdown, NoTask
<1> QED  BY <1>1, <1>2, <1>3, <1>4, <1>5

LEMMA TaskCases ==
  ASSUME NEW t \in Task
  PROVE  /\ t.type = "send"  => t.env \in Envelopes /\ t = SendEnvelope(t.env)
         /\ t.type = "flush" => t.by \in Callers /\ t.round \in Nat /\ t = Flush(t.by, t.round)
         /\ t # NoTask
BY DEF Task, SendEnvelope, Flush, Shutdown, NoTask

LEMMA TasksAreTasks ==
  /\ \A e \in Envelopes : SendEnvelope(e) \in Task /\ SendEnvelope(e).type = "send"
                            /\ SendEnvelope(e).env = e
  /\ \A c \in Callers, n \in Nat : Flush(c, n) \in Task /\ Flush(c, n).type = "flush"
                            /\ Flush(c, n).by = c /\ Flush(c, n).round = n
  /\ Shutdown \in Task /\ Shutdown.type = "shutdown" /\ NoTask.type = "none"
BY DEF Task, SendEnvelope, Flush, Shutdown, NoTask

(* The channel.                                                            *)

LEMMA AppendChannel ==
  ASSUME NEW S, NEW s \in Seq(S), NEW x \in S
  PROVE  /\ Append(s, x) \in Seq(S)
         /\ Len(Append(s, x)) = Len(s) + 1 /\ Len(s) \in Nat
         /\ Append(s, x)[Len(s) + 1] = x
         /\ \A j \in 1 .. Len(s) : Append(s, x)[j] = s[j]
OBVIOUS

LEMMA TailChannel ==
  ASSUME NEW S, NEW s \in Seq(S), s # <<>>
  PROVE  /\ Tail(s) \in Seq(S) /\ Head(s) \in S /\ Head(s) = s[1]
         /\ Len(s) \in Nat /\ Len(s) > 0 /\ Len(Tail(s)) = Len(s) - 1
         /\ \A j \in 1 .. Len(s) - 1 : Tail(s)[j] = s[j + 1]
OBVIOUS

LEMMA EmptyChannel == ASSUME NEW S PROVE <<>> \in Seq(S) /\ Len(<<>>) = 0
OBVIOUS

(* The fates.                                                              *)

LEMMA SettleType ==
  ASSUME fate \in [AllItems -> Final \cup {"unsent", "queued"}],
         NEW items, NEW how \in Final \cup {"unsent", "queued"}
  PROVE  Settle(items, how) \in [AllItems -> Final \cup {"unsent", "queued"}]
BY DEF Settle

LEMMA FilterType ==
  ASSUME NEW e \in Envelopes, NEW accepted \in SUBSET Contents[e].items
  PROVE  Filter(Contents[e], accepted)
           \in [items : SUBSET AllItems, event_id : BOOLEAN, trace : BOOLEAN]
<1>1. Contents[e] \in [items : SUBSET [of : Envelopes, kind : Kind],
                       event_id : BOOLEAN, trace : BOOLEAN]
  BY ContentsAssumption
<1>2. Contents[e].items \subseteq AllItems  BY DEF AllItems
<1>3. FilterItems(accepted) \in SUBSET AllItems
  BY <1>2 DEF FilterItems
<1>4. HasEvent(FilterItems(accepted)) \in BOOLEAN  BY DEF HasEvent
<1>5. [Contents[e] EXCEPT !.items = FilterItems(accepted)]
        \in [items : SUBSET AllItems, event_id : BOOLEAN, trace : BOOLEAN]
  BY <1>1, <1>3
<1> QED  BY <1>3, <1>4, <1>5 DEF Filter

-----------------------------------------------------------------------------
LEMMA TypeInit == Init => TypeOK
<1> SUFFICES ASSUME Init PROVE TypeOK
  OBVIOUS
<1>1. chan \in Seq(Task) /\ Len(chan) <= Capacity
  BY EmptyChannel, CapacityAssumption DEF Init
<1>2. /\ pc \in [Callers -> {"idle", "blocked", "waiting", "flushed", "failed"}]
      /\ round \in [Callers -> Nat]
      /\ before \in [Callers -> SUBSET Envelopes]
      /\ fate \in [AllItems -> Final \cup {"unsent", "queued"}]
  BY DEF Init
<1>3. sending \in [items : SUBSET AllItems, event_id : BOOLEAN, trace : BOOLEAN]
  BY DEF Init, NoEnvelope
<1> QED  BY <1>1, <1>2, <1>3 DEF Init, TypeOK

LEMMA TypeStep == TypeOK /\ [Next]_vars => TypeOK'
<1> SUFFICES ASSUME TypeOK, [Next]_vars PROVE TypeOK'
  OBVIOUS
<1> DEFINE FateType == [AllItems -> Final \cup {"unsent", "queued"}]
           EnvType == [items : SUBSET AllItems, event_id : BOOLEAN, trace : BOOLEAN]
<1>0. /\ \A s \in Seq(Task) : Len(s) \in Nat
      /\ Capacity \in Nat \ {0}
      /\ NoEnvelope \in EnvType
      /\ {"QueueOverflow", "InternalError", "RatelimitBackoff", "SendError", "NetworkError",
          "accepted", "refused", "discarded"} \subseteq Final
  BY CapacityAssumption DEF NoEnvelope, Final, LossReason
<1>q. ASSUME NEW t \in Task, chan' = Append(chan, t), Len(chan) < Capacity
      PROVE  chan' \in Seq(Task) /\ Len(chan') <= Capacity
  <2>1. chan' \in Seq(Task) /\ Len(chan') = Len(chan) + 1 /\ Len(chan) \in Nat
    BY <1>q, AppendChannel DEF TypeOK
  <2> QED  BY <1>0, <1>q, <2>1
<1>e. ASSUME chan' = <<>>  PROVE chan' \in Seq(Task) /\ Len(chan') <= Capacity
  BY <1>0, <1>e, EmptyChannel
<1>1. ASSUME NEW e \in Envelopes, Send(e)  PROVE TypeOK'
  <2>1. fate' \in FateType  BY <1>0, <1>1, SettleType DEF Send, TypeOK
  <2>2. chan' \in Seq(Task) /\ Len(chan') <= Capacity
    BY <1>1, <1>q, TasksAreTasks DEF Send, TypeOK
  <2> QED  BY <1>1, <2>1, <2>2 DEF Send, TypeOK, workerVars, callerVars
<1>2. ASSUME NEW c \in Callers, FlushStart(c)  PROVE TypeOK'
  <2>1. Pending \in SUBSET Envelopes  BY DEF Pending, InChannel, InHand
  <2> QED  BY <1>2, <2>1 DEF FlushStart, TypeOK, workerVars
<1>3. ASSUME NEW c \in Callers, FlushQueued(c)  PROVE TypeOK'
  <2>1. Flush(c, round[c]) \in Task  BY TasksAreTasks DEF TypeOK
  <2>2. chan' \in Seq(Task) /\ Len(chan') <= Capacity
    BY <1>3, <1>q, <2>1 DEF FlushQueued, TypeOK
  <2> QED  BY <1>3, <2>2 DEF FlushQueued, TypeOK, workerVars
<1>4. ASSUME NEW c \in Callers, FlushReturn(c)  PROVE TypeOK'
  BY <1>4 DEF FlushReturn, TypeOK, workerVars
<1>5. ASSUME NEW c \in Callers, FlushSeen(c)  PROVE TypeOK'
  BY <1>5 DEF FlushSeen, TypeOK, workerVars
<1>6. CASE DropFlag
  BY <1>6 DEF DropFlag, TypeOK, workerVars, callerVars
<1>7. CASE DropSend
  <2>1. chan' \in Seq(Task) /\ Len(chan') <= Capacity
    BY <1>7, <1>q, TasksAreTasks DEF DropSend, TypeOK
  <2> QED  BY <1>7, <2>1 DEF DropSend, TypeOK, workerVars, callerVars
<1>8. CASE DropJoin
  BY <1>8 DEF DropJoin, TypeOK, workerVars, callerVars
<1>9. CASE Recv
  <2>1. chan \in Seq(Task) /\ chan # <<>>  BY <1>9 DEF Recv, TypeOK
  <2>2. chan' \in Seq(Task) /\ Len(chan') <= Capacity /\ task' \in Task
    BY <1>0, <1>9, <2>1, TailChannel DEF Recv, TypeOK
  <2> QED  BY <1>9, <2>2 DEF Recv, TypeOK, callerVars
<1>10. CASE Stop
  <2>1. fate' \in FateType  BY <1>0, <1>10, SettleType DEF Stop, Exit, TypeOK
  <2> QED  BY <1>0, <1>10, <2>1, <1>e DEF Stop, Exit, TypeOK, callerVars
<1>11. CASE Ack
  <2>1. task \in Task /\ task.by \in Callers /\ task.round \in Nat
    BY <1>11, TaskCases, TasksAreTasks DEF Ack, TypeOK
  <2>2. acks' \subseteq Callers \X Nat  BY <1>11, <2>1 DEF Ack, TypeOK
  <2> QED  BY <1>11, <2>2 DEF Ack, TypeOK
<1>12. CASE SkipLimited
  <2>1. fate' \in FateType  BY <1>0, <1>12, SettleType, SMTT(90) DEF SkipLimited, TypeOK
  <2> QED  BY <1>12, <2>1 DEF SkipLimited, TypeOK, callerVars
<1>13. CASE FilterAndSend
  <2>1. task.env \in Envelopes
    BY <1>13, TaskCases, TasksAreTasks DEF FilterAndSend, TypeOK
  <2>2. fate' \in FateType  BY <1>0, <1>13, SettleType DEF FilterAndSend, TypeOK
  <2> DEFINE accepted == { i \in Contents[task.env].items : Enabled(i) }
  <2>3. accepted \in SUBSET Contents[task.env].items  OBVIOUS
  <2>4. Filter(Contents[task.env], accepted) \in EnvType
    <3> HIDE DEF accepted
    <3> QED  BY <2>1, <2>3, FilterType
  <2>5. sending' \in EnvType /\ task' \in Task \cup {NoTask}
         /\ worker' \in {"recv", "sending"}
    BY <1>13, <2>4 DEF FilterAndSend, TypeOK
  <2> QED  BY <1>13, <2>2, <2>5 DEF FilterAndSend, TypeOK, callerVars
<1>14. ASSUME NEW status \in {"ok", "429", "error"}, NEW limits \in Limits,
              Response(status, limits)
       PROVE  TypeOK'
  <2>1. fate' \in FateType  BY <1>0, <1>14, SettleType DEF Response, Sent, TypeOK
  <2>2. rl' \subseteq { RateLimitingCategory(k) : k \in Kind }
    BY <1>14, LimitsAssumption DEF Response, TypeOK
  <2> QED  BY <1>0, <1>14, <2>1, <2>2 DEF Response, Sent, TypeOK, callerVars
<1>15. CASE NetworkError
  <2>1. fate' \in FateType  BY <1>0, <1>15, SettleType DEF NetworkError, Sent, TypeOK
  <2> QED  BY <1>0, <1>15, <2>1 DEF NetworkError, Sent, TypeOK, callerVars
<1>16. CASE SerializeError
  <2>1. fate' \in FateType  BY <1>0, <1>16 DEF SerializeError, TypeOK
  <2> QED  BY <1>0, <1>16, <2>1, <1>e DEF SerializeError, TypeOK, callerVars
<1>17. ASSUME NEW category \in rl, Expire(category)  PROVE TypeOK'
  BY <1>17 DEF Expire, TypeOK, callerVars
<1>18. CASE UNCHANGED vars
  BY <1>18 DEF vars, TypeOK
<1> QED
  BY <1>1, <1>2, <1>3, <1>4, <1>5, <1>6, <1>7, <1>8, <1>9, <1>10, <1>11, <1>12,
     <1>13, <1>14, <1>15, <1>16, <1>17, <1>18
  DEF Next, Caller, Dropping, Worker, Network, Terminated

\* The transport thread keeps its types, and its channel its bound, for any
\* capacity, callers, envelopes and rate limits.
THEOREM TypeCorrect == Spec => []TypeOK
BY TypeInit, TypeStep, PTL DEF Spec

-----------------------------------------------------------------------------
(* The order of flushes and envelopes.                                     *)

LEMMA FateMonotone ==
  TypeOK /\ [Next]_vars => \A i \in AllItems : fate[i] # "unsent" => fate'[i] # "unsent"
<1> SUFFICES ASSUME TypeOK, [Next]_vars, NEW i \in AllItems, fate[i] # "unsent"
             PROVE  fate'[i] # "unsent"
  OBVIOUS
<1>1. ASSUME NEW items, NEW how, how # "unsent", fate' = Settle(items, how)
      PROVE  fate'[i] # "unsent"
  BY <1>1 DEF Settle
<1>2. ASSUME NEW e \in Envelopes, Send(e)  PROVE fate'[i] # "unsent"
  BY <1>1, <1>2 DEF Send
<1>3. CASE Stop  BY <1>1, <1>3 DEF Stop, Exit
<1>4. CASE SkipLimited  BY <1>1, <1>4 DEF SkipLimited
<1>5. CASE FilterAndSend  BY <1>1, <1>5 DEF FilterAndSend
<1>6. ASSUME NEW status \in {"ok", "429", "error"}, NEW limits \in Limits,
             Response(status, limits)
      PROVE  fate'[i] # "unsent"
  BY <1>1, <1>6 DEF Response, Sent
<1>7. CASE NetworkError  BY <1>1, <1>7 DEF NetworkError, Sent
<1>8. CASE SerializeError  BY <1>8 DEF SerializeError
<1>9. CASE UNCHANGED fate  BY <1>9
<1> QED
  BY <1>2, <1>3, <1>4, <1>5, <1>6, <1>7, <1>8, <1>9
  DEF Next, Caller, Dropping, Worker, Network, Terminated, vars, FlushStart, FlushQueued,
      FlushReturn, FlushSeen, DropFlag, DropSend, DropJoin, Recv, Ack, Expire

LEMMA PendingTyped == Pending \subseteq Envelopes
BY DEF Pending, InChannel, InHand

\* The items of an envelope are items, so what was sent stays sent.
LEMMA StaysSent ==
  ASSUME TypeOK, [Next]_vars, NEW e \in Envelopes, WasSent(e)
  PROVE  WasSent(e)'
<1>1. Contents[e].items \subseteq AllItems  BY DEF AllItems
<1> QED  BY <1>1, FateMonotone DEF WasSent

\* Steps that leave the callers alone and at most take tasks away.
LEMMA QuietStep ==
  ASSUME TypeOK, FlushOrder, [Next]_vars, UNCHANGED callerVars,
         chan' = chan \/ chan' = <<>>,
         task' = task \/ task' = NoTask,
         Pending' \subseteq Pending
  PROVE  FlushOrder'
<1> USE DEF callerVars
<1>1. KnownSent'
  <2>1. \A c \in Callers : before[c] \subseteq Envelopes  BY DEF TypeOK
  <2> QED  BY <2>1, StaysSent, PendingTyped DEF KnownSent, FlushOrder
<1>2. RoundsStarted'
  BY TasksAreTasks, EmptyChannel DEF RoundsStarted, FlushOrder
<1>3. BlockedNotAsked'
  BY TaskIdentity, EmptyChannel DEF BlockedNotAsked, FlushOrder
<1>4. BehindPending'
  BY EmptyChannel DEF BehindPending, FlushOrder, Outstanding
<1>5. AnsweredAfter'
  BY TaskIdentity DEF AnsweredAfter, FlushOrder, Outstanding
<1> QED  BY <1>1, <1>2, <1>3, <1>4, <1>5 DEF FlushOrder

\* Where a task put at the end of the channel is found.
LEMMA Positions ==
  ASSUME TypeOK, NEW t \in Task, chan' = Append(chan, t)
  PROVE  /\ Len(chan) \in Nat /\ Len(chan') = Len(chan) + 1
         /\ \A j \in 1 .. Len(chan') : \/ j \in 1 .. Len(chan) /\ chan'[j] = chan[j]
                                       \/ j = Len(chan) + 1 /\ chan'[j] = t
         /\ chan'[Len(chan) + 1] = t
         /\ \A j \in 1 .. Len(chan) : j \in 1 .. Len(chan') /\ chan'[j] = chan[j]
<1>1. chan \in Seq(Task)  BY DEF TypeOK
<1>2. /\ Len(Append(chan, t)) = Len(chan) + 1 /\ Len(chan) \in Nat
      /\ Append(chan, t)[Len(chan) + 1] = t
      /\ \A j \in 1 .. Len(chan) : Append(chan, t)[j] = chan[j]
  BY <1>1, AppendChannel
<1> QED  BY <1>2

LEMMA SendStep ==
  ASSUME TypeOK, FlushOrder, [Next]_vars, NEW e \in Envelopes, Send(e)
  PROVE  FlushOrder'
<1>1. CASE UNCHANGED chan
  <2>1. Pending' \subseteq Pending /\ UNCHANGED <<callerVars, chan, task>>
    BY <1>1 DEF Send, workerVars, Pending, InChannel, InHand
  <2> QED  BY <2>1, QuietStep
<1>2. CASE chan' = Append(chan, SendEnvelope(e)) /\ fate' = Settle(Contents[e].items, "queued")
  <2> DEFINE t == SendEnvelope(e)
  <2>1. t \in Task /\ t.type = "send"  BY TasksAreTasks
  <2>2. /\ Len(chan) \in Nat /\ Len(chan') = Len(chan) + 1
        /\ \A j \in 1 .. Len(chan') : \/ j \in 1 .. Len(chan) /\ chan'[j] = chan[j]
                                      \/ j = Len(chan) + 1 /\ chan'[j] = t
    BY <1>2, <2>1, Positions
  <2>3. UNCHANGED <<pc, round, acks, before, task, worker>>
    BY DEF Send, callerVars, workerVars
  <2>4. Pending' \subseteq Pending \cup {e}
    BY <2>2, <2>3, TaskIdentity DEF Pending, InChannel, InHand
  <2>5. ~WasSent(e) /\ WasSent(e)'
    BY <1>2, OwnItems DEF Send, WasSent, Settle, AllItems
  <2>6. \A c \in Callers : e \notin before[c] /\ before[c] \subseteq Envelopes
    BY <2>5 DEF FlushOrder, KnownSent, TypeOK
  <2>7. KnownSent'
    BY <2>3, <2>4, <2>5, <2>6, StaysSent, PendingTyped DEF KnownSent, FlushOrder
  <2> HIDE DEF t
  <2>8. RoundsStarted'
    BY <2>1, <2>2, <2>3 DEF RoundsStarted, FlushOrder
  <2>9. BlockedNotAsked'
    BY <2>2, <2>3, TaskIdentity DEF BlockedNotAsked, FlushOrder, t
  <2>10. BehindPending'
    BY <2>2, <2>3, <2>6, TaskIdentity DEF BehindPending, FlushOrder, Outstanding, t
  <2>11. AnsweredAfter'
    BY <2>3, <2>4, <2>6 DEF AnsweredAfter, FlushOrder, Outstanding
  <2> QED  BY <2>7, <2>8, <2>9, <2>10, <2>11 DEF FlushOrder
<1> QED  BY <1>1, <1>2 DEF Send

LEMMA FlushStartStep ==
  ASSUME TypeOK, FlushOrder, [Next]_vars, NEW c \in Callers, FlushStart(c)
  PROVE  FlushOrder'
<1>1. /\ UNCHANGED <<chan, worker, task, acks, fate>>
      /\ pc' = [pc EXCEPT ![c] = "blocked"]
      /\ round' = [round EXCEPT ![c] = @ + 1]
      /\ before' = [before EXCEPT ![c] = Pending]
  BY DEF FlushStart, workerVars
<1>2. Pending' = Pending /\ \A e \in Envelopes : WasSent(e)' = WasSent(e)
  BY <1>1 DEF Pending, InChannel, InHand, WasSent
<1>3. KnownSent'
  BY <1>1, <1>2, PendingTyped DEF KnownSent, FlushOrder, TypeOK
<1>4. \A d \in Callers : round[d] \in Nat /\ round'[d] \in Nat /\ round[d] <= round'[d]
  BY <1>1 DEF TypeOK
<1>5. /\ \A j \in 1 .. Len(chan) : chan[j] \in Task
      /\ \A a \in acks : a[1] \in Callers /\ a[2] \in Nat
      /\ task \in Task \cup {NoTask}
  BY DEF TypeOK
<1>6. RoundsStarted'
  <2>1. \A j \in 1 .. Len(chan) : chan[j].type = "flush" => chan[j].round <= round'[chan[j].by]
    BY <1>4, <1>5, TaskCases DEF RoundsStarted, FlushOrder
  <2>2. task.type = "flush" => task.round <= round'[task.by]
    BY <1>4, <1>5, TaskCases, TasksAreTasks DEF RoundsStarted, FlushOrder
  <2>3. \A a \in acks : a[2] <= round'[a[1]]
    BY <1>4, <1>5 DEF RoundsStarted, FlushOrder
  <2> QED  BY <1>1, <2>1, <2>2, <2>3 DEF RoundsStarted
<1>7. /\ \A j \in 1 .. Len(chan) : chan[j] # Flush(c, round'[c])
      /\ task # Flush(c, round'[c])
      /\ <<c, round'[c]>> \notin acks
  \* Round numbers that were used are smaller.
  <2>1. round'[c] = round[c] + 1 /\ round[c] \in Nat /\ ~(round'[c] <= round[c])
    BY <1>1 DEF TypeOK
  <2>2. Flush(c, round'[c]).type = "flush" /\ Flush(c, round'[c]).round = round'[c]
          /\ Flush(c, round'[c]).by = c
    BY <2>1, TasksAreTasks
  <2> QED  BY <2>1, <2>2 DEF RoundsStarted, FlushOrder
<1>8. BlockedNotAsked'
  BY <1>1, <1>7 DEF BlockedNotAsked, FlushOrder, TypeOK
<1>9. BehindPending'
  BY <1>1 DEF BehindPending, FlushOrder, Outstanding, TypeOK
<1>10. AnsweredAfter'
  BY <1>1, <1>2 DEF AnsweredAfter, FlushOrder, Outstanding, TypeOK
<1> QED  BY <1>3, <1>6, <1>8, <1>9, <1>10 DEF FlushOrder

LEMMA FlushQueuedStep ==
  ASSUME TypeOK, FlushOrder, [Next]_vars, NEW c \in Callers, FlushQueued(c)
  PROVE  FlushOrder'
<1> DEFINE t == Flush(c, round[c])
<1>1. /\ UNCHANGED <<worker, task, round, acks, before, fate>>
      /\ pc[c] = "blocked" /\ pc' = [pc EXCEPT ![c] = "waiting"]
      /\ chan' = Append(chan, t) \/ chan' = chan
  BY DEF FlushQueued, workerVars
<1>2. t \in Task /\ t.type = "flush" /\ t.by = c /\ t.round = round[c]
  BY TasksAreTasks DEF TypeOK
<1>3. /\ Len(chan) \in Nat
      /\ \A j \in 1 .. Len(chan') : \/ j \in 1 .. Len(chan) /\ chan'[j] = chan[j]
                                    \/ j = Len(chan) + 1 /\ chan'[j] = t
  <2>1. CASE chan' = chan
    <3>1. Len(chan) \in Nat  BY DEF TypeOK
    <3> QED  BY <2>1, <3>1
  <2>2. CASE chan' = Append(chan, t)  BY <2>2, <1>2, Positions
  <2> QED  BY <1>1, <2>1, <2>2
<1>4. Pending' \subseteq Pending /\ \A e \in Envelopes : WasSent(e)' = WasSent(e)
  BY <1>1, <1>3, TaskIdentity DEF Pending, InChannel, InHand, WasSent
<1>5. KnownSent'
  BY <1>1, <1>4, PendingTyped DEF KnownSent, FlushOrder, TypeOK
<1>6. /\ \A j \in 1 .. Len(chan) : chan[j] # t
      /\ task # t
      /\ <<c, round[c]>> \notin acks
  BY <1>1 DEF BlockedNotAsked, FlushOrder
<1>7. round[c] \in Nat  BY DEF TypeOK
<1>8. RoundsStarted'
  <2> HIDE DEF t
  <2> QED  BY <1>1, <1>2, <1>3, <1>7 DEF RoundsStarted, FlushOrder
<1>9. BlockedNotAsked'
  <2> SUFFICES ASSUME NEW d \in Callers, pc'[d] = "blocked"
               PROVE  /\ \A j \in 1 .. Len(chan') : chan'[j] # Flush(d, round[d])
                      /\ task # Flush(d, round[d])
                      /\ <<d, round[d]>> \notin acks
    BY <1>1 DEF BlockedNotAsked
  <2>1. d # c /\ pc[d] = "blocked"  BY <1>1 DEF TypeOK
  <2>2. t # Flush(d, round[d])  BY <2>1, TaskIdentity
  <2> HIDE DEF t
  <2> QED  BY <1>3, <2>1, <2>2 DEF BlockedNotAsked, FlushOrder
<1>10. BehindPending'
  <2> SUFFICES ASSUME NEW d \in Callers, NEW j \in 1 .. Len(chan'), NEW k \in 1 .. Len(chan'),
                      NEW e \in before[d],
                      pc'[d] = "waiting", chan'[j] = Flush(d, round[d]),
                      chan'[k] = SendEnvelope(e)
               PROVE  k < j
    BY <1>1 DEF BehindPending, Outstanding
  <2>1. k \in 1 .. Len(chan) /\ chan[k] = SendEnvelope(e)  BY <1>3, TaskIdentity
  <2>2. CASE d = c
    BY <1>3, <1>6, <2>1, <2>2
  <2>3. CASE d # c
    <3>1. pc[d] = "waiting"  BY <1>1, <2>3 DEF TypeOK
    <3>2. j \in 1 .. Len(chan) /\ chan[j] = Flush(d, round[d])
      BY <1>3, <2>3, TaskIdentity
    <3> QED  BY <2>1, <3>1, <3>2 DEF BehindPending, FlushOrder, Outstanding
  <2> QED  BY <2>2, <2>3
<1>11. AnsweredAfter'
  <2> SUFFICES ASSUME NEW d \in Callers,
                      \/ pc'[d] = "waiting" /\ task = Flush(d, round[d])
                      \/ pc'[d] = "waiting" /\ <<d, round[d]>> \in acks
                      \/ pc'[d] = "flushed"
               PROVE  before[d] \cap Pending = {}
    BY <1>1, <1>4 DEF AnsweredAfter, Outstanding
  <2>1. d # c /\ pc'[d] = pc[d]  BY <1>1, <1>6 DEF TypeOK
  <2> QED  BY <2>1 DEF AnsweredAfter, FlushOrder, Outstanding
<1> QED  BY <1>5, <1>8, <1>9, <1>10, <1>11 DEF FlushOrder

LEMMA FlushReturnStep ==
  ASSUME TypeOK, FlushOrder, [Next]_vars, NEW c \in Callers, FlushReturn(c)
  PROVE  FlushOrder'
<1>1. /\ UNCHANGED <<chan, worker, task, round, before, fate>>
      /\ pc[c] = "waiting" /\ acks' \subseteq acks
      /\ pc' = [pc EXCEPT ![c] = IF <<c, round[c]>> \in acks THEN "flushed" ELSE "failed"]
  BY DEF FlushReturn, workerVars
<1>2. Pending' = Pending /\ \A e \in Envelopes : WasSent(e)' = WasSent(e)
  BY <1>1 DEF Pending, InChannel, InHand, WasSent
<1>3. KnownSent'
  BY <1>1, <1>2, PendingTyped DEF KnownSent, FlushOrder, TypeOK
<1>4. RoundsStarted'  BY <1>1 DEF RoundsStarted, FlushOrder
<1>5. \A d \in Callers : pc'[d] \in {"blocked", "waiting"} => pc[d] = pc'[d]
  BY <1>1 DEF TypeOK
<1>6. BlockedNotAsked'  BY <1>1, <1>5 DEF BlockedNotAsked, FlushOrder
<1>7. BehindPending'  BY <1>1, <1>5 DEF BehindPending, FlushOrder, Outstanding
<1>8. \A d \in Callers : pc'[d] = "flushed" =>
        pc[d] = "flushed" \/ (pc[d] = "waiting" /\ <<d, round[d]>> \in acks)
  BY <1>1 DEF TypeOK
<1>9. AnsweredAfter'
  BY <1>1, <1>2, <1>5, <1>8 DEF AnsweredAfter, FlushOrder, Outstanding
<1> QED  BY <1>3, <1>4, <1>6, <1>7, <1>9 DEF FlushOrder

LEMMA FlushSeenStep ==
  ASSUME TypeOK, FlushOrder, [Next]_vars, NEW c \in Callers, FlushSeen(c)
  PROVE  FlushOrder'
<1>1. /\ UNCHANGED <<chan, worker, task, round, acks, fate>>
      /\ pc' = [pc EXCEPT ![c] = "idle"]
      /\ before' = [before EXCEPT ![c] = {}]
  BY DEF FlushSeen, workerVars
<1>2. Pending' = Pending /\ \A e \in Envelopes : WasSent(e)' = WasSent(e)
  BY <1>1 DEF Pending, InChannel, InHand, WasSent
<1>3. KnownSent'
  BY <1>1, <1>2, PendingTyped DEF KnownSent, FlushOrder, TypeOK
<1>4. RoundsStarted'  BY <1>1 DEF RoundsStarted, FlushOrder
<1>5. \A d \in Callers : pc'[d] # "idle" => pc[d] = pc'[d] /\ before'[d] = before[d]
  BY <1>1 DEF TypeOK
<1>6. BlockedNotAsked'  BY <1>1, <1>5 DEF BlockedNotAsked, FlushOrder
<1>7. BehindPending'  BY <1>1, <1>5 DEF BehindPending, FlushOrder, Outstanding
<1>8. AnsweredAfter'
  BY <1>1, <1>2, <1>5 DEF AnsweredAfter, FlushOrder, Outstanding
<1> QED  BY <1>3, <1>4, <1>6, <1>7, <1>8 DEF FlushOrder

LEMMA RecvStep ==
  ASSUME TypeOK, FlushOrder, [Next]_vars, Recv
  PROVE  FlushOrder'
<1>1. /\ UNCHANGED <<pc, round, acks, before, fate>>
      /\ worker = "recv" /\ worker' = "got" /\ chan # <<>>
      /\ task' = Head(chan) /\ chan' = Tail(chan)
  BY DEF Recv, callerVars
<1>2. /\ Len(chan) \in Nat /\ Len(chan) > 0 /\ Len(chan') = Len(chan) - 1
      /\ task' = chan[1] /\ task' \in Task
      /\ \A j \in 1 .. Len(chan) - 1 : chan'[j] = chan[j + 1]
  BY <1>1, TailChannel DEF TypeOK
<1>3. \A j \in 1 .. Len(chan') : j + 1 \in 1 .. Len(chan) /\ chan'[j] = chan[j + 1]
  BY <1>2
<1>4. Pending' \subseteq InChannel /\ InChannel \subseteq Pending
  BY <1>1, <1>2, <1>3 DEF Pending, InChannel, InHand
<1>5. \A e \in Envelopes : WasSent(e)' = WasSent(e)
  BY <1>1 DEF WasSent
<1>6. KnownSent'
  BY <1>1, <1>4, <1>5, PendingTyped DEF KnownSent, FlushOrder, TypeOK
<1>7. RoundsStarted'
  BY <1>1, <1>2, <1>3 DEF RoundsStarted, FlushOrder
<1>8. BlockedNotAsked'
  BY <1>1, <1>2, <1>3 DEF BlockedNotAsked, FlushOrder
<1>9. BehindPending'
  <2> SUFFICES ASSUME NEW d \in Callers, NEW j \in 1 .. Len(chan'), NEW k \in 1 .. Len(chan'),
                      NEW e \in before[d],
                      pc[d] = "waiting", chan'[j] = Flush(d, round[d]),
                      chan'[k] = SendEnvelope(e)
               PROVE  k < j
    BY <1>1 DEF BehindPending, Outstanding
  <2>1. k + 1 < j + 1
    BY <1>3 DEF BehindPending, FlushOrder, Outstanding
  <2> QED  BY <2>1, <1>2
<1>10. AnsweredAfter'
  <2> SUFFICES ASSUME NEW d \in Callers,
                      \/ pc[d] = "waiting" /\ task' = Flush(d, round[d])
                      \/ pc[d] = "waiting" /\ <<d, round[d]>> \in acks
                      \/ pc[d] = "flushed"
               PROVE  before[d] \cap Pending' = {}
    BY <1>1 DEF AnsweredAfter, Outstanding
  <2>1. CASE pc[d] = "waiting" /\ task' = Flush(d, round[d])
    \* It was first in the channel, so nothing it waits for is behind it.
    <3>1. \A k \in 1 .. Len(chan) : \A e \in before[d] : chan[k] = SendEnvelope(e) => k < 1
      <4>1. 1 \in 1 .. Len(chan) /\ chan[1] = Flush(d, round[d])  BY <1>2, <2>1
      <4> QED  BY <2>1, <4>1 DEF BehindPending, FlushOrder, Outstanding
    <3>2. before[d] \cap InChannel = {}
      BY <1>2, <3>1 DEF InChannel
    <3> QED  BY <1>4, <3>2
  <2>2. CASE \/ pc[d] = "waiting" /\ <<d, round[d]>> \in acks
             \/ pc[d] = "flushed"
    BY <1>4, <2>2 DEF AnsweredAfter, FlushOrder
  <2> QED  BY <2>1, <2>2
<1> QED  BY <1>6, <1>7, <1>8, <1>9, <1>10 DEF FlushOrder

LEMMA AckStep ==
  ASSUME TypeOK, FlushOrder, [Next]_vars, Ack
  PROVE  FlushOrder'
<1>1. /\ UNCHANGED <<chan, pc, round, before, fate>>
      /\ worker' = "recv" /\ task' = NoTask /\ task.type = "flush"
      /\ acks' = IF round[task.by] = task.round /\ pc[task.by] = "waiting"
                 THEN acks \cup {<<task.by, task.round>>} ELSE acks
  BY DEF Ack
<1>2. task.by \in Callers /\ task.round \in Nat /\ task = Flush(task.by, task.round)
  BY <1>1, TaskCases, TasksAreTasks DEF TypeOK
<1>3. Pending' \subseteq Pending /\ \A e \in Envelopes : WasSent(e)' = WasSent(e)
  BY <1>1 DEF Pending, InChannel, InHand, WasSent
<1>4. KnownSent'
  BY <1>1, <1>3, PendingTyped DEF KnownSent, FlushOrder, TypeOK
<1>5. RoundsStarted'
  <2>1. task.round <= round[task.by]  BY <1>1 DEF RoundsStarted, FlushOrder
  <2>2. \A a \in acks' : a[2] <= round[a[1]]
    <3>1. \A a \in acks' : a \in acks \/ a = <<task.by, task.round>>  BY <1>1
    <3> QED  BY <3>1, <2>1 DEF RoundsStarted, FlushOrder
  <2> QED  BY <1>1, <2>2, TasksAreTasks DEF RoundsStarted, FlushOrder
<1>6. BlockedNotAsked'
  BY <1>1, <1>2, TaskIdentity DEF BlockedNotAsked, FlushOrder
<1>7. BehindPending'  BY <1>1 DEF BehindPending, FlushOrder, Outstanding
<1>8. AnsweredAfter'
  BY <1>1, <1>2, <1>3, TaskIdentity DEF AnsweredAfter, FlushOrder, Outstanding
<1> QED  BY <1>4, <1>5, <1>6, <1>7, <1>8 DEF FlushOrder

LEMMA DropSendStep ==
  ASSUME TypeOK, FlushOrder, [Next]_vars, DropSend
  PROVE  FlushOrder'
<1>1. UNCHANGED <<pc, round, acks, before, fate, worker, task>>
  BY DEF DropSend, callerVars, workerVars
<1>2. /\ Len(chan) \in Nat
      /\ \A j \in 1 .. Len(chan') : \/ j \in 1 .. Len(chan) /\ chan'[j] = chan[j]
                                    \/ j = Len(chan) + 1 /\ chan'[j] = Shutdown
  <2>1. CASE chan' = chan
    <3>1. Len(chan) \in Nat  BY DEF TypeOK
    <3> QED  BY <2>1, <3>1
  <2>2. CASE chan' = Append(chan, Shutdown)  BY <2>2, TasksAreTasks, Positions
  <2> QED  BY <2>1, <2>2 DEF DropSend
<1>3. Pending' \subseteq Pending /\ \A e \in Envelopes : WasSent(e)' = WasSent(e)
  BY <1>1, <1>2, TaskIdentity DEF Pending, InChannel, InHand, WasSent
<1>4. KnownSent'
  BY <1>1, <1>3, PendingTyped DEF KnownSent, FlushOrder, TypeOK
<1>5. RoundsStarted'
  BY <1>1, <1>2, TasksAreTasks DEF RoundsStarted, FlushOrder
<1>6. BlockedNotAsked'
  BY <1>1, <1>2, TaskIdentity DEF BlockedNotAsked, FlushOrder
<1>7. BehindPending'
  BY <1>1, <1>2, TaskIdentity DEF BehindPending, FlushOrder, Outstanding
<1>8. AnsweredAfter'
  BY <1>1, <1>3 DEF AnsweredAfter, FlushOrder, Outstanding
<1> QED  BY <1>4, <1>5, <1>6, <1>7, <1>8 DEF FlushOrder

LEMMA FlushOrderInit == Init => FlushOrder
<1> SUFFICES ASSUME Init PROVE FlushOrder
  OBVIOUS
<1>1. Pending = {}  BY TaskIdentity, EmptyChannel DEF Init, Pending, InChannel, InHand
<1>2. KnownSent  BY <1>1 DEF Init, KnownSent
<1>3. RoundsStarted  BY TasksAreTasks, EmptyChannel DEF Init, RoundsStarted
<1>4. BlockedNotAsked  BY DEF Init, BlockedNotAsked
<1>5. BehindPending  BY EmptyChannel DEF Init, BehindPending
<1>6. AnsweredAfter  BY <1>1 DEF AnsweredAfter
<1> QED  BY <1>2, <1>3, <1>4, <1>5, <1>6 DEF FlushOrder

LEMMA FlushOrderStep == TypeOK /\ FlushOrder /\ [Next]_vars => FlushOrder'
<1> SUFFICES ASSUME TypeOK, FlushOrder, [Next]_vars PROVE FlushOrder'
  OBVIOUS
<1> DEFINE Quiet == /\ UNCHANGED callerVars
                    /\ chan' = chan \/ chan' = <<>>
                    /\ task' = task \/ task' = NoTask
                    /\ Pending' \subseteq Pending
<1>1. Quiet => FlushOrder'  BY QuietStep
<1>2. CASE DropFlag \/ DropJoin
  BY <1>1, <1>2 DEF DropFlag, DropJoin, workerVars, Pending, InChannel, InHand
<1>3. CASE Stop
  <2>1. worker' = "returned" /\ chan' = <<>> /\ task' = NoTask /\ UNCHANGED callerVars
    BY <1>3 DEF Stop, Exit
  <2>2. Pending' = {}  BY <2>1, EmptyChannel DEF Pending, InChannel, InHand
  <2> QED  BY <1>1, <2>1, <2>2
<1>4. CASE SkipLimited
  BY <1>1, <1>4 DEF SkipLimited, Pending, InChannel, InHand
<1>5. CASE FilterAndSend
  <2>1. /\ UNCHANGED <<chan, callerVars>> /\ worker = "got"
        /\ \/ worker' = "recv" /\ task' = NoTask
           \/ worker' = "sending" /\ task' = task
    BY <1>5 DEF FilterAndSend
  <2> QED  BY <1>1, <2>1 DEF Pending, InChannel, InHand
<1>6. ASSUME NEW status \in {"ok", "429", "error"}, NEW limits \in Limits,
             Response(status, limits)
      PROVE  FlushOrder'
  BY <1>1, <1>6 DEF Response, Sent, Pending, InChannel, InHand
<1>7. CASE NetworkError
  BY <1>1, <1>7 DEF NetworkError, Sent, Pending, InChannel, InHand
<1>8. CASE SerializeError
  <2>1. worker' = "panicked" /\ chan' = <<>> /\ task' = NoTask /\ UNCHANGED callerVars
    BY <1>8 DEF SerializeError
  <2>2. Pending' = {}  BY <2>1, EmptyChannel DEF Pending, InChannel, InHand
  <2> QED  BY <1>1, <2>1, <2>2
<1>9. ASSUME NEW category \in rl, Expire(category)  PROVE FlushOrder'
  BY <1>1, <1>9 DEF Expire, Pending, InChannel, InHand
<1>10. CASE UNCHANGED vars
  BY <1>1, <1>10 DEF vars, callerVars, Pending, InChannel, InHand
<1> QED
  BY <1>2, <1>3, <1>4, <1>5, <1>6, <1>7, <1>8, <1>9, <1>10, SendStep, FlushStartStep,
     FlushQueuedStep, FlushReturnStep, FlushSeenStep, RecvStep, AckStep, DropSendStep
  DEF Next, Caller, Dropping, Worker, Network, Terminated

\* For any channel capacity, number of callers, envelopes and flushes, a flush
\* that returns true has seen everything out that was pending when it was
\* called; an answer that comes too late is never taken for that of a later
\* flush (thread.rs 98-107 and 169-173).
THEOREM FlushIsTruthful == Spec => [](FlushOrder /\ FlushTruthful)
<1>1. FlushOrder => FlushTruthful
  BY DEF FlushOrder, AnsweredAfter, FlushTruthful
<1> QED  BY <1>1, TypeCorrect, FlushOrderInit, FlushOrderStep, PTL DEF Spec

-----------------------------------------------------------------------------
(* The custody of envelopes.                                               *)

\* An item belongs to one envelope, and every envelope has items.
LEMMA Owner ==
  /\ \A e, f \in Envelopes : \A i \in Contents[e].items : i \in Contents[f].items => e = f
  /\ \A e \in Envelopes : Contents[e].items \subseteq AllItems /\ \E i \in AllItems : i \in Contents[e].items
  /\ \A i \in AllItems : \E e \in Envelopes : i \in Contents[e].items
BY OwnItems DEF AllItems

LEMMA CustodyInit == Init => Custody
<1> SUFFICES ASSUME Init PROVE Custody
  OBVIOUS
<1>1. InChannel = {} /\ InHand = {} /\ Len(chan) = 0
  BY TaskIdentity, EmptyChannel DEF Init, InChannel, InHand
<1>2. OnePlace /\ Unsettled /\ SendsItsTask
  BY <1>1 DEF OnePlace, Unsettled, SendsItsTask, Init
<1>3. FlagFirst  BY <1>1, TasksAreTasks DEF FlagFirst, Init
<1>4. AllAccounted  BY DEF Init, AllAccounted, Final, LossReason
<1> QED  BY <1>2, <1>3, <1>4 DEF Custody

\* Steps that leave envelopes and fates alone.
LEMMA CustodyQuiet ==
  ASSUME Custody, UNCHANGED <<chan, worker, task, sending, fate>>,
         shutdown => shutdown', drop' = drop \/ shutdown'
  PROVE  Custody'
<1>1. InChannel' = InChannel /\ InHand' = InHand  BY DEF InChannel, InHand
<1>2. OnePlace' /\ Unsettled' /\ SendsItsTask'
  BY <1>1 DEF Custody, OnePlace, Unsettled, SendsItsTask
<1>3. FlagFirst'  BY DEF Custody, FlagFirst
<1>4. AllAccounted'  BY <1>1 DEF Custody, AllAccounted, Pending
<1> QED  BY <1>2, <1>3, <1>4 DEF Custody

\* A flush request or the shutdown task is queued.
LEMMA CustodyControl ==
  ASSUME TypeOK, Custody, UNCHANGED <<worker, task, sending, fate, shutdown>>,
         drop' = drop \/ shutdown,
         NEW t \in Task, chan' = Append(chan, t),
         \A e \in Envelopes : t # SendEnvelope(e), t = Shutdown => shutdown
  PROVE  Custody'
<1>1. /\ Len(chan) \in Nat /\ Len(chan') = Len(chan) + 1
      /\ \A j \in 1 .. Len(chan') : \/ j \in 1 .. Len(chan) /\ chan'[j] = chan[j]
                                    \/ j = Len(chan) + 1 /\ chan'[j] = t
      /\ \A j \in 1 .. Len(chan) : j \in 1 .. Len(chan') /\ chan'[j] = chan[j]
  BY Positions
<1>2. InChannel' = InChannel /\ InHand' = InHand
  BY <1>1 DEF InChannel, InHand
<1>3. OnePlace'
  BY <1>1, <1>2 DEF Custody, OnePlace
<1>4. Unsettled' /\ SendsItsTask'
  BY <1>2 DEF Custody, Unsettled, SendsItsTask
<1>5. FlagFirst'  BY <1>1 DEF Custody, FlagFirst
<1>6. AllAccounted'  BY <1>2 DEF Custody, AllAccounted, Pending
<1> QED  BY <1>3, <1>4, <1>5, <1>6 DEF Custody

\* Whoever is unsent is in nobody's hands.
LEMMA CustodySend ==
  ASSUME TypeOK, Custody, NEW e \in Envelopes, Send(e)
  PROVE  Custody'
<1>1. e \notin InChannel /\ e \notin InHand
  <2>1. PICK i \in AllItems : i \in Contents[e].items  BY Owner
  <2>2. fate[i] = "unsent"  BY <2>1 DEF Send
  <2> QED  BY <2>1, <2>2 DEF Custody, Unsettled
<1>2. UNCHANGED <<worker, task, sending, shutdown, drop>>  BY DEF Send, workerVars
<1>3. InHand' = InHand  BY <1>2 DEF InHand
<1>4. CASE chan' = Append(chan, SendEnvelope(e)) /\ fate' = Settle(Contents[e].items, "queued")
  <2>1. SendEnvelope(e) \in Task  BY TasksAreTasks
  <2>2. /\ Len(chan) \in Nat /\ Len(chan') = Len(chan) + 1
        /\ \A j \in 1 .. Len(chan') : \/ j \in 1 .. Len(chan) /\ chan'[j] = chan[j]
                                      \/ j = Len(chan) + 1 /\ chan'[j] = SendEnvelope(e)
        /\ chan'[Len(chan) + 1] = SendEnvelope(e)
        /\ \A j \in 1 .. Len(chan) : j \in 1 .. Len(chan') /\ chan'[j] = chan[j]
    BY <1>4, <2>1, Positions
  <2>3. InChannel' = InChannel \cup {e}
    BY <2>2, TaskIdentity DEF InChannel
  <2>4. \A j \in 1 .. Len(chan) : chan[j] # SendEnvelope(e)
    BY <1>1 DEF InChannel
  <2>5. OnePlace'
    <3>1. InHand' \cap InChannel' = {}  BY <1>1, <1>3, <2>3 DEF Custody, OnePlace
    <3>2. ASSUME NEW j \in 1 .. Len(chan'), NEW k \in 1 .. Len(chan'), NEW f \in Envelopes,
                 chan'[j] = SendEnvelope(f), chan'[k] = SendEnvelope(f)
          PROVE  j = k
      <4>1. CASE f = e  BY <2>2, <2>4, <3>2, <4>1
      <4>2. CASE f # e  BY <2>2, <3>2, <4>2, TaskIdentity DEF Custody, OnePlace
      <4> QED  BY <4>1, <4>2
    <3> QED  BY <3>1, <3>2 DEF OnePlace
  <2>6. \A f \in Envelopes : \A i \in Contents[f].items :
          fate'[i] = IF f = e THEN "queued" ELSE fate[i]
    BY <1>4, Owner DEF Settle
  <2>7. Unsettled'
    BY <1>1, <1>2, <1>3, <2>3, <2>6 DEF Custody, Unsettled, InChannel, InHand
  <2>8. SendsItsTask'  BY <1>2 DEF Custody, SendsItsTask
  <2>9. FlagFirst'  BY <1>2, <2>2, TaskIdentity DEF Custody, FlagFirst
  <2>10. AllAccounted'
    <3> SUFFICES ASSUME NEW i \in AllItems
                 PROVE  /\ fate'[i] = "queued" => i \in ItemsOf(Pending)'
                        /\ fate'[i] = "discarded" => shutdown' \/ worker' = "panicked"
      BY DEF AllAccounted
    <3>1. /\ fate[i] = "queued" => i \in ItemsOf(Pending)
          /\ fate[i] = "discarded" => shutdown \/ worker = "panicked"
      BY DEF Custody, AllAccounted
    <3>2. Pending' = Pending \cup {e}  BY <1>3, <2>3 DEF Pending
    <3>3. fate'[i] = IF i \in Contents[e].items THEN "queued" ELSE fate[i]  BY <1>4 DEF Settle
    <3> QED  BY <1>2, <3>1, <3>2, <3>3 DEF ItemsOf
  <2> QED  BY <2>5, <2>7, <2>8, <2>9, <2>10 DEF Custody
<1>5. CASE /\ UNCHANGED chan
           /\ \E how \in {"QueueOverflow", "InternalError"} : fate' = Settle(Contents[e].items, how)
  <2>1. InChannel' = InChannel  BY <1>5 DEF InChannel
  <2>2. PICK how \in {"QueueOverflow", "InternalError"} : fate' = Settle(Contents[e].items, how)
    BY <1>5
  <2>3. \A f \in Envelopes : f # e => \A i \in Contents[f].items : fate'[i] = fate[i]
    BY <2>2, Owner DEF Settle
  <2>4. OnePlace' /\ SendsItsTask' /\ FlagFirst'
    BY <1>2, <1>3, <1>5, <2>1 DEF Custody, OnePlace, SendsItsTask, FlagFirst
  <2>5. Unsettled'
    BY <1>1, <1>2, <1>3, <2>1, <2>3 DEF Custody, Unsettled, InChannel, InHand
  <2>6. AllAccounted'
    <3> SUFFICES ASSUME NEW i \in AllItems
                 PROVE  /\ fate'[i] = "queued" => i \in ItemsOf(Pending)'
                        /\ fate'[i] = "discarded" => shutdown' \/ worker' = "panicked"
      BY DEF AllAccounted
    <3>1. /\ fate[i] = "queued" => i \in ItemsOf(Pending)
          /\ fate[i] = "discarded" => shutdown \/ worker = "panicked"
      BY DEF Custody, AllAccounted
    <3>2. Pending' = Pending  BY <1>3, <2>1 DEF Pending
    <3>3. fate'[i] \in {fate[i], "QueueOverflow", "InternalError"}  BY <2>2 DEF Settle
    <3> QED  BY <1>2, <3>1, <3>2, <3>3 DEF ItemsOf
  <2> QED  BY <2>4, <2>5, <2>6 DEF Custody
<1> QED  BY <1>4, <1>5 DEF Send

\* The head of the channel comes into the worker's hands.
LEMMA CustodyRecv ==
  ASSUME TypeOK, Custody, Recv
  PROVE  Custody'
<1>1. /\ UNCHANGED <<fate, shutdown, sending, drop>>
      /\ worker = "recv" /\ worker' = "got" /\ chan # <<>>
      /\ task' = Head(chan) /\ chan' = Tail(chan)
  BY DEF Recv
<1>2. /\ Len(chan) \in Nat /\ Len(chan) > 0 /\ Len(chan') = Len(chan) - 1
      /\ task' = chan[1]
      /\ \A j \in 1 .. Len(chan) - 1 : chan'[j] = chan[j + 1]
  BY <1>1, TailChannel DEF TypeOK
<1>3. \A j \in 1 .. Len(chan') : j + 1 \in 1 .. Len(chan) /\ chan'[j] = chan[j + 1]
  BY <1>2
<1>4. \A j \in 1 .. Len(chan) : j = 1 \/ (j - 1 \in 1 .. Len(chan') /\ chan'[j - 1] = chan[j])
  BY <1>2
<1>5. InHand = {} /\ InHand' = { e \in Envelopes : chan[1] = SendEnvelope(e) }
  BY <1>1, <1>2 DEF InHand
<1>6. InChannel' \subseteq InChannel /\ InHand' \subseteq InChannel
      /\ InChannel \subseteq InChannel' \cup InHand'
  <2>1. 1 \in 1 .. Len(chan)  BY <1>2
  <2> QED  BY <1>2, <1>3, <1>4, <1>5, <2>1 DEF InChannel
<1>7. OnePlace'
  <2>1. ASSUME NEW e \in InHand', e \in InChannel'  PROVE FALSE
    <3>1. PICK j \in 1 .. Len(chan') : chan'[j] = SendEnvelope(e)  BY <2>1 DEF InChannel
    <3>2. j + 1 = 1
      <4>1. j + 1 \in 1 .. Len(chan) /\ 1 \in 1 .. Len(chan) /\ e \in Envelopes
            /\ chan[j + 1] = SendEnvelope(e) /\ chan[1] = SendEnvelope(e)
        BY <1>2, <1>3, <1>5, <3>1
      <4> QED  BY <4>1 DEF Custody, OnePlace
    <3> QED  BY <3>2
  <2>2. ASSUME NEW j \in 1 .. Len(chan'), NEW k \in 1 .. Len(chan'), NEW e \in Envelopes,
               chan'[j] = SendEnvelope(e), chan'[k] = SendEnvelope(e)
        PROVE  j = k
    <3>1. j + 1 = k + 1  BY <1>3, <2>2, SMTT(90) DEF Custody, OnePlace
    <3> QED  BY <3>1, <1>2
  <2> QED  BY <2>1, <2>2 DEF OnePlace
<1>8. Unsettled'
  BY <1>1, <1>6 DEF Custody, Unsettled
<1>9. SendsItsTask'  BY <1>1 DEF SendsItsTask
<1>10. FlagFirst'
  <2>1. 1 \in 1 .. Len(chan)  BY <1>2
  <2> QED  BY <1>1, <1>2, <1>3, <2>1 DEF Custody, FlagFirst
<1>11. AllAccounted'
  <2>1. Pending' = Pending  BY <1>5, <1>6 DEF Pending
  <2> QED  BY <1>1, <2>1 DEF Custody, AllAccounted, ItemsOf
<1> QED  BY <1>7, <1>8, <1>9, <1>10, <1>11 DEF Custody

\* What the worker has in its hands.
LEMMA TaskInHand ==
  ASSUME TypeOK, worker \in {"got", "sending"}
  PROVE  /\ task.type = "send" => /\ task.env \in Envelopes /\ task = SendEnvelope(task.env)
                                  /\ InHand = {task.env}
         /\ task.type # "send" => InHand = {}
<1>1. task = NoTask \/ task \in Task  BY DEF TypeOK
<1>2. task.type = "send" => task.env \in Envelopes /\ task = SendEnvelope(task.env)
  BY <1>1, TaskCases, TasksAreTasks
<1>3. \A e \in Envelopes : task = SendEnvelope(e) => task.type = "send" /\ task.env = e
  BY TasksAreTasks
<1> QED  BY <1>2, <1>3 DEF InHand

\* The worker is done with what it has in its hands: whatever of it was not
\* settled yet is settled now.
LEMMA CustodyRelease ==
  ASSUME Custody, worker \in {"got", "sending"}, worker' = "recv", task' = NoTask,
         UNCHANGED <<chan, shutdown, drop>>,
         \A i \in AllItems : fate'[i] # fate[i] => i \in ItemsOf(InHand),
         \A i \in ItemsOf(InHand) : fate'[i] \notin {"queued", "discarded"} \/ fate'[i] = fate[i],
         \A i \in ItemsOf(InHand) : fate'[i] # "queued"
  PROVE  Custody'
<1>1. InChannel' = InChannel /\ InHand' = {} /\ Pending' = InChannel
  BY DEF InChannel, InHand, Pending
<1>2. \A e \in InChannel : \A i \in Contents[e].items : fate'[i] = fate[i]
  <2> SUFFICES ASSUME NEW e \in InChannel, NEW i \in Contents[e].items, fate'[i] # fate[i]
               PROVE  FALSE
    OBVIOUS
  <2>1. e \in Envelopes /\ i \in AllItems /\ InHand \subseteq Envelopes
    BY Owner DEF InChannel, InHand
  <2>2. PICK f \in InHand : i \in Contents[f].items  BY <2>1 DEF ItemsOf
  <2>3. f = e  BY <2>1, <2>2, Owner
  <2> QED  BY <2>2, <2>3 DEF Custody, OnePlace
<1>3. OnePlace'  BY <1>1 DEF Custody, OnePlace
<1>4. Unsettled'  BY <1>1, <1>2 DEF Custody, Unsettled
<1>5. SendsItsTask'  BY DEF SendsItsTask
<1>6. FlagFirst'  BY TasksAreTasks DEF Custody, FlagFirst
<1>7. AllAccounted'
  <2> SUFFICES ASSUME NEW i \in AllItems
               PROVE  /\ fate'[i] = "queued" => i \in ItemsOf(Pending)'
                      /\ fate'[i] = "discarded" => shutdown' \/ worker' = "panicked"
    BY DEF AllAccounted
  <2>1. /\ fate[i] = "queued" => i \in ItemsOf(InChannel) \cup ItemsOf(InHand)
        /\ fate[i] = "discarded" => shutdown
    BY DEF Custody, AllAccounted, ItemsOf, Pending
  <2>2. ItemsOf(Pending)' = ItemsOf(InChannel)  BY <1>1 DEF ItemsOf
  <2> QED  BY <2>1, <2>2
<1> QED  BY <1>3, <1>4, <1>5, <1>6, <1>7 DEF Custody

LEMMA CustodyAck == ASSUME TypeOK, Custody, Ack PROVE Custody'
<1>1. /\ UNCHANGED <<chan, shutdown, drop, fate>>
      /\ worker = "got" /\ worker' = "recv" /\ task' = NoTask /\ task.type = "flush"
  BY DEF Ack
<1>2. ItemsOf(InHand) = {}  BY <1>1, TaskInHand DEF ItemsOf
<1> QED  BY <1>1, <1>2, CustodyRelease

\* What the worker settles without sending it was queued.
LEMMA CustodySkip ==
  ASSUME TypeOK, Custody, worker = "got", worker' = "recv", task' = NoTask, task.type = "send",
         UNCHANGED <<chan, shutdown, drop>>,
         fate' = Settle(Contents[task.env].items, "RatelimitBackoff")
  PROVE  Custody'
<1>1. ItemsOf(InHand) = Contents[task.env].items /\ Contents[task.env].items \subseteq AllItems
  BY TaskInHand, Owner DEF ItemsOf
<1>2. \A i \in AllItems : fate'[i] = IF i \in ItemsOf(InHand) THEN "RatelimitBackoff" ELSE fate[i]
  BY <1>1 DEF Settle
<1> QED  BY <1>1, <1>2, CustodyRelease

LEMMA CustodySent ==
  ASSUME TypeOK, Custody, worker = "sending",
         NEW how, how \notin {"queued", "discarded"}, Sent(sending.items, how)
  PROVE  Custody'
<1>1. PICK e \in Envelopes : task = SendEnvelope(e) /\ sending.items \subseteq Contents[e].items
  BY DEF Custody, SendsItsTask
<1>2. InHand = {e} /\ ItemsOf(InHand) = Contents[e].items
  BY <1>1, TaskInHand, TasksAreTasks DEF ItemsOf
<1>3. \A i \in AllItems : fate'[i] = IF i \in sending.items THEN how ELSE fate[i]
  BY DEF Sent, Settle
<1>4. \A i \in Contents[e].items : i \in AllItems /\ (fate[i] = "queued" => i \in sending.items)
  BY <1>2, Owner DEF Custody, Unsettled
<1>5. \A i \in AllItems : fate'[i] # fate[i] => i \in ItemsOf(InHand)
  BY <1>1, <1>2, <1>3
<1>6. \A i \in ItemsOf(InHand) : /\ fate'[i] \notin {"queued", "discarded"} \/ fate'[i] = fate[i]
                                 /\ fate'[i] # "queued"
  BY <1>2, <1>3, <1>4
<1> QED  BY <1>5, <1>6, CustodyRelease DEF Sent

\* What Envelope::filter keeps is what its predicate accepts, or less.
LEMMA FilterKeeps ==
  ASSUME NEW e \in Envelopes, NEW accepted \in SUBSET Contents[e].items
  PROVE  Filter(Contents[e], accepted).items = FilterItems(accepted)
<1>1. Contents[e] \in [items : SUBSET [of : Envelopes, kind : Kind],
                       event_id : BOOLEAN, trace : BOOLEAN]
  BY ContentsAssumption
<1>2. [Contents[e] EXCEPT !.items = FilterItems(accepted)].items = FilterItems(accepted)
  BY <1>1
<1> QED  BY <1>2 DEF Filter

LEMMA CustodyFilter == ASSUME TypeOK, Custody, FilterAndSend PROVE Custody'
<1> DEFINE e == task.env
           ok == { i \in Contents[e].items : Enabled(i) }
           out == Filter(Contents[e], ok)
<1>1. /\ worker = "got" /\ task.type = "send"
      /\ UNCHANGED <<chan, shutdown, drop>>
      /\ fate' = Settle(Contents[e].items \ out.items, "RatelimitBackoff")
      /\ \/ out.items = {} /\ worker' = "recv" /\ task' = NoTask
         \/ out.items # {} /\ worker' = "sending" /\ sending' = out /\ task' = task
  BY DEF FilterAndSend
<1>2. e \in Envelopes /\ task = SendEnvelope(e) /\ InHand = {e}
  BY <1>1, TaskInHand
<1>3. out.items \subseteq Contents[e].items
  BY <1>2, FilterKeeps DEF FilterItems
<1> HIDE DEF e, out
<1>4. CASE out.items = {} /\ worker' = "recv" /\ task' = NoTask
  <2>1. fate' = Settle(Contents[task.env].items, "RatelimitBackoff")
    <3>1. Contents[e].items \ out.items = Contents[e].items  BY <1>4
    <3> QED  BY <1>1, <3>1 DEF e
  <2> QED  BY <1>1, <1>4, <2>1, CustodySkip
<1>5. CASE out.items # {} /\ worker' = "sending" /\ sending' = out /\ task' = task
  <2>1. InChannel' = InChannel /\ InHand' = InHand /\ Pending' = Pending
    BY <1>1, <1>5 DEF InChannel, InHand, Pending
  <2>2. \A i \in AllItems : fate'[i] = IF i \in Contents[e].items \ out.items
                                       THEN "RatelimitBackoff" ELSE fate[i]
    BY <1>1 DEF Settle
  <2>3. OnePlace' /\ SendsItsTask' /\ FlagFirst'
    BY <1>1, <1>2, <1>3, <1>5, <2>1 DEF Custody, OnePlace, SendsItsTask, FlagFirst
  <2>4. \A f \in InChannel : f \in Envelopes /\ f # e
    BY <1>2 DEF Custody, OnePlace, InChannel
  <2>5. \A f \in InChannel : \A i \in Contents[f].items : fate'[i] = "queued"
    BY <1>2, <2>2, <2>4, Owner DEF Custody, Unsettled
  <2>6. \A i \in Contents[e].items : fate[i] = "queued" /\ i \in AllItems
    BY <1>1, <1>2, Owner DEF Custody, Unsettled
  <2>7. Unsettled'
    BY <1>2, <1>5, <2>1, <2>2, <2>5, <2>6 DEF Unsettled
  <2>8. AllAccounted'
    <3> SUFFICES ASSUME NEW i \in AllItems
                 PROVE  /\ fate'[i] = "queued" => i \in ItemsOf(Pending)'
                        /\ fate'[i] = "discarded" => shutdown' \/ worker' = "panicked"
      BY DEF AllAccounted
    <3>1. /\ fate[i] = "queued" => i \in ItemsOf(Pending)
          /\ fate[i] = "discarded" => shutdown
      BY <1>1 DEF Custody, AllAccounted
    <3>2. ItemsOf(Pending)' = ItemsOf(Pending)  BY <2>1 DEF ItemsOf
    <3> QED  BY <1>1, <2>2, <3>1, <3>2
  <2> QED  BY <2>3, <2>7, <2>8 DEF Custody
<1> QED  BY <1>1, <1>4, <1>5

\* The thread ends, and the channel with everything in it.
LEMMA CustodyEnd ==
  ASSUME Custody, chan' = <<>>, task' = NoTask, worker' \in {"returned", "panicked"},
         UNCHANGED <<shutdown, drop>>, shutdown \/ worker' = "panicked",
         \A i \in AllItems : i \in ItemsOf(Pending) => fate'[i] # "queued",
         \A i \in AllItems : i \notin ItemsOf(Pending) => fate'[i] = fate[i]
  PROVE  Custody'
<1>1. InChannel' = {} /\ InHand' = {} /\ Len(chan') = 0
  BY EmptyChannel DEF InChannel, InHand
<1>2. OnePlace' /\ Unsettled' /\ SendsItsTask' /\ FlagFirst'
  BY <1>1, TasksAreTasks DEF Custody, OnePlace, Unsettled, SendsItsTask, FlagFirst
<1>3. AllAccounted'  BY DEF Custody, AllAccounted
<1> QED  BY <1>2, <1>3 DEF Custody

LEMMA CustodyStop == ASSUME TypeOK, Custody, Stop PROVE Custody'
<1>1. /\ worker' = "returned" /\ chan' = <<>> /\ task' = NoTask
      /\ UNCHANGED <<shutdown, drop>>
      /\ fate' = Settle(ItemsOf(Pending), "discarded")
      /\ shutdown
  BY DEF Stop, Exit, Pending, Custody, FlagFirst
<1> QED  BY <1>1, CustodyEnd DEF Settle

LEMMA CustodySerialize == ASSUME TypeOK, Custody, SerializeError PROVE Custody'
<1>1. /\ worker = "sending" /\ worker' = "panicked" /\ chan' = <<>> /\ task' = NoTask
      /\ UNCHANGED <<shutdown, drop>>
      /\ \A i \in AllItems : fate'[i] = IF i \in sending.items THEN "InternalError"
                ELSE IF i \in ItemsOf(InChannel) THEN "discarded" ELSE fate[i]
  BY DEF SerializeError
<1>2. PICK e \in Envelopes : task = SendEnvelope(e) /\ sending.items \subseteq Contents[e].items
  BY <1>1 DEF Custody, SendsItsTask
<1>3. InHand = {e} /\ ItemsOf(Pending) = Contents[e].items \cup ItemsOf(InChannel)
  BY <1>1, <1>2, TaskInHand, TasksAreTasks DEF ItemsOf, Pending
<1>4. \A i \in Contents[e].items : fate[i] = "queued" => i \in sending.items
  BY <1>1, <1>3 DEF Custody, Unsettled
<1>5. \A i \in AllItems : i \in ItemsOf(Pending) => fate'[i] # "queued"
  BY <1>1, <1>3, <1>4
<1>6. \A i \in AllItems : i \notin ItemsOf(Pending) => fate'[i] = fate[i]
  BY <1>1, <1>2, <1>3
<1> QED  BY <1>1, <1>5, <1>6, CustodyEnd

LEMMA CustodyStep == TypeOK /\ Custody /\ [Next]_vars => Custody'
<1> SUFFICES ASSUME TypeOK, Custody, [Next]_vars PROVE Custody'
  OBVIOUS
<1>1. ASSUME NEW c \in Callers, FlushStart(c) \/ FlushReturn(c) \/ FlushSeen(c)  PROVE Custody'
  BY <1>1, CustodyQuiet DEF FlushStart, FlushReturn, FlushSeen, workerVars
<1>2. ASSUME NEW c \in Callers, FlushQueued(c)  PROVE Custody'
  <2>1. UNCHANGED <<worker, task, sending, fate, shutdown, drop>>
    BY <1>2 DEF FlushQueued, workerVars
  <2>2. CASE chan' = chan  BY <2>1, <2>2, CustodyQuiet
  <2>3. CASE chan' = Append(chan, Flush(c, round[c]))
    <3>1. Flush(c, round[c]) \in Task  BY TasksAreTasks DEF TypeOK
    <3>2. Flush(c, round[c]) # Shutdown /\ \A e \in Envelopes : Flush(c, round[c]) # SendEnvelope(e)
      BY TaskIdentity
    <3> QED  BY <2>1, <2>3, <3>1, <3>2, CustodyControl
  <2> QED  BY <1>2, <2>2, <2>3 DEF FlushQueued
<1>3. CASE DropFlag \/ DropJoin
  BY <1>3, CustodyQuiet DEF DropFlag, DropJoin, workerVars, Custody, FlagFirst
<1>4. CASE DropSend
  <2>1. UNCHANGED <<worker, task, sending, fate, shutdown>> /\ shutdown
    BY <1>4 DEF DropSend, workerVars, Custody, FlagFirst
  <2>2. CASE chan' = chan  BY <2>1, <2>2, CustodyQuiet
  <2>3. CASE chan' = Append(chan, Shutdown)
    <3>1. Shutdown \in Task /\ \A e \in Envelopes : Shutdown # SendEnvelope(e)
      BY TasksAreTasks, TaskIdentity
    <3> QED  BY <2>1, <2>3, <3>1, CustodyControl
  <2> QED  BY <1>4, <2>2, <2>3 DEF DropSend
<1>5. CASE SkipLimited
  BY <1>5, CustodySkip DEF SkipLimited
<1>6. ASSUME NEW status \in {"ok", "429", "error"}, NEW limits \in Limits, Response(status, limits)
      PROVE  Custody'
  BY <1>6, CustodySent DEF Response
<1>7. CASE NetworkError
  BY <1>7, CustodySent DEF NetworkError
<1>8. ASSUME NEW category \in rl, Expire(category)  PROVE Custody'
  BY <1>8, CustodyQuiet DEF Expire
<1>9. CASE UNCHANGED vars
  BY <1>9, CustodyQuiet DEF vars
<1> QED
  BY <1>1, <1>2, <1>3, <1>4, <1>5, <1>6, <1>7, <1>8, <1>9, CustodySend, CustodyRecv, CustodyAck,
     CustodyFilter, CustodyStop, CustodySerialize
  DEF Next, Caller, Dropping, Worker, Network, Terminated

\* For any capacity, callers and envelopes: an item whose fate is open is in the
\* channel or in the worker's hands, and nothing vanishes without a record unless
\* the transport is dropped or its thread has panicked (thread.rs 62-184).
THEOREM EverythingAccounted == Spec => [](Custody /\ AllAccounted)
<1>1. Custody => AllAccounted  BY DEF Custody
<1> QED  BY <1>1, TypeCorrect, CustodyInit, CustodyStep, PTL DEF Spec

-----------------------------------------------------------------------------
(* What a step may never do.                                               *)

LEMMA SettledOnceStep ==
  ASSUME TypeOK, Custody, [Next]_vars, NEW i \in AllItems, fate[i] \in Final
  PROVE  fate'[i] = fate[i]
<1>0. fate[i] # "unsent" /\ fate[i] # "queued"  BY DEF Final, LossReason
<1>1. ASSUME NEW e \in Envelopes, Send(e)  PROVE fate'[i] = fate[i]
  <2>1. i \notin Contents[e].items  BY <1>0, <1>1 DEF Send
  <2> QED  BY <1>1, <2>1 DEF Send, Settle
<1>2. ASSUME worker = "sending"  PROVE i \notin sending.items
  <2>1. PICK e \in Envelopes : task = SendEnvelope(e) /\ sending.items \subseteq Contents[e].items
    BY <1>2 DEF Custody, SendsItsTask
  <2>2. InHand = {e}  BY <1>2, <2>1, TaskInHand, TasksAreTasks
  <2> QED  BY <1>0, <2>1, <2>2 DEF Custody, Unsettled
<1>3. i \notin ItemsOf(InChannel)
  BY <1>0 DEF Custody, Unsettled, ItemsOf
<1>4. ASSUME worker = "got"  PROVE i \notin ItemsOf(InHand)
  BY <1>0, <1>4 DEF Custody, Unsettled, ItemsOf
<1>5. ASSUME worker = "got", task.type = "send"  PROVE i \notin Contents[task.env].items
  BY <1>4, <1>5, TaskInHand DEF ItemsOf
<1>6. CASE Stop
  <2>1. fate' = Settle(ItemsOf(InChannel \cup InHand), "discarded") /\ worker = "got"
    BY <1>6 DEF Stop, Exit
  <2>2. i \notin ItemsOf(InChannel \cup InHand)  BY <1>3, <1>4, <2>1 DEF ItemsOf
  <2> QED  BY <2>1, <2>2 DEF Settle
<1>7. CASE SkipLimited  BY <1>5, <1>7 DEF SkipLimited, Settle
<1>8. CASE FilterAndSend  BY <1>5, <1>8 DEF FilterAndSend, Settle
<1>9. ASSUME NEW status \in {"ok", "429", "error"}, NEW limits \in Limits, Response(status, limits)
      PROVE  fate'[i] = fate[i]
  BY <1>2, <1>9 DEF Response, Sent, Settle
<1>10. CASE NetworkError  BY <1>2, <1>10 DEF NetworkError, Sent, Settle
<1>11. CASE SerializeError  BY <1>2, <1>3, <1>11 DEF SerializeError
<1>12. CASE UNCHANGED fate  BY <1>12
<1> QED
  BY <1>1, <1>6, <1>7, <1>8, <1>9, <1>10, <1>11, <1>12
  DEF Next, Caller, Dropping, Worker, Network, Terminated, vars, FlushStart, FlushQueued,
      FlushReturn, FlushSeen, DropFlag, DropSend, DropJoin, Recv, Ack, Expire

\* For any capacity, callers and envelopes no loss is recorded twice, and what the
\* server has accepted or refused is never recorded as lost (thread.rs 62-184).
THEOREM FatesAreFinal == Spec => SettledOnce
<1>1. TypeOK /\ Custody /\ [Next]_vars
        => [\A i \in AllItems : fate[i] \in Final => fate'[i] = fate[i]]_vars
  BY SettledOnceStep
<1> QED  BY <1>1, TypeCorrect, EverythingAccounted, PTL DEF Spec, SettledOnce

LEMMA RespectsLimitsStep ==
  ASSUME TypeOK, [Next]_vars, worker' = "sending", worker # "sending"
  PROVE  /\ \A i \in sending'.items : ~IsDisabled(RateLimitingCategory(i.kind))
         /\ (\E i \in sending'.items : i.kind = "attachment") => HasEvent(sending'.items)
<1>1. FilterAndSend
  BY DEF Next, Caller, Dropping, Worker, Network, Terminated, vars, Send, FlushStart, FlushQueued,
         FlushReturn, FlushSeen, DropFlag, DropSend, DropJoin, Recv, Stop, Exit, Ack, SkipLimited,
         Response, NetworkError, SerializeError, Sent, Expire, workerVars
<1> DEFINE ok == { i \in Contents[task.env].items : Enabled(i) }
<1>2. sending' = Filter(Contents[task.env], ok)  BY <1>1 DEF FilterAndSend
<1>3. task.env \in Envelopes  BY <1>1, TaskInHand DEF FilterAndSend
<1>4. sending'.items = FilterItems(ok)  BY <1>2, <1>3, FilterKeeps
<1>5. \A i \in FilterItems(ok) : i \in ok  BY DEF FilterItems
<1>6. ASSUME NEW i \in FilterItems(ok), i.kind = "attachment"  PROVE HasEvent(FilterItems(ok))
  <2>1. PICK j \in ok : j.kind \in EventKinds  BY <1>6 DEF FilterItems, HasEvent
  <2>2. j.kind # "attachment"  BY <2>1 DEF EventKinds
  <2>3. j \in FilterItems(ok)  BY <2>1, <2>2 DEF FilterItems
  <2> QED  BY <2>1, <2>3 DEF HasEvent
<1> QED  BY <1>4, <1>5, <1>6 DEF Enabled

\* Whatever the envelope and the limits: no request carries an item of a limited
\* category, and no attachment without its event (thread.rs 118-131, Envelope::filter).
THEOREM LimitsRespected == Spec => RespectsLimits
<1>1. TypeOK /\ [Next]_vars
        => [worker' = "sending" /\ worker # "sending" =>
              /\ \A i \in sending'.items : ~IsDisabled(RateLimitingCategory(i.kind))
              /\ (\E i \in sending'.items : i.kind = "attachment") => HasEvent(sending'.items)]_vars
  BY RespectsLimitsStep
<1> QED  BY <1>1, TypeCorrect, PTL DEF Spec, RespectsLimits

=============================================================================
