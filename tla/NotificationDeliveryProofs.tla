---------------------- MODULE NotificationDeliveryProofs ---------------------
(***************************************************************************)
(* Theorems about NotificationDelivery, for any sets of workers, signals   *)
(* and recipients and any bounds.                                          *)
(***************************************************************************)
EXTENDS NotificationDelivery, TLAPS

------------------------------------------------------------------------------
(* Messages.                                                               *)

\* A message built for a signal or a delivery is one of the queue's messages.
LEMMA MessageTypes ==
  /\ \A s \in Signals : DispatchMessage(s) \in DispatchMessages
  /\ \A d \in Deliveries, n \in 0 .. MaxRetries :
       SendMessage(d, n) \in SendMessages
  /\ DispatchMessages \subseteq Messages
  /\ SendMessages \subseteq Messages
  BY DEF DispatchMessage, SendMessage, DispatchMessages, SendMessages, Messages

\* What a task reads from its message has its type, and no message belongs
\* to both tasks.
LEMMA MessageFields ==
  /\ \A m \in DispatchMessages : m.signal \in Signals
  /\ \A m \in SendMessages : /\ m.delivery \in Deliveries
                             /\ m.retries \in 0 .. MaxRetries
                             /\ m = SendMessage(m.delivery, m.retries)
  /\ DispatchMessages \cap SendMessages = {}
  /\ NoJob \notin Messages
  BY DEF DispatchMessages, SendMessages, Messages, NoJob, SendMessage

\* The message of a delivery and a retry count names both.
LEMMA SendMessageParts ==
  \A d \in Deliveries, n \in 0 .. MaxRetries :
    /\ SendMessage(d, n).delivery = d
    /\ SendMessage(d, n).retries = n
    /\ SendMessage(d, n) \notin DispatchMessages
  BY DEF SendMessage, DispatchMessages

\* The dispatch message of a delivery's signal names that signal.
LEMMA DispatchMessageParts ==
  /\ \A d \in Deliveries : d[1] \in Signals
  /\ \A s \in Signals : /\ DispatchMessage(s).signal = s
                         /\ DispatchMessage(s) \notin SendMessages
  /\ \A m \in DispatchMessages : m = DispatchMessage(m.signal)
  BY DEF DispatchMessage, DispatchMessages, SendMessages, Deliveries

\* Publishing adds one message to those that wait and disturbs no other.
LEMMA PublishAdds ==
  ASSUME queue \in [Messages -> Nat], NEW m \in Messages, Publish(m)
  PROVE  \A x \in Messages : Waiting(x)' <=> (x = m \/ Waiting(x))
  BY DEF Publish, Waiting

\* Taking a message makes none wait that did not, and disturbs no other.
LEMMA TakeRemovesOne ==
  ASSUME queue \in [Messages -> Nat], NEW m \in Messages, NEW w, Take(w, m)
  PROVE  \A x \in Messages : /\ Waiting(x)' => Waiting(x)
                             /\ x # m /\ Waiting(x) => Waiting(x)'
  BY DEF Take, Waiting

------------------------------------------------------------------------------
(* Type correctness.                                                       *)

\* The empty tables and the empty queue are well typed.
LEMMA TypeInit == Init => TypeOK
  BY BoundsAreNaturals
  DEF Init, TypeOK, EmptyQueue, IdleWorkers, Statuses, DispatchSteps, SendSteps, HoldSteps

\* Every step keeps the types: each step of a task finds a message of that
\* task in its worker's hands and leaves one there.
LEMMA TypeStep == TypeOK /\ [Next]_vars => TypeOK'
<1> SUFFICES ASSUME TypeOK, [Next]_vars PROVE TypeOK'
  OBVIOUS
<1> USE BoundsAreNaturals, MessageTypes, MessageFields
<1> USE DEF TypeOK
<1>1. ASSUME NEW s \in Signals, RequestDispatch(s) PROVE TypeOK'
  BY <1>1 DEF RequestDispatch, Publish, rows, locals, calls
<1>2. ASSUME NEW d \in Deliveries, RetryNow(d) PROVE TypeOK'
  BY <1>2 DEF RetryNow, Publish, rows, locals, calls
<1>3. ASSUME NEW r \in Recipients, ToggleRecipient(r) PROVE TypeOK'
  BY <1>3 DEF ToggleRecipient, rows, locals, calls, counters
<1>4. ASSUME NEW w \in Workers, NEW s \in Signals, DispatchReadsRecipients(w, s)
      PROVE  TypeOK'
  BY <1>4 DEF DispatchReadsRecipients, Begin, Take, Waiting, rows, calls,
              counters, DispatchSteps, SendSteps, HoldSteps, Deliveries
<1>5. ASSUME NEW w \in Workers, DispatchCreatesDeliveries(w) PROVE TypeOK'
  BY <1>5 DEF DispatchCreatesDeliveries, Missing, Goto, calls, counters,
              DispatchSteps, SendSteps, HoldSteps, Statuses
<1>6. ASSUME NEW w \in Workers, DispatchQueriesPending(w) PROVE TypeOK'
  BY <1>6 DEF DispatchQueriesPending, Goto, rows, calls, counters,
              DispatchSteps, SendSteps, HoldSteps
<1>7. ASSUME NEW w \in Workers, NEW d \in Deliveries, DispatchPublishes(w, d)
      PROVE  TypeOK'
  BY <1>7 DEF DispatchPublishes, Publish, rows, calls, counters
<1>8. ASSUME NEW w \in Workers, NEW d \in Deliveries, NEW n \in 0 .. MaxRetries,
             SendSkipsSent(w, d, n)
      PROVE  TypeOK'
  BY <1>8 DEF SendSkipsSent, AlreadySent, Take, Waiting, rows, locals, calls, counters
<1>9. ASSUME NEW w \in Workers, NEW d \in Deliveries, NEW n \in 0 .. MaxRetries,
             SendReadsDelivery(w, d, n)
      PROVE  TypeOK'
  BY <1>9 DEF SendReadsDelivery, AlreadySent, Begin, Take, Waiting, rows, calls, counters,
              DispatchSteps, SendSteps, HoldSteps
<1>10. ASSUME NEW w \in Workers, ChannelAccepts(w) PROVE TypeOK'
  BY <1>10 DEF ChannelAccepts, Goto, rows, counters, DispatchSteps, SendSteps, HoldSteps
<1>11. ASSUME NEW w \in Workers, ChannelRefuses(w) PROVE TypeOK'
  BY <1>11 DEF ChannelRefuses, AfterRefusal, Goto, rows, counters, DispatchSteps, SendSteps, HoldSteps
<1>12. ASSUME NEW w \in Workers, ChannelDeliversUnconfirmed(w) PROVE TypeOK'
  BY <1>12 DEF ChannelDeliversUnconfirmed, Goto, rows, counters,
               DispatchSteps, SendSteps, HoldSteps
<1>13. ASSUME NEW w \in Workers, SaveSent(w) PROVE TypeOK'
  BY <1>13 DEF SaveSent, RecordAttempt, Goto, calls, counters,
               DispatchSteps, SendSteps, HoldSteps, Statuses
<1>14. ASSUME NEW w \in Workers, SaveFailed(w) PROVE TypeOK'
  BY <1>14 DEF SaveFailed, Exhausted, RecordAttempt, Goto, calls, counters,
               DispatchSteps, SendSteps, HoldSteps, Statuses
<1>15. ASSUME NEW w \in Workers, SaveAttempt(w) PROVE TypeOK'
  BY <1>15 DEF SaveAttempt, Exhausted, RecordAttempt, Goto, calls, counters,
               DispatchSteps, SendSteps, HoldSteps
<1>16. ASSUME NEW w \in Workers, PublishRetry(w) PROVE TypeOK'
  BY <1>16 DEF PublishRetry, Publish, Goto, rows, calls, counters,
               DispatchSteps, SendSteps, HoldSteps
<1>17. ASSUME NEW w \in Workers, Acknowledge(w) PROVE TypeOK'
  BY <1>17 DEF Acknowledge, Forget, Release, rows, calls, counters,
               DispatchSteps, SendSteps, HoldSteps
<1>18. ASSUME NEW w \in Workers, WorkerLost(w) PROVE TypeOK'
  BY <1>18 DEF WorkerLost, GiveBack, Forget, Release, Publish, rows, calls,
               DispatchSteps, SendSteps, HoldSteps
<1>19. ASSUME NEW w \in Workers, TaskRaises(w) PROVE TypeOK'
  BY <1>19 DEF TaskRaises, Forget, Release, rows, calls,
               DispatchSteps, SendSteps, HoldSteps
<1>20. CASE UNCHANGED vars
  BY <1>20 DEF vars, rows, locals, calls, counters
<1> QED
  BY <1>1, <1>2, <1>3, <1>4, <1>5, <1>6, <1>7, <1>8, <1>9, <1>10, <1>11,
     <1>12, <1>13, <1>14, <1>15, <1>16, <1>17, <1>18, <1>19, <1>20
  DEF Next, Work, DeliveryWork

\* Every reachable state is well typed: in particular a worker is busy exactly
\* when it holds a message, of the task whose steps it takes.
THEOREM DeliveryTypeCorrect == Spec => []TypeOK
  BY TypeInit, TypeStep, PTL DEF Spec

------------------------------------------------------------------------------
(* The record against what happened.                                       *)

\* HistoryInv without its types, which TypeStep takes care of.
HistoryRest ==
  /\ RetriesAreEarned
  /\ SavesAreBacked
  /\ SentMeansAccepted
  /\ FailedMeansExhausted
  /\ AttemptsNeverOvercount

\* No row, no message and no call: nothing claims more than happened.
LEMMA HistoryInit == Init => HistoryInv
  BY TypeInit, BoundsAreNaturals
  DEF Init, HistoryInv, RetriesAreEarned, SavesAreBacked, SentMeansAccepted,
      FailedMeansExhausted, AttemptsNeverOvercount, EmptyQueue, IdleWorkers,
      Waiting, SendSteps, HoldSteps, SendMessages, NoJob, Calls, SendMessage, Messages

\* The inductive step: a save is backed by the call its worker made, a retry
\* by the failed calls behind it, and the call history only grows.
LEMMA HistoryStep == HistoryInv /\ [Next]_vars => HistoryInv'
<1> SUFFICES ASSUME HistoryInv, [Next]_vars PROVE HistoryRest'
  BY TypeStep DEF HistoryInv, HistoryRest
<1> HistoryRest /\ TypeOK /\ TypeOK'
  BY TypeStep DEF HistoryInv, HistoryRest
<1> USE BoundsAreNaturals, MessageTypes, MessageFields
<1> USE DEF TypeOK, HistoryRest, RetriesAreEarned, SavesAreBacked, SentMeansAccepted,
      FailedMeansExhausted, AttemptsNeverOvercount, Calls, Errors, Waiting,
      DispatchSteps, SendSteps, HoldSteps, rows, calls, locals, counters
<1>1. ASSUME NEW s \in Signals,
             RequestDispatch(s)
      PROVE  HistoryRest'
  BY <1>1 DEF RequestDispatch, Publish
<1>2. ASSUME NEW d \in Deliveries,
             RetryNow(d)
      PROVE  HistoryRest'
  <2>1. /\ \A x \in Messages : Waiting(x)' <=> (x = SendMessage(d, 0) \/ Waiting(x))
        /\ status[d] # "absent"
        /\ UNCHANGED <<rows, locals, calls>>
    BY <1>2, PublishAdds DEF RetryNow, Waiting
  <2> QED
    BY <2>1, SendMessageParts DEF Waiting
<1>3. ASSUME NEW r \in Recipients,
             ToggleRecipient(r)
      PROVE  HistoryRest'
  BY <1>3 DEF ToggleRecipient
<1>4. ASSUME NEW w \in Workers, NEW s \in Signals,
             DispatchReadsRecipients(w, s)
      PROVE  HistoryRest'
  BY <1>4 DEF DispatchReadsRecipients, Begin, Take
<1>5. ASSUME NEW w \in Workers,
             DispatchCreatesDeliveries(w)
      PROVE  HistoryRest'
  BY <1>5 DEF DispatchCreatesDeliveries, Missing, Goto
<1>6. ASSUME NEW w \in Workers,
             DispatchQueriesPending(w)
      PROVE  HistoryRest'
  BY <1>6 DEF DispatchQueriesPending, Goto
<1>7. ASSUME NEW w \in Workers, NEW d \in Deliveries,
             DispatchPublishes(w, d)
      PROVE  HistoryRest'
  <2>1. /\ \A x \in Messages : Waiting(x)' <=> (x = SendMessage(d, 0) \/ Waiting(x))
        /\ status[d] # "absent"
        /\ batch'[w] \subseteq batch[w]
        /\ \A v \in Workers : v # w => batch'[v] = batch[v]
        /\ UNCHANGED <<rows, pc, job, seen, calls>>
    BY <1>7, PublishAdds DEF DispatchPublishes
  <2>2. \A e \in Deliveries, k \in 0 .. MaxRetries :
          Waiting(SendMessage(e, k))' => status[e] # "absent" /\ Errors(e) >= k
    BY <2>1, SendMessageParts
  <2>3. \A v \in Workers : batch'[v] \subseteq batch[v]
    BY <2>1
  <2> HIDE DEF Waiting
  <2> QED
    BY <2>1, <2>2, <2>3
<1>8. ASSUME NEW w \in Workers, NEW d \in Deliveries,
             NEW n \in 0 .. MaxRetries,
             SendSkipsSent(w, d, n)
      PROVE  HistoryRest'
  BY <1>8 DEF SendSkipsSent, AlreadySent, Take
<1>9. ASSUME NEW w \in Workers, NEW d \in Deliveries,
             NEW n \in 0 .. MaxRetries,
             SendReadsDelivery(w, d, n)
      PROVE  HistoryRest'
  <2>1. /\ \A x \in Messages : Waiting(x)' => Waiting(x)
        /\ Waiting(SendMessage(d, n))
    BY <1>9, TakeRemovesOne DEF SendReadsDelivery, AlreadySent, Begin, Take
  <2> QED
    BY <1>9, <2>1, SendMessageParts DEF SendReadsDelivery, AlreadySent, Begin
<1>10. ASSUME NEW w \in Workers,
             ChannelAccepts(w)
      PROVE  HistoryRest'
  BY <1>10 DEF ChannelAccepts, Goto
<1>11. ASSUME NEW w \in Workers,
             ChannelRefuses(w)
      PROVE  HistoryRest'
  BY <1>11 DEF ChannelRefuses, AfterRefusal, Goto
<1>12. ASSUME NEW w \in Workers,
             ChannelDeliversUnconfirmed(w)
      PROVE  HistoryRest'
  BY <1>12 DEF ChannelDeliversUnconfirmed, Goto
<1>13. ASSUME NEW w \in Workers,
             SaveSent(w)
      PROVE  HistoryRest'
  BY <1>13 DEF SaveSent, RecordAttempt, Goto
<1>14. ASSUME NEW w \in Workers,
             SaveFailed(w)
      PROVE  HistoryRest'
  BY <1>14 DEF SaveFailed, Exhausted, RecordAttempt, Goto
<1>15. ASSUME NEW w \in Workers,
             SaveAttempt(w)
      PROVE  HistoryRest'
  BY <1>15 DEF SaveAttempt, Exhausted, RecordAttempt, Goto
<1>16. ASSUME NEW w \in Workers,
             PublishRetry(w)
      PROVE  HistoryRest'
  <2> DEFINE d == job[w].delivery
             n == job[w].retries + 1
  <2>1. /\ d \in Deliveries /\ n \in 0 .. MaxRetries
        /\ status[d] # "absent" /\ Errors(d) >= n
    BY <1>16 DEF PublishRetry
  <2>2. /\ \A x \in Messages : Waiting(x)' <=> (x = SendMessage(d, n) \/ Waiting(x))
        /\ pc' = [pc EXCEPT ![w] = "done"]
        /\ UNCHANGED <<rows, job, seen, batch, calls>>
    BY <1>16, <2>1, PublishAdds DEF PublishRetry, Goto
  <2>3. \A e \in Deliveries, k \in 0 .. MaxRetries :
          Waiting(SendMessage(e, k))' => status[e] # "absent" /\ Errors(e) >= k
    BY <2>1, <2>2, SendMessageParts, SMTT(30)
  <2> HIDE DEF Waiting
  <2> QED
    BY <2>2, <2>3
<1>17. ASSUME NEW w \in Workers,
             Acknowledge(w)
      PROVE  HistoryRest'
  BY <1>17 DEF Acknowledge, Forget, Release
<1>18. ASSUME NEW w \in Workers,
             WorkerLost(w)
      PROVE  HistoryRest'
  <2>1. \A x \in Messages : Waiting(x)' <=> (x = job[w] \/ Waiting(x))
    BY <1>18, PublishAdds DEF WorkerLost, GiveBack
  <2>2. ASSUME NEW e \in Deliveries, NEW k \in 0 .. MaxRetries,
               Waiting(SendMessage(e, k))'
        PROVE  status[e] # "absent" /\ Errors(e) >= k
    <3>1. CASE Waiting(SendMessage(e, k))
      BY <3>1
    <3>2. CASE SendMessage(e, k) = job[w]
      <4>1. /\ job[w] \in SendMessages
            /\ job[w].delivery = e /\ job[w].retries = k
        BY <3>2, SendMessageParts
      <4> QED
        BY <4>1
    <3>3. SendMessage(e, k) \in Messages
      OBVIOUS
    <3> HIDE DEF Waiting
    <3> QED
      BY <2>1, <2>2, <3>1, <3>2, <3>3
  <2> QED
    BY <1>18, <2>2 DEF WorkerLost, GiveBack, Forget, Release
<1>19. ASSUME NEW w \in Workers,
             TaskRaises(w)
      PROVE  HistoryRest'
  BY <1>19 DEF TaskRaises, Forget, Release
<1>20. CASE UNCHANGED vars
  BY <1>20 DEF vars
<1> QED
  BY <1>1, <1>2, <1>3, <1>4, <1>5, <1>6, <1>7, <1>8, <1>9, <1>10, <1>11, <1>12, <1>13, <1>14, <1>15, <1>16, <1>17, <1>18, <1>19, <1>20
  DEF Next, Work, DeliveryWork

\* What the rows say is true whatever crashed, raised, raced or was retried:
\* SENT rows had an accepted call, FAILED rows used up their retries, and no
\* row claims more attempts than calls were made.
THEOREM RecordsAreHonest ==
  Spec => [](SentMeansAccepted /\ FailedMeansExhausted /\ AttemptsNeverOvercount)
<1>1. HistoryInv => SentMeansAccepted /\ FailedMeansExhausted
                    /\ AttemptsNeverOvercount
  BY DEF HistoryInv
<1> QED
  BY <1>1, HistoryInit, HistoryStep, PTL DEF Spec

\* A FAILED row used up its retries: the task was called max_retries + 1 times.
THEOREM FailuresAreHonest == Spec => []FailedMeansExhausted
  BY RecordsAreHonest, PTL

\* The attempts column counts no call that was not made.
THEOREM AttemptsAreHonest == Spec => []AttemptsNeverOvercount
  BY RecordsAreHonest, PTL

------------------------------------------------------------------------------
(* No pending delivery is lost while no task is abandoned.                 *)

\* A dispatch creates rows of its own signal only.
BatchOfItsSignal ==
  \A w \in Workers : pc[w] = "insert" =>
    \A d \in batch[w] : d[1] = job[w].signal

\* Only DispatchReadsRecipients fills the batch of the insert step, with rows
\* of the signal in its message.
LEMMA BatchStep == TypeOK /\ BatchOfItsSignal /\ [Next]_vars => BatchOfItsSignal'
<1> SUFFICES ASSUME TypeOK, BatchOfItsSignal, NEW w \in Workers,
                    pc'[w] = "insert", [Next]_vars
             PROVE  \A d \in batch'[w] : d[1] = job'[w].signal
  BY DEF BatchOfItsSignal
<1>1. CASE pc[w] = "insert" /\ UNCHANGED <<job[w], batch[w]>>
  BY <1>1 DEF BatchOfItsSignal
<1>2. ASSUME NEW s \in Signals, DispatchReadsRecipients(w, s)
      PROVE  \A d \in batch'[w] : d[1] = job'[w].signal
  BY <1>2, DispatchMessageParts DEF DispatchReadsRecipients, Begin, TypeOK
<1> QED
  BY <1>1, <1>2
  DEF Next, Work, DeliveryWork, vars, rows, locals, TypeOK, Begin, Take, Goto, Forget, Release,
      RequestDispatch, RetryNow, ToggleRecipient, DispatchReadsRecipients,
      DispatchCreatesDeliveries, Missing, DispatchQueriesPending, DispatchPublishes,
      SendSkipsSent, AlreadySent, SendReadsDelivery, AlreadySent, ChannelAccepts, ChannelRefuses, AfterRefusal,
      ChannelDeliversUnconfirmed, SaveSent, SaveFailed, Exhausted, SaveAttempt, Exhausted,
      PublishRetry, Acknowledge, WorkerLost, GiveBack, TaskRaises

\* At first there is no row to lose.
LEMMA NoLossInit == Init => NoSilentLoss
  BY DEF Init, NoSilentLoss

\* Whoever stops owing a pending row hands it over: a worker to the message it
\* publishes, a message to the worker that takes it, a lost worker to the
\* message that goes back to its queue.
LEMMA NoLossStep ==
  TypeOK /\ BatchOfItsSignal /\ NoSilentLoss /\ [Next]_vars => NoSilentLoss'
<1> SUFFICES ASSUME TypeOK, TypeOK', BatchOfItsSignal, NoSilentLoss, [Next]_vars
             PROVE  NoSilentLoss'
  BY TypeStep
<1> USE BoundsAreNaturals, MessageTypes, MessageFields, SendMessageParts,
        DispatchMessageParts
<1> USE DEF TypeOK, NoSilentLoss, Owed, QueueOwes, WorkerOwes, Waiting,
      DispatchSteps, SendSteps, HoldSteps, rows, calls, locals, counters
<1>1. ASSUME NEW s \in Signals,
             RequestDispatch(s)
      PROVE  NoSilentLoss'
  BY <1>1 DEF RequestDispatch, Publish
<1>2. ASSUME NEW d \in Deliveries,
             RetryNow(d)
      PROVE  NoSilentLoss'
  BY <1>2 DEF RetryNow, Publish
<1>3. ASSUME NEW r \in Recipients,
             ToggleRecipient(r)
      PROVE  NoSilentLoss'
  BY <1>3 DEF ToggleRecipient
<1>4. ASSUME NEW w \in Workers, NEW s \in Signals,
             DispatchReadsRecipients(w, s)
      PROVE  NoSilentLoss'
  <2> SUFFICES ASSUME abandoned' = 0, NEW e \in Deliveries, status'[e] = "pending"
               PROVE  Owed(e)'
    BY DEF NoSilentLoss
  <2>1. /\ Owed(e)
        /\ pc[w] = "idle"
        /\ Take(w, DispatchMessage(s))
        /\ pc' = [pc EXCEPT ![w] = "insert"]
        /\ job' = [job EXCEPT ![w] = DispatchMessage(s)]
        /\ \A v \in Workers : v # w => batch'[v] = batch[v]
    BY <1>4 DEF DispatchReadsRecipients, Begin, NoSilentLoss, Take
  <2>2. CASE e[1] = s
    <3>1. pc'[w] = "insert" /\ job'[w].signal = e[1]
      BY <2>1, <2>2
    <3> QED
      BY <3>1 DEF Owed, WorkerOwes
  <2>3. ASSUME NEW v \in Workers, WorkerOwes(v, e) PROVE Owed(e)'
    <3>1. v # w
      BY <2>1, <2>3 DEF WorkerOwes
    <3>2. pc'[v] = pc[v] /\ job'[v] = job[v] /\ batch'[v] = batch[v]
      BY <2>1, <3>1
    <3> QED
      BY <2>3, <3>2 DEF Owed, WorkerOwes
  <2>4. CASE QueueOwes(e) /\ e[1] # s
    <3>1. /\ DispatchMessage(e[1]) # DispatchMessage(s)
          /\ \A n \in 0 .. MaxRetries : SendMessage(e, n) # DispatchMessage(s)
      BY <2>4, DispatchMessageParts, MessageTypes
    <3>2. \A x \in Messages :
            x # DispatchMessage(s) /\ Waiting(x) => Waiting(x)'
      BY <2>1, TakeRemovesOne, MessageTypes
    <3> QED
      BY <2>4, <3>1, <3>2, DispatchMessageParts, MessageTypes DEF Owed, QueueOwes
  <2> QED
    BY <2>1, <2>2, <2>3, <2>4 DEF Owed
<1>5. ASSUME NEW w \in Workers,
             DispatchCreatesDeliveries(w)
      PROVE  NoSilentLoss'
  <2> SUFFICES ASSUME abandoned' = 0, NEW e \in Deliveries, status'[e] = "pending"
               PROVE  Owed(e)'
    BY DEF NoSilentLoss
  <2>1. /\ pc[w] = "insert"
        /\ pc' = [pc EXCEPT ![w] = "query"]
        /\ \A v \in Workers : v # w => batch'[v] = batch[v]
        /\ UNCHANGED <<queue, job>>
    BY <1>5 DEF DispatchCreatesDeliveries, Missing, Goto
  <2>2. CASE status[e] = "pending"
    <3>1. Owed(e)
      BY <1>5, <2>2 DEF DispatchCreatesDeliveries, Missing, NoSilentLoss
    <3>2. CASE QueueOwes(e)
      BY <2>1, <3>2 DEF Owed, QueueOwes
    <3>3. ASSUME NEW v \in Workers, WorkerOwes(v, e) PROVE WorkerOwes(v, e)'
      BY <2>1, <3>3 DEF WorkerOwes
    <3> QED
      BY <3>1, <3>2, <3>3 DEF Owed
  <2>3. CASE status[e] # "pending"
    \* A row just created belongs to the signal of this worker's dispatch.
    <3>1. e \in batch[w]
      BY <1>5, <2>3 DEF DispatchCreatesDeliveries, Missing
    <3>2. job[w].signal = e[1]
      BY <2>1, <3>1 DEF BatchOfItsSignal
    <3> QED
      BY <2>1, <3>2 DEF Owed, WorkerOwes
  <2> QED
    BY <2>2, <2>3
<1>6. ASSUME NEW w \in Workers,
             DispatchQueriesPending(w)
      PROVE  NoSilentLoss'
  BY <1>6 DEF DispatchQueriesPending, Goto
<1>7. ASSUME NEW w \in Workers, NEW d \in Deliveries,
             DispatchPublishes(w, d)
      PROVE  NoSilentLoss'
  BY <1>7 DEF DispatchPublishes, Publish
<1>8. ASSUME NEW w \in Workers, NEW d \in Deliveries,
             NEW n \in 0 .. MaxRetries,
             SendSkipsSent(w, d, n)
      PROVE  NoSilentLoss'
  <2> SUFFICES ASSUME abandoned' = 0, NEW e \in Deliveries, status'[e] = "pending"
               PROVE  Owed(e)'
    BY DEF NoSilentLoss
  <2>1. /\ Owed(e)
        /\ e # d
        /\ queue' = [queue EXCEPT ![SendMessage(d, n)] = @ - 1]
        /\ UNCHANGED locals
    BY <1>8 DEF SendSkipsSent, AlreadySent, Take, NoSilentLoss
  <2>2. ASSUME NEW v \in Workers, WorkerOwes(v, e) PROVE Owed(e)'
    BY <2>1, <2>2 DEF Owed, WorkerOwes
  <2>3. CASE QueueOwes(e)
    BY <2>1, <2>3 DEF Owed, QueueOwes
  <2> QED
    BY <2>1, <2>2, <2>3 DEF Owed
<1>9. ASSUME NEW w \in Workers, NEW d \in Deliveries,
             NEW n \in 0 .. MaxRetries,
             SendReadsDelivery(w, d, n)
      PROVE  NoSilentLoss'
  <2> SUFFICES ASSUME abandoned' = 0, NEW e \in Deliveries, status'[e] = "pending"
               PROVE  Owed(e)'
    BY DEF NoSilentLoss
  <2>1. /\ Owed(e)
        /\ pc[w] = "idle"
        /\ queue' = [queue EXCEPT ![SendMessage(d, n)] = @ - 1]
        /\ pc' = [pc EXCEPT ![w] = "call"]
        /\ job' = [job EXCEPT ![w] = SendMessage(d, n)]
        /\ UNCHANGED batch
    BY <1>9 DEF SendReadsDelivery, AlreadySent, Begin, Take, NoSilentLoss
  <2>2. CASE e = d
    <3>1. pc'[w] = "call" /\ job'[w].delivery = e
      BY <2>1, <2>2, SendMessageParts
    <3> QED
      BY <3>1 DEF Owed, WorkerOwes
  <2>3. ASSUME NEW v \in Workers, WorkerOwes(v, e) PROVE Owed(e)'
    BY <2>1, <2>3 DEF Owed, WorkerOwes
  <2>4. CASE QueueOwes(e) /\ e # d
    BY <2>1, <2>4 DEF Owed, QueueOwes
  <2> QED
    BY <2>1, <2>2, <2>3, <2>4 DEF Owed
<1>10. ASSUME NEW w \in Workers,
             ChannelAccepts(w)
      PROVE  NoSilentLoss'
  BY <1>10 DEF ChannelAccepts, Goto
<1>11. ASSUME NEW w \in Workers,
             ChannelRefuses(w)
      PROVE  NoSilentLoss'
  BY <1>11 DEF ChannelRefuses, AfterRefusal, Goto
<1>12. ASSUME NEW w \in Workers,
             ChannelDeliversUnconfirmed(w)
      PROVE  NoSilentLoss'
  BY <1>12 DEF ChannelDeliversUnconfirmed, Goto
<1>13. ASSUME NEW w \in Workers,
             SaveSent(w)
      PROVE  NoSilentLoss'
  BY <1>13 DEF SaveSent, RecordAttempt, Goto
<1>14. ASSUME NEW w \in Workers,
             SaveFailed(w)
      PROVE  NoSilentLoss'
  BY <1>14 DEF SaveFailed, Exhausted, RecordAttempt, Goto
<1>15. ASSUME NEW w \in Workers,
             SaveAttempt(w)
      PROVE  NoSilentLoss'
  BY <1>15 DEF SaveAttempt, Exhausted, RecordAttempt, Goto
<1>16. ASSUME NEW w \in Workers,
             PublishRetry(w)
      PROVE  NoSilentLoss'
  BY <1>16 DEF PublishRetry, Publish, Goto
<1>17. ASSUME NEW w \in Workers,
             Acknowledge(w)
      PROVE  NoSilentLoss'
  BY <1>17 DEF Acknowledge, Forget, Release
<1>18. ASSUME NEW w \in Workers,
             WorkerLost(w)
      PROVE  NoSilentLoss'
  <2> SUFFICES ASSUME abandoned' = 0, NEW e \in Deliveries, status'[e] = "pending"
               PROVE  Owed(e)'
    BY DEF NoSilentLoss
  <2>1. /\ Owed(e)
        /\ job[w] \in Messages
        /\ Publish(job[w])
        /\ pc' = [pc EXCEPT ![w] = "idle"]
        /\ job' = [job EXCEPT ![w] = NoJob]
        /\ \A v \in Workers : v # w => batch'[v] = batch[v]
    BY <1>18 DEF WorkerLost, GiveBack, Forget, Release, NoSilentLoss
  <2>0. \A x \in Messages : Waiting(x)' <=> (x = job[w] \/ Waiting(x))
    BY <2>1, PublishAdds
  <2>2. CASE QueueOwes(e)
    BY <2>0, <2>2, DispatchMessageParts DEF Owed, QueueOwes
  <2>3. ASSUME NEW v \in Workers, v # w, WorkerOwes(v, e) PROVE Owed(e)'
    BY <2>1, <2>3 DEF Owed, WorkerOwes
  \* What this worker owed, its message owes now.
  <2>4. CASE WorkerOwes(w, e)
    <3>1. \/ job[w] = DispatchMessage(e[1])
          \/ \E n \in 0 .. MaxRetries : job[w] = SendMessage(e, n)
      BY <2>4, MessageFields DEF WorkerOwes
    <3> QED
      BY <2>0, <3>1, DispatchMessageParts DEF Owed, QueueOwes
  <2> QED
    BY <2>1, <2>2, <2>3, <2>4 DEF Owed
<1>19. ASSUME NEW w \in Workers,
             TaskRaises(w)
      PROVE  NoSilentLoss'
  BY <1>19 DEF TaskRaises, Forget, Release
<1>20. CASE UNCHANGED vars
  BY <1>20 DEF vars
<1> QED
  BY <1>1, <1>2, <1>3, <1>4, <1>5, <1>6, <1>7, <1>8, <1>9, <1>10, <1>11, <1>12, <1>13, <1>14, <1>15, <1>16, <1>17, <1>18, <1>19, <1>20
  DEF Next, Work, DeliveryWork

\* As long as no task ends in an uncaught exception, every PENDING delivery is
\* owed to a waiting message or to a worker, however many workers crash and
\* wherever: crashes alone never strand a delivery.
THEOREM NothingLostByCrashes == Spec => []NoSilentLoss
<1>1. Init => BatchOfItsSignal
  BY DEF Init, BatchOfItsSignal, IdleWorkers
<1> QED
  BY <1>1, NoLossInit, BatchStep, NoLossStep, DeliveryTypeCorrect, PTL DEF Spec

------------------------------------------------------------------------------
(* The at-least-once contract.                                             *)

\* Each step of the component is a step of the contract, or leaves the record,
\* the copies and the errors alone.
LEMMA ContractStep == HistoryInv /\ [Next]_vars => [Contract!Next]_(Contract!vars)
<1> SUFFICES ASSUME HistoryInv, [Next]_vars PROVE [Contract!Next]_(Contract!vars)
  OBVIOUS
<1> USE BoundsAreNaturals, MessageFields
<1> USE DEF HistoryInv, TypeOK, Received, Errors, Contract!vars,
      DispatchSteps, SendSteps, HoldSteps, rows, calls, locals, counters
<1>1. ASSUME NEW s \in Signals,
             RequestDispatch(s)
      PROVE  [Contract!Next]_(Contract!vars)
  BY <1>1 DEF RequestDispatch, Publish
<1>2. ASSUME NEW d \in Deliveries,
             RetryNow(d)
      PROVE  [Contract!Next]_(Contract!vars)
  BY <1>2 DEF RetryNow, Publish
<1>3. ASSUME NEW r \in Recipients,
             ToggleRecipient(r)
      PROVE  [Contract!Next]_(Contract!vars)
  BY <1>3 DEF ToggleRecipient
<1>4. ASSUME NEW w \in Workers, NEW s \in Signals,
             DispatchReadsRecipients(w, s)
      PROVE  [Contract!Next]_(Contract!vars)
  BY <1>4 DEF DispatchReadsRecipients, Begin, Take
<1>5. ASSUME NEW w \in Workers,
             DispatchCreatesDeliveries(w)
      PROVE  [Contract!Next]_(Contract!vars)
  <2>1. Contract!Create(batch[w])
    BY <1>5 DEF DispatchCreatesDeliveries, Missing, Contract!Create
  <2> QED
    BY <2>1 DEF Contract!Next
<1>6. ASSUME NEW w \in Workers,
             DispatchQueriesPending(w)
      PROVE  [Contract!Next]_(Contract!vars)
  BY <1>6 DEF DispatchQueriesPending, Goto
<1>7. ASSUME NEW w \in Workers, NEW d \in Deliveries,
             DispatchPublishes(w, d)
      PROVE  [Contract!Next]_(Contract!vars)
  BY <1>7 DEF DispatchPublishes, Publish
<1>8. ASSUME NEW w \in Workers, NEW d \in Deliveries,
             NEW n \in 0 .. MaxRetries,
             SendSkipsSent(w, d, n)
      PROVE  [Contract!Next]_(Contract!vars)
  BY <1>8 DEF SendSkipsSent, AlreadySent, Take
<1>9. ASSUME NEW w \in Workers, NEW d \in Deliveries,
             NEW n \in 0 .. MaxRetries,
             SendReadsDelivery(w, d, n)
      PROVE  [Contract!Next]_(Contract!vars)
  BY <1>9 DEF SendReadsDelivery, AlreadySent, Begin, Take
<1>10. ASSUME NEW w \in Workers,
             ChannelAccepts(w)
      PROVE  [Contract!Next]_(Contract!vars)
  <2> DEFINE d == job[w].delivery
  <2>1. job[w] \in SendMessages
    BY <1>10 DEF ChannelAccepts
  <2>2. d \in Deliveries /\ status[d] # "absent"
    BY <2>1 DEF RetriesAreEarned
  <2>3. \A e \in Deliveries :
          /\ Received(e)' = IF e = d THEN Received(e) + 1 ELSE Received(e)
          /\ Errors(e)' = Errors(e)
    BY <1>10, <2>2 DEF ChannelAccepts
  <2>4. UNCHANGED status
    BY <1>10 DEF ChannelAccepts
  <2> HIDE DEF Received, Errors, TypeOK
  <2>5. Contract!Delivered(d)
    BY <2>2, <2>3, <2>4 DEF Contract!Delivered
  <2> QED
    BY <2>2, <2>5 DEF Contract!Next
<1>11. ASSUME NEW w \in Workers,
             ChannelRefuses(w)
      PROVE  [Contract!Next]_(Contract!vars)
  <2> DEFINE d == job[w].delivery
  <2>1. job[w] \in SendMessages
    BY <1>11 DEF ChannelRefuses, AfterRefusal
  <2>2. d \in Deliveries /\ status[d] # "absent"
    BY <2>1 DEF RetriesAreEarned
  <2>3. \A e \in Deliveries :
          /\ Received(e)' = Received(e)
          /\ Errors(e)' = IF e = d THEN Errors(e) + 1 ELSE Errors(e)
    BY <1>11, <2>2 DEF ChannelRefuses, AfterRefusal
  <2>4. UNCHANGED status
    BY <1>11 DEF ChannelRefuses, AfterRefusal
  <2> HIDE DEF Received, Errors, TypeOK
  <2>5. Contract!Refused(d)
    BY <2>2, <2>3, <2>4 DEF Contract!Refused
  <2> QED
    BY <2>2, <2>5 DEF Contract!Next
<1>12. ASSUME NEW w \in Workers,
             ChannelDeliversUnconfirmed(w)
      PROVE  [Contract!Next]_(Contract!vars)
  <2> DEFINE d == job[w].delivery
  <2>1. job[w] \in SendMessages
    BY <1>12 DEF ChannelDeliversUnconfirmed
  <2>2. d \in Deliveries /\ status[d] # "absent"
    BY <2>1 DEF RetriesAreEarned
  <2>3. \A e \in Deliveries :
          /\ Received(e)' = IF e = d THEN Received(e) + 1 ELSE Received(e)
          /\ Errors(e)' = IF e = d THEN Errors(e) + 1 ELSE Errors(e)
    BY <1>12, <2>2, SMTT(30) DEF ChannelDeliversUnconfirmed
  <2>4. UNCHANGED status
    BY <1>12 DEF ChannelDeliversUnconfirmed
  <2> HIDE DEF Received, Errors, TypeOK
  <2>5. Contract!DeliveredUnconfirmed(d)
    BY <2>2, <2>3, <2>4 DEF Contract!DeliveredUnconfirmed
  <2> QED
    BY <2>2, <2>5 DEF Contract!Next
<1>13. ASSUME NEW w \in Workers,
             SaveSent(w)
      PROVE  [Contract!Next]_(Contract!vars)
  <2> DEFINE d == job[w].delivery
  <2>1. d \in Deliveries /\ accepted[d] >= 1
    BY <1>13 DEF SaveSent, SavesAreBacked
  <2>2. Contract!RecordSent(d)
    BY <1>13, <2>1 DEF SaveSent, Contract!RecordSent
  <2> QED
    BY <2>1, <2>2 DEF Contract!Next
<1>14. ASSUME NEW w \in Workers,
             SaveFailed(w)
      PROVE  [Contract!Next]_(Contract!vars)
  <2> DEFINE d == job[w].delivery
  <2>1. d \in Deliveries /\ Errors(d) >= MaxRetries + 1
    BY <1>14 DEF SaveFailed, Exhausted, RetriesAreEarned
  <2>2. Contract!RecordFailed(d)
    BY <1>14, <2>1 DEF SaveFailed, Exhausted, Contract!RecordFailed
  <2> QED
    BY <2>1, <2>2 DEF Contract!Next
<1>15. ASSUME NEW w \in Workers,
             SaveAttempt(w)
      PROVE  [Contract!Next]_(Contract!vars)
  BY <1>15 DEF SaveAttempt, Exhausted, RecordAttempt, Goto
<1>16. ASSUME NEW w \in Workers,
             PublishRetry(w)
      PROVE  [Contract!Next]_(Contract!vars)
  BY <1>16 DEF PublishRetry, Publish, Goto
<1>17. ASSUME NEW w \in Workers,
             Acknowledge(w)
      PROVE  [Contract!Next]_(Contract!vars)
  BY <1>17 DEF Acknowledge, Forget, Release
<1>18. ASSUME NEW w \in Workers,
             WorkerLost(w)
      PROVE  [Contract!Next]_(Contract!vars)
  BY <1>18 DEF WorkerLost, GiveBack, Forget, Release, Publish
<1>19. ASSUME NEW w \in Workers,
             TaskRaises(w)
      PROVE  [Contract!Next]_(Contract!vars)
  BY <1>19 DEF TaskRaises, Forget, Release
<1>20. CASE UNCHANGED vars
  BY <1>20 DEF vars
<1> QED
  BY <1>1, <1>2, <1>3, <1>4, <1>5, <1>6, <1>7, <1>8, <1>9, <1>10, <1>11, <1>12, <1>13, <1>14, <1>15, <1>16, <1>17, <1>18, <1>19, <1>20
  DEF Next, Work, DeliveryWork

\* The component implements DeliveryContract: each of its steps is a step of
\* the contract or none.
THEOREM DeliveryKeepsContract == Spec => KeepsContract
<1>1. Init => Contract!Init
  BY DEF Init, Contract!Init, Received, Errors
<1> QED
  BY <1>1, HistoryInit, HistoryStep, ContractStep, PTL
  DEF Spec, KeepsContract, Contract!Spec

------------------------------------------------------------------------------
(* Deliveries that one worker sends at a time.                             *)

\* A call is missing from the attempts column until its worker saves it; no
\* other worker holds the row meanwhile.
LEMMA CallIsUnsaved ==
  ASSUME TypeOK, TypeOK', WorkerHasTheRow, MissedAttemptsNeedACrash,
         NEW w \in Workers, pc[w] = "call", job[w] \in SendMessages,
         pc' = [pc EXCEPT ![w] = "save_sent"]
           \/ pc' = [pc EXCEPT ![w] = "save_error"],
         UNCHANGED <<attempts, job, crashes, abandoned, overlapped>>,
         \A d \in Deliveries :
           Calls(d)' = IF d = job[w].delivery THEN Calls(d) + 1 ELSE Calls(d)
  PROVE  MissedAttemptsNeedACrash'
<1> SUFFICES ASSUME NEW d \in Deliveries, d \notin overlapped
             PROVE  /\ (Calls(d) <= attempts[d] + crashes + abandoned + 1)'
                    /\ (~Unsaved(d, {"save_sent", "save_error"})
                          => Calls(d) <= attempts[d] + crashes + abandoned)'
  BY DEF MissedAttemptsNeedACrash
<1>1. /\ Calls(d) \in Nat /\ attempts[d] \in Nat
      /\ crashes \in Nat /\ abandoned \in Nat
  BY DEF TypeOK, Calls
<1>2. CASE d = job[w].delivery
  <2>1. ~Unsaved(d, {"save_sent", "save_error"})
    BY <1>2 DEF WorkerHasTheRow, Unsaved, HoldSteps
  <2>2. Unsaved(d, {"save_sent", "save_error"})'
    BY <1>2 DEF Unsaved, TypeOK
  <2> QED
    BY <1>1, <1>2, <2>1, <2>2 DEF MissedAttemptsNeedACrash
<1>3. CASE d # job[w].delivery
  <2>1. Unsaved(d, {"save_sent", "save_error"})
          => Unsaved(d, {"save_sent", "save_error"})'
    BY <1>3 DEF Unsaved, TypeOK
  <2> QED
    BY <1>1, <1>3, <2>1 DEF MissedAttemptsNeedACrash
<1> QED
  BY <1>2, <1>3

\* The inductive step: nobody else touches the row between its read and its
\* save, and only an early end comes between call and save.
LEMMA AloneStep == TypeOK /\ AloneInv /\ [Next]_vars => AloneInv'
<1> SUFFICES ASSUME TypeOK, TypeOK', AloneInv, [Next]_vars PROVE AloneInv'
  BY TypeStep
<1> USE MessageFields, SendMessageParts, MessageTypes
<1> USE DEF TypeOK, AloneInv, WorkerHasTheRow, CopiesNeedACrash,
      DuplicatesNeedACrash, MissedAttemptsNeedACrash, Unsaved, Calls,
      DispatchSteps, SendSteps, HoldSteps, rows, calls, locals, counters
<1>1. ASSUME NEW s \in Signals,
             RequestDispatch(s)
      PROVE  AloneInv'
  BY <1>1 DEF RequestDispatch
<1>2. ASSUME NEW d \in Deliveries,
             RetryNow(d)
      PROVE  AloneInv'
  BY <1>2 DEF RetryNow
<1>3. ASSUME NEW r \in Recipients,
             ToggleRecipient(r)
      PROVE  AloneInv'
  BY <1>3 DEF ToggleRecipient
<1>4. ASSUME NEW w \in Workers, NEW s \in Signals,
             DispatchReadsRecipients(w, s)
      PROVE  AloneInv'
  BY <1>4, DispatchMessageParts DEF DispatchReadsRecipients, Begin, Take
<1>5. ASSUME NEW w \in Workers,
             DispatchCreatesDeliveries(w)
      PROVE  AloneInv'
  BY <1>5 DEF DispatchCreatesDeliveries, Missing, Goto
<1>6. ASSUME NEW w \in Workers,
             DispatchQueriesPending(w)
      PROVE  AloneInv'
  BY <1>6 DEF DispatchQueriesPending, Goto
<1>7. ASSUME NEW w \in Workers, NEW d \in Deliveries,
             DispatchPublishes(w, d)
      PROVE  AloneInv'
  BY <1>7 DEF DispatchPublishes
<1>8. ASSUME NEW w \in Workers, NEW d \in Deliveries,
             NEW n \in 0 .. MaxRetries,
             SendSkipsSent(w, d, n)
      PROVE  AloneInv'
  BY <1>8 DEF SendSkipsSent, AlreadySent
<1>9. ASSUME NEW w \in Workers, NEW d \in Deliveries,
             NEW n \in 0 .. MaxRetries,
             SendReadsDelivery(w, d, n)
      PROVE  AloneInv'
  <2>1. WorkerHasTheRow'
    BY <1>9 DEF SendReadsDelivery, AlreadySent, Held, Begin, Take
  <2>2. CopiesNeedACrash'
    BY <1>9 DEF SendReadsDelivery, AlreadySent, Held, Begin, Take
  <2>3. MissedAttemptsNeedACrash'
    BY <1>9 DEF SendReadsDelivery, AlreadySent, Held, Begin, Take
  <2> QED
    BY <2>1, <2>2, <2>3
<1>10. ASSUME NEW w \in Workers,
             ChannelAccepts(w)
      PROVE  AloneInv'
  <2>1. WorkerHasTheRow'
    BY <1>10 DEF ChannelAccepts, Goto
  <2>2. CopiesNeedACrash'
    BY <1>10, SMTT(30) DEF ChannelAccepts, Goto
  <2>3. MissedAttemptsNeedACrash'
    BY <1>10, CallIsUnsaved, SMTT(30) DEF ChannelAccepts, Goto
  <2> QED
    BY <2>1, <2>2, <2>3
<1>11. ASSUME NEW w \in Workers,
             ChannelRefuses(w)
      PROVE  AloneInv'
  <2>1. WorkerHasTheRow'
    BY <1>11 DEF ChannelRefuses, AfterRefusal, Goto
  <2>2. CopiesNeedACrash'
    BY <1>11 DEF ChannelRefuses, AfterRefusal, Goto
  <2>3. MissedAttemptsNeedACrash'
    BY <1>11, CallIsUnsaved, SMTT(30) DEF ChannelRefuses, AfterRefusal, Goto
  <2> QED
    BY <2>1, <2>2, <2>3
<1>12. ASSUME NEW w \in Workers,
             ChannelDeliversUnconfirmed(w)
      PROVE  AloneInv'
  <2>1. WorkerHasTheRow'
    BY <1>12 DEF ChannelDeliversUnconfirmed, Goto
  <2>2. CopiesNeedACrash'
    BY <1>12 DEF ChannelDeliversUnconfirmed, Goto
  <2>3. MissedAttemptsNeedACrash'
    BY <1>12, CallIsUnsaved, SMTT(30) DEF ChannelDeliversUnconfirmed, Goto
  <2> QED
    BY <2>1, <2>2, <2>3
<1>13. ASSUME NEW w \in Workers,
             SaveSent(w)
      PROVE  AloneInv'
  <2>1. WorkerHasTheRow'
    BY <1>13 DEF SaveSent, RecordAttempt, Goto
  <2>2. CopiesNeedACrash'
    BY <1>13 DEF SaveSent, RecordAttempt, Goto
  <2>3. MissedAttemptsNeedACrash'
    BY <1>13 DEF SaveSent, RecordAttempt, Goto
  <2> QED
    BY <2>1, <2>2, <2>3
<1>14. ASSUME NEW w \in Workers,
             SaveFailed(w)
      PROVE  AloneInv'
  <2>1. WorkerHasTheRow'
    BY <1>14 DEF SaveFailed, Exhausted, RecordAttempt, Goto
  <2>2. CopiesNeedACrash'
    BY <1>14 DEF SaveFailed, Exhausted, RecordAttempt, Goto
  <2>3. MissedAttemptsNeedACrash'
    BY <1>14 DEF SaveFailed, Exhausted, RecordAttempt, Goto
  <2> QED
    BY <2>1, <2>2, <2>3
<1>15. ASSUME NEW w \in Workers,
             SaveAttempt(w)
      PROVE  AloneInv'
  <2>1. WorkerHasTheRow'
    BY <1>15 DEF SaveAttempt, Exhausted, RecordAttempt, Goto
  <2>2. CopiesNeedACrash'
    BY <1>15 DEF SaveAttempt, Exhausted, RecordAttempt, Goto
  <2>3. MissedAttemptsNeedACrash'
    BY <1>15 DEF SaveAttempt, Exhausted, RecordAttempt, Goto
  <2> QED
    BY <2>1, <2>2, <2>3
<1>16. ASSUME NEW w \in Workers,
             PublishRetry(w)
      PROVE  AloneInv'
  <2>1. WorkerHasTheRow'
    BY <1>16 DEF PublishRetry, Goto
  <2>2. CopiesNeedACrash'
    BY <1>16 DEF PublishRetry, Goto
  <2>3. MissedAttemptsNeedACrash'
    BY <1>16 DEF PublishRetry, Goto
  <2> QED
    BY <2>1, <2>2, <2>3
<1>17. ASSUME NEW w \in Workers,
             Acknowledge(w)
      PROVE  AloneInv'
  <2>1. WorkerHasTheRow'
    BY <1>17 DEF Acknowledge, Forget, Release
  <2>2. CopiesNeedACrash'
    BY <1>17 DEF Acknowledge, Forget, Release
  <2>3. MissedAttemptsNeedACrash'
    BY <1>17 DEF Acknowledge, Forget, Release
  <2> QED
    BY <2>1, <2>2, <2>3
<1>18. ASSUME NEW w \in Workers,
             WorkerLost(w)
      PROVE  AloneInv'
  <2>1. WorkerHasTheRow'
    BY <1>18 DEF WorkerLost, GiveBack, Forget, Release
  <2>2. CopiesNeedACrash'
    BY <1>18 DEF WorkerLost, GiveBack, Forget, Release
  <2>3. MissedAttemptsNeedACrash'
    BY <1>18 DEF WorkerLost, GiveBack, Forget, Release
  <2> QED
    BY <2>1, <2>2, <2>3
<1>19. ASSUME NEW w \in Workers,
             TaskRaises(w)
      PROVE  AloneInv'
  <2>1. WorkerHasTheRow'
    BY <1>19 DEF TaskRaises, Forget, Release
  <2>2. CopiesNeedACrash'
    BY <1>19 DEF TaskRaises, Forget, Release
  <2>3. MissedAttemptsNeedACrash'
    BY <1>19 DEF TaskRaises, Forget, Release
  <2> QED
    BY <2>1, <2>2, <2>3
<1>20. CASE UNCHANGED vars
  BY <1>20 DEF vars
<1> QED
  BY <1>1, <1>2, <1>3, <1>4, <1>5, <1>6, <1>7, <1>8, <1>9, <1>10, <1>11, <1>12, <1>13, <1>14, <1>15, <1>16, <1>17, <1>18, <1>19, <1>20
  DEF Next, Work, DeliveryWork

\* No call has been made yet.
LEMMA AloneInit == Init => AloneInv
  BY DEF Init, AloneInv, WorkerHasTheRow, CopiesNeedACrash,
         DuplicatesNeedACrash, MissedAttemptsNeedACrash, Calls, IdleWorkers,
         SendSteps, HoldSteps

\* Of the steps that write a status, none finds it SENT when the worker has the
\* row to itself.
LEMMA SentStep ==
  TypeOK /\ WorkerHasTheRow /\ [Next]_vars =>
    [\A d \in Deliveries \ overlapped :
       status[d] = "sent" => status'[d] = "sent"]_status
<1> SUFFICES ASSUME TypeOK, WorkerHasTheRow, [Next]_vars,
                    NEW d \in Deliveries, d \notin overlapped,
                    status[d] = "sent"
             PROVE  status'[d] = "sent"
  OBVIOUS
<1>1. CASE UNCHANGED status
  BY <1>1
<1>2. ASSUME NEW w \in Workers, DispatchCreatesDeliveries(w)
      PROVE  status'[d] = "sent"
  BY <1>2 DEF DispatchCreatesDeliveries, Missing
<1>3. ASSUME NEW w \in Workers, SaveSent(w) \/ SaveFailed(w)
      PROVE  status'[d] = "sent"
  BY <1>3 DEF SaveSent, SaveFailed, WorkerHasTheRow, HoldSteps, TypeOK
<1> QED
  BY <1>1, <1>2, <1>3
  DEF Next, Work, DeliveryWork, vars, rows, RequestDispatch, RetryNow, ToggleRecipient,
      DispatchReadsRecipients, DispatchQueriesPending, DispatchPublishes,
      SendSkipsSent, SendReadsDelivery, ChannelAccepts, ChannelRefuses,
      ChannelDeliversUnconfirmed, SaveAttempt, PublishRetry, Acknowledge,
      WorkerLost, TaskRaises

\* The guard of send_notification does what its comment says for a delivery
\* that no two workers send at once: a row recorded SENT stays SENT, through
\* crashes, redeliveries, retries and clicks.
THEOREM SentIsKept == Spec => SentIsFinalUnlessOverlapped
<1>1. AloneInv => WorkerHasTheRow
  BY DEF AloneInv
<1> QED
  BY <1>1, AloneInit, AloneStep, SentStep, DeliveryTypeCorrect, PTL
  DEF Spec, SentIsFinalUnlessOverlapped

\* Every surplus copy of a delivery that no two workers send at once is paid
\* for by a task that ended before its save.
THEOREM DuplicatesAreExplained == Spec => []DuplicatesNeedACrash
<1>1. AloneInv => DuplicatesNeedACrash
  BY DEF AloneInv, CopiesNeedACrash
<1> QED
  BY <1>1, AloneInit, AloneStep, DeliveryTypeCorrect, PTL DEF Spec

\* And so is every call missing from its attempts column.
THEOREM MissedAttemptsAreExplained == Spec => []MissedAttemptsNeedACrash
<1>1. AloneInv => MissedAttemptsNeedACrash
  BY DEF AloneInv
<1> QED
  BY <1>1, AloneInit, AloneStep, DeliveryTypeCorrect, PTL DEF Spec
==============================================================================
