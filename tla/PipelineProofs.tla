---------------------------- MODULE PipelineProofs ---------------------------
(***************************************************************************)
(* Theorems about Pipeline, for any workers, strategies, series, candles,  *)
(* verdicts and recipients, and any bounds.  They compose what is proved   *)
(* of the two components: EvaluateStrategyProofs and                       *)
(* NotificationDeliveryProofs are instantiated here as Pipeline            *)
(* instantiates the modules they are about.                                *)
(***************************************************************************)
EXTENDS Pipeline, TLAPS

EP == INSTANCE EvaluateStrategyProofs WITH
  Workers <- Evaluators,
  queue <- strategyQueue, pc <- evaluatorStep, job <- evaluatorJob

NP == INSTANCE NotificationDeliveryProofs WITH
  Workers <- Senders, Signals <- Strategies \X (1 .. MaxTime),
  queue <- notificationQueue, pc <- senderStep, job <- senderJob

------------------------------------------------------------------------------
(* The two instances of each module define the same.                       *)

\* What the theorems about evaluation assume of the constants.
LEMMA EvaluationAssumptions ==
  /\ MaxTime \in Nat /\ MaxCrashes \in Nat
  /\ MaxAbandoned \in Nat /\ MaxTicks \in Nat
  /\ Opens \in [Series -> SUBSET EP!OpenTimes]
  /\ Verdict \in [Configs \X Series \X EP!OpenTimes -> EP!Verdicts]
  /\ Entries \subseteq [series : Series, config : Configs]
  BY PipelineBounds, PipelineSeries DEF EP!OpenTimes, EP!Verdicts

\* And those about notifications.
LEMMA DeliveryAssumptions ==
  /\ MaxRetries \in Nat /\ MaxCrashes \in Nat /\ MaxAbandoned \in Nat
  /\ MaxDispatches \in Nat /\ MaxClicks \in Nat
  BY PipelineBounds

\* Every step of an evaluator, and every edit, is a step of EvaluateStrategy.
LEMMA EvaluatorStepsAreSteps ==
  /\ E!Environment \/ E!Faults => EP!Next
  /\ \A w \in Evaluators : E!EvaluationWork(w) \/ E!PublishDispatch(w) => EP!Next
<1>1. E!Environment <=> EP!Environment
  BY DEF
      E!Environment, EP!Environment, E!Tick, EP!Tick, E!CandlesLand,
      EP!CandlesLand, E!EditStrategy, EP!EditStrategy, E!ToggleStrategy,
      EP!ToggleStrategy, E!Intervals, EP!Intervals, E!OpenTimes, EP!OpenTimes,
      E!Publish, EP!Publish, E!FanOutMessage, EP!FanOutMessage, E!rows,
      EP!rows, E!admin, EP!admin, E!locals, EP!locals, E!counters, EP!counters
<1>2. E!Faults <=> EP!Faults
  BY DEF
      E!Faults, EP!Faults, E!WorkerLost, EP!WorkerLost, E!TaskRaises,
      EP!TaskRaises, E!Forget, EP!Forget, E!Release, EP!Release, E!NoJob,
      EP!NoJob, E!NoEntry, EP!NoEntry, E!GiveBack, EP!GiveBack, E!Publish,
      EP!Publish, E!rows, EP!rows, E!admin, EP!admin
<1>3. \A w : E!PublishDispatch(w) <=> EP!PublishDispatch(w)
  BY DEF
      E!PublishDispatch, EP!PublishDispatch, E!Row, EP!Row, E!Strategy,
      EP!Strategy, E!Goto, EP!Goto, E!admin, EP!admin, E!counters, EP!counters
<1>4. \A w : E!EvaluationWork(w) <=> EP!EvaluationWork(w)
  BY DEF
      E!EvaluationWork, EP!EvaluationWork, E!FanOutReadsStrategies,
      EP!FanOutReadsStrategies, E!FanOutPublishes, EP!FanOutPublishes,
      E!EvaluateReadsStrategy, EP!EvaluateReadsStrategy,
      E!EvaluateReadsCandles, EP!EvaluateReadsCandles,
      E!EvaluateRecordsVerdict, EP!EvaluateRecordsVerdict, E!NoConflict,
      EP!NoConflict,
      E!EvaluateLooksUpRow, EP!EvaluateLooksUpRow, E!RecordSignal,
      EP!RecordSignal, E!Acknowledge, EP!Acknowledge, E!Intervals,
      EP!Intervals, E!Forget, EP!Forget, E!Release, EP!Release, E!Begin,
      EP!Begin, E!Take, EP!Take, E!Goto, EP!Goto, E!Publish, EP!Publish,
      E!Waiting, EP!Waiting, E!rows, EP!rows, E!admin, EP!admin, E!counters,
      EP!counters, E!Row, EP!Row, E!Strategy, EP!Strategy, E!NothingIngested,
      EP!NothingIngested, E!VerdictOf, EP!VerdictOf, E!Recorded, EP!Recorded,
      E!AfterTrigger, EP!AfterTrigger, E!Schedules, EP!Schedules, E!NoEntry,
      EP!NoEntry, E!NoJob, EP!NoJob, E!FanOutMessage, EP!FanOutMessage,
      E!EvaluateMessage, EP!EvaluateMessage
<1>5. EP!Environment \/ EP!Faults => EP!Next
  BY DEF EP!Next
<1>6. \A w \in Evaluators : EP!EvaluationWork(w) \/ EP!PublishDispatch(w) => EP!Next
  BY DEF EP!Next, EP!Work
<1> QED
  BY <1>1, <1>2, <1>3, <1>4, <1>5, <1>6

\* The same of the senders: each action is the component's.
LEMMA SenderStepsAreSteps ==
  /\ N!Deliveries = NP!Deliveries
  /\ \A w : N!DeliveryWork(w) <=> NP!DeliveryWork(w)
  /\ \A w, d, n : N!SendReadsDelivery(w, d, n) <=> NP!SendReadsDelivery(w, d, n)
  /\ \A w : N!WorkerLost(w) <=> NP!WorkerLost(w)
  /\ \A w : N!TaskRaises(w) <=> NP!TaskRaises(w)
  /\ \A d : N!RetryNow(d) <=> NP!RetryNow(d)
  /\ \A r : N!ToggleRecipient(r) <=> NP!ToggleRecipient(r)
  /\ \A s : N!RequestDispatch(s) <=> NP!RequestDispatch(s)
  /\ \A w, d, n : N!Take(w, N!SendMessage(d, n)) <=> NP!Take(w, NP!SendMessage(d, n))
<1>1. N!Deliveries = NP!Deliveries
  BY DEF N!Deliveries, NP!Deliveries
<1>2. \A w : N!DeliveryWork(w) <=> NP!DeliveryWork(w)
  BY DEF
      N!DeliveryWork, NP!DeliveryWork, N!DispatchReadsRecipients,
      NP!DispatchReadsRecipients, N!DispatchCreatesDeliveries,
      NP!DispatchCreatesDeliveries, N!DispatchQueriesPending,
      NP!DispatchQueriesPending, N!DispatchPublishes, NP!DispatchPublishes,
      N!SendSkipsSent, NP!SendSkipsSent, N!ChannelAccepts, NP!ChannelAccepts,
      N!ChannelRefuses, NP!ChannelRefuses, N!ChannelDeliversUnconfirmed,
      NP!ChannelDeliversUnconfirmed, N!SaveSent, NP!SaveSent, N!SaveFailed,
      NP!SaveFailed, N!SaveAttempt, NP!SaveAttempt, N!PublishRetry,
      NP!PublishRetry, N!Acknowledge, NP!Acknowledge, N!Deliveries,
      NP!Deliveries, N!DispatchMessage, NP!DispatchMessage, N!SendMessage,
      NP!SendMessage, N!Missing, NP!Missing, N!AlreadySent, NP!AlreadySent,
      N!AfterRefusal, NP!AfterRefusal, N!RecordAttempt, NP!RecordAttempt,
      N!Exhausted, NP!Exhausted, N!Forget, NP!Forget, N!Release, NP!Release,
      N!Begin, NP!Begin, N!Take, NP!Take, N!Goto, NP!Goto, N!Publish,
      NP!Publish, N!Waiting, NP!Waiting, N!rows, NP!rows, N!locals, NP!locals,
      N!calls, NP!calls, N!counters, NP!counters, N!NoJob, NP!NoJob
<1>3. \A w, d, n : N!SendReadsDelivery(w, d, n) <=> NP!SendReadsDelivery(w, d, n)
  BY DEF
      N!SendReadsDelivery, NP!SendReadsDelivery, N!AlreadySent, NP!AlreadySent,
      N!Begin, NP!Begin, N!Take, NP!Take, N!Waiting, NP!Waiting, N!SendMessage,
      NP!SendMessage, N!Held, NP!Held, N!HoldSteps, NP!HoldSteps, N!rows,
      NP!rows, N!counters, NP!counters
<1>4. /\ \A w : N!WorkerLost(w) <=> NP!WorkerLost(w)
      /\ \A w : N!TaskRaises(w) <=> NP!TaskRaises(w)
  BY DEF
      N!WorkerLost, NP!WorkerLost, N!TaskRaises, NP!TaskRaises, N!GiveBack,
      NP!GiveBack, N!Publish, NP!Publish, N!Forget, NP!Forget, N!Release,
      NP!Release, N!NoJob, NP!NoJob, N!rows, NP!rows, N!calls, NP!calls
<1>5. /\ \A d : N!RetryNow(d) <=> NP!RetryNow(d)
      /\ \A r : N!ToggleRecipient(r) <=> NP!ToggleRecipient(r)
      /\ \A s : N!RequestDispatch(s) <=> NP!RequestDispatch(s)
  BY DEF
      N!RetryNow, NP!RetryNow, N!ToggleRecipient, NP!ToggleRecipient,
      N!RequestDispatch, NP!RequestDispatch, N!Publish, NP!Publish,
      N!DispatchMessage, NP!DispatchMessage, N!SendMessage, NP!SendMessage,
      N!rows, NP!rows, N!locals, NP!locals, N!calls, NP!calls, N!counters,
      NP!counters
<1>6. \A w, d, n : N!Take(w, N!SendMessage(d, n)) <=> NP!Take(w, NP!SendMessage(d, n))
  BY DEF
      N!Take, NP!Take, N!Waiting, NP!Waiting, N!SendMessage, NP!SendMessage
<1> QED
  BY <1>1, <1>2, <1>3, <1>4, <1>5, <1>6

------------------------------------------------------------------------------
(* Evaluation inside the pipeline.                                         *)

\* The invariants of EvaluateStrategy that its signals are founded and its
\* verdicts true.
EvaluationInv ==
  EP!TypeOK /\ EP!SignalInv /\ EP!SeriesInv /\ EP!TruthInv

\* No signal is ever taken back.
LEMMA SignalsStay == EP!Next \/ UNCHANGED EP!vars => signal \subseteq signal'
  BY DEF EP!Next, EP!Environment, EP!Faults, EP!Work, EP!EvaluationWork,
      EP!Tick, EP!CandlesLand, EP!EditStrategy, EP!ToggleStrategy,
      EP!FanOutReadsStrategies, EP!FanOutPublishes, EP!EvaluateReadsStrategy,
      EP!EvaluateReadsCandles, EP!EvaluateRecordsVerdict,
      EP!EvaluateLooksUpRow, EP!RecordSignal, EP!PublishDispatch,
      EP!Acknowledge, EP!WorkerLost, EP!TaskRaises, EP!rows, EP!vars

\* A step of EvaluateStrategy keeps its invariant.
LEMMA EvaluatorStep == EvaluationInv /\ EP!Next => EvaluationInv' /\ signal \subseteq signal'
  BY EvaluationAssumptions, EP!EvaluationTypeStep, EP!SignalStep,
     EP!SeriesStep, EP!TruthStep, SignalsStay
  DEF EvaluationInv

\* And so does what the senders do: they share the counters of faults, and
\* nothing else.
LEMMA EvaluationStays ==
  ASSUME EvaluationInv, UNCHANGED evaluationVars, crashes' \in Nat, abandoned' \in Nat
  PROVE  EvaluationInv' /\ signal \subseteq signal'
  BY DEF EvaluationInv, evaluationVars, EP!TypeOK, EP!SignalInv,
      EP!SignalMatchesRecord, EP!Row, EP!Strategy, EP!SeriesInv, EP!TruthInv

------------------------------------------------------------------------------
(* Notification inside the pipeline.                                       *)

\* The signal a message of the notifications queue is about.
Subject(m) == IF m.task = "dispatch" THEN m.signal ELSE m.delivery[1]

\* The inductive invariant: whatever waits, is executed, is in a worker's
\* hands or is in the table, is about a committed signal.
FoundedInv ==
  /\ \A m \in NP!Messages : NP!Waiting(m) => Subject(m) \in signal
  /\ \A w \in Senders : senderJob[w] \in NP!Messages => Subject(senderJob[w]) \in signal
  /\ \A w \in Senders : \A d \in batch[w] : d[1] \in signal
  /\ \A d \in NP!Deliveries : status[d] # "absent" => d[1] \in signal

\* A message is about the signal or the delivery it was built for.
LEMMA Subjects ==
  /\ \A s : Subject(NP!DispatchMessage(s)) = s
  /\ \A d, n : Subject(NP!SendMessage(d, n)) = d[1]
  /\ \A m \in NP!DispatchMessages : Subject(m) = m.signal
  /\ \A m \in NP!SendMessages : Subject(m) = m.delivery[1]
  BY DEF Subject, NP!DispatchMessage, NP!SendMessage, NP!DispatchMessages,
      NP!SendMessages

\* More signals leave everything founded.
LEMMA FoundedStays ==
  ASSUME FoundedInv, UNCHANGED notificationVars, signal \subseteq signal'
  PROVE  FoundedInv'
  BY DEF FoundedInv, notificationVars, NP!Waiting

\* A message about a signal may be published.
LEMMA FoundedPublishes ==
  ASSUME NP!TypeOK, FoundedInv, NEW m \in NP!Messages, NP!Publish(m),
         Subject(m) \in signal, UNCHANGED signal
  PROVE  \A x \in NP!Messages : NP!Waiting(x)' => Subject(x) \in signal'
  BY DeliveryAssumptions, NP!PublishAdds DEF FoundedInv, NP!TypeOK

\* One that a worker takes was there.
LEMMA FoundedTakes ==
  ASSUME NP!TypeOK, FoundedInv, NEW m \in NP!Messages, NEW w, NP!Take(w, m),
         UNCHANGED signal
  PROVE  /\ \A x \in NP!Messages : NP!Waiting(x)' => Subject(x) \in signal'
         /\ Subject(m) \in signal
  BY DeliveryAssumptions, NP!TakeRemovesOne DEF FoundedInv, NP!TypeOK, NP!Take

\* What a step of a sender, a click or a request does to the table, the queue
\* and the workers keeps everything founded.
LEMMA FoundedStep ==
  ASSUME NP!TypeOK, FoundedInv, UNCHANGED signal,
         \/ \E s \in signal \cap (Strategies \X (1 .. MaxTime)) : NP!RequestDispatch(s)
         \/ \E d \in NP!Deliveries : NP!RetryNow(d)
         \/ \E r \in Recipients : NP!ToggleRecipient(r)
         \/ \E w \in Senders : NP!Work(w) \/ NP!WorkerLost(w) \/ NP!TaskRaises(w)
  PROVE  FoundedInv'
<1> USE DeliveryAssumptions, NP!MessageTypes, NP!MessageFields, Subjects
<1>1. ASSUME NEW s \in signal \cap (Strategies \X (1 .. MaxTime)),
             NP!RequestDispatch(s)
      PROVE  FoundedInv'
  BY <1>1, FoundedPublishes
  DEF FoundedInv, NP!RequestDispatch, NP!rows, NP!locals
<1>2. ASSUME NEW d \in NP!Deliveries, NP!RetryNow(d) PROVE FoundedInv'
  <2>1. NP!SendMessage(d, 0) \in NP!Messages /\ d[1] \in signal
    BY <1>2 DEF NP!RetryNow, FoundedInv
  <2> QED
    BY <1>2, <2>1, FoundedPublishes
    DEF FoundedInv, NP!RetryNow, NP!rows, NP!locals
<1>3. ASSUME NEW r \in Recipients, NP!ToggleRecipient(r) PROVE FoundedInv'
  BY <1>3 DEF FoundedInv, NP!ToggleRecipient, NP!rows, NP!locals, NP!Waiting
<1>4. ASSUME NEW w \in Senders, NEW s \in Strategies \X (1 .. MaxTime),
             NP!DispatchReadsRecipients(w, s)
      PROVE  FoundedInv'
  <2>1. /\ \A x \in NP!Messages : NP!Waiting(x)' => Subject(x) \in signal'
        /\ s \in signal
    BY <1>4, FoundedTakes DEF NP!DispatchReadsRecipients, NP!Begin
  <2>2. \A v \in Senders : \A d \in batch'[v] : d[1] \in signal'
    BY <1>4, <2>1 DEF NP!DispatchReadsRecipients, FoundedInv, NP!TypeOK
  <2> QED
    BY <1>4, <2>1, <2>2
    DEF NP!DispatchReadsRecipients, NP!Begin, FoundedInv, NP!TypeOK, NP!rows
<1>5. ASSUME NEW w \in Senders, NP!DispatchCreatesDeliveries(w) PROVE FoundedInv'
  BY <1>5 DEF NP!DispatchCreatesDeliveries, FoundedInv, NP!TypeOK, NP!Waiting
<1>6. ASSUME NEW w \in Senders, NP!DispatchQueriesPending(w) PROVE FoundedInv'
  <2>1. senderJob[w].signal \in signal
    BY <1>6 DEF NP!DispatchQueriesPending, FoundedInv, NP!TypeOK, NP!DispatchSteps
  <2> QED
    BY <1>6, <2>1
    DEF NP!DispatchQueriesPending, FoundedInv, NP!TypeOK, NP!Waiting, NP!rows
<1>7. ASSUME NEW w \in Senders, NEW d \in NP!Deliveries, NP!DispatchPublishes(w, d)
      PROVE  FoundedInv'
  <2>1. NP!SendMessage(d, 0) \in NP!Messages /\ d[1] \in signal
    BY <1>7 DEF NP!DispatchPublishes, FoundedInv
  <2> QED
    BY <1>7, <2>1, FoundedPublishes
    DEF FoundedInv, NP!DispatchPublishes, NP!rows, NP!TypeOK
<1>8. ASSUME NEW w \in Senders, NEW d \in NP!Deliveries, NEW n \in 0 .. MaxRetries,
             NP!SendSkipsSent(w, d, n)
      PROVE  FoundedInv'
  BY <1>8, FoundedTakes DEF FoundedInv, NP!SendSkipsSent, NP!rows, NP!locals
<1>9. ASSUME NEW w \in Senders, NEW d \in NP!Deliveries, NEW n \in 0 .. MaxRetries,
             NP!SendReadsDelivery(w, d, n)
      PROVE  FoundedInv'
  BY <1>9, FoundedTakes
  DEF FoundedInv, NP!SendReadsDelivery, NP!Begin, NP!rows, NP!TypeOK
<1>10. ASSUME NEW w \in Senders,
              NP!ChannelAccepts(w) \/ NP!ChannelRefuses(w)
                \/ NP!ChannelDeliversUnconfirmed(w) \/ NP!SaveAttempt(w)
       PROVE  FoundedInv'
  BY <1>10 DEF FoundedInv, NP!ChannelAccepts, NP!ChannelRefuses,
      NP!ChannelDeliversUnconfirmed, NP!SaveAttempt, NP!rows, NP!Waiting
<1>11. ASSUME NEW w \in Senders, NP!SaveSent(w) \/ NP!SaveFailed(w)
       PROVE  FoundedInv'
  <2>1. senderJob[w].delivery[1] \in signal
    BY <1>11 DEF NP!SaveSent, NP!SaveFailed, FoundedInv, NP!TypeOK, NP!SendSteps,
        NP!HoldSteps
  <2> QED
    BY <1>11, <2>1
    DEF FoundedInv, NP!SaveSent, NP!SaveFailed, NP!Waiting, NP!TypeOK
<1>12. ASSUME NEW w \in Senders, NP!PublishRetry(w) PROVE FoundedInv'
  <2> DEFINE d == senderJob[w].delivery
             n == senderJob[w].retries
  <2>1. senderJob[w] \in NP!SendMessages /\ n < MaxRetries
    BY <1>12 DEF NP!PublishRetry, NP!TypeOK, NP!SendSteps, NP!HoldSteps
  <2>2. d \in NP!Deliveries /\ n + 1 \in 0 .. MaxRetries /\ d[1] \in signal
    BY <2>1 DEF FoundedInv
  <2>3. NP!SendMessage(d, n + 1) \in NP!Messages
    BY <2>2
  <2>4. /\ NP!Publish(NP!SendMessage(d, n + 1))
        /\ UNCHANGED <<status, senderJob, batch>>
    BY <1>12 DEF NP!PublishRetry, NP!rows
  <2> QED
    BY <2>2, <2>3, <2>4, FoundedPublishes DEF FoundedInv
<1>13. ASSUME NEW w \in Senders, NP!Acknowledge(w) \/ NP!TaskRaises(w)
       PROVE  FoundedInv'
  <2>1. /\ UNCHANGED <<status, notificationQueue>>
        /\ senderJob' = [senderJob EXCEPT ![w] = NP!NoJob]
        /\ batch' = [batch EXCEPT ![w] = {}]
    BY <1>13 DEF NP!Acknowledge, NP!TaskRaises, NP!Forget, NP!Release, NP!rows
  <2>2. \A x \in NP!Messages : NP!Waiting(x)' => Subject(x) \in signal'
    BY <2>1 DEF FoundedInv, NP!Waiting
  <2> QED
    BY <2>1, <2>2 DEF FoundedInv, NP!TypeOK
<1>14. ASSUME NEW w \in Senders, NP!WorkerLost(w) PROVE FoundedInv'
  <2>1. senderJob[w] \in NP!Messages
    BY <1>14 DEF NP!WorkerLost, NP!TypeOK, NP!DispatchSteps, NP!SendSteps
  <2>2. \A x \in NP!Messages : NP!Waiting(x)' => Subject(x) \in signal'
    BY <1>14, <2>1, FoundedPublishes DEF NP!WorkerLost, NP!GiveBack, FoundedInv
  <2> QED
    BY <1>14, <2>2
    DEF FoundedInv, NP!WorkerLost, NP!Forget, NP!Release, NP!rows, NP!TypeOK
<1> QED
  BY <1>1, <1>2, <1>3, <1>4, <1>5, <1>6, <1>7, <1>8, <1>9, <1>10, <1>11,
     <1>12, <1>13, <1>14
  DEF NP!Work, NP!DeliveryWork

------------------------------------------------------------------------------
(* The pipeline.                                                           *)

\* The inductive invariant of the composition.
PipelineInv ==
  /\ EvaluationInv
  /\ NP!TypeOK
  /\ FoundedInv

\* Every part begins as its component does.
LEMMA PipelineInit == Init => PipelineInv
<1> SUFFICES ASSUME Init PROVE PipelineInv
  OBVIOUS
<1>1. EP!TypeOK
  <2>1. EP!Init
    BY DEF Init, E!Init, EP!Init, E!Rows, EP!Rows, E!OpenTimes, EP!OpenTimes,
        E!EmptyQueue, EP!EmptyQueue, E!Messages, EP!Messages,
        E!FanOutMessages, EP!FanOutMessages, E!EvaluateMessages,
        EP!EvaluateMessages, E!Intervals, EP!Intervals, E!IdleWorkers,
        EP!IdleWorkers, E!NoJob, EP!NoJob, E!NoEntry, EP!NoEntry
  <2> QED
    BY <2>1, EvaluationAssumptions, EP!EvaluationTypeInit
<1>2. NP!TypeOK
  <2>1. NP!Init
    BY DEF Init, N!Init, NP!Init, N!Deliveries, NP!Deliveries,
        N!EmptyQueue, NP!EmptyQueue, N!Messages, NP!Messages,
        N!DispatchMessages, NP!DispatchMessages, N!SendMessages,
        NP!SendMessages, N!IdleWorkers, NP!IdleWorkers, N!NoJob, NP!NoJob
  <2> QED
    BY <2>1, DeliveryAssumptions, NP!TypeInit
<1>3. EP!SignalInv /\ EP!SeriesInv /\ EP!TruthInv
  <2>1. /\ landed = [x \in Series |-> 0] /\ signal = {}
        /\ evaluation = [r \in EP!Rows |-> "none"]
        /\ evaluatorStep = [w \in Evaluators |-> "idle"]
    BY DEF Init, E!Init, E!IdleWorkers, E!Rows, EP!Rows, E!OpenTimes, EP!OpenTimes
  <2> QED
    BY <2>1
    DEF EP!SignalInv, EP!SignalMatchesRecord, EP!SeriesInv, EP!TruthInv,
        EP!EvaluateSteps
<1>4. FoundedInv
  <2>1. /\ status = [d \in NP!Deliveries |-> "absent"]
        /\ notificationQueue = [m \in NP!Messages |-> 0]
        /\ senderJob = [w \in Senders |-> NP!NoJob]
        /\ batch = [w \in Senders |-> {}]
    BY DEF Init, N!Init, N!Deliveries, NP!Deliveries,
        N!EmptyQueue, N!Messages, NP!Messages,
        N!DispatchMessages, NP!DispatchMessages, N!SendMessages,
        NP!SendMessages, N!IdleWorkers, N!NoJob, NP!NoJob
  <2> QED
    BY <2>1, DeliveryAssumptions, NP!MessageFields DEF FoundedInv, NP!Waiting
<1> QED
  BY <1>1, <1>2, <1>3, <1>4 DEF PipelineInv, EvaluationInv

\* A step of the senders' side: evaluation looks on.
LEMMA SenderStep ==
  ASSUME PipelineInv, UNCHANGED evaluationVars,
         \/ \E d \in NP!Deliveries : NP!RetryNow(d)
         \/ \E r \in Recipients : NP!ToggleRecipient(r)
         \/ \E w \in Senders : NP!Work(w) \/ NP!WorkerLost(w) \/ NP!TaskRaises(w)
  PROVE  PipelineInv'
<1>1. NP!Next
  BY DEF NP!Next
<1>2. NP!TypeOK'
  BY <1>1, DeliveryAssumptions, NP!TypeStep DEF PipelineInv
<1>3. crashes' \in Nat /\ abandoned' \in Nat
  BY <1>2 DEF NP!TypeOK
<1>4. EvaluationInv'
  BY <1>3, EvaluationStays DEF PipelineInv
<1>5. UNCHANGED signal
  BY DEF evaluationVars
<1>6. FoundedInv'
  BY <1>5, FoundedStep DEF PipelineInv
<1> QED
  BY <1>2, <1>4, <1>6 DEF PipelineInv

\* A step of the evaluators' side: the notifications stay founded.
LEMMA EvaluationSideStep ==
  ASSUME PipelineInv, EP!Next, UNCHANGED notificationVars
  PROVE  PipelineInv'
<1>1. EvaluationInv' /\ signal \subseteq signal'
  BY EvaluatorStep DEF PipelineInv
<1>2. crashes' \in Nat /\ abandoned' \in Nat
  BY <1>1 DEF EvaluationInv, EP!TypeOK
<1>3. NP!TypeOK'
  BY <1>2 DEF PipelineInv, NP!TypeOK, notificationVars
<1>4. FoundedInv'
  BY <1>1, FoundedStays DEF PipelineInv
<1> QED
  BY <1>1, <1>3, <1>4 DEF PipelineInv

\* The publish that joins the two: the evaluator is past the signal's commit.
LEMMA JoinStep ==
  ASSUME PipelineInv, NEW w \in Evaluators, PublishDispatch(w)
  PROVE  PipelineInv'
<1>1. EP!PublishDispatch(w) /\ EP!Next
  <2>1. E!PublishDispatch(w)
    BY DEF PublishDispatch
  <2>2. E!PublishDispatch(w) <=> EP!PublishDispatch(w)
    BY DEF E!PublishDispatch, EP!PublishDispatch, E!Row, EP!Row, E!Strategy,
        EP!Strategy, E!Goto, EP!Goto, E!admin, EP!admin, E!counters, EP!counters
  <2> QED
    BY <2>1, <2>2 DEF EP!Next, EP!Work
<1>2. EvaluationInv'
  BY <1>1, EvaluatorStep DEF PipelineInv
<1>3. EP!Row(w) \in signal /\ EP!Row(w) \in Strategies \X (1 .. MaxTime)
  <2>1. evaluatorStep[w] = "dispatch"
    BY <1>1 DEF EP!PublishDispatch
  <2>2. EP!Row(w) \in EP!Rows
    BY <2>1, EvaluationAssumptions, EP!RowIsAKey
    DEF PipelineInv, EvaluationInv, EP!EvaluateSteps
  <2> QED
    BY <2>1, <2>2 DEF PipelineInv, EvaluationInv, EP!SignalInv, EP!Rows, EP!OpenTimes
<1>4. NP!RequestDispatch(EP!Row(w))
  <2>1. E!Row(w) = EP!Row(w)
    BY DEF E!Row, EP!Row, E!Strategy, EP!Strategy
  <2> QED
    BY <2>1, SenderStepsAreSteps DEF PublishDispatch
<1>5. UNCHANGED signal
  BY <1>1 DEF EP!PublishDispatch
<1>6. NP!TypeOK'
  <2>1. NP!Next
    BY <1>3, <1>4 DEF NP!Next
  <2> QED
    BY <2>1, DeliveryAssumptions, NP!TypeStep DEF PipelineInv
<1>7. FoundedInv'
  BY <1>3, <1>4, <1>5, FoundedStep DEF PipelineInv
<1> QED
  BY <1>2, <1>6, <1>7 DEF PipelineInv

\* A message whose lookup failed is gone, and nothing else has changed.
LEMMA LookupStep ==
  ASSUME PipelineInv, NEW w \in Senders, NEW d \in N!Deliveries,
         NEW n \in 0 .. MaxRetries, LookupFails(w, d, n)
  PROVE  PipelineInv'
<1>1. d \in NP!Deliveries /\ NP!Take(w, NP!SendMessage(d, n))
  BY SenderStepsAreSteps DEF LookupFails
<1>2. NP!SendMessage(d, n) \in NP!Messages
  BY <1>1, DeliveryAssumptions, NP!MessageTypes
<1>3. /\ UNCHANGED <<evaluationVars, status, attempts, active, seen, batch,
                     accepted, refused, unconfirmed, overlapped,
                     senderStep, senderJob, dispatches, clicks, faults>>
  BY DEF LookupFails
<1>4. EvaluationInv' /\ UNCHANGED signal
  BY <1>3, EvaluationStays
  DEF PipelineInv, faults, EvaluationInv, EP!TypeOK, evaluationVars
<1>5. NP!TypeOK'
  BY <1>1, <1>2, <1>3 DEF PipelineInv, NP!TypeOK, NP!Take, NP!Waiting, faults
<1>6. FoundedInv'
  BY <1>1, <1>2, <1>3, <1>4, FoundedTakes DEF PipelineInv, FoundedInv
<1> QED
  BY <1>4, <1>5, <1>6 DEF PipelineInv

\* Every step of the pipeline is one of these.
LEMMA PipelineStep == PipelineInv /\ [Next]_vars => PipelineInv'
<1> SUFFICES ASSUME PipelineInv, [Next]_vars PROVE PipelineInv'
  OBVIOUS
<1>1. CASE Environment
  <2>1. CASE E!Environment /\ UNCHANGED <<notificationVars, faults>>
    BY <2>1, EvaluatorStepsAreSteps, EvaluationSideStep
  <2>2. CASE /\ \/ \E d \in N!Deliveries : N!RetryNow(d)
                \/ \E r \in Recipients : N!ToggleRecipient(r)
             /\ UNCHANGED evaluationVars
    BY <2>2, SenderStepsAreSteps, SenderStep
  <2> QED
    BY <1>1, <2>1, <2>2 DEF Environment
<1>2. CASE Faults
  <2>1. CASE E!Faults /\ UNCHANGED notificationVars
    BY <2>1, EvaluatorStepsAreSteps, EvaluationSideStep
  <2>2. CASE /\ \E w \in Senders : N!WorkerLost(w) \/ N!TaskRaises(w)
             /\ UNCHANGED evaluationVars
    BY <2>2, SenderStepsAreSteps, SenderStep
  <2> QED
    BY <1>2, <2>1, <2>2 DEF Faults
<1>3. ASSUME NEW w \in Evaluators, EvaluatorSteps(w) PROVE PipelineInv'
  <2>1. CASE E!EvaluationWork(w) /\ UNCHANGED notificationVars
    BY <2>1, EvaluatorStepsAreSteps, EvaluationSideStep
  <2>2. CASE PublishDispatch(w)
    BY <2>2, JoinStep
  <2> QED
    BY <1>3, <2>1, <2>2 DEF EvaluatorSteps
<1>4. ASSUME NEW w \in Senders, SenderSteps(w) PROVE PipelineInv'
  <2>1. CASE N!DeliveryWork(w) /\ UNCHANGED evaluationVars
    <3>1. NP!Work(w)
      BY <2>1, SenderStepsAreSteps DEF NP!Work
    <3> QED
      BY <2>1, <3>1, SenderStep
  <2>2. ASSUME NEW d \in N!Deliveries, NEW n \in 0 .. MaxRetries,
               SendBuildsMessage(w, d, n)
        PROVE  PipelineInv'
    <3>1. NP!Work(w)
      BY <2>2, SenderStepsAreSteps DEF NP!Work, SendBuildsMessage
    <3> QED
      BY <2>2, <3>1, SenderStep DEF SendBuildsMessage
  <2>3. ASSUME NEW d \in N!Deliveries, NEW n \in 0 .. MaxRetries,
               LookupFails(w, d, n)
        PROVE  PipelineInv'
    BY <2>3, LookupStep
  <2> QED
    BY <1>4, <2>1, <2>2, <2>3 DEF SenderSteps
<1>5. CASE UNCHANGED vars
  <2>1. UNCHANGED <<evaluationVars, notificationVars, crashes, abandoned>>
    BY <1>5 DEF vars, faults
  <2>2. EvaluationInv' /\ signal \subseteq signal'
    BY <2>1, EvaluationStays DEF PipelineInv, EvaluationInv, EP!TypeOK
  <2>3. FoundedInv'
    BY <2>1, <2>2, FoundedStays DEF PipelineInv
  <2>4. NP!TypeOK'
    BY <2>1 DEF PipelineInv, NP!TypeOK, notificationVars
  <2> QED
    BY <2>2, <2>3, <2>4 DEF PipelineInv
<1> QED
  BY <1>1, <1>2, <1>3, <1>4, <1>5 DEF Next

\* No recipient has a delivery row, and so a message, without an evaluation
\* recorded as triggered behind it.
THEOREM NotificationsAreFounded == Spec => []NotifiedMeansTriggered
<1>1. PipelineInv => NotifiedMeansTriggered
  <2> SUFFICES ASSUME PipelineInv, NEW d \in N!Deliveries, status[d] # "absent"
               PROVE  d[1] \in signal /\ evaluation[d[1]] = "triggered"
    BY DEF NotifiedMeansTriggered
  <2>1. d \in NP!Deliveries
    BY SenderStepsAreSteps
  <2>2. d[1] \in signal
    BY <2>1 DEF PipelineInv, FoundedInv
  <2> QED
    BY <2>2 DEF PipelineInv, EvaluationInv, EP!SignalInv, EP!SignalMatchesRecord
<1> QED
  BY <1>1, PipelineInit, PipelineStep, PTL DEF Spec

\* A dispatch, waiting or executed, finds its signal committed.
THEOREM DispatchesFindTheirSignals == Spec => []DispatchFindsItsSignal
<1>1. PipelineInv => DispatchFindsItsSignal
  <2> SUFFICES ASSUME PipelineInv, NEW r \in E!Rows,
                      \/ N!Waiting(N!DispatchMessage(r))
                      \/ \E w \in Senders : senderJob[w] = N!DispatchMessage(r)
               PROVE  r \in signal
    BY DEF DispatchFindsItsSignal
  <2>1. NP!DispatchMessage(r) = N!DispatchMessage(r)
    BY DEF NP!DispatchMessage, N!DispatchMessage
  <2>2. NP!DispatchMessage(r) \in NP!Messages
    BY DeliveryAssumptions, NP!MessageTypes DEF E!Rows, E!OpenTimes
  <2>3. Subject(NP!DispatchMessage(r)) = r
    BY Subjects
  <2>4. N!Waiting(N!DispatchMessage(r)) <=> NP!Waiting(NP!DispatchMessage(r))
    BY <2>1 DEF N!Waiting, NP!Waiting
  <2> QED
    BY <2>1, <2>2, <2>3, <2>4 DEF PipelineInv, FoundedInv
<1> QED
  BY <1>1, PipelineInit, PipelineStep, PTL DEF Spec

------------------------------------------------------------------------------
(* Messages.                                                               *)

\* The inductive invariant: a message that is being sent names the series of
\* its strategy, until that is moved.
MessageInv ==
  /\ DOMAIN message = Senders
  /\ \A w \in Senders : senderStep[w] = "call" =>
       \/ senderJob[w].delivery[1][1] \in moved
       \/ message[w] = SeriesOf(senderJob[w].delivery)

\* The strategy of a message that is being sent is a row.
LEMMA StrategyIsARow ==
  ASSUME PipelineInv, NEW w \in Senders, senderStep[w] = "call"
  PROVE  /\ senderJob[w].delivery \in NP!Deliveries
         /\ senderJob[w].delivery[1] \in EP!Rows
         /\ senderJob[w].delivery[1][1] \in Strategies
<1>1. senderJob[w] \in NP!SendMessages
  BY DEF PipelineInv, NP!TypeOK, NP!SendSteps, NP!HoldSteps
<1>2. senderJob[w].delivery \in NP!Deliveries
  BY <1>1, DeliveryAssumptions, NP!MessageFields
<1> QED
  BY <1>2 DEF NP!Deliveries, EP!Rows, EP!OpenTimes

\* No step of the evaluators' side makes a message of the senders false.
LEMMA MessageStays ==
  ASSUME PipelineInv, MessageInv, EP!Next \/ UNCHANGED EP!vars,
         UNCHANGED <<senderStep, senderJob, message>>
  PROVE  MessageInv'
<1>1. /\ moved \subseteq moved'
      /\ \A s \in Strategies \ moved' : entry'[s].series = entry[s].series
  BY EvaluationAssumptions, EP!SeriesAreKept DEF PipelineInv, EvaluationInv
<1>2. \A w \in Senders : senderStep[w] = "call" =>
        senderJob[w].delivery[1][1] \in Strategies
  BY StrategyIsARow
<1> QED
  BY <1>1, <1>2 DEF MessageInv, SeriesOf

\* Nor does a step of the senders' side that builds none.
LEMMA MessageIsKept ==
  ASSUME PipelineInv, MessageInv, UNCHANGED evaluationVars, KeepMessages,
         \A w \in Senders : senderStep'[w] = "call" =>
           senderStep[w] = "call" /\ senderJob'[w] = senderJob[w]
  PROVE  MessageInv'
  BY DEF MessageInv, KeepMessages, SeriesOf, evaluationVars

\* What a sender does beside building messages begins no call.
LEMMA NoCallBegins ==
  ASSUME PipelineInv, NEW w \in Senders,
         NP!DeliveryWork(w) \/ NP!WorkerLost(w) \/ NP!TaskRaises(w)
  PROVE  \A v \in Senders : senderStep'[v] = "call" =>
           senderStep[v] = "call" /\ senderJob'[v] = senderJob[v]
  BY DEF PipelineInv, NP!TypeOK, NP!DeliveryWork, NP!WorkerLost, NP!TaskRaises,
      NP!DispatchReadsRecipients, NP!DispatchCreatesDeliveries,
      NP!DispatchQueriesPending, NP!DispatchPublishes, NP!SendSkipsSent,
      NP!ChannelAccepts, NP!ChannelRefuses, NP!AfterRefusal,
      NP!ChannelDeliversUnconfirmed, NP!SaveSent, NP!SaveFailed,
      NP!SaveAttempt, NP!PublishRetry, NP!Acknowledge, NP!Forget, NP!Release,
      NP!Begin, NP!Goto, NP!locals

\* Every step keeps the messages true.
LEMMA MessageStep == PipelineInv /\ MessageInv /\ [Next]_vars => MessageInv'
<1> SUFFICES ASSUME PipelineInv, MessageInv, [Next]_vars PROVE MessageInv'
  OBVIOUS
<1>1. CASE Environment
  <2>1. CASE E!Environment /\ UNCHANGED notificationVars
    BY <1>1, <2>1, EvaluatorStepsAreSteps, MessageStays
    DEF Environment, notificationVars
  <2>2. CASE /\ \/ \E d \in N!Deliveries : N!RetryNow(d)
                \/ \E r \in Recipients : N!ToggleRecipient(r)
             /\ UNCHANGED <<evaluationVars, faults>>
    <3>1. UNCHANGED EP!vars
      BY <2>2 DEF evaluationVars, faults, EP!vars, EP!admin, EP!rows,
          EP!locals, EP!counters
    <3>2. UNCHANGED <<senderStep, senderJob, message>>
      BY <1>1, <2>2
      DEF Environment, N!RetryNow, N!ToggleRecipient, N!locals
    <3> QED
      BY <3>1, <3>2, MessageStays
  <2> QED
    BY <1>1, <2>1, <2>2 DEF Environment
<1>2. CASE Faults
  <2>1. CASE E!Faults /\ UNCHANGED <<notificationVars, message>>
    BY <2>1, EvaluatorStepsAreSteps, MessageStays DEF notificationVars
  <2>2. ASSUME NEW w \in Senders, N!WorkerLost(w) \/ N!TaskRaises(w),
               KeepMessages, UNCHANGED evaluationVars
        PROVE  MessageInv'
    BY <2>2, SenderStepsAreSteps, NoCallBegins, MessageIsKept
  <2> QED
    BY <1>2, <2>1, <2>2 DEF Faults
<1>3. ASSUME NEW w \in Evaluators, EvaluatorSteps(w) PROVE MessageInv'
  <2>1. CASE E!EvaluationWork(w) /\ UNCHANGED notificationVars
    BY <1>3, <2>1, EvaluatorStepsAreSteps, MessageStays
    DEF EvaluatorSteps, notificationVars
  <2>2. CASE PublishDispatch(w)
    <3>1. UNCHANGED <<senderStep, senderJob, message>>
      BY <1>3, <2>2
      DEF EvaluatorSteps, PublishDispatch, N!RequestDispatch, N!locals
    <3> QED
      BY <2>2, <3>1, EvaluatorStepsAreSteps, MessageStays DEF PublishDispatch
  <2> QED
    BY <1>3, <2>1, <2>2 DEF EvaluatorSteps
<1>4. ASSUME NEW w \in Senders, SenderSteps(w) PROVE MessageInv'
  <2>1. CASE N!DeliveryWork(w) /\ KeepMessages /\ UNCHANGED evaluationVars
    BY <2>1, SenderStepsAreSteps, NoCallBegins, MessageIsKept
  <2>2. ASSUME NEW d \in N!Deliveries, NEW n \in 0 .. MaxRetries,
               SendBuildsMessage(w, d, n)
        PROVE  MessageInv'
    <3>1. /\ message' = [message EXCEPT ![w] = SeriesOf(d)]
          /\ UNCHANGED <<entry, moved>>
          /\ senderStep' = [senderStep EXCEPT ![w] = "call"]
          /\ senderJob' = [senderJob EXCEPT ![w] = N!SendMessage(d, n)]
      BY <2>2
      DEF SendBuildsMessage, N!SendReadsDelivery, N!Begin, evaluationVars
    <3>2. N!SendMessage(d, n).delivery = d
      BY DEF N!SendMessage
    <3> QED
      BY <3>1, <3>2 DEF MessageInv, SeriesOf, PipelineInv, NP!TypeOK
  <2>3. ASSUME NEW d \in N!Deliveries, NEW n \in 0 .. MaxRetries,
               LookupFails(w, d, n)
        PROVE  MessageInv'
    BY <2>3 DEF LookupFails, MessageInv, SeriesOf, evaluationVars
  <2> QED
    BY <1>4, <2>1, <2>2, <2>3 DEF SenderSteps
<1>5. CASE UNCHANGED vars
  BY <1>5
  DEF vars, evaluationVars, notificationVars, MessageInv, SeriesOf
<1> QED
  BY <1>1, <1>2, <1>3, <1>4, <1>5 DEF Next

\* A message that is being sent is about a candle of its strategy's series on
\* which a config the strategy may have had triggers, unless it was moved.
THEOREM MessagesTellTheTruth == Spec => []MessagesAreTrue
<1>1. PipelineInv /\ MessageInv => MessagesAreTrue
  <2> SUFFICES ASSUME PipelineInv, MessageInv, NEW w \in Senders,
                      senderStep[w] = "call",
                      senderJob[w].delivery[1][1] \notin moved
               PROVE  LET r == senderJob[w].delivery[1] IN
                        /\ r[2] \in Opens[message[w]] /\ r[2] <= landed[message[w]]
                        /\ \E e \in Entries :
                             /\ e.series = message[w]
                             /\ Verdict[e.config, message[w], r[2]] = "triggered"
    BY DEF MessagesAreTrue
  <2> DEFINE r == senderJob[w].delivery[1]
  <2>1. r \in EP!Rows /\ message[w] = entry[r[1]].series
    BY StrategyIsARow DEF MessageInv, SeriesOf
  <2>2. evaluation[r] = "triggered"
    <3>1. r \in signal
      BY DeliveryAssumptions, NP!MessageFields, NP!MessageTypes, Subjects
      DEF PipelineInv, FoundedInv, NP!TypeOK, NP!SendSteps, NP!HoldSteps
    <3> QED
      BY <3>1 DEF PipelineInv, EvaluationInv, EP!SignalInv, EP!SignalMatchesRecord
  <2>3. /\ r[2] <= landed[message[w]] /\ r[2] \in Opens[message[w]]
        /\ EP!MayTrigger(message[w], r[2])
    BY <2>1, <2>2 DEF PipelineInv, EvaluationInv, EP!SeriesInv, EP!TruthInv
  <2>4. EP!MayTrigger(message[w], r[2]) =>
          \E e \in Entries :
            /\ e.series = message[w]
            /\ Verdict[e.config, message[w], r[2]] = "triggered"
    BY Zenon DEF EP!MayTrigger
  <2> QED
    BY <2>3, <2>4, Zenon
<1>2. Init => MessageInv
  BY DEF Init, MessageInv, N!Init, N!IdleWorkers
<1> QED
  BY <1>1, <1>2, PipelineInit, PipelineStep, MessageStep, PTL DEF Spec
==============================================================================
