------------------------------- MODULE Pipeline ------------------------------
(***************************************************************************)
(* From a closed candle to a recipient's message: EvaluateStrategy and     *)
(* NotificationDelivery over one database, joined where record_signal's    *)
(* on_commit callback publishes dispatch_notifications                     *)
(* (src/src/cryptovira/apps/signals/services.py:37).  The two queues are   *)
(* apart (celery.py:45-54) and so are the workers modelled for each; the   *)
(* counters of crashes and uncaught exceptions are shared.  A signal is    *)
(* named by its evaluation's row, the (strategy, open time) pair.          *)
(*                                                                         *)
(* Here send_notification also builds its message: build_message_context   *)
(* (services.py:41-55) looks the candle up by the strategy's series of     *)
(* that moment and the evaluation's open time.  It touches no delivery, so *)
(* it is one step with the load of the row.                                *)
(***************************************************************************)
EXTENDS Naturals, FiniteSets

CONSTANTS
  Evaluators, Senders, Strategies, Series, MaxTime, Opens, Configs, Verdict,
  Entries, Recipients, MaxRetries,
  MaxTicks, MaxDispatches, MaxClicks, MaxCrashes, MaxAbandoned

\* What the two modules assume of their constants.
ASSUME PipelineBounds ==
  {MaxTime, MaxRetries, MaxTicks, MaxDispatches, MaxClicks, MaxCrashes,
   MaxAbandoned} \subseteq Nat
ASSUME PipelineSeries ==
  /\ Opens \in [Series -> SUBSET (1 .. MaxTime)]
  /\ Verdict \in [Configs \X Series \X (1 .. MaxTime) ->
                   {"triggered", "quiet", "insufficient"}]
  /\ Entries \subseteq [series : Series, config : Configs]

VARIABLES
  landed, entry, enabled, evaluation, signal, dispatched, moved,
  held, last, todo, strategyQueue, evaluatorStep, evaluatorJob, ticks,
  status, attempts, active, seen, batch, accepted, refused, unconfirmed, overlapped,
  notificationQueue, senderStep, senderJob, dispatches, clicks,
  message,   \* sender -> the series its message names, beside the open time
  crashes, abandoned

E == INSTANCE EvaluateStrategy WITH
  Workers <- Evaluators,
  queue <- strategyQueue, pc <- evaluatorStep, job <- evaluatorJob

N == INSTANCE NotificationDelivery WITH
  Workers <- Senders, Signals <- Strategies \X (1 .. MaxTime),
  queue <- notificationQueue, pc <- senderStep, job <- senderJob

evaluationVars ==
  <<landed, entry, enabled, evaluation, signal, dispatched, moved,
    held, last, todo, strategyQueue, evaluatorStep, evaluatorJob, ticks>>
notificationVars ==
  <<status, attempts, active, seen, batch, accepted, refused, unconfirmed, overlapped,
    notificationQueue, senderStep, senderJob, dispatches, clicks>>
faults == <<crashes, abandoned>>
vars == <<evaluationVars, notificationVars, message, faults>>

NoMessage == <<>>

Init == E!Init /\ N!Init /\ message = [w \in Senders |-> NoMessage]

\* record_signal's callback: the evaluation's last step and the arrival of a
\* message in the notifications queue are one publish.
PublishDispatch(w) ==
  /\ E!PublishDispatch(w)
  /\ N!RequestDispatch(E!Row(w))

EvaluatorSteps(w) ==
  /\ \/ E!EvaluationWork(w) /\ UNCHANGED notificationVars
     \/ PublishDispatch(w)
  /\ UNCHANGED message

\* The series of the delivery's strategy, as it is now.
SeriesOf(d) == entry[d[1][1]].series

CandleIsFound(d) ==
  d[1][2] \in Opens[SeriesOf(d)] /\ d[1][2] <= landed[SeriesOf(d)]

SendBuildsMessage(w, d, n) ==
  /\ CandleIsFound(d)
  /\ N!SendReadsDelivery(w, d, n)
  /\ message' = [message EXCEPT ![w] = SeriesOf(d)]
  /\ UNCHANGED evaluationVars

\* Candle.DoesNotExist is nobody's to catch: the task ends, its message is
\* acknowledged, and the row stays as it was.
LookupFails(w, d, n) ==
  /\ ~CandleIsFound(d)
  /\ ~N!AlreadySent(d)
  /\ N!Take(w, N!SendMessage(d, n))
  /\ UNCHANGED <<evaluationVars, status, attempts, active, seen, batch,
                 accepted, refused, unconfirmed, overlapped,
                 senderStep, senderJob, dispatches, clicks, message, faults>>

\* The message is gone with the step that made the call, or with its worker.
KeepMessages ==
  message' = [w \in Senders |->
                IF senderStep'[w] = "call" THEN message[w] ELSE NoMessage]

SenderSteps(w) ==
  \/ N!DeliveryWork(w) /\ KeepMessages /\ UNCHANGED evaluationVars
  \/ \E d \in N!Deliveries, n \in 0 .. MaxRetries :
       SendBuildsMessage(w, d, n) \/ LookupFails(w, d, n)

Environment ==
  /\ \/ E!Environment /\ UNCHANGED <<notificationVars, faults>>
     \/ /\ \/ \E d \in N!Deliveries : N!RetryNow(d)
           \/ \E r \in Recipients : N!ToggleRecipient(r)
        /\ UNCHANGED <<evaluationVars, faults>>
  /\ UNCHANGED message

Faults ==
  \/ E!Faults /\ UNCHANGED <<notificationVars, message>>
  \/ /\ \E w \in Senders : N!WorkerLost(w) \/ N!TaskRaises(w)
     /\ KeepMessages
     /\ UNCHANGED evaluationVars

Next ==
  \/ Environment
  \/ Faults
  \/ \E w \in Evaluators : EvaluatorSteps(w)
  \/ \E w \in Senders : SenderSteps(w)

Spec == Init /\ [][Next]_vars

\* Workers of both queues keep running.
FairSpec ==
  /\ Spec
  /\ \A w \in Evaluators : WF_vars(EvaluatorSteps(w))
  /\ \A w \in Senders : WF_vars(SenderSteps(w))

------------------------------------------------------------------------------
(* Properties.                                                             *)

\* Nobody hears of a signal that was not triggered: every delivery row, and
\* so every message sent, goes back to an evaluation recorded as triggered,
\* with edits, races and redeliveries anywhere on the way
\* (strategy/tasks.py:82-88, signals/tasks.py:50-62).
NotifiedMeansTriggered ==
  \A d \in N!Deliveries :
    status[d] # "absent" => d[1] \in signal /\ evaluation[d[1]] = "triggered"

\* dispatch_notifications never raises Signal.DoesNotExist: each of its
\* messages, waiting or being executed, names a committed signal
\* (signals/tasks.py:50).
DispatchFindsItsSignal ==
  \A r \in E!Rows :
    (\/ N!Waiting(N!DispatchMessage(r))
     \/ \E w \in Senders : senderJob[w] = N!DispatchMessage(r))
      => r \in signal

\* A message that is being sent tells the truth: it names a candle that has
\* landed, and a config the strategy may have had triggers on that candle,
\* unless the strategy was moved to another series (signals/services.py:41-55,
\* strategy/tasks.py:60-88).
MessagesAreTrue ==
  \A w \in Senders : senderStep[w] = "call" =>
    LET r == senderJob[w].delivery[1] IN
      \/ r[1] \in moved
      \/ /\ r[2] \in Opens[message[w]] /\ r[2] <= landed[message[w]]
         /\ \E e \in Entries : /\ e.series = message[w]
                              /\ Verdict[e.config, message[w], r[2]] = "triggered"

\* A signal whose dispatch is waiting settles the delivery to every recipient
\* who stays active, SENT or FAILED, over retries and losses of workers, unless
\* its strategy is moved to another series, where the candle of the message may
\* be missing, or a task ends in an uncaught exception (signals/tasks.py:48-106).
SignalReachesRecipients ==
  \A d \in N!Deliveries :
    [](N!Waiting(N!DispatchMessage(d[1])) /\ [](d[2] \in active)
         => <>(\/ status[d] \in {"sent", "failed"}
               \/ d[1][1] \in moved
               \/ abandoned > 0))
==============================================================================
