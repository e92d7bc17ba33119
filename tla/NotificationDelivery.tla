------------------------- MODULE NotificationDelivery ------------------------
(***************************************************************************)
(* Notification dispatch: src/src/cryptovira/apps/signals/tasks.py with    *)
(* the rows of signals/models.py and the "Retry now" action of             *)
(* signals/admin.py.                                                       *)
(*                                                                         *)
(* dispatch_notifications creates one NotificationDelivery per active      *)
(* recipient of a signal and publishes send_notification for every PENDING *)
(* one; send_notification calls the external channel and records what      *)
(* became of the call, retrying through the broker until max_retries.      *)
(* Every query, every publish and the call itself is a step of its own:    *)
(* workers interleave there, and a worker can be lost between any two.     *)
(***************************************************************************)
EXTENDS TaskQueue, Integers, FiniteSets

CONSTANTS
  Workers,       \* worker processes that consume the notifications queue
  Signals,       \* Signal rows that can be dispatched, of one strategy owner
  Recipients,    \* the owner's NotificationRecipient rows
  MaxRetries,    \* send_notification's max_retries
  MaxCrashes,    \* bound: workers lost while executing a task
  MaxAbandoned,  \* bound: tasks ended by an uncaught exception or time limit
  MaxDispatches, \* bound: dispatch_notifications.delay calls
  MaxClicks      \* bound: "Retry now" clicks

ASSUME BoundsAreNaturals ==
  /\ MaxRetries \in Nat
  /\ MaxCrashes \in Nat
  /\ MaxAbandoned \in Nat
  /\ MaxDispatches \in Nat
  /\ MaxClicks \in Nat

------------------------------------------------------------------------------
Deliveries == Signals \X Recipients

DispatchMessage(s) == [task |-> "dispatch", signal |-> s]
SendMessage(d, n) == [task |-> "send", delivery |-> d, retries |-> n]

DispatchMessages == [task : {"dispatch"}, signal : Signals]
SendMessages ==
  [task : {"send"}, delivery : Deliveries, retries : 0 .. MaxRetries]
Messages == DispatchMessages \cup SendMessages

Statuses == {"absent", "pending", "sent", "failed"}

DispatchSteps == {"insert", "query", "publish"}
\* Between the row's load and its save, and the whole of a send.
HoldSteps == {"call", "save_sent", "save_error"}
SendSteps == HoldSteps \cup {"retry"}

VARIABLES
  status,      \* NotificationDelivery.status; "absent" where there is no row
  attempts,    \* NotificationDelivery.attempts
  active,      \* the recipients with is_active
  seen,        \* worker -> the attempts of the row object it loaded
  batch,       \* worker -> the rows its dispatch still has to create, publish
  accepted,    \* history: calls the channel accepted and the worker saw it
  refused,     \* history: calls that failed and delivered nothing
  unconfirmed, \* history: calls that delivered and failed for the worker
  overlapped,  \* history: deliveries two workers have been sending at once
  crashes, abandoned, dispatches, clicks   \* history: what the bounds count

rows == <<status, attempts>>
locals == <<pc, job, seen, batch>>
calls == <<accepted, refused, unconfirmed, overlapped>>
counters == <<crashes, abandoned, dispatches, clicks>>
vars == <<rows, active, queue, locals, calls, counters>>

Init ==
  /\ status = [d \in Deliveries |-> "absent"]
  /\ attempts = [d \in Deliveries |-> 0]
  /\ active \in SUBSET Recipients
  /\ EmptyQueue(Messages)
  /\ IdleWorkers(Workers)
  /\ seen = [w \in Workers |-> 0]
  /\ batch = [w \in Workers |-> {}]
  /\ accepted = [d \in Deliveries |-> 0]
  /\ refused = [d \in Deliveries |-> 0]
  /\ unconfirmed = [d \in Deliveries |-> 0]
  /\ overlapped = {}
  /\ crashes = 0 /\ abandoned = 0 /\ dispatches = 0 /\ clicks = 0

------------------------------------------------------------------------------
(* The environment of the workers.                                         *)

\* The on_commit callback of record_signal, for a signal new or not.
RequestDispatch(s) ==
  /\ dispatches < MaxDispatches
  /\ dispatches' = dispatches + 1
  /\ Publish(DispatchMessage(s))
  /\ UNCHANGED <<rows, active, locals, calls, crashes, abandoned, clicks>>

\* "Retry now" publishes a fresh send_notification for any existing row,
\* whatever its status, and changes no row.
RetryNow(d) ==
  /\ status[d] # "absent"
  /\ clicks < MaxClicks
  /\ clicks' = clicks + 1
  /\ Publish(SendMessage(d, 0))
  /\ UNCHANGED <<rows, active, locals, calls, crashes, abandoned, dispatches>>

\* An administrator links or unlinks a destination.
ToggleRecipient(r) ==
  /\ active' = IF r \in active THEN active \ {r} ELSE active \cup {r}
  /\ UNCHANGED <<rows, queue, locals, calls, counters>>

------------------------------------------------------------------------------
(* dispatch_notifications                                                  *)

\* The lazy recipients query is evaluated when the list of rows is built.
DispatchReadsRecipients(w, s) ==
  /\ Begin(w, DispatchMessage(s), "insert")
  /\ batch' = [batch EXCEPT ![w] = {s} \X active]
  /\ UNCHANGED <<rows, active, seen, calls, counters>>

\* Mutant: bulk_create updates the rows that exist (no ignore_conflicts).
MissingOrNot(d) == TRUE

Missing(d) == status[d] = "absent"

\* bulk_create(ignore_conflicts=True): an existing row is left as it is.
DispatchCreatesDeliveries(w) ==
  /\ pc[w] = "insert"
  /\ status' = [d \in Deliveries |->
                  IF d \in batch[w] /\ Missing(d) THEN "pending" ELSE status[d]]
  /\ batch' = [batch EXCEPT ![w] = {}]
  /\ Goto(w, "query")
  /\ UNCHANGED <<attempts, active, queue, job, seen, calls, counters>>

DispatchQueriesPending(w) ==
  /\ pc[w] = "query"
  /\ batch' = [batch EXCEPT ![w] =
                 {d \in Deliveries : d[1] = job[w].signal
                                     /\ status[d] = "pending"}]
  /\ Goto(w, "publish")
  /\ UNCHANGED <<rows, active, queue, job, seen, calls, counters>>

DispatchPublishes(w, d) ==
  /\ pc[w] = "publish"
  /\ d \in batch[w]
  /\ Publish(SendMessage(d, 0))
  /\ batch' = [batch EXCEPT ![w] = @ \ {d}]
  /\ UNCHANGED <<rows, active, pc, job, seen, calls, counters>>

------------------------------------------------------------------------------
(* send_notification                                                       *)

\* Mutant: the guard that skips a SENT row is missing.
NeverSent(d) == FALSE

\* The redelivery guard looks at the row once, when the task begins.
AlreadySent(d) == status[d] = "sent"

\* Such a message is acknowledged and the row left alone.
SendSkipsSent(w, d, n) ==
  /\ Take(w, SendMessage(d, n))
  /\ AlreadySent(d)
  /\ UNCHANGED <<rows, active, locals, calls, counters>>

\* Some worker loaded d and has not saved it yet.
Held(d) == \E w \in Workers : pc[w] \in HoldSteps /\ job[w].delivery = d

SendReadsDelivery(w, d, n) ==
  /\ ~AlreadySent(d)
  /\ Begin(w, SendMessage(d, n), "call")
  /\ seen' = [seen EXCEPT ![w] = attempts[d]]
  /\ overlapped' = IF Held(d) THEN overlapped \cup {d} ELSE overlapped
  /\ UNCHANGED <<rows, active, batch, accepted, refused, unconfirmed, counters>>

\* The call returns: the channel took the message and said so.
ChannelAccepts(w) ==
  /\ pc[w] = "call"
  /\ accepted' = [accepted EXCEPT ![job[w].delivery] = @ + 1]
  /\ Goto(w, "save_sent")
  /\ UNCHANGED <<rows, active, queue, job, seen, batch,
                 refused, unconfirmed, overlapped, counters>>

\* Mutant: the response's status is not looked at (no raise_for_status).
WithoutRaiseForStatus == "save_sent"

AfterRefusal == "save_error"

\* ChannelDeliveryError, and nothing reached the recipient.
ChannelRefuses(w) ==
  /\ pc[w] = "call"
  /\ refused' = [refused EXCEPT ![job[w].delivery] = @ + 1]
  /\ Goto(w, AfterRefusal)
  /\ UNCHANGED <<rows, active, queue, job, seen, batch,
                 accepted, unconfirmed, overlapped, counters>>

\* ChannelDeliveryError for an answer lost on its way back (a read timeout,
\* a connection reset): the recipient has the message.
ChannelDeliversUnconfirmed(w) ==
  /\ pc[w] = "call"
  /\ unconfirmed' = [unconfirmed EXCEPT ![job[w].delivery] = @ + 1]
  /\ Goto(w, "save_error")
  /\ UNCHANGED <<rows, active, queue, job, seen, batch,
                 accepted, refused, overlapped, counters>>

\* Mutant: the retries Celery counts are added to the attempts of the row.
RecordAttemptAndRetries(w) ==
  attempts' = [attempts EXCEPT ![job[w].delivery] = seen[w] + job[w].retries + 1]

\* Mutant: attempts is among the saved fields and was never increased.
RecordNothing(w) ==
  attempts' = [attempts EXCEPT ![job[w].delivery] = seen[w]]

\* delivery.attempts += 1 is computed from the loaded row and saved over
\* whatever the row holds by now.
RecordAttempt(w) ==
  attempts' = [attempts EXCEPT ![job[w].delivery] = seen[w] + 1]

SaveSent(w) ==
  /\ pc[w] = "save_sent"
  /\ RecordAttempt(w)
  /\ status' = [status EXCEPT ![job[w].delivery] = "sent"]
  /\ Goto(w, "done")
  /\ UNCHANGED <<active, queue, job, seen, batch, calls, counters>>

\* Mutant: given up one call too early.
ExhaustedEarly(w) == job[w].retries + 1 >= MaxRetries

\* Mutant: retried once more than max_retries.
ExhaustedLate(w) == job[w].retries > MaxRetries

Exhausted(w) == job[w].retries >= MaxRetries

SaveFailed(w) ==
  /\ pc[w] = "save_error"
  /\ Exhausted(w)
  /\ RecordAttempt(w)
  /\ status' = [status EXCEPT ![job[w].delivery] = "failed"]
  /\ Goto(w, "done")
  /\ UNCHANGED <<active, queue, job, seen, batch, calls, counters>>

SaveAttempt(w) ==
  /\ pc[w] = "save_error"
  /\ ~Exhausted(w)
  /\ RecordAttempt(w)
  /\ Goto(w, "retry")
  /\ UNCHANGED <<status, active, queue, job, seen, batch, calls, counters>>

\* raise self.retry(...) publishes a new message before this one is
\* acknowledged.
PublishRetry(w) ==
  /\ pc[w] = "retry"
  /\ Publish(SendMessage(job[w].delivery, job[w].retries + 1))
  /\ Goto(w, "done")
  /\ UNCHANGED <<rows, active, job, seen, batch, calls, counters>>

------------------------------------------------------------------------------
(* How a task ends.                                                        *)

\* The process forgets the task it executed.
Forget(w) ==
  /\ Release(w)
  /\ seen' = [seen EXCEPT ![w] = 0]
  /\ batch' = [batch EXCEPT ![w] = {}]

\* The task returned (or raised Retry): the broker forgets the message.
Acknowledge(w) ==
  /\ \/ pc[w] = "done"
     \/ pc[w] = "publish" /\ batch[w] = {}
  /\ Forget(w)
  /\ UNCHANGED <<rows, active, queue, calls, counters>>

\* The worker process is lost: its message goes back to the queue.
WorkerLost(w) ==
  /\ pc[w] # "idle"
  /\ crashes < MaxCrashes
  /\ crashes' = crashes + 1
  /\ GiveBack(w)
  /\ Forget(w)
  /\ UNCHANGED <<rows, active, calls, abandoned, dispatches, clicks>>

\* An exception other than ChannelDeliveryError, or the time limit, ends the
\* task.  task_acks_on_failure_or_timeout keeps its default, so the message
\* is acknowledged all the same.
TaskRaises(w) ==
  /\ pc[w] # "idle"
  /\ abandoned < MaxAbandoned
  /\ abandoned' = abandoned + 1
  /\ Forget(w)
  /\ UNCHANGED <<rows, active, queue, calls, crashes, dispatches, clicks>>

------------------------------------------------------------------------------
\* Every step of a worker but the one that loads a row and builds its message.
DeliveryWork(w) ==
  \/ \E s \in Signals : DispatchReadsRecipients(w, s)
  \/ DispatchCreatesDeliveries(w)
  \/ DispatchQueriesPending(w)
  \/ \E d \in Deliveries : DispatchPublishes(w, d)
  \/ \E d \in Deliveries, n \in 0 .. MaxRetries : SendSkipsSent(w, d, n)
  \/ ChannelAccepts(w)
  \/ ChannelRefuses(w)
  \/ ChannelDeliversUnconfirmed(w)
  \/ SaveSent(w)
  \/ SaveFailed(w)
  \/ SaveAttempt(w)
  \/ PublishRetry(w)
  \/ Acknowledge(w)

\* What a worker does when nothing goes wrong with it.
Work(w) ==
  \/ DeliveryWork(w)
  \/ \E d \in Deliveries, n \in 0 .. MaxRetries : SendReadsDelivery(w, d, n)

Next ==
  \/ \E s \in Signals : RequestDispatch(s)
  \/ \E d \in Deliveries : RetryNow(d)
  \/ \E r \in Recipients : ToggleRecipient(r)
  \/ \E w \in Workers : Work(w) \/ WorkerLost(w) \/ TaskRaises(w)

Spec == Init /\ [][Next]_vars

------------------------------------------------------------------------------
(* Properties.                                                             *)

Calls(d) == accepted[d] + refused[d] + unconfirmed[d]
Received(d) == accepted[d] + unconfirmed[d]
Errors(d) == refused[d] + unconfirmed[d]

\* Every variable has its type, a worker is busy exactly when it holds a
\* message, and the steps of a task are taken for a message of that task.
TypeOK ==
  /\ status \in [Deliveries -> Statuses]
  /\ attempts \in [Deliveries -> Nat]
  /\ active \in SUBSET Recipients
  /\ queue \in [Messages -> Nat]
  /\ pc \in [Workers -> {"idle", "done"} \cup DispatchSteps \cup SendSteps]
  /\ job \in [Workers -> Messages \cup {NoJob}]
  /\ seen \in [Workers -> Nat]
  /\ batch \in [Workers -> SUBSET Deliveries]
  /\ accepted \in [Deliveries -> Nat]
  /\ refused \in [Deliveries -> Nat]
  /\ unconfirmed \in [Deliveries -> Nat]
  /\ overlapped \in SUBSET Deliveries
  /\ crashes \in Nat /\ abandoned \in Nat
  /\ dispatches \in Nat /\ clicks \in Nat
  /\ \A w \in Workers :
       /\ pc[w] = "idle" => job[w] = NoJob
       /\ pc[w] = "done" => job[w] \in SendMessages
       /\ pc[w] \in DispatchSteps => job[w] \in DispatchMessages
       /\ pc[w] \in SendSteps => job[w] \in SendMessages
       /\ pc[w] = "retry" => job[w].retries < MaxRetries

\* A delivery is recorded SENT only if the channel accepted a call for it,
\* whatever was redelivered, retried, clicked or lost in between
\* (signals/tasks.py:104-106).
SentMeansAccepted ==
  \A d \in Deliveries : status[d] = "sent" => accepted[d] >= 1

\* The dead letter is earned: a delivery becomes FAILED only after
\* max_retries + 1 failed calls, even when redeliveries and concurrent
\* messages for the same row mix their retries (signals/tasks.py:91-94).
FailedMeansExhausted ==
  \A d \in Deliveries : status[d] = "failed" => Errors(d) >= MaxRetries + 1

\* The attempts column never claims a call that was not made: lost updates
\* and crashes make it lag behind the calls and never lead them
\* (signals/tasks.py:89, 104).
AttemptsNeverOvercount ==
  \A d \in Deliveries : attempts[d] <= Calls(d)

\* A retry is earned, and every message is about a row that exists: a message
\* with n retries, waiting or being executed, follows n failed calls.
RetriesAreEarned ==
  /\ \A d \in Deliveries, n \in 0 .. MaxRetries :
       Waiting(SendMessage(d, n)) => status[d] # "absent" /\ Errors(d) >= n
  /\ \A w \in Workers : job[w] \in SendMessages =>
       /\ status[job[w].delivery] # "absent"
       /\ Errors(job[w].delivery) >= job[w].retries
       /\ pc[w] \in {"save_error", "retry"}
            => Errors(job[w].delivery) >= job[w].retries + 1
  /\ \A w \in Workers : pc[w] = "publish" =>
       \A d \in batch[w] : status[d] # "absent"

\* What a worker is about to save happened: an accepted call behind "sent",
\* and one call more than the attempts it loaded behind each save.
SavesAreBacked ==
  \A w \in Workers :
    /\ pc[w] = "save_sent" => accepted[job[w].delivery] >= 1
    /\ pc[w] \in SendSteps => seen[w] <= Calls(job[w].delivery)
    /\ pc[w] \in {"save_sent", "save_error"}
         => seen[w] + 1 <= Calls(job[w].delivery)

\* The inductive invariant behind the three properties above.
HistoryInv ==
  /\ TypeOK
  /\ RetriesAreEarned
  /\ SavesAreBacked
  /\ SentMeansAccepted
  /\ FailedMeansExhausted
  /\ AttemptsNeverOvercount

\* A message for d, or for its signal's dispatch, is waiting.
QueueOwes(d) ==
  \/ Waiting(DispatchMessage(d[1]))
  \/ \E n \in 0 .. MaxRetries : Waiting(SendMessage(d, n))

\* Worker w is between taking such a message and settling d.
WorkerOwes(w, d) ==
  \/ /\ pc[w] \in DispatchSteps
     /\ job[w].signal = d[1]
     /\ pc[w] = "publish" => d \in batch[w]
  \/ /\ pc[w] \in SendSteps
     /\ job[w].delivery = d

\* Somebody still has to look at d.
Owed(d) == QueueOwes(d) \/ \E w \in Workers : WorkerOwes(w, d)

\* As long as no task ends in an uncaught exception, no crash at any step
\* loses a delivery: each PENDING row is owed to a message or to a worker
\* (signals/tasks.py:5-6, "redelivery-safe on its own").
NoSilentLoss ==
  abandoned = 0 =>
    \A d \in Deliveries : status[d] = "pending" => Owed(d)

\* SENT is the end: no later task changes the record of a send
\* (the guard of signals/tasks.py:77-81).
SentIsFinal ==
  [][\A d \in Deliveries : status[d] = "sent" => status'[d] = "sent"]_status

\* The same as long as no two workers were sending the delivery at once: the
\* guard of signals/tasks.py:77-81 is enough against redeliveries, retries,
\* crashes and clicks that come one after another.
SentIsFinalUnlessOverlapped ==
  [][\A d \in Deliveries \ overlapped :
       status[d] = "sent" => status'[d] = "sent"]_status

\* Unless two workers were sending it at once, a recipient sees a second
\* accepted copy only when a task ended between the call and the save: once
\* for each crash or uncaught exception (signals/tasks.py:78-81, ADR 0009's
\* double-send window).
DuplicatesNeedACrash ==
  \A d \in Deliveries \ overlapped : accepted[d] <= 1 + crashes + abandoned

\* A worker is about to save what became of a call for d.
Unsaved(d, steps) ==
  \E w \in Workers : pc[w] \in steps /\ job[w].delivery = d

\* Unless two workers were sending it at once, only a task that ended before
\* its save leaves a call out of a delivery's attempts column
\* (signals/tasks.py:89-95, 104-106).
MissedAttemptsNeedACrash ==
  \A d \in Deliveries \ overlapped :
    /\ Calls(d) <= attempts[d] + crashes + abandoned + 1
    /\ ~Unsaved(d, {"save_sent", "save_error"})
         => Calls(d) <= attempts[d] + crashes + abandoned

\* A worker that sends has the row to itself: nobody else holds it, it is not
\* SENT, and it still has the attempts the worker loaded.
WorkerHasTheRow ==
  \A w \in Workers :
    pc[w] \in HoldSteps /\ job[w].delivery \notin overlapped =>
      /\ status[job[w].delivery] # "sent"
      /\ seen[w] = attempts[job[w].delivery]
      /\ \A v \in Workers :
           pc[v] \in HoldSteps /\ job[v].delivery = job[w].delivery => v = w

\* DuplicatesNeedACrash, and what it rests on: no accepted call without an
\* early end before it, unless it is saved or about to be.
CopiesNeedACrash ==
  /\ DuplicatesNeedACrash
  /\ \A d \in Deliveries \ overlapped :
       status[d] # "sent" /\ ~Unsaved(d, {"save_sent"})
         => accepted[d] <= crashes + abandoned

\* The inductive invariant of the deliveries sent by one worker at a time.
AloneInv == WorkerHasTheRow /\ CopiesNeedACrash /\ MissedAttemptsNeedACrash

------------------------------------------------------------------------------
(* What the component promises, and how its state shows it.                *)

Contract == INSTANCE DeliveryContract WITH
  Budget <- MaxRetries + 1,
  received <- [d \in Deliveries |-> Received(d)],
  errors <- [d \in Deliveries |-> Errors(d)]

\* The queue, the workers, the retries and the crashes together keep the
\* at-least-once contract of DeliveryContract (signals/tasks.py:48-106).
KeepsContract == Contract!Spec
==============================================================================
