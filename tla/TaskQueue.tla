------------------------------ MODULE TaskQueue ------------------------------
(***************************************************************************)
(* One Celery queue and the workers that consume it, under                 *)
(* src/src/cryptovira/celery.py:32-36: task_acks_late (a message leaves    *)
(* the broker for good only when its task has ended),                      *)
(* task_reject_on_worker_lost (a lost worker gives it back) and            *)
(* worker_prefetch_multiplier = 1 (a worker holds the one message it is    *)
(* executing).  RabbitMQ itself is external; no order is promised between  *)
(* the messages several workers take, nor between a message and a retry    *)
(* with a countdown, so a queue is a bag: a function from each possible    *)
(* message to how many copies of it wait.  A message being executed is in  *)
(* no queue: the worker that executes it holds it in job.                  *)
(***************************************************************************)
EXTENDS Naturals

VARIABLES
  queue,  \* message -> copies waiting
  pc,     \* worker -> the step of its task that comes next
  job     \* worker -> the message it executes

NoJob == [task |-> "none"]

EmptyQueue(Messages) == queue = [m \in Messages |-> 0]

IdleWorkers(Workers) ==
  /\ pc = [w \in Workers |-> "idle"]
  /\ job = [w \in Workers |-> NoJob]

Waiting(m) == queue[m] > 0

\* task.delay(...) and self.retry(...).
Publish(m) == queue' = [queue EXCEPT ![m] = @ + 1]

\* Mutant: the message was acknowledged when its task began (no acks_late).
Drop(w) == UNCHANGED queue

\* The message of a lost worker returns to its queue.
GiveBack(w) == Publish(job[w])

\* A waiting message leaves the queue for a free worker.
Take(w, m) ==
  /\ pc[w] = "idle"
  /\ Waiting(m)
  /\ queue' = [queue EXCEPT ![m] = @ - 1]

\* The worker executes it up to its task's first step.
Begin(w, m, step) ==
  /\ Take(w, m)
  /\ job' = [job EXCEPT ![w] = m]
  /\ pc' = [pc EXCEPT ![w] = step]

Goto(w, step) == pc' = [pc EXCEPT ![w] = step]

\* The process is done with its message, or lost.
Release(w) ==
  /\ pc' = [pc EXCEPT ![w] = "idle"]
  /\ job' = [job EXCEPT ![w] = NoJob]
==============================================================================
