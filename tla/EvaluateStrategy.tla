--------------------------- MODULE EvaluateStrategy --------------------------
(***************************************************************************)
(* Strategy evaluation on the strategy queue:                              *)
(* src/src/cryptovira/apps/strategy/tasks.py with the rows of              *)
(* strategy/models.py, record_signal of signals/services.py, and the edits *)
(* an administrator makes while tasks run.                                 *)
(*                                                                         *)
(* Beat publishes fan_out_evaluate_strategies, which publishes one         *)
(* evaluate_strategy per active strategy; that task reads the strategy,    *)
(* then the newest candles, records its verdict for the newest one unless  *)
(* a row exists, re-reads the row that won, and for a triggered one        *)
(* records the signal and publishes dispatch_notifications.                *)
(*                                                                         *)
(* A series is a (currency, interval) pair.  Its candles land in order and *)
(* are named by their open times, which are numbered from 1 and shared by  *)
(* the series; what engine.evaluate makes of a config on the history up to *)
(* a candle is the constant Verdict.                                       *)
(***************************************************************************)
EXTENDS TaskQueue, FiniteSets

CONSTANTS
  Workers,      \* worker processes that consume the strategy queue
  Strategies,   \* Strategy rows
  Series,       \* <<currency, interval>> pairs with candles
  MaxTime,      \* bound: open times of candles
  Opens,        \* series -> the open times of its candles
  Configs,      \* Strategy.config values
  Verdict,      \* <<config, series, open time>> -> what engine.evaluate says
  Entries,      \* what an administrator enters: [series, config] records
  MaxCrashes,   \* bound: workers lost while executing a task
  MaxAbandoned, \* bound: tasks ended by an uncaught exception or time limit
  MaxTicks      \* bound: beat ticks

\* InsufficientDataError is recorded as an evaluation that did not trigger.
Verdicts == {"triggered", "quiet", "insufficient"}
OpenTimes == 1 .. MaxTime
Intervals == {x[2] : x \in Series}

ASSUME EvaluationBounds ==
  /\ MaxTime \in Nat
  /\ MaxCrashes \in Nat
  /\ MaxAbandoned \in Nat
  /\ MaxTicks \in Nat
ASSUME SeriesHaveOpenTimes == Opens \in [Series -> SUBSET OpenTimes]
ASSUME ConfigsGiveVerdicts == Verdict \in [Configs \X Series \X OpenTimes -> Verdicts]
ASSUME EntriesAreValid == Entries \subseteq [series : Series, config : Configs]

------------------------------------------------------------------------------
FanOutMessage(i) == [task |-> "fan_out", interval |-> i]
FanOutMessages == [task : {"fan_out"}, interval : Intervals]
EvaluateMessage(s) == [task |-> "evaluate", strategy |-> s]
EvaluateMessages == [task : {"evaluate"}, strategy : Strategies]
Messages == FanOutMessages \cup EvaluateMessages

\* The key of an evaluation has the open time and no interval.
Rows == Strategies \X OpenTimes

EvaluateSteps == {"read_candles", "record", "lookup", "signal", "dispatch"}

VARIABLES
  landed,      \* series -> open time of its newest candle, 0 before the first
  entry,       \* Strategy: currency and interval (its series), config
  enabled,     \* the strategies with is_active
  evaluation,  \* StrategyEvaluation's verdict; "none" where there is no row
  signal,      \* Signal rows, each by the evaluation it belongs to
  dispatched,  \* history: dispatch_notifications.delay calls per signal
  moved,       \* history: strategies whose series was edited
  held,        \* worker -> the strategy object it loaded
  last,        \* worker -> the newest candle it read, 0 for none
  todo,        \* worker -> strategies its fan-out still has to publish
  crashes, abandoned, ticks   \* history: what the bounds count

rows == <<evaluation, signal, dispatched>>
admin == <<entry, enabled, moved>>
locals == <<pc, job, held, last, todo>>
counters == <<crashes, abandoned, ticks>>
vars == <<landed, admin, rows, queue, locals, counters>>

NoEntry == [series |-> "none"]   \* no strategy loaded

Init ==
  /\ landed = [x \in Series |-> 0]
  /\ entry \in [Strategies -> Entries]
  /\ enabled \in SUBSET Strategies
  /\ evaluation = [r \in Rows |-> "none"]
  /\ signal = {}
  /\ dispatched = [r \in Rows |-> 0]
  /\ moved = {}
  /\ EmptyQueue(Messages)
  /\ IdleWorkers(Workers)
  /\ held = [w \in Workers |-> NoEntry]
  /\ last = [w \in Workers |-> 0]
  /\ todo = [w \in Workers |-> {}]
  /\ crashes = 0 /\ abandoned = 0 /\ ticks = 0

------------------------------------------------------------------------------
(* The environment of the workers.                                         *)

\* Beat publishes a fan-out, whether or not a candle landed since the last.
Tick(i) ==
  /\ ticks < MaxTicks
  /\ ticks' = ticks + 1
  /\ Publish(FanOutMessage(i))
  /\ UNCHANGED <<landed, admin, rows, locals, crashes, abandoned>>

\* One ingest_candles stores every candle that closed since the last one.
CandlesLand(x, t) ==
  /\ t \in Opens[x]
  /\ t > landed[x]
  /\ landed' = [landed EXCEPT ![x] = t]
  /\ UNCHANGED <<admin, rows, queue, locals, counters>>

\* The form saves currency, interval and config together.
EditStrategy(s, e) ==
  /\ entry' = [entry EXCEPT ![s] = e]
  /\ moved' = IF e.series = entry[s].series THEN moved ELSE moved \cup {s}
  /\ UNCHANGED <<landed, enabled, rows, queue, locals, counters>>

ToggleStrategy(s) ==
  /\ enabled' = IF s \in enabled THEN enabled \ {s} ELSE enabled \cup {s}
  /\ UNCHANGED <<landed, entry, moved, rows, queue, locals, counters>>

------------------------------------------------------------------------------
(* fan_out_evaluate_strategies                                             *)

FanOutReadsStrategies(w, i) ==
  /\ Begin(w, FanOutMessage(i), "publish")
  /\ todo' = [todo EXCEPT ![w] = {s \in enabled : entry[s].series[2] = i}]
  /\ UNCHANGED <<landed, admin, rows, held, last, counters>>

\* group(...)() publishes its tasks one after another.
FanOutPublishes(w, s) ==
  /\ pc[w] = "publish"
  /\ s \in todo[w]
  /\ Publish(EvaluateMessage(s))
  /\ todo' = [todo EXCEPT ![w] = @ \ {s}]
  /\ UNCHANGED <<landed, admin, rows, pc, job, held, last, counters>>

------------------------------------------------------------------------------
(* evaluate_strategy                                                       *)

Strategy(w) == job[w].strategy

\* Mutant: the row is keyed by the newest candle of now, not by candles[-1].
RowOfNewest(w) == <<Strategy(w), landed[held[w].series]>>

Row(w) == <<Strategy(w), last[w]>>

\* Neither is_active nor the interval is looked at again: a queued evaluation
\* runs, for the series the strategy has by now.
EvaluateReadsStrategy(w, s) ==
  /\ Begin(w, EvaluateMessage(s), "read_candles")
  /\ held' = [held EXCEPT ![w] = entry[s]]
  /\ UNCHANGED <<landed, admin, rows, last, todo, counters>>

\* Without a candle there is nothing to key a row on: the task returns.
NothingIngested(x) == landed[x] = 0

EvaluateReadsCandles(w) ==
  /\ pc[w] = "read_candles"
  /\ last' = [last EXCEPT ![w] = landed[held[w].series]]
  /\ Goto(w, IF NothingIngested(held[w].series) THEN "done" ELSE "record")
  /\ UNCHANGED <<landed, admin, rows, queue, job, held, todo, counters>>

\* engine.evaluate on the loaded strategy and the candles read.
VerdictOf(w) == Verdict[held[w].config, held[w].series, last[w]]

\* Mutant: update_conflicts, the last verdict on a candle stays.
Overwritten(w) == TRUE

NoConflict(w) == evaluation[Row(w)] = "none"

\* bulk_create(ignore_conflicts=True): the first verdict on a candle stays.
EvaluateRecordsVerdict(w) ==
  /\ pc[w] = "record"
  /\ evaluation' = IF NoConflict(w)
                   THEN [evaluation EXCEPT ![Row(w)] = VerdictOf(w)]
                   ELSE evaluation
  /\ Goto(w, "lookup")
  /\ UNCHANGED <<landed, admin, signal, dispatched, queue,
                 job, held, last, todo, counters>>

\* Mutant: the verdict computed here counts, not the row's.
Trusted(w) == VerdictOf(w)

\* What counts from here on is the row, whoever wrote it.
Recorded(w) == evaluation[Row(w)]

\* Mutant: the dispatch is published before the signal is created.
DispatchFirst == "dispatch"

AfterTrigger == "signal"

EvaluateLooksUpRow(w) ==
  /\ pc[w] = "lookup"
  /\ Goto(w, IF Recorded(w) = "triggered" THEN AfterTrigger ELSE "done")
  /\ UNCHANGED <<landed, admin, rows, queue, job, held, last, todo, counters>>

\* Mutant: on_commit only where the row was created.
NewOnly(w) == Row(w) \notin signal

\* Dispatch is scheduled for a new signal and for an old one alike.
Schedules(w) == pc[w] = "signal"

\* record_signal: create the row, or get the one that is there.
RecordSignal(w) ==
  /\ pc[w] = "signal"
  /\ signal' = signal \cup {Row(w)}
  /\ Goto(w, IF Schedules(w) THEN "dispatch" ELSE "done")
  /\ UNCHANGED <<landed, admin, evaluation, dispatched, queue,
                 job, held, last, todo, counters>>

\* transaction.on_commit: no transaction is open any more, so the callback
\* runs here.
PublishDispatch(w) ==
  /\ pc[w] = "dispatch"
  /\ dispatched' = [dispatched EXCEPT ![Row(w)] = @ + 1]
  /\ Goto(w, "done")
  /\ UNCHANGED <<landed, admin, evaluation, signal, queue,
                 job, held, last, todo, counters>>

------------------------------------------------------------------------------
(* How a task ends.                                                        *)

Forget(w) ==
  /\ Release(w)
  /\ held' = [held EXCEPT ![w] = NoEntry]
  /\ last' = [last EXCEPT ![w] = 0]
  /\ todo' = [todo EXCEPT ![w] = {}]

Acknowledge(w) ==
  /\ \/ pc[w] = "done"
     \/ pc[w] = "publish" /\ todo[w] = {}
  /\ Forget(w)
  /\ UNCHANGED <<landed, admin, rows, queue, counters>>

WorkerLost(w) ==
  /\ pc[w] # "idle"
  /\ crashes < MaxCrashes
  /\ crashes' = crashes + 1
  /\ GiveBack(w)
  /\ Forget(w)
  /\ UNCHANGED <<landed, admin, rows, abandoned, ticks>>

\* An uncaught exception, or the time limit: acknowledged all the same.
TaskRaises(w) ==
  /\ pc[w] # "idle"
  /\ abandoned < MaxAbandoned
  /\ abandoned' = abandoned + 1
  /\ Forget(w)
  /\ UNCHANGED <<landed, admin, rows, queue, crashes, ticks>>

------------------------------------------------------------------------------
\* Every step of a worker but the publish that starts the notifications.
EvaluationWork(w) ==
  \/ \E i \in Intervals : FanOutReadsStrategies(w, i)
  \/ \E s \in Strategies : FanOutPublishes(w, s) \/ EvaluateReadsStrategy(w, s)
  \/ EvaluateReadsCandles(w)
  \/ EvaluateRecordsVerdict(w)
  \/ EvaluateLooksUpRow(w)
  \/ RecordSignal(w)
  \/ Acknowledge(w)

Work(w) == EvaluationWork(w) \/ PublishDispatch(w)

Environment ==
  \/ \E i \in Intervals : Tick(i)
  \/ \E x \in Series, t \in OpenTimes : CandlesLand(x, t)
  \/ \E s \in Strategies, e \in Entries : EditStrategy(s, e)
  \/ \E s \in Strategies : ToggleStrategy(s)

Faults == \E w \in Workers : WorkerLost(w) \/ TaskRaises(w)

Next == Environment \/ Faults \/ \E w \in Workers : Work(w)

Spec == Init /\ [][Next]_vars

\* A running worker finishes its task and takes another while messages wait.
FairSpec == Spec /\ \A w \in Workers : WF_vars(Work(w))

------------------------------------------------------------------------------
(* Properties.                                                             *)

\* Types; a worker is busy exactly when it holds a message, its step belongs
\* to the message's task, and it names a candle that has landed.
TypeOK ==
  /\ landed \in [Series -> OpenTimes \cup {0}]
  /\ entry \in [Strategies -> Entries]
  /\ moved \in SUBSET Strategies
  /\ enabled \in SUBSET Strategies
  /\ evaluation \in [Rows -> Verdicts \cup {"none"}]
  /\ signal \in SUBSET Rows
  /\ dispatched \in [Rows -> Nat]
  /\ queue \in [Messages -> Nat]
  /\ pc \in [Workers -> {"idle", "done", "publish"} \cup EvaluateSteps]
  /\ job \in [Workers -> Messages \cup {NoJob}]
  /\ held \in [Workers -> Entries \cup {NoEntry}]
  /\ last \in [Workers -> OpenTimes \cup {0}]
  /\ todo \in [Workers -> SUBSET Strategies]
  /\ crashes \in Nat /\ abandoned \in Nat /\ ticks \in Nat
  /\ \A w \in Workers :
       /\ pc[w] = "idle" => job[w] = NoJob
       /\ pc[w] = "publish" => job[w] \in FanOutMessages
       /\ pc[w] \in EvaluateSteps => job[w] \in EvaluateMessages
       /\ pc[w] = "done" => job[w] \in EvaluateMessages
       /\ pc[w] \in EvaluateSteps => held[w] \in Entries
       /\ pc[w] \in EvaluateSteps \ {"read_candles"}
            => last[w] \in 1 .. landed[held[w].series]

\* A signal exists only for an evaluation recorded as triggered, also when
\* two workers with different configs race for the row, or a retried task
\* meets an edited strategy (strategy/tasks.py:79-88).
SignalMatchesRecord ==
  \A r \in signal : evaluation[r] = "triggered"

\* Somebody will still come to the dispatch of row r: a worker has it on its
\* way, or reads the candles next and finds r's candle the newest.
DispatchIsOwed(r) ==
  \/ Waiting(EvaluateMessage(r[1])) /\ r[2] = landed[entry[r[1]].series]
  \/ \E w \in Workers :
       /\ pc[w] \in EvaluateSteps
       /\ job[w].strategy = r[1]
       /\ IF pc[w] = "read_candles"
          THEN r[2] = landed[held[w].series] ELSE r[2] = last[w]

\* As long as no newer candle landed, the strategy keeps its series, and no
\* task ended in an uncaught exception, a crash at any step leaves a triggered
\* evaluation's dispatch to the redelivered message (signals/services.py:27-29).
TriggeredIsOwedWhileNewest ==
  abandoned = 0 =>
    \A r \in Rows :
      /\ evaluation[r] = "triggered" /\ dispatched[r] = 0
      /\ r[1] \notin moved /\ r[2] = landed[entry[r[1]].series]
      => DispatchIsOwed(r)

\* The same for every triggered evaluation, newest or not: what docs/adr/0009
\* says of dispatching unconditionally.
TriggeredIsOwed ==
  abandoned = 0 =>
    \A r \in Rows :
      (evaluation[r] = "triggered" /\ dispatched[r] = 0) => DispatchIsOwed(r)

\* A fan-out gets every strategy that stays active, and on its series,
\* evaluated on the newest candle of the moment, or on a newer one, unless a
\* task ends in an uncaught exception (strategy/tasks.py:38-78).
FanOutEvaluates ==
  \A s \in Strategies, x \in Series, t \in OpenTimes :
    [](/\ Waiting(FanOutMessage(x[2])) /\ landed[x] >= t
       /\ [](s \in enabled /\ entry[s].series = x)
       => <>(\/ \E u \in t .. MaxTime : evaluation[<<s, u>>] # "none"
             \/ abandoned > 0))

\* A newer candle of the strategy's series than r's landed, or the series is
\* another one by now.
Overtaken(r) == r[1] \in moved \/ landed[entry[r[1]].series] > r[2]

\* A triggered evaluation is dispatched, unless a newer candle lands first, its
\* strategy is moved to another series or a task ends in an uncaught exception
\* (strategy/tasks.py:82-88).
TriggeredIsDispatched ==
  \A r \in Rows :
    evaluation[r] = "triggered"
      ~> (dispatched[r] > 0 \/ Overtaken(r) \/ abandoned > 0)

------------------------------------------------------------------------------
(* What the component promises, and how its state shows it.                *)

Contract == INSTANCE EvaluationContract WITH
  series <- [s \in Strategies |->
               IF s \in moved THEN Series ELSE {entry[s].series}],
  verdict <- evaluation,
  signals <- signal,
  dispatches <- dispatched

\* However workers race, crash and are redelivered beside edits, evaluation
\* keeps EvaluationContract: a candle's verdict is "a historical fact, never
\* edited after the fact" (strategy/models.py:62-63), of a candle that landed in
\* a series the strategy may have; a signal follows a triggered verdict, and a
\* dispatch its signal (strategy/tasks.py:45-88, signals/services.py:21-38).
KeepsEvaluationContract == Contract!Spec
==============================================================================
