# CryptoVira in TLA+

A verification project for CryptoVira: TLA+ modules translated from the code,
configurations that model-check them with TLC, and theorems that TLAPS checks.
Paths below are relative to the repository's package, `src/cryptovira/`
(`celery.py`, `apps/...`), or to its `docs/`.

- [1. The system](#1-the-system)
- [2. The modules and the code](#2-the-modules-and-the-code)
- [3. What is checked](#3-what-is-checked)
- [4. What is proved](#4-what-is-proved)
- [5. Where code and documents part](#5-where-code-and-documents-part)
- [6. What is not modelled](#6-what-is-not-modelled)
- [7. The plan](#7-the-plan)

## 1. The system

CryptoVira polls an exchange for candles, evaluates user-defined strategies on
them, turns triggered evaluations into signals, and notifies recipients over
Telegram or a webhook; it also replays strategies over stored history
(backtests) and has a small accounts API. It is a Django project with Celery
workers: beat publishes fan-outs on a schedule, tasks travel through RabbitMQ,
one queue per app, and all shared state is in PostgreSQL. Tasks are acknowledged
late and given back when a worker is lost (`celery.py:32-36`), so every task may
run more than once and beside itself.

| Component | State | Operations | Talks to | Correct when |
|---|---|---|---|---|
| Queues and workers (`celery.py:32-54`) | messages; what each worker executes | publish, take, acknowledge, give back | every task | a message is gone only when its task has ended |
| Beat schedule (`celery.py:55-144`) | the clock, the pool of processes | publish an ingest and an evaluate fan-out per interval | queues `market`, `strategy` | each bar is polled after it closed, stored in time, and evaluated |
| Candle ingestion (`apps/market/tasks.py`) | `Candle` rows | fan out, poll, filter closed bars, store | exchange, database | only closed bars, without holes, written once |
| Strategy evaluation (`apps/strategy/tasks.py`) | `StrategyEvaluation` rows | fan out, evaluate, record once | engine, `record_signal` | one verdict per candle; what follows obeys the recorded one |
| Strategy engine (`apps/strategy/engine.py`, `operators.py`, `indicators.py`) | none | evaluate a config on closes | TA-Lib | the conjunction of its conditions; edges fire once per transition |
| Signals (`apps/signals/services.py`) | `Signal` rows | create or get, dispatch on commit, build a message | queue `notifications` | one signal per triggered evaluation, dispatched; messages that say what triggered |
| Notification dispatch (`apps/signals/tasks.py`) | `NotificationDelivery` rows | create rows, publish sends, call, save, retry | channels, database | at-least-once, with an honest record |
| Channels (`apps/signals/channels/`) | none | send | Telegram, webhooks | a failed call is a `ChannelDeliveryError` |
| Backtesting (`apps/backtesting/tasks.py`) | `Backtest` row | read candles, replay, save progress and results | engine, database | the result live evaluation would have had; the row ends |
| Registration (`apps/accounts/api/`) | `User.email` | validate, insert, issue a token | database | one account per mailbox, honest answers |
| Sessions (`apps/accounts/api/views.py`, `SIMPLE_JWT`) | refresh tokens, the blacklist, `User.is_active` | login, rotate, log out, update the profile | simplejwt, database | a token is exchanged once; a logout ends its session; a deactivated account stays shut |
| Admin site (`apps/*/admin.py`) | - | edits, "Retry now", "Run backtest", change forms | every row | edits are safe beside running tasks |
| Throttling, health, configuration, logging | counters, none | - | libraries | not modelled, see section 6 |

What makes it hard: several workers on one row with reads that are stale by the
time they are written back; crashes between any two statements, with redelivery;
external calls that deliver and look failed; messages overtaking each other
across queues; several queries assembling one answer while rows land; whole
rows saved from old copies (change forms, the profile); and schedules that meet
only through the clock and one shared pool. `PROJECT.json` lists each such
hazard at its line, with the properties that would notice it going wrong.

## 2. The modules and the code

| Module | Models | State | Actions |
|---|---|---|---|
| `TaskQueue` | one Celery queue and its workers | `queue`: a bag of messages; `pc`, `job` per worker | operators `Publish`, `Take`, `Begin`, `Goto`, `Release` for the others to use |
| `NotificationDelivery` | `signals/tasks.py`, the rows of `signals/models.py`, "Retry now" | `status`, `attempts` (columns), `active` recipients, `seen`/`batch` (locals), `accepted`/`refused`/`unconfirmed` (what really happened at the channel) | `Dispatch*`: the two queries, the insert, the publishes; `Send*`, `Channel*`, `Save*`, `PublishRetry`; `Acknowledge`, `WorkerLost`, `TaskRaises` |
| `DeliveryContract` | what dispatch promises, without queues or workers | `status`, `received`, `errors` | `Create`, `Delivered`, `Refused`, `DeliveredUnconfirmed`, `RecordSent`, `RecordFailed` |
| `EvaluateStrategy` | `strategy/tasks.py`, `record_signal`, the admin's edits | `landed` candles per series, `entry` (series and config as entered), `enabled`, `evaluation`, `signal`, `dispatched`, `moved` (history), locals | `FanOut*`; `EvaluateReadsStrategy`, `EvaluateReadsCandles`, `EvaluateRecordsVerdict`, `EvaluateLooksUpRow`, `RecordSignal`, `PublishDispatch` |
| `EvaluationContract` | what evaluation promises, without tasks or workers | `series` a strategy may look at, `landed`, `verdict`, `signals`, `dispatches` | `Land`, `Move`, `Record`, `Signal`, `Dispatch` |
| `Pipeline` | evaluation and notification over one database | both modules', by `INSTANCE`, and the `message` a sender built | both modules', the on-commit publish joined to the arrival of the message; `SendBuildsMessage`, `LookupFails` |
| `CandleIngestion` | `market/tasks.py`, `get_klines` | `now`, `stored` (the last instant whose trades a row includes), `asked`/`checked` (locals) | `FanOut*`; `IngestGetsKlines`, `IngestReadsClock`, `IngestStoresClosed` |
| `Backtest` | `backtesting/tasks.py`, "Run backtest", the change form, the row | `status`, `progress`, `error`, `result`, `setting`, `run` (locals), `form` (a row as a change form loaded it) | `ReadsBacktest`, `QueryWarmup`, `QueryRange`, `QueryTail`, `SaveRunning`, `ReplayCandle`, `SaveCompleted`, `SaveFailed`; `FormLoads`, `FormSaves` |
| `BeatSchedule` | the schedule, and the pool that runs what it publishes | `minute`, the ages of published fan-outs, `backtest` (process -> age of what it runs), `missing` and `unevaluated` bars | `MinutePasses`, `RunIngest`, `RunEvaluate`, `BacktestBegins`, `BacktestEnds` |
| `Registration` | `POST register` | `registered`, `addedUsers`, one request per server | `UniqueValidator`, `ValidateEmail`, `ValidatePassword`, `Insert`, `IssuesToken`, `ServerLost`, `AdminAdds` |
| `Sessions` | login, refresh with rotation, logout, `PATCH /me/`, deactivation | `tokens`, `blacklisted`, `told` (tokens the client has), `active`, one request per server | `LoginAuthenticates`; `RefreshVerifies`, `RefreshChecksUser`, `RefreshBlacklists`, `IssuesToken`, `Responds`; `Logout*`; `ProfileLoads`, `ProfileSaves`; `ToggleUser`, `ServerLost` |
| `StrategyEngine` | `engine.evaluate` and the operators, candle after candle | each indicator's last two points, the outcome | `CandleCloses`, `EvaluateCondition` |

`<Module>Proofs` holds the theorems of a module: `NotificationDeliveryProofs`
(with `DeliveryContract`), `EvaluateStrategyProofs` (with
`EvaluationContract`), `PipelineProofs`,
`MarketProofs` (of `CandleIngestion` and of `BeatSchedule`, whose names are
prefixed for that), `BacktestProofs`, `RegistrationProofs`, `SessionsProofs`,
`StrategyEngineProofs`. `MC<Module>` gives the constants of
the runs.

Conventions. One action is one atomic effect on shared state: a query, a write,
a publish, an external call. Between two of them a worker holds only its locals,
and any other worker, an edit, or a crash may come in. `job` is the message a
worker executes; a lost worker's message returns to `queue` (`WorkerLost`), one
whose task ended in an uncaught exception or at its time limit is acknowledged
(`TaskRaises`: `task_acks_on_failure_or_timeout` keeps its default). Requests
have no such queue: a lost server's request is gone (`ServerLost`), and in
`Sessions` the same action loses the response of one that was served. Variables
marked *history* record what happened and no action reads them, except to keep
within a bound; bounds are the `Max...` constants. Definitions whose comment
starts with `Mutant:` belong to no specification: they are slips of the kind the
properties exist to notice, written beside the definition they replace.

Abstractions. Config values are the verdicts they give per series and candle
(`EvaluateStrategy`) or per window (`Backtest`); the engine has its own module.
Prices are small integers, a bar's prices are the instant they were taken at,
returns keep their sign. Both channels turn every `httpx.HTTPError` into
`ChannelDeliveryError`, so one abstract channel with three outcomes (accepted,
failed, delivered but failed for the caller) stands for both; what else a call
may raise (`httpx.InvalidURL` is no `HTTPError`) ends the task uncaught and is
in `TaskRaises`. Countdown delays
and queue order are any order: a queue is a bag. A series is a
(currency, interval) pair and its candles share their numbering with those of
other series, because the unique key of evaluations has an open time and no
interval (`strategy/models.py:74`). A token is its session, its predecessor and
its expiry; signatures and the tokens' contents are simplejwt's.

## 3. What is checked

A passing run explores its instance completely. The bounds are chosen so that
the events that interact can all happen in one behaviour.

| Run | Instance | Question |
|---|---|---|
| `delivery_faults` | 2 workers, 1 signal, 1 recipient, 2 dispatches, 1 retry, 1 click, 1 crash, 1 uncaught exception; symmetry of the workers | Is the record honest, does no crash lose a delivery, is SENT final and every duplicate and uncounted attempt explained where one worker at a time had the row, and is the contract kept, whatever overlaps? |
| `evaluate_faults` | 2 workers, 1 strategy on 1 series, 2 candles, 2 ticks, 2 configs that disagree, 1 crash, 1 exception, fairness | Is the contract kept (one verdict per candle for good, signals that follow the row that won the race), is every triggered evaluation owed and dispatched, and does a fan-out get its strategy evaluated? |
| `pipeline_end_to_end` | 1 evaluator, 1 sender, 1 recipient, 2 series sharing an open time, an edit between them, 1 tick, 2 dispatches, 1 crash, fairness | Does a message go back to a triggered evaluation, name a candle that triggered, and reach its recipient? |
| `ingest_faults` | 2 workers, 1 symbol, 2 ticks, a response of 3 bars of 2 instants, 4 instants, 1 crash, 1 failed poll, fairness | Are only closed bars stored and stored once, does one good poll repair what failed ones missed, and does a fan-out get the closed bars stored? |
| `backtest_runs` | 2 workers, 8 candles of which 6 are there at the start, 2 progress saves (100 in the code), 2 clicks, 1 change form, 1 crash or exception, a long, a short and an inverted range; symmetry | Is a stored result right, and does the row end, when two runs of it interleave, and how often does a replay save its progress? |
| `beat_week` | all 8 tiers over their cycles, tasks done within 2 minutes of a free process, 2 processes, 2 backtests of at most 5 minutes; symmetry | Does the schedule's arithmetic hold at every hour, day and week, and how far can backtests delay a bar? |
| `register_races` | 2 servers, 2 mailboxes in 4 spellings, 3 requests, 1 user added, 1 crash; symmetry | What do concurrent registrations guarantee, and what only serial ones? |
| `sessions` | 2 servers, 3 refresh tokens of one account, lifetimes of 1 and 2 instants, 1 lost response or (de)activation; symmetry | What is left of a session when refreshes, logouts, profile updates and a deactivation overlap? |
| `engine_walk` | all operators, alone and in pairs, warm-ups of 1 and 3, a window of 3, three values | Is the outcome the first failure's, and does an edge fire exactly on a transition? |
| `delivery_sent_overwritten`, `evaluate_dispatch_lost`, `ingest_truncated` | the least instance that shows it | Three statements of the documents that the code does not keep: section 5 |

Why the bounds are enough. The delivery properties speak of one
(signal, recipient); deliveries share no state but the recipients' switches, and
two workers with four messages for one row give every overlap of two stale
reads. Evaluations of different strategies share nothing, and of one strategy
only the newest candle matters: two candles give "newest" and "no longer
newest", two ticks and a redelivery three evaluations of one candle. In
`pipeline_end_to_end` the first open time exists in both series and the second
in one, so a moved strategy finds another series' candle or none. In
`ingest_faults` the response holds three bars, of which two have closed by the
last instant: a poll can miss one and a later one find both; a response that is
too short for what was missed appears in `ingest_truncated` (two bars). In
`backtest_runs` the ranges 3..7 and 5..7 of eight candles have two or more
candles before them for a warm-up of two, and a tail of one; the last candle of
the range and the tail land while runs are under way; and there is a candle that
does not trigger, a trigger that wins and ones that lose. A run finds 2 to 5
candles in its range: with two progress saves these are the strides of one and
of two, both with and without candles left over, and the counts of 3 and 5 use
up what `ProgressWritesAreCapped` allows; every other number of candles is the
theorem's. In `sessions` three tokens give a login, a rotation of it and either
a second rotation or a second session. `beat_week` is the schedule's full
period. Three values give below, at and above an operator's value, which is all
the operators tell apart. For the safety properties of every module the proofs of section 4
lift all of this to any instance that satisfies the modules' assumptions.

Many properties hold on a condition, because the code does not do more. Each
condition is a history variable that records one named event, and section 5
says what happens under it:

| Condition | Event |
|---|---|
| `overlapped` (deliveries) | two workers held one delivery between its load and its save |
| `overlapped` (requests) | two registrations ran at once; two requests had verified one refresh token |
| `moved` | a strategy was given another series |
| `undone` | a change form was saved over what a run wrote since it was loaded |
| `exposed` | a profile update had loaded the account before it was deactivated |
| `starved` | backtests kept every process of the worker longer than a task may wait |
| `abandoned` | a task ended in an uncaught exception or at its time limit |
| drifting conditions (`Stable`) | the indicator recomputes its earlier points |

Each property of a passing run has a mutated definition in `PROJECT.json` under
which that run finds it violated.

Fairness. `FairSpec` has weak fairness of each worker's own steps
(`WF_vars(Work(w))`): a worker that is started finishes its task and takes
another message while one waits, which is what Celery's consumer loop does. The
external calls have timeouts, so a call returns. Nothing is assumed of beat, of
administrators, of candles, or of faults. The number of crashes is bounded, so
"keeps crashing for ever" is excluded: under it nothing could be promised.
Weak fairness does not choose between messages, so liveness is about
finitely many messages, which the bounds on ticks, dispatches and clicks give.
`FanOutEvaluates`, `FanOutStoresClosed` and `SignalReachesRecipients` speak of
a behaviour in which the strategy, symbol or recipient stays active from some
point on: an administrator who switches it off may prevent what they promise.

Deadlock is checked where something can always happen: a switch toggled, a
setting edited, the clock moved. `backtest_runs`, `register_races` and
`sessions` switch the check off, because there the program may really be at
rest: after the last click, request or token of the bound nobody has to come.
That nothing is left over in such a state is what `QuietMeansEnded` says.

## 4. What is proved

For every value of the constants that satisfies the modules' assumptions (bounds
are natural numbers, tables have the domains they are read at, `Servers` is
finite, a worker has a process, a window has at least two closes, a config at
least one condition):

| Module | Theorems | Properties of the runs they state |
|---|---|---|
| `NotificationDeliveryProofs` | `DeliveryTypeCorrect`, `RecordsAreHonest`, `FailuresAreHonest`, `AttemptsAreHonest`, `NothingLostByCrashes`, `DeliveryKeepsContract`, `SentIsKept`, `DuplicatesAreExplained`, `MissedAttemptsAreExplained` | all nine of `delivery_faults`, the refinement of `DeliveryContract` included |
| `EvaluateStrategyProofs` | `EvaluationTypeCorrect`, `SignalsAreFounded`, `TriggersAreOwed`, `EvaluationKeepsContract` | `TriggeredIsOwedWhileNewest` and the refinement of `EvaluationContract` |
| `PipelineProofs` | `NotificationsAreFounded`, `DispatchesFindTheirSignals`, `MessagesTellTheTruth` | the three invariants of `pipeline_end_to_end` |
| `MarketProofs` | `IngestionTypeCorrect`, `StoredCandlesAreFinal`, `GoodPollsRepair`; `BeatTypeCorrect`, `BarsAreStoredInTime`, `BarsAreEvaluated` | the three invariants of `ingest_faults` and the three of `beat_week` |
| `BacktestProofs` | `BacktestTypeCorrect`, `RowsEnd`, `ResultsAreRight`, `ProgressSavesAreCapped` | all four of `backtest_runs` |
| `RegistrationProofs` | `RegistrationTypeCorrect`, `AccountsAreHandedOutOnce`, `RefusalsAreHonest`, `MailboxesRegisterOnce`, `UntoldAccountsAreExplained` | all four of `register_races` |
| `SessionsProofs` | `SessionsTypeCorrect`, `DeactivationLocksOut`, `TokensAreExchangedOnce`, `LogoutsEndSessions`, `SpendingIsAnswered`, `RefusalsMeanEnded` | all five of `sessions` |
| `StrategyEngineProofs` | `EngineTypeCorrect`, `OutcomeIsTheFirstFailure`, `EdgesFireOnce`, `EdgesSeeTransitions` | all three of `engine_walk` |

None of the properties is inductive as it stands. What has to be added, and why:

*Deliveries.* A state in which a worker is about to save SENT without an accepted
call satisfies every property. `HistoryInv` adds what a message and a worker
stand for: `RetriesAreEarned` (a message with *n* retries follows *n* failed
calls for an existing row) and `SavesAreBacked` (behind "about to save SENT" is
an accepted call, behind every save one call more than the attempts the worker
loaded). Calls are only ever added, so both survive what other workers do.
`NothingLostByCrashes` goes through the actions: a worker that lets go of a row
has settled it, published a message, or given its message back; it needs that a
dispatch's batch belongs to its signal. `DeliveryKeepsContract` maps `received`
to accepted plus unconfirmed calls and `errors` to refused plus unconfirmed
ones; `HistoryInv` gives the contract's guards. `AloneInv` carries the three
properties of deliveries nobody overlapped: a worker in the middle of a send has
the row to itself, the row is not SENT and still holds the attempts loaded.

*Evaluation.* `SignalInv`: a worker on its way to a signal comes from a
triggered row. `SeriesInv`: a strategy that was not moved has the same series
in every worker that loaded it, so no row is of a candle still to come, and a
redelivered message finds the same newest candle. `EvaluationKeepsContract`
maps a strategy to the one series it has, or to every series once it was moved;
that a row's verdict is of a candle its strategy may look at takes `SeriesInv`
and `TruthInv` (a worker is at a candle of the series it loaded), and that no
signal or dispatch comes too early `SignalInv`.

*The pipeline.* `Pipeline` instantiates its two components, and
`PipelineProofs` instantiates their proof modules the same way: a step of
`Pipeline` is a step of `EvaluateStrategy` or of `NotificationDelivery` beside
which the other's variables rest, or the joint publish. `FoundedInv` follows
the committed signal through everything that may carry it: a waiting message, a
worker's job, its batch, a row. `MessagesTellTheTruth` adds `TruthInv` (a
triggered row is of a candle and a config the strategy may have had) and
`MessageInv` (the message names the series of the strategy, until it is moved).

*Ingestion.* `CandlesAreFinal` needs that a worker compares bars with an instant
that has come (part of `TypeOK`); `HoleInv` extends `GoodPollLeavesNoHole` to
polls that have stored their bars and are not acknowledged yet.

*The schedule.* The crontabs are reduced once, by arithmetic over the eight
tiers, to the phase of a minute in its bar (`DueOnceABar`): an ingest is due
`Offset` minutes after every bar closed and an evaluation `EvaluateOffset`
minutes after. `WaitInv` bounds the oldest task by what one process may owe to
backtests: a task older than the latency has seen every process busy, so each of
them has spent the difference on backtests that were begun. It is summed up for
one process (`Patience`), which is why the bound does not grow with the pool.
`LandInv`: a bar that is overdue has an ingest of just that age waiting, which
will store it. `EvaluateInv` says where in the bar every fan-out from 30m up
was published, so that at most one bar is on its way. `BarsAreEvaluated` assumes
a latency below three minutes, the distance of the two offsets (`celery.py:75-99`
and `119-143`): with three, an evaluation may run before the ingest of its bar,
and TLC finds the skipped bar.

*Backtests.* `EndInv`: while nothing undid it, a row that was asked for is
waited for, worked on by somebody who is not done, or ended. `ResultsAreRight`
is about arithmetic: the three queries return runs of consecutive candles
(`WarmupQuery`, `RangeQuery`, `TailQuery`) that meet (`RangeSeries`,
`TailSeries`), so that for each candle of the range the replay looks at the
window live evaluation reads and at the candle its horizon ends at
(`ReplaySeesCandle`); each step then counts what the reference counts, one
candle further (`CountsOneMore`). `ReplayInv` says so of every worker, step by
step, and keeps it for the stored result and for a result that a change form
holds: under the condition that the queries saw one database or all the setting
looks at. `SavesInv`: the candles after which a run saved its progress (`saves`,
a history) are those of the ones it has replayed that were due. `SavesAreCapped`
counts the due ones for every number of candles: they are the multiples of the
stride and the last candle, `ProgressSaves` strides fit and then as many as the
remainder, at most `ProgressSaves - 1` candles, has room for (`StridesAreFew`).
`ProgressSavesAreCapped` puts the two together.

*Registration.* `HandedInv`: from its insert on, one server or one answer holds
an address. `AloneInv`: while no requests overlapped, nobody registers a mailbox
between a request's check and its insert. `UntoldInv` counts rows against
crashes and needs finiteness.

*Sessions.* `LockedInv`: while the deactivation stands, no profile update that
had loaded the account is in flight. `ExchangeInv`: of the requests that
verified a token there is one, unless they overlapped, and what is exchanged was
blacklisted before. `EndInv`: of a session without overlaps one thing at most
can go on, a token that is not blacklisted or a request that prolongs it; after
a logout nothing can. `SpentInv` pairs the tokens that were spent and not
answered for with the requests that spent them: each request owes one, and one
that is owed by nobody was paid for by a lost response or server. `RefusedInv`:
a spent token whose successor the client was not told of leaves its session
`Stuck`, so that only the request that spent it can still prolong it; a token
that was refused stays refused.

*The engine.* `OutcomeInv`: the conditions `evaluate` has passed hold.
`EdgeInv`: without drift the point before the last is what the last was a
candle ago, and an indicator that had enough closes keeps having them.

Every invariant and every action property of the passing runs is stated by one
of these theorems. Only model-checked is liveness (`FanOutEvaluates`,
`TriggeredIsDispatched`, `FanOutStoresClosed`, `SignalReachesRecipients`), since
fairness and `ENABLED` are out of the prover's reach here. Statements over data
of any size that need induction with an operator parameter are not attempted. No
module declares a RECURSIVE operator.

## 5. Where code and documents part

Three have a run that ends in the counterexample.

- **SENT is overwritten** (`delivery_sent_overwritten`, `signals/tasks.py:92`).
  "Retry now" during a pending retry puts two workers on one row. Both read
  PENDING; one is accepted and saves SENT, the other's call fails for the last
  time and it saves FAILED from its stale object. The comment at
  `signals/tasks.py:78-79` calls the check at the top "the guard that makes
  recording a send idempotent".
- **A dispatch is lost** (`evaluate_dispatch_lost`, `strategy/tasks.py:48`). A
  redelivered `evaluate_strategy` reads the newest candle again. If one has
  landed since, the triggered evaluation of the first run is never dispatched;
  ADR 0009 (lines 48-53) explains the unconditional `on_commit` by just that
  redelivery.
- **A truncated bar is stored** (`ingest_truncated`, `market/tasks.py:39`). The
  clock is read after the response. A bar that was forming when the exchange
  answered and closed before the clock was read passes the filter and keeps the
  values it had, against `market/tasks.py:36-38`.

Others were met while translating; the properties are worded to hold beside
them.

- `signals/channels/telegram.py:60-63` says of a failed request "either way, the
  send didn't happen"; a read timeout may follow a delivery
  (`ChannelDeliversUnconfirmed`), and the retry sends again.
- ADR 0009 (lines 84-86) says a worker killed at `task_time_limit` is redelivered
  for ever; its message is acknowledged, and a PENDING row is owed to nobody
  (`TaskRaises`). The same leaves a Backtest RUNNING (`backtesting/tasks.py:88`,
  against its lines 21-22).
- `docs/interview/05-concurrency-and-correctness.md:207-208` asks for a crash to
  send a message twice; two evaluations of one candle, or two dispatches, are
  enough (`signals/tasks.py:58`).
- `backtesting/tasks.py:15-17` says a redelivered run gives the same answer, and
  lines 7-9 that it replays what live evaluation saw; candles that land between
  two runs, or between two of its queries, change it (`ResultIsReference` asks
  for queries that saw one database).
- `backtesting/tasks.py:100-102` and `docs/roadmap.md:151-152` put the progress
  saves of a replay at about a hundred "regardless of range size", not one per
  candle. The stride is rounded down: a range of 100 to 199 candles is saved
  after every one of them, up to 199 times, one of 200 to 299 up to 150 times,
  and only from 1000 candles on is it 110 at most. `MostSaves` is what the code
  keeps.
- The change form of a Backtest (`backtesting/admin.py:38`) saves the read-only
  columns as they were loaded: a form opened before a run ended and saved after
  it puts the row back, with nothing queued to run it again (`undone`).
- `build_message_context` (`signals/services.py:44`) looks the candle up by the
  strategy's series of now: after an edit the message names another series'
  candle, or the lookup raises and the delivery stays PENDING (`moved`).
- The unique key of evaluations has no interval (`strategy/models.py:74`): after
  an edit of the interval a candle of the new series may find the old one's row,
  and is not evaluated.
- One worker consumes all queues (`docker/entrypoint.sh:24-28`); the prefetch of
  one keeps a slow task from hoarding messages, as `celery.py:34` says, and not
  from holding the processes: backtests that keep all of them let bars go
  unevaluated for good (`starved`).
- A refused logout is answered as done, since "the caller's desired end state
  (no valid session) is already true" (`accounts/api/views.py:83-87`); it is
  not, for a client that presents a token it has exchanged
  (`RefusedLogoutMeansEnded` asks for the newest one).
- `PATCH /me/` saves every column of the user it authenticated
  (`accounts/api/views.py:103`): beside a deactivation it makes the account
  active again (`exposed`).
- `strategy/tasks.py:3-5` and `celery.py:57-58` say evaluation is timed after
  ingest, and ingest past the boundary; on the 1m, 5m and 15m tiers both are due
  on the boundary (`celery.py:100-103` concedes the first).
- `accounts/api/serializers.py:51-52` says the constraint prevents duplicates
  under concurrent requests; `unique=True` compares spellings, and `Ann@` and
  `ann@` can both be inserted.
- ADR 0008 (line 56) says an edge fires once; with a full window of closes EMA,
  RSI and MACD recompute the point before the last, and an edge may fire on two
  candles running (`StrategyEngine!PreviousPoints`).
- `strategy/engine.py:26` says any condition without a usable value raises;
  `all()` stops before it when an earlier one does not hold. ADR 0008 (lines
  75-76) says nothing else is raised; TA-Lib refuses some integers that
  `schema.py:35` takes.

## 6. What is not modelled

- Throttling: two scope names on REST framework's throttle; the counting is the
  library's. Token verification and `GET /me/` change nothing.
- Health probes are stateless; configuration is read once; logging, routes,
  entry points and migrations have no behaviour over time. Of deployment, the
  one worker for all queues is in `BeatSchedule`; process supervision is not.
- Of message rendering, which candle and series a message names is in
  `Pipeline`; the template's text is left out.
- TA-Lib's numbers, decimals, the HTTP clients and their payloads.
- An administrator's edit of an account's email address: it would take an
  address out of the registered ones, and bring another in past the
  registration endpoint, as the user added by hand in `Registration` already
  does.
- `Pipeline` loads the delivery with its signal and builds the message in one
  step; the lookups of the strategy and the candle in between are not taken
  apart.
- Deleting rows. It removes the state the properties speak of; cascades are
  PostgreSQL's.
- Beat's own failures: a missed tick, a second beat process.
- `total_forward_return` and `win_rate` (floating point).
- A module's workers consume its own queue only; that they share processes is
  in `BeatSchedule`, since sharing delays tasks and never reorders the steps of
  one.

## 7. The plan

Done: `TaskQueue`; `NotificationDelivery` with `DeliveryContract`;
`EvaluateStrategy` with edits of the series; `Pipeline`, which composes the two
and builds the messages; `CandleIngestion`; `Backtest` with its change form;
`BeatSchedule` with the shared pool; `Registration`; `Sessions`;
`StrategyEngine`; and the proofs of every module.

Left, as far as the code allows:

1. `Pipeline` extended upstream to `CandleIngestion`, so that the candles that
   land in it are polled ones.
2. An abstract specification of the pipeline as a whole, from a candle that
   lands to a message that is received, of which the contracts of its two
   components are the parts.
