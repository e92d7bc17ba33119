------------------------------- MODULE Backtest ------------------------------
(***************************************************************************)
(* One Backtest row on the backtesting queue:                              *)
(* src/src/cryptovira/apps/backtesting/tasks.py with the row of            *)
(* backtesting/models.py and the "Run backtest" action of                  *)
(* backtesting/admin.py.                                                   *)
(*                                                                         *)
(* run_backtest reads the row and its strategy, then the candles before,   *)
(* in and after the range in three queries, and replays the strategy over  *)
(* the range, saving its progress as it goes and its results at the end.   *)
(* Candles are named by their place in the series, from 1, and land in     *)
(* order; what engine.evaluate makes of a window of closes is the config's *)
(* value on it.  Returns are kept by their sign (a win or not): the sum of *)
(* floating-point returns is left out.                                     *)
(*                                                                         *)
(* The change form of the admin loads the row, and saves it again with     *)
(* every column, the read-only ones as they were when it was loaded.       *)
(***************************************************************************)
EXTENDS TaskQueue, Integers, FiniteSets, Sequences

CONSTANTS
  Workers,       \* worker processes that consume the backtesting queue
  Backlog,       \* candles stored when the row is created
  MaxCandle,     \* bound: candles of the series
  Closes,        \* the prices a candle may close at
  Series,        \* the price histories considered, each candle -> close
  History,       \* HISTORY_CANDLE_COUNT
  Settings,      \* what an administrator may enter: the range, the horizon
                 \* and the strategy's config
  ProgressSaves, \* progress is saved about this many times (100)
  MaxFaults,     \* bound: workers lost while executing a task, and tasks
                 \* ended by an uncaught exception or the time limit
  MaxClicks,     \* bound: "Run backtest" clicks
  MaxForms       \* bound: change forms submitted

CandleNumbers == 1 .. MaxCandle
Windows == UNION {[1 .. n -> Closes] : n \in 1 .. History}

ASSUME BacktestBounds ==
  /\ MaxCandle \in Nat
  /\ Backlog \in 0 .. MaxCandle
  /\ History \in Nat \ {0}
  /\ ProgressSaves \in Nat \ {0}
  /\ MaxFaults \in Nat
  /\ MaxClicks \in Nat
  /\ MaxForms \in Nat
ASSUME SeriesHaveCloses == Series \subseteq [CandleNumbers -> Closes]
\* horizon_candles has MinValueValidator(1); nothing orders start and end.
ASSUME SettingsAreEntered ==
  \A s \in Settings :
    /\ s.start \in Nat /\ s.end \in Nat
    /\ s.horizon \in Nat \ {0}
    /\ s.config \in [Windows -> BOOLEAN]

------------------------------------------------------------------------------
RunMessage == [task |-> "run_backtest"]

NoResult == [triggers |-> 0, scored |-> 0, wins |-> 0, stored |-> FALSE]
NoRun == [setting |-> "none"]
NoForm == [status |-> "none"]

Statuses == {"pending", "running", "completed", "failed"}
FailSteps == {"bad_range", "no_candles"}
RunSteps == {"warmup", "range", "tail", "start", "replay", "complete"}

VARIABLES
  landed,   \* candles stored so far
  close,    \* the price history they come from
  setting,  \* the row's range and horizon, and Strategy.config
  status, progress, error, result,   \* the row's other columns
  run,      \* worker -> the locals of its run_backtest, and (history, in
            \* saves) the candles after which it saved its progress
  basis,    \* history: setting, and candles landed at the first and the last
            \* query, of the run whose result is stored
  form,     \* the row's other columns as a submitted change form loaded them
  undone,   \* history: a form was saved over columns changed since it loaded
  crashes, abandoned, clicks, forms   \* history: what the bounds count

row == <<status, progress, error, result, basis>>
environment == <<landed, close, setting>>
admin == <<form, undone, forms>>
counters == <<crashes, abandoned, clicks>>
vars == <<environment, row, queue, pc, job, run, admin, counters>>

Init ==
  /\ landed = Backlog
  /\ close \in Series
  /\ setting \in Settings
  /\ status = "pending" /\ progress = 0 /\ error = "" /\ result = NoResult
  /\ EmptyQueue({RunMessage})
  /\ IdleWorkers(Workers)
  /\ run = [w \in Workers |-> NoRun]
  /\ basis = NoRun
  /\ form = NoForm /\ undone = FALSE
  /\ crashes = 0 /\ abandoned = 0 /\ clicks = 0 /\ forms = 0

------------------------------------------------------------------------------
(* The environment of the workers.                                         *)

\* "Run backtest", whatever the row's status.
RunBacktestAction ==
  /\ clicks < MaxClicks
  /\ clicks' = clicks + 1
  /\ Publish(RunMessage)
  /\ UNCHANGED <<environment, row, pc, job, run, crashes, abandoned, admin>>

CandlesLand(n) ==
  /\ n > landed
  /\ landed' = n
  /\ UNCHANGED <<close, setting, row, queue, pc, job, run, admin, counters>>

\* Django loads the row a change form was submitted for ...
FormLoads ==
  /\ form = NoForm
  /\ forms < MaxForms
  /\ forms' = forms + 1
  /\ form' = [status |-> status, progress |-> progress, error |-> error,
              result |-> result, basis |-> basis]
  /\ UNCHANGED <<environment, row, queue, pc, job, run, undone, counters>>

\* ... and saves all its columns: the range, the horizon and the strategy as
\* they were entered, the others as they were loaded.
FormSaves(s) ==
  /\ form # NoForm
  /\ setting' = s
  /\ status' = form.status /\ progress' = form.progress
  /\ error' = form.error /\ result' = form.result /\ basis' = form.basis
  /\ undone' = (undone \/ row' # row)
  /\ form' = NoForm
  /\ UNCHANGED <<landed, close, queue, pc, job, run, forms, counters>>

------------------------------------------------------------------------------
(* run_backtest                                                            *)

\* The n last, and the n first, of a set of candles, in order of open time.
Ascending(C) ==
  [i \in 1 .. Cardinality(C) |->
     CHOOSE c \in C : Cardinality({b \in C : b <= c}) = i]
LastOf(n, C) == {c \in C : Cardinality({b \in C : b > c}) < n}
FirstOf(n, C) == {c \in C : Cardinality({b \in C : b < c}) < n}
Landed == 1 .. landed

ReadsBacktest(w) ==
  /\ Begin(w, RunMessage,
           IF setting.end <= setting.start THEN "bad_range" ELSE "warmup")
  /\ run' = [run EXCEPT ![w] =
               [setting |-> setting, series |-> <<>>, first |-> 0, count |-> 0,
                offset |-> 0, triggers |-> 0, scored |-> 0, wins |-> 0,
                from |-> landed, to |-> landed, saves |-> {}]]
  /\ UNCHANGED <<environment, row, admin, counters>>

\* Either expected failure is saved; the other columns stay as they are.
SaveFailed(w) ==
  /\ pc[w] \in FailSteps
  /\ status' = "failed" /\ error' = pc[w]
  /\ Goto(w, "done")
  /\ UNCHANGED <<environment, progress, result, basis, queue, job, run,
                 admin, counters>>

QueryWarmup(w) ==
  LET before == {c \in Landed : c < run[w].setting.start}
      warmup == Ascending(LastOf(History, before))
  IN
  /\ pc[w] = "warmup"
  /\ run' = [run EXCEPT ![w].series = warmup, ![w].first = Len(warmup),
                        ![w].from = landed]
  /\ Goto(w, "range")
  /\ UNCHANGED <<environment, row, queue, job, admin, counters>>

InRange(s, l) == {c \in 1 .. l : s.start <= c /\ c < s.end}

QueryRange(w) ==
  LET in_range == Ascending(InRange(run[w].setting, landed)) IN
  /\ pc[w] = "range"
  /\ run' = [run EXCEPT ![w].series = @ \o in_range,
                        ![w].count = Len(in_range)]
  /\ Goto(w, IF in_range = <<>> THEN "no_candles" ELSE "tail")
  /\ UNCHANGED <<environment, row, queue, job, admin, counters>>

QueryTail(w) ==
  LET after == {c \in Landed : c >= run[w].setting.end}
      tail == Ascending(FirstOf(run[w].setting.horizon, after))
  IN
  /\ pc[w] = "tail"
  /\ run' = [run EXCEPT ![w].series = @ \o tail, ![w].to = landed]
  /\ Goto(w, "start")
  /\ UNCHANGED <<environment, row, queue, job, admin, counters>>

SaveRunning(w) ==
  /\ pc[w] = "start"
  /\ status' = "running" /\ progress' = 0
  /\ Goto(w, "replay")
  /\ UNCHANGED <<environment, error, result, basis, queue, job, run, admin,
                 counters>>

\* Mutant: the window is one candle short.
WindowTooShort(series, i) ==
  LET low == IF i >= History THEN i - History + 2 ELSE 1
  IN [k \in 1 .. i - low + 1 |-> close[series[low + k - 1]]]

\* The last History candles of the series up to its i-th.
Window(series, i) ==
  LET low == IF i > History THEN i - History + 1 ELSE 1
  IN [k \in 1 .. i - low + 1 |-> close[series[low + k - 1]]]

\* Mutant: the progress is saved after every candle.
UpdateEveryCandle(count) == 1

UpdateEvery(count) ==
  IF count >= ProgressSaves THEN count \div ProgressSaves ELSE 1

ProgressIsDue(n, count) == n % UpdateEvery(count) = 0 \/ n = count

\* Mutant: a candle is scored whether or not it triggered.
ScoredAnyway(r, i) == i + r.setting.horizon <= Len(r.series)

Triggered(r, i) == r.setting.config[Window(r.series, i)]

Scored(r, i) == Triggered(r, i) /\ i + r.setting.horizon <= Len(r.series)

Won(r, i) ==
  Scored(r, i) /\ close[r.series[i + r.setting.horizon]] > close[r.series[i]]

\* One candle of the range: whether it triggers, how its horizon ended, and
\* the progress save when one is due.
ReplayCandle(w) ==
  LET r == run[w]
      i == r.first + r.offset + 1
      n == r.offset + 1
      One(b) == IF b THEN 1 ELSE 0
  IN
  /\ pc[w] = "replay"
  /\ run' = [run EXCEPT ![w].offset = n,
                        ![w].triggers = @ + One(Triggered(r, i)),
                        ![w].scored = @ + One(Scored(r, i)),
                        ![w].wins = @ + One(Won(r, i)),
                        ![w].saves = IF ProgressIsDue(n, r.count)
                                     THEN @ \cup {n} ELSE @]
  /\ progress' = IF ProgressIsDue(n, r.count) THEN (n * 100) \div r.count
                 ELSE progress
  /\ Goto(w, IF n = r.count THEN "complete" ELSE "replay")
  /\ UNCHANGED <<environment, status, error, result, basis, queue, job,
                 admin, counters>>

\* Every result column at once; error is not among the saved fields.
SaveCompleted(w) ==
  /\ pc[w] = "complete"
  /\ status' = "completed" /\ progress' = 100
  /\ result' = [triggers |-> run[w].triggers, scored |-> run[w].scored,
                wins |-> run[w].wins, stored |-> TRUE]
  /\ basis' = [setting |-> run[w].setting,
               from |-> run[w].from, to |-> run[w].to]
  /\ Goto(w, "done")
  /\ UNCHANGED <<environment, error, queue, job, run, admin, counters>>

------------------------------------------------------------------------------
(* How a task ends.                                                        *)

Forget(w) ==
  /\ Release(w)
  /\ run' = [run EXCEPT ![w] = NoRun]

Acknowledge(w) ==
  /\ pc[w] = "done"
  /\ Forget(w)
  /\ UNCHANGED <<environment, row, queue, admin, counters>>

WorkerLost(w) ==
  /\ pc[w] # "idle"
  /\ crashes + abandoned < MaxFaults
  /\ crashes' = crashes + 1
  /\ GiveBack(w)
  /\ Forget(w)
  /\ UNCHANGED <<environment, row, abandoned, clicks, admin>>

\* An uncaught exception, or the time limit: acknowledged all the same.
TaskRaises(w) ==
  /\ pc[w] # "idle"
  /\ crashes + abandoned < MaxFaults
  /\ abandoned' = abandoned + 1
  /\ Forget(w)
  /\ UNCHANGED <<environment, row, queue, crashes, clicks, admin>>

------------------------------------------------------------------------------
Work(w) ==
  \/ ReadsBacktest(w)
  \/ SaveFailed(w)
  \/ QueryWarmup(w)
  \/ QueryRange(w)
  \/ QueryTail(w)
  \/ SaveRunning(w)
  \/ ReplayCandle(w)
  \/ SaveCompleted(w)
  \/ Acknowledge(w)

Next ==
  \/ RunBacktestAction
  \/ \E n \in CandleNumbers : CandlesLand(n)
  \/ FormLoads
  \/ \E s \in Settings : FormSaves(s)
  \/ \E w \in Workers : Work(w) \/ WorkerLost(w) \/ TaskRaises(w)

Spec == Init /\ [][Next]_vars

------------------------------------------------------------------------------
(* Properties.                                                             *)

\* Types; a worker is busy exactly when it holds the message and runs; and
\* the columns keep the order their help texts promise.
TypeOK ==
  /\ landed \in 0 .. MaxCandle
  /\ close \in Series
  /\ setting \in Settings
  /\ status \in Statuses
  /\ progress \in 0 .. 100
  /\ error \in {""} \cup FailSteps
  /\ result.wins <= result.scored /\ result.scored <= result.triggers
  /\ result.stored \in BOOLEAN
  /\ queue \in [{RunMessage} -> Nat]
  /\ pc \in [Workers -> {"idle", "done"} \cup FailSteps \cup RunSteps]
  /\ form # NoForm => form.status \in Statuses
  /\ undone \in BOOLEAN
  /\ crashes \in Nat /\ abandoned \in Nat /\ clicks \in Nat /\ forms \in Nat
  /\ \A w \in Workers :
       /\ pc[w] = "idle" <=> job[w] = NoJob
       /\ pc[w] = "idle" <=> run[w] = NoRun
       /\ pc[w] # "idle" => run[w].setting \in Settings
       /\ pc[w] = "replay" => run[w].offset < run[w].count
       /\ pc[w] = "complete" => run[w].offset = run[w].count

\* What live evaluation reads when candle c is the newest.
LiveWindow(c) ==
  LET low == IF c > History THEN c - History + 1 ELSE 1
  IN [k \in 1 .. c - low + 1 |-> close[low + k - 1]]

\* The result a backtest of setting s should have once l candles landed,
\* said of candles and not of the series the task assembles.
Reference(s, l) ==
  LET triggers == {c \in InRange(s, l) : s.config[LiveWindow(c)]}
      scored == {c \in triggers : c + s.horizon <= l}
      wins == {c \in scored : close[c + s.horizon] > close[c]}
  IN [triggers |-> Cardinality(triggers), scored |-> Cardinality(scored),
      wins |-> Cardinality(wins), stored |-> TRUE]

\* Every candle the backtest of s could look at has landed among the first l.
Settled(s, l) == l >= s.end + s.horizon - 1

\* A stored result is the reference's, for the setting and the candles its
\* run read, unless candles landed between the run's queries that it still
\* had to look at (backtesting/tasks.py:51-133; ADR 0010:53-59).
ResultIsReference ==
  (result.stored /\ (basis.from = basis.to \/ Settled(basis.setting, basis.from)))
    => result = Reference(basis.setting, basis.from)

Quiet ==
  /\ ~Waiting(RunMessage)
  /\ \A w \in Workers : pc[w] = "idle"

\* When nothing runs or waits any more, a backtest that was asked for has
\* ended, also when two runs of the row interleaved or a crash cut one short:
\* no row is left RUNNING, and a COMPLETED one is at 100 with a result.  Two
\* things undo that: a task ended by an exception or its time limit, and a
\* change form saved over what a run wrote since the form was loaded
\* (docs/interview/05.5-backtesting.md:172-175; backtesting/admin.py:38-49).
QuietMeansEnded ==
  (Quiet /\ clicks > 0 /\ abandoned = 0 /\ ~undone) =>
    /\ status \in {"completed", "failed"}
    /\ status = "completed" => progress = 100 /\ result.stored
    /\ status = "failed" => error # ""

\* The saves that the replay of count candles may cost: ProgressSaves, and
\* (ProgressSaves - 1) / stride rounded up for the candles that a whole number
\* of strides leaves over.  With 100 it is 199 from 100 candles, where the
\* stride is 1, 150 from 200 and at most 110 from 1000 on.
MostSaves(count) ==
  ProgressSaves
    + (ProgressSaves + UpdateEvery(count) - 2) \div UpdateEvery(count)

\* However many candles its range has, the replay a worker is in has saved its
\* progress at most MostSaves times, and when it is over, the last time with
\* the last candle, also where the stride does not divide the candles
\* (backtesting/tasks.py:100-103, 131-133).
ProgressWritesAreCapped ==
  \A w \in Workers :
    pc[w] \in {"replay", "complete"} =>
      /\ Cardinality(run[w].saves) <= MostSaves(run[w].count)
      /\ pc[w] = "complete" => run[w].count \in run[w].saves
==============================================================================
