----------------------------- MODULE BeatSchedule ----------------------------
(***************************************************************************)
(* The beat schedule of src/src/cryptovira/celery.py:55-144 for one        *)
(* interval: when the ingest and the evaluate fan-outs are published, and  *)
(* what the tasks behind them find.  Minutes are counted from Monday 00:00 *)
(* UTC (CELERY_TIMEZONE) modulo the interval's cycle; the bars of every    *)
(* interval close at multiples of its length.                              *)
(*                                                                         *)
(* docker/entrypoint.sh starts one worker for all queues: a backtest keeps *)
(* one of its processes for up to task_time_limit, and while backtests     *)
(* keep all of them nothing else runs.  A process that is free does a      *)
(* waiting task within Latency, the oldest of a queue first.               *)
(***************************************************************************)
EXTENDS Integers, FiniteSets

CONSTANTS
  Tiers,        \* the intervals considered
  Cycle,        \* tier -> minutes until its schedule repeats
  Latency,      \* bound: minutes a fan-out waits, and its tasks take, while a
                \* process is free
  Processes,    \* the worker's processes (CELERY_CONCURRENCY)
  TimeLimit,    \* task_time_limit, in minutes
  MaxBacktests, \* bound: backtests run
  MaxBehind     \* bound: bars counted as closed and not stored, or not evaluated

Intervals == {"1m", "5m", "15m", "30m", "1h", "4h", "1d", "1w"}

BarLength(tier) ==
  CASE tier = "1m" -> 1
    [] tier = "5m" -> 5
    [] tier = "15m" -> 15
    [] tier = "30m" -> 30
    [] tier = "1h" -> 60
    [] tier = "4h" -> 240
    [] tier = "1d" -> 1440
    [] tier = "1w" -> 10080

ASSUME ScheduleBounds ==
  /\ Tiers \subseteq Intervals
  /\ Cycle \in [Tiers -> Nat \ {0}]
  /\ \A tier \in Tiers : Cycle[tier] % BarLength(tier) = 0
  /\ Latency \in Nat
  /\ Processes # {}
  /\ TimeLimit \in Nat \ {0}
  /\ MaxBacktests \in Nat
  /\ MaxBehind \in Nat

------------------------------------------------------------------------------
MinuteOf(t) == t % 60
HourOf(t) == (t \div 60) % 24
Monday(t) == (t \div 1440) % 7 = 0

IngestIsDue(tier, t) ==
  CASE tier = "1m" -> TRUE
    [] tier = "5m" -> MinuteOf(t) % 5 = 0
    [] tier = "15m" -> MinuteOf(t) % 15 = 0
    [] tier = "30m" -> MinuteOf(t) \in {5, 35}
    [] tier = "1h" -> MinuteOf(t) = 5
    [] tier = "4h" -> MinuteOf(t) = 5 /\ HourOf(t) % 4 = 0
    [] tier = "1d" -> MinuteOf(t) = 5 /\ HourOf(t) = 0
    [] tier = "1w" -> MinuteOf(t) = 5 /\ HourOf(t) = 0 /\ Monday(t)

\* Mutant: ingest's minutes on every tier.
EvaluateIsDueWithIngest(tier, t) == IngestIsDue(tier, t)

EvaluateIsDue(tier, t) ==
  CASE tier = "1m" -> TRUE
    [] tier = "5m" -> MinuteOf(t) % 5 = 0
    [] tier = "15m" -> MinuteOf(t) % 15 = 0
    [] tier = "30m" -> MinuteOf(t) \in {8, 38}
    [] tier = "1h" -> MinuteOf(t) = 8
    [] tier = "4h" -> MinuteOf(t) = 8 /\ HourOf(t) % 4 = 0
    [] tier = "1d" -> MinuteOf(t) = 8 /\ HourOf(t) = 0
    [] tier = "1w" -> MinuteOf(t) = 8 /\ HourOf(t) = 0 /\ Monday(t)

Week == 10080
ASSUME ScheduleRepeats ==
  \A tier \in Tiers, t \in 0 .. Week - 1 :
    /\ IngestIsDue(tier, t) = IngestIsDue(tier, t % Cycle[tier])
    /\ EvaluateIsDue(tier, t) = EvaluateIsDue(tier, t % Cycle[tier])

Free == -1

VARIABLES
  interval,    \* the interval, fixed from the start
  minute,      \* the clock
  ingests,     \* the ages of the ingest fan-outs published and not yet run
  evaluates,   \* the same of the evaluate fan-outs
  backtest,    \* process -> the age of the backtest it runs, or Free
  missing,     \* bars closed and not stored
  unevaluated, \* bars stored since an evaluation looked; all but the newest
               \* of them are never evaluated any more
  starved,     \* history: a task waited longer than Latency for a process, and
               \* what it was for is not made up for yet
  backtests    \* history: what MaxBacktests bounds

bars == <<missing, unevaluated>>
beatVars == <<interval, minute, ingests, evaluates, backtest, bars, starved,
          backtests>>

\* Everything is up to date a minute before every bar of the cycle closes.
BeatInit ==
  /\ interval \in Tiers
  /\ minute = Cycle[interval] - 1
  /\ ingests = {} /\ evaluates = {}
  /\ backtest = [p \in Processes |-> Free]
  /\ missing = 0 /\ unevaluated = 0
  /\ starved = FALSE /\ backtests = 0

WaitingAges == ingests \cup evaluates
Overdue == \E age \in WaitingAges : age >= Latency
AllBusy == \A p \in Processes : backtest[p] # Free

\* Mutant: a task waits however long it takes.
MayWait == TRUE

\* A task waits longer than Latency only while no process is free.
MayWaitOn == Overdue => AllBusy

\* Mutant: a backtest has no time limit.
Unlimited == TRUE

\* The time limit ends a backtest.
WithinTimeLimit == \A p \in Processes : backtest[p] < TimeLimit

\* Beat publishes what is due at the new minute; a bar may close with it.
MinutePasses ==
  LET t == (minute + 1) % Cycle[interval]
      Older(ages) == {a + 1 : a \in ages}
      New(due) == IF due THEN {0} ELSE {}
  IN
  /\ MayWaitOn
  /\ WithinTimeLimit
  /\ minute' = t
  /\ ingests' = Older(ingests) \cup New(IngestIsDue(interval, t))
  /\ evaluates' = Older(evaluates) \cup New(EvaluateIsDue(interval, t))
  /\ backtest' = [p \in Processes |->
                    IF backtest[p] = Free THEN Free ELSE backtest[p] + 1]
  /\ missing' = IF t % BarLength(interval) = 0 THEN missing + 1 ELSE missing
  /\ starved' = \/ Overdue
                \/ starved /\ (WaitingAges # {} \/ missing + unevaluated > 0)
  /\ UNCHANGED <<interval, unevaluated, backtests>>

Oldest(ages, age) == age \in ages /\ \A a \in ages : a <= age

\* ingest_candles stores every bar that has closed.
RunIngest(age) ==
  /\ ~AllBusy
  /\ Oldest(ingests, age)
  /\ ingests' = ingests \ {age}
  /\ unevaluated' = IF unevaluated + missing > MaxBehind THEN MaxBehind
                    ELSE unevaluated + missing
  /\ missing' = 0
  /\ UNCHANGED <<interval, minute, evaluates, backtest, starved, backtests>>

\* evaluate_strategy looks at the newest stored bar and at no other.
RunEvaluate(age) ==
  /\ ~AllBusy
  /\ Oldest(evaluates, age)
  /\ evaluates' = evaluates \ {age}
  /\ unevaluated' = 0
  /\ UNCHANGED <<interval, minute, ingests, backtest, missing, starved,
                 backtests>>

\* A process takes run_backtest off its queue, before whatever waits in others.
BacktestBegins(p) ==
  /\ backtest[p] = Free
  /\ backtests < MaxBacktests
  /\ backtests' = backtests + 1
  /\ backtest' = [backtest EXCEPT ![p] = 0]
  /\ UNCHANGED <<interval, minute, ingests, evaluates, bars, starved>>

BacktestEnds(p) ==
  /\ backtest[p] # Free
  /\ backtest' = [backtest EXCEPT ![p] = Free]
  /\ UNCHANGED <<interval, minute, ingests, evaluates, bars, starved, backtests>>

\* The longest a task can wait for a process.
MaxWait == Latency + TimeLimit * MaxBacktests

BeatNext ==
  \/ MinutePasses
  \/ \E age \in 0 .. MaxWait : RunIngest(age) \/ RunEvaluate(age)
  \/ \E p \in Processes : BacktestBegins(p) \/ BacktestEnds(p)

BeatSpec == BeatInit /\ [][BeatNext]_beatVars

------------------------------------------------------------------------------
(* Properties.                                                             *)

\* Types, and no task waits longer than the backtests can last.
BeatTypeOK ==
  /\ interval \in Tiers
  /\ minute \in 0 .. Cycle[interval] - 1
  /\ ingests \subseteq 0 .. MaxWait
  /\ evaluates \subseteq 0 .. MaxWait
  /\ backtest \in [Processes -> {Free} \cup 0 .. TimeLimit]
  /\ missing \in Nat
  /\ unevaluated \in 0 .. MaxBehind
  /\ starved \in BOOLEAN
  /\ backtests \in 0 .. MaxBacktests

\* Minutes since the oldest bar closed that is not stored.
Behind == (missing - 1) * BarLength(interval) + (minute % BarLength(interval))

Offset == IF BarLength(interval) < 30 THEN 0 ELSE 5

\* Every bar is stored soon after it closed, on every tier and across the
\* hour, the day and the week: within the five minutes a slow tier is offset
\* by, and the latency.  Backtests that keep every process of the one worker
\* add the time they may last and no more (celery.py:34-35, 60-99;
\* docker/entrypoint.sh:24-28).
BarsLandInTime ==
  missing > 0 => Behind <= Offset + (IF starved THEN MaxWait ELSE Latency)

\* On the tiers that are polled and evaluated minutes past the boundary, every
\* bar is evaluated within eight minutes and the latency: its evaluation finds
\* it, and none is stored over one that no evaluation took, which would be
\* skipped for good, and with it an edge that only it shows.  Unless backtests
\* kept every process (strategy/tasks.py:3-5, 48-52; celery.py:100-103).
BarsAreEvaluatedInTime ==
  BarLength(interval) >= 30 /\ missing + unevaluated > 0 =>
    \/ starved
    \/ /\ missing + unevaluated = 1
       /\ minute % BarLength(interval) <= 8 + Latency
==============================================================================
