----------------------------- MODULE MarketProofs ----------------------------
(***************************************************************************)
(* Theorems about CandleIngestion, for any workers and currencies, any     *)
(* length of a bar, any size of a response and any bounds; and about       *)
(* BeatSchedule, which polls it, for any of the intervals, cycles and      *)
(* latencies, any processes, backtests and time limit.                     *)
(***************************************************************************)
EXTENDS CandleIngestion, BeatSchedule, TLAPS

------------------------------------------------------------------------------
(* Messages and instants.                                                  *)

\* The two tasks' messages are messages, and an ingest names its currency.
LEMMA IngestionMessages ==
  /\ FanOutMessage \in Messages
  /\ \A c \in Currencies : IngestMessage(c) \in IngestMessages
  /\ IngestMessages \subseteq Messages
  /\ \A m \in IngestMessages : m.currency \in Currencies
  /\ \A c \in Currencies : IngestMessage(c).currency = c
  /\ FanOutMessage \notin IngestMessages
  /\ NoJob \notin Messages
  BY DEF Messages, IngestMessages, IngestMessage, FanOutMessage, NoJob

\* A bar closes at an instant that is a natural number, however long bars are.
LEMMA CloseTimeIsNat == \A b \in Bars : CloseTime(b) \in Nat
<1> SUFFICES ASSUME NEW b \in Bars PROVE CloseTime(b) \in Nat
  OBVIOUS
<1>1. b \in Nat
  BY DEF Bars
<1>2. \A n \in Nat, k \in Nat \ {0} : (n + 1) * k - 1 \in Nat
  OBVIOUS
<1> QED
  BY <1>1, <1>2, IngestionBounds DEF CloseTime

\* What a bar is stored with is the instant of a trade, and that is a row.
LEMMA TradedIsAnInstant ==
  \A b \in Bars, t \in Instants : Traded(b, t) \in Instants
  BY CloseTimeIsNat, IngestionBounds DEF Traded, Closed, Instants

------------------------------------------------------------------------------
(* Type correctness.                                                       *)

\* Nothing is stored and nobody works to begin with.
LEMMA IngestTypeInit == Init => TypeOK
  BY IngestionBounds
  DEF Init, TypeOK, EmptyQueue, IdleWorkers, Instants, IngestSteps

\* Every step keeps the types; a worker's instants have come.
LEMMA IngestTypeStep == TypeOK /\ [Next]_vars => TypeOK'
<1> SUFFICES ASSUME TypeOK, [Next]_vars PROVE TypeOK'
  OBVIOUS
<1> USE IngestionBounds, IngestionMessages
<1> USE DEF TypeOK
<1>1. CASE TimePasses
  BY <1>1 DEF TimePasses, locals, counters, Instants
<1>2. CASE Tick
  BY <1>2 DEF Tick, Publish, locals
<1>3. ASSUME NEW c \in Currencies, ToggleCurrency(c) PROVE TypeOK'
  BY <1>3 DEF ToggleCurrency, locals, counters
<1>4. ASSUME NEW w \in Workers, FanOutReadsSymbols(w) PROVE TypeOK'
  BY <1>4 DEF FanOutReadsSymbols, Begin, Take, Waiting, counters, IngestSteps
<1>5. ASSUME NEW w \in Workers, NEW c \in Currencies, FanOutPublishes(w, c)
      PROVE  TypeOK'
  BY <1>5 DEF FanOutPublishes, Publish, counters
<1>6. ASSUME NEW w \in Workers, NEW c \in Currencies, IngestGetsKlines(w, c)
      PROVE  TypeOK'
  BY <1>6 DEF IngestGetsKlines, Begin, Take, Waiting, counters, IngestSteps,
              Instants
<1>7. ASSUME NEW w \in Workers, IngestReadsClock(w) PROVE TypeOK'
  BY <1>7 DEF IngestReadsClock, Clock, Goto, counters, IngestSteps, Instants
<1>8. ASSUME NEW w \in Workers, IngestStoresClosed(w) PROVE TypeOK'
  <2>1. asked[w] \in Instants
    BY DEF Instants
  <2>2. stored' \in [Rows -> Instants \cup {Missing}]
    BY <1>8, <2>1, TradedIsAnInstant DEF IngestStoresClosed, Rows
  <2> QED
    BY <1>8, <2>2 DEF IngestStoresClosed, Goto, counters, IngestSteps
<1>9. ASSUME NEW w \in Workers, FanOutEnds(w) PROVE TypeOK'
  BY <1>9 DEF FanOutEnds, Forget, Release, counters, IngestSteps, Instants
<1>10. ASSUME NEW w \in Workers, IngestEnds(w) PROVE TypeOK'
  BY <1>10 DEF IngestEnds, Forget, Release, counters, IngestSteps, Instants
<1>11. ASSUME NEW w \in Workers, WorkerLost(w) PROVE TypeOK'
  BY <1>11 DEF WorkerLost, GiveBack, Publish, Forget, Release, IngestSteps,
               Instants
<1>12. ASSUME NEW w \in Workers, TaskRaises(w) PROVE TypeOK'
  BY <1>12 DEF TaskRaises, Forget, Release, IngestSteps, Instants
<1>13. CASE UNCHANGED vars
  BY <1>13 DEF vars, locals, counters
<1> QED
  BY <1>1, <1>2, <1>3, <1>4, <1>5, <1>6, <1>7, <1>8, <1>9, <1>10, <1>11,
     <1>12, <1>13
  DEF Next, Work

\* Every reachable state is well typed; in particular a worker compares close
\* times with an instant that has come, and not before it has its response.
THEOREM IngestionTypeCorrect == Spec => []TypeOK
  BY IngestTypeInit, IngestTypeStep, PTL DEF Spec

------------------------------------------------------------------------------
(* Stored candles.                                                         *)

\* Only storing changes the table, and it fills places that are empty, with
\* bars that closed before the clock was read.
LEMMA StoringFillsHoles ==
  ASSUME TypeOK, [Next]_vars, NEW r \in Rows, stored'[r] # stored[r]
  PROVE  stored[r] = Missing /\ Closed(r[2], now) /\ stored'[r] # Missing
<1>1. PICK w \in Workers : IngestStoresClosed(w)
  BY DEF Next, Work, vars, locals, counters, TimePasses, Tick, ToggleCurrency,
         FanOutReadsSymbols, FanOutPublishes, IngestGetsKlines,
         IngestReadsClock, FanOutEnds, IngestEnds, WorkerLost, TaskRaises
<1>2. r[2] \in Kept(w) /\ NoRow(r) /\ stored'[r] = Traded(r[2], asked[w])
  BY <1>1 DEF IngestStoresClosed
<1>3. r[2] \in Bars /\ asked[w] \in Instants /\ checked[w] \in 0 .. now
  BY IngestionBounds DEF TypeOK, Rows, Instants
<1>4. Closed(r[2], now)
  BY <1>2, <1>3, CloseTimeIsNat DEF Kept, Closed, TypeOK, Instants
<1>5. stored'[r] # Missing
  BY <1>2, <1>3, TradedIsAnInstant DEF Instants, Missing
<1> QED
  BY <1>2, <1>4, <1>5 DEF NoRow

\* No step writes a stored candle again or stores a forming bar.
THEOREM StoredCandlesAreFinal == Spec => CandlesAreFinal
<1>1. TypeOK /\ [Next]_vars
        => [\A r \in Rows : stored'[r] # stored[r]
              => stored[r] = Missing /\ Closed(r[2], now)]_stored
  BY StoringFillsHoles
<1> QED
  BY <1>1, IngestionTypeCorrect, PTL DEF Spec, CandlesAreFinal

------------------------------------------------------------------------------
(* Holes.                                                                  *)

\* The bars that were closed when the exchange answered at t, all stored.
NoHole(c, t) ==
  \A b \in Listed(t) : Closed(b, t) => stored[<<c, b>>] # Missing

\* The inductive invariant: GoodPollLeavesNoHole, and the same of each poll
\* that has stored its bars and is not acknowledged yet.
HoleInv ==
  /\ GoodPollLeavesNoHole
  /\ \A w \in Workers : pc[w] = "done" => NoHole(job[w].currency, asked[w])

\* A hole that is filled stays filled.
LEMMA NoHoleStays ==
  ASSUME TypeOK, [Next]_vars, NEW c \in Currencies, NEW t, NoHole(c, t)
  PROVE  NoHole(c, t)'
<1> SUFFICES ASSUME NEW b \in Listed(t), Closed(b, t)
             PROVE  stored'[<<c, b>>] # Missing
  BY DEF NoHole, Listed, Closed
<1>1. <<c, b>> \in Rows
  BY DEF Listed, Rows
<1> QED
  BY <1>1, StoringFillsHoles DEF NoHole

\* A poll that stores leaves no hole behind: what was closed at the answer is
\* closed when the clock is read.
LEMMA StoringLeavesNoHole ==
  ASSUME TypeOK, TypeOK', NEW w \in Workers, IngestStoresClosed(w)
  PROVE  NoHole(job[w].currency, asked[w])'
<1>1. /\ job[w].currency \in Currencies /\ asked[w] \in Instants
      /\ asked[w] <= checked[w] /\ checked[w] \in Nat
  BY IngestionMessages, IngestionBounds
  DEF TypeOK, IngestStoresClosed, IngestSteps, Instants
<1> SUFFICES ASSUME NEW b \in Listed(asked[w]), Closed(b, asked[w])
             PROVE  stored'[<<job[w].currency, b>>] # Missing
  BY DEF NoHole, IngestStoresClosed, Listed, Closed
<1>2. b \in Bars /\ CloseTime(b) \in Nat
  BY CloseTimeIsNat DEF Listed
<1>3. b \in Kept(w)
  BY <1>1, <1>2 DEF Kept, Closed, Instants
<1>4. <<job[w].currency, b>> \in Rows
  BY <1>1, <1>2 DEF Rows
<1>5. Traded(b, asked[w]) # Missing
  BY <1>1, <1>2, TradedIsAnInstant DEF Instants, Missing
<1> QED
  BY <1>3, <1>4, <1>5 DEF IngestStoresClosed, NoRow

\* Every step keeps HoleInv.
LEMMA HoleStep == TypeOK /\ TypeOK' /\ HoleInv /\ [Next]_vars => HoleInv'
<1> SUFFICES ASSUME TypeOK, TypeOK', HoleInv, [Next]_vars PROVE HoleInv'
  OBVIOUS
<1>1. \A v \in Workers : pc[v] = "done" => NoHole(job[v].currency, asked[v])
  BY DEF HoleInv
<1>2. \A v \in Workers : pc[v] = "done" => job[v].currency \in Currencies
  BY IngestionMessages DEF TypeOK
<1>3. \A v \in Workers :
        pc'[v] = "done" =>
          \/ pc[v] = "done" /\ job'[v] = job[v] /\ asked'[v] = asked[v]
          \/ IngestStoresClosed(v)
  BY DEF TypeOK, Next, Work, vars, locals, counters, TimePasses, Tick,
         ToggleCurrency, FanOutReadsSymbols, FanOutPublishes, IngestGetsKlines,
         IngestReadsClock, FanOutEnds, IngestEnds, WorkerLost, TaskRaises,
         Begin, Goto, Forget, Release, IngestStoresClosed
<1>4. ASSUME NEW v \in Workers, pc'[v] = "done"
      PROVE  NoHole(job[v].currency, asked[v])'
  <2>1. CASE IngestStoresClosed(v)
    BY <2>1, StoringLeavesNoHole
  <2>2. CASE pc[v] = "done" /\ job'[v] = job[v] /\ asked'[v] = asked[v]
    <3>1. \A b : <<job'[v].currency, b>> = <<job[v].currency, b>>
      BY <2>2
    <3> QED
      BY <2>2, <1>1, <1>2, NoHoleStays DEF NoHole, Listed, Closed
  <2> QED
    BY <1>3, <1>4, <2>1, <2>2
<1>5. ASSUME NEW e \in ingested'
      PROVE  \A b \in Listed(e[2]) :
               Closed(b, e[2]) => stored'[<<e[1], b>>] # Missing
  <2>1. e[1] \in Currencies
    BY <1>5 DEF TypeOK
  <2>2. NoHole(e[1], e[2])
    <3>1. CASE e \in ingested
      BY <3>1 DEF HoleInv, GoodPollLeavesNoHole, NoHole
    <3>2. CASE e \notin ingested
      <4>1. PICK w \in Workers : IngestEnds(w)
        BY <3>2, <1>5
        DEF Next, Work, vars, locals, counters, TimePasses, Tick,
            ToggleCurrency, FanOutReadsSymbols, FanOutPublishes,
            IngestGetsKlines, IngestReadsClock, IngestStoresClosed, FanOutEnds,
            WorkerLost, TaskRaises
      <4>2. pc[w] = "done" /\ e = <<job[w].currency, asked[w]>>
        BY <3>2, <1>5, <4>1 DEF IngestEnds
      <4> QED
        BY <4>2, <1>1
    <3> QED
      BY <3>1, <3>2
  <2> QED
    BY <2>1, <2>2, NoHoleStays DEF NoHole, Listed, Closed
<1> QED
  BY <1>4, <1>5 DEF HoleInv, GoodPollLeavesNoHole

\* A poll that ends well has stored every bar that was closed when the
\* exchange answered, whatever polls failed, overlapped or were lost before.
THEOREM GoodPollsRepair == Spec => []GoodPollLeavesNoHole
<1>1. Init => HoleInv
  BY DEF Init, HoleInv, GoodPollLeavesNoHole, IdleWorkers
<1>2. HoleInv => GoodPollLeavesNoHole
  BY DEF HoleInv
<1> QED
  BY <1>1, <1>2, HoleStep, IngestionTypeCorrect, PTL DEF Spec

------------------------------------------------------------------------------
(* The schedule, in minutes since a bar closed.                            *)

\* Minutes since the last bar closed, and when an evaluation is due in them.
Phase == minute % BarLength(interval)
EvaluateOffset == IF BarLength(interval) < 30 THEN 0 ELSE 8

\* The lengths of the intervals.
LEMMA Lengths ==
  \A tier \in Intervals :
    BarLength(tier) \in {1, 5, 15, 30, 60, 240, 1440, 10080}
  BY DEF Intervals, BarLength

\* The fan-outs are due once in every bar, at the interval's offset.
LEMMA DueOnceABar ==
  ASSUME BeatTypeOK, NEW t \in Nat
  PROVE  /\ IngestIsDue(interval, t) <=> t % BarLength(interval) = Offset
         /\ EvaluateIsDue(interval, t) <=> t % BarLength(interval) = EvaluateOffset
<1>0. interval \in Intervals
  BY ScheduleBounds DEF BeatTypeOK
<1> USE DEF IngestIsDue, EvaluateIsDue, BarLength, Offset, EvaluateOffset,
            MinuteOf, HourOf, Monday
<1>1. CASE interval = "1m"
  BY <1>1
<1>2. CASE interval = "5m"
  BY <1>2
<1>3. CASE interval = "15m"
  BY <1>3
<1>4. CASE interval = "30m"
  BY <1>4
<1>5. CASE interval = "1h"
  BY <1>5
<1>6. CASE interval = "4h"
  BY <1>6
<1>7. CASE interval = "1d"
  BY <1>7
<1>8. CASE interval = "1w"
  <2>1. PICK h \in Nat, m \in 0 .. 59 :
          t = 60 * h + m /\ t \div 60 = h /\ t % 60 = m
    <3>1. t \div 60 \in Nat /\ t % 60 \in 0 .. 59 /\ t = 60 * (t \div 60) + (t % 60)
      OBVIOUS
    <3> QED
      BY <3>1
  <2>2. PICK d \in Nat, x \in 0 .. 23 : h = 24 * d + x /\ h % 24 = x
    <3>1. h \div 24 \in Nat /\ h % 24 \in 0 .. 23 /\ h = 24 * (h \div 24) + (h % 24)
      OBVIOUS
    <3> QED
      BY <3>1
  <2>3. PICK w \in Nat, y \in 0 .. 6 : d = 7 * w + y /\ d % 7 = y
    <3>1. d \div 7 \in Nat /\ d % 7 \in 0 .. 6 /\ d = 7 * (d \div 7) + (d % 7)
      OBVIOUS
    <3> QED
      BY <3>1
  <2>4. t \div 1440 = d
    <3>1. 60 * x + m \in 0 .. 1439 /\ t = 1440 * d + (60 * x + m)
      BY <2>1, <2>2
    <3> QED
      BY ONLY <3>1, d \in Nat, t \in Nat
  <2>5. t % 10080 = 1440 * y + 60 * x + m
    <3>1. t = 10080 * w + 1440 * y + 60 * x + m
      BY <2>1, <2>2, <2>3
    <3> QED
      BY ONLY <3>1, t \in Nat, w \in Nat, y \in 0 .. 6, x \in 0 .. 23, m \in 0 .. 59
  <2>6. Monday(t) <=> y = 0
    BY <2>3, <2>4
  <2>7. HourOf(t) = x /\ MinuteOf(t) = m
    BY <2>1, <2>2
  <2> HIDE DEF Monday, HourOf, MinuteOf
  <2>8. /\ IngestIsDue(interval, t) <=> m = 5 /\ x = 0 /\ y = 0
        /\ EvaluateIsDue(interval, t) <=> m = 8 /\ x = 0 /\ y = 0
    BY <1>8, <2>6, <2>7
  <2>9. BarLength(interval) = 10080 /\ Offset = 5 /\ EvaluateOffset = 8
    BY <1>8
  <2> HIDE DEF IngestIsDue, EvaluateIsDue, BarLength, Offset, EvaluateOffset
  <2>10. /\ 1440 * y + 60 * x + m = 5 <=> m = 5 /\ x = 0 /\ y = 0
         /\ 1440 * y + 60 * x + m = 8 <=> m = 8 /\ x = 0 /\ y = 0
    OBVIOUS
  <2> QED
    BY <2>5, <2>8, <2>9, <2>10
<1> HIDE DEF IngestIsDue, EvaluateIsDue, BarLength, Offset, EvaluateOffset
<1> QED
  BY <1>0, <1>1, <1>2, <1>3, <1>4, <1>5, <1>6, <1>7, <1>8, Zenon DEF Intervals

\* The remainder of a number that is no larger than its modulus.
LEMMA Wraps ==
  ASSUME NEW c \in Nat \ {0}, NEW n \in 0 .. c
  PROVE  n % c = IF n = c THEN 0 ELSE n
  OBVIOUS

\* With every minute the phase grows by one or a bar closes.
LEMMA PhaseGrows ==
  ASSUME BeatTypeOK, NEW t, t = (minute + 1) % Cycle[interval]
  PROVE  /\ t \in 0 .. Cycle[interval] - 1
         /\ Phase \in 0 .. BarLength(interval) - 1
         /\ t % BarLength(interval) =
              IF Phase = BarLength(interval) - 1 THEN 0 ELSE Phase + 1
<1> DEFINE L == BarLength(interval)
<1>1. PICK c \in Nat \ {0} : c = Cycle[interval] /\ c % L = 0
  BY ScheduleBounds DEF BeatTypeOK
<1>2. minute \in 0 .. c - 1
  BY <1>1 DEF BeatTypeOK
<1>3. t = IF minute + 1 = c THEN 0 ELSE minute + 1
  BY <1>1, <1>2, Wraps
<1>4. L \in {1, 5, 15, 30, 60, 240, 1440, 10080}
  BY Lengths, ScheduleBounds DEF BeatTypeOK
<1> HIDE DEF L
<1>5. /\ minute % L \in 0 .. L - 1
      /\ t % L = IF minute % L = L - 1 THEN 0 ELSE (minute % L) + 1
  BY <1>1, <1>2, <1>3, <1>4
<1> QED
  BY <1>1, <1>2, <1>3, <1>5 DEF L, Phase

------------------------------------------------------------------------------
(* How long a fan-out waits for a process.                                 *)

\* What every action but MaxWait's bound says of the types.
BeatTypes ==
  /\ interval \in Tiers
  /\ minute \in 0 .. Cycle[interval] - 1
  /\ ingests \subseteq Nat /\ evaluates \subseteq Nat
  /\ backtest \in [Processes -> {Free} \cup 0 .. TimeLimit]
  /\ missing \in Nat
  /\ unevaluated \in 0 .. MaxBehind
  /\ starved \in BOOLEAN
  /\ backtests \in 0 .. MaxBacktests

\* What the backtests begun so far leave process w to wait, at most.
Patience(w) ==
  Latency + TimeLimit * backtests
    - (IF backtest[w] = Free THEN 0 ELSE TimeLimit - backtest[w])

\* The inductive invariant: a fan-out that waits longer than Latency has seen
\* every process busy, so no process has more of its backtests left than the
\* fan-out may still wait.
WaitInv ==
  \A w \in Processes :
    /\ backtest[w] # Free => backtests >= 1
    /\ \A age \in WaitingAges : age <= Patience(w)

\* TimeLimit * n, where n are the backtests begun.
LEMMA LimitsAddUp ==
  /\ Latency \in Nat /\ TimeLimit \in Nat \ {0} /\ MaxBacktests \in Nat
  /\ \A n \in Nat : /\ TimeLimit * n \in Nat
                    /\ TimeLimit * (n + 1) = TimeLimit * n + TimeLimit
                    /\ n >= 1 => TimeLimit * n >= TimeLimit
                    /\ n <= MaxBacktests => TimeLimit * n <= TimeLimit * MaxBacktests
<1>1. /\ Latency \in Nat /\ TimeLimit \in Nat \ {0} /\ MaxBacktests \in Nat
  BY ScheduleBounds
<1>2. ASSUME NEW n \in Nat
      PROVE  /\ TimeLimit * n \in Nat
             /\ TimeLimit * (n + 1) = TimeLimit * n + TimeLimit
             /\ n >= 1 => TimeLimit * n >= TimeLimit
             /\ n <= MaxBacktests => TimeLimit * n <= TimeLimit * MaxBacktests
  BY <1>1
<1> QED
  BY <1>1, <1>2

\* No fan-out waits longer than the backtests can last.
LEMMA WaitsAreBounded == BeatTypes /\ WaitInv => BeatTypeOK
<1> SUFFICES ASSUME BeatTypes, WaitInv PROVE WaitingAges \subseteq 0 .. MaxWait
  BY DEF BeatTypes, BeatTypeOK, WaitingAges
<1>1. PICK w \in Processes : TRUE
  BY ScheduleBounds
<1>2. Patience(w) <= MaxWait /\ MaxWait \in Nat /\ Patience(w) \in Int
  <2>1. /\ backtests \in Nat /\ backtests <= MaxBacktests
        /\ backtest[w] = Free \/ backtest[w] \in 0 .. TimeLimit
    BY <1>1, LimitsAddUp DEF BeatTypes
  <2> QED
    BY <2>1, LimitsAddUp DEF Patience, MaxWait, Free
<1>3. \A age \in WaitingAges : age \in Nat /\ age <= Patience(w)
  BY <1>1 DEF BeatTypes, WaitInv, WaitingAges
<1> QED
  BY <1>2, <1>3

\* What a minute does to the ages.
LEMMA AgesGrow ==
  ASSUME BeatTypes, MinutePasses
  PROVE  /\ ingests' \subseteq Nat /\ evaluates' \subseteq Nat
         /\ \A age \in WaitingAges' :
              age = 0 \/ (age - 1 \in WaitingAges /\ age \in Nat)
  BY DEF BeatTypes, MinutePasses, WaitingAges

\* Every step keeps the types.
LEMMA BeatTypesStep == BeatTypes /\ WaitInv /\ [BeatNext]_beatVars => BeatTypes'
<1> SUFFICES ASSUME BeatTypes, WaitInv, [BeatNext]_beatVars PROVE BeatTypes'
  OBVIOUS
<1>1. CASE MinutePasses
  <2>1. minute' \in 0 .. Cycle[interval] - 1
    BY <1>1, WaitsAreBounded, PhaseGrows DEF MinutePasses
  <2>2. backtest' \in [Processes -> {Free} \cup 0 .. TimeLimit]
    <3>1. \A w \in Processes : backtest[w] \in {Free} \cup 0 .. TimeLimit
                               /\ backtest[w] < TimeLimit
      BY <1>1 DEF MinutePasses, WithinTimeLimit, BeatTypes
    <3> QED
      BY <1>1, <3>1, ScheduleBounds DEF MinutePasses, Free
  <2>3. missing' \in Nat /\ starved' \in BOOLEAN
    BY <1>1 DEF MinutePasses, BeatTypes
  <2> QED
    BY <1>1, <2>1, <2>2, <2>3, AgesGrow DEF MinutePasses, BeatTypes
<1>2. ASSUME NEW age \in 0 .. MaxWait, RunIngest(age) PROVE BeatTypes'
  BY <1>2, ScheduleBounds DEF RunIngest, BeatTypes
<1>3. ASSUME NEW age \in 0 .. MaxWait, RunEvaluate(age) PROVE BeatTypes'
  BY <1>3, ScheduleBounds DEF RunEvaluate, BeatTypes
<1>4. ASSUME NEW w \in Processes, BacktestBegins(w) PROVE BeatTypes'
  BY <1>4, ScheduleBounds DEF BacktestBegins, BeatTypes, bars
<1>5. ASSUME NEW w \in Processes, BacktestEnds(w) PROVE BeatTypes'
  BY <1>5 DEF BacktestEnds, BeatTypes, bars
<1>6. CASE UNCHANGED beatVars
  BY <1>6 DEF beatVars, bars, BeatTypes
<1> QED
  BY <1>1, <1>2, <1>3, <1>4, <1>5, <1>6 DEF BeatNext

\* The inductive step: only a process that works on backtests, and within
\* their limit, lets a fan-out wait on.
LEMMA WaitStep == BeatTypes /\ WaitInv /\ [BeatNext]_beatVars => WaitInv'
<1> SUFFICES ASSUME BeatTypes, WaitInv, [BeatNext]_beatVars PROVE WaitInv'
  OBVIOUS
<1>0. /\ backtests \in Nat /\ ingests \subseteq Nat /\ evaluates \subseteq Nat
      /\ \A w \in Processes : backtest[w] = Free \/ backtest[w] \in 0 .. TimeLimit
  BY ScheduleBounds DEF BeatTypes
<1>a. ASSUME WaitingAges' \subseteq WaitingAges, UNCHANGED <<backtest, backtests>>
      PROVE  WaitInv'
  BY <1>a DEF WaitInv, Patience
<1>1. CASE MinutePasses
  <2> SUFFICES ASSUME NEW w \in Processes
               PROVE  /\ backtest'[w] # Free => backtests' >= 1
                      /\ \A age \in WaitingAges' : age <= Patience(w)'
    BY DEF WaitInv
  <2>1. backtests' = backtests
        /\ backtest'[w] = IF backtest[w] = Free THEN Free ELSE backtest[w] + 1
    BY <1>1 DEF MinutePasses
  <2>2. backtest'[w] # Free => backtests' >= 1
    BY <2>1 DEF WaitInv
  <2>3. Latency <= Patience(w)' /\ Patience(w)' \in Int /\ Patience(w) \in Int
    <3>1. /\ TimeLimit * backtests \in Nat /\ TimeLimit * backtests' = TimeLimit * backtests
          /\ backtest[w] # Free => TimeLimit * backtests >= TimeLimit
      BY <1>0, <2>1, LimitsAddUp DEF WaitInv
    <3>2. CASE backtest[w] = Free
      BY <2>1, <3>1, <3>2, LimitsAddUp DEF Patience
    <3>3. CASE backtest[w] # Free
      <4>1. backtest[w] \in Nat /\ backtest'[w] = backtest[w] + 1 /\ backtest'[w] # Free
        BY <1>0, <2>1, <3>3, LimitsAddUp DEF Free
      <4> QED
        BY <3>1, <3>3, <4>1, LimitsAddUp DEF Patience
    <3> QED
      BY <3>2, <3>3
  <2>4. ASSUME NEW age \in WaitingAges', age # 0 PROVE age <= Patience(w)'
    <3>1. age \in Nat /\ age - 1 \in WaitingAges
      BY <1>1, <2>4, AgesGrow
    <3>2. CASE backtest[w] = Free
      <4>1. ~(age - 1 >= Latency)
        BY <1>1, <3>1, <3>2 DEF MinutePasses, MayWaitOn, Overdue, AllBusy
      <4> QED
        BY <2>3, <3>1, <4>1, LimitsAddUp
    <3>3. CASE backtest[w] # Free
      <4>1. Patience(w)' = Patience(w) + 1
        BY <1>0, <2>1, <3>3, LimitsAddUp DEF Patience, Free
      <4>2. age - 1 <= Patience(w)
        BY <3>1 DEF WaitInv
      <4> QED
        BY <2>3, <3>1, <4>1, <4>2
    <3> QED
      BY <3>2, <3>3
  <2>5. 0 <= Patience(w)'
    BY <2>3, LimitsAddUp
  <2> QED
    BY <2>2, <2>4, <2>5
<1>2. ASSUME NEW age \in 0 .. MaxWait, RunIngest(age) \/ RunEvaluate(age)
      PROVE  WaitInv'
  BY <1>2, <1>a DEF RunIngest, RunEvaluate, WaitingAges
<1>3. ASSUME NEW v \in Processes, BacktestBegins(v) PROVE WaitInv'
  <2>1. /\ backtests' = backtests + 1 /\ backtest[v] = Free
        /\ backtest' = [backtest EXCEPT ![v] = 0]
        /\ WaitingAges' = WaitingAges
    BY <1>3 DEF BacktestBegins, WaitingAges
  <2>2. TimeLimit * backtests' = TimeLimit * backtests + TimeLimit
    BY <1>0, <2>1, LimitsAddUp
  <2>3. ASSUME NEW w \in Processes
        PROVE  Patience(w) <= Patience(w)'
               /\ Patience(w)' \in Int /\ Patience(w) \in Int
    <3>1. backtest'[w] = IF w = v THEN 0 ELSE backtest[w]
      BY <2>1 DEF BeatTypes
    <3> QED
      BY <1>0, <2>1, <2>2, <2>3, <3>1, LimitsAddUp DEF Patience, Free
  <2>4. backtests' >= 1
    BY <1>0, <2>1
  <2>5. \A age \in WaitingAges : age \in Nat
    BY <1>0 DEF WaitingAges
  <2> QED
    BY <2>1, <2>3, <2>4, <2>5 DEF WaitInv
<1>4. ASSUME NEW v \in Processes, BacktestEnds(v) PROVE WaitInv'
  <2>1. /\ backtests' = backtests /\ backtest' = [backtest EXCEPT ![v] = Free]
        /\ WaitingAges' = WaitingAges
    BY <1>4 DEF BacktestEnds, WaitingAges, bars
  <2>2. ASSUME NEW w \in Processes
        PROVE  /\ Patience(w) <= Patience(w)'
               /\ Patience(w)' \in Int /\ Patience(w) \in Int
               /\ backtest'[w] # Free => backtest[w] # Free
    <3>1. backtest'[w] = IF w = v THEN Free ELSE backtest[w]
      BY <2>1 DEF BeatTypes
    <3> QED
      BY <1>0, <2>1, <2>2, <3>1, LimitsAddUp DEF Patience, Free
  <2>3. \A age \in WaitingAges : age \in Nat
    BY <1>0 DEF WaitingAges
  <2>4. ASSUME NEW w \in Processes, NEW age \in WaitingAges PROVE age <= Patience(w)'
    BY <2>2, <2>3 DEF WaitInv
  <2> QED
    BY <2>1, <2>2, <2>4 DEF WaitInv
<1>5. CASE UNCHANGED beatVars
  BY <1>5, <1>a DEF beatVars, WaitingAges
<1> QED
  BY <1>1, <1>2, <1>3, <1>4, <1>5 DEF BeatNext

\* Nobody waits to begin with.
LEMMA BeatStarts == BeatInit => BeatTypes /\ WaitInv
<1> SUFFICES ASSUME BeatInit PROVE BeatTypes /\ WaitInv
  OBVIOUS
<1>1. Cycle[interval] \in Nat \ {0}
  BY ScheduleBounds DEF BeatInit
<1>2. BeatTypes
  <2>1. minute \in 0 .. Cycle[interval] - 1 /\ backtest \in [Processes -> {Free}]
    BY <1>1 DEF BeatInit
  <2>2. 0 \in 0 .. MaxBehind /\ 0 \in 0 .. MaxBacktests
    BY ScheduleBounds
  <2> QED
    BY <2>1, <2>2 DEF BeatInit, BeatTypes
<1>3. WaitInv
  BY DEF BeatInit, WaitInv, WaitingAges
<1> QED
  BY <1>2, <1>3

\* The types hold, and no fan-out waits longer than the backtests can last.
THEOREM BeatTypeCorrect == BeatSpec => []BeatTypeOK
  BY BeatStarts, BeatTypesStep, WaitStep, WaitsAreBounded, PTL DEF BeatSpec

------------------------------------------------------------------------------
(* Every bar is stored in time.                                            *)

\* The inductive invariant: a fan-out that waited longer than Latency is on
\* record, and once the oldest bar that is not stored was due for its ingest,
\* that ingest is waiting, as old as the bar is overdue.
LandInv ==
  /\ ~starved => \A age \in WaitingAges : age <= Latency
  /\ missing > 0 /\ Behind >= Offset => Behind - Offset \in ingests

\* The length of a bar, the offset and the phase.
LEMMA PhaseTypes ==
  ASSUME BeatTypeOK
  PROVE  /\ BarLength(interval) \in Nat \ {0} /\ Phase \in 0 .. BarLength(interval) - 1
         /\ BarLength(interval) < 30 => Offset = 0 /\ EvaluateOffset = 0
         /\ BarLength(interval) >= 30 => Offset = 5 /\ EvaluateOffset = 8
         /\ Offset \in 0 .. BarLength(interval) - 1
<1>1. BarLength(interval) \in {1, 5, 15, 30, 60, 240, 1440, 10080}
  BY Lengths, ScheduleBounds DEF BeatTypeOK
<1>2. Phase \in 0 .. BarLength(interval) - 1
  BY PhaseGrows
<1> QED
  BY <1>1, <1>2 DEF Offset, EvaluateOffset

\* What a minute does, counted in phases.
LEMMA MinutesAndPhases ==
  ASSUME BeatTypeOK, MinutePasses
  PROVE  /\ interval' = interval
         /\ Phase' = IF Phase = BarLength(interval) - 1 THEN 0 ELSE Phase + 1
         /\ ingests' = {a + 1 : a \in ingests}
                         \cup (IF Phase' = Offset THEN {0} ELSE {})
         /\ evaluates' = {a + 1 : a \in evaluates}
                           \cup (IF Phase' = EvaluateOffset THEN {0} ELSE {})
         /\ missing' = IF Phase' = 0 THEN missing + 1 ELSE missing
         /\ unevaluated' = unevaluated
<1>1. PICK t : t = (minute + 1) % Cycle[interval]
  OBVIOUS
<1>2. /\ interval' = interval /\ minute' = t /\ unevaluated' = unevaluated
      /\ ingests' = {a + 1 : a \in ingests}
                      \cup (IF IngestIsDue(interval, t) THEN {0} ELSE {})
      /\ evaluates' = {a + 1 : a \in evaluates}
                        \cup (IF EvaluateIsDue(interval, t) THEN {0} ELSE {})
      /\ missing' = IF t % BarLength(interval) = 0 THEN missing + 1 ELSE missing
  BY <1>1 DEF MinutePasses
<1>3. /\ t \in Nat
      /\ t % BarLength(interval) =
           IF Phase = BarLength(interval) - 1 THEN 0 ELSE Phase + 1
  BY <1>1, PhaseGrows
<1>4. Phase' = t % BarLength(interval)
  BY <1>2 DEF Phase
<1> QED
  BY <1>2, <1>3, <1>4, DueOnceABar

\* Behind, in phases; bars are not shorter than their offset.
LEMMA BehindAndPhase ==
  ASSUME BeatTypeOK
  PROVE  /\ Behind = (missing - 1) * BarLength(interval) + Phase
         /\ Behind \in Int
         /\ missing = 1 => Behind = Phase
         /\ missing > 1 => Behind >= BarLength(interval)
<1>1. missing \in Nat /\ BarLength(interval) \in Nat /\ Phase \in Nat
  BY PhaseTypes DEF BeatTypeOK
<1>2. \A m \in Nat, n \in Nat : m > 1 => (m - 1) * n \in Int /\ (m - 1) * n >= n
  OBVIOUS
<1>3. \A m \in Nat, n \in Nat : (m - 1) * n \in Int /\ (m = 1 => (m - 1) * n = 0)
  OBVIOUS
<1>4. Behind = (missing - 1) * BarLength(interval) + Phase
  BY DEF Behind, Phase
<1> QED
  BY <1>1, <1>2, <1>3, <1>4

\* The inductive step: an ingest is published when a bar is due for it, grows
\* as old as the bar is overdue, and stores all of them.
LEMMA LandStep == BeatTypeOK /\ LandInv /\ [BeatNext]_beatVars => LandInv'
<1> SUFFICES ASSUME BeatTypeOK, LandInv, [BeatNext]_beatVars PROVE LandInv'
  OBVIOUS
<1>0. /\ ingests \subseteq Nat /\ evaluates \subseteq Nat /\ Latency \in Nat
      /\ missing \in Nat
  BY ScheduleBounds DEF BeatTypeOK
<1>1. CASE MinutePasses
  <2>1. ~starved' => \A age \in WaitingAges' : age <= Latency
    <3> SUFFICES ASSUME ~starved', NEW age \in WaitingAges' PROVE age <= Latency
      OBVIOUS
    <3>1. ~Overdue
      BY <1>1 DEF MinutePasses
    <3>2. age = 0 \/ \E a \in WaitingAges : age = a + 1
      BY <1>1 DEF MinutePasses, WaitingAges
    <3>3. \A a \in WaitingAges : a \in Nat /\ a < Latency
      BY <1>0, <3>1 DEF Overdue, WaitingAges
    <3> QED
      BY <1>0, <3>2, <3>3
  <2>2. ASSUME missing' > 0, Behind' >= Offset' PROVE Behind' - Offset' \in ingests'
    <3>0. /\ interval' = interval /\ Offset' = Offset
          /\ Phase' = IF Phase = BarLength(interval) - 1 THEN 0 ELSE Phase + 1
          /\ ingests' = {a + 1 : a \in ingests}
                          \cup (IF Phase' = Offset THEN {0} ELSE {})
          /\ missing' = IF Phase' = 0 THEN missing + 1 ELSE missing
          /\ Behind' = (missing' - 1) * BarLength(interval) + Phase'
      BY <1>1, MinutesAndPhases DEF Offset, Behind, Phase
    <3>1. /\ BarLength(interval) \in Nat \ {0}
          /\ Phase \in 0 .. BarLength(interval) - 1
          /\ Offset \in 0 .. BarLength(interval) - 1
      BY PhaseTypes
    <3>2. CASE missing = 0
      <4>1. missing' = 1 /\ Phase' = 0 /\ Behind' = 0 * BarLength(interval) + 0
        BY <1>0, <2>2, <3>0, <3>2
      <4>2. Behind' = 0 /\ Offset = 0
        BY <2>2, <3>0, <3>1, <4>1
      <4> QED
        BY <3>0, <4>1, <4>2
    <3>3. CASE missing > 0
      <4>1. Behind' = Behind + 1
        <5>1. PICK n \in Nat \ {0} : n = BarLength(interval)
          BY <3>1
        <5>2. \A m \in Nat : ((m + 1) - 1) * n + 0 = ((m - 1) * n + (n - 1)) + 1
          OBVIOUS
        <5>3. \A m \in Nat : (m - 1) * n \in Int
          OBVIOUS
        <5>4. CASE Phase = n - 1
          <6>1. Behind' = ((missing + 1) - 1) * n + 0
            BY <3>0, <5>1, <5>4
          <6>2. Behind = (missing - 1) * n + (n - 1)
            BY <5>1, <5>4, BehindAndPhase
          <6> QED
            BY <1>0, <5>2, <6>1, <6>2
        <5>5. CASE Phase # n - 1
          <6>1. Behind' = (missing - 1) * n + (Phase + 1)
            BY <3>0, <3>1, <5>1, <5>5
          <6>2. Behind = (missing - 1) * n + Phase
            BY <5>1, BehindAndPhase
          <6>3. (missing - 1) * n \in Int
            BY <1>0, <5>3
          <6> QED
            BY <3>1, <6>1, <6>2, <6>3
        <5> QED
          BY <5>4, <5>5
      <4>2. CASE Behind >= Offset
        <5>1. Behind - Offset \in ingests
          BY <3>3, <4>2 DEF LandInv
        <5>2. Behind' - Offset' = (Behind - Offset) + 1
          BY <3>0, <3>1, <4>1, BehindAndPhase
        <5> QED
          BY <3>0, <5>1, <5>2
      <4>3. CASE Behind < Offset
        <5>1. missing = 1 /\ Behind = Phase
          BY <1>0, <3>1, <3>3, <4>3, BehindAndPhase
        <5>2. Behind' = Offset /\ Phase' = Offset
          BY <2>2, <3>0, <3>1, <4>1, <4>3, <5>1
        <5> QED
          BY <3>0, <3>1, <5>2
      <4> QED
        BY <3>1, <4>2, <4>3, BehindAndPhase
    <3> QED
      BY <1>0, <3>2, <3>3
  <2> QED
    BY <2>1, <2>2 DEF LandInv
<1>2. ASSUME NEW age \in 0 .. MaxWait, RunIngest(age) PROVE LandInv'
  BY <1>2 DEF RunIngest, LandInv, WaitingAges
<1>3. ASSUME NEW age \in 0 .. MaxWait, RunEvaluate(age) PROVE LandInv'
  BY <1>3 DEF RunEvaluate, LandInv, WaitingAges, Behind, Offset
<1>4. ASSUME NEW w \in Processes, BacktestBegins(w) \/ BacktestEnds(w)
      PROVE  LandInv'
  BY <1>4 DEF BacktestBegins, BacktestEnds, LandInv, WaitingAges, Behind, Offset, bars
<1>5. CASE UNCHANGED beatVars
  BY <1>5 DEF beatVars, LandInv, WaitingAges, Behind, Offset, bars
<1> QED
  BY <1>1, <1>2, <1>3, <1>4, <1>5 DEF BeatNext

\* Every bar is stored within its tier's offset and the latency, and within
\* what backtests may last when they keep every process.
THEOREM BarsAreStoredInTime == BeatSpec => []BarsLandInTime
<1>1. BeatInit => LandInv
  BY DEF BeatInit, LandInv, WaitingAges
<1>2. BeatTypeOK /\ LandInv => BarsLandInTime
  <2> SUFFICES ASSUME BeatTypeOK, LandInv, missing > 0
               PROVE  Behind <= Offset + (IF starved THEN MaxWait ELSE Latency)
    BY DEF BarsLandInTime
  <2>1. /\ Latency \in Nat /\ MaxWait \in Nat /\ Offset \in Nat /\ Behind \in Int
    BY LimitsAddUp, PhaseTypes, BehindAndPhase DEF MaxWait
  <2>2. CASE Behind < Offset
    BY <2>1, <2>2
  <2>3. CASE Behind >= Offset
    <3>1. Behind - Offset \in ingests
      BY <2>3 DEF LandInv
    <3>2. /\ Behind - Offset <= MaxWait
          /\ ~starved => Behind - Offset <= Latency
      BY <2>1, <3>1 DEF LandInv, BeatTypeOK, WaitingAges
    <3> QED
      BY <2>1, <3>2
  <2> QED
    BY <2>1, <2>2, <2>3
<1> QED
  BY <1>1, <1>2, LandStep, BeatTypeCorrect, PTL DEF BeatSpec

------------------------------------------------------------------------------
(* Every bar of a slow tier is evaluated.                                  *)

\* The inductive invariant: between two bars that close there is one bar at
\* most that is not evaluated; it waits for its ingest from minute 5 on, for
\* its evaluation from minute 8 on, and the ages of both say since when.
EvaluateInv ==
  BarLength(interval) >= 30 /\ ~starved =>
    /\ missing + unevaluated <= 1
    /\ \A age \in ingests : Phase = 5 + age
    /\ \A age \in evaluates : Phase = 8 + age
    /\ missing > 0 /\ Phase >= 5 => Phase - 5 \in ingests
    /\ unevaluated > 0 => Phase >= 5 /\ (Phase >= 8 => Phase - 8 \in evaluates)

\* The inductive step: with less than three minutes of latency an ingest is
\* done before the evaluation is due, and both before the next bar closes.
LEMMA EvaluateStep ==
  ASSUME Latency < 3
  PROVE  BeatTypeOK /\ LandInv /\ EvaluateInv /\ [BeatNext]_beatVars
           => EvaluateInv'
<1> SUFFICES ASSUME BeatTypeOK, LandInv, EvaluateInv, [BeatNext]_beatVars,
                    interval' = interval => BarLength(interval) >= 30,
                    ~starved'
             PROVE  EvaluateInv'
  BY DEF EvaluateInv
<1>0. /\ ingests \subseteq Nat /\ evaluates \subseteq Nat /\ Latency \in Nat
      /\ missing \in Nat /\ unevaluated \in Nat
      /\ Phase \in Nat /\ Phase <= BarLength(interval) - 1
      /\ BarLength(interval) \in Nat
  BY ScheduleBounds, PhaseTypes DEF BeatTypeOK
<1>1. CASE MinutePasses
  <2>0. /\ interval' = interval /\ BarLength(interval) >= 30
        /\ Offset = 5 /\ EvaluateOffset = 8
        /\ Phase' = IF Phase = BarLength(interval) - 1 THEN 0 ELSE Phase + 1
        /\ ingests' = {a + 1 : a \in ingests} \cup (IF Phase' = 5 THEN {0} ELSE {})
        /\ evaluates' = {a + 1 : a \in evaluates}
                          \cup (IF Phase' = 8 THEN {0} ELSE {})
        /\ missing' = IF Phase' = 0 THEN missing + 1 ELSE missing
        /\ unevaluated' = unevaluated
    BY <1>1, MinutesAndPhases, PhaseTypes
  <2>1. /\ missing + unevaluated <= 1
        /\ \A a \in ingests : Phase = 5 + a /\ a <= Latency
        /\ \A a \in evaluates : Phase = 8 + a /\ a <= Latency
        /\ missing > 0 /\ Phase >= 5 => Phase - 5 \in ingests
        /\ unevaluated > 0 => Phase >= 5 /\ (Phase >= 8 => Phase - 8 \in evaluates)
    <3>1. CASE starved
      BY <1>0, <1>1, <3>1 DEF MinutePasses, WaitingAges
    <3>2. CASE ~starved
      BY <2>0, <3>2 DEF EvaluateInv, LandInv, WaitingAges
    <3> QED
      BY <3>1, <3>2
  <2>2. CASE Phase = BarLength(interval) - 1
    <3>1. ingests = {} /\ evaluates = {} /\ missing = 0 /\ unevaluated = 0
      BY <1>0, <2>0, <2>1, <2>2
    <3>2. /\ Phase' = 0 /\ ingests' = {} /\ evaluates' = {}
          /\ missing' = 1 /\ unevaluated' = 0
      BY <2>0, <2>2, <3>1
    <3> QED
      BY <3>2 DEF EvaluateInv
  <2>3. CASE Phase # BarLength(interval) - 1
    <3>1. Phase' = Phase + 1 /\ missing' = missing
      BY <1>0, <2>0, <2>3
    <3>2. \A age \in ingests' : Phase' = 5 + age
      BY <1>0, <2>0, <2>1, <3>1
    <3>3. \A age \in evaluates' : Phase' = 8 + age
      BY <1>0, <2>0, <2>1, <3>1
    <3>4. ASSUME missing' > 0, Phase' >= 5 PROVE Phase' - 5 \in ingests'
      <4>1. CASE Phase >= 5
        <5>1. Phase - 5 \in ingests /\ Phase' - 5 = (Phase - 5) + 1
          BY <1>0, <2>1, <3>1, <3>4, <4>1
        <5> QED
          BY <2>0, <5>1
      <4>2. CASE Phase < 5
        BY <1>0, <2>0, <3>1, <3>4, <4>2
      <4> QED
        BY <1>0, <4>1, <4>2
    <3>5. ASSUME unevaluated' > 0
          PROVE  Phase' >= 5 /\ (Phase' >= 8 => Phase' - 8 \in evaluates')
      <4>1. CASE Phase >= 8
        <5>1. Phase - 8 \in evaluates /\ Phase' - 8 = (Phase - 8) + 1
          BY <1>0, <2>0, <2>1, <3>1, <3>5, <4>1
        <5> QED
          BY <1>0, <2>0, <3>1, <4>1, <5>1
      <4>2. CASE Phase < 8
        BY <1>0, <2>0, <2>1, <3>1, <3>5, <4>2
      <4> QED
        BY <1>0, <4>1, <4>2
    <3> QED
      BY <2>0, <2>1, <3>1, <3>2, <3>3, <3>4, <3>5 DEF EvaluateInv
  <2> QED
    BY <2>2, <2>3
<1>2. ASSUME NEW age \in 0 .. MaxWait, RunIngest(age) PROVE EvaluateInv'
  <2>1. /\ interval' = interval /\ minute' = minute /\ starved' = starved
        /\ age \in ingests /\ ingests' = ingests \ {age} /\ evaluates' = evaluates
        /\ missing' = 0
        /\ unevaluated' = IF unevaluated + missing > MaxBehind THEN MaxBehind
                          ELSE unevaluated + missing
    BY <1>2 DEF RunIngest, Oldest
  <2>2. BarLength(interval) >= 30 /\ Phase' = Phase
    BY <2>1 DEF Phase
  <2>3. /\ missing + unevaluated <= 1 /\ Phase = 5 + age /\ age <= Latency
        /\ \A a \in ingests : Phase = 5 + a
        /\ \A a \in evaluates : Phase = 8 + a
    BY <2>1, <2>2 DEF EvaluateInv, LandInv, WaitingAges
  <2>4. Phase >= 5 /\ Phase < 8
    BY <1>0, <2>1, <2>3
  <2>5. unevaluated' <= 1 /\ unevaluated' \in Nat
    BY <1>0, <2>1, <2>3, ScheduleBounds
  <2> QED
    BY <2>1, <2>2, <2>3, <2>4, <2>5 DEF EvaluateInv
<1>3. ASSUME NEW age \in 0 .. MaxWait, RunEvaluate(age) PROVE EvaluateInv'
  <2>1. /\ interval' = interval /\ minute' = minute /\ starved' = starved
        /\ evaluates' = evaluates \ {age} /\ ingests' = ingests
        /\ missing' = missing /\ unevaluated' = 0
    BY <1>3 DEF RunEvaluate
  <2>2. BarLength(interval) >= 30 /\ Phase' = Phase
    BY <2>1 DEF Phase
  <2> QED
    BY <1>0, <2>1, <2>2 DEF EvaluateInv
<1>4. ASSUME NEW w \in Processes, BacktestBegins(w) \/ BacktestEnds(w)
      PROVE  EvaluateInv'
  BY <1>4 DEF BacktestBegins, BacktestEnds, EvaluateInv, Phase, bars
<1>5. CASE UNCHANGED beatVars
  BY <1>5 DEF beatVars, EvaluateInv, Phase, bars
<1> QED
  BY <1>1, <1>2, <1>3, <1>4, <1>5 DEF BeatNext

\* With less than three minutes of latency every bar of a slow tier is
\* evaluated within eight minutes and the latency, and none is passed over,
\* unless backtests kept every process.
THEOREM BarsAreEvaluated ==
  ASSUME Latency < 3
  PROVE  BeatSpec => []BarsAreEvaluatedInTime
<1>1. BeatInit => LandInv /\ EvaluateInv
  BY DEF BeatInit, LandInv, WaitingAges, EvaluateInv
<1>2. BeatTypeOK /\ LandInv /\ EvaluateInv => BarsAreEvaluatedInTime
  <2> SUFFICES ASSUME BeatTypeOK, LandInv, EvaluateInv, ~starved,
                      BarLength(interval) >= 30, missing + unevaluated > 0
               PROVE  missing + unevaluated = 1 /\ Phase <= 8 + Latency
    BY DEF BarsAreEvaluatedInTime, Phase
  <2>1. /\ ingests \subseteq Nat /\ evaluates \subseteq Nat /\ Latency \in Nat
        /\ missing \in Nat /\ unevaluated \in Nat /\ Phase \in Nat
    BY ScheduleBounds, PhaseTypes DEF BeatTypeOK
  <2>2. /\ missing + unevaluated <= 1
        /\ \A a \in ingests : Phase = 5 + a /\ a <= Latency
        /\ \A a \in evaluates : Phase = 8 + a /\ a <= Latency
        /\ missing > 0 /\ Phase >= 5 => Phase - 5 \in ingests
        /\ unevaluated > 0 => Phase >= 5 /\ (Phase >= 8 => Phase - 8 \in evaluates)
    BY DEF EvaluateInv, LandInv, WaitingAges
  <2> QED
    BY <2>1, <2>2
<1>3. BeatTypeOK /\ LandInv /\ EvaluateInv /\ [BeatNext]_beatVars => EvaluateInv'
  BY EvaluateStep
<1> QED
  BY <1>1, <1>2, <1>3, LandStep, BeatTypeCorrect, PTL DEF BeatSpec
==============================================================================
