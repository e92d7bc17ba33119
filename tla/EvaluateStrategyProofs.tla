------------------------ MODULE EvaluateStrategyProofs -----------------------
(***************************************************************************)
(* Theorems about EvaluateStrategy, for any workers, strategies, series,   *)
(* candles and verdicts, and any bounds.                                   *)
(***************************************************************************)
EXTENDS EvaluateStrategy, TLAPS

------------------------------------------------------------------------------
(* Messages.                                                               *)

\* The two tasks' messages are messages, and an evaluation names its strategy.
LEMMA EvaluationMessages ==
  /\ \A i \in Intervals : FanOutMessage(i) \in FanOutMessages
  /\ \A s \in Strategies : EvaluateMessage(s) \in EvaluateMessages
  /\ \A s \in Strategies : EvaluateMessage(s).strategy = s
  /\ FanOutMessages \subseteq Messages /\ EvaluateMessages \subseteq Messages
  /\ \A m \in EvaluateMessages :
       m.strategy \in Strategies /\ m = EvaluateMessage(m.strategy)
  /\ FanOutMessages \cap EvaluateMessages = {}
  /\ NoJob \notin Messages
  BY DEF Messages, FanOutMessages, EvaluateMessages, FanOutMessage,
         EvaluateMessage, NoJob

\* What a worker holds is a Strategy row, or nothing.
LEMMA EntriesAreRows ==
  \A e \in Entries : e.series \in Series /\ e.config \in Configs
  BY EntriesAreValid

\* engine.evaluate has a verdict for whatever config and candle.
LEMMA VerdictsAreVerdicts ==
  \A e \in Entries, t \in OpenTimes : Verdict[e.config, e.series, t] \in Verdicts
  BY EntriesAreRows, ConfigsGiveVerdicts

------------------------------------------------------------------------------
(* Type correctness.                                                       *)

\* Nothing has landed and nobody works to begin with.
LEMMA EvaluationTypeInit == Init => TypeOK
  BY DEF Init, TypeOK, EmptyQueue, IdleWorkers, EvaluateSteps, rows

\* The row a worker is at exists as a key once it has read the candles.
LEMMA RowIsAKey ==
  ASSUME TypeOK, NEW w \in Workers, pc[w] \in EvaluateSteps \ {"read_candles"}
  PROVE  /\ Row(w) \in Rows
         /\ held[w] \in Entries
         /\ last[w] \in OpenTimes
         /\ job[w] \in EvaluateMessages
         /\ VerdictOf(w) \in Verdicts
<1>1. held[w] \in Entries /\ job[w] \in EvaluateMessages
  BY DEF TypeOK
<1>2. held[w].series \in Series
  BY <1>1, EntriesAreRows
<1>3. landed[held[w].series] \in OpenTimes \cup {0}
  BY <1>2 DEF TypeOK
<1>4. last[w] \in OpenTimes
  BY <1>3, EvaluationBounds DEF TypeOK, OpenTimes
<1>5. Row(w) \in Rows
  BY <1>1, <1>4, EvaluationMessages DEF Row, Rows, Strategy
<1>6. VerdictOf(w) \in Verdicts
  BY <1>1, <1>4, VerdictsAreVerdicts DEF VerdictOf
<1> QED
  BY <1>1, <1>4, <1>5, <1>6

\* Every step keeps the types; candles only go on landing, so the one a worker
\* read has still landed.
LEMMA EvaluationTypeStep == TypeOK /\ [Next]_vars => TypeOK'
<1> SUFFICES ASSUME TypeOK, [Next]_vars PROVE TypeOK'
  OBVIOUS
<1> USE EvaluationMessages, EvaluationBounds
<1> USE DEF TypeOK, EvaluateSteps
<1>1. ASSUME NEW i \in Intervals, Tick(i) PROVE TypeOK'
  BY <1>1 DEF Tick, Publish, admin, rows, locals
<1>2. ASSUME NEW x \in Series, NEW t \in OpenTimes, CandlesLand(x, t)
      PROVE  TypeOK'
  <2>1. /\ landed' \in [Series -> OpenTimes \cup {0}]
        /\ \A y \in Series : landed[y] <= landed'[y]
    BY <1>2 DEF CandlesLand, OpenTimes
  <2>2. \A w \in Workers :
          pc[w] \in EvaluateSteps \ {"read_candles"}
            => last[w] \in 1 .. landed'[held[w].series]
    BY <2>1, EntriesAreRows DEF OpenTimes
  <2> QED
    BY <1>2, <2>1, <2>2 DEF CandlesLand, admin, rows, locals, counters
<1>3. ASSUME NEW s \in Strategies, NEW e \in Entries, EditStrategy(s, e)
      PROVE  TypeOK'
  BY <1>3 DEF EditStrategy, rows, locals, counters
<1>4. ASSUME NEW s \in Strategies, ToggleStrategy(s) PROVE TypeOK'
  BY <1>4 DEF ToggleStrategy, rows, locals, counters
<1>5. ASSUME NEW w \in Workers, NEW i \in Intervals, FanOutReadsStrategies(w, i)
      PROVE  TypeOK'
  BY <1>5 DEF FanOutReadsStrategies, Begin, Take, Waiting, admin, rows, counters
<1>6. ASSUME NEW w \in Workers, NEW s \in Strategies, FanOutPublishes(w, s)
      PROVE  TypeOK'
  BY <1>6 DEF FanOutPublishes, Publish, admin, rows, counters
<1>7. ASSUME NEW w \in Workers, NEW s \in Strategies, EvaluateReadsStrategy(w, s)
      PROVE  TypeOK'
  BY <1>7 DEF EvaluateReadsStrategy, Begin, Take, Waiting, admin, rows, counters
<1>8. ASSUME NEW w \in Workers, EvaluateReadsCandles(w) PROVE TypeOK'
  <2>1. held[w].series \in Series
    BY <1>8, EntriesAreRows DEF EvaluateReadsCandles
  <2>2. /\ landed[held[w].series] \in OpenTimes \cup {0}
        /\ landed[held[w].series] # 0
             => landed[held[w].series] \in 1 .. landed[held[w].series]
    BY <2>1 DEF OpenTimes
  <2> QED
    BY <1>8, <2>2
    DEF EvaluateReadsCandles, NothingIngested, Goto, admin, rows, counters
<1>9. ASSUME NEW w \in Workers, EvaluateRecordsVerdict(w) PROVE TypeOK'
  BY <1>9, RowIsAKey DEF EvaluateRecordsVerdict, Goto, admin, counters
<1>10. ASSUME NEW w \in Workers, EvaluateLooksUpRow(w) PROVE TypeOK'
  BY <1>10 DEF EvaluateLooksUpRow, AfterTrigger, Goto, admin, rows, counters
<1>11. ASSUME NEW w \in Workers, RecordSignal(w) PROVE TypeOK'
  BY <1>11, RowIsAKey DEF RecordSignal, Goto, admin, counters
<1>12. ASSUME NEW w \in Workers, PublishDispatch(w) PROVE TypeOK'
  BY <1>12, RowIsAKey DEF PublishDispatch, Goto, admin, counters
<1>13. ASSUME NEW w \in Workers, Acknowledge(w) PROVE TypeOK'
  BY <1>13 DEF Acknowledge, Forget, Release, admin, rows, counters
<1>14. ASSUME NEW w \in Workers, WorkerLost(w) PROVE TypeOK'
  <2>1. job[w] \in Messages
    BY <1>14 DEF WorkerLost
  <2> QED
    BY <1>14, <2>1 DEF WorkerLost, GiveBack, Publish, Forget, Release, admin, rows
<1>15. ASSUME NEW w \in Workers, TaskRaises(w) PROVE TypeOK'
  BY <1>15 DEF TaskRaises, Forget, Release, admin, rows
<1>16. CASE UNCHANGED vars
  BY <1>16 DEF vars, admin, rows, locals, counters
<1> QED
  BY <1>1, <1>2, <1>3, <1>4, <1>5, <1>6, <1>7, <1>8, <1>9, <1>10, <1>11,
     <1>12, <1>13, <1>14, <1>15, <1>16
  DEF Next, Environment, Faults, Work, EvaluationWork

\* Every reachable state is well typed; in particular a worker past its
\* reading is at the row of a candle that has landed.
THEOREM EvaluationTypeCorrect == Spec => []TypeOK
  BY EvaluationTypeInit, EvaluationTypeStep, PTL DEF Spec

------------------------------------------------------------------------------
(* Signals.                                                                *)

\* The inductive invariant: a worker on its way to a signal comes from a row
\* that is triggered, and one on its way to a dispatch from a signal.
SignalInv ==
  /\ SignalMatchesRecord
  /\ \A w \in Workers :
       /\ pc[w] = "signal" => evaluation[Row(w)] = "triggered"
       /\ pc[w] = "dispatch" => Row(w) \in signal

\* No row is ever rewritten: that keeps the signals of the rows true, whoever
\* computed what meanwhile.
LEMMA SignalStep == TypeOK /\ SignalInv /\ [Next]_vars => SignalInv'
<1> SUFFICES ASSUME TypeOK, SignalInv, [Next]_vars PROVE SignalInv'
  OBVIOUS
<1> USE DEF SignalInv, SignalMatchesRecord, Row, Strategy
<1>1. CASE Environment
  BY <1>1 DEF Environment, Tick, CandlesLand, EditStrategy, ToggleStrategy,
              admin, rows, locals
<1>2. ASSUME NEW w \in Workers,
             \/ \E i \in Intervals : FanOutReadsStrategies(w, i)
             \/ \E s \in Strategies :
                  FanOutPublishes(w, s) \/ EvaluateReadsStrategy(w, s)
             \/ EvaluateReadsCandles(w) \/ Acknowledge(w)
             \/ WorkerLost(w) \/ TaskRaises(w)
      PROVE  SignalInv'
  BY <1>2 DEF FanOutReadsStrategies, FanOutPublishes, EvaluateReadsStrategy,
              EvaluateReadsCandles, Acknowledge, WorkerLost, TaskRaises, Begin,
              Goto, Forget, Release, rows, TypeOK
<1>3. ASSUME NEW w \in Workers, EvaluateRecordsVerdict(w) PROVE SignalInv'
  <2>1. \A r : evaluation[r] = "triggered" => evaluation'[r] = "triggered"
    BY <1>3, RowIsAKey
    DEF EvaluateRecordsVerdict, NoConflict, TypeOK, EvaluateSteps
  <2> QED
    BY <1>3, <2>1 DEF EvaluateRecordsVerdict, Goto, TypeOK
<1>4. ASSUME NEW w \in Workers, EvaluateLooksUpRow(w) PROVE SignalInv'
  BY <1>4 DEF EvaluateLooksUpRow, AfterTrigger, Recorded, Goto, rows, TypeOK
<1>5. ASSUME NEW w \in Workers, RecordSignal(w) PROVE SignalInv'
  BY <1>5 DEF RecordSignal, Goto, TypeOK
<1>6. ASSUME NEW w \in Workers, PublishDispatch(w) PROVE SignalInv'
  BY <1>6 DEF PublishDispatch, Goto, TypeOK
<1>7. CASE UNCHANGED vars
  BY <1>7 DEF vars, rows, locals
<1> QED
  BY <1>1, <1>2, <1>3, <1>4, <1>5, <1>6, <1>7
  DEF Next, Faults, Work, EvaluationWork

\* A signal's evaluation is triggered, however workers with different configs
\* raced for its row, and whatever was redelivered after an edit.
THEOREM SignalsAreFounded == Spec => []SignalMatchesRecord
<1>1. Init => SignalInv
  BY DEF Init, SignalInv, SignalMatchesRecord, IdleWorkers
<1>2. SignalInv => SignalMatchesRecord
  BY DEF SignalInv
<1> QED
  BY <1>1, <1>2, SignalStep, EvaluationTypeCorrect, PTL DEF Spec

------------------------------------------------------------------------------
(* Dispatches.                                                             *)

\* A strategy keeps its series until it is moved, also in the workers that
\* loaded it earlier; so none of its rows is of a candle still to come.
SeriesInv ==
  /\ \A w \in Workers :
       pc[w] \in EvaluateSteps /\ job[w].strategy \notin moved
         => held[w].series = entry[job[w].strategy].series
  /\ \A r \in Rows :
       evaluation[r] # "none" /\ r[1] \notin moved
         => r[2] <= landed[entry[r[1]].series]

\* Only an edit changes a series, and it counts the strategy as moved.
LEMMA SeriesStep == TypeOK /\ SeriesInv /\ [Next]_vars => SeriesInv'
<1> SUFFICES ASSUME TypeOK, SeriesInv, [Next]_vars PROVE SeriesInv'
  OBVIOUS
<1> USE DEF SeriesInv, TypeOK
<1>1. ASSUME NEW x \in Series, NEW t \in OpenTimes, CandlesLand(x, t)
      PROVE  SeriesInv'
  <2>1. \A y \in Series : /\ landed[y] <= landed'[y]
                          /\ landed[y] \in Nat /\ landed'[y] \in Nat
    BY <1>1 DEF CandlesLand, OpenTimes
  <2>2. \A r \in Rows : r[1] \in Strategies /\ r[2] \in Nat
    BY DEF Rows, OpenTimes
  <2>3. \A s \in Strategies : entry[s].series \in Series
    BY EntriesAreRows
  <2> QED
    BY <1>1, <2>1, <2>2, <2>3 DEF CandlesLand, admin, rows, locals
<1>2. ASSUME NEW s \in Strategies, NEW e \in Entries, EditStrategy(s, e)
      PROVE  SeriesInv'
  <2>1. \A u \in Strategies \ moved' : entry'[u].series = entry[u].series
    BY <1>2 DEF EditStrategy
  <2>2. moved \subseteq moved'
    BY <1>2 DEF EditStrategy
  <2>3. \A w \in Workers : pc[w] \in EvaluateSteps => job[w].strategy \in Strategies
    BY EvaluationMessages
  <2> QED
    BY <1>2, <2>1, <2>2, <2>3 DEF EditStrategy, Rows, rows, locals
<1>3. ASSUME NEW w \in Workers, NEW s \in Strategies, EvaluateReadsStrategy(w, s)
      PROVE  SeriesInv'
  BY <1>3, EvaluationMessages
  DEF EvaluateReadsStrategy, Begin, admin, rows, EvaluateSteps
<1>4. ASSUME NEW w \in Workers, EvaluateRecordsVerdict(w) PROVE SeriesInv'
  <2>1. \A r \in Rows : evaluation'[r] # evaluation[r] => r = Row(w)
    BY <1>4 DEF EvaluateRecordsVerdict
  <2>2. pc[w] \in EvaluateSteps \ {"read_candles"}
    BY <1>4 DEF EvaluateRecordsVerdict, EvaluateSteps
  <2>3. last[w] <= landed[held[w].series]
    BY <2>2
  <2>4. \A v \in Workers : pc'[v] \in EvaluateSteps => pc[v] \in EvaluateSteps
    BY <1>4, <2>2 DEF EvaluateRecordsVerdict, Goto
  <2> QED
    BY <1>4, <2>1, <2>2, <2>3, <2>4
    DEF EvaluateRecordsVerdict, admin, Row, Strategy
<1>5. ASSUME UNCHANGED <<landed, entry, moved, evaluation>>,
             \A w \in Workers : pc'[w] \in EvaluateSteps =>
               /\ pc[w] \in EvaluateSteps
               /\ job'[w] = job[w] /\ held'[w] = held[w]
      PROVE  SeriesInv'
  BY <1>5
<1>6. CASE UNCHANGED vars
  BY <1>6 DEF vars, admin, rows, locals
<1>7. ASSUME NEW i \in Intervals, Tick(i) PROVE SeriesInv'
  BY <1>7 DEF Tick, admin, rows, locals
<1>8. ASSUME NEW s \in Strategies, ToggleStrategy(s) PROVE SeriesInv'
  BY <1>8 DEF ToggleStrategy, rows, locals
<1>9. ASSUME NEW w \in Workers,
             \/ \E i \in Intervals : FanOutReadsStrategies(w, i)
             \/ \E s \in Strategies : FanOutPublishes(w, s)
             \/ EvaluateReadsCandles(w) \/ EvaluateLooksUpRow(w)
             \/ RecordSignal(w) \/ PublishDispatch(w) \/ Acknowledge(w)
             \/ WorkerLost(w) \/ TaskRaises(w)
      PROVE  SeriesInv'
  BY <1>5, <1>9
  DEF FanOutReadsStrategies, FanOutPublishes, EvaluateReadsCandles,
      EvaluateLooksUpRow, RecordSignal, PublishDispatch, Acknowledge,
      WorkerLost, TaskRaises, Begin, Goto, Forget, Release, admin, rows,
      EvaluateSteps
<1> QED
  BY <1>1, <1>2, <1>3, <1>4, <1>6, <1>7, <1>8, <1>9
  DEF Next, Environment, Faults, Work, EvaluationWork

\* Worker w is on its way to the dispatch of row r.
Owes(w, r) ==
  /\ pc[w] \in EvaluateSteps
  /\ job[w].strategy = r[1]
  /\ IF pc[w] = "read_candles"
     THEN r[2] = landed[held[w].series] ELSE r[2] = last[w]

\* The inductive step: whatever a worker does with the row it is at, it goes on
\* to the dispatch, or its message returns.
LEMMA OwedStep ==
  TypeOK /\ SeriesInv /\ TriggeredIsOwedWhileNewest /\ [Next]_vars
    => TriggeredIsOwedWhileNewest'
<1> SUFFICES ASSUME TypeOK, SeriesInv, TriggeredIsOwedWhileNewest, [Next]_vars,
                    NEW r \in Rows, abandoned' = 0,
                    evaluation'[r] = "triggered", dispatched'[r] = 0,
                    r[1] \notin moved', r[2] = landed'[entry'[r[1]].series]
             PROVE  DispatchIsOwed(r)'
  BY DEF TriggeredIsOwedWhileNewest
<1>a. /\ r[1] \in Strategies /\ r[2] \in OpenTimes /\ r = <<r[1], r[2]>>
      /\ entry[r[1]].series \in Series
  BY EntriesAreRows DEF Rows, TypeOK
<1>b. ASSUME UNCHANGED <<evaluation, dispatched, landed, entry, moved, abandoned>>
      PROVE  DispatchIsOwed(r)
  BY <1>b DEF TriggeredIsOwedWhileNewest
<1>c. ASSUME DispatchIsOwed(r), UNCHANGED <<landed, entry>>,
             \A s \in Strategies :
               Waiting(EvaluateMessage(s)) => Waiting(EvaluateMessage(s))',
             \A w \in Workers : Owes(w, r) => Owes(w, r)'
      PROVE  DispatchIsOwed(r)'
  BY <1>a, <1>c DEF DispatchIsOwed, Owes
<1>1. ASSUME NEW i \in Intervals, Tick(i) PROVE DispatchIsOwed(r)'
  <2>1. \A m \in Messages : Waiting(m) => Waiting(m)'
    BY <1>1, EvaluationMessages DEF Tick, Publish, Waiting, TypeOK
  <2> QED
    BY <1>1, <1>b, <1>c, <2>1, EvaluationMessages
    DEF Tick, admin, rows, locals, Owes
<1>2. ASSUME NEW x \in Series, NEW t \in OpenTimes, CandlesLand(x, t)
      PROVE  DispatchIsOwed(r)'
  <2>1. r[2] <= landed[entry[r[1]].series]
    BY <1>2, <1>a DEF CandlesLand, admin, rows, SeriesInv
  <2>2. entry[r[1]].series # x
    BY <1>2, <1>a, <2>1, EvaluationBounds
    DEF CandlesLand, admin, TypeOK, OpenTimes
  <2>3. DispatchIsOwed(r)
    BY <1>2, <1>a, <2>2
    DEF CandlesLand, admin, rows, counters, TypeOK, TriggeredIsOwedWhileNewest
  <2>4. \A w \in Workers : Owes(w, r) => held[w].series = entry[r[1]].series
    BY <1>2 DEF SeriesInv, Owes, CandlesLand, admin
  <2>5. \A w \in Workers : Owes(w, r) => Owes(w, r)'
    BY <1>2, <1>a, <2>2, <2>4 DEF Owes, CandlesLand, locals, TypeOK
  <2> QED
    BY <1>2, <1>a, <2>2, <2>3, <2>5
    DEF DispatchIsOwed, Owes, Waiting, CandlesLand, admin, TypeOK
<1>3. ASSUME NEW s \in Strategies, NEW e \in Entries, EditStrategy(s, e)
      PROVE  DispatchIsOwed(r)'
  <2>1. r[1] \notin moved /\ entry'[r[1]].series = entry[r[1]].series
    BY <1>3, <1>a DEF EditStrategy, TypeOK
  <2>2. DispatchIsOwed(r)
    BY <1>3, <2>1 DEF EditStrategy, rows, counters, TriggeredIsOwedWhileNewest
  <2> QED
    BY <1>3, <2>1, <2>2 DEF EditStrategy, DispatchIsOwed, Waiting, locals
<1>4. ASSUME NEW s \in Strategies, ToggleStrategy(s) PROVE DispatchIsOwed(r)'
  BY <1>4, <1>b, <1>c DEF ToggleStrategy, rows, locals, counters, Waiting, Owes
<1>5. ASSUME NEW w \in Workers, NEW i \in Intervals, FanOutReadsStrategies(w, i)
      PROVE  DispatchIsOwed(r)'
  <2>1. \A m \in EvaluateMessages : Waiting(m) => Waiting(m)'
    BY <1>5, EvaluationMessages
    DEF FanOutReadsStrategies, Begin, Take, Waiting, TypeOK
  <2>2. \A v \in Workers : Owes(v, r) => Owes(v, r)'
    BY <1>5 DEF FanOutReadsStrategies, Begin, Take, Owes, EvaluateSteps
  <2> QED
    BY <1>5, <1>b, <1>c, <2>1, <2>2, EvaluationMessages
    DEF FanOutReadsStrategies, admin, rows, counters
<1>6. ASSUME NEW w \in Workers, NEW s \in Strategies, FanOutPublishes(w, s)
      PROVE  DispatchIsOwed(r)'
  <2>1. \A m \in EvaluateMessages : Waiting(m) => Waiting(m)'
    BY <1>6, EvaluationMessages DEF FanOutPublishes, Publish, Waiting, TypeOK
  <2>2. \A v \in Workers : Owes(v, r) => Owes(v, r)'
    BY <1>6 DEF FanOutPublishes, Owes
  <2> QED
    BY <1>6, <1>b, <1>c, <2>1, <2>2, EvaluationMessages
    DEF FanOutPublishes, admin, rows, counters
<1>7. ASSUME NEW w \in Workers, NEW s \in Strategies, EvaluateReadsStrategy(w, s)
      PROVE  DispatchIsOwed(r)'
  <2>1. CASE s = r[1]
    <3>1. Owes(w, r)'
      BY <1>7, <2>1, <1>a, EvaluationMessages
      DEF EvaluateReadsStrategy, Begin, Take, Owes, TypeOK, EvaluateSteps, admin
    <3> QED
      BY <3>1 DEF DispatchIsOwed, Owes
  <2>2. CASE s # r[1]
    <3>1. Waiting(EvaluateMessage(r[1])) => Waiting(EvaluateMessage(r[1]))'
      BY <1>7, <2>2, <1>a, EvaluationMessages
      DEF EvaluateReadsStrategy, Begin, Take, Waiting, TypeOK, EvaluateMessage
    <3>2. \A v \in Workers : Owes(v, r) => Owes(v, r)'
      BY <1>7 DEF EvaluateReadsStrategy, Begin, Take, Owes, EvaluateSteps
    <3>3. DispatchIsOwed(r) /\ UNCHANGED <<landed, entry>>
      BY <1>7, <1>b DEF EvaluateReadsStrategy, admin, rows, counters
    <3> QED
      BY <3>1, <3>2, <3>3 DEF DispatchIsOwed, Owes
  <2> QED
    BY <2>1, <2>2
<1>8. ASSUME NEW w \in Workers, EvaluateReadsCandles(w) PROVE DispatchIsOwed(r)'
  <2>1. \A v \in Workers : Owes(v, r) => Owes(v, r)'
    BY <1>8, <1>a
    DEF EvaluateReadsCandles, NothingIngested, Goto, Owes, TypeOK, EvaluateSteps,
        OpenTimes
  <2> QED
    BY <1>8, <1>b, <1>c, <2>1
    DEF EvaluateReadsCandles, admin, rows, counters, Waiting
<1>9. ASSUME NEW w \in Workers, EvaluateRecordsVerdict(w)
      PROVE  DispatchIsOwed(r)'
  <2>1. CASE r = Row(w)
    <3>1. Owes(w, r)'
      BY <1>9, <2>1
      DEF EvaluateRecordsVerdict, Goto, Owes, Row, Strategy, TypeOK, EvaluateSteps
    <3> QED
      BY <3>1 DEF DispatchIsOwed, Owes
  <2>2. CASE r # Row(w)
    <3>1. evaluation'[r] = evaluation[r]
      BY <1>9, <2>2 DEF EvaluateRecordsVerdict
    <3>2. DispatchIsOwed(r)
      BY <1>9, <3>1
      DEF EvaluateRecordsVerdict, admin, counters, TriggeredIsOwedWhileNewest
    <3>3. \A v \in Workers : Owes(v, r) => Owes(v, r)'
      BY <1>9 DEF EvaluateRecordsVerdict, Goto, Owes, TypeOK, EvaluateSteps
    <3> QED
      BY <1>9, <1>c, <3>2, <3>3 DEF EvaluateRecordsVerdict, admin, Waiting
  <2> QED
    BY <2>1, <2>2
<1>10. ASSUME NEW w \in Workers, EvaluateLooksUpRow(w) PROVE DispatchIsOwed(r)'
  <2>1. \A v \in Workers : Owes(v, r) => Owes(v, r)'
    BY <1>10, <1>a
    DEF EvaluateLooksUpRow, AfterTrigger, Recorded, Row, Strategy, Goto, Owes,
        TypeOK, EvaluateSteps, rows
  <2> QED
    BY <1>10, <1>b, <1>c, <2>1 DEF EvaluateLooksUpRow, admin, rows, counters, Waiting
<1>11. ASSUME NEW w \in Workers, RecordSignal(w) PROVE DispatchIsOwed(r)'
  <2>1. \A v \in Workers : Owes(v, r) => Owes(v, r)'
    BY <1>11 DEF RecordSignal, Schedules, Goto, Owes, TypeOK, EvaluateSteps
  <2> QED
    BY <1>11, <1>b, <1>c, <2>1 DEF RecordSignal, admin, counters, Waiting
<1>12. ASSUME NEW w \in Workers, PublishDispatch(w) PROVE DispatchIsOwed(r)'
  <2>1. Row(w) # r
    BY <1>12 DEF PublishDispatch, TypeOK
  <2>2. dispatched'[r] = dispatched[r]
    BY <1>12, <2>1 DEF PublishDispatch
  <2>3. DispatchIsOwed(r)
    BY <1>12, <2>2 DEF PublishDispatch, admin, counters, TriggeredIsOwedWhileNewest
  <2>4. \A v \in Workers : Owes(v, r) => Owes(v, r)'
    BY <1>12, <1>a, <2>1
    DEF PublishDispatch, Row, Strategy, Goto, Owes, TypeOK, EvaluateSteps
  <2> QED
    BY <1>12, <1>c, <2>3, <2>4 DEF PublishDispatch, admin, Waiting
<1>13. ASSUME NEW w \in Workers, Acknowledge(w) PROVE DispatchIsOwed(r)'
  <2>1. \A v \in Workers : Owes(v, r) => Owes(v, r)'
    BY <1>13 DEF Acknowledge, Forget, Release, Owes, EvaluateSteps
  <2> QED
    BY <1>13, <1>b, <1>c, <2>1 DEF Acknowledge, admin, rows, counters, Waiting
<1>14. ASSUME NEW w \in Workers, WorkerLost(w) PROVE DispatchIsOwed(r)'
  <2>1. job[w] \in Messages
    BY <1>14, EvaluationMessages DEF WorkerLost, TypeOK
  <2>2. \A m \in Messages : Waiting(m) \/ m = job[w] => Waiting(m)'
    BY <1>14, <2>1 DEF WorkerLost, GiveBack, Publish, Waiting, TypeOK
  <2>3. CASE Owes(w, r)
    <3>1. job[w] = EvaluateMessage(r[1])
      BY <2>3, EvaluationMessages DEF Owes, TypeOK
    <3>2. Waiting(EvaluateMessage(r[1]))'
      BY <2>1, <2>2, <3>1
    <3> QED
      BY <3>2 DEF DispatchIsOwed
  <2>4. CASE ~Owes(w, r)
    <3>1. \A v \in Workers : Owes(v, r) => Owes(v, r)'
      BY <1>14, <2>4 DEF WorkerLost, Forget, Release, Owes, EvaluateSteps
    <3>2. DispatchIsOwed(r) /\ UNCHANGED <<landed, entry>>
      BY <1>14, <1>b DEF WorkerLost, admin, rows
    <3> QED
      BY <1>c, <2>2, <3>1, <3>2, EvaluationMessages
  <2> QED
    BY <2>3, <2>4
<1>15. ASSUME NEW w \in Workers, TaskRaises(w) PROVE FALSE
  BY <1>15 DEF TaskRaises, TypeOK
<1>16. CASE UNCHANGED vars
  BY <1>16, <1>b, <1>c DEF vars, admin, rows, locals, counters, Waiting, Owes
<1> QED
  BY <1>1, <1>2, <1>3, <1>4, <1>5, <1>6, <1>7, <1>8, <1>9, <1>10, <1>11,
     <1>12, <1>13, <1>14, <1>15, <1>16
  DEF Next, Environment, Faults, Work, EvaluationWork

\* While a triggered evaluation is of the newest candle of its strategy's only
\* series, its dispatch is made or owed, whatever workers were lost and when,
\* and however often the config was edited.
THEOREM TriggersAreOwed == Spec => []TriggeredIsOwedWhileNewest
<1>1. Init => SeriesInv /\ TriggeredIsOwedWhileNewest
  BY DEF Init, SeriesInv, TriggeredIsOwedWhileNewest, IdleWorkers, EvaluateSteps,
         Rows
<1> QED
  BY <1>1, SeriesStep, OwedStep, EvaluationTypeCorrect, PTL DEF Spec

------------------------------------------------------------------------------
(* What a recorded verdict was computed from.                              *)

\* What an administrator may enter for series x triggers on its candle at t.
MayTrigger(x, t) ==
  \E e \in Entries : e.series = x /\ Verdict[e.config, e.series, t] = "triggered"

\* A worker is at a candle of the series it holds; and a triggered row is of a
\* candle of its strategy's series, and of a config the strategy may have had,
\* until the strategy is moved.
TruthInv ==
  /\ \A x \in Series : landed[x] # 0 => landed[x] \in Opens[x]
  /\ \A w \in Workers :
       pc[w] \in EvaluateSteps \ {"read_candles"} => last[w] \in Opens[held[w].series]
  /\ \A r \in Rows : evaluation[r] = "triggered" /\ r[1] \notin moved =>
       /\ r[2] \in Opens[entry[r[1]].series]
       /\ MayTrigger(entry[r[1]].series, r[2])

\* The verdict of a row is computed from what its worker holds, and a worker
\* whose strategy was not moved holds its series.
LEMMA TruthStep ==
  TypeOK /\ SeriesInv /\ TruthInv /\ [Next]_vars => TruthInv'
<1> SUFFICES ASSUME TypeOK, SeriesInv, TruthInv, [Next]_vars PROVE TruthInv'
  OBVIOUS
<1> USE DEF TruthInv, TypeOK
<1>1. ASSUME NEW x \in Series, NEW t \in OpenTimes, CandlesLand(x, t)
      PROVE  TruthInv'
  BY <1>1 DEF CandlesLand, admin, rows, locals
<1>2. ASSUME NEW s \in Strategies, NEW e \in Entries, EditStrategy(s, e)
      PROVE  TruthInv'
  <2>1. \A u \in Strategies \ moved' : entry'[u].series = entry[u].series
    BY <1>2 DEF EditStrategy
  <2>2. moved \subseteq moved'
    BY <1>2 DEF EditStrategy
  <2>3. \A r \in Rows : r[1] \in Strategies
    BY DEF Rows
  <2>4. UNCHANGED <<landed, evaluation, pc, held, last>>
    BY <1>2 DEF EditStrategy, rows, locals
  <2> QED
    BY <2>1, <2>2, <2>3, <2>4
<1>3. ASSUME NEW w \in Workers, EvaluateReadsCandles(w) PROVE TruthInv'
  <2>1. held[w].series \in Series
    BY <1>3, EntriesAreRows DEF EvaluateReadsCandles, EvaluateSteps
  <2>2. landed[held[w].series] # 0
          => landed[held[w].series] \in Opens[held[w].series]
    BY <2>1
  <2> QED
    BY <1>3, <2>2
    DEF EvaluateReadsCandles, NothingIngested, Goto, EvaluateSteps, admin, rows
<1>4. ASSUME NEW w \in Workers, EvaluateRecordsVerdict(w) PROVE TruthInv'
  <2>1. pc[w] \in EvaluateSteps \ {"read_candles"}
    BY <1>4 DEF EvaluateRecordsVerdict, EvaluateSteps
  <2>2. Row(w) \in Rows /\ held[w] \in Entries
    BY <2>1, RowIsAKey
  <2>3. \A r \in Rows : evaluation'[r] # evaluation[r] =>
          r = Row(w) /\ evaluation'[r] = VerdictOf(w)
    BY <1>4, <2>2 DEF EvaluateRecordsVerdict
  <2>4. ASSUME VerdictOf(w) = "triggered", Strategy(w) \notin moved
        PROVE  /\ last[w] \in Opens[entry[Strategy(w)].series]
               /\ MayTrigger(entry[Strategy(w)].series, last[w])
    <3>1. held[w].series = entry[Strategy(w)].series
      BY <2>1, <2>4 DEF SeriesInv, Strategy
    <3>2. MayTrigger(held[w].series, last[w])
      BY <2>2, <2>4, Zenon DEF VerdictOf, MayTrigger
    <3> QED
      BY <2>1, <3>1, <3>2
  <2>5. \A r \in Rows : evaluation'[r] = "triggered" /\ r[1] \notin moved =>
          /\ r[2] \in Opens[entry[r[1]].series]
          /\ MayTrigger(entry[r[1]].series, r[2])
    <3> SUFFICES ASSUME NEW r \in Rows, evaluation'[r] = "triggered",
                        r[1] \notin moved
                 PROVE  /\ r[2] \in Opens[entry[r[1]].series]
                        /\ MayTrigger(entry[r[1]].series, r[2])
      OBVIOUS
    <3>1. CASE evaluation[r] = "triggered"
      BY <3>1
    <3>2. CASE evaluation[r] # "triggered"
      <4>1. r = Row(w) /\ VerdictOf(w) = "triggered"
        BY <2>3, <3>2
      <4>2. r[1] = Strategy(w) /\ r[2] = last[w]
        BY <4>1 DEF Row
      <4> QED
        BY <2>4, <4>1, <4>2
    <3> QED
      BY <3>1, <3>2
  <2>6. UNCHANGED <<landed, entry, moved, held, last>>
    BY <1>4 DEF EvaluateRecordsVerdict, admin
  <2>7. \A v \in Workers : pc'[v] \in EvaluateSteps \ {"read_candles"}
          => pc[v] \in EvaluateSteps \ {"read_candles"}
    BY <1>4, <2>1 DEF EvaluateRecordsVerdict, Goto
  <2> QED
    BY <2>5, <2>6, <2>7
<1>5. ASSUME UNCHANGED <<landed, entry, moved, evaluation>>,
             \A w \in Workers : pc'[w] \in EvaluateSteps \ {"read_candles"} =>
               /\ pc[w] \in EvaluateSteps \ {"read_candles"}
               /\ last'[w] = last[w] /\ held'[w] = held[w]
      PROVE  TruthInv'
  BY <1>5
<1>6. CASE UNCHANGED vars
  BY <1>6 DEF vars, admin, rows, locals
<1>7. ASSUME NEW i \in Intervals, Tick(i) PROVE TruthInv'
  BY <1>7 DEF Tick, admin, rows, locals
<1>8. ASSUME NEW s \in Strategies, ToggleStrategy(s) PROVE TruthInv'
  BY <1>8 DEF ToggleStrategy, rows, locals
<1>9. ASSUME NEW w \in Workers,
             \/ \E i \in Intervals : FanOutReadsStrategies(w, i)
             \/ \E s \in Strategies :
                  FanOutPublishes(w, s) \/ EvaluateReadsStrategy(w, s)
             \/ EvaluateLooksUpRow(w)
             \/ RecordSignal(w) \/ PublishDispatch(w) \/ Acknowledge(w)
             \/ WorkerLost(w) \/ TaskRaises(w)
      PROVE  TruthInv'
  BY <1>5, <1>9
  DEF FanOutReadsStrategies, FanOutPublishes, EvaluateReadsStrategy,
      EvaluateLooksUpRow, RecordSignal, PublishDispatch, Acknowledge,
      WorkerLost, TaskRaises, Begin, Goto, Forget, Release, admin, rows,
      EvaluateSteps
<1> QED
  BY <1>1, <1>2, <1>3, <1>4, <1>6, <1>7, <1>8, <1>9
  DEF Next, Environment, Faults, Work, EvaluationWork

\* A strategy that is not moved keeps its series, and a move is not forgotten.
LEMMA SeriesAreKept ==
  ASSUME TypeOK, [Next]_vars
  PROVE  /\ moved \subseteq moved'
         /\ \A s \in Strategies \ moved' : entry'[s].series = entry[s].series
  BY DEF TypeOK, Next, Environment, Faults, Work, EvaluationWork, Tick,
      CandlesLand, EditStrategy, ToggleStrategy, FanOutReadsStrategies,
      FanOutPublishes, EvaluateReadsStrategy, EvaluateReadsCandles,
      EvaluateRecordsVerdict, EvaluateLooksUpRow, RecordSignal,
      PublishDispatch, Acknowledge, WorkerLost, TaskRaises, admin, vars
------------------------------------------------------------------------------
(* The contract.                                                           *)

\* Each step of the component is a step of the contract, or leaves the
\* candles, the verdicts, the signals and the dispatches alone.
LEMMA ContractStep ==
  TypeOK /\ SignalInv /\ SeriesInv /\ TruthInv /\ [Next]_vars
    => [Contract!Next]_(Contract!vars)
<1> SUFFICES ASSUME TypeOK, SignalInv, SeriesInv, TruthInv, [Next]_vars
             PROVE  [Contract!Next]_(Contract!vars)
  OBVIOUS
<1> DEFINE series == [s \in Strategies |->
                        IF s \in moved THEN Series ELSE {entry[s].series}]
<1>a. ASSUME UNCHANGED <<entry, moved, landed, evaluation, signal, dispatched>>
      PROVE  [Contract!Next]_(Contract!vars)
  BY <1>a DEF Contract!vars
<1>1. ASSUME NEW x \in Series, NEW t \in OpenTimes, CandlesLand(x, t)
      PROVE  [Contract!Next]_(Contract!vars)
  <2>1. Contract!Land(x, t)
    BY <1>1 DEF CandlesLand, admin, rows, Contract!Land
  <2> QED
    BY <2>1 DEF Contract!Next
<1>2. ASSUME NEW s \in Strategies, NEW e \in Entries, EditStrategy(s, e)
      PROVE  [Contract!Next]_(Contract!vars)
  <2>1. UNCHANGED <<landed, evaluation, signal, dispatched>>
    BY <1>2 DEF EditStrategy, rows
  <2>2. CASE e.series = entry[s].series
    <3>1. \A u \in Strategies : entry'[u].series = entry[u].series
      BY <1>2, <2>2 DEF EditStrategy, TypeOK
    <3>2. moved' = moved
      BY <1>2, <2>2 DEF EditStrategy
    <3>3. series' = series
      BY <3>1, <3>2
    <3> QED
      BY <2>1, <3>3 DEF Contract!vars
  <2>3. CASE e.series # entry[s].series
    <3>1. moved' = moved \cup {s}
      BY <1>2, <2>3 DEF EditStrategy
    <3>2. \A u \in Strategies \ {s} : entry'[u] = entry[u]
      BY <1>2 DEF EditStrategy, TypeOK
    <3>3. series' = [series EXCEPT ![s] = Series]
      BY <3>1, <3>2
    <3>4. Contract!Move(s)
      BY <2>1, <3>3 DEF Contract!Move
    <3> QED
      BY <3>4 DEF Contract!Next
  <2> QED
    BY <2>2, <2>3
<1>3. ASSUME NEW w \in Workers, EvaluateRecordsVerdict(w)
      PROVE  [Contract!Next]_(Contract!vars)
  <2>1. pc[w] \in EvaluateSteps \ {"read_candles"}
    BY <1>3 DEF EvaluateRecordsVerdict, EvaluateSteps
  <2>2. /\ Row(w) \in Rows /\ held[w] \in Entries /\ last[w] \in OpenTimes
        /\ job[w] \in EvaluateMessages
    BY <2>1, RowIsAKey
  <2>3. Strategy(w) \in Strategies
    BY <2>2, EvaluationMessages DEF Strategy
  <2>4. held[w].series \in Series /\ last[w] \in Opens[held[w].series]
        /\ last[w] <= landed[held[w].series]
    BY <2>1, <2>2, EntriesAreRows DEF TruthInv, TypeOK
  <2>5. held[w].series \in series[Strategy(w)]
    BY <2>1, <2>3, <2>4 DEF SeriesInv, Strategy
  <2>6. CASE NoConflict(w)
    <3>1. Contract!Record(Strategy(w), last[w], held[w])
      BY <1>3, <2>4, <2>5, <2>6
      DEF EvaluateRecordsVerdict, NoConflict, VerdictOf, Row, admin,
          Contract!Record
    <3> QED
      BY <2>2, <2>3, <3>1 DEF Contract!Next
  <2>7. CASE ~NoConflict(w)
    BY <1>3, <1>a, <2>7 DEF EvaluateRecordsVerdict, admin
  <2> QED
    BY <2>6, <2>7
<1>4. ASSUME NEW w \in Workers, RecordSignal(w)
      PROVE  [Contract!Next]_(Contract!vars)
  <2>1. Row(w) \in Rows /\ evaluation[Row(w)] = "triggered"
    BY <1>4, RowIsAKey DEF RecordSignal, SignalInv, EvaluateSteps
  <2>2. Contract!Signal(Row(w))
    BY <1>4, <2>1 DEF RecordSignal, admin, Contract!Signal
  <2> QED
    BY <2>1, <2>2 DEF Contract!Next, Contract!Rows, Rows
<1>5. ASSUME NEW w \in Workers, PublishDispatch(w)
      PROVE  [Contract!Next]_(Contract!vars)
  <2>1. Row(w) \in Rows /\ Row(w) \in signal
    BY <1>5, RowIsAKey DEF PublishDispatch, SignalInv, EvaluateSteps
  <2>2. Contract!Dispatch(Row(w))
    BY <1>5, <2>1 DEF PublishDispatch, admin, Contract!Dispatch
  <2> QED
    BY <2>1, <2>2 DEF Contract!Next, Contract!Rows, Rows
<1>6. ASSUME NEW i \in Intervals, Tick(i) PROVE [Contract!Next]_(Contract!vars)
  BY <1>6, <1>a DEF Tick, admin, rows
<1>7. ASSUME NEW s \in Strategies, ToggleStrategy(s)
      PROVE  [Contract!Next]_(Contract!vars)
  BY <1>7, <1>a DEF ToggleStrategy, rows
<1>8. ASSUME NEW w \in Workers,
             \/ \E i \in Intervals : FanOutReadsStrategies(w, i)
             \/ \E s \in Strategies :
                  FanOutPublishes(w, s) \/ EvaluateReadsStrategy(w, s)
             \/ EvaluateReadsCandles(w) \/ EvaluateLooksUpRow(w)
             \/ Acknowledge(w) \/ WorkerLost(w) \/ TaskRaises(w)
      PROVE  [Contract!Next]_(Contract!vars)
  BY <1>8, <1>a
  DEF FanOutReadsStrategies, FanOutPublishes, EvaluateReadsStrategy,
      EvaluateReadsCandles, EvaluateLooksUpRow, Acknowledge, WorkerLost,
      TaskRaises, admin, rows
<1>9. CASE UNCHANGED vars
  BY <1>9, <1>a DEF vars, admin, rows
<1> QED
  BY <1>1, <1>2, <1>3, <1>4, <1>5, <1>6, <1>7, <1>8, <1>9
  DEF Next, Environment, Faults, Work, EvaluationWork

\* The component implements EvaluationContract: each of its steps is a step of
\* the contract or none.
THEOREM EvaluationKeepsContract == Spec => KeepsEvaluationContract
<1>1. Init => Contract!Init
  BY EntriesAreRows DEF Init, Contract!Init, Contract!Rows, Rows
<1>2. Init => SignalInv /\ SeriesInv /\ TruthInv
  BY DEF Init, SignalInv, SignalMatchesRecord, SeriesInv, TruthInv,
         IdleWorkers, EvaluateSteps
<1> QED
  BY <1>1, <1>2, SignalStep, SeriesStep, TruthStep, ContractStep,
     EvaluationTypeCorrect, PTL
  DEF Spec, KeepsEvaluationContract, Contract!Spec
==============================================================================
