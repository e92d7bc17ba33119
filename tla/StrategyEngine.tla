---------------------------- MODULE StrategyEngine ---------------------------
(***************************************************************************)
(* evaluate of src/src/cryptovira/apps/strategy/engine.py with the         *)
(* operators of operators.py, over the indicators of indicators.py, candle *)
(* after candle.                                                           *)
(*                                                                         *)
(* TA-Lib is external.  What the engine sees of an indicator is a series   *)
(* as long as the closes, padded with NaN for the warm-up of the           *)
(* indicator, and of that its length and its last two points.  The closes  *)
(* are the newest History ones: once the window rolls, an indicator whose  *)
(* value depends on where its input begins (EMA, RSI, MACD) gives the      *)
(* point before the last another value than it had when it was the last:   *)
(* it drifts.  Values are small integers; eq is exact, NaN is a value that *)
(* compares as neither above nor below nor equal.                          *)
(***************************************************************************)
EXTENDS Integers, Sequences

CONSTANTS
  Configs,    \* sequences of conditions a Strategy may hold
  Values,     \* what an indicator may be, once it has enough closes
  History     \* HISTORY_CANDLE_COUNT

NaN == -1
Operators == {"gt", "lt", "eq", "crosses_above", "crosses_below"}

\* A condition of the schema: warmup is how many closes its indicator needs
\* with its variables, drifts whether it drifts, and accepted whether TA-Lib
\* takes the variables (the schema asks only for integers).
Conditions ==
  [operator : Operators, value : Values, warmup : Nat,
   drifts : BOOLEAN, accepted : BOOLEAN]

ASSUME ConfigsAreValid ==
  /\ Values \subseteq Nat
  /\ History \in Nat /\ History >= 2
  /\ Configs \subseteq Seq(Conditions) \ {<<>>}

------------------------------------------------------------------------------
Above(x, v) == x # NaN /\ x > v
Below(x, v) == x # NaN /\ x < v

\* Mutant: an edge does not look at the point before the last.
Anywhere(x, v) == TRUE

\* Mutant: an edge asks for a previous point strictly on the other side.
StrictlyBelow(x, v) == Below(x, v)

\* Where an edge comes from: a known point that is not there yet.
NotYetAbove(x, v) == x # NaN /\ ~Above(x, v)

NotYetBelow(x, v) == x # NaN /\ ~Below(x, v)

\* The operators, on a series' last two points.
Holds(operator, previous, last, value) ==
  CASE operator = "gt" -> Above(last, value)
    [] operator = "lt" -> Below(last, value)
    [] operator = "eq" -> last = value
    [] operator = "crosses_above" ->
         NotYetAbove(previous, value) /\ Above(last, value)
    [] operator = "crosses_below" ->
         NotYetBelow(previous, value) /\ Below(last, value)

Outcomes == {"triggered", "quiet", "insufficient", "raised"}

VARIABLES
  config,   \* StrategyConfig.conditions
  candles,  \* closes in the window, no more than History
  last,     \* condition -> its indicator's last point
  previous, \* condition -> the point before it, in the same series
  at,       \* the condition evaluate comes to next, 0 when it has returned
  outcome,  \* what it returned or raised; "none" before it did
  earlier,  \* history: the outcome at the candle before
  former    \* history: condition -> its last point at the candle before

vars == <<config, candles, last, previous, at, outcome, earlier, former>>

Indexes == DOMAIN config

Init ==
  /\ config \in Configs
  /\ candles = 0
  /\ last = [i \in Indexes |-> NaN]
  /\ previous = [i \in Indexes |-> NaN]
  /\ at = 0 /\ outcome = "none" /\ earlier = "none"
  /\ former = [i \in Indexes |-> NaN]

\* The last point of an indicator that has n closes, and the point before it
\* in the same series, when that was the last point a candle ago.
LastPoints(i, n) == IF n >= config[i].warmup THEN Values ELSE {NaN}
PreviousPoints(i, rolling) ==
  IF rolling /\ config[i].drifts /\ last[i] # NaN
  THEN {v \in Values : last[i] - 1 <= v /\ v <= last[i] + 1}
  ELSE {last[i]}

\* What the conditions' series may hold at one place, each out of its set.
Points == [Indexes -> Values \cup {NaN}]

\* A candle closes, and evaluate is called with the newest closes.
CandleCloses ==
  LET rolling == candles = History
      n == IF rolling THEN candles ELSE candles + 1
  IN
  /\ at = 0
  /\ candles' = n
  /\ last' \in {f \in Points : \A i \in Indexes : f[i] \in LastPoints(i, n)}
  /\ previous' \in
       {f \in Points : \A i \in Indexes : f[i] \in PreviousPoints(i, rolling)}
  /\ former' = last
  /\ at' = 1
  /\ earlier' = outcome /\ outcome' = "none"
  /\ UNCHANGED config

TooShort(i) == candles < 2 \/ last[i] = NaN

Returns(o) == outcome' = o /\ at' = 0

\* Mutant: any(...) in place of all(...).
SettlesAny(holds) == holds

\* all(...) stops at the first condition that does not hold.
Settles(holds) == ~holds

\* One condition after another is asked for, until one settles the outcome
\* or raises.
EvaluateCondition ==
  LET c == config[at]
      holds == Holds(c.operator, previous[at], last[at], c.value)
      verdict == IF holds THEN "triggered" ELSE "quiet"
  IN
  /\ at # 0
  /\ \/ ~c.accepted /\ Returns("raised")
     \/ c.accepted /\ TooShort(at) /\ Returns("insufficient")
     \/ /\ c.accepted /\ ~TooShort(at)
        /\ IF Settles(holds) \/ at = Len(config) THEN Returns(verdict)
           ELSE at' = at + 1 /\ UNCHANGED outcome
  /\ UNCHANGED <<config, candles, last, previous, earlier, former>>

Next == CandleCloses \/ EvaluateCondition

Spec == Init /\ [][Next]_vars

------------------------------------------------------------------------------
(* Properties.                                                             *)

\* Types; evaluate is at a condition exactly until it has an outcome.
TypeOK ==
  /\ config \in Configs
  /\ candles \in 0 .. History
  /\ last \in Points /\ previous \in Points /\ former \in Points
  /\ at \in 0 .. Len(config)
  /\ outcome \in Outcomes \cup {"none"}
  /\ earlier \in Outcomes \cup {"none"}
  /\ at # 0 => outcome = "none"

\* What a condition is worth by itself.
Worth(i) ==
  LET c == config[i] IN
  IF ~c.accepted THEN "raised"
  ELSE IF TooShort(i) THEN "insufficient"
  ELSE IF Holds(c.operator, previous[i], last[i], c.value) THEN "triggered"
  ELSE "quiet"

\* evaluate triggers exactly when every condition holds by itself, and
\* otherwise answers as the first one that does not (engine.py:30, 33-41).
OutcomeIsFirstFailure ==
  outcome # "none" =>
    IF \A i \in Indexes : Worth(i) = "triggered" THEN outcome = "triggered"
    ELSE \E i \in Indexes :
           /\ outcome = Worth(i) /\ outcome # "triggered"
           /\ \A j \in 1 .. i - 1 : Worth(j) = "triggered"

Edges == {"crosses_above", "crosses_below"}
Stable == \A i \in Indexes : ~config[i].drifts

\* A strategy with an edge among its conditions does not trigger on two
\* candles running, as long as indicators do not drift
\* (operators.py:39-44).
StableEdgeFiresOnce ==
  (Stable /\ \E i \in Indexes : config[i].operator \in Edges)
    => ~(outcome = "triggered" /\ earlier = "triggered")

\* No transition is missed: where the level was not above the value a candle
\* ago and is now, a strategy of that one edge triggers, unless the level was
\* unknown a candle ago (operators.py:39-44, engine.py:17-20).
StableEdgeSeesTransition ==
  (Stable /\ Len(config) = 1 /\ outcome # "none" /\ config[1].accepted
   /\ former[1] # NaN)
    => LET v == config[1].value IN
       /\ config[1].operator = "crosses_above"
            => (outcome = "triggered" <=> former[1] <= v /\ last[1] > v)
       /\ config[1].operator = "crosses_below"
            => (outcome = "triggered" <=> former[1] >= v /\ last[1] < v)
==============================================================================
