-------------------------- MODULE MCEvaluateStrategy -------------------------
(* Instances of EvaluateStrategy for TLC.                                  *)
EXTENDS EvaluateStrategy, TLC

CONSTANTS w1, w2, a

OneWorker == {w1}
TwoWorkers == {w1, w2}
OneStrategy == {a}

OneSeries == {<<"BTCUSDT", "1h">>}
AllOpen == [x \in OneSeries |-> 1 .. MaxTime]

\* Two configs that disagree on every candle: one triggers always, the other
\* needs a history of two candles and then stays quiet.
EagerAndCautious == {"eager", "cautious"}
Verdicts2 ==
  [v \in EagerAndCautious \X OneSeries \X (1 .. MaxTime) |->
     CASE v[1] = "eager" -> "triggered"
       [] v[1] = "cautious" /\ v[3] < 2 -> "insufficient"
       [] OTHER -> "quiet"]

EagerOrCautious == [series : OneSeries, config : EagerAndCautious]
EagerOnly == [series : OneSeries, config : {"eager"}]
==============================================================================
