------------------------------ MODULE MCPipeline -----------------------------
(* An instance of Pipeline for TLC.                                        *)
EXTENDS Pipeline, TLC

CONSTANTS e1, w1, a, r1

OneEvaluator == {e1}
OneSender == {w1}
OneStrategy == {a}
OneRecipient == {r1}

\* Two series of one interval with a candle at the same open time; BTC goes on.
TwoSeries == {<<"BTCUSDT", "1h">>, <<"ETHUSDT", "1h">>}
BtcGoesOn ==
  [x \in TwoSeries |-> IF x[1] = "BTCUSDT" THEN 1 .. MaxTime ELSE {1}]

\* A config for each: one triggers on the first BTC candle, the other never.
EdgeAndCalm == {"edge", "calm"}
FirstBtcCandleTriggers ==
  [v \in EdgeAndCalm \X TwoSeries \X (1 .. MaxTime) |->
     IF v = <<"edge", <<"BTCUSDT", "1h">>, 1>> THEN "triggered" ELSE "quiet"]
EdgeOnBtcOrCalmOnEth ==
  {[series |-> <<"BTCUSDT", "1h">>, config |-> "edge"],
   [series |-> <<"ETHUSDT", "1h">>, config |-> "calm"]}
==============================================================================
