------------------------------ MODULE MCBacktest -----------------------------
(* An instance of Backtest for TLC.                                        *)
EXTENDS Backtest, TLC

CONSTANTS w1, w2

TwoWorkers == {w1, w2}

Prices == {1, 2, 3}
\* From the third candle on, one without a rise, two rises, the second of which
\* is taken back, and a rise at the end that the tail takes back.
Hump == <<3, 1, 1, 2, 3, 2, 3, 1>>
OneSeries == {Hump}

\* A condition that needs a whole window to see a rise.
Rise == [v \in Windows |-> Len(v) = History /\ v[Len(v)] > v[1]]

Setting(s, e, h, c) == [start |-> s, end |-> e, horizon |-> h, config |-> c]

\* A long and a short range with warm-up and tail, and one that is entered the
\* wrong way round.
ReplaySettings ==
  {Setting(3, 8, 1, Rise), Setting(5, 8, 1, Rise), Setting(8, 3, 1, Rise)}

WorkerSymmetry == Permutations(TwoWorkers)
==============================================================================
