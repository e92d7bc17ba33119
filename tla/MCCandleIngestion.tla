-------------------------- MODULE MCCandleIngestion --------------------------
(* Instances of CandleIngestion for TLC.                                   *)
EXTENDS CandleIngestion, TLC

CONSTANTS w1, w2, a

OneWorker == {w1}
TwoWorkers == {w1, w2}
OneCurrency == {a}
==============================================================================
