--------------------------- MODULE MCStrategyEngine --------------------------
(* Instances of StrategyEngine for TLC.                                    *)
EXTENDS StrategyEngine

ThreeValues == 0 .. 2

Condition(o, w, d) ==
  [operator |-> o, value |-> 1, warmup |-> w, drifts |-> d, accepted |-> TRUE]
Refused == [Condition("gt", 1, FALSE) EXCEPT !.accepted = FALSE]

\* Every operator alone and in pairs, with short and long warm-ups.
Steady == {Condition(o, w, FALSE) : o \in Operators, w \in {1, 3}}
SteadyConfigs == {<<c>> : c \in Steady} \cup (Steady \X Steady)

DriftingConfigs == {<<Condition("crosses_above", 1, TRUE)>>}
RefusedConfigs == {<<Refused>>}
MixedConfigs ==
  SteadyConfigs \cup DriftingConfigs \cup RefusedConfigs
    \cup {<<Condition("lt", 2, TRUE), Refused>>}
==============================================================================
