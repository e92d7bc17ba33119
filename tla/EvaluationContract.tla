-------------------------- MODULE EvaluationContract -------------------------
(***************************************************************************)
(* What strategy evaluation promises, without tasks, workers or crashes:   *)
(* one verdict per strategy and candle, given once and never changed, and  *)
(* one the engine gives on a candle that has landed, of a series the       *)
(* strategy has, or any once it was moved; a signal only for a verdict     *)
(* that triggered; a dispatch only of a signal that is there.  That each   *)
(* of them comes needs more (EvaluateStrategy!TriggeredIsDispatched).      *)
(***************************************************************************)
EXTENDS Naturals

CONSTANTS
  Strategies,
  Series,
  OpenTimes,
  Opens,      \* series -> the open times of its candles
  Entries,    \* what a strategy may be: [series, config] records
  Verdict     \* <<config, series, open time>> -> what the engine says

VARIABLES
  series,     \* strategy -> the series its candles may be of
  landed,     \* series -> open time of its newest candle, 0 before the first
  verdict,    \* <<strategy, open time>> -> the verdict, "none" before it
  signals,    \* the verdicts that have a signal
  dispatches  \* the dispatches of each

vars == <<series, landed, verdict, signals, dispatches>>

Rows == Strategies \X OpenTimes

Init ==
  /\ series \in [Strategies -> {{x} : x \in Series}]
  /\ landed = [x \in Series |-> 0]
  /\ verdict = [r \in Rows |-> "none"]
  /\ signals = {}
  /\ dispatches = [r \in Rows |-> 0]

Land(x, t) ==
  /\ t \in Opens[x] /\ t > landed[x]
  /\ landed' = [landed EXCEPT ![x] = t]
  /\ UNCHANGED <<series, verdict, signals, dispatches>>

\* Once a strategy is moved, its candles may be of whatever series.
Move(s) ==
  /\ series' = [series EXCEPT ![s] = Series]
  /\ UNCHANGED <<landed, verdict, signals, dispatches>>

\* Some config the strategy may have, on a candle it may look at.
Record(s, t, e) ==
  /\ verdict[<<s, t>>] = "none"
  /\ e.series \in series[s]
  /\ t \in Opens[e.series] /\ t <= landed[e.series]
  /\ verdict' = [verdict EXCEPT ![<<s, t>>] = Verdict[e.config, e.series, t]]
  /\ UNCHANGED <<series, landed, signals, dispatches>>

Signal(r) ==
  /\ verdict[r] = "triggered"
  /\ signals' = signals \cup {r}
  /\ UNCHANGED <<series, landed, verdict, dispatches>>

Dispatch(r) ==
  /\ r \in signals
  /\ dispatches' = [dispatches EXCEPT ![r] = @ + 1]
  /\ UNCHANGED <<series, landed, verdict, signals>>

Next ==
  \/ \E x \in Series, t \in OpenTimes : Land(x, t)
  \/ \E s \in Strategies : Move(s)
  \/ \E s \in Strategies, t \in OpenTimes, e \in Entries : Record(s, t, e)
  \/ \E r \in Rows : Signal(r) \/ Dispatch(r)

Spec == Init /\ [][Next]_vars
==============================================================================
