------------------------- MODULE StrategyEngineProofs ------------------------
(***************************************************************************)
(* Theorems about StrategyEngine, for any configs, values and length of    *)
(* the history.                                                            *)
(***************************************************************************)
EXTENDS StrategyEngine, TLAPS

------------------------------------------------------------------------------
(* Configs and points.                                                     *)

\* A config is a sequence of one condition or more.
LEMMA ConfigFacts ==
  ASSUME NEW c \in Configs
  PROVE  /\ Len(c) \in Nat /\ Len(c) >= 1
         /\ DOMAIN c = 1 .. Len(c)
         /\ \A i \in 1 .. Len(c) : c[i] \in Conditions
<1>1. c \in Seq(Conditions) /\ c # <<>>
  BY ConfigsAreValid
<1> QED
  BY <1>1

\* NaN is no number an indicator may come to.
LEMMA NaNIsNoValue == NaN \notin Values /\ Values \subseteq Nat /\ NaN \in Int
  BY ConfigsAreValid DEF NaN

------------------------------------------------------------------------------
(* Type correctness.                                                       *)

\* Everything is unknown before the first candle.
LEMMA EngineTypeInit == Init => TypeOK
  BY ConfigFacts, ConfigsAreValid DEF Init, TypeOK, Points, Indexes

\* A candle gives each condition its points; a condition moves on by one, or
\* settles the outcome.
LEMMA EngineTypeStep == TypeOK /\ [Next]_vars => TypeOK'
<1> SUFFICES ASSUME TypeOK, [Next]_vars PROVE TypeOK'
  OBVIOUS
<1> USE DEF TypeOK
<1>0. config \in Configs /\ Len(config) \in Nat /\ Len(config) >= 1
  BY ConfigFacts
<1>1. CASE CandleCloses
  <2>1. candles' \in 0 .. History
    BY <1>1, ConfigsAreValid DEF CandleCloses
  <2>2. /\ config' = config /\ Points' = Points
        /\ last' \in Points /\ previous' \in Points /\ former' \in Points
    BY <1>1 DEF CandleCloses, Points, Indexes
  <2>3. at' \in 0 .. Len(config)
    BY <1>0, <1>1 DEF CandleCloses
  <2> QED
    BY <1>1, <2>1, <2>2, <2>3 DEF CandleCloses
<1>2. CASE EvaluateCondition
  <2>1. /\ UNCHANGED <<config, candles, last, previous, earlier, former>>
        /\ Points' = Points
    BY <1>2 DEF EvaluateCondition, Points, Indexes
  <2>2. \/ outcome' \in Outcomes /\ at' = 0
        \/ at' = at + 1 /\ at # Len(config) /\ outcome' = outcome
    BY <1>2 DEF EvaluateCondition, Returns, Outcomes
  <2>3. at' \in 0 .. Len(config) /\ outcome' \in Outcomes \cup {"none"}
        /\ (at' # 0 => outcome' = "none")
    BY <1>0, <1>2, <2>2 DEF EvaluateCondition
  <2> QED
    BY <2>1, <2>3
<1>3. CASE UNCHANGED vars
  BY <1>3 DEF vars, Points, Indexes
<1> QED
  BY <1>1, <1>2, <1>3 DEF Next

\* Every reachable state is well typed, and evaluate is at a condition exactly
\* until it has an outcome.
THEOREM EngineTypeCorrect == Spec => []TypeOK
  BY EngineTypeInit, EngineTypeStep, PTL DEF Spec

------------------------------------------------------------------------------
(* The outcome against the conditions.                                     *)

\* The inductive invariant: the conditions evaluate has passed are triggered.
OutcomeInv ==
  /\ OutcomeIsFirstFailure
  /\ at # 0 => \A j \in 1 .. at - 1 : Worth(j) = "triggered"

\* What a condition is worth is one of the four outcomes.
LEMMA WorthIsAnOutcome == \A i : Worth(i) \in Outcomes
  BY DEF Worth, Outcomes

\* The inductive step: a condition that is passed is triggered, and the first
\* that is not ends the evaluation.
LEMMA OutcomeStep == TypeOK /\ OutcomeInv /\ [Next]_vars => OutcomeInv'
<1> SUFFICES ASSUME TypeOK, OutcomeInv, [Next]_vars PROVE OutcomeInv'
  OBVIOUS
<1>0. /\ Len(config) \in Nat /\ Len(config) >= 1
      /\ Indexes = 1 .. Len(config)
  BY ConfigFacts DEF TypeOK, Indexes
<1>1. CASE CandleCloses
  BY <1>1 DEF CandleCloses, OutcomeInv, OutcomeIsFirstFailure
<1>2. CASE EvaluateCondition
  <2>1. /\ at \in 1 .. Len(config) /\ outcome = "none"
        /\ \A j \in 1 .. at - 1 : Worth(j) = "triggered"
    BY <1>0, <1>2 DEF EvaluateCondition, TypeOK, OutcomeInv
  <2>2. /\ UNCHANGED <<config, candles, last, previous>>
        /\ Indexes' = Indexes
        /\ \A i : Worth(i)' = Worth(i)
    BY <1>2 DEF EvaluateCondition, Worth, TooShort, Indexes
  <2>3. \/ /\ outcome' = Worth(at) /\ at' = 0
           /\ Worth(at) # "triggered" \/ at = Len(config)
        \/ /\ Worth(at) = "triggered" /\ at' = at + 1 /\ outcome' = "none"
    BY <1>2, <2>1
    DEF EvaluateCondition, Returns, Settles, Worth, TooShort
  <2>4. CASE at' = at + 1 /\ outcome' = "none" /\ Worth(at) = "triggered"
    <3>1. \A j \in 1 .. at' - 1 : Worth(j) = "triggered"
      BY <2>1, <2>4
    <3> QED
      BY <2>2, <2>4, <3>1 DEF OutcomeInv, OutcomeIsFirstFailure
  <2>5. CASE /\ outcome' = Worth(at) /\ at' = 0
             /\ Worth(at) # "triggered"
    <3>1. at \in Indexes
      BY <1>0, <2>1
    <3> QED
      BY <2>1, <2>2, <2>5, <3>1 DEF OutcomeInv, OutcomeIsFirstFailure
  <2>6. CASE /\ outcome' = Worth(at) /\ at' = 0
             /\ Worth(at) = "triggered" /\ at = Len(config)
    <3>1. \A i \in Indexes : Worth(i) = "triggered"
      BY <1>0, <2>1, <2>6
    <3> QED
      BY <2>2, <2>6, <3>1 DEF OutcomeInv, OutcomeIsFirstFailure
  <2> QED
    BY <2>3, <2>4, <2>5, <2>6
<1>3. CASE UNCHANGED vars
  BY <1>3 DEF vars, OutcomeInv, OutcomeIsFirstFailure, Worth, TooShort, Indexes
<1> QED
  BY <1>1, <1>2, <1>3 DEF Next

\* Nothing is evaluated to begin with.
LEMMA OutcomeInit == Init => OutcomeInv
  BY DEF Init, OutcomeInv, OutcomeIsFirstFailure

\* evaluate answers with the verdict of all its conditions, and with the first
\* failure in their order.
THEOREM OutcomeIsTheFirstFailure == Spec => []OutcomeIsFirstFailure
<1>1. OutcomeInv => OutcomeIsFirstFailure
  BY DEF OutcomeInv
<1> QED
  BY <1>1, OutcomeInit, OutcomeStep, EngineTypeCorrect, PTL DEF Spec

------------------------------------------------------------------------------
(* Edges.                                                                  *)

\* Which side of its value an edge ends on.
EndsBeyond(i, points) ==
  LET c == config[i] IN
  /\ c.operator = "crosses_above" => Above(points[i], c.value)
  /\ c.operator = "crosses_below" => Below(points[i], c.value)

\* The inductive invariant: without drift the point before the last is what
\* the last was a candle ago; who triggered then had its edges beyond their
\* values; and an indicator that had enough closes keeps having them.
EdgeInv ==
  /\ Stable => previous = former
  /\ earlier = "triggered" => \A i \in Indexes : EndsBeyond(i, former)
  /\ \A i \in Indexes :
       /\ last[i] # NaN => candles >= 1 /\ candles >= config[i].warmup
       /\ former[i] # NaN => candles >= 2 /\ last[i] # NaN

\* A condition that triggers by itself ends beyond its value.
LEMMA TriggeredEndsBeyond ==
  ASSUME NEW i, Worth(i) = "triggered"
  PROVE  EndsBeyond(i, last)
  BY DEF Worth, Holds, EndsBeyond

\* Where the outcome is "triggered" every condition is.
LEMMA AllTrigger ==
  ASSUME OutcomeIsFirstFailure, outcome = "triggered", NEW i \in Indexes
  PROVE  Worth(i) = "triggered"
  BY DEF OutcomeIsFirstFailure

\* Nothing is known to begin with.
LEMMA EdgeInit == Init => EdgeInv
  BY DEF Init, EdgeInv

\* The inductive step: what was last a candle ago is now the point before it.
LEMMA EdgeStep ==
  TypeOK /\ OutcomeInv /\ EdgeInv /\ [Next]_vars => EdgeInv'
<1> SUFFICES ASSUME TypeOK, OutcomeInv, EdgeInv, [Next]_vars PROVE EdgeInv'
  OBVIOUS
<1>1. CASE CandleCloses
  <2> DEFINE n == IF candles = History THEN candles ELSE candles + 1
  <2>1. /\ config' = config /\ Indexes' = Indexes
        /\ candles' = n /\ former' = last
        /\ earlier' = outcome
        /\ previous' \in Points /\ last' \in Points
        /\ \A i \in Indexes :
             /\ last'[i] \in LastPoints(i, n)
             /\ previous'[i] \in PreviousPoints(i, candles = History)
    BY <1>1 DEF CandleCloses, Indexes
  <2>2. Stable' => previous' = former'
    <3> SUFFICES ASSUME Stable' PROVE previous' = last
      BY <2>1
    <3>1. \A i \in Indexes : ~config[i].drifts
      BY <2>1 DEF Stable
    <3>2. \A i \in Indexes : previous'[i] = last[i]
      BY <2>1, <3>1 DEF PreviousPoints
    <3> QED
      BY <2>1, <3>2 DEF Points, TypeOK
  <2>3. earlier' = "triggered" => \A i \in Indexes : EndsBeyond(i, former)'
    BY <2>1, AllTrigger, TriggeredEndsBeyond DEF EndsBeyond, OutcomeInv
  <2>4. ASSUME NEW i \in Indexes
        PROVE  /\ last'[i] # NaN => n >= 1 /\ n >= config[i].warmup
               /\ last[i] # NaN => n >= 2 /\ last'[i] # NaN
    <3>1. /\ candles \in Nat /\ n \in Nat /\ n >= 1 /\ n >= candles
          /\ candles >= 1 => n >= 2
      BY ConfigsAreValid DEF TypeOK
    <3>2. config[i].warmup \in Nat
      BY ConfigFacts DEF TypeOK, Indexes, Conditions
    <3>3. last'[i] # NaN => n >= config[i].warmup
      BY <2>1 DEF LastPoints
    <3>4. last[i] # NaN => candles >= 1 /\ candles >= config[i].warmup
      BY DEF EdgeInv
    <3>5. last[i] # NaN => last'[i] \in Values
      BY <2>1, <3>1, <3>2, <3>4 DEF LastPoints
    <3> QED
      BY <3>1, <3>3, <3>4, <3>5, NaNIsNoValue
  <2> QED
    BY <2>1, <2>2, <2>3, <2>4 DEF EdgeInv
<1>2. CASE UNCHANGED <<config, candles, last, previous, earlier, former>>
  BY <1>2 DEF EdgeInv, EndsBeyond, Stable, Indexes
<1> QED
  BY <1>1, <1>2 DEF Next, EvaluateCondition, vars

\* An edge that triggers was not there a candle ago.
LEMMA EdgeInvFiresOnce ==
  TypeOK /\ OutcomeInv /\ EdgeInv => StableEdgeFiresOnce
<1> SUFFICES ASSUME TypeOK, OutcomeInv, EdgeInv, Stable,
                    NEW i \in Indexes, config[i].operator \in Edges,
                    outcome = "triggered", earlier = "triggered"
             PROVE  FALSE
  BY DEF StableEdgeFiresOnce
<1>1. Worth(i) = "triggered"
  BY AllTrigger DEF OutcomeInv
<1>2. EndsBeyond(i, former) /\ previous = former
  BY DEF EdgeInv
<1> QED
  BY <1>1, <1>2
  DEF Worth, Holds, NotYetAbove, NotYetBelow, EndsBeyond, Edges

\* For indicators that do not drift, no strategy with an edge triggers twice
\* running, for any window and any warm-up.
THEOREM EdgesFireOnce == Spec => []StableEdgeFiresOnce
  BY EdgeInvFiresOnce, EdgeInit, EdgeStep, OutcomeInit, OutcomeStep,
     EngineTypeCorrect, PTL DEF Spec

\* A single edge is worth "triggered" exactly when the level crossed.
LEMMA EdgeInvSeesTransition ==
  TypeOK /\ OutcomeInv /\ EdgeInv => StableEdgeSeesTransition
<1> SUFFICES ASSUME TypeOK, OutcomeInv, EdgeInv, Stable, Len(config) = 1,
                    outcome # "none", config[1].accepted, former[1] # NaN
             PROVE  LET v == config[1].value IN
       /\ config[1].operator = "crosses_above"
            => (outcome = "triggered" <=> former[1] <= v /\ last[1] > v)
       /\ config[1].operator = "crosses_below"
            => (outcome = "triggered" <=> former[1] >= v /\ last[1] < v)
  BY DEF StableEdgeSeesTransition
<1>1. Indexes = {1} /\ config[1] \in Conditions
  BY ConfigFacts DEF TypeOK, Indexes
<1>2. outcome = "triggered" <=> Worth(1) = "triggered"
  BY <1>1 DEF OutcomeInv, OutcomeIsFirstFailure
<1>3. /\ previous[1] = former[1] /\ ~TooShort(1)
      /\ last[1] \in Values /\ former[1] \in Values /\ config[1].value \in Values
  BY <1>1, NaNIsNoValue DEF EdgeInv, TooShort, TypeOK, Points, Conditions
<1>4. Worth(1) = "triggered"
        <=> Holds(config[1].operator, former[1], last[1], config[1].value)
  BY <1>3 DEF Worth
<1>5. \A x, y, v \in Nat :
        /\ Holds("crosses_above", x, y, v) <=> x <= v /\ y > v
        /\ Holds("crosses_below", x, y, v) <=> x >= v /\ y < v
  BY DEF Holds, NotYetAbove, NotYetBelow, Above, Below, NaN
<1>6. last[1] \in Nat /\ former[1] \in Nat /\ config[1].value \in Nat
  BY <1>3, NaNIsNoValue
<1> QED
  BY <1>2, <1>4, <1>5, <1>6

\* And no crossing between two known points is missed.
THEOREM EdgesSeeTransitions == Spec => []StableEdgeSeesTransition
  BY EdgeInvSeesTransition, EdgeInit, EdgeStep, OutcomeInit, OutcomeStep,
     EngineTypeCorrect, PTL DEF Spec
==============================================================================
