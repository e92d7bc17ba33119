---------------------------- MODULE BacktestProofs ---------------------------
(***************************************************************************)
(* Theorems about Backtest, for any workers, price history, settings and   *)
(* bounds: the types, that a row which was asked for ends, and that a      *)
(* stored result is the reference's.  The last rests on the three queries  *)
(* returning runs of consecutive candles that join into one series.        *)
(***************************************************************************)
EXTENDS Backtest, FiniteSetTheorems, SequenceTheorems, TLAPS

------------------------------------------------------------------------------
(* Runs of consecutive candles.                                            *)

\* The candles from a to b as the series a query returns.
Consecutive(a, b) == [i \in 1 .. b - a + 1 |-> a + i - 1]

\* How many candles there are from a to b.
LEMMA Intervals ==
  ASSUME NEW a \in Int, NEW b \in Int
  PROVE  /\ IsFiniteSet(a .. b)
         /\ a <= b + 1 => Cardinality(a .. b) = b - a + 1
<1>1. IsFiniteSet(a .. b) /\ Cardinality(a .. b) = IF a > b THEN 0 ELSE b - a + 1
  BY FS_Interval
<1> QED
  BY <1>1

\* Candles without a gap, in order of open time, are consecutive.
LEMMA AscendingInterval ==
  ASSUME NEW a \in Int, NEW b \in Int, a <= b + 1
  PROVE  Ascending(a .. b) = Consecutive(a, b)
<1>1. Cardinality(a .. b) = b - a + 1
  BY Intervals
<1>2. ASSUME NEW i \in 1 .. b - a + 1
      PROVE  (CHOOSE c \in a .. b :
                Cardinality({x \in a .. b : x <= c}) = i) = a + i - 1
  <2>1. ASSUME NEW c \in a .. b
        PROVE  Cardinality({x \in a .. b : x <= c}) = c - a + 1
    <3>1. \A x : (x \in a .. b /\ x <= c) <=> x \in a .. c
      OBVIOUS
    <3>2. {x \in a .. b : x <= c} = a .. c
      BY ONLY <3>1, Zenon
    <3>3. c \in Int /\ a <= c + 1
      OBVIOUS
    <3> QED
      BY <3>2, <3>3, Intervals
  <2>2. a + i - 1 \in a .. b
    OBVIOUS
  <2>3. \A c \in a .. b :
          Cardinality({x \in a .. b : x <= c}) = i <=> c = a + i - 1
    BY <2>1
  <2> DEFINE P(c) == Cardinality({x \in a .. b : x <= c}) = i
  <2>4. \A c \in a .. b : P(c) <=> c = a + i - 1
    BY <2>3
  <2> HIDE DEF P
  <2>5. (CHOOSE c \in a .. b : P(c)) = a + i - 1
    BY <2>2, <2>4
  <2> QED
    BY <2>5 DEF P
<1> QED
  BY <1>1, <1>2 DEF Ascending, Consecutive

\* The newest n of the first m candles.
LEMMA LastOfFirst ==
  ASSUME NEW n \in Nat, NEW m \in Nat
  PROVE  LastOf(n, 1 .. m) = (IF m > n THEN m - n + 1 ELSE 1) .. m
<1>1. ASSUME NEW c \in 1 .. m
      PROVE  Cardinality({x \in 1 .. m : x > c}) = m - c
  <2>1. \A x : (x \in 1 .. m /\ x > c) <=> x \in (c + 1) .. m
    OBVIOUS
  <2>2. {x \in 1 .. m : x > c} = (c + 1) .. m
    BY ONLY <2>1, Zenon
  <2>3. c + 1 \in Int /\ m \in Int /\ c + 1 <= m + 1 /\ m - (c + 1) + 1 = m - c
    OBVIOUS
  <2>4. Cardinality((c + 1) .. m) = m - (c + 1) + 1
    BY ONLY <2>3, Intervals
  <2> QED
    BY ONLY <2>2, <2>3, <2>4
<1>2. LastOf(n, 1 .. m) = {c \in 1 .. m : m - c < n}
  BY <1>1 DEF LastOf
<1> DEFINE low == IF m > n THEN m - n + 1 ELSE 1
<1>3. \A x : (x \in 1 .. m /\ m - x < n) <=> x \in low .. m
  OBVIOUS
<1> HIDE DEF low
<1>4. {c \in 1 .. m : m - c < n} = low .. m
  BY ONLY <1>3, Zenon
<1> QED
  BY <1>2, <1>4 DEF low

\* The oldest n of the candles from e on.
LEMMA FirstOfRest ==
  ASSUME NEW n \in Nat, NEW e \in Nat, NEW l \in Nat
  PROVE  FirstOf(n, e .. l) = e .. (IF e + n - 1 < l THEN e + n - 1 ELSE l)
<1>1. ASSUME NEW c \in e .. l
      PROVE  Cardinality({x \in e .. l : x < c}) = c - e
  <2>1. \A x : (x \in e .. l /\ x < c) <=> x \in e .. (c - 1)
    OBVIOUS
  <2>2. {x \in e .. l : x < c} = e .. (c - 1)
    BY ONLY <2>1, Zenon
  <2>3. c - 1 \in Int /\ e \in Int /\ e <= (c - 1) + 1 /\ (c - 1) - e + 1 = c - e
    OBVIOUS
  <2>4. Cardinality(e .. (c - 1)) = (c - 1) - e + 1
    BY ONLY <2>3, Intervals
  <2> QED
    BY ONLY <2>2, <2>3, <2>4
<1>2. FirstOf(n, e .. l) = {c \in e .. l : c - e < n}
  BY <1>1 DEF FirstOf
<1> DEFINE high == IF e + n - 1 < l THEN e + n - 1 ELSE l
<1>3. \A x : (x \in e .. l /\ x - e < n) <=> x \in e .. high
  OBVIOUS
<1> HIDE DEF high
<1>4. {c \in e .. l : c - e < n} = e .. high
  BY ONLY <1>3, Zenon
<1> QED
  BY <1>2, <1>4 DEF high

\* A run of candles is a sequence.
LEMMA ConsecutiveIsSeries ==
  ASSUME NEW a \in Nat, NEW b \in Int, a <= b + 1
  PROVE  /\ Consecutive(a, b) \in Seq(Nat)
         /\ Len(Consecutive(a, b)) = b - a + 1
         /\ \A i \in 1 .. b - a + 1 : Consecutive(a, b)[i] = a + i - 1
<1> DEFINE n == b - a + 1
<1>1. n \in Nat
  OBVIOUS
<1>2. Consecutive(a, b) = [i \in 1 .. n |-> a + i - 1]
  BY DEF Consecutive
<1>3. \A i \in 1 .. n : a + i - 1 \in Nat
  OBVIOUS
<1> HIDE DEF n
<1>4. Consecutive(a, b) \in [1 .. n -> Nat]
  BY <1>2, <1>3
<1>5. Consecutive(a, b) \in Seq(Nat) /\ Len(Consecutive(a, b)) = n
  BY <1>1, <1>4
<1> QED
  BY <1>2, <1>5 DEF n

\* Two runs of candles that meet are one.
LEMMA ConsecutiveJoin ==
  ASSUME NEW a \in Nat, NEW b \in Nat, NEW c \in Int, a <= b, b <= c + 1
  PROVE  Consecutive(a, b - 1) \o Consecutive(b, c) = Consecutive(a, c)
<1> DEFINE s == Consecutive(a, b - 1)
           t == Consecutive(b, c)
           u == Consecutive(a, c)
<1>1. s \in Seq(Nat) /\ Len(s) = b - a /\ \A i \in 1 .. b - a : s[i] = a + i - 1
  BY ConsecutiveIsSeries
<1>2. t \in Seq(Nat) /\ Len(t) = c - b + 1
      /\ \A i \in 1 .. c - b + 1 : t[i] = b + i - 1
  BY ConsecutiveIsSeries
<1>3. u \in Seq(Nat) /\ Len(u) = c - a + 1
      /\ \A i \in 1 .. c - a + 1 : u[i] = a + i - 1
  <2>1. a <= c + 1
    OBVIOUS
  <2> QED
    BY <2>1, ConsecutiveIsSeries
<1> HIDE DEF s, t, u
<1>4. s \o t \in Seq(Nat) /\ Len(s \o t) = c - a + 1
  <2>1. Len(s \o t) = Len(s) + Len(t) /\ s \o t \in Seq(Nat)
    BY <1>1, <1>2, ConcatProperties
  <2> QED
    BY <1>1, <1>2, <2>1
<1>5. ASSUME NEW i \in 1 .. c - a + 1
      PROVE  (s \o t)[i] = u[i]
  <2>1. CASE i <= Len(s)
    <3>1. (s \o t)[i] = s[i]
      BY <1>1, <1>2, <2>1, ConcatProperties
    <3> QED
      BY <1>1, <1>3, <2>1, <3>1
  <2>2. CASE i > Len(s)
    <3>1. i \in Len(s) + 1 .. Len(s) + Len(t)
      BY <1>1, <1>2, <2>2
    <3>2. (s \o t)[i] = t[i - Len(s)]
      BY <1>1, <1>2, <3>1, ConcatProperties
    <3>3. i - Len(s) \in 1 .. c - b + 1
      BY <1>1, <1>2, <3>1
    <3>4. t[i - Len(s)] = b + (i - Len(s)) - 1
      BY <1>2, <3>3
    <3>5. u[i] = a + i - 1
      BY <1>3
    <3>6. b + (i - Len(s)) - 1 = a + i - 1
      BY <1>1
    <3> QED
      BY <3>2, <3>4, <3>5, <3>6
  <2>3. i <= Len(s) \/ i > Len(s)
    BY <1>1
  <2> QED
    BY <2>1, <2>2, <2>3
<1>6. s \o t = u
  BY <1>3, <1>4, <1>5, SeqEqual
<1> QED
  BY <1>6 DEF s, t, u

------------------------------------------------------------------------------
(* The three queries, for a setting s when the first l candles landed.     *)

\* The last candle before the range and the first one the warm-up takes, the
\* ends of the range, and the last candle the tail takes.
WarmTop(s, l) ==
  IF s.start = 0 THEN 0 ELSE IF s.start - 1 < l THEN s.start - 1 ELSE l
Low(s, l) ==
  IF WarmTop(s, l) > History THEN WarmTop(s, l) - History + 1 ELSE 1
Lower(s) == IF s.start = 0 THEN 1 ELSE s.start
Upper(s, l) ==
  IF l < Lower(s) THEN Lower(s) - 1 ELSE IF s.end - 1 < l THEN s.end - 1 ELSE l
High(s, l) ==
  IF s.end + s.horizon - 1 < l THEN s.end + s.horizon - 1 ELSE l
TailTop(s, l) == IF l < s.end THEN s.end - 1 ELSE High(s, l)

\* These places are numbers in the order a series has.
LEMMA PlacesAreNumbers ==
  ASSUME NEW s \in Settings, NEW l \in Nat
  PROVE  /\ s.start \in Nat /\ s.end \in Nat /\ s.horizon \in Nat \ {0}
         /\ WarmTop(s, l) \in Nat /\ Low(s, l) \in Nat /\ Lower(s) \in Nat
         /\ 1 <= Low(s, l) /\ Low(s, l) <= WarmTop(s, l) + 1
         /\ 1 <= Lower(s) /\ High(s, l) \in Nat
         /\ s.start < s.end => /\ Upper(s, l) \in Nat
                               /\ Lower(s) <= Upper(s, l) + 1
                               /\ TailTop(s, l) \in Nat
                               /\ s.end <= TailTop(s, l) + 1
<1>1. /\ s.start \in Nat /\ s.end \in Nat /\ s.horizon \in Nat
      /\ s.horizon # 0 /\ History \in Nat /\ History # 0
  BY SettingsAreEntered, BacktestBounds
<1>2. WarmTop(s, l) \in Nat
  BY <1>1 DEF WarmTop
<1>3. Low(s, l) \in Nat /\ 1 <= Low(s, l) /\ Low(s, l) <= WarmTop(s, l) + 1
  BY <1>1, <1>2 DEF Low
<1>4. Lower(s) \in Nat /\ 1 <= Lower(s)
  BY <1>1 DEF Lower
<1>5. High(s, l) \in Nat
  BY <1>1 DEF High
<1>6. ASSUME s.start < s.end
      PROVE  /\ Upper(s, l) \in Nat /\ Lower(s) <= Upper(s, l) + 1
             /\ TailTop(s, l) \in Nat /\ s.end <= TailTop(s, l) + 1
  BY <1>1, <1>5, <1>6 DEF Upper, Lower, TailTop, High
<1> QED
  BY <1>1, <1>2, <1>3, <1>4, <1>5, <1>6

\* The same of the range and the tail, as the joins need it.
LEMMA RangePlaces ==
  ASSUME NEW s \in Settings, NEW l \in Nat, s.start < s.end
  PROVE  /\ Lower(s) \in Nat /\ Upper(s, l) \in Int
         /\ Lower(s) <= Upper(s, l) + 1
         /\ s.end \in Nat /\ TailTop(s, l) \in Int
         /\ s.end <= TailTop(s, l) + 1
  BY PlacesAreNumbers

\* The warm-up query returns consecutive candles.
LEMMA WarmupQuery ==
  ASSUME NEW s \in Settings, NEW l \in Nat
  PROVE  Ascending(LastOf(History, {c \in 1 .. l : c < s.start}))
           = Consecutive(Low(s, l), WarmTop(s, l))
<1>1. /\ s.start \in Nat /\ WarmTop(s, l) \in Nat /\ Low(s, l) \in Nat
      /\ Low(s, l) <= WarmTop(s, l) + 1 /\ History \in Nat
  BY PlacesAreNumbers, BacktestBounds
<1>2. \A c : (c \in 1 .. l /\ c < s.start) <=> c \in 1 .. WarmTop(s, l)
  BY <1>1 DEF WarmTop
<1>3. {c \in 1 .. l : c < s.start} = 1 .. WarmTop(s, l)
  BY ONLY <1>2, Zenon
<1>4. LastOf(History, 1 .. WarmTop(s, l)) = Low(s, l) .. WarmTop(s, l)
  BY <1>1, LastOfFirst DEF Low
<1>5. Low(s, l) \in Int /\ WarmTop(s, l) \in Int
  BY <1>1
<1>6. Ascending(Low(s, l) .. WarmTop(s, l)) = Consecutive(Low(s, l), WarmTop(s, l))
  BY ONLY <1>1, <1>5, AscendingInterval
<1> QED
  BY ONLY <1>3, <1>4, <1>6

\* So does the query for the range,
LEMMA RangeQuery ==
  ASSUME NEW s \in Settings, NEW l \in Nat, s.start < s.end
  PROVE  /\ InRange(s, l) = Lower(s) .. Upper(s, l)
         /\ Ascending(InRange(s, l)) = Consecutive(Lower(s), Upper(s, l))
<1>1. /\ s.start \in Nat /\ s.end \in Nat /\ Lower(s) \in Nat
      /\ Upper(s, l) \in Nat /\ Lower(s) <= Upper(s, l) + 1
  BY PlacesAreNumbers
<1>2. \A c : (c \in 1 .. l /\ s.start <= c /\ c < s.end)
               <=> c \in Lower(s) .. Upper(s, l)
  BY <1>1 DEF Lower, Upper
<1>3. {c \in 1 .. l : s.start <= c /\ c < s.end} = Lower(s) .. Upper(s, l)
  BY ONLY <1>2, Zenon
<1>4. Lower(s) \in Int /\ Upper(s, l) \in Int
  BY <1>1
<1>5. Ascending(Lower(s) .. Upper(s, l)) = Consecutive(Lower(s), Upper(s, l))
  BY ONLY <1>1, <1>4, AscendingInterval
<1> QED
  BY ONLY <1>3, <1>5 DEF InRange

\* and the query for the tail.
LEMMA TailQuery ==
  ASSUME NEW s \in Settings, NEW l \in Nat, s.start < s.end
  PROVE  Ascending(FirstOf(s.horizon, {c \in 1 .. l : c >= s.end}))
           = Consecutive(s.end, TailTop(s, l))
<1>1. /\ s.start \in Nat /\ s.end \in Nat /\ s.end # 0 /\ s.horizon \in Nat
      /\ TailTop(s, l) \in Nat /\ s.end <= TailTop(s, l) + 1
      /\ s.horizon # 0
  BY PlacesAreNumbers
<1>2. \A c : (c \in 1 .. l /\ c >= s.end) <=> c \in s.end .. l
  BY <1>1
<1>3. {c \in 1 .. l : c >= s.end} = s.end .. l
  BY ONLY <1>2, Zenon
<1>4. FirstOf(s.horizon, s.end .. l) = s.end .. High(s, l)
  BY <1>1, FirstOfRest DEF High
<1>5. \A c : c \in s.end .. High(s, l) <=> c \in s.end .. TailTop(s, l)
  BY <1>1 DEF High, TailTop
<1>6. s.end .. High(s, l) = s.end .. TailTop(s, l)
  BY ONLY <1>5, Zenon
<1>7. s.end \in Int /\ TailTop(s, l) \in Int
  BY <1>1
<1>8. Ascending(s.end .. TailTop(s, l)) = Consecutive(s.end, TailTop(s, l))
  BY ONLY <1>1, <1>7, AscendingInterval
<1> QED
  BY ONLY <1>3, <1>4, <1>6, <1>8

\* The warm-up meets the range.
LEMMA RangeSeries ==
  ASSUME NEW s \in Settings, NEW l \in Nat, s.start < s.end,
         Lower(s) <= Upper(s, l)
  PROVE  /\ WarmTop(s, l) = Lower(s) - 1
         /\ Low(s, l) <= Lower(s)
         /\ Consecutive(Low(s, l), WarmTop(s, l))
              \o Consecutive(Lower(s), Upper(s, l))
              = Consecutive(Low(s, l), Upper(s, l))
<1>1. /\ s.start \in Nat /\ s.end \in Nat /\ Lower(s) \in Nat
      /\ Low(s, l) \in Nat /\ Upper(s, l) \in Nat
      /\ Low(s, l) <= WarmTop(s, l) + 1
  BY PlacesAreNumbers
<1>2. WarmTop(s, l) = Lower(s) - 1
  BY <1>1 DEF WarmTop, Lower, Upper
<1>3. Low(s, l) <= Lower(s)
  BY <1>1, <1>2
<1>4. Consecutive(Low(s, l), Lower(s) - 1) \o Consecutive(Lower(s), Upper(s, l))
        = Consecutive(Low(s, l), Upper(s, l))
  <2>1. Upper(s, l) \in Int /\ Lower(s) <= Upper(s, l) + 1
    BY <1>1
  <2> QED
    BY ONLY <1>1, <1>3, <2>1, ConsecutiveJoin
<1> QED
  BY <1>2, <1>3, <1>4

\* The range meets the tail.
LEMMA TailSeries ==
  ASSUME NEW s \in Settings, NEW l \in Nat, s.start < s.end,
         Lower(s) <= Upper(s, l)
  PROVE  Consecutive(Low(s, l), Upper(s, l)) \o Consecutive(s.end, TailTop(s, l))
           = Consecutive(Low(s, l), High(s, l))
<1>1. /\ s.start \in Nat /\ s.end \in Nat /\ s.horizon \in Nat
      /\ s.horizon # 0 /\ Lower(s) \in Nat
      /\ Low(s, l) \in Nat /\ Upper(s, l) \in Nat /\ High(s, l) \in Nat
      /\ Low(s, l) <= Lower(s)
  BY PlacesAreNumbers, RangeSeries
<1>2. CASE l < s.end
  <2>1. Upper(s, l) = l /\ High(s, l) = l /\ TailTop(s, l) = s.end - 1
    BY <1>1, <1>2 DEF Upper, High, TailTop
  <2>2. s.end \in Nat /\ s.end - 1 \in Int /\ s.end <= (s.end - 1) + 1
        /\ (s.end - 1) - s.end + 1 = 0
    BY <1>1
  <2>3. /\ Consecutive(s.end, s.end - 1) \in Seq(Nat)
        /\ Len(Consecutive(s.end, s.end - 1)) = 0
    BY ONLY <2>2, ConsecutiveIsSeries
  <2>4. Consecutive(s.end, s.end - 1) = <<>>
    BY <2>3
  <2>5. Low(s, l) <= l + 1 /\ l \in Int
    BY <1>1, <2>1
  <2>6. Consecutive(Low(s, l), l) \in Seq(Nat)
    BY ONLY <1>1, <2>5, ConsecutiveIsSeries
  <2> QED
    BY <2>1, <2>4, <2>6, ConcatEmptySeq
<1>3. CASE s.end <= l
  <2>1. Upper(s, l) = s.end - 1 /\ TailTop(s, l) = High(s, l)
    BY <1>1, <1>3 DEF Upper, TailTop
  <2>2. Low(s, l) <= s.end /\ s.end <= High(s, l) + 1 /\ High(s, l) \in Int
    BY <1>1, <1>3, <2>1 DEF High
  <2>3. Consecutive(Low(s, l), s.end - 1) \o Consecutive(s.end, High(s, l))
          = Consecutive(Low(s, l), High(s, l))
    BY ONLY <1>1, <2>2, ConsecutiveJoin
  <2> QED
    BY <2>1, <2>3
<1> QED
  BY <1>1, <1>2, <1>3

\* Candles beyond those a setting looks at change nothing.
LEMMA SettledPlaces ==
  ASSUME NEW s \in Settings, NEW f \in Nat, NEW l \in Nat, f <= l,
         s.start < s.end, Settled(s, f)
  PROVE  /\ Upper(s, l) = Upper(s, f)
         /\ TailTop(s, l) = TailTop(s, f)
<1>1. /\ s.start \in Nat /\ s.end \in Nat /\ s.horizon \in Nat
      /\ s.horizon # 0
  BY SettingsAreEntered
<1>2. f >= s.end + s.horizon - 1
  BY DEF Settled
<1>3. Upper(s, l) = s.end - 1 /\ Upper(s, f) = s.end - 1
  BY <1>1, <1>2 DEF Upper, Lower
<1>4. High(s, l) = s.end + s.horizon - 1 /\ High(s, f) = s.end + s.horizon - 1
  BY <1>1, <1>2 DEF High
<1>5. TailTop(s, l) = High(s, l) /\ TailTop(s, f) = High(s, f)
  BY <1>1, <1>2 DEF TailTop
<1> QED
  BY <1>3, <1>4, <1>5

\* What the replay looks at for candle c of the range: the window live
\* evaluation reads, the candle itself, and the one its horizon ends at.
LEMMA ReplaySeesCandle ==
  ASSUME NEW s \in Settings, NEW l \in Nat, s.start < s.end,
         Lower(s) <= Upper(s, l), NEW c \in Lower(s) .. Upper(s, l),
         NEW i, i = c - Low(s, l) + 1,
         NEW series, series = Consecutive(Low(s, l), High(s, l))
  PROVE  /\ Window(series, i) = LiveWindow(c)
         /\ series[i] = c
         /\ i + s.horizon <= Len(series) <=> c + s.horizon <= l
         /\ c + s.horizon <= l => series[i + s.horizon] = c + s.horizon
<1>1. /\ s.start \in Nat /\ s.end \in Nat /\ s.horizon \in Nat
      /\ s.horizon # 0 /\ Lower(s) \in Nat /\ Low(s, l) \in Nat
      /\ 1 <= Low(s, l) /\ Upper(s, l) \in Nat /\ High(s, l) \in Nat
      /\ WarmTop(s, l) = Lower(s) - 1 /\ Low(s, l) <= Lower(s)
      /\ History \in Nat /\ History # 0
  BY PlacesAreNumbers, RangeSeries, BacktestBounds
<1>2. Upper(s, l) <= High(s, l) /\ Upper(s, l) <= l /\ Upper(s, l) <= s.end - 1
  BY <1>1 DEF Upper, High
<1> DEFINE low == Low(s, l)
<1>3. low \in Nat /\ 1 <= low /\ low <= c /\ c \in Nat /\ c <= High(s, l)
      /\ i \in Nat /\ i >= 1
  BY <1>1, <1>2
<1>4. /\ Len(series) = High(s, l) - low + 1
      /\ \A j \in 1 .. High(s, l) - low + 1 : series[j] = low + j - 1
  <2>1. low <= High(s, l) + 1 /\ High(s, l) \in Int
    BY <1>1, <1>3
  <2> QED
    BY ONLY <1>3, <2>1, ConsecutiveIsSeries, series = Consecutive(low, High(s, l))
<1>5. low = IF Lower(s) - 1 > History THEN Lower(s) - History ELSE 1
  BY <1>1 DEF Low
<1> HIDE DEF low
<1>6. series[i] = c
  BY <1>1, <1>3, <1>4 DEF low
<1>7. i + s.horizon <= Len(series) <=> c + s.horizon <= l
  <2>1. i + s.horizon <= Len(series) <=> c + s.horizon <= High(s, l)
    <3>1. i + s.horizon = (c + s.horizon) - low + 1
      BY <1>1, <1>3 DEF low
    <3>2. Len(series) \in Int /\ Len(series) = High(s, l) - low + 1
      BY <1>1, <1>3, <1>4
    <3> DEFINE e == c + s.horizon
               h == High(s, l)
               n == Len(series)
    <3>3. e \in Int /\ h \in Int /\ low \in Int /\ n = h - low + 1
      BY <1>1, <1>3, <3>2
    <3> HIDE DEF e, h, n
    <3>4. e - low + 1 <= n <=> e <= h
      BY ONLY <3>3
    <3> QED
      BY ONLY <3>1, <3>4 DEF e, h, n
  <2>2. c + s.horizon <= High(s, l) <=> c + s.horizon <= l
    BY <1>1, <1>2, <1>3 DEF High
  <2> QED
    BY <2>1, <2>2
<1>8. ASSUME c + s.horizon <= l
      PROVE  series[i + s.horizon] = c + s.horizon
  <2>1. i + s.horizon <= High(s, l) - low + 1
    BY <1>4, <1>7, <1>8
  <2>2. i + s.horizon \in 1 .. High(s, l) - low + 1
    BY <1>1, <1>3, <2>1
  <2>3. series[i + s.horizon] = low + (i + s.horizon) - 1
    BY <1>4, <2>2
  <2> QED
    BY <1>1, <1>3, <2>3 DEF low
<1>9. Window(series, i) = LiveWindow(c)
  <2> DEFINE a == IF i > History THEN i - History + 1 ELSE 1
             b == IF c > History THEN c - History + 1 ELSE 1
  <2>1. a \in Nat /\ 1 <= a /\ a <= i /\ b = low + a - 1 /\ i - a = c - b
    BY <1>1, <1>3, <1>5 DEF low
  <2> HIDE DEF a, b
  <2>2. ASSUME NEW k \in 1 .. i - a + 1
        PROVE  close[series[a + k - 1]] = close[b + k - 1]
    <3>1. a + k - 1 \in 1 .. High(s, l) - low + 1
      BY <1>1, <1>3, <2>1 DEF low
    <3>2. series[a + k - 1] = low + (a + k - 1) - 1
      BY <1>4, <3>1
    <3>3. low + (a + k - 1) - 1 = b + k - 1
      BY <1>3, <2>1
    <3> QED
      BY <3>2, <3>3
  <2>3. i - a + 1 = c - b + 1
    BY <2>1
  <2>4. [k \in 1 .. i - a + 1 |-> close[series[a + k - 1]]]
          = [k \in 1 .. c - b + 1 |-> close[b + k - 1]]
    BY <2>2, <2>3
  <2> QED
    BY <2>4 DEF Window, LiveWindow, a, b
<1> QED
  BY <1>6, <1>7, <1>8, <1>9

\* How many candles of G come before candle c.
Below(G, c) == Cardinality({x \in G : x < c})

\* They are counted one by one.
LEMMA CountsOneMore ==
  ASSUME NEW G, NEW a \in Nat, NEW b \in Nat, G \subseteq a .. b, NEW c \in Nat
  PROVE  /\ Below(G, c) \in Nat
         /\ Below(G, c + 1) = Below(G, c) + (IF c \in G THEN 1 ELSE 0)
<1> DEFINE S == {x \in G : x < c}
<1>1. IsFiniteSet(S)
  <2>1. S \subseteq a .. b
    OBVIOUS
  <2>2. IsFiniteSet(a .. b)
    BY FS_Interval
  <2> QED
    BY <2>1, <2>2, FS_Subset
<1>2. Cardinality(S) \in Nat
  BY <1>1, FS_CardinalityType
<1>3. CASE c \in G
  <2>4. \A x \in G : x \in Int
    OBVIOUS
  <2>1. {x \in G : x < c + 1} = S \cup {c}
    <3>1. \A x : (x \in G /\ x < c + 1) <=> (x \in G /\ x < c) \/ x = c
      <4> TAKE x
      <4>1. CASE x \in G
        <5>1. x \in Int
          BY <2>4, <4>1
        <5> QED
          BY <4>1, <5>1
      <4>2. CASE x \notin G
        BY <1>3, <4>2
      <4> QED
        BY <4>1, <4>2
    <3> QED
      BY ONLY <3>1, Zenon
  <2>2. c \notin S
    OBVIOUS
  <2>3. Cardinality(S \cup {c}) = Cardinality(S) + 1
    BY <1>1, <2>2, FS_AddElement
  <2> QED
    BY <1>2, <1>3, <2>1, <2>3 DEF Below
<1>4. CASE c \notin G
  <2>1. \A x \in G : x < c + 1 <=> x < c
    <3> TAKE x \in G
    <3>1. x \in Int /\ x # c
      BY <1>4
    <3> QED
      BY <3>1
  <2>2. {x \in G : x < c + 1} = S
    BY ONLY <2>1, Zenon
  <2> QED
    BY <1>2, <1>4, <2>2 DEF Below
<1> QED
  BY <1>2, <1>3, <1>4 DEF Below

------------------------------------------------------------------------------
(* Types.                                                                  *)

Errors == {""} \cup FailSteps
Steps == {"idle", "done"} \cup FailSteps \cup RunSteps
Results ==
  {r \in [triggers : Nat, scored : Nat, wins : Nat, stored : BOOLEAN] :
     r.wins <= r.scored /\ r.scored <= r.triggers}
Runs == [setting : Settings, series : Seq(Nat), first : Nat, count : Nat,
         offset : Nat, triggers : Nat, scored : Nat, wins : Nat,
         from : Nat, to : Nat, saves : SUBSET Nat]

\* What the step p of a worker says of its message j and its locals r.
WorkerOk(p, j, r) ==
  IF p = "idle" THEN j = NoJob /\ r = NoRun
  ELSE /\ j = RunMessage
       /\ r \in Runs
       /\ r.wins <= r.scored /\ r.scored <= r.triggers
       /\ p \in RunSteps => r.setting.start < r.setting.end
       /\ p \in {"warmup", "range", "tail", "start"}
            => r.offset = 0 /\ r.triggers = 0 /\ r.scored = 0 /\ r.wins = 0
       /\ p \in {"tail", "start", "replay"} => r.offset < r.count
       /\ p = "complete" => r.offset = r.count

ColumnsOk ==
  /\ status \in Statuses /\ progress \in 0 .. 100
  /\ error \in Errors /\ result \in Results

FormOk ==
  form # NoForm =>
    /\ form.status \in Statuses /\ form.progress \in 0 .. 100
    /\ form.error \in Errors /\ form.result \in Results

TypeInv ==
  /\ landed \in 0 .. MaxCandle /\ close \in Series /\ setting \in Settings
  /\ ColumnsOk /\ FormOk
  /\ queue \in [{RunMessage} -> Nat]
  /\ pc \in [Workers -> Steps]
  /\ job \in [Workers -> {NoJob, RunMessage}]
  /\ DOMAIN run = Workers /\ run = [w \in Workers |-> run[w]]
  /\ undone \in BOOLEAN
  /\ crashes \in Nat /\ abandoned \in Nat /\ clicks \in Nat /\ forms \in Nat
  /\ \A w \in Workers : WorkerOk(pc[w], job[w], run[w])

\* The placeholders of an idle worker are no locals and no message.
LEMMA NoneIsNothing ==
  NoRun \notin Runs /\ NoJob # RunMessage
<1>1. NoJob # RunMessage
  <2>1. NoJob.task = "none" /\ RunMessage.task = "run_backtest"
    BY DEF NoJob, RunMessage
  <2> QED
    BY <2>1
<1>2. ASSUME NoRun \in Runs PROVE FALSE
  <2>1. DOMAIN NoRun = {"setting"}
    BY DEF NoRun
  <2>2. \A r \in Runs : "series" \in DOMAIN r
    BY DEF Runs
  <2> QED
    BY <1>2, <2>1, <2>2
<1> QED
  BY <1>1, <1>2

\* The inductive type invariant gives the checked one.
LEMMA TypeInvMeansTypeOK == TypeInv => TypeOK
<1> SUFFICES ASSUME TypeInv PROVE TypeOK
  OBVIOUS
<1>1. \A w \in Workers :
        /\ pc[w] = "idle" <=> job[w] = NoJob
        /\ pc[w] = "idle" <=> run[w] = NoRun
        /\ pc[w] # "idle" => run[w].setting \in Settings
        /\ pc[w] = "replay" => run[w].offset < run[w].count
        /\ pc[w] = "complete" => run[w].offset = run[w].count
  <2> TAKE w \in Workers
  <2>1. WorkerOk(pc[w], job[w], run[w])
    BY DEF TypeInv
  <2>2. run[w] \in Runs => run[w].setting \in Settings
    BY DEF Runs
  <2> QED
    BY <2>1, <2>2, NoneIsNothing DEF WorkerOk
<1> QED
  BY <1>1 DEF TypeInv, TypeOK, ColumnsOk, FormOk, Results, Errors, Steps

\* It holds of a new row.
LEMMA TypeInit == Init => TypeInv
<1> SUFFICES ASSUME Init PROVE TypeInv
  OBVIOUS
<1>1. NoResult \in Results
  BY DEF NoResult, Results
<1>2. \A w \in Workers : pc[w] = "idle" /\ job[w] = NoJob /\ run[w] = NoRun
  BY DEF Init, IdleWorkers
<1>3. ColumnsOk /\ FormOk
  <2>1. ColumnsOk
    <3>1. status = "pending" /\ progress = 0 /\ result = NoResult
      BY DEF Init
    <3>2. error \in Errors
      BY Zenon DEF Init, Errors
    <3> QED
      BY ONLY <1>1, <3>1, <3>2 DEF ColumnsOk, Statuses
  <2>2. form = NoForm
    BY DEF Init
  <2> QED
    BY <2>1, <2>2 DEF FormOk
<1>4. /\ pc \in [Workers -> Steps]
      /\ job \in [Workers -> {NoJob, RunMessage}]
      /\ queue \in [{RunMessage} -> Nat]
  BY DEF Init, EmptyQueue, IdleWorkers, Steps
<1>5. DOMAIN run = Workers /\ run = [w \in Workers |-> run[w]]
  BY DEF Init
<1>6. \A w \in Workers : WorkerOk(pc[w], job[w], run[w])
  BY <1>2 DEF WorkerOk
<1> QED
  BY <1>3, <1>4, <1>5, <1>6, BacktestBounds DEF Init, TypeInv

\* A worker's step that leaves the row, the form and the environment alone.
LEMMA LocalStepTyped ==
  ASSUME TypeInv, NEW w \in Workers, NEW p \in Steps, NEW r,
         NEW j \in {NoJob, RunMessage},
         pc' = [pc EXCEPT ![w] = p], job' = [job EXCEPT ![w] = j],
         run' = [run EXCEPT ![w] = r], WorkerOk(p, j, r)
  PROVE  /\ pc' \in [Workers -> Steps]
         /\ job' \in [Workers -> {NoJob, RunMessage}]
         /\ DOMAIN run' = Workers /\ run' = [v \in Workers |-> run'[v]]
         /\ \A v \in Workers : WorkerOk(pc'[v], job'[v], run'[v])
<1>1. pc' \in [Workers -> Steps] /\ job' \in [Workers -> {NoJob, RunMessage}]
  BY DEF TypeInv
<1>2. DOMAIN run' = Workers /\ run' = [v \in Workers |-> run'[v]]
  BY DEF TypeInv
<1>3. ASSUME NEW v \in Workers PROVE WorkerOk(pc'[v], job'[v], run'[v])
  <2>1. CASE v = w
    <3>1. pc'[v] = p /\ job'[v] = j /\ run'[v] = r
      BY <2>1 DEF TypeInv
    <3> QED
      BY <3>1
  <2>2. CASE v # w
    <3>1. pc'[v] = pc[v] /\ job'[v] = job[v] /\ run'[v] = run[v]
      BY <2>2 DEF TypeInv
    <3>2. WorkerOk(pc[v], job[v], run[v])
      BY DEF TypeInv
    <3> QED
      BY <3>1, <3>2
  <2> QED
    BY <2>1, <2>2
<1> QED
  BY <1>1, <1>2, <1>3

\* The rest of the state, when a worker's step touches no more of it.
LEMMA EnvironmentKept ==
  ASSUME TypeInv, UNCHANGED <<environment, admin, counters>>
  PROVE  /\ landed' \in 0 .. MaxCandle /\ close' \in Series
         /\ setting' \in Settings /\ undone' \in BOOLEAN
         /\ crashes' \in Nat /\ abandoned' \in Nat /\ clicks' \in Nat
         /\ forms' \in Nat
         /\ FormOk'
  BY DEF TypeInv, FormOk, environment, admin, counters

\* The progress saved in a replay is a percentage.
LEMMA ShareOfHundred ==
  ASSUME NEW n \in Nat, NEW count \in Nat, n >= 1, n <= count
  PROVE  (n * 100) \div count \in 0 .. 100
  OBVIOUS

\* No step of a worker breaks it,
LEMMA WorkKeepsTypes ==
  ASSUME TypeInv, NEW w \in Workers, Work(w)
  PROVE  TypeInv'
<1> DEFINE r == run[w]
<1>1. /\ WorkerOk(pc[w], job[w], r) /\ pc[w] \in Steps
      /\ landed \in Nat /\ queue \in [{RunMessage} -> Nat]
      /\ setting \in Settings
  BY BacktestBounds DEF TypeInv
<1>2. pc[w] # "idle" => r \in Runs /\ job[w] = RunMessage
  BY <1>1 DEF WorkerOk
<1>3. \A s \in Settings : s.start \in Nat /\ s.end \in Nat
  BY SettingsAreEntered
<1>4. ASSUME UNCHANGED <<environment, admin, counters>>,
             queue' \in [{RunMessage} -> Nat], ColumnsOk',
             NEW p \in Steps, NEW q, NEW j \in {NoJob, RunMessage},
             pc' = [pc EXCEPT ![w] = p], job' = [job EXCEPT ![w] = j],
             run' = [run EXCEPT ![w] = q], WorkerOk(p, j, q)
      PROVE  TypeInv'
  BY <1>4, LocalStepTyped, EnvironmentKept DEF TypeInv
<1>5. UNCHANGED row => ColumnsOk'
  BY DEF TypeInv, ColumnsOk, row
<1>6. UNCHANGED run => run' = [run EXCEPT ![w] = r]
  BY DEF TypeInv
<1>7. UNCHANGED job => job' = [job EXCEPT ![w] = job[w]]
  BY DEF TypeInv
<1>8. CASE ReadsBacktest(w)
  <2> DEFINE p == IF setting.end <= setting.start THEN "bad_range" ELSE "warmup"
             q == [setting |-> setting, series |-> <<>>, first |-> 0,
                   count |-> 0, offset |-> 0, triggers |-> 0, scored |-> 0,
                   wins |-> 0, from |-> landed, to |-> landed,
                   saves |-> {}]
  <2>1. /\ pc' = [pc EXCEPT ![w] = p] /\ job' = [job EXCEPT ![w] = RunMessage]
        /\ run' = [run EXCEPT ![w] = q]
        /\ UNCHANGED <<environment, row, admin, counters>>
    BY <1>8 DEF ReadsBacktest, Begin
  <2>2. queue' \in [{RunMessage} -> Nat]
    BY <1>1, <1>8 DEF ReadsBacktest, Begin, Take, Waiting
  <2>3. q \in Runs
    BY <1>1 DEF Runs
  <2>4. p \in Steps /\ WorkerOk(p, RunMessage, q)
    BY <1>1, <1>3, <2>3 DEF WorkerOk, Steps, FailSteps, RunSteps
  <2> QED
    BY <1>4, <1>5, <2>1, <2>2, <2>4
<1>9. CASE SaveFailed(w)
  <2>1. /\ pc' = [pc EXCEPT ![w] = "done"] /\ UNCHANGED <<job, run, queue>>
        /\ UNCHANGED <<environment, admin, counters>>
        /\ pc[w] \in FailSteps
    BY <1>9 DEF SaveFailed, Goto
  <2>2. ColumnsOk'
    BY <1>9 DEF SaveFailed, TypeInv, ColumnsOk, Statuses, Errors
  <2>3. pc[w] # "idle"
    BY <2>1 DEF FailSteps
  <2>4. "done" \in Steps /\ WorkerOk("done", job[w], r)
    BY <1>1, <2>3 DEF WorkerOk, Steps, RunSteps
  <2> QED
    BY <1>1, <1>2, <1>4, <1>6, <1>7, <2>1, <2>2, <2>3, <2>4
<1>10. CASE QueryWarmup(w)
  <2> DEFINE warmup == Ascending(LastOf(History, {c \in Landed : c < r.setting.start}))
             q == [r EXCEPT !.series = warmup, !.first = Len(warmup),
                            !.from = landed]
  <2>1. /\ pc' = [pc EXCEPT ![w] = "range"] /\ UNCHANGED <<job, row, queue>>
        /\ UNCHANGED <<environment, admin, counters>>
        /\ pc[w] = "warmup"
        /\ run' = [run EXCEPT ![w].series = warmup, ![w].first = Len(warmup),
                              ![w].from = landed]
    BY <1>10 DEF QueryWarmup, Goto
  <2>2. r \in Runs
    BY <1>2, <2>1
  <2>3. warmup \in Seq(Nat) /\ Len(warmup) \in Nat
    <3>1. r.setting \in Settings
      BY <2>2 DEF Runs
    <3>2. warmup = Consecutive(Low(r.setting, landed), WarmTop(r.setting, landed))
      BY <1>1, <3>1, WarmupQuery DEF Landed
    <3> HIDE DEF q, warmup
    <3>3. /\ Low(r.setting, landed) \in Nat /\ WarmTop(r.setting, landed) \in Int
          /\ Low(r.setting, landed) <= WarmTop(r.setting, landed) + 1
      <4>1. landed \in Nat
        BY <1>1
      <4>2. /\ Low(r.setting, landed) \in Nat
            /\ WarmTop(r.setting, landed) \in Nat
            /\ Low(r.setting, landed) <= WarmTop(r.setting, landed) + 1
        BY ONLY <3>1, <4>1, PlacesAreNumbers
      <4> QED
        BY ONLY <4>2
    <3>4. warmup \in Seq(Nat)
      BY ONLY <3>2, <3>3, ConsecutiveIsSeries
    <3> QED
      BY <3>4
  <2> HIDE DEF warmup
  <2>4. run' = [run EXCEPT ![w] = q]
    BY <2>1 DEF TypeInv
  <2>5. q \in Runs /\ WorkerOk("range", RunMessage, q)
    BY <1>1, <2>1, <2>2, <2>3 DEF WorkerOk, Runs, RunSteps
  <2> QED
    BY <1>1, <1>2, <1>4, <1>5, <1>7, <2>1, <2>4, <2>5 DEF Steps, RunSteps
<1>11. CASE QueryRange(w)
  <2> DEFINE in_range == Ascending(InRange(r.setting, landed))
             q == [r EXCEPT !.series = @ \o in_range, !.count = Len(in_range)]
             p == IF in_range = <<>> THEN "no_candles" ELSE "tail"
  <2>1. /\ pc' = [pc EXCEPT ![w] = p] /\ UNCHANGED <<job, row, queue>>
        /\ UNCHANGED <<environment, admin, counters>>
        /\ pc[w] = "range"
        /\ run' = [run EXCEPT ![w].series = @ \o in_range,
                              ![w].count = Len(in_range)]
    BY <1>11 DEF QueryRange, Goto
  <2>2. r \in Runs /\ r.setting \in Settings /\ r.setting.start < r.setting.end
    BY <1>1, <1>2, <2>1 DEF Runs, WorkerOk, RunSteps
  <2>3. in_range \in Seq(Nat)
    <3>1. in_range = Consecutive(Lower(r.setting), Upper(r.setting, landed))
      BY <1>1, <2>2, RangeQuery
    <3>2. /\ Lower(r.setting) \in Nat /\ Upper(r.setting, landed) \in Int
          /\ Lower(r.setting) <= Upper(r.setting, landed) + 1
      BY <1>1, <2>2, RangePlaces
    <3> QED
      BY ONLY <3>1, <3>2, ConsecutiveIsSeries
  <2>4. Len(in_range) \in Nat /\ (in_range # <<>> => Len(in_range) > 0)
    BY <2>3, EmptySeq
  <2> HIDE DEF in_range
  <2>5. run' = [run EXCEPT ![w] = q]
    BY <2>1 DEF TypeInv
  <2>6. q \in Runs
    BY <2>2, <2>3, <2>4, ConcatProperties DEF Runs
  <2>7. WorkerOk(p, RunMessage, q) /\ p \in Steps
    BY <1>1, <2>1, <2>2, <2>4, <2>6 DEF WorkerOk, Runs, RunSteps, FailSteps, Steps
  <2> HIDE DEF p, q
  <2> QED
    BY <1>1, <1>2, <1>4, <1>5, <1>7, <2>1, <2>5, <2>7
<1>12. CASE QueryTail(w)
  <2> DEFINE tail == Ascending(FirstOf(r.setting.horizon,
                                       {c \in Landed : c >= r.setting.end}))
             q == [r EXCEPT !.series = @ \o tail, !.to = landed]
  <2>1. /\ pc' = [pc EXCEPT ![w] = "start"] /\ UNCHANGED <<job, row, queue>>
        /\ UNCHANGED <<environment, admin, counters>>
        /\ pc[w] = "tail"
        /\ run' = [run EXCEPT ![w].series = @ \o tail, ![w].to = landed]
    BY <1>12 DEF QueryTail, Goto
  <2>2. r \in Runs /\ r.setting \in Settings /\ r.setting.start < r.setting.end
    BY <1>1, <1>2, <2>1 DEF Runs, WorkerOk, RunSteps
  <2>3. tail \in Seq(Nat)
    <3>1. tail = Consecutive(r.setting.end, TailTop(r.setting, landed))
      BY <1>1, <2>2, TailQuery DEF Landed
    <3>2. /\ r.setting.end \in Nat /\ TailTop(r.setting, landed) \in Int
          /\ r.setting.end <= TailTop(r.setting, landed) + 1
      BY <1>1, <2>2, RangePlaces
    <3> QED
      BY ONLY <3>1, <3>2, ConsecutiveIsSeries
  <2> HIDE DEF tail
  <2>4. run' = [run EXCEPT ![w] = q]
    BY <2>1 DEF TypeInv
  <2>5. q \in Runs
    BY <1>1, <2>2, <2>3, ConcatProperties DEF Runs
  <2>6. WorkerOk("start", RunMessage, q)
    BY <1>1, <2>1, <2>2, <2>5 DEF WorkerOk, Runs, RunSteps
  <2> QED
    BY <1>1, <1>2, <1>4, <1>5, <1>7, <2>1, <2>4, <2>6 DEF Steps, RunSteps
<1>13. CASE SaveRunning(w)
  <2>1. /\ pc' = [pc EXCEPT ![w] = "replay"] /\ UNCHANGED <<job, run, queue>>
        /\ UNCHANGED <<environment, admin, counters>>
        /\ pc[w] = "start"
    BY <1>13 DEF SaveRunning, Goto
  <2>2. ColumnsOk'
    BY <1>13 DEF SaveRunning, TypeInv, ColumnsOk, Statuses
  <2>3. "replay" \in Steps /\ WorkerOk("replay", job[w], r)
    BY <1>1, <2>1 DEF WorkerOk, Steps, RunSteps
  <2> QED
    BY <1>1, <1>2, <1>4, <1>6, <1>7, <2>1, <2>2, <2>3
<1>14. CASE ReplayCandle(w)
  <2> DEFINE i == r.first + r.offset + 1
             n == r.offset + 1
             x == IF Triggered(r, i) THEN 1 ELSE 0
             y == IF Scored(r, i) THEN 1 ELSE 0
             z == IF Won(r, i) THEN 1 ELSE 0
             d == IF ProgressIsDue(n, r.count) THEN {n} ELSE {}
             q == [r EXCEPT !.offset = n, !.triggers = @ + x,
                            !.scored = @ + y, !.wins = @ + z,
                            !.saves = @ \cup d]
             p == IF n = r.count THEN "complete" ELSE "replay"
  <2>1. /\ pc' = [pc EXCEPT ![w] = p] /\ UNCHANGED <<job, queue>>
        /\ UNCHANGED <<environment, admin, counters, status, error, result>>
        /\ pc[w] = "replay"
        /\ run' = [run EXCEPT ![w].offset = n, ![w].triggers = @ + x,
                              ![w].scored = @ + y, ![w].wins = @ + z,
                              ![w].saves =
                                IF ProgressIsDue(n, r.count)
                                THEN @ \cup {n} ELSE @]
        /\ progress' = IF ProgressIsDue(n, r.count) THEN (n * 100) \div r.count
                       ELSE progress
    BY <1>14 DEF ReplayCandle, Goto
  <2>2. z <= y /\ y <= x /\ x \in {0, 1} /\ y \in {0, 1} /\ z \in {0, 1}
    BY DEF Won, Scored
  <2>3. /\ r \in Runs /\ r.offset < r.count /\ r.offset \in Nat
        /\ r.count \in Nat /\ r.wins <= r.scored /\ r.scored <= r.triggers
        /\ r.setting.start < r.setting.end
    BY <1>1, <1>2, <2>1 DEF Runs, WorkerOk, RunSteps
  <2>4. n \in Nat /\ n <= r.count /\ n >= 1
    BY <2>3
  <2>5. (n * 100) \div r.count \in 0 .. 100
    BY <2>3, <2>4, ShareOfHundred
  <2>6. ColumnsOk'
    BY <2>1, <2>5 DEF TypeInv, ColumnsOk
  <2> HIDE DEF x, y, z
  <2>7. run' = [run EXCEPT ![w] = q]
    <3>1. r.saves \cup d = IF ProgressIsDue(n, r.count)
                           THEN r.saves \cup {n} ELSE r.saves
      OBVIOUS
    <3> QED
      BY <2>1, <3>1 DEF TypeInv
  <2>8. /\ q \in Runs /\ q.offset = n /\ q.count = r.count
        /\ q.setting = r.setting
        /\ q.wins <= q.scored /\ q.scored <= q.triggers
    <3>1. r.triggers \in Nat /\ r.scored \in Nat /\ r.wins \in Nat
      BY <2>3 DEF Runs
    <3>2. r.saves \cup d \in SUBSET Nat
      BY <2>3, <2>4 DEF Runs
    <3>3. /\ r.triggers + x \in Nat /\ r.scored + y \in Nat
          /\ r.wins + z \in Nat
          /\ r.wins + z <= r.scored + y /\ r.scored + y <= r.triggers + x
      BY <2>2, <2>3, <3>1
    <3>4. /\ q.offset = n /\ q.count = r.count /\ q.setting = r.setting
          /\ q.triggers = r.triggers + x /\ q.scored = r.scored + y
          /\ q.wins = r.wins + z
      BY <2>3 DEF Runs
    <3> HIDE DEF n, d
    <3>5. q \in Runs
      BY <2>3, <2>4, <3>2, <3>3 DEF Runs
    <3> QED
      BY <3>3, <3>4, <3>5
  <2> HIDE DEF q, n, d
  <2>9. WorkerOk(p, RunMessage, q) /\ p \in Steps
    BY <2>3, <2>4, <2>8 DEF WorkerOk, RunSteps, Steps
  <2> HIDE DEF p
  <2> QED
    BY <1>1, <1>2, <1>4, <1>7, <2>1, <2>6, <2>7, <2>9
<1>15. CASE SaveCompleted(w)
  <2>1. /\ pc' = [pc EXCEPT ![w] = "done"] /\ UNCHANGED <<job, run, queue>>
        /\ UNCHANGED <<environment, admin, counters, error>>
        /\ pc[w] = "complete" /\ status' = "completed" /\ progress' = 100
        /\ result' = [triggers |-> r.triggers, scored |-> r.scored,
                      wins |-> r.wins, stored |-> TRUE]
    BY <1>15 DEF SaveCompleted, Goto
  <2>2. result' \in Results
    BY <1>1, <1>2, <2>1 DEF Results, Runs, WorkerOk
  <2>3. ColumnsOk'
    BY <2>1, <2>2 DEF TypeInv, ColumnsOk, Statuses
  <2>4. "done" \in Steps /\ WorkerOk("done", job[w], r)
    BY <1>1, <2>1 DEF WorkerOk, Steps, RunSteps
  <2> QED
    BY <1>1, <1>2, <1>4, <1>6, <1>7, <2>1, <2>3, <2>4
<1>16. CASE Acknowledge(w)
  <2>1. /\ pc' = [pc EXCEPT ![w] = "idle"] /\ job' = [job EXCEPT ![w] = NoJob]
        /\ run' = [run EXCEPT ![w] = NoRun]
        /\ UNCHANGED <<environment, row, queue, admin, counters>>
    BY <1>16 DEF Acknowledge, Forget, Release
  <2>2. "idle" \in Steps /\ WorkerOk("idle", NoJob, NoRun)
    BY DEF WorkerOk, Steps
  <2> QED
    BY <1>1, <1>4, <1>5, <2>1, <2>2
<1> QED
  BY <1>8, <1>9, <1>10, <1>11, <1>12, <1>13, <1>14, <1>15, <1>16 DEF Work

\* and no other step does.
LEMMA TypeStep == TypeInv /\ [Next]_vars => TypeInv'
<1> SUFFICES ASSUME TypeInv, [Next]_vars PROVE TypeInv'
  OBVIOUS
<1>1. UNCHANGED <<pc, job, run>> =>
        /\ pc' \in [Workers -> Steps]
        /\ job' \in [Workers -> {NoJob, RunMessage}]
        /\ DOMAIN run' = Workers /\ run' = [v \in Workers |-> run'[v]]
        /\ \A w \in Workers : WorkerOk(pc'[w], job'[w], run'[w])
  BY DEF TypeInv
<1>2. UNCHANGED row => ColumnsOk'
  BY DEF TypeInv, ColumnsOk, row
<1>3. UNCHANGED <<form>> => FormOk'
  BY DEF TypeInv, FormOk
<1>4. CASE RunBacktestAction
  <2>1. queue' \in [{RunMessage} -> Nat] /\ clicks' \in Nat
    BY <1>4 DEF RunBacktestAction, Publish, TypeInv
  <2> QED
    BY <1>1, <1>2, <1>3, <1>4, <2>1
    DEF RunBacktestAction, TypeInv, environment, admin
<1>5. ASSUME NEW n \in CandleNumbers, CandlesLand(n) PROVE TypeInv'
  <2>1. landed' \in 0 .. MaxCandle
    BY <1>5, BacktestBounds DEF CandlesLand, CandleNumbers
  <2> QED
    BY <1>1, <1>2, <1>3, <1>5, <2>1 DEF CandlesLand, TypeInv, admin, counters
<1>6. CASE FormLoads
  <2>1. FormOk'
    BY <1>6 DEF FormLoads, TypeInv, FormOk, ColumnsOk
  <2> QED
    BY <1>1, <1>2, <1>6, <2>1 DEF FormLoads, TypeInv, environment, counters
<1>7. ASSUME NEW s \in Settings, FormSaves(s) PROVE TypeInv'
  <2>1. ColumnsOk'
    BY <1>7 DEF FormSaves, TypeInv, FormOk, ColumnsOk
  <2>2. FormOk' /\ undone' \in BOOLEAN
    BY <1>7 DEF FormSaves, FormOk, TypeInv
  <2> QED
    BY <1>1, <1>7, <2>1, <2>2 DEF FormSaves, TypeInv, counters
<1>8. ASSUME NEW w \in Workers, Work(w) PROVE TypeInv'
  BY <1>8, WorkKeepsTypes
<1>9. ASSUME NEW w \in Workers, WorkerLost(w) \/ TaskRaises(w) PROVE TypeInv'
  <2>1. /\ pc' = [pc EXCEPT ![w] = "idle"] /\ job' = [job EXCEPT ![w] = NoJob]
        /\ run' = [run EXCEPT ![w] = NoRun]
        /\ UNCHANGED <<environment, row, clicks, admin>> /\ pc[w] # "idle"
    BY <1>9 DEF WorkerLost, TaskRaises, Forget, Release
  <2>2. "idle" \in Steps /\ WorkerOk("idle", NoJob, NoRun)
    BY DEF WorkerOk, Steps
  <2>3. job[w] = RunMessage
    BY <2>1 DEF TypeInv, WorkerOk
  <2>4. queue' \in [{RunMessage} -> Nat] /\ crashes' \in Nat /\ abandoned' \in Nat
    BY <1>9, <2>3 DEF WorkerLost, TaskRaises, GiveBack, Publish, TypeInv
  <2>5. /\ pc' \in [Workers -> Steps]
        /\ job' \in [Workers -> {NoJob, RunMessage}]
        /\ DOMAIN run' = Workers /\ run' = [v \in Workers |-> run'[v]]
        /\ \A v \in Workers : WorkerOk(pc'[v], job'[v], run'[v])
    BY <2>1, <2>2, LocalStepTyped
  <2> QED
    BY <1>2, <1>3, <2>1, <2>4, <2>5 DEF TypeInv, environment, admin
<1>10. CASE UNCHANGED vars
  BY <1>1, <1>2, <1>3, <1>10
  DEF vars, TypeInv, environment, admin, counters
<1> QED
  BY <1>4, <1>5, <1>6, <1>7, <1>8, <1>9, <1>10 DEF Next

\* Every variable keeps its type, a worker is busy exactly when it holds the
\* message, and the replay counts up to the candles of its range.
THEOREM BacktestTypeCorrect == Spec => []TypeOK
<1>1. Spec => []TypeInv
  BY TypeInit, TypeStep, PTL DEF Spec
<1> QED
  BY <1>1, TypeInvMeansTypeOK, PTL

------------------------------------------------------------------------------
(* A row that was asked for ends.                                          *)

Ended ==
  /\ status \in {"completed", "failed"}
  /\ status = "completed" => progress = 100 /\ result.stored
  /\ status = "failed" => error # ""

\* While nothing undid it, a row that was asked for is waited for, worked on,
\* or ended.
EndInv ==
  (clicks > 0 /\ abandoned = 0 /\ ~undone) =>
    \/ Waiting(RunMessage)
    \/ \E w \in Workers : pc[w] \notin {"idle", "done"}
    \/ Ended

\* No saved failure has an empty error.
LEMMA ErrorsSaySomething == \A e \in FailSteps : e # ""
  BY Zenon DEF FailSteps

\* No step leaves a row behind: whoever lets go of it has ended it, handed it
\* back, or left another worker on it.
LEMMA EndStep == TypeInv /\ EndInv /\ [Next]_vars => EndInv'
<1> SUFFICES ASSUME TypeInv, EndInv, [Next]_vars,
                    clicks' > 0, abandoned' = 0, ~undone'
             PROVE  \/ Waiting(RunMessage)'
                    \/ \E w \in Workers : pc'[w] \notin {"idle", "done"}
                    \/ Ended'
  BY DEF EndInv
<1>1. /\ pc \in [Workers -> Steps] /\ queue \in [{RunMessage} -> Nat]
      /\ abandoned \in Nat /\ undone \in BOOLEAN /\ clicks \in Nat
      /\ \A w \in Workers : WorkerOk(pc[w], job[w], run[w])
  BY DEF TypeInv
<1>2. CASE RunBacktestAction
  BY <1>1, <1>2 DEF RunBacktestAction, Publish, Waiting
<1>3. ASSUME NEW n \in CandleNumbers, CandlesLand(n)
      PROVE  \/ Waiting(RunMessage)'
             \/ \E w \in Workers : pc'[w] \notin {"idle", "done"}
             \/ Ended'
  BY <1>3 DEF CandlesLand, EndInv, Waiting, Ended, row, admin, counters
<1>4. CASE FormLoads
  BY <1>4 DEF FormLoads, EndInv, Waiting, Ended, row, counters
<1>5. ASSUME NEW s \in Settings, FormSaves(s)
      PROVE  \/ Waiting(RunMessage)'
             \/ \E w \in Workers : pc'[w] \notin {"idle", "done"}
             \/ Ended'
  <2>1. row' = row /\ ~undone
    BY <1>1, <1>5 DEF FormSaves
  <2> QED
    BY <1>5, <2>1 DEF FormSaves, EndInv, Waiting, Ended, row, counters
<1>6. ASSUME NEW w \in Workers, NEW p \in Steps \ {"idle", "done"},
             pc' = [pc EXCEPT ![w] = p]
      PROVE  \E v \in Workers : pc'[v] \notin {"idle", "done"}
  <2>1. pc'[w] = p
    BY <1>1, <1>6
  <2> QED
    BY <1>6, <2>1
<1>7. ASSUME NEW w \in Workers, Work(w)
      PROVE  \/ Waiting(RunMessage)'
             \/ \E v \in Workers : pc'[v] \notin {"idle", "done"}
             \/ Ended'
  <2>1. CASE ReadsBacktest(w)
    <3> DEFINE p == IF setting.end <= setting.start THEN "bad_range" ELSE "warmup"
    <3>1. pc' = [pc EXCEPT ![w] = p]
      BY <2>1 DEF ReadsBacktest, Begin
    <3>2. p \in Steps \ {"idle", "done"}
      BY DEF Steps, FailSteps, RunSteps
    <3> HIDE DEF p
    <3> QED
      BY <1>6, <3>1, <3>2
  <2>2. CASE SaveFailed(w)
    BY <2>2, ErrorsSaySomething DEF SaveFailed, Ended
  <2>3. CASE QueryWarmup(w)
    BY <1>6, <2>3 DEF QueryWarmup, Goto, Steps, RunSteps
  <2>4. CASE QueryRange(w)
    BY <1>6, <2>4 DEF QueryRange, Goto, Steps, RunSteps, FailSteps
  <2>5. CASE QueryTail(w)
    BY <1>6, <2>5 DEF QueryTail, Goto, Steps, RunSteps
  <2>6. CASE SaveRunning(w)
    BY <1>6, <2>6 DEF SaveRunning, Goto, Steps, RunSteps
  <2>7. CASE ReplayCandle(w)
    BY <1>6, <2>7 DEF ReplayCandle, Goto, Steps, RunSteps
  <2>8. CASE SaveCompleted(w)
    BY <2>8 DEF SaveCompleted, Ended
  <2>9. CASE Acknowledge(w)
    <3>1. /\ UNCHANGED <<row, queue, admin, counters>> /\ pc[w] = "done"
          /\ pc' = [pc EXCEPT ![w] = "idle"]
      BY <2>9 DEF Acknowledge, Forget, Release
    <3>2. \A v \in Workers : pc[v] \notin {"idle", "done"} => pc'[v] = pc[v]
      BY <1>1, <3>1
    <3>3. clicks > 0 /\ abandoned = 0 /\ ~undone
      BY <3>1 DEF admin, counters
    <3> QED
      BY <3>1, <3>2, <3>3 DEF EndInv, Waiting, Ended, row
  <2> QED
    BY <1>7, <2>1, <2>2, <2>3, <2>4, <2>5, <2>6, <2>7, <2>8, <2>9 DEF Work
<1>8. ASSUME NEW w \in Workers, WorkerLost(w)
      PROVE  Waiting(RunMessage)'
  <2>1. job[w] = RunMessage
    BY <1>1, <1>8 DEF WorkerLost, WorkerOk
  <2> QED
    BY <1>1, <1>8, <2>1 DEF WorkerLost, GiveBack, Publish, Waiting
<1>9. ASSUME NEW w \in Workers, TaskRaises(w)
      PROVE  FALSE
  BY <1>1, <1>9 DEF TaskRaises
<1>10. CASE UNCHANGED vars
  BY <1>10 DEF vars, EndInv, Waiting, Ended, row, admin, counters
<1> QED
  BY <1>2, <1>3, <1>4, <1>5, <1>7, <1>8, <1>9, <1>10 DEF Next

\* When nothing runs or waits any more, a backtest that was asked for has
\* ended, unless a task was ended by an exception or its time limit or a form
\* was saved over what a run wrote: for any number of workers, clicks and
\* crashes (backtesting/tasks.py:75-133).
THEOREM RowsEnd == Spec => []QuietMeansEnded
<1>1. Spec => []TypeInv
  BY TypeInit, TypeStep, PTL DEF Spec
<1>2. Init => EndInv
  <2>1. Init => clicks = 0
    BY DEF Init
  <2> QED
    BY <2>1 DEF EndInv
<1>3. Spec => []EndInv
  BY <1>1, <1>2, EndStep, PTL DEF Spec
<1>4. EndInv => QuietMeansEnded
  <2>1. EndInv /\ Quiet /\ clicks > 0 /\ abandoned = 0 /\ ~undone => Ended
    <3>1. Quiet => /\ ~Waiting(RunMessage)
                   /\ ~\E w \in Workers : pc[w] \notin {"idle", "done"}
      BY DEF Quiet
    <3> QED
      BY <3>1, Zenon DEF EndInv
  <2> QED
    BY <2>1, Zenon DEF QuietMeansEnded, Ended
<1> QED
  BY <1>3, <1>4, PTL

------------------------------------------------------------------------------
(* A stored result is the reference's.                                     *)

\* What the reference counts.
TriggersOf(s, l) == {c \in InRange(s, l) : s.config[LiveWindow(c)]}
ScoredOf(s, l) == {c \in TriggersOf(s, l) : c + s.horizon <= l}
WinsOf(s, l) == {c \in ScoredOf(s, l) : close[c + s.horizon] > close[c]}

\* The queries of run r saw one database, or all its setting looks at.
Whole(r) == r.from = r.to \/ Settled(r.setting, r.from)

\* The series holds the candles from low to high without a gap, of which the
\* range's are counted.
Assembled(r, low, high) ==
  /\ r.series = Consecutive(low, high)
  /\ r.first = Lower(r.setting) - low
  /\ r.count = Upper(r.setting, r.from) - Lower(r.setting) + 1
  /\ Lower(r.setting) <= Upper(r.setting, r.from)

\* The counts are those of the candles replayed so far.
Counted(r) ==
  LET c == Lower(r.setting) + r.offset IN
  /\ r.triggers = Below(TriggersOf(r.setting, r.from), c)
  /\ r.scored = Below(ScoredOf(r.setting, r.from), c)
  /\ r.wins = Below(WinsOf(r.setting, r.from), c)

\* What step p of a worker says of its locals r once l candles landed.
KnownOk(p, r, l) ==
  /\ p \in RunSteps => r.from <= l
  /\ p = "range" =>
       /\ r.series = Consecutive(Low(r.setting, r.from), WarmTop(r.setting, r.from))
       /\ r.first = WarmTop(r.setting, r.from) - Low(r.setting, r.from) + 1
  /\ (p = "tail" /\ (r.from = l \/ Settled(r.setting, r.from)))
       => Assembled(r, Low(r.setting, r.from), Upper(r.setting, r.from))
  /\ (p \in {"start", "replay", "complete"} /\ Whole(r)) =>
       /\ Assembled(r, Low(r.setting, r.from), High(r.setting, r.from))
       /\ Counted(r)

\* A result res of a run that read b.
Proper(res, b) ==
  (res.stored /\ (b.from = b.to \/ Settled(b.setting, b.from)))
    => res = Reference(b.setting, b.from)

ReplayInv ==
  /\ \A w \in Workers : pc[w] # "idle" => KnownOk(pc[w], run[w], landed)
  /\ Proper(result, basis)
  /\ form # NoForm => Proper(form.result, form.basis)

\* The reference, by its counts.
LEMMA ReferenceCounts ==
  ASSUME NEW s, NEW l
  PROVE  Reference(s, l) = [triggers |-> Cardinality(TriggersOf(s, l)),
                            scored |-> Cardinality(ScoredOf(s, l)),
                            wins |-> Cardinality(WinsOf(s, l)),
                            stored |-> TRUE]
  BY DEF Reference, TriggersOf, ScoredOf, WinsOf

\* The past never changes.
LEMMA CloseIsKept ==
  ASSUME close' = close
  PROVE  /\ \A s, l : TriggersOf(s, l)' = TriggersOf(s, l)
         /\ \A s, l : ScoredOf(s, l)' = ScoredOf(s, l)
         /\ \A s, l : WinsOf(s, l)' = WinsOf(s, l)
         /\ \A s, l : Reference(s, l)' = Reference(s, l)
<1>1. \A c : LiveWindow(c)' = LiveWindow(c)
  BY DEF LiveWindow
<1>2. \A s, l : TriggersOf(s, l)' = TriggersOf(s, l)
  BY <1>1 DEF TriggersOf
<1>3. \A s, l : ScoredOf(s, l)' = ScoredOf(s, l)
  BY <1>2 DEF ScoredOf
<1>4. \A s, l : WinsOf(s, l)' = WinsOf(s, l)
  BY <1>3 DEF WinsOf
<1>5. \A s, l : Reference(s, l)' = Reference(s, l)
  BY <1>2, <1>3, <1>4, ReferenceCounts DEF Reference, TriggersOf, ScoredOf, WinsOf
<1> QED
  BY <1>2, <1>3, <1>4, <1>5

\* What is known of a run, and of a result, does not depend on when it is said.
LEMMA KnowledgeIsKept ==
  ASSUME close' = close
  PROVE  /\ \A p, r, l : KnownOk(p, r, l)' <=> KnownOk(p, r, l)
         /\ \A res, b : Proper(res, b)' <=> Proper(res, b)
<1>1. \A r : Counted(r)' <=> Counted(r)
  BY CloseIsKept DEF Counted, Below
<1>2. \A p, r, l : KnownOk(p, r, l)' <=> KnownOk(p, r, l)
  BY <1>1 DEF KnownOk, Assembled, Whole
<1>3. \A res, b : Proper(res, b)' <=> Proper(res, b)
  BY CloseIsKept DEF Proper
<1> QED
  BY <1>2, <1>3

\* What the reference counts lies in the range.
LEMMA CountedLieInRange ==
  ASSUME NEW s \in Settings, NEW l \in Nat, s.start < s.end
  PROVE  /\ TriggersOf(s, l) \subseteq Lower(s) .. Upper(s, l)
         /\ ScoredOf(s, l) \subseteq Lower(s) .. Upper(s, l)
         /\ WinsOf(s, l) \subseteq Lower(s) .. Upper(s, l)
<1>1. InRange(s, l) = Lower(s) .. Upper(s, l)
  BY RangeQuery
<1> QED
  BY <1>1 DEF TriggersOf, ScoredOf, WinsOf

\* None is below the range, and all are once its last candle is counted.
LEMMA CountsAtTheEnds ==
  ASSUME NEW a \in Nat, NEW b \in Nat, NEW G, G \subseteq a .. b
  PROVE  /\ Below(G, a) = 0
         /\ Below(G, b + 1) = Cardinality(G)
<1>1. \A x \in G : x \in Int /\ a <= x /\ x <= b
  OBVIOUS
<1>2. {x \in G : x < a} = {}
  <2>1. \A x \in G : ~(x < a)
    BY <1>1
  <2> QED
    BY ONLY <2>1, Zenon
<1>3. {x \in G : x < b + 1} = G
  <2>1. \A x \in G : x < b + 1
    BY <1>1
  <2> QED
    BY ONLY <2>1, Zenon
<1> QED
  BY <1>2, <1>3, FS_EmptySet DEF Below

\* One candle more is replayed.
LEMMA ReplayCounts ==
  ASSUME NEW r \in Runs, r.setting.start < r.setting.end,
         Assembled(r, Low(r.setting, r.from), High(r.setting, r.from)),
         Counted(r), r.offset < r.count,
         NEW q \in Runs, q.setting = r.setting, q.from = r.from,
         q.offset = r.offset + 1,
         NEW i, i = r.first + r.offset + 1,
         q.triggers = r.triggers + (IF Triggered(r, i) THEN 1 ELSE 0),
         q.scored = r.scored + (IF Scored(r, i) THEN 1 ELSE 0),
         q.wins = r.wins + (IF Won(r, i) THEN 1 ELSE 0)
  PROVE  Counted(q)
<1> DEFINE s == r.setting
           l == r.from
           c == Lower(s) + r.offset
<1>1. s \in Settings /\ l \in Nat /\ r.offset \in Nat /\ r.count \in Nat
  BY DEF Runs
<1>2. /\ Lower(s) \in Nat /\ Upper(s, l) \in Nat /\ Low(s, l) \in Nat
      /\ Lower(s) <= Upper(s, l) /\ r.first = Lower(s) - Low(s, l)
      /\ r.count = Upper(s, l) - Lower(s) + 1
      /\ r.series = Consecutive(Low(s, l), High(s, l))
  BY <1>1, PlacesAreNumbers DEF Assembled
<1>3. c \in Lower(s) .. Upper(s, l) /\ c \in Nat /\ i = c - Low(s, l) + 1
  BY <1>1, <1>2
<1>4. s.horizon \in Nat
  BY <1>1, SettingsAreEntered
<1> HIDE DEF s, l, c
<1>5. /\ Window(r.series, i) = LiveWindow(c)
      /\ r.series[i] = c
      /\ i + s.horizon <= Len(r.series) <=> c + s.horizon <= l
      /\ c + s.horizon <= l => r.series[i + s.horizon] = c + s.horizon
  <2>1. s.start < s.end
    BY DEF s
  <2> QED
    BY ONLY <1>1, <1>2, <1>3, <2>1, ReplaySeesCandle
<1>6. c \in InRange(s, l)
  BY <1>1, <1>3, RangeQuery DEF s
<1>7. /\ Triggered(r, i) <=> c \in TriggersOf(s, l)
      /\ Scored(r, i) <=> c \in ScoredOf(s, l)
      /\ Won(r, i) <=> c \in WinsOf(s, l)
  <2>1. Triggered(r, i) <=> c \in TriggersOf(s, l)
    BY <1>5, <1>6 DEF Triggered, TriggersOf, s
  <2>2. Scored(r, i) <=> c \in ScoredOf(s, l)
    BY <1>5, <2>1 DEF Scored, ScoredOf, s
  <2>3. Won(r, i) <=> c \in WinsOf(s, l)
    <3>1. CASE c \in ScoredOf(s, l)
      <4>1. c + s.horizon <= l
        BY <3>1 DEF ScoredOf
      <4>2. /\ close[r.series[i + s.horizon]] = close[c + s.horizon]
            /\ close[r.series[i]] = close[c]
        BY <1>5, <4>1
      <4> QED
        BY <2>2, <3>1, <4>2 DEF Won, WinsOf, s
    <3>2. CASE c \notin ScoredOf(s, l)
      BY <2>2, <3>2 DEF Won, WinsOf
    <3> QED
      BY <3>1, <3>2
  <2> QED
    BY <2>1, <2>2, <2>3
<1>8. /\ TriggersOf(s, l) \subseteq Lower(s) .. Upper(s, l)
      /\ ScoredOf(s, l) \subseteq Lower(s) .. Upper(s, l)
      /\ WinsOf(s, l) \subseteq Lower(s) .. Upper(s, l)
  BY <1>1, CountedLieInRange DEF s
<1>9. /\ Below(TriggersOf(s, l), c + 1)
           = Below(TriggersOf(s, l), c) + (IF c \in TriggersOf(s, l) THEN 1 ELSE 0)
      /\ Below(ScoredOf(s, l), c + 1)
           = Below(ScoredOf(s, l), c) + (IF c \in ScoredOf(s, l) THEN 1 ELSE 0)
      /\ Below(WinsOf(s, l), c + 1)
           = Below(WinsOf(s, l), c) + (IF c \in WinsOf(s, l) THEN 1 ELSE 0)
  <2>1. ASSUME NEW G, G \subseteq Lower(s) .. Upper(s, l)
        PROVE  Below(G, c + 1) = Below(G, c) + (IF c \in G THEN 1 ELSE 0)
    <3>1. Lower(s) \in Nat /\ Upper(s, l) \in Nat /\ c \in Nat
      BY ONLY <1>2, <1>3
    <3> QED
      BY ONLY <2>1, <3>1, CountsOneMore
  <2> QED
    BY ONLY <1>8, <2>1
<1>10. Lower(s) + q.offset = c + 1
  BY <1>1, <1>2 DEF c, s
<1>11. /\ r.triggers = Below(TriggersOf(s, l), c)
       /\ r.scored = Below(ScoredOf(s, l), c)
       /\ r.wins = Below(WinsOf(s, l), c)
  BY DEF Counted, s, l, c
<1>12. /\ q.triggers = Below(TriggersOf(s, l), c + 1)
       /\ q.scored = Below(ScoredOf(s, l), c + 1)
       /\ q.wins = Below(WinsOf(s, l), c + 1)
  BY <1>7, <1>9, <1>11
<1> QED
  BY <1>10, <1>12 DEF Counted, s, l

\* Nothing is stored of a new row.
LEMMA ReplayInit == Init => ReplayInv
<1> SUFFICES ASSUME Init PROVE ReplayInv
  OBVIOUS
<1>1. \A w \in Workers : pc[w] = "idle"
  BY DEF Init, IdleWorkers
<1>2. ~result.stored /\ form = NoForm
  BY DEF Init, NoResult
<1> QED
  BY <1>1, <1>2 DEF ReplayInv, Proper

\* A worker's step that moves only its locals.
LEMMA LocalStepKnown ==
  ASSUME TypeInv, ReplayInv, NEW w \in Workers, NEW p, NEW q,
         UNCHANGED <<environment, admin>>,
         pc' = [pc EXCEPT ![w] = p], run' = [run EXCEPT ![w] = q],
         p # "idle" => KnownOk(p, q, landed),
         Proper(result', basis')
  PROVE  ReplayInv'
<1>1. landed' = landed /\ close' = close /\ form' = form
  BY DEF environment, admin
<1>2. ASSUME NEW v \in Workers, pc'[v] # "idle"
      PROVE  KnownOk(pc'[v], run'[v], landed)
  <2>1. CASE v = w
    <3>1. pc'[v] = p /\ run'[v] = q
      BY <2>1 DEF TypeInv
    <3> QED
      BY <1>2, <3>1
  <2>2. CASE v # w
    <3>1. pc'[v] = pc[v] /\ run'[v] = run[v]
      BY <2>2 DEF TypeInv
    <3> QED
      BY <1>2, <3>1 DEF ReplayInv
  <2> QED
    BY <2>1, <2>2
<1>3. form # NoForm => Proper(form.result, form.basis)
  BY DEF ReplayInv
<1>4. (\A v \in Workers : pc[v] # "idle" => KnownOk(pc[v], run[v], landed))'
  <2> SUFFICES ASSUME NEW v \in Workers, pc'[v] # "idle"
               PROVE  KnownOk(pc[v], run[v], landed)'
    OBVIOUS
  <2>1. KnownOk(pc'[v], run'[v], landed')
    BY <1>1, <1>2
  <2> QED
    BY <1>1, <2>1, KnowledgeIsKept
<1>5. Proper(result, basis)'
  BY <1>1, KnowledgeIsKept
<1>6. (form # NoForm => Proper(form.result, form.basis))'
  BY <1>1, <1>3, KnowledgeIsKept
<1> QED
  BY <1>4, <1>5, <1>6 DEF ReplayInv

\* No step of a worker stores a wrong result,
LEMMA WorkKeepsResults ==
  ASSUME TypeInv, ReplayInv, NEW w \in Workers, Work(w)
  PROVE  ReplayInv'
<1> DEFINE r == run[w]
           s == r.setting
           f == r.from
<1>1. /\ WorkerOk(pc[w], job[w], r) /\ landed \in Nat
      /\ pc[w] # "idle" => KnownOk(pc[w], r, landed)
      /\ Proper(result, basis)
  BY BacktestBounds DEF TypeInv, ReplayInv
<1>2. pc[w] # "idle" => r \in Runs /\ s \in Settings /\ f \in Nat
  BY <1>1 DEF WorkerOk, Runs
<1>3. UNCHANGED run => run' = [run EXCEPT ![w] = r]
  BY DEF TypeInv
<1>4. CASE ReadsBacktest(w)
  <2> DEFINE p == IF setting.end <= setting.start THEN "bad_range" ELSE "warmup"
             q == [setting |-> setting, series |-> <<>>, first |-> 0,
                   count |-> 0, offset |-> 0, triggers |-> 0, scored |-> 0,
                   wins |-> 0, from |-> landed, to |-> landed,
                   saves |-> {}]
  <2>1. /\ pc' = [pc EXCEPT ![w] = p] /\ run' = [run EXCEPT ![w] = q]
        /\ UNCHANGED <<environment, admin, row>>
    BY <1>4 DEF ReadsBacktest, Begin
  <2>2. KnownOk(p, q, landed)
    <3>1. q.from <= landed
      BY <1>1
    <3>2. p \notin {"range", "tail", "start", "replay", "complete"}
      OBVIOUS
    <3> HIDE DEF p, q
    <3> QED
      BY <3>1, <3>2 DEF KnownOk
  <2>3. Proper(result', basis')
    BY <1>1, <2>1 DEF row
  <2> HIDE DEF p, q
  <2> QED
    BY <2>1, <2>2, <2>3, LocalStepKnown
<1>5. CASE SaveFailed(w)
  <2>1. /\ pc' = [pc EXCEPT ![w] = "done"] /\ UNCHANGED run
        /\ UNCHANGED <<environment, admin, result, basis>>
    BY <1>5 DEF SaveFailed, Goto
  <2>2. KnownOk("done", r, landed)
    BY DEF KnownOk, RunSteps
  <2> QED
    BY <1>1, <1>3, <2>1, <2>2, LocalStepKnown
<1>6. CASE QueryWarmup(w)
  <2> DEFINE warmup == Ascending(LastOf(History, {c \in Landed : c < s.start}))
             q == [r EXCEPT !.series = warmup, !.first = Len(warmup),
                            !.from = landed]
  <2>1. /\ pc' = [pc EXCEPT ![w] = "range"] /\ pc[w] = "warmup"
        /\ UNCHANGED <<environment, admin, row>>
        /\ run' = [run EXCEPT ![w].series = warmup, ![w].first = Len(warmup),
                              ![w].from = landed]
    BY <1>6 DEF QueryWarmup, Goto
  <2>2. r \in Runs /\ s \in Settings
    BY <1>2, <2>1
  <2>3. warmup = Consecutive(Low(s, landed), WarmTop(s, landed))
    BY <1>1, <2>2, WarmupQuery DEF Landed
  <2>4. Len(warmup) = WarmTop(s, landed) - Low(s, landed) + 1
    <3>1. /\ Low(s, landed) \in Nat /\ WarmTop(s, landed) \in Int
          /\ Low(s, landed) <= WarmTop(s, landed) + 1
      BY <1>1, <2>2, PlacesAreNumbers
    <3> QED
      BY ONLY <2>3, <3>1, ConsecutiveIsSeries
  <2> HIDE DEF warmup
  <2>5. run' = [run EXCEPT ![w] = q]
    BY <2>1 DEF TypeInv
  <2>6. /\ q.setting = s /\ q.from = landed /\ q.series = warmup
        /\ q.first = Len(warmup)
    BY <2>2 DEF Runs
  <2> HIDE DEF q
  <2>7. KnownOk("range", q, landed)
    BY <1>1, <2>3, <2>4, <2>6 DEF KnownOk
  <2>8. Proper(result', basis')
    BY <1>1, <2>1 DEF row
  <2> QED
    BY <2>1, <2>5, <2>7, <2>8, LocalStepKnown
<1>7. CASE QueryRange(w)
  <2> DEFINE in_range == Ascending(InRange(s, landed))
             q == [r EXCEPT !.series = @ \o in_range, !.count = Len(in_range)]
             p == IF in_range = <<>> THEN "no_candles" ELSE "tail"
  <2>1. /\ pc' = [pc EXCEPT ![w] = p] /\ pc[w] = "range"
        /\ UNCHANGED <<environment, admin, row>>
        /\ run' = [run EXCEPT ![w].series = @ \o in_range,
                              ![w].count = Len(in_range)]
    BY <1>7 DEF QueryRange, Goto
  <2>2. /\ r \in Runs /\ s \in Settings /\ f \in Nat /\ s.start < s.end
        /\ f <= landed
        /\ r.series = Consecutive(Low(s, f), WarmTop(s, f))
        /\ r.first = WarmTop(s, f) - Low(s, f) + 1
    BY <1>1, <1>2, <2>1 DEF WorkerOk, RunSteps, KnownOk
  <2>3. in_range = Consecutive(Lower(s), Upper(s, landed))
    BY <1>1, <2>2, RangeQuery
  <2>4. /\ Lower(s) \in Nat /\ Upper(s, landed) \in Int
        /\ Lower(s) <= Upper(s, landed) + 1
    BY <1>1, <2>2, RangePlaces
  <2>5. in_range \in Seq(Nat) /\ Len(in_range) = Upper(s, landed) - Lower(s) + 1
    BY ONLY <2>3, <2>4, ConsecutiveIsSeries
  <2>6. in_range # <<>> => Lower(s) <= Upper(s, landed)
    BY <2>4, <2>5, EmptySeq
  <2>7. (f = landed \/ Settled(s, f)) => Upper(s, landed) = Upper(s, f)
    BY <1>1, <2>2, SettledPlaces
  <2> HIDE DEF in_range
  <2>8. run' = [run EXCEPT ![w] = q]
    BY <2>1 DEF TypeInv
  <2>9. /\ q.setting = s /\ q.from = f /\ q.series = r.series \o in_range
        /\ q.first = r.first /\ q.count = Len(in_range)
    BY <2>2 DEF Runs
  <2>10. ASSUME in_range # <<>>, f = landed \/ Settled(s, f)
         PROVE  Assembled(q, Low(s, f), Upper(s, f))
    <3>1. Lower(s) <= Upper(s, f) /\ in_range = Consecutive(Lower(s), Upper(s, f))
      BY <2>3, <2>6, <2>7, <2>10
    <3>2. /\ WarmTop(s, f) = Lower(s) - 1
          /\ Consecutive(Low(s, f), WarmTop(s, f))
               \o Consecutive(Lower(s), Upper(s, f))
               = Consecutive(Low(s, f), Upper(s, f))
      BY <2>2, <3>1, RangeSeries
    <3>3. q.series = Consecutive(Low(s, f), Upper(s, f))
      BY <2>2, <2>9, <3>1, <3>2
    <3>4. q.first = Lower(s) - Low(s, f)
      <4>1. Low(s, f) \in Nat
        BY <2>2, PlacesAreNumbers
      <4> QED
        BY <2>2, <2>4, <2>9, <3>2, <4>1
    <3>5. q.count = Upper(s, f) - Lower(s) + 1
      BY <2>5, <2>7, <2>9, <2>10
    <3> HIDE DEF q, s, f
    <3> QED
      BY <2>9, <3>1, <3>3, <3>4, <3>5 DEF Assembled
  <2>11. p \in {"no_candles", "tail"} /\ (p = "tail" => in_range # <<>>)
    OBVIOUS
  <2> HIDE DEF q, p
  <2>12. KnownOk(p, q, landed)
    BY <2>2, <2>9, <2>10, <2>11 DEF KnownOk
  <2>13. Proper(result', basis')
    BY <1>1, <2>1 DEF row
  <2> QED
    BY <2>1, <2>8, <2>12, <2>13, LocalStepKnown
<1>8. CASE QueryTail(w)
  <2> DEFINE tail == Ascending(FirstOf(s.horizon, {c \in Landed : c >= s.end}))
             q == [r EXCEPT !.series = @ \o tail, !.to = landed]
  <2>1. /\ pc' = [pc EXCEPT ![w] = "start"] /\ pc[w] = "tail"
        /\ UNCHANGED <<environment, admin, row>>
        /\ run' = [run EXCEPT ![w].series = @ \o tail, ![w].to = landed]
    BY <1>8 DEF QueryTail, Goto
  <2>2. /\ r \in Runs /\ s \in Settings /\ f \in Nat /\ s.start < s.end
        /\ f <= landed /\ r.offset = 0 /\ r.triggers = 0 /\ r.scored = 0
        /\ r.wins = 0
        /\ (f = landed \/ Settled(s, f)) => Assembled(r, Low(s, f), Upper(s, f))
    BY <1>1, <1>2, <2>1 DEF WorkerOk, RunSteps, KnownOk
  <2>3. tail = Consecutive(s.end, TailTop(s, landed))
    BY <1>1, <2>2, TailQuery DEF Landed
  <2>4. (f = landed \/ Settled(s, f)) => TailTop(s, landed) = TailTop(s, f)
    BY <1>1, <2>2, SettledPlaces
  <2> HIDE DEF tail
  <2>5. run' = [run EXCEPT ![w] = q]
    BY <2>1 DEF TypeInv
  <2>6. /\ q.setting = s /\ q.from = f /\ q.to = landed
        /\ q.series = r.series \o tail /\ q.first = r.first
        /\ q.count = r.count /\ q.offset = 0 /\ q.triggers = 0
        /\ q.scored = 0 /\ q.wins = 0
    BY <2>2 DEF Runs
  <2> HIDE DEF q
  <2>7. ASSUME Whole(q)
        PROVE  Assembled(q, Low(s, f), High(s, f)) /\ Counted(q)
    <3>1. f = landed \/ Settled(s, f)
      BY <2>6, <2>7 DEF Whole
    <3>2. Assembled(r, Low(s, f), Upper(s, f)) /\ TailTop(s, landed) = TailTop(s, f)
      BY <2>2, <2>4, <3>1
    <3>3. /\ r.series = Consecutive(Low(s, f), Upper(s, f))
          /\ Lower(s) <= Upper(s, f)
          /\ r.first = Lower(s) - Low(s, f)
          /\ r.count = Upper(s, f) - Lower(s) + 1
      BY <3>2 DEF Assembled
    <3>4. q.series = Consecutive(Low(s, f), High(s, f))
      BY <2>2, <2>3, <2>6, <3>2, <3>3, TailSeries
    <3>5. Assembled(q, Low(s, f), High(s, f))
      BY <2>6, <3>3, <3>4 DEF Assembled
    <3>6. /\ TriggersOf(s, f) \subseteq Lower(s) .. Upper(s, f)
          /\ ScoredOf(s, f) \subseteq Lower(s) .. Upper(s, f)
          /\ WinsOf(s, f) \subseteq Lower(s) .. Upper(s, f)
          /\ Lower(s) \in Nat /\ Upper(s, f) \in Nat
      BY <2>2, CountedLieInRange, PlacesAreNumbers
    <3>7. /\ Below(TriggersOf(s, f), Lower(s)) = 0
          /\ Below(ScoredOf(s, f), Lower(s)) = 0
          /\ Below(WinsOf(s, f), Lower(s)) = 0
      BY <3>6, CountsAtTheEnds
    <3>8. Lower(s) + q.offset = Lower(s)
      BY <2>6, <3>6
    <3> HIDE DEF s, f
    <3> QED
      BY <2>6, <3>5, <3>7, <3>8 DEF Counted
  <2>8. KnownOk("start", q, landed)
    BY <2>2, <2>6, <2>7 DEF KnownOk
  <2>9. Proper(result', basis')
    BY <1>1, <2>1 DEF row
  <2> QED
    BY <2>1, <2>5, <2>8, <2>9, LocalStepKnown
<1>9. CASE SaveRunning(w)
  <2>1. /\ pc' = [pc EXCEPT ![w] = "replay"] /\ UNCHANGED run
        /\ UNCHANGED <<environment, admin, result, basis>> /\ pc[w] = "start"
    BY <1>9 DEF SaveRunning, Goto
  <2>2. KnownOk("replay", r, landed)
    BY <1>1, <2>1 DEF KnownOk, RunSteps
  <2> QED
    BY <1>1, <1>3, <2>1, <2>2, LocalStepKnown
<1>10. CASE ReplayCandle(w)
  <2> DEFINE i == r.first + r.offset + 1
             n == r.offset + 1
             x == IF Triggered(r, i) THEN 1 ELSE 0
             y == IF Scored(r, i) THEN 1 ELSE 0
             z == IF Won(r, i) THEN 1 ELSE 0
             d == IF ProgressIsDue(n, r.count) THEN {n} ELSE {}
             q == [r EXCEPT !.offset = n, !.triggers = @ + x,
                            !.scored = @ + y, !.wins = @ + z,
                            !.saves = @ \cup d]
             p == IF n = r.count THEN "complete" ELSE "replay"
  <2>1. /\ pc' = [pc EXCEPT ![w] = p] /\ pc[w] = "replay"
        /\ UNCHANGED <<environment, admin, result, basis>>
        /\ run' = [run EXCEPT ![w].offset = n, ![w].triggers = @ + x,
                              ![w].scored = @ + y, ![w].wins = @ + z,
                              ![w].saves =
                                IF ProgressIsDue(n, r.count)
                                THEN @ \cup {n} ELSE @]
    BY <1>10 DEF ReplayCandle, Goto
  <2>2. /\ r \in Runs /\ s \in Settings /\ f \in Nat /\ s.start < s.end
        /\ f <= landed /\ r.offset < r.count
        /\ Whole(r) => Assembled(r, Low(s, f), High(s, f)) /\ Counted(r)
    BY <1>1, <1>2, <2>1 DEF WorkerOk, RunSteps, KnownOk
  <2>3. x \in Nat /\ y \in Nat /\ z \in Nat
    OBVIOUS
  <2> HIDE DEF x, y, z
  <2>4. run' = [run EXCEPT ![w] = q]
    <3>1. r.saves \cup d = IF ProgressIsDue(n, r.count)
                           THEN r.saves \cup {n} ELSE r.saves
      OBVIOUS
    <3> QED
      BY <2>1, <3>1 DEF TypeInv
  <2>5. /\ q.setting = s /\ q.from = f /\ q.to = r.to
        /\ q.series = r.series /\ q.first = r.first /\ q.count = r.count
        /\ q.offset = n /\ q.triggers = r.triggers + x
        /\ q.scored = r.scored + y /\ q.wins = r.wins + z
    BY <2>2 DEF Runs
  <2>6. q \in Runs
    <3>1. /\ n \in Nat /\ r.triggers + x \in Nat /\ r.scored + y \in Nat
          /\ r.wins + z \in Nat
      <4>1. /\ r.offset \in Nat /\ r.triggers \in Nat /\ r.scored \in Nat
            /\ r.wins \in Nat
        BY <2>2 DEF Runs
      <4> QED
        BY ONLY <2>3, <4>1
    <3>2. r.saves \cup d \in SUBSET Nat
      BY <2>2, <3>1 DEF Runs
    <3> HIDE DEF n, d
    <3> QED
      BY <2>2, <3>1, <3>2 DEF Runs
  <2>7. p \in {"replay", "complete"}
    OBVIOUS
  <2> HIDE DEF q, p
  <2>8. ASSUME Whole(q)
        PROVE  Assembled(q, Low(s, f), High(s, f)) /\ Counted(q)
    <3>1. Assembled(r, Low(s, f), High(s, f)) /\ Counted(r)
      BY <2>2, <2>5, <2>8 DEF Whole
    <3>2. Assembled(q, Low(s, f), High(s, f))
      BY <2>5, <3>1 DEF Assembled
    <3>3. Counted(q)
      <4>1. /\ q.triggers = r.triggers + (IF Triggered(r, i) THEN 1 ELSE 0)
            /\ q.scored = r.scored + (IF Scored(r, i) THEN 1 ELSE 0)
            /\ q.wins = r.wins + (IF Won(r, i) THEN 1 ELSE 0)
        BY <2>5 DEF x, y, z
      <4> DEFINE k == i
      <4>2. k = r.first + r.offset + 1 /\ q.offset = r.offset + 1
        BY <2>5
      <4>3. /\ q.triggers = r.triggers + (IF Triggered(r, k) THEN 1 ELSE 0)
            /\ q.scored = r.scored + (IF Scored(r, k) THEN 1 ELSE 0)
            /\ q.wins = r.wins + (IF Won(r, k) THEN 1 ELSE 0)
        BY <4>1
      <4> HIDE DEF k
      <4> QED
        BY <2>2, <2>5, <2>6, <3>1, <4>2, <4>3, ReplayCounts
    <3> QED
      BY <3>2, <3>3
  <2>9. KnownOk(p, q, landed)
    BY <2>2, <2>5, <2>7, <2>8 DEF KnownOk
  <2> QED
    BY <1>1, <2>1, <2>4, <2>9, LocalStepKnown
<1>11. CASE SaveCompleted(w)
  <2>1. /\ pc' = [pc EXCEPT ![w] = "done"] /\ UNCHANGED run
        /\ UNCHANGED <<environment, admin>> /\ pc[w] = "complete"
        /\ result' = [triggers |-> r.triggers, scored |-> r.scored,
                      wins |-> r.wins, stored |-> TRUE]
        /\ basis' = [setting |-> s, from |-> f, to |-> r.to]
    BY <1>11 DEF SaveCompleted, Goto
  <2>2. /\ r \in Runs /\ s \in Settings /\ f \in Nat /\ s.start < s.end
        /\ r.offset = r.count
        /\ Whole(r) => Assembled(r, Low(s, f), High(s, f)) /\ Counted(r)
    BY <1>1, <1>2, <2>1 DEF WorkerOk, RunSteps, KnownOk
  <2>3. Proper(result', basis')
    <3> SUFFICES ASSUME f = r.to \/ Settled(s, f)
                 PROVE  result' = Reference(s, f)
      BY <2>1 DEF Proper
    <3>1. Assembled(r, Low(s, f), High(s, f)) /\ Counted(r)
      BY <2>2 DEF Whole
    <3>2. /\ TriggersOf(s, f) \subseteq Lower(s) .. Upper(s, f)
          /\ ScoredOf(s, f) \subseteq Lower(s) .. Upper(s, f)
          /\ WinsOf(s, f) \subseteq Lower(s) .. Upper(s, f)
          /\ Lower(s) \in Nat /\ Upper(s, f) \in Nat
      BY <2>2, CountedLieInRange, PlacesAreNumbers
    <3>3. Lower(s) + r.offset = Upper(s, f) + 1
      BY <2>2, <3>1, <3>2 DEF Assembled
    <3>4. /\ r.triggers = Below(TriggersOf(s, f), Upper(s, f) + 1)
          /\ r.scored = Below(ScoredOf(s, f), Upper(s, f) + 1)
          /\ r.wins = Below(WinsOf(s, f), Upper(s, f) + 1)
      BY <3>1, <3>3 DEF Counted
    <3>5. /\ r.triggers = Cardinality(TriggersOf(s, f))
          /\ r.scored = Cardinality(ScoredOf(s, f))
          /\ r.wins = Cardinality(WinsOf(s, f))
      BY <3>2, <3>4, CountsAtTheEnds
    <3> QED
      BY <2>1, <3>5, ReferenceCounts
  <2>4. KnownOk("done", r, landed)
    BY DEF KnownOk, RunSteps
  <2> QED
    BY <1>3, <2>1, <2>3, <2>4, LocalStepKnown
<1>12. CASE Acknowledge(w)
  <2>1. /\ pc' = [pc EXCEPT ![w] = "idle"] /\ run' = [run EXCEPT ![w] = NoRun]
        /\ UNCHANGED <<environment, admin, row>>
    BY <1>12 DEF Acknowledge, Forget, Release
  <2>2. Proper(result', basis')
    BY <1>1, <2>1 DEF row
  <2> QED
    BY <2>1, <2>2, LocalStepKnown
<1> QED
  BY <1>4, <1>5, <1>6, <1>7, <1>8, <1>9, <1>10, <1>11, <1>12 DEF Work

\* and no other step does.
LEMMA ReplayStep == TypeInv /\ ReplayInv /\ [Next]_vars => ReplayInv'
<1> SUFFICES ASSUME TypeInv, ReplayInv, [Next]_vars PROVE ReplayInv'
  OBVIOUS
<1>1. ASSUME UNCHANGED <<pc, run>>, close' = close, landed' = landed,
             Proper(result', basis'),
             form' # NoForm => Proper(form'.result, form'.basis)
      PROVE  ReplayInv'
  <2>1. (\A v \in Workers : pc[v] # "idle" => KnownOk(pc[v], run[v], landed))'
    BY <1>1, KnowledgeIsKept DEF ReplayInv
  <2>2. /\ Proper(result, basis)'
        /\ (form # NoForm => Proper(form.result, form.basis))'
    BY <1>1, KnowledgeIsKept
  <2> QED
    BY <2>1, <2>2 DEF ReplayInv
<1>2. CASE RunBacktestAction
  BY <1>1, <1>2 DEF RunBacktestAction, ReplayInv, environment, row, admin
<1>3. ASSUME NEW n \in CandleNumbers, CandlesLand(n) PROVE ReplayInv'
  <2>1. /\ landed' > landed /\ close' = close /\ UNCHANGED <<pc, run, row, form>>
        /\ landed \in Nat /\ landed' \in Nat
    BY <1>3, BacktestBounds DEF CandlesLand, CandleNumbers, admin, TypeInv
  <2>2. ASSUME NEW v \in Workers, pc[v] # "idle"
        PROVE  KnownOk(pc[v], run[v], landed')
    <3>1. KnownOk(pc[v], run[v], landed) /\ run[v].from \in Nat
      BY <2>2 DEF ReplayInv, TypeInv, WorkerOk, Runs
    <3> QED
      BY <2>1, <3>1 DEF KnownOk, RunSteps
  <2>3. (\A v \in Workers : pc[v] # "idle" => KnownOk(pc[v], run[v], landed))'
    BY <2>1, <2>2, KnowledgeIsKept
  <2>4. /\ Proper(result, basis)'
        /\ (form # NoForm => Proper(form.result, form.basis))'
    BY <2>1, KnowledgeIsKept DEF ReplayInv, row
  <2> QED
    BY <2>3, <2>4 DEF ReplayInv
<1>4. CASE FormLoads
  <2>1. /\ form' = [status |-> status, progress |-> progress, error |-> error,
                    result |-> result, basis |-> basis]
        /\ UNCHANGED <<environment, row, pc, run>>
    BY <1>4 DEF FormLoads
  <2>2. Proper(form'.result, form'.basis)
    BY <2>1 DEF ReplayInv
  <2> QED
    BY <1>1, <2>1, <2>2 DEF ReplayInv, environment, row
<1>5. ASSUME NEW t \in Settings, FormSaves(t) PROVE ReplayInv'
  BY <1>1, <1>5 DEF FormSaves, ReplayInv
<1>6. ASSUME NEW w \in Workers, Work(w) PROVE ReplayInv'
  BY <1>6, WorkKeepsResults
<1>7. ASSUME NEW w \in Workers, WorkerLost(w) \/ TaskRaises(w) PROVE ReplayInv'
  <2>1. /\ pc' = [pc EXCEPT ![w] = "idle"] /\ run' = [run EXCEPT ![w] = NoRun]
        /\ UNCHANGED <<environment, admin, row>>
    BY <1>7 DEF WorkerLost, TaskRaises, Forget, Release
  <2>2. Proper(result', basis')
    BY <2>1 DEF row, ReplayInv
  <2> QED
    BY <2>1, <2>2, LocalStepKnown
<1>8. CASE UNCHANGED vars
  BY <1>1, <1>8 DEF vars, ReplayInv, environment, row, admin
<1> QED
  BY <1>2, <1>3, <1>4, <1>5, <1>6, <1>7, <1>8 DEF Next

\* A stored result is the reference's for the setting and the candles its run
\* read: for any series, range, horizon and config, however runs, crashes and
\* change forms interleave, and as long as the run's queries saw one database
\* or nothing it had to look at was missing (backtesting/tasks.py:51-133).
THEOREM ResultsAreRight == Spec => []ResultIsReference
<1>1. Spec => []TypeInv
  BY TypeInit, TypeStep, PTL DEF Spec
<1>2. Spec => []ReplayInv
  BY <1>1, ReplayInit, ReplayStep, PTL DEF Spec
<1>3. ReplayInv => ResultIsReference
  BY DEF ReplayInv, Proper, ResultIsReference
<1> QED
  BY <1>2, <1>3, PTL
------------------------------------------------------------------------------
(* How often a replay saves its progress.                                  *)

\* Quotient and remainder.
LEMMA Quotients ==
  ASSUME NEW n \in Nat, NEW e \in Nat \ {0}
  PROVE  n \div e \in Nat /\ n % e \in 0 .. e - 1 /\ n = e * (n \div e) + (n % e)
  OBVIOUS

\* There are at most as many multiples of a stride as strides.
LEMMA MultiplesAreCounted ==
  ASSUME NEW count \in Nat, NEW e \in Nat \ {0}
  PROVE  LET M == {n \in 1 .. count : n % e = 0} IN
         /\ IsFiniteSet(M) /\ Cardinality(M) \in Nat
         /\ Cardinality(M) <= count \div e
<1> DEFINE M == {n \in 1 .. count : n % e = 0}
           q == count \div e
           f == [n \in M |-> n \div e]
<1>1. q \in Nat /\ count < e * (q + 1)
  <2>1. q \in Nat /\ count % e < e /\ count = e * q + (count % e)
    BY Quotients
  <2> QED
    BY <2>1
<1>2. ASSUME NEW n \in M PROVE n = e * (n \div e) /\ n \div e \in 1 .. q
  <2>1. PICK k \in Nat : k = n \div e
    BY Quotients
  <2>2. n \in Nat \ {0} /\ n = e * k /\ n <= count
    BY <2>1, Quotients
  <2>3. k # 0
    BY <2>2
  <2>4. k >= q + 1 => e * k >= e * (q + 1)
    BY <1>1, <2>1
  <2>5. k <= q
    BY <1>1, <2>1, <2>2, <2>4
  <2> QED
    BY <1>1, <2>1, <2>2, <2>3, <2>5
<1>3. f \in Injection(M, 1 .. q)
  <2>1. f \in [M -> 1 .. q]
    BY <1>2
  <2>2. ASSUME NEW m \in M, NEW n \in M, f[m] = f[n] PROVE m = n
    BY <1>2, <2>2
  <2> QED
    BY <2>1, <2>2 DEF Injection, IsInjective
<1> HIDE DEF f, M, q
<1>4. IsFiniteSet(1 .. q) /\ Cardinality(1 .. q) = q
  BY <1>1, FS_Interval
<1>5. IsFiniteSet(M) /\ Cardinality(M) <= q
  BY <1>3, <1>4, FS_Injection
<1> QED
  BY <1>5, FS_CardinalityType DEF M, q

\* The candles of the first k of a range of count after which progress is saved.
Due(k, count) == {n \in 1 .. k : ProgressIsDue(n, count)}

\* The strides a range has room for are at most ProgressSaves and a share of
\* what ProgressSaves strides leave over, and one fewer where the stride does
\* not divide the range.
LEMMA StridesAreFew ==
  ASSUME NEW count \in Nat, count >= ProgressSaves
  PROVE  LET e == count \div ProgressSaves
             q == count \div e
         IN /\ e \in Nat \ {0} /\ q \in Nat
            /\ (ProgressSaves + e - 2) \div e \in Nat
            /\ q <= ProgressSaves + (ProgressSaves + e - 2) \div e
            /\ q = ProgressSaves + (ProgressSaves + e - 2) \div e
                 => count % e = 0
<1>1. ProgressSaves \in Nat \ {0}
  BY BacktestBounds
<1>2. PICK P \in Nat : P = ProgressSaves
  BY <1>1
<1>3. PICK e \in Nat : e = count \div P
  BY <1>1, <1>2, Quotients
<1>4. count = P * e + (count % P) /\ count % P \in 0 .. P - 1 /\ P >= 1
  BY <1>1, <1>2, <1>3, Quotients
<1>5. e # 0
  BY <1>2, <1>4
<1>6. P + e - 2 \in Nat
  BY <1>4, <1>5
<1>7. PICK m \in Nat : m = (P + e - 2) \div e
  BY <1>5, <1>6, Quotients
<1>8. P - 1 <= e * m
  <2>1. P + e - 2 = e * m + ((P + e - 2) % e) /\ (P + e - 2) % e \in 0 .. e - 1
    BY <1>5, <1>6, <1>7, Quotients
  <2>2. e * m \in Nat
    BY <1>5
  <2> QED
    BY <2>1, <2>2
<1>9. PICK q \in Nat : q = count \div e
  BY <1>5, Quotients
<1>10. count = e * q + (count % e) /\ count % e \in 0 .. e - 1
  BY <1>5, <1>9, Quotients
<1>11. e * (P + m) = P * e + e * m /\ e * (P + m) \in Nat /\ e * q \in Nat
       /\ P * e \in Nat /\ e * m \in Nat
  OBVIOUS
<1>12. e * q + (count % e) <= e * (P + m)
  <2>1. P * e + (count % P) <= P * e + e * m
    BY <1>4, <1>8, <1>11
  <2> QED
    BY <1>4, <1>10, <1>11, <2>1
<1>13. q <= P + m
  <2>1. q >= P + m + 1 => e * q >= e * (P + m + 1)
    BY <1>5
  <2>2. e * (P + m + 1) = e * (P + m) + e
    OBVIOUS
  <2> QED
    BY <1>5, <1>10, <1>11, <1>12, <2>1, <2>2
<1>14. q = P + m => count % e = 0
  <2>1. q = P + m => e * q = e * (P + m)
    OBVIOUS
  <2> QED
    BY <1>10, <1>11, <1>12, <2>1
<1> QED
  BY <1>2, <1>3, <1>5, <1>7, <1>9, <1>13, <1>14

\* Whatever the count is, the saves of its replay are at most MostSaves, and
\* the last candle has one.
LEMMA SavesAreCapped ==
  ASSUME NEW count \in Nat \ {0}
  PROVE  /\ IsFiniteSet(Due(count, count))
         /\ Cardinality(Due(count, count)) <= MostSaves(count)
         /\ MostSaves(count) \in Nat
         /\ count \in Due(count, count)
<1> DEFINE P == ProgressSaves
           e == UpdateEvery(count)
           q == count \div e
           m == (P + e - 2) \div e
           due == Due(count, count)
           M == {n \in 1 .. count : n % e = 0}
<1>1. P \in Nat \ {0}
  BY BacktestBounds
<1>2. due = {n \in 1 .. count : n % e = 0 \/ n = count}
  BY DEF ProgressIsDue, Due
<1>3. count \in due
  BY <1>2
<1>4. MostSaves(count) = P + m
  BY DEF MostSaves
<1>5. CASE count < P
  <2>1. e = 1
    BY <1>1, <1>5 DEF UpdateEvery
  <2>2. m = P - 1
    BY <1>1, <2>1
  <2>3. due \subseteq 1 .. count
    BY <1>2
  <2>4. IsFiniteSet(1 .. count) /\ Cardinality(1 .. count) = count
    BY FS_Interval
  <2>5. /\ IsFiniteSet(due) /\ Cardinality(due) <= count
        /\ Cardinality(due) \in Nat
    BY <2>3, <2>4, FS_Subset, FS_CardinalityType
  <2> HIDE DEF due, m, P
  <2> QED
    BY <1>1, <1>3, <1>4, <1>5, <2>2, <2>5 DEF due
<1>6. CASE count >= P
  <2>1. e = count \div P
    BY <1>1, <1>6 DEF UpdateEvery
  <2>2. /\ e \in Nat \ {0} /\ q \in Nat /\ m \in Nat
        /\ q <= P + m
        /\ q = P + m => count % e = 0
    BY <1>6, <2>1, StridesAreFew
  <2> HIDE DEF e
  <2>3. IsFiniteSet(M) /\ Cardinality(M) \in Nat /\ Cardinality(M) <= q
    BY <2>2, MultiplesAreCounted
  <2> HIDE DEF q, m
  <2>4. due = M \cup {count}
    BY <1>2
  <2>5. count % e = 0 => count \in M
    OBVIOUS
  <2> HIDE DEF M, due
  <2>6. /\ IsFiniteSet(due)
        /\ Cardinality(due) =
             IF count \in M THEN Cardinality(M) ELSE Cardinality(M) + 1
    BY <2>3, <2>4, FS_AddElement
  <2> HIDE DEF P
  <2>7. Cardinality(due) <= P + m /\ P + m \in Nat
    BY <1>1, <2>2, <2>3, <2>5, <2>6
  <2> QED
    BY <1>3, <1>4, <2>6, <2>7 DEF due
<1> QED
  BY <1>1, <1>5, <1>6

\* A replay has saved its progress after the candles that were due for it
\* among those it has been through, and a replay that is over had some.
SavesOk(p, r) ==
  /\ p \in RunSteps => r.saves = Due(r.offset, r.count)
  /\ p = "complete" => r.count > 0

SavesInv == \A w \in Workers : SavesOk(pc[w], run[w])

\* Nothing is due before the first candle.
LEMMA NothingIsDue == \A count : Due(0, count) = {}
  BY DEF Due

\* One candle more is due, or not.
LEMMA OneMoreIsDue ==
  ASSUME NEW k \in Nat, NEW count \in Nat
  PROVE  Due(k + 1, count) =
           Due(k, count)
             \cup (IF ProgressIsDue(k + 1, count) THEN {k + 1} ELSE {})
<1>1. 1 .. k + 1 = 1 .. k \cup {k + 1}
  OBVIOUS
<1> QED
  BY <1>1, Zenon DEF Due

\* Idle workers have saved nothing.
LEMMA SavesInit == Init => SavesInv
  BY DEF Init, IdleWorkers, SavesInv, SavesOk, RunSteps

\* A worker's step that keeps to its own place.
LEMMA LocalStepSaves ==
  ASSUME TypeInv, SavesInv, NEW w \in Workers, NEW p, NEW q,
         pc' = [pc EXCEPT ![w] = p], run' = [run EXCEPT ![w] = q],
         SavesOk(p, q)
  PROVE  SavesInv'
<1> SUFFICES ASSUME NEW v \in Workers PROVE SavesOk(pc'[v], run'[v])
  BY DEF SavesInv, SavesOk, Due, ProgressIsDue, UpdateEvery
<1>1. CASE v = w
  <2>1. pc'[v] = p /\ run'[v] = q
    BY <1>1 DEF TypeInv
  <2> QED
    BY <2>1
<1>2. CASE v # w
  <2>1. pc'[v] = pc[v] /\ run'[v] = run[v]
    BY <1>2 DEF TypeInv
  <2> QED
    BY <2>1 DEF SavesInv
<1> QED
  BY <1>1, <1>2

\* No step of a worker forgets a save that was due, or makes one that was not.
LEMMA WorkKeepsSaves ==
  ASSUME TypeInv, SavesInv, NEW w \in Workers, Work(w)
  PROVE  SavesInv'
<1> DEFINE r == run[w]
<1>1. /\ WorkerOk(pc[w], job[w], r) /\ SavesOk(pc[w], r)
      /\ pc[w] # "idle" => r \in Runs
  BY DEF TypeInv, SavesInv, WorkerOk
<1>2. UNCHANGED run => run' = [run EXCEPT ![w] = r]
  BY DEF TypeInv
<1>3. CASE ReadsBacktest(w)
  <2> DEFINE p == IF setting.end <= setting.start THEN "bad_range" ELSE "warmup"
             q == [setting |-> setting, series |-> <<>>, first |-> 0,
                   count |-> 0, offset |-> 0, triggers |-> 0, scored |-> 0,
                   wins |-> 0, from |-> landed, to |-> landed,
                   saves |-> {}]
  <2>1. pc' = [pc EXCEPT ![w] = p] /\ run' = [run EXCEPT ![w] = q]
    BY <1>3 DEF ReadsBacktest, Begin
  <2>2. SavesOk(p, q)
    BY NothingIsDue DEF SavesOk
  <2> QED
    BY <2>1, <2>2, LocalStepSaves
<1>4. CASE SaveFailed(w) \/ SaveCompleted(w)
  <2>1. pc' = [pc EXCEPT ![w] = "done"] /\ UNCHANGED run
    BY <1>4 DEF SaveFailed, SaveCompleted, Goto
  <2>2. SavesOk("done", r)
    BY DEF SavesOk, RunSteps
  <2> QED
    BY <1>2, <2>1, <2>2, LocalStepSaves
<1>5. ASSUME pc[w] \in {"warmup", "range", "tail", "start"},
             NEW p \in {"range", "no_candles", "tail", "start", "replay"},
             NEW q, q.offset = r.offset, q.saves = r.saves,
             pc' = [pc EXCEPT ![w] = p], run' = [run EXCEPT ![w] = q]
      PROVE  SavesInv'
  <2>1. r.offset = 0 /\ r.saves = {}
    BY <1>1, <1>5, NothingIsDue DEF WorkerOk, SavesOk, RunSteps
  <2>2. SavesOk(p, q)
    BY <1>5, <2>1, NothingIsDue DEF SavesOk
  <2> QED
    BY <1>5, <2>2, LocalStepSaves
<1>6. CASE QueryWarmup(w)
  <2> DEFINE warmup == Ascending(LastOf(History, {c \in Landed : c < r.setting.start}))
             q == [r EXCEPT !.series = warmup, !.first = Len(warmup),
                            !.from = landed]
  <2>1. /\ pc[w] = "warmup" /\ pc' = [pc EXCEPT ![w] = "range"]
        /\ run' = [run EXCEPT ![w].series = warmup, ![w].first = Len(warmup),
                              ![w].from = landed]
    BY <1>6 DEF QueryWarmup, Goto
  <2>2. r \in Runs
    BY <1>1, <2>1
  <2> HIDE DEF warmup
  <2>3. run' = [run EXCEPT ![w] = q] /\ q.offset = r.offset /\ q.saves = r.saves
    BY <2>1, <2>2 DEF TypeInv, Runs
  <2> QED
    BY <1>5, <2>1, <2>3
<1>7. CASE QueryRange(w)
  <2> DEFINE in_range == Ascending(InRange(r.setting, landed))
             q == [r EXCEPT !.series = @ \o in_range, !.count = Len(in_range)]
             p == IF in_range = <<>> THEN "no_candles" ELSE "tail"
  <2>1. /\ pc[w] = "range" /\ pc' = [pc EXCEPT ![w] = p]
        /\ run' = [run EXCEPT ![w].series = @ \o in_range,
                              ![w].count = Len(in_range)]
    BY <1>7 DEF QueryRange, Goto
  <2>2. r \in Runs
    BY <1>1, <2>1
  <2>3. p \in {"no_candles", "tail"}
    OBVIOUS
  <2> HIDE DEF in_range, p
  <2>4. run' = [run EXCEPT ![w] = q] /\ q.offset = r.offset /\ q.saves = r.saves
    BY <2>1, <2>2 DEF TypeInv, Runs
  <2> QED
    BY <1>5, <2>1, <2>3, <2>4
<1>8. CASE QueryTail(w)
  <2> DEFINE tail == Ascending(FirstOf(r.setting.horizon,
                                       {c \in Landed : c >= r.setting.end}))
             q == [r EXCEPT !.series = @ \o tail, !.to = landed]
  <2>1. /\ pc[w] = "tail" /\ pc' = [pc EXCEPT ![w] = "start"]
        /\ run' = [run EXCEPT ![w].series = @ \o tail, ![w].to = landed]
    BY <1>8 DEF QueryTail, Goto
  <2>2. r \in Runs
    BY <1>1, <2>1
  <2> HIDE DEF tail
  <2>3. run' = [run EXCEPT ![w] = q] /\ q.offset = r.offset /\ q.saves = r.saves
    BY <2>1, <2>2 DEF TypeInv, Runs
  <2> QED
    BY <1>5, <2>1, <2>3
<1>9. CASE SaveRunning(w)
  <2>1. /\ pc[w] = "start" /\ pc' = [pc EXCEPT ![w] = "replay"]
        /\ UNCHANGED run
    BY <1>9 DEF SaveRunning, Goto
  <2> QED
    BY <1>2, <1>5, <2>1
<1>10. CASE ReplayCandle(w)
  <2> DEFINE i == r.first + r.offset + 1
             n == r.offset + 1
             x == r.triggers + (IF Triggered(r, i) THEN 1 ELSE 0)
             y == r.scored + (IF Scored(r, i) THEN 1 ELSE 0)
             z == r.wins + (IF Won(r, i) THEN 1 ELSE 0)
             d == IF ProgressIsDue(n, r.count) THEN r.saves \cup {n} ELSE r.saves
             q == [r EXCEPT !.offset = n, !.triggers = x, !.scored = y,
                            !.wins = z, !.saves = d]
             p == IF n = r.count THEN "complete" ELSE "replay"
  <2>1. /\ pc[w] = "replay" /\ pc' = [pc EXCEPT ![w] = p]
        /\ run' = [run EXCEPT ![w].offset = n, ![w].triggers = x,
                              ![w].scored = y, ![w].wins = z, ![w].saves = d]
    BY <1>10 DEF ReplayCandle, Goto
  <2>2. r \in Runs /\ r.offset \in Nat /\ r.count \in Nat /\ r.offset < r.count
        /\ r.saves = Due(r.offset, r.count)
    BY <1>1, <2>1 DEF WorkerOk, Runs, SavesOk, RunSteps
  <2>3. d = Due(n, r.count)
    <3>1. Due(n, r.count) =
            r.saves \cup (IF ProgressIsDue(n, r.count) THEN {n} ELSE {})
      BY <2>2, OneMoreIsDue
    <3> HIDE DEF n
    <3> QED
      BY <3>1
  <2> HIDE DEF x, y, z, d
  <2>4. run' = [run EXCEPT ![w] = q]
    BY <2>1 DEF TypeInv
  <2>5. q.offset = n /\ q.count = r.count /\ q.saves = d
    BY <2>2 DEF Runs
  <2> HIDE DEF q
  <2>6. SavesOk(p, q)
    BY <2>2, <2>3, <2>5 DEF SavesOk
  <2> QED
    BY <2>1, <2>4, <2>6, LocalStepSaves
<1>11. CASE Acknowledge(w)
  <2>1. pc' = [pc EXCEPT ![w] = "idle"] /\ run' = [run EXCEPT ![w] = NoRun]
    BY <1>11 DEF Acknowledge, Forget, Release
  <2>2. SavesOk("idle", NoRun)
    BY DEF SavesOk, RunSteps
  <2> QED
    BY <2>1, <2>2, LocalStepSaves
<1> QED
  BY <1>3, <1>4, <1>6, <1>7, <1>8, <1>9, <1>10, <1>11 DEF Work

\* nor does any other step.
LEMMA SavesStep == TypeInv /\ SavesInv /\ [Next]_vars => SavesInv'
<1> SUFFICES ASSUME TypeInv, SavesInv, [Next]_vars PROVE SavesInv'
  OBVIOUS
<1>1. UNCHANGED <<pc, run>> => SavesInv'
  BY DEF SavesInv, SavesOk, Due, ProgressIsDue, UpdateEvery
<1>2. CASE RunBacktestAction \/ FormLoads
  BY <1>1, <1>2 DEF RunBacktestAction, FormLoads
<1>3. ASSUME NEW n \in CandleNumbers, CandlesLand(n) PROVE SavesInv'
  BY <1>1, <1>3 DEF CandlesLand
<1>4. ASSUME NEW t \in Settings, FormSaves(t) PROVE SavesInv'
  BY <1>1, <1>4 DEF FormSaves
<1>5. ASSUME NEW w \in Workers, Work(w) PROVE SavesInv'
  BY <1>5, WorkKeepsSaves
<1>6. ASSUME NEW w \in Workers, WorkerLost(w) \/ TaskRaises(w) PROVE SavesInv'
  <2>1. pc' = [pc EXCEPT ![w] = "idle"] /\ run' = [run EXCEPT ![w] = NoRun]
    BY <1>6 DEF WorkerLost, TaskRaises, Forget, Release
  <2>2. SavesOk("idle", NoRun)
    BY DEF SavesOk, RunSteps
  <2> QED
    BY <2>1, <2>2, LocalStepSaves
<1>7. CASE UNCHANGED vars
  BY <1>1, <1>7 DEF vars
<1> QED
  BY <1>2, <1>3, <1>4, <1>5, <1>6, <1>7 DEF Next

\* However many candles its range has, a replay saves its progress at most
\* MostSaves times: for any ProgressSaves, any stride and any order of crashes,
\* reruns and change forms, and the last time with the last candle
\* (backtesting/tasks.py:100-103, 131-133).
THEOREM ProgressSavesAreCapped == Spec => []ProgressWritesAreCapped
<1>1. TypeInv /\ SavesInv => ProgressWritesAreCapped
  <2> SUFFICES ASSUME TypeInv, SavesInv, NEW w \in Workers,
                      pc[w] \in {"replay", "complete"}
               PROVE  /\ Cardinality(run[w].saves) <= MostSaves(run[w].count)
                      /\ pc[w] = "complete" => run[w].count \in run[w].saves
    BY DEF ProgressWritesAreCapped
  <2> DEFINE k == run[w].offset
             count == run[w].count
  <2>1. /\ k \in Nat /\ count \in Nat \ {0} /\ k <= count
        /\ pc[w] = "complete" => k = count
    BY DEF TypeInv, WorkerOk, Runs, SavesInv, SavesOk
  <2>2. run[w].saves = Due(k, count)
    BY DEF SavesInv, SavesOk, RunSteps
  <2> HIDE DEF k, count
  <2>3. Due(k, count) \subseteq Due(count, count)
    BY <2>1 DEF Due
  <2>4. /\ IsFiniteSet(Due(count, count)) /\ count \in Due(count, count)
        /\ Cardinality(Due(count, count)) <= MostSaves(count)
        /\ MostSaves(count) \in Nat
    BY <2>1, SavesAreCapped
  <2>5. /\ Cardinality(Due(k, count)) <= Cardinality(Due(count, count))
        /\ Cardinality(Due(k, count)) \in Nat
        /\ Cardinality(Due(count, count)) \in Nat
    BY <2>3, <2>4, FS_Subset, FS_CardinalityType
  <2>6. Cardinality(Due(k, count)) <= MostSaves(count)
    BY <2>4, <2>5
  <2> QED
    BY <2>1, <2>2, <2>4, <2>6 DEF count
<1>2. Spec => []TypeInv
  BY TypeInit, TypeStep, PTL DEF Spec
<1>3. Spec => []SavesInv
  BY <1>2, SavesInit, SavesStep, PTL DEF Spec
<1> QED
  BY <1>1, <1>2, <1>3, PTL
==============================================================================
