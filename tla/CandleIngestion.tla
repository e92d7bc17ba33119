--------------------------- MODULE CandleIngestion ---------------------------
(***************************************************************************)
(* Candle ingestion on the market queue:                                   *)
(* src/src/cryptovira/apps/market/tasks.py with the rows of                *)
(* market/models.py and get_klines of market/sources/binance.py, for one   *)
(* interval.                                                               *)
(*                                                                         *)
(* Time is discrete.  Bar b of a symbol covers Length instants and closes  *)
(* with the last of them; the exchange answers a request at instant t with *)
(* the newest bars up to the one that is forming, each with the trades     *)
(* until t.  What the model keeps of a bar's prices is that: the last      *)
(* instant whose trades they include.  A closed bar includes its closing   *)
(* instant.                                                                *)
(***************************************************************************)
EXTENDS TaskQueue, Integers, FiniteSets

CONSTANTS
  Workers,      \* worker processes that consume the market queue
  Currencies,   \* Currency rows
  Length,       \* instants in a bar
  Limit,        \* bars in a response (limit=500)
  MaxTime,      \* bound: the last instant
  MaxCrashes,   \* bound: workers lost while executing a task
  MaxAbandoned, \* bound: tasks ended by an HTTP error, an exception, a limit
  MaxTicks      \* bound: beat ticks of the interval

ASSUME IngestionBounds ==
  /\ Length \in Nat \ {0}
  /\ Limit \in Nat \ {0}
  /\ MaxTime \in Nat
  /\ MaxCrashes \in Nat
  /\ MaxAbandoned \in Nat
  /\ MaxTicks \in Nat

------------------------------------------------------------------------------
Instants == 0 .. MaxTime
Forming(t) == t \div Length
Bars == 0 .. Forming(MaxTime)

CloseTime(b) == (b + 1) * Length - 1
Closed(b, t) == CloseTime(b) < t

\* The exchange: the bars it lists at t, and the trades bar b includes then.
Listed(t) == {b \in Bars : Forming(t) - Limit < b /\ b <= Forming(t)}
Traded(b, t) == IF Closed(b, t) THEN CloseTime(b) ELSE t

Missing == -1
Rows == Currencies \X Bars

FanOutMessage == [task |-> "fan_out"]
IngestMessage(c) == [task |-> "ingest", currency |-> c]
IngestMessages == [task : {"ingest"}, currency : Currencies]
Messages == {FanOutMessage} \cup IngestMessages

IngestSteps == {"filter", "store"}

VARIABLES
  now,      \* the time, on the exchange and on every worker
  enabled,  \* the currencies with is_active
  stored,   \* Candle: the trades a row includes, Missing without a row
  asked,    \* worker -> the instant its response describes
  checked,  \* worker -> the instant it compares close times with
  todo,     \* worker -> symbols its fan-out still has to publish
  ingested, \* history: (currency, asked) of the ingests that ended well
  crashes, abandoned, ticks   \* history: what the bounds count

locals == <<pc, job, asked, checked, todo>>
counters == <<crashes, abandoned, ticks>>
vars == <<now, enabled, stored, queue, locals, ingested, counters>>

Init ==
  /\ now = 0
  /\ enabled \in SUBSET Currencies
  /\ stored = [r \in Rows |-> Missing]
  /\ EmptyQueue(Messages)
  /\ IdleWorkers(Workers)
  /\ asked = [w \in Workers |-> 0]
  /\ checked = [w \in Workers |-> 0]
  /\ todo = [w \in Workers |-> {}]
  /\ ingested = {}
  /\ crashes = 0 /\ abandoned = 0 /\ ticks = 0

------------------------------------------------------------------------------
(* The environment of the workers.                                         *)

TimePasses ==
  /\ now < MaxTime
  /\ now' = now + 1
  /\ UNCHANGED <<enabled, stored, queue, locals, ingested, counters>>

Tick ==
  /\ ticks < MaxTicks
  /\ ticks' = ticks + 1
  /\ Publish(FanOutMessage)
  /\ UNCHANGED <<now, enabled, stored, locals, ingested, crashes, abandoned>>

ToggleCurrency(c) ==
  /\ enabled' = IF c \in enabled THEN enabled \ {c} ELSE enabled \cup {c}
  /\ UNCHANGED <<now, stored, queue, locals, ingested, counters>>

------------------------------------------------------------------------------
(* fan_out_ingest_candles                                                  *)

FanOutReadsSymbols(w) ==
  /\ Begin(w, FanOutMessage, "publish")
  /\ todo' = [todo EXCEPT ![w] = enabled]
  /\ UNCHANGED <<now, enabled, stored, asked, checked, ingested, counters>>

FanOutPublishes(w, c) ==
  /\ pc[w] = "publish"
  /\ c \in todo[w]
  /\ Publish(IngestMessage(c))
  /\ todo' = [todo EXCEPT ![w] = @ \ {c}]
  /\ UNCHANGED <<now, enabled, stored, pc, job, asked, checked,
                 ingested, counters>>

------------------------------------------------------------------------------
(* ingest_candles                                                          *)

\* get_klines: the exchange makes its answer at one instant, the worker
\* receives it at this or at any later one.
IngestGetsKlines(w, c) ==
  /\ Begin(w, IngestMessage(c), "filter")
  /\ asked' = [asked EXCEPT ![w] = now]
  /\ UNCHANGED <<now, enabled, stored, checked, todo, ingested, counters>>

\* Mutant: the local time of a machine east of UTC.
LocalClock == now + 1

\* now = datetime.now(UTC), after the response.
Clock == now

IngestReadsClock(w) ==
  /\ pc[w] = "filter"
  /\ checked' = [checked EXCEPT ![w] = Clock]
  /\ Goto(w, "store")
  /\ UNCHANGED <<now, enabled, stored, queue, job, asked, todo,
                 ingested, counters>>

\* Mutant: of the closed bars, only the newest is kept.
KeptNewest(w) ==
  {b \in Listed(asked[w]) :
     \A c \in Listed(asked[w]) : Closed(c, checked[w]) => c <= b}

\* The listed bars that closed before the clock was read.
Kept(w) == {b \in Listed(asked[w]) : Closed(b, checked[w])}

\* Mutant: bulk_create updates the rows that exist (no ignore_conflicts).
RowOrNone(r) == TRUE

NoRow(r) == stored[r] = Missing

\* bulk_create(ignore_conflicts=True): the row that is there stays.
IngestStoresClosed(w) ==
  /\ pc[w] = "store"
  /\ stored' = [r \in Rows |->
                  IF r[1] = job[w].currency /\ r[2] \in Kept(w) /\ NoRow(r)
                  THEN Traded(r[2], asked[w])
                  ELSE stored[r]]
  /\ Goto(w, "done")
  /\ UNCHANGED <<now, enabled, queue, job, asked, checked, todo,
                 ingested, counters>>

------------------------------------------------------------------------------
(* How a task ends.                                                        *)

Forget(w) ==
  /\ Release(w)
  /\ asked' = [asked EXCEPT ![w] = 0]
  /\ checked' = [checked EXCEPT ![w] = 0]
  /\ todo' = [todo EXCEPT ![w] = {}]

FanOutEnds(w) ==
  /\ pc[w] = "publish"
  /\ todo[w] = {}
  /\ Forget(w)
  /\ UNCHANGED <<now, enabled, stored, queue, ingested, counters>>

IngestEnds(w) ==
  /\ pc[w] = "done"
  /\ ingested' = ingested \cup {<<job[w].currency, asked[w]>>}
  /\ Forget(w)
  /\ UNCHANGED <<now, enabled, stored, queue, counters>>

WorkerLost(w) ==
  /\ pc[w] # "idle"
  /\ crashes < MaxCrashes
  /\ crashes' = crashes + 1
  /\ GiveBack(w)
  /\ Forget(w)
  /\ UNCHANGED <<now, enabled, stored, ingested, abandoned, ticks>>

\* raise_for_status, a timeout, a bad answer: the message is acknowledged.
TaskRaises(w) ==
  /\ pc[w] # "idle"
  /\ abandoned < MaxAbandoned
  /\ abandoned' = abandoned + 1
  /\ Forget(w)
  /\ UNCHANGED <<now, enabled, stored, queue, ingested, crashes, ticks>>

------------------------------------------------------------------------------
Work(w) ==
  \/ FanOutReadsSymbols(w)
  \/ \E c \in Currencies : FanOutPublishes(w, c) \/ IngestGetsKlines(w, c)
  \/ IngestReadsClock(w)
  \/ IngestStoresClosed(w)
  \/ FanOutEnds(w)
  \/ IngestEnds(w)

Next ==
  \/ TimePasses
  \/ Tick
  \/ \E c \in Currencies : ToggleCurrency(c)
  \/ \E w \in Workers : Work(w) \/ WorkerLost(w) \/ TaskRaises(w)

Spec == Init /\ [][Next]_vars

\* A running worker finishes its task and takes another while messages wait.
FairSpec == Spec /\ \A w \in Workers : WF_vars(Work(w))

------------------------------------------------------------------------------
(* Properties.                                                             *)

\* Types; a worker is busy exactly when it holds a message, its step belongs
\* to the message's task, and it knows no instant that has not come.
TypeOK ==
  /\ now \in Instants
  /\ enabled \in SUBSET Currencies
  /\ stored \in [Rows -> Instants \cup {Missing}]
  /\ queue \in [Messages -> Nat]
  /\ pc \in [Workers -> {"idle", "publish", "done"} \cup IngestSteps]
  /\ job \in [Workers -> Messages \cup {NoJob}]
  /\ asked \in [Workers -> 0 .. now]
  /\ checked \in [Workers -> 0 .. now]
  /\ todo \in [Workers -> SUBSET Currencies]
  /\ ingested \in SUBSET (Currencies \X Instants)
  /\ crashes \in Nat /\ abandoned \in Nat /\ ticks \in Nat
  /\ \A w \in Workers :
       /\ pc[w] = "idle" => job[w] = NoJob
       /\ pc[w] = "publish" => job[w] = FanOutMessage
       /\ pc[w] \in IngestSteps \cup {"done"} => job[w] \in IngestMessages
       /\ pc[w] \in {"store", "done"} => asked[w] <= checked[w]

\* A stored candle is never written again, and none is written of a bar that
\* is still forming, however old the response the worker works from and
\* whichever of two overlapping polls comes first (market/tasks.py:10-12,
\* 36-38, 55).
CandlesAreFinal ==
  [][\A r \in Rows : stored'[r] # stored[r] =>
       stored[r] = Missing /\ Closed(r[2], now)]_stored

\* An ingest that ends leaves none of the bars that were closed when the
\* exchange answered unstored: one good poll repairs every failed one before
\* it, as far back as the response goes (market/tasks.py:34, 55).
GoodPollLeavesNoHole ==
  \A e \in ingested :
    \A b \in Listed(e[2]) : Closed(b, e[2]) => stored[<<e[1], b>>] # Missing

\* What is stored of a bar is what it closed with: "a closed candle's values
\* never change" (market/models.py:69), and the comment over the filter,
\* "drop any bar that hasn't closed yet" (market/tasks.py:36-38).
StoredIsComplete ==
  \A r \in Rows : stored[r] # Missing => stored[r] = CloseTime(r[2])

\* A fan-out gets every bar that is closed by now stored, for every symbol
\* that stays active, unless the bar is too old to be listed any more or a
\* poll fails (market/tasks.py:25-55).
FanOutStoresClosed ==
  \A c \in Currencies, b \in Bars :
    [](Waiting(FanOutMessage) /\ Closed(b, now) /\ [](c \in enabled)
         => <>(\/ stored[<<c, b>>] # Missing
               \/ b \notin Listed(now)
               \/ abandoned > 0))
==============================================================================
