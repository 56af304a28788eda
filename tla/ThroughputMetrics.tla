------------------------- MODULE ThroughputMetrics -------------------------
(***************************************************************************)
(* The throughput metrics: PaymentsThroughput aggregates the payments of   *)
(* the complete topic in windows of a minute.  A window's aggregate stays  *)
(* in the store's cache until that is flushed, by a commit or because it   *)
(* is full, and then goes to a foreach that keeps two fields, stats and    *)
(* lastStats.  REST requests read the fields from their own thread,        *)
(* without a lock.  One step is one statement of either thread; a read     *)
(* sees the last write.  Of ThroughputStats the counts and the largest     *)
(* payment are kept; the latencies go the way of the largest payment.      *)
(* Init, Next and Spec bear the module's name, so that another module can  *)
(* extend this one together with PaymentGenerator.                         *)
(***************************************************************************)
EXTENDS Summation, Sequences

CONSTANTS NumWindows,   \* windows of ONE_MINUTE
          Amounts,      \* what a payment may amount to
          MaxPayments   \* bound: payments on the topic

Windows == 1 .. NumWindows

ASSUME MetricsAssumption ==
  /\ NumWindows \in Nat
  /\ Amounts \subseteq Nat
  /\ MaxPayments \in Nat

NoPayment == -1   \* largestPayment is null

Stats == [total : Nat, amount : Nat, largest : Nat \union {NoPayment}]

VARIABLES
  store,      \* the window store: window -> stats
  dirty,      \* the windows whose stats are still to be passed on
  at,         \* the statement of ForeachBody the stream thread is at, 0 outside
  window, metricStats,              \* foreach's arguments
  stats, lastStats, processedLast,  \* the fields of PaymentsThroughput
  reader,     \* where getStats is, and what it has read of stats
  shown       \* what getStats returned last

streamVars == <<store, dirty, at, window, metricStats, stats, lastStats, processedLast>>
metricsVars == <<streamVars, reader, shown>>

Empty == [total |-> 0, amount |-> 0, largest |-> NoPayment]

MetricsInit ==
  /\ store = [w \in Windows |-> Empty]
  /\ dirty = {}
  /\ at = 0
  /\ window = 0
  /\ metricStats = Empty
  /\ stats = Empty
  /\ lastStats = Empty
  /\ processedLast = 0
  /\ reader = [at |-> "idle", seen |-> Empty]
  /\ shown = Empty

-----------------------------------------------------------------------------
(* ThroughputStats *)

Update(s, amount) ==
  [total |-> s.total + 1, amount |-> s.amount + amount,
   largest |-> IF amount > s.largest THEN amount ELSE s.largest]

(* What this object has counted is left out of the result.                  *)
Merge_Both(s, other) ==
  [total |-> s.total + other.total, amount |-> s.amount + other.amount,
   largest |-> IF s.largest > other.largest THEN s.largest ELSE other.largest]

Merge(s, other) ==
  [total |-> other.total, amount |-> other.amount,
   largest |-> IF s.largest > other.largest THEN s.largest ELSE other.largest]

(* merge dereferences other.largestPayment when its own is not null.        *)
MergeThrows(s, other) == s.largest # NoPayment /\ other.largest = NoPayment

-----------------------------------------------------------------------------
(* The stream thread *)

Total == SumTo([w \in Windows |-> store[w].total], NumWindows)

(* Payments come in the order of the topic's partitions, not of time.       *)
Aggregate(w, amount) ==
  /\ at = 0
  /\ Total < MaxPayments
  /\ store' = [store EXCEPT ![w] = Update(@, amount)]
  /\ dirty' = dirty \union {w}
  /\ UNCHANGED <<at, window, metricStats, stats, lastStats, processedLast, reader, shown>>

Flush(w) ==
  /\ at = 0
  /\ w \in dirty
  /\ dirty' = dirty \ {w}
  /\ at' = 1
  /\ window' = w
  /\ metricStats' = store[w]
  /\ UNCHANGED <<store, stats, lastStats, processedLast, reader, shown>>

ForeachBody_MergeFirst == <<"merge", "keep">>

ForeachBody == <<"keep", "merge">>

Step(statement) ==
  /\ at > 0
  /\ ForeachBody[at] = statement
  /\ at' = IF at = Len(ForeachBody) THEN 0 ELSE at + 1
  /\ UNCHANGED <<store, dirty, window, metricStats, reader, shown>>

KeepLastStats ==
  /\ Step("keep")
  /\ lastStats' = metricStats
  /\ UNCHANGED <<stats, processedLast>>

MergeStats ==
  /\ Step("merge")
  /\ stats' = IF processedLast # window THEN Merge(stats, metricStats) ELSE stats
  /\ processedLast' = window
  /\ UNCHANGED lastStats

-----------------------------------------------------------------------------
(* getStats, for a REST request: stats.merge(lastStats).  A request that    *)
(* fails is answered with an error.                                         *)

ReadStats ==
  /\ reader.at # "reading"
  /\ reader' = [at |-> "reading", seen |-> stats]
  /\ UNCHANGED <<streamVars, shown>>

ReturnStats ==
  /\ reader.at = "reading"
  /\ IF MergeThrows(reader.seen, lastStats)
       THEN /\ reader' = [at |-> "failed", seen |-> Empty]
            /\ UNCHANGED shown
       ELSE /\ reader' = [at |-> "idle", seen |-> Empty]
            /\ shown' = Merge(reader.seen, lastStats)
  /\ UNCHANGED streamVars

MetricsNext ==
  \/ \E w \in Windows : Flush(w) \/ \E a \in Amounts : Aggregate(w, a)
  \/ KeepLastStats \/ MergeStats
  \/ ReadStats \/ ReturnStats

MetricsSpec == MetricsInit /\ [][MetricsNext]_metricsVars

-----------------------------------------------------------------------------
(* getStats never fails, wherever between two statements of foreach it      *)
(* comes: stats has a largest payment only when lastStats has one, because  *)
(* foreach assigns lastStats first and getStats reads stats first.          *)
ReaderNeverFails == reader.at # "failed"

(* No payment is counted twice in what getStats returns, though stats and   *)
(* lastStats both stem from the same window.                                *)
CountedOnce ==
  /\ shown.total <= Total
  /\ shown.amount <= SumTo([w \in Windows |-> store[w].amount], NumWindows)
=============================================================================
