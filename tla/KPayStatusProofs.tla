-------------------------- MODULE KPayStatusProofs --------------------------
(***************************************************************************)
(* What KPayAllInOneImpl shows over REST.  The status of the payment       *)
(* generator, for any number of request threads, generators, rates and     *)
(* accounts.  The throughput, for any number of windows, amounts and       *)
(* payments.  The two share no variable, so that one module can speak of   *)
(* both.                                                                   *)
(***************************************************************************)
EXTENDS PaymentGenerator, ThroughputMetrics, TLAPS

-----------------------------------------------------------------------------
(* The inductive invariant *)

SettingUp == {"made", "scheduling", "scheduled"}

(* Only generators that were made run.  One that is being set up is its     *)
(* client's own, and not yet the one the status is about.                   *)
SetUpOK ==
  /\ scheduledPaymentFuture \in 0 .. made
  /\ \A g \in Generators : g \in scheduled \/ running[g] = "sending" => g <= made
  /\ \A c \in Clients : pc[c] \in SettingUp =>
       /\ mine[c] \in 1 .. made
       /\ mine[c] # scheduledPaymentFuture
       /\ pc[c] = "scheduled" => mine[c] \in scheduled
       /\ \A d \in Clients \ {c} : pc[d] \in SettingUp => mine[d] # mine[c]

(* A dead future is about to be forgotten. *)
DeadForgotten ==
  isGeneratingPayments /\ scheduledPaymentFuture \notin scheduled
    => \E c \in Clients : pc[c] \in {"cancelled", "closed"}

(* Nothing but g can send, because nothing but g is about to with an open   *)
(* producer.                                                                *)
OnlySender(g) == \A h \in open : running[h] = "sending" => h = g

Stopped == scheduled = {} /\ OnlySender(None)

Generating(g) ==
  /\ scheduled = {g} /\ g \in open /\ OnlySender(g)
  /\ paymentRunnable = g

(* What one user's requests leave behind, statement by statement.           *)
OneUser ==
  orderly =>
    /\ \A c, d \in Clients : pc[c] # "idle" /\ pc[d] # "idle" => c = d
    /\ Answered => IF isGeneratingPayments
                     THEN Generating(scheduledPaymentFuture) ELSE Stopped
    /\ \A c \in Clients :
         /\ pc[c] \in SettingUp =>
              ~ isGeneratingPayments /\ mine[c] \in open
         /\ pc[c] \in {"made", "scheduling", "closed"} => Stopped
         /\ pc[c] = "scheduling" => paymentRunnable = mine[c]
         /\ pc[c] = "scheduled" => Generating(mine[c])
         /\ pc[c] = "cancelled" => scheduled = {} /\ OnlySender(paymentRunnable)

GeneratorInv == TypeOK /\ SetUpOK /\ DeadForgotten /\ OneUser
-----------------------------------------------------------------------------
(* Each step keeps each part *)

LEMMA TypeStep == TypeOK /\ SetUpOK /\ [Next]_vars => TypeOK'
<1> SUFFICES ASSUME TypeOK, SetUpOK, [Next]_vars PROVE TypeOK'
  OBVIOUS
<1> USE GeneratorAssumption DEF GeneratorAssumption, Generators, None, fields, Goto, TypeOK
<1>1. ASSUME NEW c \in Clients, GeneratePayments(c), Asked(~ isGeneratingPayments)
      PROVE  TypeOK'
  BY <1>1 DEF GeneratePayments, Asked
<1>2. ASSUME NEW c \in Clients, StopPayments(c), Asked(isGeneratingPayments)
      PROVE  TypeOK'
  BY <1>2 DEF StopPayments, Asked
<1>3. ASSUME NEW c \in Clients, KeepRunnable(c), UNCHANGED orderly
      PROVE  TypeOK'
  BY <1>3 DEF KeepRunnable
<1>4. ASSUME NEW c \in Clients, NEW r \in Rates, ScheduleAtFixedRate(c, r), UNCHANGED orderly
      PROVE  TypeOK'
  <2>1. mine[c] \in Generators
    BY <1>4 DEF ScheduleAtFixedRate, SetUpOK, SettingUp
  <2>2. CASE Period(r) > 0
    BY <1>4, <2>1, <2>2 DEF ScheduleAtFixedRate
  <2>3. CASE ~ (Period(r) > 0)
    BY <1>4, <2>1, <2>3 DEF ScheduleAtFixedRate
  <2> QED
    BY <2>2, <2>3
<1>5. ASSUME NEW c \in Clients, KeepFuture(c), UNCHANGED orderly
      PROVE  TypeOK'
  BY <1>5 DEF KeepFuture
<1>6. ASSUME NEW c \in Clients, CloseProducer(c), UNCHANGED orderly
      PROVE  TypeOK'
  BY <1>6 DEF CloseProducer
<1>7. ASSUME NEW c \in Clients, ForgetFuture(c), UNCHANGED orderly
      PROVE  TypeOK'
  BY <1>7 DEF ForgetFuture
<1>8. ASSUME NEW g \in Generators, Run(g), UNCHANGED orderly
      PROVE  TypeOK'
  BY <1>8 DEF Run, Increment
<1>9. ASSUME NEW g \in Generators, Send(g), UNCHANGED orderly
      PROVE  TypeOK'
  BY <1>9 DEF Send, Increment
<1>10. CASE UNCHANGED vars
  BY <1>10 DEF vars
<1> QED
  BY <1>1, <1>2, <1>3, <1>4, <1>5, <1>6, <1>7, <1>8, <1>9, <1>10
  DEF Next, Client, Generator

LEMMA SetUpStep == TypeOK /\ SetUpOK /\ [Next]_vars => SetUpOK'
<1> SUFFICES ASSUME TypeOK, SetUpOK, [Next]_vars PROVE SetUpOK'
  OBVIOUS
<1> USE GeneratorAssumption
    DEF GeneratorAssumption, Generators, None, fields, Goto, TypeOK, SetUpOK, SettingUp
<1>1. ASSUME NEW c \in Clients, GeneratePayments(c), Asked(~ isGeneratingPayments)
      PROVE  SetUpOK'
  BY <1>1 DEF GeneratePayments, Asked
<1>2. ASSUME NEW c \in Clients, StopPayments(c), Asked(isGeneratingPayments)
      PROVE  SetUpOK'
  BY <1>2 DEF StopPayments, Asked
<1>3. ASSUME NEW c \in Clients, KeepRunnable(c), UNCHANGED orderly
      PROVE  SetUpOK'
  BY <1>3 DEF KeepRunnable
<1>4. ASSUME NEW c \in Clients, NEW r \in Rates, ScheduleAtFixedRate(c, r), UNCHANGED orderly
      PROVE  SetUpOK'
  BY <1>4 DEF ScheduleAtFixedRate
<1>5. ASSUME NEW c \in Clients, KeepFuture(c), UNCHANGED orderly
      PROVE  SetUpOK'
  BY <1>5 DEF KeepFuture
<1>6. ASSUME NEW c \in Clients, CloseProducer(c), UNCHANGED orderly
      PROVE  SetUpOK'
  BY <1>6 DEF CloseProducer
<1>7. ASSUME NEW c \in Clients, ForgetFuture(c), UNCHANGED orderly
      PROVE  SetUpOK'
  BY <1>7 DEF ForgetFuture
<1>8. ASSUME NEW g \in Generators, Run(g), UNCHANGED orderly
      PROVE  SetUpOK'
  BY <1>8 DEF Run, Increment
<1>9. ASSUME NEW g \in Generators, Send(g), UNCHANGED orderly
      PROVE  SetUpOK'
  BY <1>9 DEF Send, Increment
<1>10. CASE UNCHANGED vars
  BY <1>10 DEF vars
<1> QED
  BY <1>1, <1>2, <1>3, <1>4, <1>5, <1>6, <1>7, <1>8, <1>9, <1>10
  DEF Next, Client, Generator

LEMMA DeadStep ==
  TypeOK /\ SetUpOK /\ DeadForgotten /\ [Next]_vars => DeadForgotten'
<1> SUFFICES ASSUME TypeOK, SetUpOK, DeadForgotten, [Next]_vars PROVE DeadForgotten'
  OBVIOUS
<1> USE GeneratorAssumption
    DEF GeneratorAssumption, Generators, None, fields, Goto, TypeOK, SetUpOK, SettingUp,
        DeadForgotten, isGeneratingPayments
<1>1. ASSUME NEW c \in Clients, GeneratePayments(c), Asked(~ isGeneratingPayments)
      PROVE  DeadForgotten'
  BY <1>1 DEF GeneratePayments, Asked
<1>2. ASSUME NEW c \in Clients, StopPayments(c), Asked(isGeneratingPayments)
      PROVE  DeadForgotten'
  BY <1>2 DEF StopPayments, Asked
<1>3. ASSUME NEW c \in Clients, KeepRunnable(c), UNCHANGED orderly
      PROVE  DeadForgotten'
  BY <1>3 DEF KeepRunnable
<1>4. ASSUME NEW c \in Clients, NEW r \in Rates, ScheduleAtFixedRate(c, r), UNCHANGED orderly
      PROVE  DeadForgotten'
  BY <1>4 DEF ScheduleAtFixedRate
<1>5. ASSUME NEW c \in Clients, KeepFuture(c), UNCHANGED orderly
      PROVE  DeadForgotten'
  BY <1>5 DEF KeepFuture
<1>6. ASSUME NEW c \in Clients, CloseProducer(c), UNCHANGED orderly
      PROVE  DeadForgotten'
  BY <1>6 DEF CloseProducer
<1>7. ASSUME NEW c \in Clients, ForgetFuture(c), UNCHANGED orderly
      PROVE  DeadForgotten'
  BY <1>7 DEF ForgetFuture
<1>8. ASSUME NEW g \in Generators, Run(g), UNCHANGED orderly
      PROVE  DeadForgotten'
  BY <1>8 DEF Run, Increment
<1>9. ASSUME NEW g \in Generators, Send(g), UNCHANGED orderly
      PROVE  DeadForgotten'
  BY <1>9 DEF Send, Increment
<1>10. CASE UNCHANGED vars
  BY <1>10 DEF vars
<1> QED
  BY <1>1, <1>2, <1>3, <1>4, <1>5, <1>6, <1>7, <1>8, <1>9, <1>10
  DEF Next, Client, Generator

LEMMA OneUserStep ==
  TypeOK /\ SetUpOK /\ OneUser /\ [Next]_vars => OneUser'
<1> SUFFICES ASSUME TypeOK, SetUpOK, OneUser, [Next]_vars PROVE OneUser'
  OBVIOUS
<1> USE GeneratorAssumption
    DEF GeneratorAssumption, Generators, None, fields, Goto, TypeOK, SetUpOK, SettingUp,
        OneUser, Generating, Stopped, OnlySender, isGeneratingPayments, Answered
<1>1. ASSUME NEW c \in Clients, GeneratePayments(c), Asked(~ isGeneratingPayments)
      PROVE  OneUser'
  <2>1. orderly' => orderly /\ Answered /\ Stopped
    BY <1>1 DEF Asked
  <2>2. SUFFICES ASSUME orderly' PROVE OneUser'
    OBVIOUS
  <2>3. /\ \A d \in Clients \ {c} : pc'[d] = "idle"
        /\ pc'[c] = "made" /\ ~ Answered'
    BY <1>1, <2>1, <2>2 DEF GeneratePayments
  <2>4. Stopped' /\ ~ isGeneratingPayments' /\ mine'[c] \in open'
    BY <1>1, <2>1, <2>2 DEF GeneratePayments
  <2> QED
    BY <2>3, <2>4
<1>2. ASSUME NEW c \in Clients, StopPayments(c), Asked(isGeneratingPayments)
      PROVE  OneUser'
  <2>1. orderly' => orderly /\ Answered /\ Generating(scheduledPaymentFuture)
    BY <1>2 DEF Asked
  <2>2. SUFFICES ASSUME orderly' PROVE OneUser'
    OBVIOUS
  <2>3. /\ \A d \in Clients \ {c} : pc'[d] = "idle"
        /\ pc'[c] = "cancelled" /\ ~ Answered'
    BY <1>2, <2>1, <2>2 DEF StopPayments, Asked
  <2>4. scheduled' = {} /\ OnlySender(paymentRunnable)'
    BY <1>2, <2>1, <2>2 DEF StopPayments
  <2> QED
    BY <2>3, <2>4
<1>3. ASSUME NEW c \in Clients, KeepRunnable(c), UNCHANGED orderly
      PROVE  OneUser'
  <2>1. SUFFICES ASSUME orderly PROVE OneUser'
    BY <1>3
  <2>2. /\ pc[c] = "made" /\ pc'[c] = "scheduling"
        /\ \A d \in Clients \ {c} : pc[d] = "idle" /\ pc'[d] = "idle"
    BY <1>3, <2>1 DEF KeepRunnable
  <2>3. Stopped' /\ ~ isGeneratingPayments' /\ mine'[c] \in open' /\ paymentRunnable' = mine'[c]
    BY <1>3, <2>1, <2>2 DEF KeepRunnable
  <2> QED
    BY <2>2, <2>3
<1>4. ASSUME NEW c \in Clients, NEW r \in Rates, ScheduleAtFixedRate(c, r), UNCHANGED orderly
      PROVE  OneUser'
  <2>1. SUFFICES ASSUME orderly PROVE OneUser'
    BY <1>4
  <2>2. /\ pc[c] = "scheduling"
        /\ \A d \in Clients \ {c} : pc[d] = "idle" /\ pc'[d] = "idle"
    BY <1>4, <2>1 DEF ScheduleAtFixedRate
  <2>3. /\ Stopped /\ ~ isGeneratingPayments /\ ~ isGeneratingPayments'
        /\ mine[c] \in open /\ paymentRunnable = mine[c]
        /\ UNCHANGED <<open, mine, running, paymentRunnable>>
    BY <1>4, <2>1, <2>2 DEF ScheduleAtFixedRate
  <2>4. CASE Period(r) > 0
    <3>1. pc'[c] = "scheduled" /\ scheduled' = {mine[c]}
      BY <1>4, <2>3, <2>4 DEF ScheduleAtFixedRate
    <3>2. Generating(mine[c])'
      BY <2>3, <3>1
    <3> QED
      BY <2>2, <2>3, <3>1, <3>2
  <2>5. CASE ~ (Period(r) > 0)
    <3>1. pc'[c] = "idle" /\ Stopped'
      BY <1>4, <2>3, <2>5 DEF ScheduleAtFixedRate
    <3> QED
      BY <2>2, <2>3, <3>1
  <2> QED
    BY <2>4, <2>5
<1>5. ASSUME NEW c \in Clients, KeepFuture(c), UNCHANGED orderly
      PROVE  OneUser'
  BY <1>5 DEF KeepFuture
<1>6. ASSUME NEW c \in Clients, CloseProducer(c), UNCHANGED orderly
      PROVE  OneUser'
  BY <1>6 DEF CloseProducer
<1>7. ASSUME NEW c \in Clients, ForgetFuture(c), UNCHANGED orderly
      PROVE  OneUser'
  BY <1>7 DEF ForgetFuture
<1>8. ASSUME NEW g \in Generators, Run(g), UNCHANGED orderly
      PROVE  OneUser'
  BY <1>8 DEF Run, Increment
<1>9. ASSUME NEW g \in Generators, Send(g), UNCHANGED orderly
      PROVE  OneUser'
  BY <1>9 DEF Send, Increment
<1>10. CASE UNCHANGED vars
  BY <1>10 DEF vars
<1> QED
  BY <1>1, <1>2, <1>3, <1>4, <1>5, <1>6, <1>7, <1>8, <1>9, <1>10
  DEF Next, Client, Generator
-----------------------------------------------------------------------------
(* The invariant holds in every state, whatever the clients ask.            *)
THEOREM GeneratorInvariant == Spec => []GeneratorInv
<1>1. Init => GeneratorInv
  BY GeneratorAssumption
  DEF GeneratorAssumption, Init, GeneratorInv, TypeOK, SetUpOK, DeadForgotten, OneUser,
      Generators, None, SettingUp, Stopped, OnlySender, isGeneratingPayments
<1>2. GeneratorInv /\ [Next]_vars => GeneratorInv'
  BY TypeStep, SetUpStep, DeadStep, OneUserStep DEF GeneratorInv
<1> QED
  BY <1>1, <1>2, PTL DEF Spec

(* The variables have their types: no counter leaves its range, also where  *)
(* position overflows.                                                      *)
THEOREM GeneratorTypeCorrect == Spec => []TypeOK
<1>1. GeneratorInv => TypeOK
  BY DEF GeneratorInv
<1> QED
  BY <1>1, GeneratorInvariant, PTL

(* When every request is answered, a status that says running is about a    *)
(* generator that is scheduled; after one user's requests it says stopped   *)
(* exactly when no generator can send.                                      *)
THEOREM StatusAlwaysAgrees == Spec => []StatusAgrees
<1>1. GeneratorInv => StatusAgrees
  BY DEF GeneratorInv, DeadForgotten, OneUser, StatusAgrees, Answered, Generating, Stopped
<1> QED
  BY <1>1, GeneratorInvariant, PTL

(* Once stopPayments has returned to one user, no payment is sent any more, *)
(* not even by a run that had begun when it was called.                     *)
THEOREM StopIsAlwaysFinal == Spec => StopIsFinal
<1>1. GeneratorInv /\ [Next]_vars
        => [(orderly /\ Answered /\ ~ isGeneratingPayments) => position' = position]_vars
  <2> SUFFICES ASSUME GeneratorInv, [Next]_vars, orderly, Answered, ~ isGeneratingPayments
               PROVE  position' = position
    OBVIOUS
  <2>1. Stopped
    BY DEF GeneratorInv, OneUser
  <2>2. ASSUME NEW g \in Generators, Send(g) PROVE position' = position
    <3>1. g \in Generators \ {None}
      BY DEF Generators, None
    <3> QED
      BY <2>1, <2>2, <3>1 DEF Send, Stopped, OnlySender
  <2> QED
    BY <2>2 DEF Next, vars, Client, Generator, GeneratePayments, StopPayments, KeepRunnable,
       ScheduleAtFixedRate, KeepFuture, CloseProducer, ForgetFuture, Run
<1> QED
  BY <1>1, GeneratorInvariant, PTL DEF Spec, StopIsFinal

-----------------------------------------------------------------------------
(* The throughput metrics *)

(* The lemmas about sums speak of no variable and of no constant.           *)
Sums == INSTANCE PaymentLedgerProofs WITH
          NumAccounts <- 0, NumPayments <- 0, From <- << >>, To <- << >>, Amount <- << >>,
          stage <- << >>, balance <- << >>

(* Adding to one window adds as much to the sum over the windows.           *)
LEMMA WindowSum ==
  ASSUME NEW n \in Nat,
         NEW f \in [1 .. n -> Int], NEW g \in [1 .. n -> Int],
         NEW a \in 1 .. n, NEW d \in Int,
         g[a] = f[a] + d,
         \A k \in 1 .. n : k # a => g[k] = f[k]
  PROVE  SumTo(g, n) = SumTo(f, n) + d
<1>1. \A h : Sums!SumTo(h, n) = SumTo(h, n)
  BY DEF Sums!SumTo, Sums!PrefixSums, SumTo, PrefixSums
<1>2. Sums!LedgerAssumption
  BY DEF Sums!LedgerAssumption, Sums!Payments, Sums!Accounts
<1>3. Sums!SumTo(g, n) = Sums!SumTo(f, n) + d
  BY <1>2, Sums!SumToUpdate
<1> QED
  BY <1>1, <1>3

(* Without payments the sums are zero.                                      *)
LEMMA EmptySum ==
  ASSUME NEW n \in Nat, NEW f, \A k \in 1 .. n : f[k] = 0
  PROVE  SumTo(f, n) = 0
<1>1. Sums!SumTo(f, n) = SumTo(f, n)
  BY DEF Sums!SumTo, Sums!PrefixSums, SumTo, PrefixSums
<1>2. Sums!LedgerAssumption
  BY DEF Sums!LedgerAssumption, Sums!Payments, Sums!Accounts
<1>3. Sums!SumTo(f, n) = 0
  BY <1>2, Sums!SumToZero
<1> QED
  BY <1>1, <1>3

(* A sum of integers is one.                                                *)
LEMMA IntegerSum ==
  ASSUME NEW n \in Nat, NEW f \in [1 .. n -> Int]
  PROVE  SumTo(f, n) \in Int
<1>1. Sums!SumTo(f, n) = SumTo(f, n)
  BY DEF Sums!SumTo, Sums!PrefixSums, SumTo, PrefixSums
<1>2. Sums!LedgerAssumption
  BY DEF Sums!LedgerAssumption, Sums!Payments, Sums!Accounts
<1>3. Sums!SumTo(f, n) \in Int
  BY <1>2, Sums!SumToType
<1> QED
  BY <1>1, <1>3

-----------------------------------------------------------------------------
(* What the throughput metrics keep *)

MetricsTyped ==
  /\ store \in [Windows -> Stats] /\ dirty \subseteq Windows
  /\ at \in 0 .. 2 /\ window \in 0 .. NumWindows
  /\ metricStats \in Stats /\ stats \in Stats
  /\ lastStats \in Stats /\ shown \in Stats
  /\ reader \in [at : {"idle", "reading"}, seen : Stats]

Totals == [w \in Windows |-> store[w].total]
Sent == [w \in Windows |-> store[w].amount]

(* No more than the payments that were made                                 *)
Within(s) ==
  /\ s.total <= SumTo(Totals, NumWindows)
  /\ s.amount <= SumTo(Sent, NumWindows)

(* Whatever was a window's aggregate once is within what they all are now.  *)
AllWithin ==
  /\ \A w \in Windows : Within(store[w])
  /\ Within(metricStats) /\ Within(lastStats) /\ Within(shown)

HasLargest(s) == s.largest # NoPayment

(* What is passed on has a largest payment, and lastStats has one from the  *)
(* moment that stats may have one on.                                       *)
LargestFirst ==
  /\ \A w \in dirty : HasLargest(store[w])
  /\ at > 0 => HasLargest(metricStats)
  /\ at = 2 \/ HasLargest(stats) \/ HasLargest(reader.seen) => HasLargest(lastStats)

MetricsInv == MetricsTyped /\ AllWithin /\ LargestFirst
-----------------------------------------------------------------------------
(* Each statement keeps the invariant *)

(* foreach keeps lastStats first and merges then.                           *)
LEMMA Statements ==
  ASSUME at \in 0 .. 2
  PROVE  /\ KeepLastStats => at = 1 /\ at' = 2
         /\ MergeStats => at = 2 /\ at' = 0
<1>1. /\ ForeachBody[1] = "keep" /\ ForeachBody[2] = "merge"
      /\ Len(ForeachBody) = 2
  BY DEF ForeachBody
<1>2. ASSUME NEW word, Step(word)
      PROVE  /\ at \in {1, 2} /\ ForeachBody[at] = word
             /\ at' = IF at = 2 THEN 0 ELSE at + 1
  BY <1>1, <1>2 DEF Step
<1>3. ASSUME Step("keep") PROVE at = 1 /\ at' = 2
  BY <1>1, <1>2, <1>3
<1>4. ASSUME Step("merge") PROVE at = 2 /\ at' = 0
  BY <1>1, <1>2, <1>4
<1> QED
  BY <1>3, <1>4 DEF KeepLastStats, MergeStats

(* The operations of ThroughputStats make statistics.                       *)
LEMMA StatsTyped ==
  ASSUME NEW s \in Stats, NEW t \in Stats,
         NEW a \in Amounts
  PROVE  /\ Update(s, a) \in Stats
         /\ Merge(s, t) \in Stats
  BY MetricsAssumption DEF Update, Merge, Stats, NoPayment, MetricsAssumption

(* Nothing happens to a window that is not in the store.                    *)
LEMMA EmptyTyped == Empty \in Stats
  BY DEF Empty, Stats, NoPayment

LEMMA MetricsStart ==
  ASSUME MetricsInit
  PROVE  MetricsInv
<1> USE MetricsAssumption DEF MetricsInit, MetricsAssumption
<1>1. MetricsTyped
  BY EmptyTyped DEF MetricsTyped
<1>2. SumTo(Totals, NumWindows) = 0 /\ SumTo(Sent, NumWindows) = 0
  <2>1. \A k \in 1 .. NumWindows : Totals[k] = 0 /\ Sent[k] = 0
    BY DEF Totals, Sent, Windows, Empty
  <2> QED
    BY <2>1, EmptySum
<1>3. AllWithin
  BY <1>2 DEF AllWithin, Within, Empty
<1>4. LargestFirst
  BY DEF LargestFirst, HasLargest, Empty, NoPayment
<1> QED
  BY <1>1, <1>3, <1>4 DEF MetricsInv

(* A payment counts in its window and in the sums.                          *)
LEMMA AggregateAdds ==
  ASSUME MetricsInv,
         NEW w \in Windows, NEW a \in Amounts, Aggregate(w, a)
  PROVE  MetricsInv'
<1> USE MetricsAssumption DEF MetricsAssumption, MetricsInv
<1>0. /\ store' = [store EXCEPT ![w] = Update(store[w], a)]
      /\ dirty' = dirty \union {w} /\ at = 0
      /\ UNCHANGED << at, window, metricStats, stats, lastStats, processedLast, reader, shown >>
  BY DEF Aggregate
<1>1. MetricsTyped'
  <2>1. Update(store[w], a) \in Stats
    BY StatsTyped DEF MetricsTyped
  <2> QED
    BY <1>0, <2>1 DEF MetricsTyped
<1>2. a \in Nat
  OBVIOUS
<1>3. /\ store'[w].total = store[w].total + 1 /\ store'[w].amount = store[w].amount + a
      /\ store'[w].largest # NoPayment
      /\ \A v \in Windows : v # w => store'[v] = store[v]
  <2>1. store'[w] = Update(store[w], a)
    BY <1>0 DEF MetricsTyped
  <2>2. \A v \in Windows : v # w => store'[v] = store[v]
    BY <1>0 DEF MetricsTyped
  <2>3. store[w] \in Stats
    BY DEF MetricsTyped
  <2> QED
    BY <1>2, <2>1, <2>2, <2>3 DEF Update, Stats, NoPayment
<1>4. /\ Totals \in [1 .. NumWindows -> Int] /\ Totals' \in [1 .. NumWindows -> Int]
      /\ Sent \in [1 .. NumWindows -> Int] /\ Sent' \in [1 .. NumWindows -> Int]
  <2>1. \A v \in 1 .. NumWindows : /\ store[v].total \in Int /\ store[v].amount \in Int
                                   /\ store'[v].total \in Int /\ store'[v].amount \in Int
    <3>1. \A s \in Stats : s.total \in Int /\ s.amount \in Int
      BY DEF Stats
    <3>2. \A v \in 1 .. NumWindows : store[v] \in Stats /\ store'[v] \in Stats
      BY <1>1 DEF MetricsTyped, Windows
    <3> QED
      BY <3>1, <3>2
  <2> QED
    BY <2>1 DEF Totals, Sent, Windows
<1>5. /\ Totals'[w] = Totals[w] + 1 /\ Sent'[w] = Sent[w] + a
      /\ \A v \in 1 .. NumWindows : v # w => Totals'[v] = Totals[v] /\ Sent'[v] = Sent[v]
  BY <1>3 DEF Totals, Sent, Windows
<1>6. /\ SumTo(Totals', NumWindows) = SumTo(Totals, NumWindows) + 1
      /\ SumTo(Sent', NumWindows) = SumTo(Sent, NumWindows) + a
  <2>1. w \in 1 .. NumWindows
    BY DEF Windows
  <2>2. 1 \in Int /\ a \in Int
    BY <1>2
  <2> HIDE DEF MetricsInv
  <2>3. SumTo(Totals', NumWindows) = SumTo(Totals, NumWindows) + 1
    BY <1>4, <1>5, <2>1, <2>2, WindowSum
  <2>4. SumTo(Sent', NumWindows) = SumTo(Sent, NumWindows) + a
    BY <1>4, <1>5, <2>1, <2>2, WindowSum
  <2> QED
    BY <2>3, <2>4
<1>7. SumTo(Totals, NumWindows) \in Int /\ SumTo(Sent, NumWindows) \in Int
  BY <1>4, IntegerSum
<1>8. ASSUME NEW s \in Stats, Within(s)
      PROVE  /\ s.total <= SumTo(Totals', NumWindows)
             /\ s.amount <= SumTo(Sent', NumWindows)
  BY <1>2, <1>6, <1>7, <1>8 DEF Within, Stats
<1>9. AllWithin'
  <2>1. /\ store'[w].total <= SumTo(Totals', NumWindows)
        /\ store'[w].amount <= SumTo(Sent', NumWindows)
    BY <1>2, <1>3, <1>6, <1>7 DEF AllWithin, Within, MetricsTyped, Stats
  <2>2. \A v \in Windows : v # w =>
          /\ store'[v].total <= SumTo(Totals', NumWindows)
          /\ store'[v].amount <= SumTo(Sent', NumWindows)
    BY <1>3, <1>8 DEF AllWithin, MetricsTyped
  <2>3. \A s \in {metricStats, lastStats, shown} :
          /\ s.total <= SumTo(Totals', NumWindows)
          /\ s.amount <= SumTo(Sent', NumWindows)
    BY <1>8 DEF AllWithin, MetricsTyped
  <2> QED
    BY <1>0, <2>1, <2>2, <2>3 DEF AllWithin, Within
<1>10. LargestFirst'
  BY <1>0, <1>3 DEF LargestFirst, HasLargest, MetricsTyped
<1> QED
  BY <1>1, <1>9, <1>10

(* No other step makes a payment.                                           *)
LEMMA SumsStay == UNCHANGED store => Totals' = Totals /\ Sent' = Sent
  BY DEF Totals, Sent

(* A window is passed on as it is now.                                      *)
LEMMA FlushPasses ==
  ASSUME MetricsInv, NEW w \in Windows, Flush(w)
  PROVE  MetricsInv'
<1> USE DEF MetricsInv, Flush
<1>1. MetricsTyped'
  BY DEF MetricsTyped, Windows
<1>2. AllWithin'
  BY SumsStay DEF AllWithin, Within
<1>3. LargestFirst'
  BY DEF LargestFirst, HasLargest
<1> QED
  BY <1>1, <1>2, <1>3

(* lastStats has a largest payment before stats does.                       *)
LEMMA KeepKeeps ==
  ASSUME MetricsInv, KeepLastStats
  PROVE  MetricsInv'
<1>1. /\ at = 1 /\ at' = 2 /\ lastStats' = metricStats
      /\ UNCHANGED << store, dirty, window, metricStats, stats, processedLast, reader, shown >>
  BY Statements DEF MetricsInv, MetricsTyped, KeepLastStats, Step
<1>2. MetricsTyped'
  BY <1>1 DEF MetricsInv, MetricsTyped
<1>3. AllWithin'
  BY <1>1, SumsStay DEF MetricsInv, AllWithin, Within
<1>4. LargestFirst'
  BY <1>1 DEF MetricsInv, LargestFirst, HasLargest
<1> QED
  BY <1>2, <1>3, <1>4 DEF MetricsInv

(* stats gets a largest payment when lastStats has one.                     *)
LEMMA MergeMerges ==
  ASSUME MetricsInv, MergeStats
  PROVE  MetricsInv'
<1>1. /\ at = 2 /\ at' = 0 /\ stats' \in {stats, Merge(stats, metricStats)}
      /\ UNCHANGED << store, dirty, window, metricStats, lastStats, reader, shown >>
  BY Statements DEF MetricsInv, MetricsTyped, MergeStats, Step
<1>2. MetricsTyped'
  <2>1. Merge(stats, metricStats) \in Stats
    BY DEF MetricsInv, MetricsTyped, Merge, Stats
  <2> QED
    BY <1>1, <2>1 DEF MetricsInv, MetricsTyped
<1>3. AllWithin'
  BY <1>1, SumsStay DEF MetricsInv, AllWithin, Within
<1>4. LargestFirst'
  BY <1>1 DEF MetricsInv, LargestFirst, HasLargest
<1> QED
  BY <1>2, <1>3, <1>4 DEF MetricsInv

(* getStats reads stats first, and whatever has come to lastStats since has *)
(* a largest payment.                                                       *)
LEMMA ReaderReads ==
  ASSUME MetricsInv, ReadStats \/ ReturnStats
  PROVE  MetricsInv'
<1>1. UNCHANGED << store, dirty, at, window, metricStats, stats, lastStats, processedLast >>
  BY DEF ReadStats, ReturnStats, streamVars
<1>2. CASE ReadStats
  <2>1. reader' = [at |-> "reading", seen |-> stats] /\ shown' = shown
    BY <1>2 DEF ReadStats
  <2>2. MetricsTyped'
    BY <1>1, <2>1 DEF MetricsInv, MetricsTyped
  <2>3. AllWithin'
    BY <1>1, <2>1, SumsStay DEF MetricsInv, AllWithin, Within
  <2>4. LargestFirst'
    BY <1>1, <2>1 DEF MetricsInv, LargestFirst, HasLargest
  <2> QED
    BY <2>2, <2>3, <2>4 DEF MetricsInv
<1>3. CASE ReturnStats
  <2>1. ~ MergeThrows(reader.seen, lastStats)
    BY DEF MetricsInv, LargestFirst, HasLargest, MergeThrows
  <2>2. /\ reader' = [at |-> "idle", seen |-> Empty]
        /\ shown' = Merge(reader.seen, lastStats)
    BY <1>3, <2>1 DEF ReturnStats
  <2>3. /\ shown' \in Stats
        /\ shown'.total = lastStats.total /\ shown'.amount = lastStats.amount
    BY <2>2 DEF MetricsInv, MetricsTyped, Merge, Stats
  <2>4. MetricsTyped'
    BY <1>1, <2>2, <2>3, EmptyTyped DEF MetricsInv, MetricsTyped
  <2>5. AllWithin'
    BY <1>1, <2>3, SumsStay DEF MetricsInv, AllWithin, Within
  <2>6. LargestFirst'
    BY <1>1, <2>2 DEF MetricsInv, LargestFirst, HasLargest, Empty
  <2> QED
    BY <2>4, <2>5, <2>6 DEF MetricsInv
<1> QED
  BY <1>2, <1>3

(* The invariant holds in every state, however statements interleave.       *)
THEOREM MetricsInvariant == MetricsSpec => []MetricsInv
<1>1. MetricsInit => MetricsInv
  BY MetricsStart
<1>2. MetricsInv /\ [MetricsNext]_metricsVars => MetricsInv'
  <2> SUFFICES ASSUME MetricsInv, [MetricsNext]_metricsVars PROVE MetricsInv'
    OBVIOUS
  <2>1. CASE UNCHANGED metricsVars
    BY <2>1, SumsStay DEF metricsVars, streamVars, MetricsInv, MetricsTyped,
       AllWithin, Within, LargestFirst, HasLargest
  <2>2. CASE MetricsNext
    BY <2>2, AggregateAdds, FlushPasses, KeepKeeps, MergeMerges, ReaderReads DEF MetricsNext
  <2> QED
    BY <2>1, <2>2
<1> QED
  BY <1>1, <1>2, PTL DEF MetricsSpec

(* getStats never fails, wherever between two statements of foreach it      *)
(* comes.                                                                   *)
THEOREM StatsReaderNeverFails == MetricsSpec => []ReaderNeverFails
<1>1. MetricsInv => ReaderNeverFails
  BY DEF MetricsInv, MetricsTyped, ReaderNeverFails
<1> QED
  BY <1>1, MetricsInvariant, PTL

(* What getStats returns counts no payment twice.                           *)
THEOREM StatsCountPaymentsOnce == MetricsSpec => []CountedOnce
<1>1. MetricsInv => CountedOnce
  BY DEF MetricsInv, AllWithin, Within, Totals, Sent, CountedOnce, Total
<1> QED
  BY <1>1, MetricsInvariant, PTL
=============================================================================
