-------------------------- MODULE PaymentPipeline --------------------------
(***************************************************************************)
(* The KPay payment pipeline: three Kafka Streams applications that pass   *)
(* payments through four topics,                                           *)
(*                                                                         *)
(*   incoming -> PaymentsInFlight -> inflight -> AccountProcessor -+       *)
(*                      ^                ^----- credit -----------/|       *)
(*                      |                                          v       *)
(*                      +----------------------------------- complete      *)
(*                                  confirmed <- PaymentsConfirmed <-+     *)
(*                                                                         *)
(* Each application has one stream thread, so handling a record is one     *)
(* step; a topic partition is a log that every application reads at its    *)
(* own position.  A groupBy writes the record it is given to an internal   *)
(* topic at once, in the state the record then has, and the aggregate      *)
(* behind it runs later, in another sub-topology.                          *)
(***************************************************************************)
EXTENDS Summation, Sequences

CONSTANTS NumAccounts, NumPayments, From, To, Amount,
          Partitions,   \* partitions of each topic
          PartitionOf,  \* the default partitioner: key -> partition
          NumGroups,    \* internal topics: groups of payments,
          GroupOf       \* Integer.toString(key.hashCode() % 10)

Accounts == 1 .. NumAccounts
Payments == 1 .. NumPayments
Groups   == 1 .. NumGroups

(* A record's key is Payment.id: what the generator chose, an account, or   *)
(* the transaction id.                                                      *)
Keys == {"generated", "txn"} \X Payments \union {"account"} \X Accounts

ASSUME PipelineAssumption ==
  /\ NumAccounts \in Nat
  /\ NumPayments \in Nat
  /\ NumGroups \in Nat
  /\ From \in [Payments -> Accounts]
  /\ To \in [Payments -> Accounts]
  /\ Amount \in [Payments -> Nat]
  /\ PartitionOf \in [Keys -> Partitions]
  /\ GroupOf \in [Keys -> Groups]

VARIABLES
  incoming, inflight, complete, confirmed,  \* the topics
  inflightIn, inflightComplete,  \* PaymentsInFlight's positions in incoming, complete
  accountPos,                    \* AccountProcessor's positions in inflight
  confirmedPos,                  \* PaymentsConfirmed's positions in complete
  paused,                        \* PauseControllable.paused
  gate,                          \* where PaymentsInFlight's thread is: see PollInFlight
  balance,                       \* AccountProcessor's store: AccountBalance.amount
  accountUp, confirmedUp,        \* the stream thread has not died of an exception
  inflightGroups, confirmedGroups,   \* the internal topics behind groupBy
  inflightStats, confirmedStats      \* the window stores, by group

topics == <<incoming, inflight, complete, confirmed>>
inflightVars  == <<inflightIn, inflightComplete, gate, inflightGroups, inflightStats>>
accountVars   == <<accountPos, balance, accountUp>>
confirmedVars == <<confirmedPos, confirmedUp, confirmedGroups, confirmedStats>>
vars == <<topics, inflightVars, accountVars, confirmedVars, paused>>

-----------------------------------------------------------------------------
(* Payment *)

State == {"incoming", "debit", "credit", "complete", "confirmed"}

Payment == [txn : Payments, id : Keys, state : State]

(* setState alone, which leaves the payment under the key it came with.     *)
SetStateAndId_NoRekey(v, s) == [v EXCEPT !.state = s]

SetStateAndId(v, s) ==
  [v EXCEPT !.state = s,
            !.id = CASE s = "credit" -> <<"account", To[v.txn]>>
                     [] s = "debit"  -> <<"account", From[v.txn]>>
                     [] OTHER        -> <<"txn", v.txn>>]

(* A record goes to the partition its key is hashed to, behind the others.  *)
Publish(log, v) == [log EXCEPT ![PartitionOf[v.id]] = Append(@, v)]

(* groupBy: by a key of few values.  *)
Regroup(groups, v) == [groups EXCEPT ![GroupOf[v.id]] = Append(@, v)]

Holds(log, p, s) ==
  \E q \in Partitions : \E i \in 1 .. Len(log[q]) :
    log[q][i].txn = p /\ log[q][i].state = s

-----------------------------------------------------------------------------
Idle == [at |-> "idle"]

NoStats == [count |-> 0, amount |-> 0]

Init ==
  /\ incoming  = [q \in Partitions |-> <<>>]
  /\ inflight  = [q \in Partitions |-> <<>>]
  /\ complete  = [q \in Partitions |-> <<>>]
  /\ confirmed = [q \in Partitions |-> <<>>]
  /\ inflightIn       = [q \in Partitions |-> 0]
  /\ inflightComplete = [q \in Partitions |-> 0]
  /\ accountPos       = [q \in Partitions |-> 0]
  /\ confirmedPos     = [q \in Partitions |-> 0]
  /\ paused = FALSE
  /\ gate = Idle
  /\ balance = [a \in Accounts |-> 0]
  /\ accountUp = TRUE
  /\ confirmedUp = TRUE
  /\ inflightGroups  = [g \in Groups |-> <<>>]
  /\ confirmedGroups = [g \in Groups |-> <<>>]
  /\ inflightStats   = [g \in Groups |-> NoStats]
  /\ confirmedStats  = [g \in Groups |-> NoStats]

(* The payment generator, or a client: a payment that was not sent before. *)
GeneratePayment(p) ==
  /\ ~ Holds(incoming, p, "incoming")
  /\ incoming' = Publish(incoming,
                   [txn |-> p, id |-> <<"generated", p>>, state |-> "incoming"])
  /\ UNCHANGED <<inflight, complete, confirmed, inflightVars, accountVars,
                 confirmedVars, paused>>

-----------------------------------------------------------------------------
(* StartStopController over PauseControllable.  Starting signals the thread *)
(* that waits in pauseMaybe.                                                *)

PauseProcessing ==
  /\ paused' = TRUE
  /\ UNCHANGED <<topics, inflightVars, accountVars, confirmedVars>>

StartProcessing_NoSignal ==
  /\ paused' = FALSE
  /\ UNCHANGED <<topics, inflightVars, accountVars, confirmedVars>>

StartProcessing ==
  /\ paused' = FALSE
  /\ gate' = IF gate.at = "waiting" THEN [gate EXCEPT !.at = "passed"] ELSE gate
  /\ UNCHANGED <<topics, inflightIn, inflightComplete, inflightGroups,
                 inflightStats, accountVars, confirmedVars>>

-----------------------------------------------------------------------------
(* PaymentsInFlight *)

(* Variant: a record that was handled is read again.                       *)
Consume_Again(pos, q) == pos

HasNext(log, pos, q) == pos[q] < Len(log[q])
NextOf(log, pos, q)  == log[q][pos[q] + 1]
Consume(pos, q)      == [pos EXCEPT ![q] = @ + 1]

(* The thread takes the next record of one of its partitions and calls      *)
(* pauseMaybe, which waits once if processing is paused.                    *)
PollInFlight(source, q) ==
  /\ gate = Idle
  /\ IF source = "incoming" THEN HasNext(incoming, inflightIn, q)
                            ELSE HasNext(complete, inflightComplete, q)
  /\ gate' = [at |-> IF paused THEN "waiting" ELSE "passed",
              source |-> source, partition |-> q]
  /\ UNCHANGED <<topics, inflightIn, inflightComplete, inflightGroups,
                 inflightStats, accountVars, confirmedVars, paused>>

(* The rest of the handler, past pauseMaybe.  The statistics branch is the  *)
(* first child of the source and sees the payment before the map of the     *)
(* second child turns it into a debit.                                      *)
FlipIncoming(v) ==
  IF v.state = "incoming" THEN SetStateAndId(v, "debit") ELSE v

HandleInFlight ==
  LET q == gate.partition
      v == IF gate.source = "incoming" THEN NextOf(incoming, inflightIn, q)
                                       ELSE NextOf(complete, inflightComplete, q)
      flipped == FlipIncoming(v)
  IN /\ gate.at = "passed"
     /\ inflightGroups' = Regroup(inflightGroups, v)
     /\ inflight' = IF flipped.state = "debit" THEN Publish(inflight, flipped)
                                               ELSE inflight
     /\ IF gate.source = "incoming"
          THEN /\ inflightIn' = Consume(inflightIn, q)
               /\ UNCHANGED inflightComplete
          ELSE /\ inflightComplete' = Consume(inflightComplete, q)
               /\ UNCHANGED inflightIn
     /\ gate' = Idle
     /\ UNCHANGED <<incoming, complete, confirmed, inflightStats, accountVars,
                    confirmedVars, paused>>

UpdateInflight_CompleteIgnored(s, v) ==
  IF v.state = "incoming"
    THEN [count |-> s.count + 1, amount |-> s.amount + Amount[v.txn]]
    ELSE s

(* InflightStats.update, behind the internal topic.  It runs on the same    *)
(* thread, so not while that waits in pauseMaybe.                           *)
UpdateInflight(s, v) ==
  CASE v.state = "incoming" ->
         [count |-> s.count + 1, amount |-> s.amount + Amount[v.txn]]
    [] v.state = "complete" ->
         [count |-> s.count - 1, amount |-> s.amount - Amount[v.txn]]
    [] OTHER -> s

AggregateInflight(g) ==
  /\ gate = Idle
  /\ inflightGroups[g] # <<>>
  /\ inflightStats' = [inflightStats EXCEPT ![g] =
                         UpdateInflight(@, Head(inflightGroups[g]))]
  /\ inflightGroups' = [inflightGroups EXCEPT ![g] = Tail(@)]
  /\ UNCHANGED <<topics, inflightIn, inflightComplete, gate, accountVars,
                 confirmedVars, paused>>

-----------------------------------------------------------------------------
(* AccountProcessor.  The aggregate is the first child of the source, so    *)
(* AccountBalance.handle sees the state the record arrived in.  A record    *)
(* that is neither a debit nor a credit throws in handle, and no handler is *)
(* installed: the stream thread dies with the record unread.                *)

HandleBalance(b, v) ==
  [b EXCEPT ![v.id[2]] = IF v.state = "debit" THEN @ - Amount[v.txn]
                                              ELSE @ + Amount[v.txn]]

FlipAccount(v) ==
  CASE v.state = "debit"  -> SetStateAndId(v, "credit")
    [] v.state = "credit" -> SetStateAndId(v, "complete")

IsCreditRecord_NotDebit(v) == v.state # "debit"
IsCreditRecord(v)   == v.state = "credit"
IsCompleteRecord(v) == v.state = "complete"

HandleAccount(q) ==
  LET v == NextOf(inflight, accountPos, q)
      flipped == FlipAccount(v)
  IN /\ accountUp
     /\ HasNext(inflight, accountPos, q)
     /\ IF v.state \in {"debit", "credit"}
          THEN /\ balance' = HandleBalance(balance, v)
               /\ inflight' = IF IsCreditRecord(flipped)
                                THEN Publish(inflight, flipped) ELSE inflight
               /\ complete' = IF IsCompleteRecord(flipped) /\ ~ IsCreditRecord(flipped)
                                THEN Publish(complete, flipped) ELSE complete
               /\ accountPos' = Consume(accountPos, q)
               /\ UNCHANGED accountUp
          ELSE /\ accountUp' = FALSE
               /\ UNCHANGED <<balance, inflight, complete, accountPos>>
     /\ UNCHANGED <<incoming, confirmed, inflightVars, confirmedVars, paused>>

-----------------------------------------------------------------------------
(* PaymentsConfirmed.  CompleteTransformer is the first child and changes   *)
(* the payment in place, so the groupBy of the second child already sees a  *)
(* confirmed payment.                                                       *)

CompleteTransform(v) == SetStateAndId(v, "confirmed")

SecondChildSees_Copy(v) == v
SecondChildSees(v)      == CompleteTransform(v)

HandleComplete(q) ==
  LET v == NextOf(complete, confirmedPos, q)
  IN /\ confirmedUp
     /\ HasNext(complete, confirmedPos, q)
     /\ IF v.state = "complete"
          THEN /\ confirmed' = Publish(confirmed, CompleteTransform(v))
               /\ confirmedGroups' = Regroup(confirmedGroups, SecondChildSees(v))
               /\ confirmedPos' = Consume(confirmedPos, q)
               /\ UNCHANGED confirmedUp
          ELSE /\ confirmedUp' = FALSE
               /\ UNCHANGED <<confirmed, confirmedGroups, confirmedPos>>
     /\ UNCHANGED <<incoming, inflight, complete, inflightVars, accountVars,
                    confirmedStats, paused>>

(* ConfirmedStats.update *)
UpdateConfirmed(s, v) ==
  IF v.state = "confirmed"
    THEN [count |-> s.count + 1, amount |-> s.amount + Amount[v.txn]]
    ELSE s

AggregateConfirmed(g) ==
  /\ confirmedGroups[g] # <<>>
  /\ confirmedStats' = [confirmedStats EXCEPT ![g] =
                          UpdateConfirmed(@, Head(confirmedGroups[g]))]
  /\ confirmedGroups' = [confirmedGroups EXCEPT ![g] = Tail(@)]
  /\ UNCHANGED <<topics, inflightVars, accountVars, confirmedPos, confirmedUp,
                 paused>>

-----------------------------------------------------------------------------
InFlightThread ==
  \/ \E source \in {"incoming", "complete"}, q \in Partitions : PollInFlight(source, q)
  \/ HandleInFlight
  \/ \E g \in Groups : AggregateInflight(g)

AccountThread == \E q \in Partitions : HandleAccount(q)

ConfirmedThread ==
  \/ \E q \in Partitions : HandleComplete(q)
  \/ \E g \in Groups : AggregateConfirmed(g)

Next ==
  \/ \E p \in Payments : GeneratePayment(p)
  \/ PauseProcessing
  \/ StartProcessing
  \/ InFlightThread
  \/ AccountThread
  \/ ConfirmedThread

Spec == Init /\ [][Next]_vars

(* A stream thread keeps polling for as long as it lives.  Payments and the *)
(* pause and resume requests come from outside: nothing forces them.        *)
FairSpec ==
  /\ Spec
  /\ WF_vars(InFlightThread)
  /\ WF_vars(AccountThread)
  /\ WF_vars(ConfirmedThread)

-----------------------------------------------------------------------------
Logs      == [Partitions -> Seq(Payment)]
Positions == [Partitions -> Nat]

TypeOK ==
  /\ incoming \in Logs /\ inflight \in Logs /\ complete \in Logs /\ confirmed \in Logs
  /\ inflightIn \in Positions /\ inflightComplete \in Positions
  /\ accountPos \in Positions /\ confirmedPos \in Positions
  /\ paused \in BOOLEAN
  /\ gate \in {Idle} \union [at : {"waiting", "passed"},
                             source : {"incoming", "complete"},
                             partition : Partitions]
  /\ balance \in [Accounts -> Int]
  /\ accountUp \in BOOLEAN /\ confirmedUp \in BOOLEAN
  /\ inflightGroups \in [Groups -> Seq(Payment)]
  /\ confirmedGroups \in [Groups -> Seq(Payment)]
  /\ inflightStats \in [Groups -> [count : Int, amount : Int]]
  /\ confirmedStats \in [Groups -> [count : Int, amount : Int]]

(* How far a payment has come is what the topics hold of it: a credit is    *)
(* published with the debit of the source account, and a completion with    *)
(* the credit of the destination.                                           *)
StageOf(p) ==
  IF Holds(confirmed, p, "confirmed") THEN "confirmed"
  ELSE IF Holds(complete, p, "complete") THEN "credited"
  ELSE IF Holds(inflight, p, "credit") THEN "debited"
  ELSE IF Holds(incoming, p, "incoming") THEN "incoming"
  ELSE "none"

Ledger == INSTANCE PaymentLedger WITH stage <- [p \in Payments |-> StageOf(p)]

(* The processors together do what the ledger promises: each payment is     *)
(* debited, credited and confirmed once, in that order, whatever the        *)
(* interleaving of the three threads and of the partitions.                 *)
ImplementsLedger == Ledger!Spec

Pausing == INSTANCE PauseProtocol
             WITH Workers <- {"PaymentsInFlight"},
                  place <- [w \in {"PaymentsInFlight"} |->
                              IF gate = Idle THEN "outside" ELSE gate.at]

(* The thread of PaymentsInFlight and those that pause and resume it keep   *)
(* the protocol that PauseControllable is shown to implement.               *)
KeepsPauseProtocol == Pausing!Spec

(* No interleaving of the processors makes or loses money.                  *)
MoneyConserved == Ledger!Conservation

(* No record that the processors send each other makes a handler throw, so  *)
(* no stream thread dies: AccountBalance.handle and CompleteTransformer     *)
(* throw for a payment in another state than those they expect.             *)
ThreadsSurvive == accountUp /\ confirmedUp

(* Nothing is left to read anywhere. *)
Settled ==
  /\ gate = Idle
  /\ \A q \in Partitions :
       /\ ~ HasNext(incoming, inflightIn, q)
       /\ ~ HasNext(complete, inflightComplete, q)
       /\ ~ HasNext(inflight, accountPos, q)
       /\ ~ HasNext(complete, confirmedPos, q)
  /\ \A g \in Groups : inflightGroups[g] = <<>> /\ confirmedGroups[g] = <<>>

CountTotal(stats)  == SumTo([g \in Groups |-> stats[g].count], NumGroups)
AmountTotal(stats) == SumTo([g \in Groups |-> stats[g].amount], NumGroups)

Sent == {p \in Payments : Holds(incoming, p, "incoming")}

AmountOf(S) == SumTo([p \in Payments |-> IF p \in S THEN Amount[p] ELSE 0], NumPayments)

(* "verify the postal state of each processor, i.e. inflight == 0;          *)
(* neil == -10; john == 10; confirmed == 10" (PaymentsIntegrationTest):     *)
(* when nothing is left to read, nothing is in flight, every payment is     *)
(* counted as confirmed, and each account has what it was paid less what it *)
(* paid.  The counts only work out because a groupBy sees the payment in    *)
(* the state the children before it left it in.                             *)
PostalState ==
  Settled =>
    /\ CountTotal(inflightStats) = 0 /\ AmountTotal(inflightStats) = 0
    /\ CountTotal(confirmedStats) = SumTo([p \in Payments |-> IF p \in Sent THEN 1 ELSE 0],
                                          NumPayments)
    /\ AmountTotal(confirmedStats) = AmountOf(Sent)
    /\ \A a \in Accounts :
         balance[a] = AmountOf({p \in Sent : To[p] = a})
                      - AmountOf({p \in Sent : From[p] = a})

(* A payment that was sent is confirmed in the end, unless processing is    *)
(* paused for good.  Each resume lets a waiting thread go on, even when the *)
(* next pause comes before it has run.                                      *)
EventuallyConfirmed ==
  []<>(~ paused) =>
    \A p \in Payments :
      Holds(incoming, p, "incoming") ~> Holds(confirmed, p, "confirmed")

(* The in-flight statistics come back to zero and stay there.  On the way   *)
(* the total may be negative: a completion can be counted before the        *)
(* incoming payment, which waits in another group's partition.              *)
InflightDrains ==
  []<>(~ paused) =>
    <>[](CountTotal(inflightStats) = 0 /\ AmountTotal(inflightStats) = 0)
=============================================================================
