----------------------- MODULE PaymentPipelineProofs -----------------------
(***************************************************************************)
(* The inductive invariant of the payment pipeline, and what follows from  *)
(* it: the pipeline implements the payment ledger, and so conserves money, *)
(* does nothing twice and is stopped by nothing but a pause, for any       *)
(* number of accounts, payments, partitions and groups.                    *)
(***************************************************************************)
EXTENDS PaymentPipeline, TLAPS

-----------------------------------------------------------------------------
(* Logs and positions. *)

(* What a reader at pos has read of a log. *)
HasRead(log, pos, p, s) ==
  \E q \in Partitions : \E i \in 1 .. pos[q] :
    log[q][i].txn = p /\ log[q][i].state = s

(* No payment is in a log twice in the same state. *)
NoDuplicates(log) ==
  \A q, r \in Partitions :
    \A i \in 1 .. Len(log[q]), j \in 1 .. Len(log[r]) :
      /\ log[q][i].txn = log[r][j].txn
      /\ log[q][i].state = log[r][j].state
      => q = r /\ i = j

InLog(pos, log) == \A q \in Partitions : pos[q] <= Len(log[q])

LEMMA PublishType ==
  ASSUME NEW log \in Logs, NEW v \in Payment
  PROVE  /\ Publish(log, v) \in Logs
         /\ \A q \in Partitions :
              /\ Len(log[q]) <= Len(Publish(log, v)[q])
              /\ \A i \in 1 .. Len(log[q]) : Publish(log, v)[q][i] = log[q][i]
         /\ LET q == PartitionOf[v.id] IN
              /\ q \in Partitions
              /\ Len(Publish(log, v)[q]) = Len(log[q]) + 1
              /\ Publish(log, v)[q][Len(log[q]) + 1] = v
              /\ \A r \in Partitions : r # q => Publish(log, v)[r] = log[r]
<1> DEFINE q == PartitionOf[v.id]
<1>1. q \in Partitions
  BY PipelineAssumption DEF PipelineAssumption, Payment
<1>2. Publish(log, v) = [log EXCEPT ![q] = Append(log[q], v)]
  BY DEF Publish
<1> HIDE DEF q
<1>3. /\ log[q] \in Seq(Payment)
      /\ Append(log[q], v) \in Seq(Payment)
      /\ Len(Append(log[q], v)) = Len(log[q]) + 1
      /\ Append(log[q], v)[Len(log[q]) + 1] = v
      /\ \A i \in 1 .. Len(log[q]) : Append(log[q], v)[i] = log[q][i]
  BY <1>1 DEF Logs
<1>4. Publish(log, v) \in Logs
  BY <1>1, <1>2, <1>3 DEF Logs
<1>5. Publish(log, v)[q] = Append(log[q], v)
  BY <1>1, <1>2 DEF Logs
<1>6. \A r \in Partitions : r # q => Publish(log, v)[r] = log[r]
  BY <1>1, <1>2 DEF Logs
<1>7. \A r \in Partitions : Len(log[r]) \in Nat
  BY DEF Logs
<1> QED
  BY <1>1, <1>3, <1>4, <1>5, <1>6, <1>7 DEF q

(* A record published is one more held, and nothing more that was read. *)
LEMMA PublishHolds ==
  ASSUME NEW log \in Logs, NEW v \in Payment, NEW p, NEW s
  PROVE  Holds(Publish(log, v), p, s)
           <=> Holds(log, p, s) \/ (p = v.txn /\ s = v.state)
<1> DEFINE q == PartitionOf[v.id]
           log2 == Publish(log, v)
<1>1. /\ q \in Partitions
      /\ Len(log2[q]) = Len(log[q]) + 1
      /\ log2[q][Len(log[q]) + 1] = v
      /\ \A r \in Partitions : r # q => log2[r] = log[r]
      /\ \A r \in Partitions :
           /\ Len(log[r]) <= Len(log2[r])
           /\ \A i \in 1 .. Len(log[r]) : log2[r][i] = log[r][i]
  BY PublishType
<1>2. \A r \in Partitions : Len(log[r]) \in Nat
  BY DEF Logs
<1> HIDE DEF q, log2
<1>3. ASSUME Holds(log, p, s) PROVE Holds(log2, p, s)
  <2>0. PICK r \in Partitions : \E i \in 1 .. Len(log[r]) :
               log[r][i].txn = p /\ log[r][i].state = s
    BY <1>3 DEF Holds
  <2>1. PICK i \in 1 .. Len(log[r]) : log[r][i].txn = p /\ log[r][i].state = s
    BY <2>0
  <2>2. i \in 1 .. Len(log2[r]) /\ log2[r][i] = log[r][i]
    <3>1. Len(log2[r]) \in Nat
      BY <1>1, <1>2
    <3> QED
      BY <1>1, <1>2, <2>1, <3>1
  <2> QED
    BY <2>1, <2>2 DEF Holds
<1>4. ASSUME p = v.txn, s = v.state PROVE Holds(log2, p, s)
  BY <1>1, <1>2, <1>4 DEF Holds
<1>5. ASSUME Holds(log2, p, s), ~ (p = v.txn /\ s = v.state)
      PROVE  Holds(log, p, s)
  <2>0. PICK r \in Partitions : \E i \in 1 .. Len(log2[r]) :
               log2[r][i].txn = p /\ log2[r][i].state = s
    BY <1>5 DEF Holds
  <2>1. PICK i \in 1 .. Len(log2[r]) : log2[r][i].txn = p /\ log2[r][i].state = s
    BY <2>0
  <2>2. i \in 1 .. Len(log[r])
    BY <1>1, <1>2, <1>5, <2>1
  <2> QED
    BY <1>1, <2>1, <2>2 DEF Holds
<1> QED
  BY <1>3, <1>4, <1>5 DEF log2

LEMMA PublishHasRead ==
  ASSUME NEW log \in Logs, NEW v \in Payment, NEW pos \in Positions,
         InLog(pos, log)
  PROVE  /\ InLog(pos, Publish(log, v))
         /\ \A p, s : HasRead(Publish(log, v), pos, p, s) <=> HasRead(log, pos, p, s)
<1> DEFINE log2 == Publish(log, v)
<1>1. \A r \in Partitions :
        /\ Len(log[r]) <= Len(log2[r])
        /\ \A i \in 1 .. Len(log[r]) : log2[r][i] = log[r][i]
  BY PublishType
<1>2. \A r \in Partitions : Len(log[r]) \in Nat /\ Len(log2[r]) \in Nat
  BY PublishType DEF Logs
<1>3. \A r \in Partitions : pos[r] \in Nat
  BY DEF Positions
<1> HIDE DEF log2
<1>4. \A r \in Partitions : \A i \in 1 .. pos[r] : log2[r][i] = log[r][i]
  BY <1>1, <1>2, <1>3 DEF InLog
<1>5. InLog(pos, log2)
  BY <1>1, <1>2, <1>3 DEF InLog
<1>6. \A p, s : HasRead(log2, pos, p, s) <=> HasRead(log, pos, p, s)
  BY <1>4 DEF HasRead
<1> QED
  BY <1>5, <1>6 DEF log2

LEMMA PublishNoDuplicates ==
  ASSUME NEW log \in Logs, NEW v \in Payment,
         NoDuplicates(log), ~ Holds(log, v.txn, v.state)
  PROVE  NoDuplicates(Publish(log, v))
<1> DEFINE q == PartitionOf[v.id]
           log2 == Publish(log, v)
<1>1. /\ q \in Partitions
      /\ Len(log2[q]) = Len(log[q]) + 1
      /\ log2[q][Len(log[q]) + 1] = v
      /\ \A r \in Partitions : r # q => log2[r] = log[r]
      /\ \A r \in Partitions : \A i \in 1 .. Len(log[r]) : log2[r][i] = log[r][i]
  BY PublishType
<1>2. \A r \in Partitions : Len(log[r]) \in Nat
  BY DEF Logs
<1> HIDE DEF q, log2
(* A record of log2 is the new one or an old one.                          *)
<1>3. ASSUME NEW r \in Partitions, NEW i \in 1 .. Len(log2[r])
      PROVE  \/ r = q /\ i = Len(log[q]) + 1 /\ log2[r][i] = v
             \/ /\ i \in 1 .. Len(log[r])
                /\ log2[r][i] = log[r][i]
                /\ ~ (log2[r][i].txn = v.txn /\ log2[r][i].state = v.state)
  <2>1. CASE i \in 1 .. Len(log[r])
    BY <1>1, <2>1 DEF Holds
  <2>2. CASE i \notin 1 .. Len(log[r])
    <3>1. r = q
      BY <1>1, <2>2
    <3> QED
      BY <1>1, <1>2, <2>2, <3>1
  <2> QED
    BY <2>1, <2>2
<1>4. ASSUME NEW r \in Partitions, NEW t \in Partitions,
             NEW i \in 1 .. Len(log2[r]), NEW j \in 1 .. Len(log2[t]),
             log2[r][i].txn = log2[t][j].txn, log2[r][i].state = log2[t][j].state
      PROVE  r = t /\ i = j
  <2>1. CASE log2[r][i].txn = v.txn /\ log2[r][i].state = v.state
    BY <1>3, <1>4, <2>1
  <2>2. CASE ~ (log2[r][i].txn = v.txn /\ log2[r][i].state = v.state)
    <3>1. /\ i \in 1 .. Len(log[r]) /\ log2[r][i] = log[r][i]
          /\ j \in 1 .. Len(log[t]) /\ log2[t][j] = log[t][j]
      BY <1>3, <1>4, <2>2
    <3>2. log[r][i].txn = log[t][j].txn /\ log[r][i].state = log[t][j].state
      BY <1>4, <3>1
    <3> QED
      BY <3>1, <3>2 DEF NoDuplicates
  <2> QED
    BY <2>1, <2>2
<1> QED
  BY <1>4 DEF NoDuplicates, log2

(* Reading the next record of a partition: a record that the reader had not *)
(* read before, if the log has no duplicates.                               *)
LEMMA ConsumeHasRead ==
  ASSUME NEW log \in Logs, NEW pos \in Positions, NEW q \in Partitions,
         InLog(pos, log), HasNext(log, pos, q)
  PROVE  /\ NextOf(log, pos, q) \in Payment
         /\ Consume(pos, q) \in Positions
         /\ InLog(Consume(pos, q), log)
         /\ \A p, s : HasRead(log, Consume(pos, q), p, s)
                        <=> \/ HasRead(log, pos, p, s)
                            \/ /\ p = NextOf(log, pos, q).txn
                               /\ s = NextOf(log, pos, q).state
         /\ Holds(log, NextOf(log, pos, q).txn, NextOf(log, pos, q).state)
         /\ NoDuplicates(log) =>
              ~ HasRead(log, pos, NextOf(log, pos, q).txn, NextOf(log, pos, q).state)
<1> DEFINE pos2 == Consume(pos, q)
           v == NextOf(log, pos, q)
<1>1. \A r \in Partitions : pos[r] \in Nat /\ Len(log[r]) \in Nat /\ pos[r] <= Len(log[r])
  BY DEF Positions, Logs, InLog
<1>2. pos[q] + 1 \in 1 .. Len(log[q]) /\ v = log[q][pos[q] + 1]
  BY <1>1 DEF HasNext, NextOf
<1>3. /\ pos2 \in Positions
      /\ pos2[q] = pos[q] + 1
      /\ \A r \in Partitions : r # q => pos2[r] = pos[r]
  BY DEF Consume, Positions
<1> HIDE DEF pos2, v
<1>4. v \in Payment
  BY <1>2 DEF Logs
<1>5. InLog(pos2, log)
  BY <1>1, <1>2, <1>3 DEF InLog
<1>6. ASSUME NEW p, NEW s
      PROVE  HasRead(log, pos2, p, s)
               <=> HasRead(log, pos, p, s) \/ (p = v.txn /\ s = v.state)
  <2>1. ASSUME HasRead(log, pos, p, s) PROVE HasRead(log, pos2, p, s)
    <3>1. \A r \in Partitions : \A i \in 1 .. pos[r] : i \in 1 .. pos2[r]
      BY <1>1, <1>3
    <3> QED
      BY <2>1, <3>1 DEF HasRead
  <2>2. ASSUME p = v.txn, s = v.state PROVE HasRead(log, pos2, p, s)
    <3>1. pos[q] + 1 \in 1 .. pos2[q]
      BY <1>1, <1>3
    <3> QED
      BY <1>2, <2>2, <3>1 DEF HasRead
  <2>3. ASSUME HasRead(log, pos2, p, s), ~ HasRead(log, pos, p, s)
        PROVE  p = v.txn /\ s = v.state
    <3>0. PICK r \in Partitions : \E i \in 1 .. pos2[r] :
                 log[r][i].txn = p /\ log[r][i].state = s
      BY <2>3 DEF HasRead
    <3>1. PICK i \in 1 .. pos2[r] : log[r][i].txn = p /\ log[r][i].state = s
      BY <3>0
    <3>2. i \notin 1 .. pos[r]
      BY <2>3, <3>1 DEF HasRead
    <3>3. r = q
      BY <1>3, <3>2
    <3>4. i = pos[q] + 1
      BY <1>1, <1>3, <3>2, <3>3
    <3> QED
      BY <1>2, <3>1, <3>3, <3>4
  <2> QED
    BY <2>1, <2>2, <2>3
<1>7. Holds(log, v.txn, v.state)
  BY <1>2 DEF Holds
<1>8. ASSUME NoDuplicates(log), HasRead(log, pos, v.txn, v.state) PROVE FALSE
  <2>0. PICK r \in Partitions : \E i \in 1 .. pos[r] :
               log[r][i].txn = v.txn /\ log[r][i].state = v.state
    BY <1>8 DEF HasRead
  <2>1. PICK i \in 1 .. pos[r] : log[r][i].txn = v.txn /\ log[r][i].state = v.state
    BY <2>0
  <2>2. i \in 1 .. Len(log[r])
    BY <1>1, <2>1
  <2>3. r = q /\ i = pos[q] + 1
    BY <1>2, <1>8, <2>1, <2>2 DEF NoDuplicates
  <2> QED
    BY <1>1, <2>1, <2>3
<1> QED
  BY <1>3, <1>4, <1>5, <1>6, <1>7, <1>8 DEF pos2, v

LEMMA ReadIsHeld ==
  ASSUME NEW log \in Logs, NEW pos \in Positions, InLog(pos, log),
         NEW p, NEW s, HasRead(log, pos, p, s)
  PROVE  Holds(log, p, s)
<1>1. \A r \in Partitions : \A i \in 1 .. pos[r] : i \in 1 .. Len(log[r])
  BY DEF Positions, Logs, InLog
<1> QED
  BY <1>1 DEF HasRead, Holds

(* What a log may contain. *)
Contains(log, S) == \A q \in Partitions : \A i \in 1 .. Len(log[q]) : log[q][i] \in S

LEMMA PublishContains ==
  ASSUME NEW log \in Logs, NEW S, NEW v \in Payment, v \in S, Contains(log, S)
  PROVE  Contains(Publish(log, v), S)
<1> DEFINE q == PartitionOf[v.id]
           log2 == Publish(log, v)
<1>1. /\ q \in Partitions
      /\ Len(log2[q]) = Len(log[q]) + 1
      /\ log2[q][Len(log[q]) + 1] = v
      /\ \A r \in Partitions : r # q => log2[r] = log[r]
      /\ \A r \in Partitions : \A i \in 1 .. Len(log[r]) : log2[r][i] = log[r][i]
  BY PublishType
<1>2. \A r \in Partitions : Len(log[r]) \in Nat
  BY DEF Logs
<1> HIDE DEF q, log2
<1>3. ASSUME NEW r \in Partitions, NEW i \in 1 .. Len(log2[r])
      PROVE  log2[r][i] \in S
  <2>1. CASE i \in 1 .. Len(log[r])
    BY <1>1, <2>1 DEF Contains
  <2>2. CASE i \notin 1 .. Len(log[r])
    <3>1. r = q
      BY <1>1, <2>2
    <3> QED
      BY <1>1, <1>2, <2>2, <3>1
  <2> QED
    BY <2>1, <2>2
<1> QED
  BY <1>3 DEF Contains, log2

LEMMA NextIsContained ==
  ASSUME NEW log \in Logs, NEW pos \in Positions, NEW q \in Partitions, NEW S,
         HasNext(log, pos, q), Contains(log, S)
  PROVE  NextOf(log, pos, q) \in S
<1>1. pos[q] + 1 \in 1 .. Len(log[q])
  BY DEF HasNext, Positions, Logs
<1> QED
  BY <1>1 DEF Contains, NextOf

LEMMA SetStateAndIdType ==
  ASSUME NEW v \in Payment, NEW s \in State
  PROVE  /\ SetStateAndId(v, s) \in Payment
         /\ SetStateAndId(v, s).txn = v.txn
         /\ SetStateAndId(v, s).state = s
         /\ s = "debit"  => SetStateAndId(v, s).id = <<"account", From[v.txn]>>
         /\ s = "credit" => SetStateAndId(v, s).id = <<"account", To[v.txn]>>
<1>1. /\ <<"account", From[v.txn]>> \in Keys
      /\ <<"account", To[v.txn]>> \in Keys
      /\ <<"txn", v.txn>> \in Keys
  BY PipelineAssumption DEF PipelineAssumption, Payment, Keys
<1> QED
  BY <1>1 DEF SetStateAndId, Payment

-----------------------------------------------------------------------------
(* The inductive invariant.  Safety needs more than each topic's contents:  *)
(* it needs that a payment is in a topic exactly if the processor upstream  *)
(* has read the record it is made from, and that no topic holds it twice.   *)

IncomingRecords == {v \in Payment : v.state = "incoming"}

InflightRecords ==
  {v \in Payment : \/ v.state = "debit"  /\ v.id = <<"account", From[v.txn]>>
                   \/ v.state = "credit" /\ v.id = <<"account", To[v.txn]>>}

CompleteRecords == {v \in Payment : v.state = "complete"}

ContentsOK ==
  /\ Contains(incoming, IncomingRecords)
  /\ Contains(inflight, InflightRecords)
  /\ Contains(complete, CompleteRecords)

PositionsOK ==
  /\ InLog(inflightIn, incoming)
  /\ InLog(inflightComplete, complete)
  /\ InLog(accountPos, inflight)
  /\ InLog(confirmedPos, complete)

OnceEach ==
  /\ NoDuplicates(incoming)
  /\ NoDuplicates(inflight)
  /\ NoDuplicates(complete)
  /\ NoDuplicates(confirmed)

Provenance ==
  \A p \in Payments :
    /\ Holds(inflight, p, "debit") <=> HasRead(incoming, inflightIn, p, "incoming")
    /\ Holds(inflight, p, "credit") <=> HasRead(inflight, accountPos, p, "debit")
    /\ Holds(complete, p, "complete") <=> HasRead(inflight, accountPos, p, "credit")
    /\ Holds(confirmed, p, "confirmed") <=> HasRead(complete, confirmedPos, p, "complete")

GateOK ==
  gate # Idle => IF gate.source = "incoming"
                   THEN HasNext(incoming, inflightIn, gate.partition)
                   ELSE HasNext(complete, inflightComplete, gate.partition)

PipelineInv ==
  TypeOK /\ ContentsOK /\ PositionsOK /\ OnceEach /\ Provenance /\ GateOK /\ ThreadsSurvive

LEMMA PipelineInit == Init => PipelineInv
<1> SUFFICES ASSUME Init PROVE PipelineInv
  OBVIOUS
<1> USE DEF Init
<1>1. TypeOK
  <2>1. [q \in Partitions |-> <<>>] \in Logs /\ [q \in Partitions |-> 0] \in Positions
    BY DEF Logs, Positions
  <2>2. /\ [g \in Groups |-> <<>>] \in [Groups -> Seq(Payment)]
        /\ [g \in Groups |-> NoStats] \in [Groups -> [count : Int, amount : Int]]
        /\ [a \in Accounts |-> 0] \in [Accounts -> Int]
    BY DEF NoStats
  <2> QED
    BY <2>1, <2>2 DEF TypeOK
<1>2. ContentsOK
  BY DEF ContentsOK, Contains
<1>3. PositionsOK
  BY DEF PositionsOK, InLog
<1>4. OnceEach
  BY DEF OnceEach, NoDuplicates
<1>5. Provenance
  BY DEF Provenance, Holds, HasRead
<1>6. GateOK /\ ThreadsSurvive
  BY DEF GateOK, ThreadsSurvive
<1> QED
  BY <1>1, <1>2, <1>3, <1>4, <1>5, <1>6 DEF PipelineInv

-----------------------------------------------------------------------------
LEMMA GenerateStep ==
  ASSUME PipelineInv, NEW p \in Payments, GeneratePayment(p)
  PROVE  PipelineInv'
<1> DEFINE v == [txn |-> p, id |-> <<"generated", p>>, state |-> "incoming"]
<1> USE DEF PipelineInv
<1>1. /\ v \in Payment /\ v \in IncomingRecords
      /\ v.txn = p /\ v.state = "incoming"
  BY DEF Payment, Keys, State, IncomingRecords
<1>2. /\ incoming' = Publish(incoming, v)
      /\ ~ Holds(incoming, p, "incoming")
      /\ UNCHANGED <<inflight, complete, confirmed, inflightVars, accountVars,
                     confirmedVars, paused>>
  BY DEF GeneratePayment
<1>3. incoming \in Logs /\ inflightIn \in Positions /\ InLog(inflightIn, incoming)
  BY DEF TypeOK, PositionsOK
<1> USE DEF inflightVars, accountVars, confirmedVars
<1> HIDE DEF v
<1>4. incoming' \in Logs
  BY <1>1, <1>2, <1>3, PublishType
<1>5. TypeOK'
  BY <1>2, <1>4 DEF TypeOK
<1>6. ContentsOK'
  BY <1>1, <1>2, <1>3, PublishContains DEF ContentsOK
<1>7. /\ InLog(inflightIn, incoming')
      /\ \A r, s : HasRead(incoming', inflightIn, r, s) <=> HasRead(incoming, inflightIn, r, s)
  BY <1>1, <1>2, <1>3, PublishHasRead
<1>8. PositionsOK'
  BY <1>2, <1>7 DEF PositionsOK
<1>9. OnceEach'
  BY <1>1, <1>2, <1>3, PublishNoDuplicates DEF OnceEach
<1>10. Provenance'
  BY <1>2, <1>7 DEF Provenance
<1>11. GateOK'
  <2>1. ASSUME NEW q \in Partitions, HasNext(incoming, inflightIn, q)
        PROVE  HasNext(incoming', inflightIn, q)
    <3>1. Len(incoming[q]) <= Len(incoming'[q])
      BY <1>1, <1>2, <1>3, PublishType
    <3>2. Len(incoming[q]) \in Nat /\ Len(incoming'[q]) \in Nat /\ inflightIn[q] \in Nat
      BY <1>3, <1>4 DEF Logs, Positions
    <3> QED
      BY <2>1, <3>1, <3>2 DEF HasNext
  <2>2. gate # Idle => gate.partition \in Partitions
    BY DEF TypeOK
  <2> QED
    BY <1>2, <2>1, <2>2 DEF GateOK
<1>12. ThreadsSurvive'
  BY <1>2 DEF ThreadsSurvive
<1> QED
  BY <1>5, <1>6, <1>8, <1>9, <1>10, <1>11, <1>12

LEMMA PauseStep ==
  ASSUME PipelineInv, PauseProcessing \/ StartProcessing
  PROVE  PipelineInv'
<1> USE DEF PipelineInv, topics, inflightVars, accountVars, confirmedVars
<1>1. UNCHANGED <<topics, inflightIn, inflightComplete, inflightGroups,
                  inflightStats, accountVars, confirmedVars>>
  BY DEF PauseProcessing, StartProcessing
<1>2. /\ paused' \in BOOLEAN
      /\ \/ gate' = gate
         \/ gate.at = "waiting" /\ gate' = [gate EXCEPT !.at = "passed"]
  BY DEF PauseProcessing, StartProcessing
<1>3. /\ gate' \in {Idle} \union [at : {"waiting", "passed"},
                                  source : {"incoming", "complete"},
                                  partition : Partitions]
      /\ gate' # Idle => /\ gate # Idle
                         /\ gate'.source = gate.source
                         /\ gate'.partition = gate.partition
  <2>1. gate \in {Idle} \union [at : {"waiting", "passed"},
                                source : {"incoming", "complete"},
                                partition : Partitions]
    BY DEF TypeOK
  <2>2. CASE gate' = gate
    BY <2>1, <2>2
  <2>3. CASE gate.at = "waiting" /\ gate' = [gate EXCEPT !.at = "passed"]
    <3>1. gate \in [at : {"waiting", "passed"}, source : {"incoming", "complete"},
                    partition : Partitions]
      BY <2>1, <2>3 DEF Idle
    <3>2. gate' = [at |-> "passed", source |-> gate.source, partition |-> gate.partition]
      BY <2>3, <3>1
    <3>3. gate # Idle
      BY <2>3 DEF Idle
    <3> QED
      BY <3>1, <3>2, <3>3
  <2> QED
    BY <1>2, <2>2, <2>3
<1>4. TypeOK'
  BY <1>1, <1>2, <1>3 DEF TypeOK
<1>5. GateOK'
  BY <1>1, <1>3 DEF GateOK
<1> QED
  BY <1>1, <1>4, <1>5
     DEF ContentsOK, PositionsOK, OnceEach, Provenance, ThreadsSurvive

LEMMA PollStep ==
  ASSUME PipelineInv,
         NEW source \in {"incoming", "complete"}, NEW q \in Partitions,
         PollInFlight(source, q)
  PROVE  PipelineInv'
<1> USE DEF PipelineInv, topics, accountVars, confirmedVars
<1>1. UNCHANGED <<topics, inflightIn, inflightComplete, inflightGroups,
                  inflightStats, accountVars, confirmedVars, paused>>
  BY DEF PollInFlight
<1>2. /\ gate' \in [at : {"waiting", "passed"},
                    source : {"incoming", "complete"},
                    partition : Partitions]
      /\ gate'.source = source /\ gate'.partition = q
  BY DEF PollInFlight
<1>3. TypeOK'
  BY <1>1, <1>2 DEF TypeOK
<1>4. GateOK'
  BY <1>1, <1>2 DEF GateOK, PollInFlight
<1> QED
  BY <1>1, <1>3, <1>4
     DEF ContentsOK, PositionsOK, OnceEach, Provenance, ThreadsSurvive

LEMMA AggregateStep ==
  ASSUME PipelineInv, NEW g \in Groups, AggregateInflight(g) \/ AggregateConfirmed(g)
  PROVE  PipelineInv'
<1> USE DEF PipelineInv
<1>1. UNCHANGED <<topics, inflightIn, inflightComplete, gate, accountVars,
                  confirmedPos, confirmedUp, paused>>
  BY DEF AggregateInflight, AggregateConfirmed, inflightVars, confirmedVars
<1>2. /\ inflightGroups' \in [Groups -> Seq(Payment)]
      /\ inflightStats' \in [Groups -> [count : Int, amount : Int]]
  <2>1. CASE AggregateInflight(g)
    <3>1. inflightGroups[g] \in Seq(Payment) /\ inflightGroups[g] # <<>>
      BY <2>1 DEF AggregateInflight, TypeOK
    <3>2. /\ Head(inflightGroups[g]) \in Payment
          /\ Tail(inflightGroups[g]) \in Seq(Payment)
      BY <3>1
    <3>3. \A s \in [count : Int, amount : Int], v \in Payment :
            UpdateInflight(s, v) \in [count : Int, amount : Int]
      <4>1. \A v \in Payment : Amount[v.txn] \in Int
        BY PipelineAssumption DEF PipelineAssumption, Payment
      <4> QED
        BY <4>1 DEF UpdateInflight
    <3>4. inflightGroups' = [inflightGroups EXCEPT ![g] = Tail(inflightGroups[g])]
      BY <2>1 DEF AggregateInflight
    <3>5. inflightStats' = [inflightStats EXCEPT ![g] =
                              UpdateInflight(inflightStats[g], Head(inflightGroups[g]))]
      BY <2>1 DEF AggregateInflight
    <3>6. inflightStats[g] \in [count : Int, amount : Int]
      BY DEF TypeOK
    <3>7. UpdateInflight(inflightStats[g], Head(inflightGroups[g])) \in [count : Int, amount : Int]
      BY <3>2, <3>3, <3>6
    <3> QED
      BY <3>2, <3>4, <3>5, <3>7 DEF TypeOK
  <2>2. CASE AggregateConfirmed(g)
    BY <2>2 DEF AggregateConfirmed, inflightVars, TypeOK
  <2> QED
    BY <2>1, <2>2
<1>3. /\ confirmedGroups' \in [Groups -> Seq(Payment)]
      /\ confirmedStats' \in [Groups -> [count : Int, amount : Int]]
  <2>1. CASE AggregateConfirmed(g)
    <3>1. confirmedGroups[g] \in Seq(Payment) /\ confirmedGroups[g] # <<>>
      BY <2>1 DEF AggregateConfirmed, TypeOK
    <3>2. /\ Head(confirmedGroups[g]) \in Payment
          /\ Tail(confirmedGroups[g]) \in Seq(Payment)
      BY <3>1
    <3>3. \A s \in [count : Int, amount : Int], v \in Payment :
            UpdateConfirmed(s, v) \in [count : Int, amount : Int]
      <4>1. \A v \in Payment : Amount[v.txn] \in Int
        BY PipelineAssumption DEF PipelineAssumption, Payment
      <4> QED
        BY <4>1 DEF UpdateConfirmed
    <3>4. confirmedGroups' = [confirmedGroups EXCEPT ![g] = Tail(confirmedGroups[g])]
      BY <2>1 DEF AggregateConfirmed
    <3>5. confirmedStats' = [confirmedStats EXCEPT ![g] =
                              UpdateConfirmed(confirmedStats[g], Head(confirmedGroups[g]))]
      BY <2>1 DEF AggregateConfirmed
    <3>6. confirmedStats[g] \in [count : Int, amount : Int]
      BY DEF TypeOK
    <3>7. UpdateConfirmed(confirmedStats[g], Head(confirmedGroups[g]))
            \in [count : Int, amount : Int]
      BY <3>2, <3>3, <3>6
    <3> QED
      BY <3>2, <3>4, <3>5, <3>7 DEF TypeOK
  <2>2. CASE AggregateInflight(g)
    BY <2>2 DEF AggregateInflight, confirmedVars, TypeOK
  <2> QED
    BY <2>1, <2>2
<1>4. TypeOK'
  BY <1>1, <1>2, <1>3 DEF TypeOK, topics, accountVars
<1> QED
  BY <1>1, <1>4 DEF topics, accountVars,
     ContentsOK, PositionsOK, OnceEach, Provenance, GateOK, ThreadsSurvive

LEMMA RegroupType ==
  ASSUME NEW groups \in [Groups -> Seq(Payment)], NEW v \in Payment
  PROVE  Regroup(groups, v) \in [Groups -> Seq(Payment)]
<1>1. GroupOf[v.id] \in Groups
  BY PipelineAssumption DEF PipelineAssumption, Payment
<1>2. Append(groups[GroupOf[v.id]], v) \in Seq(Payment)
  BY <1>1
<1> QED
  BY <1>1, <1>2 DEF Regroup

LEMMA InFlightStep ==
  ASSUME PipelineInv, HandleInFlight
  PROVE  PipelineInv'
<1> USE DEF PipelineInv
<1> DEFINE q == gate.partition
<1>1. /\ gate # Idle
      /\ q \in Partitions
      /\ gate.source \in {"incoming", "complete"}
  BY DEF HandleInFlight, TypeOK, Idle
<1>2. /\ gate' = Idle
      /\ UNCHANGED <<incoming, complete, confirmed, inflightStats, accountVars,
                     confirmedVars, paused>>
  BY DEF HandleInFlight
<1> USE DEF accountVars, confirmedVars
<1>3. /\ incoming \in Logs /\ inflight \in Logs /\ complete \in Logs
      /\ inflightIn \in Positions /\ inflightComplete \in Positions /\ accountPos \in Positions
  BY DEF TypeOK
<1> HIDE DEF q
<1>4. ASSUME TypeOK', ContentsOK', PositionsOK', OnceEach', Provenance'
      PROVE  PipelineInv'
  BY <1>2, <1>4 DEF GateOK, ThreadsSurvive
<1>5. CASE gate.source = "incoming"
  <2> DEFINE v == NextOf(incoming, inflightIn, q)
             flipped == SetStateAndId(v, "debit")
  <2>1. HasNext(incoming, inflightIn, q)
    BY <1>1, <1>5 DEF GateOK, q
  <2>2. v \in IncomingRecords
    BY <1>1, <1>3, <2>1, NextIsContained DEF ContentsOK
  <2>3. v \in Payment /\ v.state = "incoming"
    BY <2>2 DEF IncomingRecords
  <2>4. /\ flipped \in Payment /\ flipped \in InflightRecords
        /\ flipped.txn = v.txn /\ flipped.state = "debit"
    <3>1. "debit" \in State
      BY DEF State
    <3>2. /\ flipped \in Payment /\ flipped.txn = v.txn /\ flipped.state = "debit"
          /\ flipped.id = <<"account", From[v.txn]>>
      BY <2>3, <3>1, SetStateAndIdType
    <3> HIDE DEF v, flipped
    <3> QED
      BY <3>2 DEF InflightRecords
  <2>5. /\ inflightGroups' = Regroup(inflightGroups, v)
        /\ inflight' = Publish(inflight, flipped)
        /\ inflightIn' = Consume(inflightIn, q)
        /\ inflightComplete' = inflightComplete
    <3>1. FlipIncoming(v) = flipped
      BY <2>3 DEF FlipIncoming
    <3> QED
      BY <1>5, <2>4, <3>1 DEF HandleInFlight, q
  <2>6. /\ inflightIn' \in Positions
        /\ InLog(inflightIn', incoming)
        /\ \A p, s : HasRead(incoming, inflightIn', p, s)
                       <=> HasRead(incoming, inflightIn, p, s) \/ (p = v.txn /\ s = "incoming")
        /\ ~ HasRead(incoming, inflightIn, v.txn, "incoming")
    BY <1>1, <1>3, <2>1, <2>3, <2>5, ConsumeHasRead DEF PositionsOK, OnceEach
  <2> HIDE DEF v, flipped
  <2>7. ~ Holds(inflight, v.txn, "debit")
    <3>1. v.txn \in Payments
      BY <2>3 DEF Payment
    <3> QED
      BY <2>6, <3>1 DEF Provenance
  <2>8. inflight' \in Logs
    BY <1>3, <2>4, <2>5, PublishType
  <2>9. \A p, s : Holds(inflight', p, s) <=> Holds(inflight, p, s) \/ (p = v.txn /\ s = "debit")
    BY <1>3, <2>4, <2>5, PublishHolds
  <2>10. /\ InLog(accountPos, inflight')
         /\ \A p, s : HasRead(inflight', accountPos, p, s) <=> HasRead(inflight, accountPos, p, s)
    BY <1>3, <2>4, <2>5, PublishHasRead DEF PositionsOK
  <2>11. TypeOK'
    <3>1. inflightGroups' \in [Groups -> Seq(Payment)]
      BY <2>3, <2>5, RegroupType DEF TypeOK
    <3> QED
      BY <1>2, <2>5, <2>6, <2>8, <3>1 DEF TypeOK
  <2>12. ContentsOK'
    BY <1>2, <1>3, <2>4, <2>5, PublishContains DEF ContentsOK
  <2>13. PositionsOK'
    BY <1>2, <2>5, <2>6, <2>10 DEF PositionsOK
  <2>14. OnceEach'
    BY <1>2, <1>3, <2>4, <2>5, <2>7, PublishNoDuplicates DEF OnceEach
  <2>15. Provenance'
    BY <1>2, <2>6, <2>9, <2>10 DEF Provenance
  <2> QED
    BY <1>4, <2>11, <2>12, <2>13, <2>14, <2>15
<1>6. CASE gate.source = "complete"
  <2> DEFINE v == NextOf(complete, inflightComplete, q)
  <2>1. HasNext(complete, inflightComplete, q)
    BY <1>1, <1>6 DEF GateOK, q
  <2>2. v \in CompleteRecords
    BY <1>1, <1>3, <2>1, NextIsContained DEF ContentsOK
  <2>3. v \in Payment /\ v.state = "complete"
    BY <2>2 DEF CompleteRecords
  <2>4. /\ inflightGroups' = Regroup(inflightGroups, v)
        /\ inflight' = inflight
        /\ inflightComplete' = Consume(inflightComplete, q)
        /\ inflightIn' = inflightIn
    <3>1. FlipIncoming(v) = v
      BY <2>3 DEF FlipIncoming
    <3> QED
      BY <1>6, <2>3, <3>1 DEF HandleInFlight, q
  <2>5. /\ inflightComplete' \in Positions
        /\ InLog(inflightComplete', complete)
    BY <1>1, <1>3, <2>1, <2>4, ConsumeHasRead DEF PositionsOK
  <2> HIDE DEF v
  <2>6. inflightGroups' \in [Groups -> Seq(Payment)]
    BY <2>3, <2>4, RegroupType DEF TypeOK
  <2> QED
    BY <1>2, <1>4, <2>4, <2>5, <2>6
       DEF TypeOK, ContentsOK, PositionsOK, OnceEach, Provenance
<1> QED
  BY <1>1, <1>5, <1>6

LEMMA PublishHasNext ==
  ASSUME NEW log \in Logs, NEW pos \in Positions, NEW v \in Payment,
         NEW q \in Partitions, HasNext(log, pos, q)
  PROVE  HasNext(Publish(log, v), pos, q)
<1>1. Len(log[q]) <= Len(Publish(log, v)[q]) /\ Publish(log, v) \in Logs
  BY PublishType
<1>2. Len(log[q]) \in Nat /\ Len(Publish(log, v)[q]) \in Nat /\ pos[q] \in Nat
  BY <1>1 DEF Logs, Positions
<1> QED
  BY <1>1, <1>2 DEF HasNext

LEMMA AccountStep ==
  ASSUME PipelineInv, NEW q \in Partitions, HandleAccount(q)
  PROVE  PipelineInv'
<1> USE DEF PipelineInv, inflightVars, confirmedVars
<1> DEFINE v == NextOf(inflight, accountPos, q)
<1>1. /\ incoming \in Logs /\ inflight \in Logs /\ complete \in Logs
      /\ inflightIn \in Positions /\ inflightComplete \in Positions
      /\ accountPos \in Positions /\ confirmedPos \in Positions
  BY DEF TypeOK
<1>2. HasNext(inflight, accountPos, q)
  BY DEF HandleAccount
<1>3. v \in InflightRecords
  BY <1>1, <1>2, NextIsContained DEF ContentsOK
<1>4. /\ v \in Payment /\ v.txn \in Payments
      /\ \/ v.state = "debit"  /\ v.id = <<"account", From[v.txn]>>
         \/ v.state = "credit" /\ v.id = <<"account", To[v.txn]>>
  BY <1>3 DEF InflightRecords, Payment
<1>5. /\ balance' = HandleBalance(balance, v)
      /\ inflight' = IF IsCreditRecord(FlipAccount(v))
                       THEN Publish(inflight, FlipAccount(v)) ELSE inflight
      /\ complete' = IF IsCompleteRecord(FlipAccount(v)) /\ ~ IsCreditRecord(FlipAccount(v))
                       THEN Publish(complete, FlipAccount(v)) ELSE complete
      /\ accountPos' = Consume(accountPos, q)
      /\ UNCHANGED <<accountUp, incoming, confirmed, inflightVars, confirmedVars, paused>>
  BY <1>4 DEF HandleAccount
<1>6. /\ accountPos' \in Positions
      /\ InLog(accountPos', inflight)
      /\ \A p, s : HasRead(inflight, accountPos', p, s)
                     <=> HasRead(inflight, accountPos, p, s) \/ (p = v.txn /\ s = v.state)
      /\ ~ HasRead(inflight, accountPos, v.txn, v.state)
  BY <1>1, <1>2, <1>5, ConsumeHasRead DEF PositionsOK, OnceEach
<1>7. balance' \in [Accounts -> Int]
  <2>1. v.id[2] \in Accounts
    BY <1>4, PipelineAssumption DEF PipelineAssumption
  <2>2. Amount[v.txn] \in Int
    BY <1>4, PipelineAssumption DEF PipelineAssumption
  <2> HIDE DEF v
  <2> QED
    BY <1>5, <2>1, <2>2 DEF HandleBalance, TypeOK
<1> HIDE DEF v
<1>8. CASE v.state = "debit"
  <2> DEFINE flipped == SetStateAndId(v, "credit")
  <2>1. /\ flipped \in Payment /\ flipped \in InflightRecords
        /\ flipped.txn = v.txn /\ flipped.state = "credit"
    <3>1. "credit" \in State
      BY DEF State
    <3>2. /\ flipped \in Payment /\ flipped.txn = v.txn /\ flipped.state = "credit"
          /\ flipped.id = <<"account", To[v.txn]>>
      BY <1>4, <3>1, SetStateAndIdType
    <3> HIDE DEF flipped
    <3> QED
      BY <3>2 DEF InflightRecords
  <2>2. /\ inflight' = Publish(inflight, flipped)
        /\ complete' = complete
    <3>1. FlipAccount(v) = flipped
      BY <1>8 DEF FlipAccount
    <3> QED
      BY <1>5, <2>1, <3>1 DEF IsCreditRecord, IsCompleteRecord
  <2> HIDE DEF flipped
  <2>3. ~ Holds(inflight, v.txn, "credit")
    BY <1>4, <1>6, <1>8 DEF Provenance
  <2>4. inflight' \in Logs
    BY <1>1, <2>1, <2>2, PublishType
  <2>5. \A p, s : Holds(inflight', p, s) <=> Holds(inflight, p, s) \/ (p = v.txn /\ s = "credit")
    BY <1>1, <2>1, <2>2, PublishHolds
  <2>6. /\ InLog(accountPos', inflight')
        /\ \A p, s : HasRead(inflight', accountPos', p, s) <=> HasRead(inflight, accountPos', p, s)
    BY <1>1, <1>6, <2>1, <2>2, PublishHasRead
  <2>7. TypeOK'
    BY <1>5, <1>6, <1>7, <2>2, <2>4 DEF TypeOK
  <2>8. ContentsOK'
    BY <1>1, <1>5, <2>1, <2>2, PublishContains DEF ContentsOK
  <2>9. PositionsOK'
    BY <1>5, <2>2, <2>6 DEF PositionsOK
  <2>10. OnceEach'
    BY <1>1, <1>5, <2>1, <2>2, <2>3, PublishNoDuplicates DEF OnceEach
  <2>11. Provenance'
    BY <1>5, <1>6, <1>8, <2>2, <2>5, <2>6 DEF Provenance
  <2>12. GateOK' /\ ThreadsSurvive'
    BY <1>5, <2>2 DEF GateOK, ThreadsSurvive
  <2> QED
    BY <2>7, <2>8, <2>9, <2>10, <2>11, <2>12
<1>9. CASE v.state = "credit"
  <2> DEFINE flipped == SetStateAndId(v, "complete")
  <2>1. /\ flipped \in Payment /\ flipped \in CompleteRecords
        /\ flipped.txn = v.txn /\ flipped.state = "complete"
    <3>1. "complete" \in State
      BY DEF State
    <3>2. flipped \in Payment /\ flipped.txn = v.txn /\ flipped.state = "complete"
      BY <1>4, <3>1, SetStateAndIdType
    <3> HIDE DEF flipped
    <3> QED
      BY <3>2 DEF CompleteRecords
  <2>2. /\ inflight' = inflight
        /\ complete' = Publish(complete, flipped)
    <3>1. FlipAccount(v) = flipped
      BY <1>9 DEF FlipAccount
    <3> QED
      BY <1>5, <2>1, <3>1 DEF IsCreditRecord, IsCompleteRecord
  <2> HIDE DEF flipped
  <2>3. ~ Holds(complete, v.txn, "complete")
    BY <1>4, <1>6, <1>9 DEF Provenance
  <2>4. complete' \in Logs
    BY <1>1, <2>1, <2>2, PublishType
  <2>5. \A p, s : Holds(complete', p, s) <=> Holds(complete, p, s) \/ (p = v.txn /\ s = "complete")
    BY <1>1, <2>1, <2>2, PublishHolds
  <2>6. /\ InLog(confirmedPos, complete')
        /\ InLog(inflightComplete, complete')
        /\ \A p, s : HasRead(complete', confirmedPos, p, s)
                      <=> HasRead(complete, confirmedPos, p, s)
    BY <1>1, <2>1, <2>2, PublishHasRead DEF PositionsOK
  <2>7. TypeOK'
    BY <1>5, <1>6, <1>7, <2>2, <2>4 DEF TypeOK
  <2>8. ContentsOK'
    BY <1>1, <1>5, <2>1, <2>2, PublishContains DEF ContentsOK
  <2>9. PositionsOK'
    BY <1>5, <1>6, <2>2, <2>6 DEF PositionsOK
  <2>10. OnceEach'
    BY <1>1, <1>5, <2>1, <2>2, <2>3, PublishNoDuplicates DEF OnceEach
  <2>11. Provenance'
    BY <1>5, <1>6, <1>9, <2>2, <2>5, <2>6 DEF Provenance
  <2>12. GateOK' /\ ThreadsSurvive'
    <3>1. gate # Idle => gate.partition \in Partitions
      BY DEF TypeOK
    <3> QED
      BY <1>1, <1>5, <2>1, <2>2, <3>1, PublishHasNext DEF GateOK, ThreadsSurvive
  <2> QED
    BY <2>7, <2>8, <2>9, <2>10, <2>11, <2>12
<1> QED
  BY <1>4, <1>8, <1>9

LEMMA ConfirmedStep ==
  ASSUME PipelineInv, NEW q \in Partitions, HandleComplete(q)
  PROVE  PipelineInv'
<1> USE DEF PipelineInv, inflightVars, accountVars
<1> DEFINE v == NextOf(complete, confirmedPos, q)
           done == SetStateAndId(v, "confirmed")
<1>1. complete \in Logs /\ confirmed \in Logs /\ confirmedPos \in Positions
  BY DEF TypeOK
<1>2. HasNext(complete, confirmedPos, q)
  BY DEF HandleComplete
<1>3. v \in CompleteRecords
  BY <1>1, <1>2, NextIsContained DEF ContentsOK
<1>4. v \in Payment /\ v.txn \in Payments /\ v.state = "complete"
  BY <1>3 DEF CompleteRecords, Payment
<1>5. done \in Payment /\ done.txn = v.txn /\ done.state = "confirmed"
  <2>1. "confirmed" \in State
    BY DEF State
  <2> HIDE DEF v
  <2> QED
    BY <1>4, <2>1, SetStateAndIdType
<1>6. /\ confirmed' = Publish(confirmed, done)
      /\ confirmedGroups' = Regroup(confirmedGroups, done)
      /\ confirmedPos' = Consume(confirmedPos, q)
      /\ UNCHANGED <<confirmedUp, incoming, inflight, complete, inflightVars,
                     accountVars, confirmedStats, paused>>
  BY <1>4 DEF HandleComplete, CompleteTransform, SecondChildSees
<1>7. /\ confirmedPos' \in Positions
      /\ InLog(confirmedPos', complete)
      /\ \A p, s : HasRead(complete, confirmedPos', p, s)
                     <=> HasRead(complete, confirmedPos, p, s) \/ (p = v.txn /\ s = "complete")
      /\ ~ HasRead(complete, confirmedPos, v.txn, "complete")
  BY <1>1, <1>2, <1>4, <1>6, ConsumeHasRead DEF PositionsOK, OnceEach
<1> HIDE DEF v, done
<1>8. ~ Holds(confirmed, v.txn, "confirmed")
  BY <1>4, <1>7 DEF Provenance
<1>9. \A p, s : Holds(confirmed', p, s) <=> Holds(confirmed, p, s) \/ (p = v.txn /\ s = "confirmed")
  BY <1>1, <1>5, <1>6, PublishHolds
<1>10. TypeOK'
  <2>1. confirmed' \in Logs
    BY <1>1, <1>5, <1>6, PublishType
  <2>2. confirmedGroups' \in [Groups -> Seq(Payment)]
    BY <1>5, <1>6, RegroupType DEF TypeOK
  <2> QED
    BY <1>6, <1>7, <2>1, <2>2 DEF TypeOK
<1>11. PositionsOK'
  BY <1>6, <1>7 DEF PositionsOK
<1>12. OnceEach'
  BY <1>1, <1>5, <1>6, <1>8, PublishNoDuplicates DEF OnceEach
<1>13. Provenance'
  BY <1>6, <1>7, <1>9 DEF Provenance
<1> QED
  BY <1>6, <1>10, <1>11, <1>12, <1>13 DEF ContentsOK, GateOK, ThreadsSurvive

(* Every reachable state satisfies the inductive invariant: in each topic a *)
(* payment is at most once in each state, and it is there exactly if the    *)
(* processor before has handled it.                                         *)
THEOREM PipelineInvariant == Spec => []PipelineInv
<1>1. PipelineInv /\ [Next]_vars => PipelineInv'
  <2> SUFFICES ASSUME PipelineInv, [Next]_vars PROVE PipelineInv'
    OBVIOUS
  <2>1. CASE UNCHANGED vars
    BY <2>1 DEF PipelineInv, vars, topics, inflightVars, accountVars, confirmedVars,
       TypeOK, ContentsOK, PositionsOK, OnceEach, Provenance, GateOK, ThreadsSurvive
  <2>2. ASSUME NEW p \in Payments, GeneratePayment(p) PROVE PipelineInv'
    BY <2>2, GenerateStep
  <2>3. CASE PauseProcessing \/ StartProcessing
    BY <2>3, PauseStep
  <2>4. CASE InFlightThread
    BY <2>4, PollStep, InFlightStep, AggregateStep DEF InFlightThread
  <2>5. CASE AccountThread
    BY <2>5, AccountStep DEF AccountThread
  <2>6. CASE ConfirmedThread
    BY <2>6, ConfirmedStep, AggregateStep DEF ConfirmedThread
  <2> QED
    BY <2>1, <2>2, <2>3, <2>4, <2>5, <2>6 DEF Next
<1> QED
  BY <1>1, PipelineInit, PTL DEF Spec

-----------------------------------------------------------------------------
(* The conclusions *)

L == INSTANCE PaymentLedgerProofs WITH stage <- [p \in Payments |-> StageOf(p)]

(* The invariants the runs check that the inductive invariant contains: the *)
(* variables have their types.                                              *)
THEOREM PipelineTypeCorrect == Spec => []TypeOK
<1>1. PipelineInv => TypeOK
  BY DEF PipelineInv
<1> QED
  BY <1>1, PipelineInvariant, PTL

(* No record the processors send each other kills a stream thread, however  *)
(* the threads and the partitions interleave.                               *)
THEOREM ThreadsAlwaysSurvive == Spec => []ThreadsSurvive
<1>1. PipelineInv => ThreadsSurvive
  BY DEF PipelineInv
<1> QED
  BY <1>1, PipelineInvariant, PTL

-----------------------------------------------------------------------------
(* A payment that has come to a topic has come to all topics before it.     *)
LEMMA Progress ==
  ASSUME PipelineInv, NEW p \in Payments
  PROVE  /\ Holds(confirmed, p, "confirmed") => Holds(complete, p, "complete")
         /\ Holds(complete, p, "complete") => Holds(inflight, p, "credit")
         /\ Holds(inflight, p, "credit") => Holds(inflight, p, "debit")
         /\ Holds(inflight, p, "debit") => Holds(incoming, p, "incoming")
<1>1. /\ incoming \in Logs /\ inflight \in Logs /\ complete \in Logs
      /\ inflightIn \in Positions /\ accountPos \in Positions /\ confirmedPos \in Positions
      /\ InLog(inflightIn, incoming) /\ InLog(accountPos, inflight)
      /\ InLog(confirmedPos, complete)
  BY DEF PipelineInv, TypeOK, PositionsOK
<1>2. /\ Holds(inflight, p, "debit") <=> HasRead(incoming, inflightIn, p, "incoming")
      /\ Holds(inflight, p, "credit") <=> HasRead(inflight, accountPos, p, "debit")
      /\ Holds(complete, p, "complete") <=> HasRead(inflight, accountPos, p, "credit")
      /\ Holds(confirmed, p, "confirmed") <=> HasRead(complete, confirmedPos, p, "complete")
  BY DEF PipelineInv, Provenance
<1> QED
  BY ONLY <1>1, <1>2, ReadIsHeld

(* The stages, then, tell how far a payment has come.                       *)
LEMMA StageIs ==
  ASSUME PipelineInv, NEW p \in Payments
  PROVE  /\ StageOf(p) = "none" <=> ~ Holds(incoming, p, "incoming")
         /\ StageOf(p) = "incoming" <=> /\ Holds(incoming, p, "incoming")
                                        /\ ~ Holds(inflight, p, "credit")
         /\ StageOf(p) = "debited" <=> /\ Holds(inflight, p, "credit")
                                       /\ ~ Holds(complete, p, "complete")
         /\ StageOf(p) = "credited" <=> /\ Holds(complete, p, "complete")
                                        /\ ~ Holds(confirmed, p, "confirmed")
         /\ StageOf(p) = "confirmed" <=> Holds(confirmed, p, "confirmed")
BY Progress DEF StageOf

(* A step that publishes one record moves one payment, and no other.        *)
SameHoldings ==
  \A p \in Payments :
    /\ Holds(incoming, p, "incoming")' <=> Holds(incoming, p, "incoming")
    /\ Holds(inflight, p, "credit")' <=> Holds(inflight, p, "credit")
    /\ Holds(complete, p, "complete")' <=> Holds(complete, p, "complete")
    /\ Holds(confirmed, p, "confirmed")' <=> Holds(confirmed, p, "confirmed")

LEMMA SameStage ==
  ASSUME SameHoldings, NEW p \in Payments
  PROVE  StageOf(p)' = StageOf(p)
BY DEF SameHoldings, StageOf

LEMMA QuietStep ==
  ASSUME SameHoldings, balance' = balance
  PROVE  UNCHANGED L!vars
<1>1. \A p \in Payments : StageOf(p)' = StageOf(p)
  BY SameStage
<1> QED
  BY <1>1 DEF L!vars

LEMMA AcceptStep ==
  ASSUME PipelineInv, PipelineInv', NEW p \in Payments, GeneratePayment(p)
  PROVE  L!Accept(p)
<1> DEFINE v == [txn |-> p, id |-> <<"generated", p>>, state |-> "incoming"]
<1>1. /\ incoming \in Logs /\ v \in Payment /\ v.txn = p /\ v.state = "incoming"
      /\ incoming' = Publish(incoming, v)
      /\ ~ Holds(incoming, p, "incoming")
      /\ UNCHANGED <<inflight, complete, confirmed, balance>>
  BY DEF GeneratePayment, PipelineInv, TypeOK, Payment, Keys, State, accountVars
<1> HIDE DEF v
<1>2. \A r \in Payments : Holds(incoming, r, "incoming")'
                            <=> Holds(incoming, r, "incoming") \/ r = p
  BY <1>1, PublishHolds
<1>3. \A r \in Payments : StageOf(r)' = IF r = p THEN "incoming" ELSE StageOf(r)
  <2>1. ASSUME NEW r \in Payments, r # p PROVE StageOf(r)' = StageOf(r)
    BY <1>1, <1>2, <2>1 DEF StageOf
  <2>2. StageOf(p)' = "incoming"
    <3>1. /\ ~ Holds(inflight, p, "credit") /\ ~ Holds(complete, p, "complete")
          /\ ~ Holds(confirmed, p, "confirmed")
      BY <1>1, Progress
    <3>2. Holds(incoming, p, "incoming")'
      BY <1>2
    <3> QED
      BY <1>1, <3>1, <3>2 DEF StageOf
  <2> QED
    BY <2>1, <2>2
<1>4. StageOf(p) = "none"
  BY <1>1, StageIs
<1> QED
  BY <1>1, <1>3, <1>4 DEF L!Accept, L!Advance

LEMMA AccountImplements ==
  ASSUME PipelineInv, PipelineInv', NEW q \in Partitions, HandleAccount(q)
  PROVE  \E p \in Payments : L!Debit(p) \/ L!Credit(p)
<1> DEFINE v == NextOf(inflight, accountPos, q)
<1>1. /\ inflight \in Logs /\ complete \in Logs /\ accountPos \in Positions
      /\ HasNext(inflight, accountPos, q)
      /\ InLog(accountPos, inflight)
      /\ NoDuplicates(inflight)
      /\ balance \in [Accounts -> Int]
  BY DEF HandleAccount, PipelineInv, TypeOK, PositionsOK, OnceEach
<1>2. v \in InflightRecords
  BY <1>1, NextIsContained DEF PipelineInv, ContentsOK
<1>p. PICK p \in Payments : p = v.txn
  BY <1>2 DEF InflightRecords, Payment
<1>3. /\ v \in Payment /\ p \in Payments /\ v.txn = p
      /\ \/ v.state = "debit"  /\ v.id = <<"account", From[p]>>
         \/ v.state = "credit" /\ v.id = <<"account", To[p]>>
  BY <1>2, <1>p DEF InflightRecords, Payment
<1>4. /\ balance' = HandleBalance(balance, v)
      /\ inflight' = IF IsCreditRecord(FlipAccount(v))
                       THEN Publish(inflight, FlipAccount(v)) ELSE inflight
      /\ complete' = IF IsCompleteRecord(FlipAccount(v)) /\ ~ IsCreditRecord(FlipAccount(v))
                       THEN Publish(complete, FlipAccount(v)) ELSE complete
      /\ UNCHANGED <<incoming, confirmed>>
  BY <1>3 DEF HandleAccount
<1>5. /\ Holds(inflight, p, v.state)
      /\ ~ HasRead(inflight, accountPos, p, v.state)
  BY <1>1, <1>p, ConsumeHasRead
<1>6. From[p] \in Accounts /\ To[p] \in Accounts /\ Amount[p] \in Int
  BY <1>3, PipelineAssumption DEF PipelineAssumption
<1>7. /\ Holds(inflight, p, "credit") <=> HasRead(inflight, accountPos, p, "debit")
      /\ Holds(complete, p, "complete") <=> HasRead(inflight, accountPos, p, "credit")
  BY <1>3 DEF PipelineInv, Provenance
<1> HIDE DEF v
<1>8. CASE v.state = "debit"
  <2> DEFINE flipped == SetStateAndId(v, "credit")
  <2>1. flipped \in Payment /\ flipped.txn = p /\ flipped.state = "credit"
    <3>1. "credit" \in State
      BY DEF State
    <3> QED
      BY <1>3, <3>1, SetStateAndIdType
  <2>2. inflight' = Publish(inflight, flipped) /\ complete' = complete
    <3>1. FlipAccount(v) = flipped
      BY <1>8 DEF FlipAccount
    <3> QED
      BY <1>4, <2>1, <3>1 DEF IsCreditRecord, IsCompleteRecord
  <2> HIDE DEF flipped
  <2>3. \A r \in Payments : Holds(inflight, r, "credit")'
                              <=> Holds(inflight, r, "credit") \/ r = p
    BY <1>1, <2>1, <2>2, PublishHolds
  <2>4. StageOf(p) = "incoming"
    BY <1>3, <1>5, <1>7, <1>8, Progress, StageIs
  <2>5. \A r \in Payments : StageOf(r)' = IF r = p THEN "debited" ELSE StageOf(r)
    <3>1. ASSUME NEW r \in Payments, r # p PROVE StageOf(r)' = StageOf(r)
      BY <1>4, <2>2, <2>3, <3>1 DEF StageOf
    <3>2. StageOf(p)' = "debited"
      <4>1. Holds(inflight, p, "credit")'
        BY <1>3, <2>3
      <4>2. ~ Holds(complete, p, "complete") /\ ~ Holds(confirmed, p, "confirmed")
        BY <1>3, <1>5, <1>7, <1>8, Progress
      <4> QED
        BY <1>4, <2>2, <4>1, <4>2 DEF StageOf
    <3> QED
      BY <3>1, <3>2
  <2>6. balance' = [balance EXCEPT ![From[p]] = @ + (-Amount[p])]
    <3>1. v.id[2] = From[p]
      BY <1>3, <1>8
    <3> QED
      BY <1>p, <1>1, <1>4, <1>6, <1>8, <3>1 DEF HandleBalance
  <2> QED
    BY <1>3, <2>4, <2>5, <2>6 DEF L!Debit, L!Advance, L!Post
<1>9. CASE v.state = "credit"
  <2> DEFINE flipped == SetStateAndId(v, "complete")
  <2>1. flipped \in Payment /\ flipped.txn = p /\ flipped.state = "complete"
    <3>1. "complete" \in State
      BY DEF State
    <3> QED
      BY <1>3, <3>1, SetStateAndIdType
  <2>2. inflight' = inflight /\ complete' = Publish(complete, flipped)
    <3>1. FlipAccount(v) = flipped
      BY <1>9 DEF FlipAccount
    <3> QED
      BY <1>4, <2>1, <3>1 DEF IsCreditRecord, IsCompleteRecord
  <2> HIDE DEF flipped
  <2>3. \A r \in Payments : Holds(complete, r, "complete")'
                              <=> Holds(complete, r, "complete") \/ r = p
    BY <1>1, <2>1, <2>2, PublishHolds
  <2>4. StageOf(p) = "debited"
    BY <1>3, <1>5, <1>7, <1>9, StageIs
  <2>5. \A r \in Payments : StageOf(r)' = IF r = p THEN "credited" ELSE StageOf(r)
    <3>1. ASSUME NEW r \in Payments, r # p PROVE StageOf(r)' = StageOf(r)
      BY <1>4, <2>2, <2>3, <3>1 DEF StageOf
    <3>2. StageOf(p)' = "credited"
      <4>1. Holds(complete, p, "complete")'
        BY <1>3, <2>3
      <4>2. ~ Holds(confirmed, p, "confirmed")
        BY <1>3, <1>5, <1>7, <1>9, Progress
      <4> QED
        BY <1>4, <4>1, <4>2 DEF StageOf
    <3> QED
      BY <3>1, <3>2
  <2>6. balance' = [balance EXCEPT ![To[p]] = @ + Amount[p]]
    <3>1. v.id[2] = To[p]
      BY <1>3, <1>9
    <3> QED
      BY <1>p, <1>1, <1>4, <1>6, <1>9, <3>1 DEF HandleBalance
  <2> QED
    BY <1>3, <2>4, <2>5, <2>6 DEF L!Credit, L!Advance, L!Post
<1> QED
  BY <1>3, <1>8, <1>9

LEMMA ConfirmImplements ==
  ASSUME PipelineInv, PipelineInv', NEW q \in Partitions, HandleComplete(q)
  PROVE  \E p \in Payments : L!Confirm(p)
<1> DEFINE v == NextOf(complete, confirmedPos, q)
           done == SetStateAndId(v, "confirmed")
<1>1. /\ complete \in Logs /\ confirmed \in Logs /\ confirmedPos \in Positions
      /\ HasNext(complete, confirmedPos, q)
      /\ InLog(confirmedPos, complete)
      /\ NoDuplicates(complete)
  BY DEF HandleComplete, PipelineInv, TypeOK, PositionsOK, OnceEach
<1>2. v \in CompleteRecords
  BY <1>1, NextIsContained DEF PipelineInv, ContentsOK
<1>p. PICK p \in Payments : p = v.txn
  BY <1>2 DEF CompleteRecords, Payment
<1>3. v \in Payment /\ v.txn = p /\ v.state = "complete"
  BY <1>2, <1>p DEF CompleteRecords
<1>4. confirmed' = Publish(confirmed, done) /\ UNCHANGED <<incoming, inflight, complete, balance>>
  BY <1>3 DEF HandleComplete, CompleteTransform, accountVars
<1>5. /\ Holds(complete, p, "complete")
      /\ ~ HasRead(complete, confirmedPos, p, "complete")
  BY <1>1, <1>3, ConsumeHasRead
<1> HIDE DEF v
<1>6. done \in Payment /\ done.txn = p /\ done.state = "confirmed"
  <2>1. "confirmed" \in State
    BY DEF State
  <2> QED
    BY <1>3, <2>1, SetStateAndIdType
<1> HIDE DEF done
<1>7. \A r \in Payments : Holds(confirmed, r, "confirmed")'
                            <=> Holds(confirmed, r, "confirmed") \/ r = p
  BY <1>1, <1>4, <1>6, PublishHolds
<1>8. StageOf(p) = "credited"
  <2>1. ~ Holds(confirmed, p, "confirmed")
    BY <1>5 DEF PipelineInv, Provenance
  <2> QED
    BY <1>5, <2>1, StageIs
<1>9. \A r \in Payments : StageOf(r)' = IF r = p THEN "confirmed" ELSE StageOf(r)
  BY <1>4, <1>7 DEF StageOf
<1> QED
  BY <1>4, <1>8, <1>9 DEF L!Confirm, L!Advance

LEMMA InFlightImplements ==
  ASSUME PipelineInv, HandleInFlight
  PROVE  SameHoldings /\ balance' = balance
<1>1. UNCHANGED <<incoming, complete, confirmed, balance>>
  BY DEF HandleInFlight, accountVars
<1>2. \A r \in Payments : Holds(inflight, r, "credit")' <=> Holds(inflight, r, "credit")
  <2> DEFINE q == gate.partition
             v == IF gate.source = "incoming" THEN NextOf(incoming, inflightIn, q)
                                              ELSE NextOf(complete, inflightComplete, q)
             flipped == FlipIncoming(v)
  <2>1. /\ gate # Idle /\ q \in Partitions
        /\ inflight \in Logs /\ incoming \in Logs /\ complete \in Logs
        /\ inflightIn \in Positions /\ inflightComplete \in Positions
    BY DEF HandleInFlight, PipelineInv, TypeOK, Idle
  <2>2. v \in IncomingRecords \union CompleteRecords
    BY <2>1, NextIsContained DEF PipelineInv, ContentsOK, GateOK
  <2>3. inflight' = IF flipped.state = "debit" THEN Publish(inflight, flipped) ELSE inflight
    BY DEF HandleInFlight
  <2> HIDE DEF v
  <2>4. flipped \in Payment
    <3>1. "debit" \in State /\ v \in Payment
      BY <2>2 DEF State, IncomingRecords, CompleteRecords
    <3> QED
      BY <3>1, SetStateAndIdType DEF FlipIncoming
  <2> HIDE DEF flipped
  <2> QED
    BY <2>1, <2>3, <2>4, PublishHolds
<1> QED
  BY <1>1, <1>2 DEF SameHoldings

(* The ledger whose theorem is used below is the one the runs refine.       *)
LEMMA SameLedger ==
  /\ L!Init <=> Ledger!Init
  /\ [L!Next]_(L!vars) <=> [Ledger!Next]_(Ledger!vars)
  /\ L!Conservation <=> MoneyConserved
<1>1. L!Init <=> Ledger!Init
  BY DEF L!Init, L!Payments, L!Accounts, Ledger!Init, Ledger!Payments, Ledger!Accounts
<1>2. [L!Next]_(L!vars) <=> [Ledger!Next]_(Ledger!vars)
  BY DEF L!Next, L!vars, L!Payments, L!Accept, L!Debit, L!Credit, L!Confirm,
         L!Advance, L!Post, Ledger!Next, Ledger!vars, Ledger!Payments, Ledger!Accept,
         Ledger!Debit, Ledger!Credit, Ledger!Confirm, Ledger!Advance, Ledger!Post
<1>3. L!Conservation <=> MoneyConserved
  BY DEF MoneyConserved, L!Conservation, L!InTransit, L!Payments, L!SumTo, L!PrefixSums,
         Ledger!Conservation, Ledger!InTransit, Ledger!Payments, Ledger!SumTo,
         Ledger!PrefixSums
<1> QED
  BY <1>1, <1>2, <1>3

(* The three processors implement the ledger: in every behaviour each       *)
(* payment is debited, credited and confirmed at most once each, in that    *)
(* order, and the balances change in no other way.                          *)
THEOREM PipelineImplementsLedger == Spec => ImplementsLedger
<1>1. Init => L!Init
  BY DEF Init, L!Init, L!Accounts, L!Payments, Accounts, Payments, StageOf, Holds
<1>2. PipelineInv /\ PipelineInv' /\ [Next]_vars => [L!Next]_(L!vars)
  <2> SUFFICES ASSUME PipelineInv, PipelineInv', [Next]_vars PROVE [L!Next]_(L!vars)
    OBVIOUS
  <2>1. CASE UNCHANGED vars \/ PauseProcessing \/ StartProcessing
    <3>1. UNCHANGED <<incoming, inflight, complete, confirmed, balance>>
      BY <2>1 DEF vars, topics, accountVars, PauseProcessing, StartProcessing
    <3> QED
      BY <3>1, QuietStep DEF SameHoldings
  <2>2. ASSUME NEW p \in Payments, GeneratePayment(p) PROVE L!Next
    BY <2>2, AcceptStep DEF L!Next, L!Payments, Payments
  <2>3. CASE InFlightThread
    <3>1. CASE HandleInFlight
      BY <3>1, InFlightImplements, QuietStep
    <3>2. CASE ~ HandleInFlight
      <4>1. UNCHANGED <<incoming, inflight, complete, confirmed, balance>>
        BY <2>3, <3>2 DEF InFlightThread, PollInFlight, AggregateInflight, topics, accountVars
      <4> QED
        BY <4>1, QuietStep DEF SameHoldings
    <3> QED
      BY <3>1, <3>2
  <2>4. CASE AccountThread
    BY <2>4, AccountImplements DEF AccountThread, L!Next, L!Payments, Payments
  <2>5. CASE ConfirmedThread
    <3>1. ASSUME NEW q \in Partitions, HandleComplete(q) PROVE L!Next
      BY <3>1, ConfirmImplements DEF L!Next, L!Payments, Payments
    <3>2. ASSUME NEW g \in Groups, AggregateConfirmed(g) PROVE UNCHANGED L!vars
      <4>1. UNCHANGED <<incoming, inflight, complete, confirmed, balance>>
        BY <3>2 DEF AggregateConfirmed, topics, accountVars
      <4> QED
        BY <4>1, QuietStep DEF SameHoldings
    <3> QED
      BY <2>5, <3>1, <3>2 DEF ConfirmedThread
  <2> QED
    BY <2>1, <2>2, <2>3, <2>4, <2>5 DEF Next
<1>3. Spec => L!Spec
  BY <1>1, <1>2, PipelineInvariant, PTL DEF Spec, L!Spec
<1> QED
  BY <1>3, SameLedger, PTL DEF ImplementsLedger, Ledger!Spec, L!Spec

(* The pipeline inherits conservation from the ledger: what the accounts    *)
(* hold and what is between two accounts adds up to nothing in every state. *)
THEOREM PipelineConservesMoney == Spec => []MoneyConserved
<1>1. L!LedgerAssumption
  BY PipelineAssumption DEF PipelineAssumption, L!LedgerAssumption, L!Accounts,
     L!Payments, Accounts, Payments
<1>2. L!Spec => []L!Conservation
  BY <1>1, L!LedgerConserves
<1> QED
  BY <1>2, PipelineImplementsLedger, SameLedger, PTL
     DEF ImplementsLedger, Ledger!Spec, L!Spec

-----------------------------------------------------------------------------
(* Pausing *)

(* What the protocol sees of the thread.                                    *)
PlaceInPause == IF gate = Idle THEN "outside" ELSE gate.at

(* A thread is at the place of its gate.                                    *)
LEMMA GatePlace ==
  ASSUME TypeOK
  PROVE  /\ PlaceInPause = "outside" <=> gate = Idle
         /\ \A at \in {"waiting", "passed"} : PlaceInPause = at <=> gate.at = at
BY DEF TypeOK, PlaceInPause, Idle

(* The thread of PaymentsInFlight calls pauseMaybe before each record, and  *)
(* whatever its siblings do it is held and released as the pause protocol   *)
(* says: one that has passed handles its record even if it is paused now.   *)
THEOREM PipelineKeepsPauseProtocol == Spec => KeepsPauseProtocol
<1> DEFINE places == [w \in {"PaymentsInFlight"} |-> PlaceInPause]
<1>1. Init => Pausing!Init
  BY DEF Init, Pausing!Init, Idle
<1>2. PipelineInv /\ [Next]_vars => [Pausing!Next]_Pausing!protocolVars
  <2> SUFFICES ASSUME PipelineInv, [Next]_vars
               PROVE  [Pausing!Next]_<<paused, places>>
    BY DEF Pausing!protocolVars, PlaceInPause
  <2>t. TypeOK
    BY DEF PipelineInv
  <2>s. UNCHANGED <<paused, gate>> => UNCHANGED <<paused, places>>
    BY DEF PlaceInPause
  <2>1. ASSUME NEW source \in {"incoming", "complete"}, NEW q \in Partitions,
               PollInFlight(source, q)
        PROVE  Pausing!Arrive("PaymentsInFlight")
    <3>1. /\ gate = Idle /\ UNCHANGED paused
          /\ gate' = [at |-> IF paused THEN "waiting" ELSE "passed",
                      source |-> source, partition |-> q]
      BY <2>1 DEF PollInFlight
    <3>2. PlaceInPause = "outside" /\ PlaceInPause' = IF paused THEN "waiting" ELSE "passed"
      BY <3>1 DEF PlaceInPause, Idle
    <3> QED
      BY <3>1, <3>2 DEF Pausing!Arrive, PlaceInPause
  <2>2. ASSUME HandleInFlight PROVE Pausing!Return("PaymentsInFlight")
    <3>1. gate.at = "passed" /\ gate' = Idle /\ UNCHANGED paused
      BY <2>2 DEF HandleInFlight
    <3>2. PlaceInPause = "passed" /\ PlaceInPause' = "outside"
      BY <2>t, <3>1, GatePlace DEF PlaceInPause
    <3> QED
      BY <3>1, <3>2 DEF Pausing!Return, PlaceInPause
  <2>3. ASSUME PauseProcessing PROVE Pausing!Pause
    BY <2>3 DEF PauseProcessing, inflightVars, Pausing!Pause
  <2>4. ASSUME StartProcessing PROVE Pausing!Resume
    <3>1. /\ paused' = FALSE
          /\ gate' = IF gate.at = "waiting" THEN [gate EXCEPT !.at = "passed"] ELSE gate
      BY <2>4 DEF StartProcessing
    <3>2. PlaceInPause' = IF PlaceInPause = "waiting" THEN "passed" ELSE PlaceInPause
      BY <2>t, <3>1, GatePlace DEF PlaceInPause, TypeOK, Idle
    <3> QED
      BY <3>1, <3>2 DEF Pausing!Resume, PlaceInPause
  <2>5. ASSUME NEW p \in Payments, GeneratePayment(p) PROVE UNCHANGED <<paused, gate>>
    BY <2>5 DEF GeneratePayment, inflightVars
  <2>6. ASSUME NEW g \in Groups, AggregateInflight(g) PROVE UNCHANGED <<paused, gate>>
    BY <2>6 DEF AggregateInflight
  <2>7. ASSUME AccountThread PROVE UNCHANGED <<paused, gate>>
    BY <2>7 DEF AccountThread, HandleAccount, inflightVars
  <2>8. ASSUME ConfirmedThread PROVE UNCHANGED <<paused, gate>>
    BY <2>8 DEF ConfirmedThread, HandleComplete, AggregateConfirmed, inflightVars
  <2>9. ASSUME UNCHANGED vars PROVE UNCHANGED <<paused, gate>>
    BY <2>9 DEF vars, inflightVars
  <2> QED
    BY <2>s, <2>1, <2>2, <2>3, <2>4, <2>5, <2>6, <2>7, <2>8, <2>9
       DEF Next, InFlightThread, Pausing!Next
<1> QED
  BY <1>1, <1>2, PipelineInvariant, PTL DEF Spec, KeepsPauseProtocol, Pausing!Spec

-----------------------------------------------------------------------------
(* The books.  A payment that has been read for the statistics waits in an  *)
(* internal topic until its group counts it: each statistic is the weight   *)
(* of the payments read less the weight of those that still wait.           *)

(* A payment waits in an internal topic in a state.                         *)
Queued(groups, p, s) ==
  \E g \in Groups : \E i \in 1 .. Len(groups[g]) :
    groups[g][i].txn = p /\ groups[g][i].state = s

(* No payment waits twice in the same state.                                *)
QueuedOnce(groups) ==
  \A g, h \in Groups :
    \A i \in 1 .. Len(groups[g]), j \in 1 .. Len(groups[h]) :
      /\ groups[g][i].txn = groups[h][j].txn
      /\ groups[g][i].state = groups[h][j].state
      => g = h /\ i = j

(* Every payment that waits is in a state of S.                             *)
OnlyQueued(groups, S) ==
  \A g \in Groups : \A i \in 1 .. Len(groups[g]) : groups[g][i].state \in S

(* What waits has been read, and is in a state the statistics count.        *)
QueuesOK ==
  /\ QueuedOnce(inflightGroups) /\ OnlyQueued(inflightGroups, {"incoming", "complete"})
  /\ QueuedOnce(confirmedGroups) /\ OnlyQueued(confirmedGroups, {"confirmed"})
  /\ \A p \in Payments :
       /\ Queued(inflightGroups, p, "incoming")
            => HasRead(incoming, inflightIn, p, "incoming")
       /\ Queued(inflightGroups, p, "complete")
            => HasRead(complete, inflightComplete, p, "complete")
       /\ Queued(confirmedGroups, p, "confirmed")
            => HasRead(complete, confirmedPos, p, "complete")

(* The payments that the statistics have counted in, counted out and        *)
(* counted as confirmed, and those the accounts have posted.                *)
CountedIn ==
  {p \in Payments : /\ HasRead(incoming, inflightIn, p, "incoming")
                    /\ ~ Queued(inflightGroups, p, "incoming")}
CountedOut ==
  {p \in Payments : /\ HasRead(complete, inflightComplete, p, "complete")
                    /\ ~ Queued(inflightGroups, p, "complete")}
CountedConfirmed ==
  {p \in Payments : /\ HasRead(complete, confirmedPos, p, "complete")
                    /\ ~ Queued(confirmedGroups, p, "confirmed")}
Debited  == {p \in Payments : HasRead(inflight, accountPos, p, "debit")}
Credited == {p \in Payments : HasRead(inflight, accountPos, p, "credit")}

(* The sum of the payments in S, each with its weight.                      *)
Weigh(weight, S) == SumTo([p \in Payments |-> IF p \in S THEN weight[p] ELSE 0], NumPayments)

One == [p \in Payments |-> 1]

StatsAddUp ==
  /\ CountTotal(inflightStats) = Weigh(One, CountedIn) - Weigh(One, CountedOut)
  /\ AmountTotal(inflightStats) = Weigh(Amount, CountedIn) - Weigh(Amount, CountedOut)
  /\ CountTotal(confirmedStats) = Weigh(One, CountedConfirmed)
  /\ AmountTotal(confirmedStats) = Weigh(Amount, CountedConfirmed)

Paid(a)  == {p \in Debited : From[p] = a}
Got(a)   == {p \in Credited : To[p] = a}

BalancesAddUp == \A a \in Accounts : balance[a] = Weigh(Amount, Got(a)) - Weigh(Amount, Paid(a))

(* Each statistic accounts for the payments its group has counted, each     *)
(* balance for the postings to its account.                                 *)
BooksInv == QueuesOK /\ StatsAddUp /\ BalancesAddUp

-----------------------------------------------------------------------------
(* Queues *)

(* A record that joins a queue waits there, behind the others.              *)
LEMMA RegroupQueues ==
  ASSUME NEW groups \in [Groups -> Seq(Payment)], NEW v \in Payment
  PROVE  /\ \A p, s : Queued(Regroup(groups, v), p, s)
                        <=> Queued(groups, p, s) \/ (p = v.txn /\ s = v.state)
         /\ QueuedOnce(groups) /\ ~ Queued(groups, v.txn, v.state)
              => QueuedOnce(Regroup(groups, v))
         /\ \A S : OnlyQueued(groups, S) /\ v.state \in S => OnlyQueued(Regroup(groups, v), S)
<1> DEFINE k == GroupOf[v.id]
           new == Regroup(groups, v)
           n == Len(groups[k]) + 1
<1>1. k \in Groups
  BY PipelineAssumption DEF PipelineAssumption, Payment
<1>2. groups[k] \in Seq(Payment) /\ Len(groups[k]) \in Nat
  BY <1>1
<1>3. /\ Len(new[k]) = n /\ new[k][n] = v
      /\ \A i \in 1 .. Len(groups[k]) : new[k][i] = groups[k][i]
      /\ \A g \in Groups : g # k => new[g] = groups[g]
  <2>1. new = [groups EXCEPT ![k] = Append(groups[k], v)]
    BY DEF Regroup
  <2>2. new[k] = Append(groups[k], v)
    BY <1>1, <2>1
  <2> HIDE DEF k
  <2>3. /\ Len(Append(groups[k], v)) = Len(groups[k]) + 1
        /\ Append(groups[k], v)[Len(groups[k]) + 1] = v
        /\ \A i \in 1 .. Len(groups[k]) : Append(groups[k], v)[i] = groups[k][i]
    BY <1>2
  <2>4. \A g \in Groups : g # k => new[g] = groups[g]
    BY <1>1, <2>1
  <2> HIDE DEF new
  <2> QED
    BY <2>2, <2>3, <2>4
<1> HIDE DEF k, new
<1>4. ASSUME NEW g \in Groups, NEW i \in 1 .. Len(new[g])
      PROVE  \/ g = k /\ i = n /\ new[g][i] = v
             \/ i \in 1 .. Len(groups[g]) /\ new[g][i] = groups[g][i]
  BY <1>2, <1>3
<1>5. \A g \in Groups : \A i \in 1 .. Len(groups[g]) :
        i \in 1 .. Len(new[g]) /\ new[g][i] = groups[g][i]
  BY <1>2, <1>3
<1>6. n \in 1 .. Len(new[k]) /\ new[k][n] = v
  BY <1>2, <1>3
<1> HIDE DEF n
<1>7. ASSUME NEW p, NEW s
      PROVE  Queued(new, p, s) <=> Queued(groups, p, s) \/ (p = v.txn /\ s = v.state)
  <2>1. ASSUME Queued(groups, p, s) PROVE Queued(new, p, s)
    BY <1>5, <2>1 DEF Queued
  <2>2. ASSUME p = v.txn, s = v.state PROVE Queued(new, p, s)
    BY <1>1, <1>6, <2>2 DEF Queued
  <2>3. ASSUME Queued(new, p, s), ~ (p = v.txn /\ s = v.state) PROVE Queued(groups, p, s)
    BY <1>4, <2>3 DEF Queued
  <2> QED
    BY <2>1, <2>2, <2>3
<1>8. ASSUME QueuedOnce(groups), ~ Queued(groups, v.txn, v.state)
      PROVE  QueuedOnce(new)
  <2> SUFFICES ASSUME NEW g \in Groups, NEW h \in Groups,
                      NEW i \in 1 .. Len(new[g]), NEW j \in 1 .. Len(new[h]),
                      new[g][i].txn = new[h][j].txn, new[g][i].state = new[h][j].state
               PROVE  g = h /\ i = j
    BY DEF QueuedOnce
  <2>1. CASE new[g][i].txn = v.txn /\ new[g][i].state = v.state
    <3>1. /\ ~ (i \in 1 .. Len(groups[g]) /\ new[g][i] = groups[g][i])
          /\ ~ (j \in 1 .. Len(groups[h]) /\ new[h][j] = groups[h][j])
      BY <1>8, <2>1 DEF Queued
    <3> QED
      BY <1>4, <3>1
  <2>2. CASE ~ (new[g][i].txn = v.txn /\ new[g][i].state = v.state)
    <3>1. /\ i \in 1 .. Len(groups[g]) /\ new[g][i] = groups[g][i]
          /\ j \in 1 .. Len(groups[h]) /\ new[h][j] = groups[h][j]
      BY <1>4, <2>2
    <3>2. /\ groups[g][i].txn = groups[h][j].txn
          /\ groups[g][i].state = groups[h][j].state
      BY <3>1
    <3> QED
      BY <1>8, <3>1, <3>2 DEF QueuedOnce
  <2> QED
    BY <2>1, <2>2
<1>9. ASSUME NEW S, OnlyQueued(groups, S), v.state \in S PROVE OnlyQueued(new, S)
  BY <1>4, <1>9 DEF OnlyQueued
<1> QED
  BY <1>7, <1>8, <1>9 DEF new

(* The head of a queue leaves it, and waits nowhere else.                   *)
LEMMA DequeueTakes ==
  ASSUME NEW groups \in [Groups -> Seq(Payment)], NEW g \in Groups, groups[g] # << >>,
         QueuedOnce(groups)
  PROVE  LET v == Head(groups[g])
             new == [groups EXCEPT ![g] = Tail(groups[g])]
         IN  /\ v \in Payment
             /\ Queued(groups, v.txn, v.state)
             /\ \A p, s : Queued(new, p, s)
                            <=> Queued(groups, p, s) /\ ~ (p = v.txn /\ s = v.state)
             /\ QueuedOnce(new)
             /\ \A S : OnlyQueued(groups, S) => v.state \in S /\ OnlyQueued(new, S)
<1> DEFINE q == groups[g]
           v == Head(q)
           new == [groups EXCEPT ![g] = Tail(q)]
<1>1. q \in Seq(Payment) /\ Len(q) \in Nat /\ Len(q) >= 1
  <2>1. q \in Seq(Payment) /\ q # << >>
    OBVIOUS
  <2> HIDE DEF q
  <2> QED
    BY <2>1
<1>2. v = q[1] /\ Len(Tail(q)) = Len(q) - 1 /\ \A i \in 1 .. Len(q) - 1 : Tail(q)[i] = q[i + 1]
  <2> HIDE DEF q
  <2> QED
    BY <1>1
<1>3. new[g] = Tail(q) /\ \A h \in Groups : h # g => new[h] = groups[h]
  OBVIOUS
<1>4. 1 \in 1 .. Len(groups[g]) /\ groups[g][1] = v
  BY <1>1, <1>2
<1>5. v \in Payment
  BY <1>1, <1>2
<1>6. ASSUME NEW h \in Groups, NEW i \in 1 .. Len(new[h])
      PROVE  \E j \in 1 .. Len(groups[h]) :
               /\ new[h][i] = groups[h][j] /\ ~ (h = g /\ j = 1)
               /\ j = IF h = g THEN i + 1 ELSE i
  <2>1. CASE h = g
    <3>1. i + 1 \in 1 .. Len(groups[g]) /\ new[g][i] = groups[g][i + 1] /\ i + 1 # 1
      BY <1>1, <1>2, <1>3, <2>1
    <3> QED
      BY <2>1, <3>1
  <2>2. CASE h # g
    BY <1>3, <2>2
  <2> QED
    BY <2>1, <2>2
<1>7. ASSUME NEW h \in Groups, NEW j \in 1 .. Len(groups[h]), ~ (h = g /\ j = 1)
      PROVE  \E i \in 1 .. Len(new[h]) : new[h][i] = groups[h][j]
  <2>1. CASE h = g
    <3>1. j - 1 \in 1 .. Len(new[g]) /\ new[g][j - 1] = groups[g][j]
      BY <1>1, <1>2, <1>3, <1>7, <2>1
    <3> QED
      BY <2>1, <3>1
  <2>2. CASE h # g
    BY <1>3, <2>2
  <2> QED
    BY <2>1, <2>2
<1>8. ASSUME NEW h \in Groups, NEW j \in 1 .. Len(groups[h]),
             groups[h][j].txn = v.txn, groups[h][j].state = v.state
      PROVE  h = g /\ j = 1
  BY <1>4, <1>8 DEF QueuedOnce
<1> HIDE DEF q, v, new
<1>9. Queued(groups, v.txn, v.state)
  BY <1>4 DEF Queued
<1>10. ASSUME NEW p, NEW s
       PROVE  Queued(new, p, s) <=> Queued(groups, p, s) /\ ~ (p = v.txn /\ s = v.state)
  <2>1. ASSUME Queued(new, p, s)
        PROVE  Queued(groups, p, s) /\ ~ (p = v.txn /\ s = v.state)
    <3>1. PICK h \in Groups : \E i \in 1 .. Len(new[h]) :
                 new[h][i].txn = p /\ new[h][i].state = s
      BY <2>1 DEF Queued
    <3>2. PICK i \in 1 .. Len(new[h]) : new[h][i].txn = p /\ new[h][i].state = s
      BY <3>1
    <3>3. PICK j \in 1 .. Len(groups[h]) :
                 new[h][i] = groups[h][j] /\ ~ (h = g /\ j = 1)
      BY <1>6
    <3>4. groups[h][j].txn = p /\ groups[h][j].state = s
      BY <3>2, <3>3
    <3> QED
      BY <1>8, <3>3, <3>4 DEF Queued
  <2>2. ASSUME Queued(groups, p, s), ~ (p = v.txn /\ s = v.state) PROVE Queued(new, p, s)
    <3>1. PICK h \in Groups : \E j \in 1 .. Len(groups[h]) :
                 groups[h][j].txn = p /\ groups[h][j].state = s
      BY <2>2 DEF Queued
    <3>2. PICK j \in 1 .. Len(groups[h]) : groups[h][j].txn = p /\ groups[h][j].state = s
      BY <3>1
    <3>3. ~ (h = g /\ j = 1)
      BY <1>4, <2>2, <3>2
    <3>4. PICK i \in 1 .. Len(new[h]) : new[h][i] = groups[h][j]
      BY <1>7, <3>3
    <3> QED
      BY <3>2, <3>4 DEF Queued
  <2> QED
    BY <2>1, <2>2
<1>11. QueuedOnce(new)
  <2>1. ASSUME NEW h \in Groups, NEW k \in Groups,
               NEW i \in 1 .. Len(new[h]), NEW j \in 1 .. Len(new[k]),
               new[h][i].txn = new[k][j].txn, new[h][i].state = new[k][j].state
        PROVE  h = k /\ i = j
    <3>1. PICK a \in 1 .. Len(groups[h]) :
                 new[h][i] = groups[h][a] /\ a = IF h = g THEN i + 1 ELSE i
      BY <1>6
    <3>2. PICK b \in 1 .. Len(groups[k]) :
                 new[k][j] = groups[k][b] /\ b = IF k = g THEN j + 1 ELSE j
      BY <1>6
    <3>3. /\ groups[h][a].txn = groups[k][b].txn
          /\ groups[h][a].state = groups[k][b].state
      BY <2>1, <3>1, <3>2
    <3>4. h = k /\ a = b
      BY <3>3 DEF QueuedOnce
    <3> QED
      BY <3>1, <3>2, <3>4
  <2> QED
    BY ONLY <2>1 DEF QueuedOnce
<1>12. ASSUME NEW S, OnlyQueued(groups, S) PROVE v.state \in S /\ OnlyQueued(new, S)
  <2>1. v.state \in S
    BY <1>4, <1>12 DEF OnlyQueued
  <2>2. OnlyQueued(new, S)
    BY <1>6, <1>12 DEF OnlyQueued
  <2> QED
    BY <2>1, <2>2
<1> QED
  BY <1>5, <1>9, <1>10, <1>11, <1>12 DEF v, new, q

-----------------------------------------------------------------------------
(* Sums *)

(* The lemmas about sums hold here.                                         *)
LEMMA SumsHere ==
  /\ L!LedgerAssumption
  /\ \A f, n : L!SumTo(f, n) = SumTo(f, n)
<1>1. L!LedgerAssumption
  BY PipelineAssumption DEF PipelineAssumption, L!LedgerAssumption, L!Accounts,
     L!Payments, Accounts, Payments
<1>2. \A f, n : L!SumTo(f, n) = SumTo(f, n)
  BY DEF L!SumTo, L!PrefixSums, SumTo, PrefixSums
<1> QED
  BY <1>1, <1>2

(* The totals of the statistics are integers.                               *)
LEMMA TotalType ==
  ASSUME NEW stats \in [Groups -> [count : Int, amount : Int]]
  PROVE  CountTotal(stats) \in Int /\ AmountTotal(stats) \in Int
<1> DEFINE c == [g \in Groups |-> stats[g].count]
           a == [g \in Groups |-> stats[g].amount]
<1>1. NumGroups \in Nat /\ NumGroups \in 0 .. NumGroups
  BY PipelineAssumption DEF PipelineAssumption
<1>2. c \in [1 .. NumGroups -> Int] /\ a \in [1 .. NumGroups -> Int]
  BY DEF Groups
<1> HIDE DEF c, a
<1>3. SumTo(c, NumGroups) \in Int /\ SumTo(a, NumGroups) \in Int
  BY <1>1, <1>2, SumsHere, L!SumToType
<1> QED
  BY <1>3 DEF c, a, CountTotal, AmountTotal

(* What is added to the statistics of a group is added to the totals.       *)
LEMMA TotalAdds ==
  ASSUME NEW stats \in [Groups -> [count : Int, amount : Int]],
         NEW new \in [Groups -> [count : Int, amount : Int]],
         NEW g \in Groups, NEW d \in Int, NEW e \in Int,
         new[g].count = stats[g].count + d, new[g].amount = stats[g].amount + e,
         \A h \in Groups : h # g => new[h] = stats[h]
  PROVE  /\ CountTotal(new) = CountTotal(stats) + d
         /\ AmountTotal(new) = AmountTotal(stats) + e
<1> DEFINE C(s) == [h \in Groups |-> s[h].count]
           A(s) == [h \in Groups |-> s[h].amount]
<1>1. NumGroups \in Nat /\ g \in 1 .. NumGroups
  BY PipelineAssumption DEF PipelineAssumption, Groups
<1>2. /\ C(stats) \in [1 .. NumGroups -> Int] /\ C(new) \in [1 .. NumGroups -> Int]
      /\ A(stats) \in [1 .. NumGroups -> Int] /\ A(new) \in [1 .. NumGroups -> Int]
  BY DEF Groups
<1>3. /\ C(new)[g] = C(stats)[g] + d /\ A(new)[g] = A(stats)[g] + e
      /\ \A h \in 1 .. NumGroups : h # g => C(new)[h] = C(stats)[h] /\ A(new)[h] = A(stats)[h]
  BY DEF Groups
<1> HIDE DEF C, A
<1>4. SumTo(C(new), NumGroups) = SumTo(C(stats), NumGroups) + d
  BY ONLY <1>1, <1>2, <1>3, d \in Int, SumsHere, L!SumToUpdate
<1>5. SumTo(A(new), NumGroups) = SumTo(A(stats), NumGroups) + e
  BY ONLY <1>1, <1>2, <1>3, e \in Int, SumsHere, L!SumToUpdate
<1> QED
  BY <1>4, <1>5 DEF C, A, CountTotal, AmountTotal

(* The weights: each payment counts once, or with its amount.               *)
LEMMA Weights == One \in [Payments -> Int] /\ Amount \in [Payments -> Int]
  BY PipelineAssumption DEF PipelineAssumption, One

(* What a set of payments weighs is an integer.                             *)
LEMMA WeighType ==
  ASSUME NEW w \in [Payments -> Int], NEW S
  PROVE  Weigh(w, S) \in Int
<1> DEFINE f == [p \in Payments |-> IF p \in S THEN w[p] ELSE 0]
<1>1. NumPayments \in Nat /\ NumPayments \in 0 .. NumPayments
  BY PipelineAssumption DEF PipelineAssumption
<1>2. f \in [1 .. NumPayments -> Int]
  BY DEF Payments
<1> HIDE DEF f
<1>3. SumTo(f, NumPayments) \in Int
  BY <1>1, <1>2, SumsHere, L!SumToType
<1> QED
  BY <1>3 DEF f, Weigh

(* One payment more weighs as much more.                                    *)
LEMMA WeighMore ==
  ASSUME NEW w \in [Payments -> Int], NEW p \in Payments, NEW S, NEW T,
         p \notin S, p \in T, \A r \in Payments : r # p => (r \in T <=> r \in S)
  PROVE  Weigh(w, T) = Weigh(w, S) + w[p]
<1> DEFINE F(X) == [r \in Payments |-> IF r \in X THEN w[r] ELSE 0]
<1>1. NumPayments \in Nat /\ p \in 1 .. NumPayments /\ w[p] \in Int
  BY PipelineAssumption DEF PipelineAssumption, Payments
<1>2. F(S) \in [1 .. NumPayments -> Int] /\ F(T) \in [1 .. NumPayments -> Int]
  BY DEF Payments
<1>3. /\ F(T)[p] = F(S)[p] + w[p]
      /\ \A r \in 1 .. NumPayments : r # p => F(T)[r] = F(S)[r]
  BY <1>1 DEF Payments
<1> HIDE DEF F
<1>4. SumTo(F(T), NumPayments) = SumTo(F(S), NumPayments) + w[p]
  BY ONLY <1>1, <1>2, <1>3, SumsHere, L!SumToUpdate
<1> QED
  BY <1>4 DEF F, Weigh

(* Nothing weighs nothing.                                                  *)
LEMMA WeighNothing ==
  ASSUME NEW w \in [Payments -> Int]
  PROVE  Weigh(w, {}) = 0
<1> DEFINE f == [p \in Payments |-> IF p \in {} THEN w[p] ELSE 0]
<1>1. NumPayments \in Nat /\ \A k \in 1 .. NumPayments : f[k] = 0
  BY PipelineAssumption DEF PipelineAssumption, Payments
<1> HIDE DEF f
<1>2. SumTo(f, NumPayments) = 0
  BY <1>1, SumsHere, L!SumToZero
<1> QED
  BY <1>2 DEF f, Weigh

(* The books are empty at the start, and so are the topics.                 *)
LEMMA BooksInit == Init => BooksInv
<1> SUFFICES ASSUME Init PROVE BooksInv
  OBVIOUS
<1>1. /\ \A p, s : /\ ~ Queued(inflightGroups, p, s) /\ ~ Queued(confirmedGroups, p, s)
                   /\ ~ HasRead(incoming, inflightIn, p, s)
                   /\ ~ HasRead(complete, inflightComplete, p, s)
                   /\ ~ HasRead(complete, confirmedPos, p, s)
                   /\ ~ HasRead(inflight, accountPos, p, s)
  BY DEF Init, Queued, HasRead
<1>2. QueuesOK
  <2>1. /\ QueuedOnce(inflightGroups) /\ QueuedOnce(confirmedGroups)
        /\ OnlyQueued(inflightGroups, {"incoming", "complete"})
        /\ OnlyQueued(confirmedGroups, {"confirmed"})
    BY DEF Init, QueuedOnce, OnlyQueued
  <2> QED
    BY <1>1, <2>1 DEF QueuesOK
<1>3. CountedIn = {} /\ CountedOut = {} /\ CountedConfirmed = {} /\ Debited = {} /\ Credited = {}
  BY <1>1 DEF CountedIn, CountedOut, CountedConfirmed, Debited, Credited
<1>4. Weigh(One, {}) = 0 /\ Weigh(Amount, {}) = 0
  BY Weights, WeighNothing
<1>5. /\ CountTotal(inflightStats) = 0 /\ AmountTotal(inflightStats) = 0
      /\ CountTotal(confirmedStats) = 0 /\ AmountTotal(confirmedStats) = 0
  <2> DEFINE z == [g \in Groups |-> 0]
  <2>1. /\ CountTotal(inflightStats) = SumTo(z, NumGroups)
        /\ AmountTotal(inflightStats) = SumTo(z, NumGroups)
        /\ CountTotal(confirmedStats) = SumTo(z, NumGroups)
        /\ AmountTotal(confirmedStats) = SumTo(z, NumGroups)
    <3>1. /\ [g \in Groups |-> inflightStats[g].count] = z
          /\ [g \in Groups |-> inflightStats[g].amount] = z
          /\ [g \in Groups |-> confirmedStats[g].count] = z
          /\ [g \in Groups |-> confirmedStats[g].amount] = z
      BY DEF Init, NoStats
    <3> QED
      BY <3>1 DEF CountTotal, AmountTotal
  <2>2. NumGroups \in Nat /\ \A k \in 1 .. NumGroups : z[k] = 0
    BY PipelineAssumption DEF PipelineAssumption, Groups
  <2> HIDE DEF z
  <2>3. SumTo(z, NumGroups) = 0
    BY <2>2, SumsHere, L!SumToZero
  <2> QED
    BY <2>1, <2>3
<1>6. StatsAddUp
  BY <1>3, <1>4, <1>5 DEF StatsAddUp
<1>7. BalancesAddUp
  <2>1. \A a \in Accounts : balance[a] = 0 /\ Paid(a) = {} /\ Got(a) = {}
    BY <1>3 DEF Init, Paid, Got
  <2> QED
    BY <1>4, <2>1 DEF BalancesAddUp
<1> QED
  BY <1>2, <1>6, <1>7 DEF BooksInv

-----------------------------------------------------------------------------
(* Each step keeps the books *)

(* No one has read more than before.                                        *)
SameReads ==
  \A p \in Payments :
    /\ HasRead(incoming, inflightIn, p, "incoming")'
         <=> HasRead(incoming, inflightIn, p, "incoming")
    /\ HasRead(complete, inflightComplete, p, "complete")'
         <=> HasRead(complete, inflightComplete, p, "complete")
    /\ HasRead(complete, confirmedPos, p, "complete")'
         <=> HasRead(complete, confirmedPos, p, "complete")
    /\ HasRead(inflight, accountPos, p, "debit")' <=> HasRead(inflight, accountPos, p, "debit")
    /\ HasRead(inflight, accountPos, p, "credit")' <=> HasRead(inflight, accountPos, p, "credit")

(* The books depend on the sets of payments, the statistics and the         *)
(* balances.                                                                *)
LEMMA SameSums ==
  ASSUME BooksInv, QueuesOK',
         CountedIn' = CountedIn, CountedOut' = CountedOut,
         CountedConfirmed' = CountedConfirmed, Debited' = Debited, Credited' = Credited,
         UNCHANGED << inflightStats, confirmedStats, balance >>
  PROVE  BooksInv'
<1>1. \A a \in Accounts : Paid(a)' = Paid(a) /\ Got(a)' = Got(a)
  BY DEF Paid, Got
<1>2. StatsAddUp'
  BY DEF BooksInv, StatsAddUp, CountTotal, AmountTotal, Weigh
<1>3. BalancesAddUp'
  BY <1>1 DEF BooksInv, BalancesAddUp, Weigh
<1> QED
  BY <1>2, <1>3 DEF BooksInv

(* Who has neither read nor queued anything keeps its books.                *)
LEMMA SameBooks ==
  ASSUME BooksInv, SameReads,
         UNCHANGED << inflightGroups, confirmedGroups, inflightStats, confirmedStats, balance >>
  PROVE  BooksInv'
<1>1. QueuesOK'
  BY DEF BooksInv, QueuesOK, SameReads, Queued, QueuedOnce, OnlyQueued
<1>2. /\ CountedIn' = CountedIn /\ CountedOut' = CountedOut
      /\ CountedConfirmed' = CountedConfirmed /\ Debited' = Debited /\ Credited' = Credited
  BY DEF SameReads, CountedIn, CountedOut, CountedConfirmed, Debited, Credited, Queued
<1> QED
  BY <1>1, <1>2, SameSums

(* A payment that is sent has been read by no one.                          *)
LEMMA GenerateBooks ==
  ASSUME PipelineInv, BooksInv, NEW p \in Payments, GeneratePayment(p)
  PROVE  BooksInv'
<1> DEFINE v == [txn |-> p, id |-> <<"generated", p>>, state |-> "incoming"]
<1>1. /\ v \in Payment /\ incoming' = Publish(incoming, v)
      /\ incoming \in Logs /\ inflightIn \in Positions /\ InLog(inflightIn, incoming)
      /\ UNCHANGED << inflight, complete, inflightVars, accountVars, confirmedVars >>
  BY DEF GeneratePayment, PipelineInv, TypeOK, PositionsOK, Payment, Keys, State
<1> HIDE DEF v
<1>2. \A r, s : HasRead(incoming', inflightIn, r, s) <=> HasRead(incoming, inflightIn, r, s)
  BY <1>1, PublishHasRead
<1>3. SameReads
  BY <1>1, <1>2 DEF SameReads, inflightVars, accountVars, confirmedVars
<1> QED
  BY <1>1, <1>3, SameBooks DEF inflightVars, accountVars, confirmedVars

(* A payment read for the statistics waits in its queue, and is counted     *)
(* neither before nor now.                                                  *)
LEMMA InFlightBooks ==
  ASSUME PipelineInv, BooksInv, HandleInFlight
  PROVE  BooksInv'
<1> DEFINE q == gate.partition
<1>1. /\ gate # Idle
      /\ q \in Partitions
      /\ gate.source \in {"incoming", "complete"}
  BY DEF HandleInFlight, PipelineInv, TypeOK, Idle
<1>2. UNCHANGED << incoming, complete, inflightStats, accountPos, balance,
                   confirmedPos, confirmedGroups, confirmedStats >>
  BY DEF HandleInFlight, accountVars, confirmedVars
<1>3. /\ incoming \in Logs /\ inflight \in Logs /\ complete \in Logs
      /\ inflightIn \in Positions /\ inflightComplete \in Positions /\ accountPos \in Positions
      /\ InLog(inflightIn, incoming) /\ InLog(inflightComplete, complete)
      /\ InLog(accountPos, inflight)
      /\ NoDuplicates(incoming) /\ NoDuplicates(complete)
      /\ inflightGroups \in [Groups -> Seq(Payment)]
  BY DEF PipelineInv, TypeOK, PositionsOK, OnceEach
<1> HIDE DEF q
<1>4. CASE gate.source = "incoming"
  <2> DEFINE v == NextOf(incoming, inflightIn, q)
             flipped == SetStateAndId(v, "debit")
  <2>1. HasNext(incoming, inflightIn, q)
    BY <1>1, <1>4 DEF PipelineInv, GateOK, q
  <2>2. v \in Payment /\ v.state = "incoming" /\ v.txn \in Payments
    <3>1. v \in IncomingRecords
      BY <1>1, <1>3, <2>1, NextIsContained DEF PipelineInv, ContentsOK
    <3> QED
      BY <3>1 DEF IncomingRecords, Payment
  <2>3. flipped \in Payment /\ flipped.state = "debit"
    <3>1. "debit" \in State
      BY DEF State
    <3> HIDE DEF v
    <3> QED
      BY <2>2, <3>1, SetStateAndIdType
  <2>4. /\ inflightGroups' = Regroup(inflightGroups, v)
        /\ inflight' = Publish(inflight, flipped)
        /\ inflightIn' = Consume(inflightIn, q)
        /\ inflightComplete' = inflightComplete
    <3>1. FlipIncoming(v) = flipped
      BY <2>2 DEF FlipIncoming
    <3> QED
      BY <1>4, <2>3, <3>1 DEF HandleInFlight, q
  <2>5. /\ \A p, s : HasRead(incoming, inflightIn', p, s)
                       <=> HasRead(incoming, inflightIn, p, s) \/ (p = v.txn /\ s = "incoming")
        /\ ~ HasRead(incoming, inflightIn, v.txn, "incoming")
    BY <1>1, <1>3, <2>1, <2>2, <2>4, ConsumeHasRead
  <2> HIDE DEF v, flipped
  <2>6. \A p, s : HasRead(inflight', accountPos, p, s) <=> HasRead(inflight, accountPos, p, s)
    BY <1>3, <2>3, <2>4, PublishHasRead
  <2>7. ~ Queued(inflightGroups, v.txn, "incoming")
    BY <2>2, <2>5 DEF BooksInv, QueuesOK
  <2>8. /\ \A p, s : Queued(inflightGroups', p, s)
                       <=> Queued(inflightGroups, p, s) \/ (p = v.txn /\ s = "incoming")
        /\ QueuedOnce(inflightGroups')
        /\ OnlyQueued(inflightGroups', {"incoming", "complete"})
    BY <1>3, <2>2, <2>4, <2>7, RegroupQueues DEF BooksInv, QueuesOK
  <2>9. QueuesOK'
    BY <1>2, <2>4, <2>5, <2>8 DEF BooksInv, QueuesOK
  <2>10. /\ CountedIn' = CountedIn /\ CountedOut' = CountedOut
         /\ CountedConfirmed' = CountedConfirmed /\ Debited' = Debited /\ Credited' = Credited
    BY <1>2, <2>4, <2>5, <2>6, <2>8
       DEF CountedIn, CountedOut, CountedConfirmed, Debited, Credited
  <2> QED
    BY <1>2, <2>9, <2>10, SameSums
<1>5. CASE gate.source = "complete"
  <2> DEFINE v == NextOf(complete, inflightComplete, q)
  <2>1. HasNext(complete, inflightComplete, q)
    BY <1>1, <1>5 DEF PipelineInv, GateOK, q
  <2>2. v \in Payment /\ v.state = "complete" /\ v.txn \in Payments
    <3>1. v \in CompleteRecords
      BY <1>1, <1>3, <2>1, NextIsContained DEF PipelineInv, ContentsOK
    <3> QED
      BY <3>1 DEF CompleteRecords, Payment
  <2>4. /\ inflightGroups' = Regroup(inflightGroups, v)
        /\ inflight' = inflight
        /\ inflightComplete' = Consume(inflightComplete, q)
        /\ inflightIn' = inflightIn
    <3>1. FlipIncoming(v) = v
      BY <2>2 DEF FlipIncoming
    <3> QED
      BY <1>5, <2>2, <3>1 DEF HandleInFlight, q
  <2>5. /\ \A p, s : HasRead(complete, inflightComplete', p, s)
                       <=> \/ HasRead(complete, inflightComplete, p, s)
                           \/ p = v.txn /\ s = "complete"
        /\ ~ HasRead(complete, inflightComplete, v.txn, "complete")
    BY <1>1, <1>3, <2>1, <2>2, <2>4, ConsumeHasRead
  <2> HIDE DEF v
  <2>7. ~ Queued(inflightGroups, v.txn, "complete")
    BY <2>2, <2>5 DEF BooksInv, QueuesOK
  <2>8. /\ \A p, s : Queued(inflightGroups', p, s)
                       <=> Queued(inflightGroups, p, s) \/ (p = v.txn /\ s = "complete")
        /\ QueuedOnce(inflightGroups')
        /\ OnlyQueued(inflightGroups', {"incoming", "complete"})
    BY <1>3, <2>2, <2>4, <2>7, RegroupQueues DEF BooksInv, QueuesOK
  <2>9. QueuesOK'
    BY <1>2, <2>4, <2>5, <2>8 DEF BooksInv, QueuesOK
  <2>10. /\ CountedIn' = CountedIn /\ CountedOut' = CountedOut
         /\ CountedConfirmed' = CountedConfirmed /\ Debited' = Debited /\ Credited' = Credited
    BY <1>2, <2>4, <2>5, <2>8
       DEF CountedIn, CountedOut, CountedConfirmed, Debited, Credited
  <2> QED
    BY <1>2, <2>9, <2>10, SameSums
<1> QED
  BY <1>1, <1>4, <1>5

(* A payment that leaves the queue of the statistics is counted.            *)
LEMMA AggregateInflightBooks ==
  ASSUME PipelineInv, BooksInv, NEW g \in Groups, AggregateInflight(g)
  PROVE  BooksInv'
<1> DEFINE v == Head(inflightGroups[g])
<1>1. /\ inflightGroups[g] # << >>
      /\ inflightGroups' = [inflightGroups EXCEPT ![g] = Tail(inflightGroups[g])]
      /\ inflightStats' = [inflightStats EXCEPT ![g] = UpdateInflight(inflightStats[g], v)]
      /\ UNCHANGED << incoming, inflight, complete, inflightIn, inflightComplete, accountPos,
                      balance, confirmedPos, confirmedGroups, confirmedStats >>
  BY DEF AggregateInflight, topics, accountVars, confirmedVars
<1>2. /\ inflightGroups \in [Groups -> Seq(Payment)]
      /\ inflightStats \in [Groups -> [count : Int, amount : Int]]
      /\ QueuedOnce(inflightGroups) /\ OnlyQueued(inflightGroups, {"incoming", "complete"})
  BY DEF PipelineInv, TypeOK, BooksInv, QueuesOK
<1>3. /\ v \in Payment
      /\ Queued(inflightGroups, v.txn, v.state)
      /\ \A p, s : Queued(inflightGroups', p, s)
                     <=> Queued(inflightGroups, p, s) /\ ~ (p = v.txn /\ s = v.state)
      /\ QueuedOnce(inflightGroups')
      /\ v.state \in {"incoming", "complete"}
      /\ OnlyQueued(inflightGroups', {"incoming", "complete"})
  BY <1>1, <1>2, DequeueTakes
<1> HIDE DEF v
<1>4. PICK p \in Payments : p = v.txn
  BY <1>3 DEF Payment
<1>5. QueuesOK'
  BY <1>1, <1>3 DEF BooksInv, QueuesOK
<1>6. /\ CountedConfirmed' = CountedConfirmed /\ Debited' = Debited /\ Credited' = Credited
      /\ \A a \in Accounts : Paid(a)' = Paid(a) /\ Got(a)' = Got(a)
  BY <1>1 DEF CountedConfirmed, Debited, Credited, Paid, Got
<1>7. BalancesAddUp'
  BY <1>1, <1>6 DEF BooksInv, BalancesAddUp, Weigh
<1>8. /\ CountTotal(confirmedStats)' = Weigh(One, CountedConfirmed)'
      /\ AmountTotal(confirmedStats)' = Weigh(Amount, CountedConfirmed)'
  BY <1>1, <1>6 DEF BooksInv, StatsAddUp, CountTotal, AmountTotal, Weigh
<1>9. /\ inflightStats[g] \in [count : Int, amount : Int]
      /\ Amount[p] \in Int /\ One[p] = 1
  BY <1>2, PipelineAssumption DEF PipelineAssumption, One
<1>10. /\ Weigh(One, CountedIn) \in Int /\ Weigh(Amount, CountedIn) \in Int
       /\ Weigh(One, CountedOut) \in Int /\ Weigh(Amount, CountedOut) \in Int
  BY Weights, WeighType
<1>11. /\ CountTotal(inflightStats) = Weigh(One, CountedIn) - Weigh(One, CountedOut)
       /\ AmountTotal(inflightStats) = Weigh(Amount, CountedIn) - Weigh(Amount, CountedOut)
  BY DEF BooksInv, StatsAddUp
<1>12. inflightStats'[g] = UpdateInflight(inflightStats[g], v)
       /\ \A h \in Groups : h # g => inflightStats'[h] = inflightStats[h]
  BY <1>1, <1>2
<1>13. CASE v.state = "incoming"
  <2>1. UpdateInflight(inflightStats[g], v) =
          [count |-> inflightStats[g].count + 1, amount |-> inflightStats[g].amount + Amount[p]]
    BY <1>4, <1>13 DEF UpdateInflight
  <2>2. inflightStats' \in [Groups -> [count : Int, amount : Int]]
    BY <1>1, <1>2, <1>9, <2>1
  <2>3. /\ CountTotal(inflightStats') = CountTotal(inflightStats) + 1
        /\ AmountTotal(inflightStats') = AmountTotal(inflightStats) + Amount[p]
    <3>1. /\ inflightStats'[g].count = inflightStats[g].count + 1
          /\ inflightStats'[g].amount = inflightStats[g].amount + Amount[p]
      BY <1>12, <2>1
    <3>2. 1 \in Int
      OBVIOUS
    <3> QED
      BY <1>2, <1>9, <1>12, <2>2, <3>1, <3>2, TotalAdds
  <2>4. /\ p \notin CountedIn /\ p \in CountedIn'
        /\ \A r \in Payments : r # p => (r \in CountedIn' <=> r \in CountedIn)
        /\ CountedOut' = CountedOut
    <3>1. HasRead(incoming, inflightIn, p, "incoming")
      BY <1>3, <1>4, <1>13 DEF BooksInv, QueuesOK
    <3> QED
      BY <1>1, <1>3, <1>4, <1>13, <3>1 DEF CountedIn, CountedOut
  <2>5. /\ Weigh(One, CountedIn') = Weigh(One, CountedIn) + 1
        /\ Weigh(Amount, CountedIn') = Weigh(Amount, CountedIn) + Amount[p]
    BY <1>9, <2>4, Weights, WeighMore
  <2>6. /\ CountTotal(inflightStats') = Weigh(One, CountedIn') - Weigh(One, CountedOut')
        /\ AmountTotal(inflightStats') = Weigh(Amount, CountedIn') - Weigh(Amount, CountedOut')
    BY <1>9, <1>10, <1>11, <2>3, <2>4, <2>5
  <2>7. StatsAddUp'
    BY <1>8, <2>6 DEF StatsAddUp, CountTotal, AmountTotal, Weigh
  <2> QED
    BY <1>5, <1>7, <2>7 DEF BooksInv
<1>14. CASE v.state = "complete"
  <2>1. UpdateInflight(inflightStats[g], v) =
          [count |-> inflightStats[g].count - 1, amount |-> inflightStats[g].amount - Amount[p]]
    BY <1>4, <1>14 DEF UpdateInflight
  <2>2. inflightStats' \in [Groups -> [count : Int, amount : Int]]
    BY <1>1, <1>2, <1>9, <2>1
  <2>3. /\ CountTotal(inflightStats') = CountTotal(inflightStats) + (-1)
        /\ AmountTotal(inflightStats') = AmountTotal(inflightStats) + (-Amount[p])
    <3>1. /\ inflightStats'[g].count = inflightStats[g].count + (-1)
          /\ inflightStats'[g].amount = inflightStats[g].amount + (-Amount[p])
      BY <1>9, <1>12, <2>1
    <3>2. -1 \in Int /\ -Amount[p] \in Int
      BY <1>9
    <3> QED
      BY <1>2, <1>12, <2>2, <3>1, <3>2, TotalAdds
  <2>4. /\ p \notin CountedOut /\ p \in CountedOut'
        /\ \A r \in Payments : r # p => (r \in CountedOut' <=> r \in CountedOut)
        /\ CountedIn' = CountedIn
    <3>1. HasRead(complete, inflightComplete, p, "complete")
      BY <1>3, <1>4, <1>14 DEF BooksInv, QueuesOK
    <3> QED
      BY <1>1, <1>3, <1>4, <1>14, <3>1 DEF CountedIn, CountedOut
  <2>5. /\ Weigh(One, CountedOut') = Weigh(One, CountedOut) + 1
        /\ Weigh(Amount, CountedOut') = Weigh(Amount, CountedOut) + Amount[p]
    BY <1>9, <2>4, Weights, WeighMore
  <2>6. /\ CountTotal(inflightStats') = Weigh(One, CountedIn') - Weigh(One, CountedOut')
        /\ AmountTotal(inflightStats') = Weigh(Amount, CountedIn') - Weigh(Amount, CountedOut')
    BY <1>9, <1>10, <1>11, <2>3, <2>4, <2>5
  <2>7. StatsAddUp'
    BY <1>8, <2>6 DEF StatsAddUp, CountTotal, AmountTotal, Weigh
  <2> QED
    BY <1>5, <1>7, <2>7 DEF BooksInv
<1> QED
  BY <1>3, <1>13, <1>14

(* A payment that leaves the queue of confirmed payments is counted.        *)
LEMMA AggregateConfirmedBooks ==
  ASSUME PipelineInv, BooksInv, NEW g \in Groups, AggregateConfirmed(g)
  PROVE  BooksInv'
<1> DEFINE v == Head(confirmedGroups[g])
<1>1. /\ confirmedGroups[g] # << >>
      /\ confirmedGroups' = [confirmedGroups EXCEPT ![g] = Tail(confirmedGroups[g])]
      /\ confirmedStats' = [confirmedStats EXCEPT ![g] = UpdateConfirmed(confirmedStats[g], v)]
      /\ UNCHANGED << incoming, inflight, complete, inflightIn, inflightComplete, accountPos,
                      balance, confirmedPos, inflightGroups, inflightStats >>
  BY DEF AggregateConfirmed, topics, accountVars, inflightVars
<1>2. /\ confirmedGroups \in [Groups -> Seq(Payment)]
      /\ confirmedStats \in [Groups -> [count : Int, amount : Int]]
      /\ QueuedOnce(confirmedGroups) /\ OnlyQueued(confirmedGroups, {"confirmed"})
  BY DEF PipelineInv, TypeOK, BooksInv, QueuesOK
<1>3. /\ v \in Payment
      /\ Queued(confirmedGroups, v.txn, v.state)
      /\ \A p, s : Queued(confirmedGroups', p, s)
                     <=> Queued(confirmedGroups, p, s) /\ ~ (p = v.txn /\ s = v.state)
      /\ QueuedOnce(confirmedGroups')
      /\ v.state = "confirmed"
      /\ OnlyQueued(confirmedGroups', {"confirmed"})
  BY <1>1, <1>2, DequeueTakes
<1> HIDE DEF v
<1>4. PICK p \in Payments : p = v.txn
  BY <1>3 DEF Payment
<1>5. QueuesOK'
  BY <1>1, <1>3 DEF BooksInv, QueuesOK
<1>6. /\ CountedIn' = CountedIn /\ CountedOut' = CountedOut
      /\ Debited' = Debited /\ Credited' = Credited
      /\ \A a \in Accounts : Paid(a)' = Paid(a) /\ Got(a)' = Got(a)
  BY <1>1 DEF CountedIn, CountedOut, Debited, Credited, Paid, Got
<1>7. BalancesAddUp'
  BY <1>1, <1>6 DEF BooksInv, BalancesAddUp, Weigh
<1>8. /\ CountTotal(inflightStats)' = Weigh(One, CountedIn)' - Weigh(One, CountedOut)'
      /\ AmountTotal(inflightStats)' = Weigh(Amount, CountedIn)' - Weigh(Amount, CountedOut)'
  BY <1>1, <1>6 DEF BooksInv, StatsAddUp, CountTotal, AmountTotal, Weigh
<1>9. /\ confirmedStats[g] \in [count : Int, amount : Int]
      /\ Amount[p] \in Int /\ One[p] = 1
  BY <1>2, PipelineAssumption DEF PipelineAssumption, One
<1>10. /\ confirmedStats'[g] = UpdateConfirmed(confirmedStats[g], v)
       /\ \A h \in Groups : h # g => confirmedStats'[h] = confirmedStats[h]
  BY <1>1, <1>2
<1>11. UpdateConfirmed(confirmedStats[g], v) =
         [count |-> confirmedStats[g].count + 1, amount |-> confirmedStats[g].amount + Amount[p]]
  BY <1>3, <1>4 DEF UpdateConfirmed
<1>12. confirmedStats' \in [Groups -> [count : Int, amount : Int]]
  BY <1>1, <1>2, <1>9, <1>11
<1>13. /\ CountTotal(confirmedStats') = CountTotal(confirmedStats) + 1
       /\ AmountTotal(confirmedStats') = AmountTotal(confirmedStats) + Amount[p]
  <2>1. /\ confirmedStats'[g].count = confirmedStats[g].count + 1
        /\ confirmedStats'[g].amount = confirmedStats[g].amount + Amount[p]
    BY <1>10, <1>11
  <2>2. 1 \in Int
    OBVIOUS
  <2> QED
    BY <1>2, <1>9, <1>10, <1>12, <2>1, <2>2, TotalAdds
<1>14. /\ p \notin CountedConfirmed /\ p \in CountedConfirmed'
       /\ \A r \in Payments : r # p => (r \in CountedConfirmed' <=> r \in CountedConfirmed)
  <2>1. HasRead(complete, confirmedPos, p, "complete")
    BY <1>3, <1>4 DEF BooksInv, QueuesOK
  <2> QED
    BY <1>1, <1>3, <1>4, <2>1 DEF CountedConfirmed
<1>15. /\ Weigh(One, CountedConfirmed') = Weigh(One, CountedConfirmed) + 1
       /\ Weigh(Amount, CountedConfirmed') = Weigh(Amount, CountedConfirmed) + Amount[p]
  BY <1>9, <1>14, Weights, WeighMore
<1>16. StatsAddUp'
  BY <1>8, <1>13, <1>15 DEF BooksInv, StatsAddUp, CountTotal, AmountTotal, Weigh
<1> QED
  BY <1>5, <1>7, <1>16 DEF BooksInv

(* A debit or a credit is posted to the account it names.                   *)
LEMMA AccountBooks ==
  ASSUME PipelineInv, BooksInv, NEW q \in Partitions, HandleAccount(q)
  PROVE  BooksInv'
<1> DEFINE v == NextOf(inflight, accountPos, q)
<1>1. /\ inflight \in Logs /\ complete \in Logs
      /\ inflightComplete \in Positions /\ accountPos \in Positions /\ confirmedPos \in Positions
      /\ InLog(accountPos, inflight) /\ NoDuplicates(inflight)
      /\ InLog(inflightComplete, complete) /\ InLog(confirmedPos, complete)
      /\ balance \in [Accounts -> Int]
  BY DEF PipelineInv, TypeOK, PositionsOK, OnceEach
<1>2. HasNext(inflight, accountPos, q)
  BY DEF HandleAccount
<1>3. PICK p \in Payments : p = v.txn
  BY <1>1, <1>2, NextIsContained DEF PipelineInv, ContentsOK, InflightRecords, Payment
<1>4. /\ v \in Payment
      /\ \/ v.state = "debit"  /\ v.id = <<"account", From[p]>>
         \/ v.state = "credit" /\ v.id = <<"account", To[p]>>
  BY <1>1, <1>2, <1>3, NextIsContained DEF PipelineInv, ContentsOK, InflightRecords
<1>5. /\ balance' = HandleBalance(balance, v)
      /\ inflight' = IF IsCreditRecord(FlipAccount(v))
                       THEN Publish(inflight, FlipAccount(v)) ELSE inflight
      /\ complete' = IF IsCompleteRecord(FlipAccount(v)) /\ ~ IsCreditRecord(FlipAccount(v))
                       THEN Publish(complete, FlipAccount(v)) ELSE complete
      /\ accountPos' = Consume(accountPos, q)
      /\ UNCHANGED << incoming, inflightIn, inflightComplete, inflightGroups, inflightStats,
                      confirmedPos, confirmedGroups, confirmedStats >>
  BY <1>4 DEF HandleAccount, inflightVars, confirmedVars
<1>6. /\ accountPos' \in Positions /\ InLog(accountPos', inflight)
      /\ \A r, s : HasRead(inflight, accountPos', r, s)
                     <=> HasRead(inflight, accountPos, r, s) \/ (r = p /\ s = v.state)
      /\ ~ HasRead(inflight, accountPos, p, v.state)
  BY <1>1, <1>2, <1>3, <1>5, ConsumeHasRead
<1> HIDE DEF v
<1>7. FlipAccount(v) \in Payment
  <2>1. "credit" \in State /\ "complete" \in State
    BY DEF State
  <2>2. FlipAccount(v) \in {SetStateAndId(v, "credit"), SetStateAndId(v, "complete")}
    BY <1>4 DEF FlipAccount
  <2> QED
    BY <1>4, <2>1, <2>2, SetStateAndIdType
<1>8. /\ \A r, s : HasRead(inflight', accountPos', r, s) <=> HasRead(inflight, accountPos', r, s)
      /\ \A r, s : /\ HasRead(complete', inflightComplete, r, s)
                        <=> HasRead(complete, inflightComplete, r, s)
                   /\ HasRead(complete', confirmedPos, r, s)
                        <=> HasRead(complete, confirmedPos, r, s)
  <2> DEFINE f == FlipAccount(v)
  <2>1. f \in Payment /\ inflight' \in {inflight, Publish(inflight, f)}
                      /\ complete' \in {complete, Publish(complete, f)}
    BY <1>5, <1>7
  <2> HIDE DEF f
  <2> QED
    BY <1>1, <1>6, <2>1, PublishHasRead
<1>9. QueuesOK'
  BY <1>5, <1>8 DEF BooksInv, QueuesOK
<1>10. /\ CountedIn' = CountedIn /\ CountedOut' = CountedOut
       /\ CountedConfirmed' = CountedConfirmed
  BY <1>5, <1>8 DEF CountedIn, CountedOut, CountedConfirmed
<1>11. StatsAddUp'
  BY <1>5, <1>10 DEF BooksInv, StatsAddUp, CountTotal, AmountTotal, Weigh
<1>12. From[p] \in Accounts /\ To[p] \in Accounts /\ Amount[p] \in Int
  BY PipelineAssumption DEF PipelineAssumption
<1>13. \A a \in Accounts : /\ balance[a] \in Int
                           /\ Weigh(Amount, Got(a)) \in Int /\ Weigh(Amount, Paid(a)) \in Int
                           /\ balance[a] = Weigh(Amount, Got(a)) - Weigh(Amount, Paid(a))
  BY <1>1, Weights, WeighType DEF BooksInv, BalancesAddUp
<1>14. CASE v.state = "debit"
  <2>1. Credited' = Credited /\ p \notin Debited /\ p \in Debited'
        /\ \A r \in Payments : r # p => (r \in Debited' <=> r \in Debited)
    BY <1>6, <1>8, <1>14 DEF Credited, Debited
  <2>2. balance' = [balance EXCEPT ![From[p]] = balance[From[p]] - Amount[p]]
    <3>1. v.id[2] = From[p]
      BY <1>4, <1>14
    <3> QED
      BY <1>1, <1>3, <1>5, <1>12, <1>14, <3>1 DEF HandleBalance
  <2>3. ASSUME NEW a \in Accounts
        PROVE  balance'[a] = Weigh(Amount, Got(a)') - Weigh(Amount, Paid(a)')
    <3>1. Got(a)' = Got(a)
      BY <2>1 DEF Got
    <3>2. CASE a = From[p]
      <4>1. /\ p \notin Paid(a) /\ p \in Paid(a)'
            /\ \A r \in Payments : r # p => (r \in Paid(a)' <=> r \in Paid(a))
        BY <2>1, <3>2 DEF Paid, Debited
      <4>2. Weigh(Amount, Paid(a)') = Weigh(Amount, Paid(a)) + Amount[p]
        BY <4>1, Weights, WeighMore
      <4>3. balance'[a] = balance[a] - Amount[p]
        BY <1>1, <2>2, <3>2
      <4> QED
        BY <1>12, <1>13, <3>1, <4>2, <4>3
    <3>3. CASE a # From[p]
      <4>1. Paid(a)' = Paid(a)
        BY <2>1, <3>3 DEF Paid, Debited
      <4>2. balance'[a] = balance[a]
        BY <1>1, <2>2, <3>3
      <4> QED
        BY <1>13, <3>1, <4>1, <4>2
    <3> QED
      BY <3>2, <3>3
  <2>4. BalancesAddUp'
    BY <2>3 DEF BalancesAddUp, Weigh
  <2> QED
    BY <1>9, <1>11, <2>4 DEF BooksInv
<1>15. CASE v.state = "credit"
  <2>1. Debited' = Debited /\ p \notin Credited /\ p \in Credited'
        /\ \A r \in Payments : r # p => (r \in Credited' <=> r \in Credited)
    BY <1>6, <1>8, <1>15 DEF Credited, Debited
  <2>2. balance' = [balance EXCEPT ![To[p]] = balance[To[p]] + Amount[p]]
    <3>1. v.id[2] = To[p]
      BY <1>4, <1>15
    <3> QED
      BY <1>1, <1>3, <1>5, <1>12, <1>15, <3>1 DEF HandleBalance
  <2>3. ASSUME NEW a \in Accounts
        PROVE  balance'[a] = Weigh(Amount, Got(a)') - Weigh(Amount, Paid(a)')
    <3>1. Paid(a)' = Paid(a)
      BY <2>1 DEF Paid
    <3>2. CASE a = To[p]
      <4>1. /\ p \notin Got(a) /\ p \in Got(a)'
            /\ \A r \in Payments : r # p => (r \in Got(a)' <=> r \in Got(a))
        BY <2>1, <3>2 DEF Got, Credited
      <4>2. Weigh(Amount, Got(a)') = Weigh(Amount, Got(a)) + Amount[p]
        BY <4>1, Weights, WeighMore
      <4>3. balance'[a] = balance[a] + Amount[p]
        BY <1>1, <2>2, <3>2
      <4> QED
        BY <1>12, <1>13, <3>1, <4>2, <4>3
    <3>3. CASE a # To[p]
      <4>1. Got(a)' = Got(a)
        BY <2>1, <3>3 DEF Got, Credited
      <4>2. balance'[a] = balance[a]
        BY <1>1, <2>2, <3>3
      <4> QED
        BY <1>13, <3>1, <4>1, <4>2
    <3> QED
      BY <3>2, <3>3
  <2>4. BalancesAddUp'
    BY <2>3 DEF BalancesAddUp, Weigh
  <2> QED
    BY <1>9, <1>11, <2>4 DEF BooksInv
<1> QED
  BY <1>4, <1>14, <1>15

(* A payment read to be confirmed waits in its queue in the state           *)
(* "confirmed".                                                             *)
LEMMA CompleteBooks ==
  ASSUME PipelineInv, BooksInv, NEW q \in Partitions, HandleComplete(q)
  PROVE  BooksInv'
<1> DEFINE v == NextOf(complete, confirmedPos, q)
           done == SetStateAndId(v, "confirmed")
<1>1. /\ complete \in Logs /\ confirmedPos \in Positions /\ HasNext(complete, confirmedPos, q)
      /\ InLog(confirmedPos, complete) /\ NoDuplicates(complete)
      /\ confirmedGroups \in [Groups -> Seq(Payment)]
  BY DEF HandleComplete, PipelineInv, TypeOK, PositionsOK, OnceEach
<1>2. v \in Payment /\ v.txn \in Payments /\ v.state = "complete"
  <2>1. v \in CompleteRecords
    BY <1>1, NextIsContained DEF PipelineInv, ContentsOK
  <2> QED
    BY <2>1 DEF CompleteRecords, Payment
<1>3. done \in Payment /\ done.txn = v.txn /\ done.state = "confirmed"
  <2>1. "confirmed" \in State
    BY DEF State
  <2> HIDE DEF v
  <2> QED
    BY <1>2, <2>1, SetStateAndIdType
<1>4. /\ confirmedGroups' = Regroup(confirmedGroups, done)
      /\ confirmedPos' = Consume(confirmedPos, q)
      /\ UNCHANGED << incoming, inflight, complete, inflightIn, inflightComplete,
                      inflightGroups, inflightStats, accountPos, balance, confirmedStats >>
  BY <1>2 DEF HandleComplete, CompleteTransform, SecondChildSees, inflightVars, accountVars
<1>5. /\ \A p, s : HasRead(complete, confirmedPos', p, s)
                     <=> HasRead(complete, confirmedPos, p, s) \/ (p = v.txn /\ s = "complete")
      /\ ~ HasRead(complete, confirmedPos, v.txn, "complete")
  BY <1>1, <1>2, <1>4, ConsumeHasRead
<1> HIDE DEF v, done
<1>6. ~ Queued(confirmedGroups, v.txn, "confirmed")
  BY <1>2, <1>5 DEF BooksInv, QueuesOK
<1>7. /\ \A p, s : Queued(confirmedGroups', p, s)
                     <=> Queued(confirmedGroups, p, s) \/ (p = v.txn /\ s = "confirmed")
      /\ QueuedOnce(confirmedGroups') /\ OnlyQueued(confirmedGroups', {"confirmed"})
  BY <1>1, <1>3, <1>4, <1>6, RegroupQueues DEF BooksInv, QueuesOK
<1>8. QueuesOK'
  BY <1>4, <1>5, <1>7 DEF BooksInv, QueuesOK
<1>9. /\ CountedIn' = CountedIn /\ CountedOut' = CountedOut
      /\ CountedConfirmed' = CountedConfirmed /\ Debited' = Debited /\ Credited' = Credited
  BY <1>4, <1>5, <1>7 DEF CountedIn, CountedOut, CountedConfirmed, Debited, Credited
<1> QED
  BY <1>4, <1>8, <1>9, SameSums

(* The books add up in every state: each statistic is the number, and the   *)
(* amount, of the payments it has counted, each balance what the account    *)
(* was paid less what it paid.                                              *)
THEOREM BooksInvariant == Spec => [](PipelineInv /\ BooksInv)
<1>1. PipelineInv /\ BooksInv /\ [Next]_vars => BooksInv'
  <2> SUFFICES ASSUME PipelineInv, BooksInv, [Next]_vars PROVE BooksInv'
    OBVIOUS
  <2>1. CASE UNCHANGED vars \/ PauseProcessing \/ StartProcessing
             \/ \E source \in {"incoming", "complete"}, q \in Partitions : PollInFlight(source, q)
    <3>1. UNCHANGED << incoming, inflight, complete, inflightIn, inflightComplete, accountPos,
                       confirmedPos, inflightGroups, confirmedGroups, inflightStats,
                       confirmedStats, balance >>
      BY <2>1 DEF vars, topics, inflightVars, accountVars, confirmedVars, PauseProcessing,
         StartProcessing, PollInFlight
    <3> QED
      BY <3>1, SameBooks DEF SameReads
  <2>2. ASSUME NEW p \in Payments, GeneratePayment(p) PROVE BooksInv'
    BY <2>2, GenerateBooks
  <2>3. CASE HandleInFlight \/ \E g \in Groups : AggregateInflight(g)
    BY <2>3, InFlightBooks, AggregateInflightBooks
  <2>4. CASE AccountThread
    BY <2>4, AccountBooks DEF AccountThread
  <2>5. CASE ConfirmedThread
    BY <2>5, CompleteBooks, AggregateConfirmedBooks DEF ConfirmedThread
  <2> QED
    BY <2>1, <2>2, <2>3, <2>4, <2>5 DEF Next, InFlightThread
<1> QED
  BY <1>1, BooksInit, PipelineInvariant, PTL DEF Spec

(* When nothing is left to read each payment that was sent has been counted *)
(* in, out and as confirmed, and posted to both of its accounts.            *)
LEMMA SettledBooks ==
  ASSUME PipelineInv, BooksInv, Settled
  PROVE  /\ CountedIn = Sent /\ CountedOut = Sent /\ CountedConfirmed = Sent
         /\ Debited = Sent /\ Credited = Sent
<1>1. /\ incoming \in Logs /\ inflight \in Logs /\ complete \in Logs
      /\ inflightIn \in Positions /\ inflightComplete \in Positions
      /\ accountPos \in Positions /\ confirmedPos \in Positions
      /\ InLog(inflightIn, incoming) /\ InLog(inflightComplete, complete)
      /\ InLog(accountPos, inflight) /\ InLog(confirmedPos, complete)
  BY DEF PipelineInv, TypeOK, PositionsOK
<1>2. ASSUME NEW log \in Logs, NEW pos \in Positions, InLog(pos, log),
             \A q \in Partitions : ~ HasNext(log, pos, q), NEW p, NEW s
      PROVE  HasRead(log, pos, p, s) <=> Holds(log, p, s)
  <2>1. \A q \in Partitions : pos[q] = Len(log[q])
    BY <1>2 DEF HasNext, InLog, Logs, Positions
  <2> QED
    BY <2>1 DEF HasRead, Holds
<1>3. ASSUME NEW p
      PROVE  /\ HasRead(incoming, inflightIn, p, "incoming") <=> Holds(incoming, p, "incoming")
             /\ HasRead(complete, inflightComplete, p, "complete")
                  <=> Holds(complete, p, "complete")
             /\ HasRead(complete, confirmedPos, p, "complete") <=> Holds(complete, p, "complete")
             /\ HasRead(inflight, accountPos, p, "debit") <=> Holds(inflight, p, "debit")
             /\ HasRead(inflight, accountPos, p, "credit") <=> Holds(inflight, p, "credit")
  BY <1>1, <1>2 DEF Settled
<1>4. \A p, s : ~ Queued(inflightGroups, p, s) /\ ~ Queued(confirmedGroups, p, s)
  BY DEF Settled, Queued
<1>5. \A p \in Payments :
        /\ Holds(inflight, p, "debit") <=> Holds(incoming, p, "incoming")
        /\ Holds(inflight, p, "credit") <=> Holds(inflight, p, "debit")
        /\ Holds(complete, p, "complete") <=> Holds(inflight, p, "credit")
  BY <1>3 DEF PipelineInv, Provenance
<1> QED
  BY <1>3, <1>4, <1>5
     DEF CountedIn, CountedOut, CountedConfirmed, Debited, Credited, Sent

(* When nothing is left to read, nothing is in flight, every payment is     *)
(* counted as confirmed, and each account has what it was paid less what it *)
(* paid, for any number of accounts, payments, partitions and groups.       *)
THEOREM PipelineSettles == Spec => []PostalState
<1>1. PipelineInv /\ BooksInv => PostalState
  <2> SUFFICES ASSUME PipelineInv, BooksInv, Settled
               PROVE  /\ CountTotal(inflightStats) = 0 /\ AmountTotal(inflightStats) = 0
                      /\ CountTotal(confirmedStats) =
                           SumTo([p \in Payments |-> IF p \in Sent THEN 1 ELSE 0], NumPayments)
                      /\ AmountTotal(confirmedStats) = AmountOf(Sent)
                      /\ \A a \in Accounts :
                           balance[a] = AmountOf({p \in Sent : To[p] = a})
                                        - AmountOf({p \in Sent : From[p] = a})
    BY DEF PostalState
  <2>1. /\ CountedIn = Sent /\ CountedOut = Sent /\ CountedConfirmed = Sent
        /\ Debited = Sent /\ Credited = Sent
    BY SettledBooks
  <2>2. \A S : AmountOf(S) = Weigh(Amount, S)
    BY DEF AmountOf, Weigh
  <2>3. SumTo([p \in Payments |-> IF p \in Sent THEN 1 ELSE 0], NumPayments) = Weigh(One, Sent)
    <3>1. [p \in Payments |-> IF p \in Sent THEN 1 ELSE 0] =
          [p \in Payments |-> IF p \in Sent THEN One[p] ELSE 0]
      BY DEF One
    <3> QED
      BY <3>1 DEF Weigh
  <2>4. Weigh(One, Sent) \in Int /\ Weigh(Amount, Sent) \in Int
    BY Weights, WeighType
  <2>5. CountTotal(inflightStats) = 0 /\ AmountTotal(inflightStats) = 0
    BY <2>1, <2>4 DEF BooksInv, StatsAddUp
  <2>6. /\ CountTotal(confirmedStats) = Weigh(One, Sent)
        /\ AmountTotal(confirmedStats) = Weigh(Amount, Sent)
    BY <2>1 DEF BooksInv, StatsAddUp
  <2>7. \A a \in Accounts : balance[a] = Weigh(Amount, {p \in Sent : To[p] = a})
                                         - Weigh(Amount, {p \in Sent : From[p] = a})
    BY <2>1 DEF BooksInv, BalancesAddUp, Got, Paid
  <2> QED
    BY <2>2, <2>3, <2>5, <2>6, <2>7
<1> QED
  BY <1>1, BooksInvariant, PTL

-----------------------------------------------------------------------------
(* Progress.  That a payment is confirmed in the end takes fairness; that   *)
(* the processors cannot go round in circles instead does not.              *)

(* What has been done with a payment.                                       *)
Milestones == {"accepted", "counted in", "debited", "credited", "returned", "counted out",
               "confirmed", "counted confirmed"}

Accepted  == {p \in Payments : HasRead(incoming, inflightIn, p, "incoming")}
Returned  == {p \in Payments : HasRead(complete, inflightComplete, p, "complete")}
Confirmed == {p \in Payments : HasRead(complete, confirmedPos, p, "complete")}

(* The payments with which it has been done.                                *)
ReachedBy(m) ==
  CASE m = "accepted"          -> Accepted
    [] m = "counted in"        -> CountedIn
    [] m = "debited"           -> Debited
    [] m = "credited"          -> Credited
    [] m = "returned"          -> Returned
    [] m = "counted out"       -> CountedOut
    [] m = "confirmed"         -> Confirmed
    [] m = "counted confirmed" -> CountedConfirmed

Reached == [m \in Milestones |-> ReachedBy(m)]

Reaches(m, p) == p \notin Reached[m] /\ Reached' = [Reached EXCEPT ![m] = @ \union {p}]

(* A stream thread handles a record or counts one.                          *)
HandlesRecord ==
  \/ HandleInFlight \/ \E g \in Groups : AggregateInflight(g)
  \/ AccountThread
  \/ ConfirmedThread

(* Each record handled is one thing done with one payment for the first     *)
(* time; nothing is undone, and nothing else does anything.                 *)
OneAtATime ==
  IF HandlesRecord THEN \E m \in Milestones, p \in Payments : Reaches(m, p)
                   ELSE UNCHANGED Reached

(* A payment that is sent has been read by no one.                          *)
LEMMA GenerateReads ==
  ASSUME PipelineInv, NEW p \in Payments, GeneratePayment(p)
  PROVE  SameReads
<1> DEFINE v == [txn |-> p, id |-> <<"generated", p>>, state |-> "incoming"]
<1>1. /\ v \in Payment /\ incoming' = Publish(incoming, v)
      /\ incoming \in Logs /\ inflightIn \in Positions /\ InLog(inflightIn, incoming)
      /\ UNCHANGED << inflight, complete, inflightVars, accountVars, confirmedVars >>
  BY DEF GeneratePayment, PipelineInv, TypeOK, PositionsOK, Payment, Keys, State
<1> HIDE DEF v
<1>2. \A r, s : HasRead(incoming', inflightIn, r, s) <=> HasRead(incoming, inflightIn, r, s)
  BY <1>1, PublishHasRead
<1> QED
  BY <1>1, <1>2 DEF SameReads, inflightVars, accountVars, confirmedVars

(* What is read anywhere was sent.                                          *)
LEMMA ReadWasSent ==
  ASSUME PipelineInv
  PROVE  Accepted \subseteq Sent /\ Returned \subseteq Sent /\ Confirmed \subseteq Sent
<1>1. /\ incoming \in Logs /\ complete \in Logs
      /\ inflightIn \in Positions /\ inflightComplete \in Positions
      /\ confirmedPos \in Positions
      /\ InLog(inflightIn, incoming) /\ InLog(inflightComplete, complete)
      /\ InLog(confirmedPos, complete)
  BY DEF PipelineInv, TypeOK, PositionsOK
<1>2. \A p \in Payments : Holds(complete, p, "complete") => Holds(incoming, p, "incoming")
  BY Progress
<1> QED
  BY <1>1, <1>2, ReadIsHeld DEF Accepted, Returned, Confirmed, Sent

(* A step that leaves what is read and queued alone reaches nothing.        *)
LEMMA ReachesNothing ==
  ASSUME SameReads, UNCHANGED <<inflightGroups, confirmedGroups>>
  PROVE  UNCHANGED Reached
<1>1. /\ Accepted' = Accepted /\ Returned' = Returned /\ Confirmed' = Confirmed
      /\ Debited' = Debited /\ Credited' = Credited
  BY DEF SameReads, Accepted, Returned, Confirmed, Debited, Credited
<1>2. /\ CountedIn' = CountedIn /\ CountedOut' = CountedOut
      /\ CountedConfirmed' = CountedConfirmed
  BY DEF SameReads, CountedIn, CountedOut, CountedConfirmed, Queued
<1>3. \A m \in Milestones : ReachedBy(m)' = ReachedBy(m)
  BY <1>1, <1>2 DEF ReachedBy, Milestones
<1> QED
  BY <1>3 DEF Reached

(* One that adds a payment to one of the sets, and leaves the others alone. *)
LEMMA ReachesOne ==
  ASSUME NEW m \in Milestones, NEW p \in Payments, p \notin Reached[m],
         \A n \in Milestones :
           Reached'[n] = IF n = m THEN Reached[n] \union {p} ELSE Reached[n]
  PROVE  \E n \in Milestones, r \in Payments : Reaches(n, r)
<1> DEFINE before == Reached
           after == Reached'
<1>1. /\ before = [n \in Milestones |-> before[n]]
      /\ after = [n \in Milestones |-> after[n]]
  BY DEF Reached
<1> HIDE DEF before, after
<1>2. after = [before EXCEPT ![m] = before[m] \union {p}]
  BY <1>1 DEF before, after
<1>3. Reaches(m, p)
  BY <1>2 DEF before, after, Reaches
<1> QED
  BY <1>3

(* The sets, by name, before a step and after it.                           *)
LEMMA ReachedSets ==
  /\ Reached["accepted"] = Accepted /\ Reached["counted in"] = CountedIn
  /\ Reached["debited"] = Debited /\ Reached["credited"] = Credited
  /\ Reached["returned"] = Returned /\ Reached["counted out"] = CountedOut
  /\ Reached["confirmed"] = Confirmed /\ Reached["counted confirmed"] = CountedConfirmed
BY DEF Reached, ReachedBy, Milestones

LEMMA ReachedSetsAfter ==
  /\ Reached'["accepted"] = Accepted' /\ Reached'["counted in"] = CountedIn'
  /\ Reached'["debited"] = Debited' /\ Reached'["credited"] = Credited'
  /\ Reached'["returned"] = Returned' /\ Reached'["counted out"] = CountedOut'
  /\ Reached'["confirmed"] = Confirmed' /\ Reached'["counted confirmed"] = CountedConfirmed'
BY DEF Reached, ReachedBy, Milestones

LEMMA InFlightReaches ==
  ASSUME PipelineInv, BooksInv, HandleInFlight
  PROVE  \E m \in Milestones, p \in Payments : Reaches(m, p)
<1> DEFINE q == gate.partition
<1>1. /\ gate # Idle /\ q \in Partitions
      /\ gate.source \in {"incoming", "complete"}
  BY DEF HandleInFlight, PipelineInv, TypeOK, Idle
<1>2. UNCHANGED << incoming, complete, accountPos, confirmedPos, confirmedGroups >>
  BY DEF HandleInFlight, accountVars, confirmedVars
<1>3. /\ incoming \in Logs /\ inflight \in Logs /\ complete \in Logs
      /\ inflightIn \in Positions /\ inflightComplete \in Positions /\ accountPos \in Positions
      /\ InLog(inflightIn, incoming) /\ InLog(inflightComplete, complete)
      /\ InLog(accountPos, inflight)
      /\ NoDuplicates(incoming) /\ NoDuplicates(complete)
      /\ inflightGroups \in [Groups -> Seq(Payment)]
  BY DEF PipelineInv, TypeOK, PositionsOK, OnceEach
<1> HIDE DEF q
<1>4. CASE gate.source = "incoming"
  <2> DEFINE v == NextOf(incoming, inflightIn, q)
             flipped == SetStateAndId(v, "debit")
  <2>1. HasNext(incoming, inflightIn, q)
    BY <1>1, <1>4 DEF PipelineInv, GateOK, q
  <2>2. v \in Payment /\ v.state = "incoming" /\ v.txn \in Payments
    BY <1>1, <1>3, <2>1, NextIsContained DEF PipelineInv, ContentsOK, IncomingRecords, Payment
  <2>3. flipped \in Payment
    <3>1. "debit" \in State
      BY DEF State
    <3> HIDE DEF v
    <3> QED
      BY <2>2, <3>1, SetStateAndIdType
  <2>4. /\ inflightGroups' = Regroup(inflightGroups, v)
        /\ inflight' \in {inflight, Publish(inflight, flipped)}
        /\ inflightIn' = Consume(inflightIn, q)
        /\ inflightComplete' = inflightComplete
    <3>1. FlipIncoming(v) = flipped
      BY <2>2 DEF FlipIncoming
    <3> QED
      BY <1>4, <3>1 DEF HandleInFlight, q
  <2>5. /\ \A p, s : HasRead(incoming, inflightIn', p, s)
                       <=> HasRead(incoming, inflightIn, p, s) \/ (p = v.txn /\ s = "incoming")
        /\ ~ HasRead(incoming, inflightIn, v.txn, "incoming")
    BY <1>1, <1>3, <2>1, <2>2, <2>4, ConsumeHasRead
  <2> HIDE DEF v, flipped
  <2>6. \A p, s : HasRead(inflight', accountPos, p, s) <=> HasRead(inflight, accountPos, p, s)
    BY <1>3, <2>3, <2>4, PublishHasRead
  <2>7. \A p, s : Queued(inflightGroups', p, s)
                    <=> Queued(inflightGroups, p, s) \/ (p = v.txn /\ s = "incoming")
    BY <1>3, <2>2, <2>4, RegroupQueues
  <2>8. /\ v.txn \notin Accepted /\ Accepted' = Accepted \union {v.txn}
        /\ Returned' = Returned /\ Confirmed' = Confirmed
        /\ Debited' = Debited /\ Credited' = Credited
    BY <1>2, <2>2, <2>4, <2>5, <2>6 DEF Accepted, Returned, Confirmed, Debited, Credited
  <2>9. /\ CountedIn' = CountedIn /\ CountedOut' = CountedOut
        /\ CountedConfirmed' = CountedConfirmed
    BY <1>2, <2>4, <2>5, <2>7 DEF CountedIn, CountedOut, CountedConfirmed
  <2>a. /\ "accepted" \in Milestones /\ v.txn \notin Reached["accepted"]
       /\ \A n \in Milestones :
            Reached'[n] = IF n = "accepted" THEN Reached[n] \union {v.txn} ELSE Reached[n]
    BY <2>2, <2>8, <2>9, ReachedSets, ReachedSetsAfter DEF Milestones
  <2> QED
    BY <2>2, <2>a, ReachesOne
<1>5. CASE gate.source = "complete"
  <2> DEFINE v == NextOf(complete, inflightComplete, q)
  <2>1. HasNext(complete, inflightComplete, q)
    BY <1>1, <1>5 DEF PipelineInv, GateOK, q
  <2>2. v \in Payment /\ v.state = "complete" /\ v.txn \in Payments
    BY <1>1, <1>3, <2>1, NextIsContained DEF PipelineInv, ContentsOK, CompleteRecords, Payment
  <2>4. /\ inflightGroups' = Regroup(inflightGroups, v)
        /\ inflight' = inflight
        /\ inflightComplete' = Consume(inflightComplete, q)
        /\ inflightIn' = inflightIn
    <3>1. FlipIncoming(v) = v
      BY <2>2 DEF FlipIncoming
    <3> QED
      BY <1>5, <2>2, <3>1 DEF HandleInFlight, q
  <2>5. /\ \A p, s : HasRead(complete, inflightComplete', p, s)
                       <=> \/ HasRead(complete, inflightComplete, p, s)
                           \/ p = v.txn /\ s = "complete"
        /\ ~ HasRead(complete, inflightComplete, v.txn, "complete")
    BY <1>1, <1>3, <2>1, <2>2, <2>4, ConsumeHasRead
  <2> HIDE DEF v
  <2>7. \A p, s : Queued(inflightGroups', p, s)
                    <=> Queued(inflightGroups, p, s) \/ (p = v.txn /\ s = "complete")
    BY <1>3, <2>2, <2>4, RegroupQueues
  <2>8. /\ v.txn \notin Returned /\ Returned' = Returned \union {v.txn}
        /\ Accepted' = Accepted /\ Confirmed' = Confirmed
        /\ Debited' = Debited /\ Credited' = Credited
    BY <1>2, <2>2, <2>4, <2>5 DEF Accepted, Returned, Confirmed, Debited, Credited
  <2>9. /\ CountedIn' = CountedIn /\ CountedOut' = CountedOut
        /\ CountedConfirmed' = CountedConfirmed
    BY <1>2, <2>4, <2>5, <2>7 DEF CountedIn, CountedOut, CountedConfirmed
  <2>a. /\ "returned" \in Milestones /\ v.txn \notin Reached["returned"]
       /\ \A n \in Milestones :
            Reached'[n] = IF n = "returned" THEN Reached[n] \union {v.txn} ELSE Reached[n]
    BY <2>2, <2>8, <2>9, ReachedSets, ReachedSetsAfter DEF Milestones
  <2> QED
    BY <2>2, <2>a, ReachesOne
<1> QED
  BY <1>1, <1>4, <1>5

LEMMA AggregateInflightReaches ==
  ASSUME PipelineInv, BooksInv, NEW g \in Groups, AggregateInflight(g)
  PROVE  \E m \in Milestones, p \in Payments : Reaches(m, p)
<1> DEFINE v == Head(inflightGroups[g])
<1>1. /\ inflightGroups[g] # << >>
      /\ inflightGroups' = [inflightGroups EXCEPT ![g] = Tail(inflightGroups[g])]
      /\ UNCHANGED << incoming, inflight, complete, inflightIn, inflightComplete, accountPos,
                      confirmedPos, confirmedGroups >>
  BY DEF AggregateInflight, topics, accountVars, confirmedVars
<1>2. /\ inflightGroups \in [Groups -> Seq(Payment)]
      /\ QueuedOnce(inflightGroups) /\ OnlyQueued(inflightGroups, {"incoming", "complete"})
  BY DEF PipelineInv, TypeOK, BooksInv, QueuesOK
<1>3. /\ v \in Payment /\ v.txn \in Payments
      /\ Queued(inflightGroups, v.txn, v.state)
      /\ \A p, s : Queued(inflightGroups', p, s)
                     <=> Queued(inflightGroups, p, s) /\ ~ (p = v.txn /\ s = v.state)
      /\ v.state \in {"incoming", "complete"}
  <2>1. v \in Payment => v.txn \in Payments
    BY DEF Payment
  <2> QED
    BY <1>1, <1>2, <2>1, DequeueTakes
<1> HIDE DEF v
<1>4. /\ v.state = "incoming" => HasRead(incoming, inflightIn, v.txn, "incoming")
      /\ v.state = "complete" => HasRead(complete, inflightComplete, v.txn, "complete")
  BY <1>3 DEF BooksInv, QueuesOK
<1>5. /\ Accepted' = Accepted /\ Returned' = Returned /\ Confirmed' = Confirmed
      /\ Debited' = Debited /\ Credited' = Credited /\ CountedConfirmed' = CountedConfirmed
  BY <1>1 DEF Accepted, Returned, Confirmed, Debited, Credited, CountedConfirmed
<1>6. CASE v.state = "incoming"
  <2>1. /\ v.txn \notin CountedIn /\ CountedIn' = CountedIn \union {v.txn}
        /\ CountedOut' = CountedOut
    BY <1>1, <1>3, <1>4, <1>6 DEF CountedIn, CountedOut
  <2>a. /\ "counted in" \in Milestones /\ v.txn \notin Reached["counted in"]
       /\ \A n \in Milestones :
            Reached'[n] = IF n = "counted in" THEN Reached[n] \union {v.txn} ELSE Reached[n]
    BY <1>3, <1>5, <2>1, ReachedSets, ReachedSetsAfter DEF Milestones
  <2> QED
    BY <1>3, <2>a, ReachesOne
<1>7. CASE v.state = "complete"
  <2>1. /\ v.txn \notin CountedOut /\ CountedOut' = CountedOut \union {v.txn}
        /\ CountedIn' = CountedIn
    BY <1>1, <1>3, <1>4, <1>7 DEF CountedIn, CountedOut
  <2>a. /\ "counted out" \in Milestones /\ v.txn \notin Reached["counted out"]
       /\ \A n \in Milestones :
            Reached'[n] = IF n = "counted out" THEN Reached[n] \union {v.txn} ELSE Reached[n]
    BY <1>3, <1>5, <2>1, ReachedSets, ReachedSetsAfter DEF Milestones
  <2> QED
    BY <1>3, <2>a, ReachesOne
<1> QED
  BY <1>3, <1>6, <1>7

LEMMA AggregateConfirmedReaches ==
  ASSUME PipelineInv, BooksInv, NEW g \in Groups, AggregateConfirmed(g)
  PROVE  \E m \in Milestones, p \in Payments : Reaches(m, p)
<1> DEFINE v == Head(confirmedGroups[g])
<1>1. /\ confirmedGroups[g] # << >>
      /\ confirmedGroups' = [confirmedGroups EXCEPT ![g] = Tail(confirmedGroups[g])]
      /\ UNCHANGED << incoming, inflight, complete, inflightIn, inflightComplete, accountPos,
                      confirmedPos, inflightGroups >>
  BY DEF AggregateConfirmed, topics, accountVars, inflightVars
<1>2. /\ confirmedGroups \in [Groups -> Seq(Payment)]
      /\ QueuedOnce(confirmedGroups) /\ OnlyQueued(confirmedGroups, {"confirmed"})
  BY DEF PipelineInv, TypeOK, BooksInv, QueuesOK
<1>3. /\ v \in Payment /\ v.txn \in Payments
      /\ Queued(confirmedGroups, v.txn, "confirmed")
      /\ \A p, s : Queued(confirmedGroups', p, s)
                     <=> Queued(confirmedGroups, p, s) /\ ~ (p = v.txn /\ s = "confirmed")
  <2>1. /\ v \in Payment
        /\ Queued(confirmedGroups, v.txn, v.state)
        /\ \A p, s : Queued(confirmedGroups', p, s)
                       <=> Queued(confirmedGroups, p, s) /\ ~ (p = v.txn /\ s = v.state)
        /\ v.state = "confirmed"
    BY <1>1, <1>2, DequeueTakes
  <2> HIDE DEF v
  <2>2. v.txn \in Payments
    BY <2>1 DEF Payment
  <2> QED
    BY <2>1, <2>2
<1> HIDE DEF v
<1>4. HasRead(complete, confirmedPos, v.txn, "complete")
  BY <1>3 DEF BooksInv, QueuesOK
<1>5. /\ Accepted' = Accepted /\ Returned' = Returned /\ Confirmed' = Confirmed
      /\ Debited' = Debited /\ Credited' = Credited
      /\ CountedIn' = CountedIn /\ CountedOut' = CountedOut
  BY <1>1 DEF Accepted, Returned, Confirmed, Debited, Credited, CountedIn, CountedOut
<1>6. v.txn \notin CountedConfirmed /\ CountedConfirmed' = CountedConfirmed \union {v.txn}
  BY <1>1, <1>3, <1>4 DEF CountedConfirmed
<1>a. /\ "counted confirmed" \in Milestones /\ v.txn \notin Reached["counted confirmed"]
     /\ \A n \in Milestones :
          Reached'[n] = IF n = "counted confirmed" THEN Reached[n] \union {v.txn} ELSE Reached[n]
  BY <1>3, <1>5, <1>6, ReachedSets, ReachedSetsAfter DEF Milestones
<1> QED
  BY <1>3, <1>a, ReachesOne

LEMMA AccountReaches ==
  ASSUME PipelineInv, NEW q \in Partitions, HandleAccount(q)
  PROVE  \E m \in Milestones, p \in Payments : Reaches(m, p)
<1> DEFINE v == NextOf(inflight, accountPos, q)
<1>1. /\ inflight \in Logs /\ complete \in Logs
      /\ inflightComplete \in Positions /\ accountPos \in Positions /\ confirmedPos \in Positions
      /\ InLog(accountPos, inflight) /\ NoDuplicates(inflight)
      /\ InLog(inflightComplete, complete) /\ InLog(confirmedPos, complete)
  BY DEF PipelineInv, TypeOK, PositionsOK, OnceEach
<1>2. HasNext(inflight, accountPos, q)
  BY DEF HandleAccount
<1>4. v \in Payment /\ v.txn \in Payments /\ v.state \in {"debit", "credit"}
  BY <1>1, <1>2, NextIsContained DEF PipelineInv, ContentsOK, InflightRecords, Payment
<1>5. /\ inflight' \in {inflight, Publish(inflight, FlipAccount(v))}
      /\ complete' \in {complete, Publish(complete, FlipAccount(v))}
      /\ accountPos' = Consume(accountPos, q)
      /\ UNCHANGED << incoming, inflightIn, inflightComplete, inflightGroups,
                      confirmedPos, confirmedGroups >>
  BY <1>4 DEF HandleAccount, inflightVars, confirmedVars
<1>6. /\ accountPos' \in Positions /\ InLog(accountPos', inflight)
      /\ \A r, s : HasRead(inflight, accountPos', r, s)
                     <=> HasRead(inflight, accountPos, r, s) \/ (r = v.txn /\ s = v.state)
      /\ ~ HasRead(inflight, accountPos, v.txn, v.state)
  BY <1>1, <1>2, <1>5, ConsumeHasRead
<1> HIDE DEF v
<1>7. FlipAccount(v) \in Payment
  <2>1. "credit" \in State /\ "complete" \in State
    BY DEF State
  <2>2. FlipAccount(v) \in {SetStateAndId(v, "credit"), SetStateAndId(v, "complete")}
    BY <1>4 DEF FlipAccount
  <2> QED
    BY <1>4, <2>1, <2>2, SetStateAndIdType
<1>8. /\ \A r, s : HasRead(inflight', accountPos', r, s) <=> HasRead(inflight, accountPos', r, s)
      /\ \A r, s : /\ HasRead(complete', inflightComplete, r, s)
                        <=> HasRead(complete, inflightComplete, r, s)
                   /\ HasRead(complete', confirmedPos, r, s)
                        <=> HasRead(complete, confirmedPos, r, s)
  BY <1>1, <1>5, <1>6, <1>7, PublishHasRead
<1>9. /\ Accepted' = Accepted /\ Returned' = Returned /\ Confirmed' = Confirmed
      /\ CountedIn' = CountedIn /\ CountedOut' = CountedOut
      /\ CountedConfirmed' = CountedConfirmed
  BY <1>5, <1>8 DEF Accepted, Returned, Confirmed, CountedIn, CountedOut, CountedConfirmed
<1>10. CASE v.state = "debit"
  <2>1. v.txn \notin Debited /\ Debited' = Debited \union {v.txn} /\ Credited' = Credited
    BY <1>4, <1>6, <1>8, <1>10 DEF Debited, Credited
  <2>a. /\ "debited" \in Milestones /\ v.txn \notin Reached["debited"]
       /\ \A n \in Milestones :
            Reached'[n] = IF n = "debited" THEN Reached[n] \union {v.txn} ELSE Reached[n]
    BY <1>4, <1>9, <2>1, ReachedSets, ReachedSetsAfter DEF Milestones
  <2> QED
    BY <1>4, <2>a, ReachesOne
<1>11. CASE v.state = "credit"
  <2>1. v.txn \notin Credited /\ Credited' = Credited \union {v.txn} /\ Debited' = Debited
    BY <1>4, <1>6, <1>8, <1>11 DEF Debited, Credited
  <2>a. /\ "credited" \in Milestones /\ v.txn \notin Reached["credited"]
       /\ \A n \in Milestones :
            Reached'[n] = IF n = "credited" THEN Reached[n] \union {v.txn} ELSE Reached[n]
    BY <1>4, <1>9, <2>1, ReachedSets, ReachedSetsAfter DEF Milestones
  <2> QED
    BY <1>4, <2>a, ReachesOne
<1> QED
  BY <1>4, <1>10, <1>11

LEMMA CompleteReaches ==
  ASSUME PipelineInv, BooksInv, NEW q \in Partitions, HandleComplete(q)
  PROVE  \E m \in Milestones, p \in Payments : Reaches(m, p)
<1> DEFINE v == NextOf(complete, confirmedPos, q)
           done == SetStateAndId(v, "confirmed")
<1>1. /\ complete \in Logs /\ confirmedPos \in Positions /\ HasNext(complete, confirmedPos, q)
      /\ InLog(confirmedPos, complete) /\ NoDuplicates(complete)
      /\ confirmedGroups \in [Groups -> Seq(Payment)]
  BY DEF HandleComplete, PipelineInv, TypeOK, PositionsOK, OnceEach
<1>2. v \in Payment /\ v.txn \in Payments /\ v.state = "complete"
  BY <1>1, NextIsContained DEF PipelineInv, ContentsOK, CompleteRecords, Payment
<1>3. done \in Payment /\ done.txn = v.txn /\ done.state = "confirmed"
  <2>1. "confirmed" \in State
    BY DEF State
  <2> HIDE DEF v
  <2> QED
    BY <1>2, <2>1, SetStateAndIdType
<1>4. /\ confirmedGroups' = Regroup(confirmedGroups, done)
      /\ confirmedPos' = Consume(confirmedPos, q)
      /\ UNCHANGED << incoming, inflight, complete, inflightIn, inflightComplete,
                      inflightGroups, accountPos >>
  BY <1>2 DEF HandleComplete, CompleteTransform, SecondChildSees, inflightVars, accountVars
<1>5. /\ \A p, s : HasRead(complete, confirmedPos', p, s)
                     <=> HasRead(complete, confirmedPos, p, s) \/ (p = v.txn /\ s = "complete")
      /\ ~ HasRead(complete, confirmedPos, v.txn, "complete")
  BY <1>1, <1>2, <1>4, ConsumeHasRead
<1> HIDE DEF v, done
<1>6. \A p, s : Queued(confirmedGroups', p, s)
                  <=> Queued(confirmedGroups, p, s) \/ (p = v.txn /\ s = "confirmed")
  BY <1>1, <1>3, <1>4, RegroupQueues
<1>7. /\ v.txn \notin Confirmed /\ Confirmed' = Confirmed \union {v.txn}
      /\ Accepted' = Accepted /\ Returned' = Returned
      /\ Debited' = Debited /\ Credited' = Credited
  BY <1>2, <1>4, <1>5 DEF Accepted, Returned, Confirmed, Debited, Credited
<1>8. /\ CountedIn' = CountedIn /\ CountedOut' = CountedOut
      /\ CountedConfirmed' = CountedConfirmed
  BY <1>4, <1>5, <1>6 DEF CountedIn, CountedOut, CountedConfirmed
<1>a. /\ "confirmed" \in Milestones /\ v.txn \notin Reached["confirmed"]
     /\ \A n \in Milestones :
          Reached'[n] = IF n = "confirmed" THEN Reached[n] \union {v.txn} ELSE Reached[n]
  BY <1>2, <1>7, <1>8, ReachedSets, ReachedSetsAfter DEF Milestones
<1> QED
  BY <1>2, <1>a, ReachesOne

(* No payment is handled twice by anything, whatever the interleaving of    *)
(* the threads and partitions: each record that a thread handles, and each  *)
(* that it counts, takes one payment one step further, and no step takes    *)
(* any back.  The threads' work is bounded by eight steps for each payment. *)
THEOREM NothingIsDoneTwice == Spec => [][OneAtATime]_vars
<1>1. PipelineInv /\ BooksInv /\ [Next]_vars => [OneAtATime]_vars
  <2> SUFFICES ASSUME PipelineInv, BooksInv, Next PROVE OneAtATime
    OBVIOUS
  <2>1. CASE HandlesRecord
    <3>1. \E m \in Milestones, p \in Payments : Reaches(m, p)
      BY <2>1, InFlightReaches, AggregateInflightReaches, AggregateConfirmedReaches,
         AccountReaches, CompleteReaches DEF HandlesRecord, AccountThread, ConfirmedThread
    <3> QED
      BY <2>1, <3>1 DEF OneAtATime
  <2>2. CASE ~ HandlesRecord
    <3>1. CASE PauseProcessing \/ StartProcessing
               \/ \E source \in {"incoming", "complete"}, q \in Partitions :
                    PollInFlight(source, q)
      <4>1. UNCHANGED << incoming, inflight, complete, inflightIn, inflightComplete,
                         accountPos, confirmedPos, inflightGroups, confirmedGroups >>
        BY <3>1 DEF topics, inflightVars, accountVars, confirmedVars, PauseProcessing,
           StartProcessing, PollInFlight
      <4>2. SameReads
        BY <4>1 DEF SameReads
      <4> QED
        BY <2>2, <4>1, <4>2, ReachesNothing DEF OneAtATime
    <3>2. ASSUME NEW p \in Payments, GeneratePayment(p) PROVE UNCHANGED Reached
      <4>1. SameReads /\ UNCHANGED <<inflightGroups, confirmedGroups>>
        BY <3>2, GenerateReads DEF GeneratePayment, inflightVars, confirmedVars
      <4> QED
        BY <4>1, ReachesNothing
    <3> QED
      BY <2>2, <3>1, <3>2 DEF Next, InFlightThread, HandlesRecord, OneAtATime
  <2> QED
    BY <2>1, <2>2
<1> QED
  BY <1>1, BooksInvariant, PTL DEF Spec

(* A handler of one of the threads has something to handle.                 *)
HasWork ==
  \/ gate.at = "passed"
  \/ /\ gate = Idle
     /\ \/ \E q \in Partitions : \/ HasNext(incoming, inflightIn, q)
                                 \/ HasNext(complete, inflightComplete, q)
        \/ \E g \in Groups : inflightGroups[g] # << >>
  \/ accountUp /\ \E q \in Partitions : HasNext(inflight, accountPos, q)
  \/ /\ confirmedUp
     /\ \/ \E q \in Partitions : HasNext(complete, confirmedPos, q)
        \/ \E g \in Groups : confirmedGroups[g] # << >>

(* Nothing but a pause stops a payment: as long as something is to be done  *)
(* with one that was sent, a thread can go on, or else processing is paused *)
(* and the thread of PaymentsInFlight waits for the resume.                 *)
OnlyPausesStop ==
  (\E m \in Milestones : Reached[m] # Sent) => HasWork \/ (paused /\ gate.at = "waiting")

LEMMA WaitsOnlyPaused == Spec => [](gate.at = "waiting" => paused)
<1> DEFINE W == gate.at = "waiting" => paused
<1>1. Init => W
  BY DEF Init, Idle
<1>2. W /\ [Next]_vars => W'
  <2> SUFFICES ASSUME W, [Next]_vars PROVE W'
    OBVIOUS
  <2>1. CASE UNCHANGED <<paused, gate>>
    BY <2>1
  <2>2. CASE PauseProcessing
    BY <2>2 DEF PauseProcessing
  <2>3. CASE StartProcessing
    <3>1. gate'.at # "waiting"
      BY <2>3 DEF StartProcessing
    <3> QED
      BY <3>1
  <2>4. ASSUME NEW source \in {"incoming", "complete"}, NEW q \in Partitions,
               PollInFlight(source, q)
        PROVE  W'
    BY <2>4 DEF PollInFlight
  <2>5. CASE HandleInFlight
    BY <2>5 DEF HandleInFlight, Idle
  <2> QED
    BY <2>1, <2>2, <2>3, <2>4, <2>5
       DEF Next, GeneratePayment, InFlightThread, AggregateInflight, AccountThread,
           HandleAccount, ConfirmedThread, HandleComplete, AggregateConfirmed,
           inflightVars, vars
<1> QED
  BY <1>1, <1>2, PTL DEF Spec

(* Together with NothingIsDoneTwice this is all of EventuallyConfirmed and  *)
(* InflightDrains but the fairness: there is always a step to take, and     *)
(* every step taken is one of a bounded number.                             *)
THEOREM NothingButPausesStop == Spec => []OnlyPausesStop
<1>1. PipelineInv /\ BooksInv /\ (gate.at = "waiting" => paused) => OnlyPausesStop
  <2> SUFFICES ASSUME PipelineInv, BooksInv, gate.at = "waiting" => paused,
                      ~ HasWork, gate.at # "waiting"
               PROVE  \A m \in Milestones : Reached[m] = Sent
    BY DEF OnlyPausesStop
  <2>1. gate = Idle
    BY DEF HasWork, PipelineInv, TypeOK
  <2>2. Settled
    BY <2>1 DEF HasWork, Settled, PipelineInv, ThreadsSurvive
  <2>3. /\ CountedIn = Sent /\ CountedOut = Sent /\ CountedConfirmed = Sent
        /\ Debited = Sent /\ Credited = Sent
    BY <2>2, SettledBooks
  <2>4. Accepted = Sent /\ Returned = Sent /\ Confirmed = Sent
    <3>1. CountedIn \subseteq Accepted /\ CountedOut \subseteq Returned
          /\ CountedConfirmed \subseteq Confirmed
      BY DEF CountedIn, CountedOut, CountedConfirmed, Accepted, Returned, Confirmed
    <3>2. Accepted \subseteq Sent /\ Returned \subseteq Sent /\ Confirmed \subseteq Sent
      BY ReadWasSent
    <3> QED
      BY <2>3, <3>1, <3>2
  <2> QED
    BY <2>3, <2>4, ReachedSets DEF Milestones
<1> QED
  BY <1>1, WaitsOnlyPaused, BooksInvariant, PTL
=============================================================================
