--------------------------- MODULE VotePollProofs ---------------------------
(***************************************************************************)
(* For any questions, options, votes and faults, the poll's state is       *)
(* typed, no snapshot counts a vote that nobody cast, none is lost while   *)
(* votes wait for the server to catch up, and neither program is stuck.    *)
(***************************************************************************)
EXTENDS VotePoll, TLAPS

(* What a sequence is made of stays when an element is taken out.           *)
LEMMA RemovedElement ==
  ASSUME NEW S, NEW s \in Seq(S), NEW i \in 1 .. Len(s)
  PROVE  /\ RemoveAt(s, i) \in Seq(S)
         /\ \A j \in 1 .. Len(RemoveAt(s, i)) : \E k \in 1 .. Len(s) : RemoveAt(s, i)[j] = s[k]
<1> DEFINE before == SubSeq(s, 1, i - 1)
           after == SubSeq(s, i + 1, Len(s))
<1>1. before \in Seq(S) /\ Len(before) = i - 1 /\ \A j \in 1 .. i - 1 : before[j] = s[j]
  OBVIOUS
<1>2. /\ after \in Seq(S) /\ Len(after) = Len(s) - i
      /\ \A j \in 1 .. Len(s) - i : after[j] = s[i + j]
  OBVIOUS
<1>3. RemoveAt(s, i) = before \o after BY DEF RemoveAt
<1> HIDE DEF before, after
<1>4. before \o after \in Seq(S) /\ Len(before \o after) = Len(s) - 1
  BY <1>1, <1>2
<1>5. ASSUME NEW j \in 1 .. Len(s) - 1
      PROVE  \E k \in 1 .. Len(s) : (before \o after)[j] = s[k]
  <2>0. j <= i - 1 \/ j > i - 1 OBVIOUS
  <2>1. CASE j <= i - 1
    <3>1. (before \o after)[j] = s[j] BY <1>1, <1>2, <2>1
    <3>2. j \in 1 .. Len(s) BY <2>1
    <3> WITNESS j \in 1 .. Len(s)
    <3> QED BY <3>1
  <2>2. CASE j > i - 1
    <3>1. (before \o after)[j] = after[j - (i - 1)] BY <1>1, <1>2, <2>2
    <3>2. after[j - (i - 1)] = s[j + 1] BY <1>2, <2>2
    <3>3. j + 1 \in 1 .. Len(s) BY <2>2
    <3> WITNESS j + 1 \in 1 .. Len(s)
    <3> QED BY <3>1, <3>2
  <2> QED BY <2>0, <2>1, <2>2
<1> QED BY <1>3, <1>4, <1>5

(* It is one shorter then.                                                  *)
LEMMA RemovedLength ==
  ASSUME NEW S, NEW s \in Seq(S), NEW i \in 1 .. Len(s)
  PROVE  Len(RemoveAt(s, i)) = Len(s) - 1
<1> DEFINE before == SubSeq(s, 1, i - 1)
           after == SubSeq(s, i + 1, Len(s))
<1>1. before \in Seq(S) /\ Len(before) = i - 1
  OBVIOUS
<1>2. after \in Seq(S) /\ Len(after) = Len(s) - i
  OBVIOUS
<1>3. RemoveAt(s, i) = before \o after
  BY DEF RemoveAt
<1> HIDE DEF before, after
<1> QED
  BY <1>1, <1>2, <1>3

(* A vote makes a snapshot of a snapshot.                                   *)
LEMMA SnapshotMade ==
  ASSUME NEW s \in Snapshots, NEW q \in Questions, NEW o \in Options
  PROVE  sendMessage(s, q, o) \in Snapshots
<1>1. s.votes \in Counts /\ s.votes[q] \in [Options -> Nat] BY DEF Snapshots, Counts
<1>2. [s.votes[q] EXCEPT ![o] = @ + 1] \in [Options -> Nat] BY <1>1
<1>3. [s.votes EXCEPT ![q][o] = @ + 1] \in Counts BY <1>1, <1>2 DEF Counts
<1> QED BY <1>3 DEF sendMessage, Snapshots

LEMMA CastMore ==
  ASSUME NEW v \in Counts, NEW q \in Questions, NEW o \in Options
  PROVE  [v EXCEPT ![q][o] = @ + 1] \in Counts
<1>1. v[q] \in [Options -> Nat] BY DEF Counts
<1>2. [v[q] EXCEPT ![o] = @ + 1] \in [Options -> Nat] BY <1>1
<1> QED BY <1>2 DEF Counts

LEMMA InitTyped == Init => TypeOK
<1> SUFFICES ASSUME Init PROVE TypeOK OBVIOUS
<1>1. Zero \in Counts BY DEF Zero, Counts
<1>2. message \in Snapshots BY <1>1 DEF message, Snapshots
<1>3. log \in Seq(Snapshots) BY <1>2, PollAssumption DEF Init
<1>4. decoded \in Seq(Snapshots) /\ outbox \in Seq(Snapshots) BY DEF Init
<1>5. display \in [Questions -> Seq([Options -> Nat])] BY DEF Init
<1>6. cast \in Counts BY <1>1 DEF Init
<1>7. /\ position \in Nat \union {None, Unassigned}
      /\ toCommit \in Nat \union {None}
      /\ committed \in Nat \union {RD_KAFKA_OFFSET_INVALID}
      /\ listening \in BOOLEAN
      /\ shown \in Nat
      /\ stored \in Nat \union {RD_KAFKA_OFFSET_INVALID}
      /\ shownCommitted \in Nat \union {RD_KAFKA_OFFSET_INVALID}
      /\ faults \in Nat
      /\ lost \in BOOLEAN
      /\ unsent \subseteq Questions /\ unseen \subseteq Questions
      /\ disturbed \in BOOLEAN
  BY PollAssumption DEF Init
<1> QED BY <1>3, <1>4, <1>5, <1>6, <1>7 DEF TypeOK

(* What librdkafka takes, and what becomes of it if it does not.            *)
LEMMA ProducedTyped ==
  ASSUME NEW m \in Snapshots, TypeOK, produce(m)
  PROVE  outbox' \in Seq(Snapshots) /\ lost' \in BOOLEAN /\ unsent' \subseteq Questions
<1>1. m.lastClicked \subseteq Questions
  BY DEF Snapshots
<1>2. outbox \in Seq(Snapshots) /\ unsent \subseteq Questions
  BY DEF TypeOK
<1>3. CASE outbox' = Append(outbox, m) /\ lost' = FALSE /\ unsent' = unsent \ m.lastClicked
  <2>1. Append(outbox, m) \in Seq(Snapshots)
    BY <1>2
  <2> QED
    BY <1>2, <1>3, <2>1
<1>4. CASE outbox' = outbox /\ lost' = TRUE /\ unsent' = unsent \union m.lastClicked
  BY <1>1, <1>2, <1>4
<1> QED
  BY <1>3, <1>4 DEF produce

(* A vote is counted in a snapshot, or not at all.                          *)
LEMMA VoteCases ==
  ASSUME TypeOK, NEW q \in Questions, NEW o \in Options, Vote(q, o)
  PROVE  \/ disturbed' = TRUE /\ UNCHANGED << decoded, outbox, lost, unsent >>
         \/ /\ decoded # << >> /\ disturbed' = (disturbed \/ ~ CaughtUp)
            /\ \E m \in Snapshots : /\ m = sendMessage(decoded[1], q, o) /\ decoded' = << m >>
                                    /\ produce(m)
<1>1. CASE NotCounted
  BY <1>1 DEF NotCounted
<1>2. CASE ~ NotCounted
  <2> DEFINE counted == sendMessage(decoded[1], q, o)
  <2>1. decoded # << >> /\ disturbed' = (disturbed \/ ~ CaughtUp)
    BY <1>2 DEF Vote
  <2>2. decoded' = << counted >> /\ produce(counted)
    BY <1>2 DEF Vote
  <2>3. decoded[1] \in Snapshots
    BY <2>1 DEF TypeOK
  <2>4. counted \in Snapshots
    BY <2>3, SnapshotMade
  <2> HIDE DEF counted
  <2>5. \E m \in Snapshots : m = counted /\ decoded' = << m >> /\ produce(m)
    <3> WITNESS counted \in Snapshots
    <3> QED
      BY <2>2
  <2> QED
    BY <2>1, <2>5 DEF counted
<1> QED
  BY <1>1, <1>2

LEMMA NextTyped == TypeOK /\ [Next]_vars => TypeOK'
<1> SUFFICES ASSUME TypeOK, [Next]_vars PROVE TypeOK'
  OBVIOUS
<1> USE DEF TypeOK, server, audience, history
<1>1. CASE Ready \/ ReadyFails
  BY <1>1 DEF Ready, ReadyFails
<1>2. CASE Data
  <2>1. position + 1 \in 1 .. Len(log) /\ position \in Nat /\ position + 1 \in Nat
    BY <1>2 DEF Data
  <2>2. << log[position + 1] >> \in Seq(Snapshots)
    BY <2>1
  <2> QED
    BY <1>2, <2>1, <2>2 DEF Data
<1>3. CASE OffsetCommit
  BY <1>3 DEF OffsetCommit
<1>4. CASE Deliver
  <2>1. Head(outbox) \in Snapshots
    BY <1>4 DEF Deliver
  <2>2. log' \in Seq(Snapshots) /\ outbox' \in Seq(Snapshots)
    BY <1>4, <2>1 DEF Deliver
  <2> QED
    BY <1>4, <2>2 DEF Deliver
<1>5. ASSUME NEW q \in Questions, NEW o \in Options, Vote(q, o) PROVE TypeOK'
  <2>1. cast' \in Counts
    BY <1>5, CastMore DEF Vote
  <2>2. /\ decoded' \in Seq(Snapshots) /\ outbox' \in Seq(Snapshots) /\ lost' \in BOOLEAN
        /\ unsent' \subseteq Questions /\ disturbed' \in BOOLEAN
    <3>1. CASE disturbed' = TRUE /\ UNCHANGED << decoded, outbox, lost, unsent >>
      BY <3>1
    <3>2. CASE /\ disturbed' = (disturbed \/ ~ CaughtUp)
               /\ \E m \in Snapshots : decoded' = << m >> /\ produce(m)
      <4>1. PICK m \in Snapshots : decoded' = << m >> /\ produce(m)
        BY <3>2
      <4>2. outbox' \in Seq(Snapshots) /\ lost' \in BOOLEAN /\ unsent' \subseteq Questions
        BY <4>1, ProducedTyped
      <4>3. decoded' \in Seq(Snapshots)
        BY <4>1
      <4>4. disturbed' \in BOOLEAN
        BY <3>2
      <4> QED
        BY <4>2, <4>3, <4>4
    <3> QED
      BY <1>5, <3>1, <3>2, VoteCases
  <2>3. UNCHANGED << log, position, toCommit, committed, audience, faults >>
    BY <1>5 DEF Vote
  <2> QED
    BY <2>1, <2>2, <2>3
<1>6. CASE DeliverTwice
  <2>1. Head(outbox) \in Snapshots
    BY <1>6 DEF DeliverTwice
  <2>2. log' \in Seq(Snapshots)
    BY <1>6, <2>1 DEF DeliverTwice
  <2> QED
    BY <1>6, <2>2 DEF DeliverTwice, Fault
<1>7. ASSUME NEW i \in 2 .. Len(outbox), DeliverLate(i) PROVE TypeOK'
  <2>1. RemoveAt(outbox, i) \in Seq(Snapshots) /\ outbox[i] \in Snapshots
    BY RemovedElement
  <2>2. log' \in Seq(Snapshots) /\ outbox' \in Seq(Snapshots)
    BY <1>7, <2>1 DEF DeliverLate
  <2> QED
    BY <1>7, <2>2 DEF DeliverLate, Fault
<1>8. ASSUME NEW i \in 1 .. Len(outbox), DeliveryFails(i) PROVE TypeOK'
  <2>1. RemoveAt(outbox, i) \in Seq(Snapshots) /\ outbox[i] \in Snapshots
    BY RemovedElement
  <2>2. outbox[i].lastClicked \subseteq Questions
    BY <2>1 DEF Snapshots
  <2>3. outbox' \in Seq(Snapshots) /\ lost' \in BOOLEAN /\ unsent' \subseteq Questions
    BY <1>8, <2>1, <2>2 DEF DeliveryFails
  <2> QED
    BY <1>8, <2>3 DEF DeliveryFails
<1>9. CASE Crash
  BY <1>9 DEF Crash, Fault
<1>10. CASE consumerStart
  <2>1. ASSUME NEW i \in shown + 1 .. Len(log) PROVE log[i].lastClicked \subseteq Questions
    <3>1. log[i] \in Snapshots
      OBVIOUS
    <3> QED
      BY <3>1 DEF Snapshots
  <2>2. UNION { log[i].lastClicked : i \in shown + 1 .. Len(log) } \subseteq Questions
    BY <2>1
  <2>3. shown' \in Nat /\ unseen' \subseteq Questions
    BY <1>10, <2>2 DEF consumerStart
  <2> QED
    BY <1>10, <2>3 DEF consumerStart
<1>11. CASE EachMessage
  <2> DEFINE q == CHOOSE c \in log[shown + 1].lastClicked : TRUE
  <2>1. log[shown + 1] \in Snapshots
    <3>1. shown + 1 \in 1 .. Len(log)
      BY <1>11 DEF EachMessage
    <3> QED
      BY <3>1
  <2>2. log[shown + 1].lastClicked \subseteq Questions /\ log[shown + 1].lastClicked # {}
    BY <1>11, <2>1 DEF Snapshots, EachMessage
  <2>3. q \in Questions
    BY <2>2
  <2>4. display' = [display EXCEPT ![q] = << log[shown + 1].votes[q] >>] /\ unseen' = unseen \ {q}
    BY <1>11 DEF EachMessage
  <2> HIDE DEF q
  <2>5. log[shown + 1].votes[q] \in [Options -> Nat]
    BY <2>1, <2>3 DEF Snapshots, Counts
  <2>6. << log[shown + 1].votes[q] >> \in Seq([Options -> Nat])
    BY <2>5
  <2>7. display' \in [Questions -> Seq([Options -> Nat])] /\ unseen' \subseteq Questions
    BY <2>3, <2>4, <2>6
  <2>8. shown' \in Nat /\ stored' \in Nat
    BY <1>11 DEF EachMessage
  <2> QED
    BY <1>11, <2>7, <2>8 DEF EachMessage
<1>12. CASE commitOffsets
  <2>1. shownCommitted' = stored /\ stored \in Nat \union {RD_KAFKA_OFFSET_INVALID}
    BY <1>12 DEF commitOffsets
  <2> QED
    BY <1>12, <2>1 DEF commitOffsets
<1>14. CASE Stop
  <2>1. /\ listening' = FALSE /\ stored' = RD_KAFKA_OFFSET_INVALID /\ faults' = faults + 1
        /\ UNCHANGED << log, outbox, server, shown, shownCommitted, display, unseen, history >>
    BY <1>14 DEF Stop, Fault
  <2>2. faults' \in Nat
    <3>1. faults' = faults + 1 /\ faults \in Nat
      BY <2>1
    <3> QED
      BY ONLY <3>1
  <2>4. listening' \in BOOLEAN
    <3>1. listening' = FALSE
      BY <2>1
    <3> QED
      BY ONLY <3>1
  <2>3. stored' \in Nat \union {RD_KAFKA_OFFSET_INVALID}
    BY <2>1
  <2> QED
    BY <2>1, <2>2, <2>3, <2>4
<1>13. CASE UNCHANGED vars
  BY <1>13 DEF vars
<1> QED
  BY <1>1, <1>2, <1>3, <1>4, <1>5, <1>6, <1>7, <1>8, <1>9, <1>10, <1>11, <1>12,
     <1>13, <1>14 DEF Next

-----------------------------------------------------------------------------
(* Within, with the votes cast as a parameter, so that two states compare   *)
Bounded(votes, by) == \A q \in Questions : \A o \in Options : votes[q][o] <= by[q][o]

(* The count that a vote makes is within what is cast then.                 *)
LEMMA VoteWithin ==
  ASSUME NEW s \in Snapshots, NEW v \in Counts, Bounded(s.votes, v),
         NEW q \in Questions, NEW o \in Options
  PROVE  Bounded(sendMessage(s, q, o).votes, [v EXCEPT ![q][o] = @ + 1])
<1> DEFINE made == [s.votes EXCEPT ![q][o] = @ + 1]
           now == [v EXCEPT ![q][o] = @ + 1]
<1>1. s.votes \in Counts BY DEF Snapshots
<1>2. sendMessage(s, q, o).votes = made BY DEF sendMessage
<1>3. ASSUME NEW p \in Questions, NEW x \in Options PROVE made[p][x] <= now[p][x]
  <2>1. s.votes[p][x] \in Nat /\ v[p][x] \in Nat /\ s.votes[p][x] <= v[p][x]
    BY <1>1 DEF Counts, Bounded
  <2>2. CASE p = q /\ x = o
    BY <1>1, <2>1, <2>2 DEF Counts
  <2>3. CASE ~ (p = q /\ x = o)
    <3>1. made[p][x] = s.votes[p][x] BY <1>1, <2>3 DEF Counts
    <3>2. now[p][x] = v[p][x] BY <2>3 DEF Counts
    <3> QED BY <2>1, <3>1, <3>2
  <2> QED BY <2>2, <2>3
<1> QED BY <1>2, <1>3 DEF Bounded

(* What was within before a vote is within after it.                        *)
LEMMA StaysWithin ==
  ASSUME NEW s \in Snapshots, NEW v \in Counts, Bounded(s.votes, v),
         NEW q \in Questions, NEW o \in Options
  PROVE  Bounded(s.votes, [v EXCEPT ![q][o] = @ + 1])
<1>1. s.votes \in Counts BY DEF Snapshots
<1>2. ASSUME NEW p \in Questions, NEW x \in Options
      PROVE  s.votes[p][x] <= [v EXCEPT ![q][o] = @ + 1][p][x]
  <2>1. s.votes[p][x] \in Nat /\ v[p][x] \in Nat /\ s.votes[p][x] <= v[p][x]
    BY <1>1 DEF Counts, Bounded
  <2>2. CASE p = q /\ x = o BY <2>1, <2>2 DEF Counts
  <2>3. CASE ~ (p = q /\ x = o) BY <2>1, <2>3 DEF Counts
  <2> QED BY <2>2, <2>3
<1> QED BY <1>2 DEF Bounded

(* Every snapshot of a sequence is within.                                  *)
AllWithin(s, by) == \A i \in 1 .. Len(s) : Bounded(s[i].votes, by)

LEMMA NeverOvercountsAsBounds ==
  NeverOvercounts <=> AllWithin(log, cast) /\ AllWithin(outbox, cast) /\ AllWithin(decoded, cast)
  BY DEF NeverOvercounts, AllWithin, Bounded, Within

LEMMA NextWithin == TypeOK /\ NeverOvercounts /\ [Next]_vars => NeverOvercounts'
<1> SUFFICES ASSUME TypeOK, NeverOvercounts, [Next]_vars PROVE NeverOvercounts'
  OBVIOUS
<1>0. AllWithin(log, cast) /\ AllWithin(outbox, cast) /\ AllWithin(decoded, cast)
  BY NeverOvercountsAsBounds
<1>a. ASSUME AllWithin(log', cast'), AllWithin(outbox', cast'), AllWithin(decoded', cast')
      PROVE  NeverOvercounts'
  BY <1>a DEF NeverOvercounts, AllWithin, Bounded, Within
<1> USE <1>0 DEF TypeOK, server, audience, history
<1>1. CASE \/ Ready \/ ReadyFails \/ OffsetCommit \/ consumerStart \/ EachMessage
         \/ commitOffsets \/ Stop \/ UNCHANGED vars
  <2>1. UNCHANGED << log, outbox, decoded, cast >>
    BY <1>1 DEF Ready, ReadyFails, OffsetCommit, consumerStart, EachMessage, commitOffsets, Stop,
                vars
  <2> QED BY <2>1, <1>a
<1>2. CASE Data
  <2>1. position + 1 \in 1 .. Len(log) BY <1>2 DEF Data
  <2>2. Bounded(log[position + 1].votes, cast) BY <2>1 DEF AllWithin
  <2>3. decoded' = << log[position + 1] >> BY <1>2 DEF Data
  <2>4. AllWithin(decoded', cast)
    <3>1. Len(decoded') = 1 /\ decoded'[1] = log[position + 1] BY <2>3
    <3> QED BY <2>2, <3>1 DEF AllWithin
  <2> QED BY <1>2, <2>4, <1>a DEF Data
<1>3. CASE Deliver
  <2>1. AllWithin(log', cast) BY <1>3 DEF Deliver, AllWithin
  <2>2. AllWithin(outbox', cast) BY <1>3 DEF Deliver, AllWithin
  <2> QED BY <1>3, <2>1, <2>2, <1>a DEF Deliver
<1>4. ASSUME NEW q \in Questions, NEW o \in Options, Vote(q, o) PROVE NeverOvercounts'
  <2>1. cast' = [cast EXCEPT ![q][o] = @ + 1] /\ log' = log BY <1>4 DEF Vote
  <2>2. ASSUME NEW s \in Seq(Snapshots), AllWithin(s, cast) PROVE AllWithin(s, cast')
    <3> SUFFICES ASSUME NEW i \in 1 .. Len(s) PROVE Bounded(s[i].votes, cast')
      BY DEF AllWithin
    <3>1. s[i] \in Snapshots /\ Bounded(s[i].votes, cast) BY <2>2 DEF AllWithin
    <3> QED BY <2>1, <3>1, StaysWithin
  <2>3. CASE UNCHANGED << decoded, outbox >>
    BY <2>1, <2>2, <2>3, <1>a
  <2>4. CASE /\ decoded # << >>
             /\ \E m \in Snapshots : /\ m = sendMessage(decoded[1], q, o) /\ decoded' = << m >>
                                     /\ produce(m)
    <3>0. PICK m \in Snapshots : /\ m = sendMessage(decoded[1], q, o) /\ decoded' = << m >>
                                /\ produce(m)
      BY <2>4
    <3>1. decoded[1] \in Snapshots /\ Bounded(decoded[1].votes, cast)
      BY <2>4 DEF AllWithin
    <3>2. Bounded(m.votes, cast')
      BY <2>1, <3>0, <3>1, VoteWithin
    <3>3. AllWithin(decoded', cast')
      BY <3>0, <3>2 DEF AllWithin
    <3>4. AllWithin(outbox, cast')
      BY <2>2
    <3>5. AllWithin(outbox', cast')
      <4>1. CASE outbox' = outbox
        BY <3>4, <4>1
      <4>2. CASE outbox' = Append(outbox, m)
        BY <3>2, <3>4, <4>2 DEF AllWithin
      <4> QED
        BY <3>0, <4>1, <4>2 DEF produce
    <3> QED
      BY <2>1, <2>2, <3>3, <3>5, <1>a
  <2> QED
    BY <1>4, <2>3, <2>4, VoteCases
<1>5. CASE DeliverTwice
  <2>1. AllWithin(log', cast) BY <1>5 DEF DeliverTwice, AllWithin
  <2> QED BY <1>5, <2>1, <1>a DEF DeliverTwice
<1>6. ASSUME NEW i \in 2 .. Len(outbox), DeliverLate(i) PROVE NeverOvercounts'
  <2>1. AllWithin(log', cast) BY <1>6 DEF DeliverLate, AllWithin
  <2>2. AllWithin(RemoveAt(outbox, i), cast)
    <3>1. \A j \in 1 .. Len(RemoveAt(outbox, i)) :
            \E k \in 1 .. Len(outbox) : RemoveAt(outbox, i)[j] = outbox[k]
      <4>1. outbox \in Seq(Snapshots) /\ i \in 1 .. Len(outbox)
        OBVIOUS
      <4> QED
        BY ONLY <4>1, RemovedElement
    <3> QED BY <3>1 DEF AllWithin
  <2> QED BY <1>6, <2>1, <2>2, <1>a DEF DeliverLate
<1>7. ASSUME NEW i \in 1 .. Len(outbox), DeliveryFails(i) PROVE NeverOvercounts'
  <2>1. AllWithin(RemoveAt(outbox, i), cast)
    <3>1. \A j \in 1 .. Len(RemoveAt(outbox, i)) :
            \E k \in 1 .. Len(outbox) : RemoveAt(outbox, i)[j] = outbox[k]
      <4>1. outbox \in Seq(Snapshots) /\ i \in 1 .. Len(outbox)
        OBVIOUS
      <4> QED
        BY ONLY <4>1, RemovedElement
    <3> QED BY <3>1 DEF AllWithin
  <2>2. UNCHANGED << log, decoded, cast >> /\ outbox' = RemoveAt(outbox, i)
    BY <1>7 DEF DeliveryFails
  <2> QED BY <2>1, <2>2, <1>a
<1>8. CASE Crash
  <2>1. AllWithin(<< >>, cast) BY DEF AllWithin
  <2> QED BY <1>8, <2>1, <1>a DEF Crash
<1> QED BY <1>1, <1>2, <1>3, <1>4, <1>5, <1>6, <1>7, <1>8 DEF Next

LEMMA InitWithin == Init => NeverOvercounts
<1> SUFFICES ASSUME Init PROVE NeverOvercounts OBVIOUS
<1>1. \A q \in Questions : \A o \in Options : Zero[q][o] = 0 BY DEF Zero
<1>2. \A i \in 1 .. Len(log) : log[i].votes = Zero
  BY PollAssumption DEF Init, message
<1>3. cast = Zero /\ decoded = << >> /\ outbox = << >> BY DEF Init
<1>4. Within(Zero) BY <1>1, <1>3 DEF Within
<1> QED BY <1>2, <1>3, <1>4 DEF NeverOvercounts

(* The type of every part of the state, whatever votes and faults come.     *)
THEOREM PollTypeCorrect == Spec => []TypeOK
<1> QED BY InitTyped, NextTyped, PTL DEF Spec

(* However stale the snapshot that a vote is added to, no count ever passes *)
(* the votes that were cast.                                                *)
THEOREM PollNeverOvercounts == Spec => []NeverOvercounts
<1>1. Init => TypeOK /\ NeverOvercounts BY InitTyped, InitWithin
<1>2. TypeOK /\ NeverOvercounts /\ [Next]_vars => (TypeOK /\ NeverOvercounts)'
  BY NextTyped, NextWithin
<1> QED BY <1>1, <1>2, PTL DEF Spec

-----------------------------------------------------------------------------
(* What the newest snapshot counts when nothing disturbs the poll *)

(* No message after the i-th, delivered or on its way, is about q.          *)
Settled(q, i) ==
  /\ \A j \in i + 1 .. Len(log) : q \notin log[j].lastClicked
  /\ \A j \in 1 .. Len(outbox) : q \notin outbox[j].lastClicked

OneClicked(s) == \A i \in 1 .. Len(s) : \A p, q \in s[i].lastClicked : p = q

(* A question that was clicked was voted on.                                *)
Clicked(s) == \A i \in 1 .. Len(s) : \A q \in s[i].lastClicked : cast[q] # Zero[q]

(* Every reader is within the log, and a restarted program has read nothing. *)
Positions ==
  /\ position \in {None, Unassigned} \union 0 .. Len(log)
  /\ toCommit \in {None} \union 0 .. Len(log) - 1
  /\ committed \in {RD_KAFKA_OFFSET_INVALID} \union 0 .. Len(log) - 1
  /\ position \in {None, Unassigned} => decoded = << >>
  /\ Len(log) >= 1 /\ shown <= Len(log)
  /\ stored \in {RD_KAFKA_OFFSET_INVALID, shown}
  /\ shownCommitted \in {RD_KAFKA_OFFSET_INVALID} \union 0 .. shown
  /\ ~ listening => stored = RD_KAFKA_OFFSET_INVALID

(* While a snapshot is on its way, or the last one was lost, the server has *)
(* counted all the votes, and nothing it still has to read counts less.     *)
Held ==
  lost \/ outbox # << >> =>
    /\ decoded # << >> /\ decoded[1].votes = cast
    /\ position \in 0 .. Len(log)
    /\ \A j \in position + 1 .. Len(log) : log[j].votes = cast

(* The last message about a question counts all its votes, and so does all  *)
(* that comes after it, unless it was lost; and the newest counts all votes. *)
Tally ==
  /\ Len(outbox) <= 1 /\ \A i \in 1 .. Len(outbox) : outbox[i].votes = cast
  /\ \A q \in Questions \ unsent : \A i \in 1 .. Len(log) :
       Settled(q, i) => log[i].votes[q] = cast[q]
  /\ ~ lost /\ outbox = << >> => log[Len(log)].votes = cast
  /\ CaughtUp => decoded[1].votes = cast

Bar(q) == IF cast[q] = Zero[q] THEN << >> ELSE << cast[q] >>

Shown == \A q \in Questions \ (unsent \union unseen) : Settled(q, shown) => display[q] = Bar(q)

(* All of it holds until something disturbs the poll.                       *)
Kept ==
  /\ Positions /\ Held /\ Tally /\ Shown
  /\ OneClicked(log) /\ OneClicked(outbox)
  /\ Clicked(log) /\ Clicked(outbox)

Undisturbed == ~ disturbed => Kept

(* A sequence with at most one element is empty once its head is taken.      *)
LEMMA OneMessage ==
  ASSUME NEW S, NEW s \in Seq(S), s # << >>, Len(s) <= 1
  PROVE  Len(s) = 1 /\ Head(s) = s[1] /\ s[1] \in S /\ Tail(s) = << >>
<1>1. Len(s) \in Nat /\ Len(s) # 0
  OBVIOUS
<1>2. Len(s) = 1
  BY <1>1
<1>3. Head(s) = s[1] /\ s[1] \in S
  BY <1>2
<1>4. Tail(s) = << >>
  <2>1. Len(Tail(s)) = 0 /\ Tail(s) \in Seq(S)
    BY <1>2
  <2>2. \A t \in Seq(S) : Len(t) = 0 => t = << >>
    OBVIOUS
  <2> QED
    BY <2>1, <2>2
<1> QED
  BY <1>2, <1>3, <1>4

(* A question is settled once what was on its way to the log has come.      *)
LEMMA DeliveredSettles ==
  ASSUME TypeOK, outbox # << >>, log' = Append(log, Head(outbox)),
         outbox' = Tail(outbox) \/ outbox' = outbox, Len(outbox) <= 1,
         NEW q \in Questions, NEW i \in 0 .. Len(log), Settled(q, i)'
  PROVE  Settled(q, i) /\ q \notin Head(outbox).lastClicked
<1> USE DEF TypeOK
<1>1. Len(outbox) = 1 /\ Head(outbox) = outbox[1] /\ outbox[1] \in Snapshots
  BY OneMessage
<1>2. /\ Len(log') = Len(log) + 1 /\ log'[Len(log) + 1] = outbox[1]
      /\ \A j \in 1 .. Len(log) : log'[j] = log[j]
  BY <1>1
<1>3. \A j \in i + 1 .. Len(log) + 1 : q \notin log'[j].lastClicked
  BY <1>2 DEF Settled
<1>4. q \notin outbox[1].lastClicked
  <2>1. Len(log) + 1 \in i + 1 .. Len(log) + 1
    OBVIOUS
  <2> QED
    BY <1>2, <1>3, <2>1
<1>5. \A j \in i + 1 .. Len(log) : q \notin log[j].lastClicked
  <2> SUFFICES ASSUME NEW j \in i + 1 .. Len(log) PROVE q \notin log[j].lastClicked
    OBVIOUS
  <2>1. j \in 1 .. Len(log) /\ j \in i + 1 .. Len(log) + 1
    OBVIOUS
  <2> QED
    BY <1>2, <1>3, <2>1
<1> QED
  BY <1>1, <1>4, <1>5 DEF Settled

(* The question that is voted on has votes then, and no other changes.       *)
LEMMA CastGrows ==
  ASSUME NEW v \in Counts, NEW q \in Questions, NEW o \in Options, NEW p \in Questions
  PROVE  /\ p # q => [v EXCEPT ![q][o] = @ + 1][p] = v[p]
         /\ p = q \/ v[p] # Zero[p] => [v EXCEPT ![q][o] = @ + 1][p] # Zero[p]
<1> DEFINE now == [v EXCEPT ![q][o] = @ + 1]
<1>1. v[q] \in [Options -> Nat]
  BY DEF Counts
<1>2. now[q] = [v[q] EXCEPT ![o] = @ + 1]
  BY DEF Counts
<1>3. now[q][o] = v[q][o] + 1 /\ v[q][o] \in Nat
  BY <1>1, <1>2
<1>4. Zero[q][o] = 0
  BY DEF Zero
<1>5. now[q] # Zero[q]
  BY <1>3, <1>4
<1>6. p # q => now[p] = v[p]
  BY DEF Counts
<1> QED
  BY <1>5, <1>6

(* A step of the server that changes nothing but what it has read.           *)
LEMMA ServerKeeps ==
  ASSUME TypeOK, Kept, UNCHANGED << log, outbox, audience, cast, lost, unsent >>,
         Positions', Held', CaughtUp' => decoded'[1].votes = cast
  PROVE  Kept'
<1>1. Tally'
  BY DEF Kept, Tally, Settled
<1>2. Shown'
  BY DEF Kept, Shown, Settled, Bar, audience
<1>3. OneClicked(log)' /\ OneClicked(outbox)' /\ Clicked(log)' /\ Clicked(outbox)'
  BY DEF Kept, OneClicked, Clicked
<1> QED
  BY <1>1, <1>2, <1>3 DEF Kept

(* A step of consumer.js changes nothing but where it is and what is shown.  *)
LEMMA AudienceKeeps ==
  ASSUME TypeOK, Kept, UNCHANGED << log, outbox, server, cast, lost, unsent >>,
         Positions', Shown'
  PROVE  Kept'
<1>1. Tally'
  BY DEF Kept, Tally, Settled, CaughtUp, server
<1>2. Held'
  BY DEF Kept, Held, server
<1>3. OneClicked(log)' /\ OneClicked(outbox)' /\ Clicked(log)' /\ Clicked(outbox)'
  BY DEF Kept, OneClicked, Clicked
<1> QED
  BY <1>1, <1>2, <1>3 DEF Kept

(* What the server reads counts all votes, if it is the last or some are not *)
(* in the topic.                                                             *)
LEMMA DataKeeps ==
  ASSUME TypeOK, Kept, Data
  PROVE  Kept'
<1> USE DEF TypeOK
<1>1. /\ position \in 0 .. Len(log) - 1 /\ position' = position + 1 /\ toCommit' = position
      /\ decoded' = << log[position + 1] >>
      /\ UNCHANGED << log, outbox, committed, audience, cast, lost, unsent >>
  BY DEF Data, history
<1>2. decoded' # << >> /\ decoded'[1] = log[position + 1]
  BY <1>1
<1>3. Positions'
  BY <1>1, <1>2 DEF Kept, Positions, None, Unassigned, audience
<1>4. ASSUME lost \/ outbox # << >>
      PROVE  /\ log[position + 1].votes = cast
             /\ \A j \in position + 2 .. Len(log) : log[j].votes = cast
  <2>1. \A j \in position + 1 .. Len(log) : log[j].votes = cast
    BY <1>4 DEF Kept, Held
  <2> QED
    BY <1>1, <2>1
<1>5. Held'
  <2>1. position + 1 \in 0 .. Len(log) /\ position + 1 + 1 = position + 2
    BY <1>1
  <2> QED
    BY <1>1, <1>2, <1>4, <2>1 DEF Held
<1>6. ASSUME CaughtUp' PROVE decoded'[1].votes = cast
  <2>1. position + 1 = Len(log) /\ outbox = << >>
    BY <1>1, <1>6 DEF CaughtUp
  <2>2. CASE lost
    BY <1>2, <1>4, <2>2
  <2>3. CASE ~ lost
    BY <1>2, <2>1, <2>3 DEF Kept, Tally
  <2> QED
    BY <2>2, <2>3
<1> QED
  BY <1>1, <1>3, <1>5, <1>6, ServerKeeps

(* A delivery, also one that is repeated, keeps the tally.                   *)
LEMMA DeliveryKeeps ==
  ASSUME TypeOK, Kept, outbox # << >>, log' = Append(log, Head(outbox)),
         outbox' = Tail(outbox) \/ outbox' = outbox,
         UNCHANGED << server, audience, cast, lost, unsent >>
  PROVE  Kept'
<1> USE DEF TypeOK, server, audience
<1>0. /\ Positions /\ Held /\ Tally /\ Shown /\ Len(outbox) <= 1
      /\ OneClicked(log) /\ OneClicked(outbox) /\ Clicked(log) /\ Clicked(outbox)
  BY DEF Kept, Tally
<1>1. /\ Len(outbox) = 1 /\ Head(outbox) = outbox[1] /\ outbox[1] \in Snapshots
      /\ outbox' = outbox \/ outbox' = << >>
  BY <1>0, OneMessage
<1>1a. outbox[1].votes = cast
  BY <1>0, <1>1 DEF Tally
<1>2. /\ Len(log') = Len(log) + 1 /\ log'[Len(log) + 1] = outbox[1]
      /\ \A j \in 1 .. Len(log) : log'[j] = log[j]
  BY <1>1
<1>3. /\ Len(outbox') <= 1
      /\ \A j \in 1 .. Len(outbox') : outbox'[j] = outbox[1]
  <2>1. CASE outbox' = outbox
    <3>1. \A j \in 1 .. Len(outbox) : j = 1
      BY <1>1
    <3> QED
      BY ONLY <1>1, <2>1, <3>1
  <2>2. CASE outbox' = << >>
    BY <2>2
  <2> QED
    BY <1>1, <2>1, <2>2
<1>4. Positions'
  BY <1>0, <1>2 DEF Positions
<1>5. Held'
  <2>1. /\ decoded # << >> /\ decoded[1].votes = cast /\ position \in 0 .. Len(log)
        /\ \A j \in position + 1 .. Len(log) : log[j].votes = cast
    BY <1>0 DEF Held
  <2>2. ASSUME NEW j \in position + 1 .. Len(log) + 1 PROVE log'[j].votes = cast
    <3>1. CASE j = Len(log) + 1
      BY <1>1a, <1>2, <3>1
    <3>2. CASE j # Len(log) + 1
      <4>1. j \in 1 .. Len(log) /\ j \in position + 1 .. Len(log)
        BY <2>1, <3>2
      <4> QED
        BY <1>2, <2>1, <4>1
    <3> QED
      BY <3>1, <3>2
  <2>3. position \in 0 .. Len(log) + 1
    BY <2>1
  <2> QED
    BY <1>2, <2>1, <2>2, <2>3 DEF Held
<1>6. OneClicked(log)' /\ OneClicked(outbox)' /\ Clicked(log)' /\ Clicked(outbox)'
  <2>1. 1 \in 1 .. Len(outbox)
    BY <1>1
  <2>2. /\ \A p, q \in outbox[1].lastClicked : p = q
        /\ \A q \in outbox[1].lastClicked : cast[q] # Zero[q]
    BY <1>0, <2>1 DEF OneClicked, Clicked
  <2>3. \A j \in 1 .. Len(log') :
          log'[j] = outbox[1] \/ (j \in 1 .. Len(log) /\ log'[j] = log[j])
    <3>1. \A j \in 1 .. Len(log) + 1 : j = Len(log) + 1 \/ j \in 1 .. Len(log)
      OBVIOUS
    <3> QED
      BY ONLY <1>2, <3>1
  <2>4. UNCHANGED cast
    OBVIOUS
  <2> QED
    BY ONLY <1>0, <1>3, <2>2, <2>3, <2>4 DEF OneClicked, Clicked
<1>7. ASSUME NEW q \in Questions \ unsent, NEW i \in 1 .. Len(log'), Settled(q, i)'
      PROVE  log'[i].votes[q] = cast[q]
  <2>1. CASE i = Len(log) + 1
    BY <1>1a, <1>2, <2>1
  <2>2. CASE i \in 1 .. Len(log)
    <3>1. Settled(q, i)
      BY <1>0, <1>7, <2>2, DeliveredSettles
    <3> QED
      BY <1>0, <1>2, <2>2, <3>1 DEF Tally
  <2> QED
    BY <1>2, <2>1, <2>2
<1>8. ~ CaughtUp'
  BY <1>0, <1>2 DEF CaughtUp, Positions, None, Unassigned
<1>9. Tally'
  BY <1>1, <1>1a, <1>2, <1>3, <1>7, <1>8 DEF Tally
<1>10. Shown'
  <2> SUFFICES ASSUME NEW q \in Questions \ (unsent \union unseen), Settled(q, shown)'
               PROVE  display[q] = Bar(q)
    BY DEF Shown, Bar
  <2>1. shown \in 0 .. Len(log)
    BY <1>0 DEF Positions
  <2>2. Settled(q, shown)
    BY <1>0, <2>1, DeliveredSettles
  <2> QED
    BY <1>0, <2>2 DEF Shown
<1> QED
  BY <1>4, <1>5, <1>6, <1>9, <1>10 DEF Kept

(* When the message that is on its way is lost, the server still counts it,  *)
(* and only the question it was about is no longer shown all its votes.      *)
LEMMA DeliveryFailsKeeps ==
  ASSUME TypeOK, Kept, NEW k \in 1 .. Len(outbox), DeliveryFails(k)
  PROVE  Kept'
<1> USE DEF TypeOK, server, audience
<1>0. /\ Positions /\ Held /\ Tally /\ Shown /\ Len(outbox) <= 1
      /\ OneClicked(log) /\ Clicked(log)
  BY DEF Kept, Tally
<1>1. Len(outbox) = 1 /\ k = 1 /\ outbox # << >>
  <2>1. Len(outbox) \in Nat /\ k \in 1 .. Len(outbox) /\ Len(outbox) <= 1
    BY <1>0
  <2>2. \A n \in Nat : \A j \in 1 .. n : n <= 1 => n = 1 /\ j = 1
    OBVIOUS
  <2>3. Len(outbox) = 1 /\ k = 1
    BY ONLY <2>1, <2>2
  <2>4. Len(<< >>) = 0
    OBVIOUS
  <2> QED
    BY ONLY <2>3, <2>4
<1>2. outbox' = << >>
  <2>1. /\ RemoveAt(outbox, k) \in Seq(Snapshots)
        /\ Len(RemoveAt(outbox, k)) = Len(outbox) - 1
    <3>1. outbox \in Seq(Snapshots)
      OBVIOUS
    <3> QED
      BY ONLY <3>1, RemovedElement, RemovedLength
  <2>2. \A t \in Seq(Snapshots) : Len(t) = 0 => t = << >>
    OBVIOUS
  <2>3. RemoveAt(outbox, k) = << >>
    BY <1>1, <2>1, <2>2
  <2> QED
    BY <2>3 DEF DeliveryFails
<1>3. /\ lost' = TRUE /\ unsent' = unsent \union outbox[1].lastClicked
      /\ UNCHANGED << log, server, audience, cast >>
  BY <1>1 DEF DeliveryFails
<1>4. ASSUME NEW q \in Questions \ unsent', NEW i \in Nat, Settled(q, i)'
      PROVE  Settled(q, i) /\ q \notin unsent
  <2>1. q \notin outbox[1].lastClicked /\ q \notin unsent
    BY <1>3
  <2>2. \A j \in 1 .. Len(outbox) : j = 1
    BY <1>1
  <2>3. \A j \in i + 1 .. Len(log) : q \notin log[j].lastClicked
    BY <1>3, <1>4 DEF Settled
  <2> QED
    BY <2>1, <2>2, <2>3 DEF Settled
<1>5. Positions'
  BY <1>0, <1>3 DEF Positions
<1>6. Held'
  BY <1>0, <1>1, <1>3 DEF Held
<1>7. Tally'
  <2>1. Len(outbox') <= 1 /\ \A i \in 1 .. Len(outbox') : outbox'[i].votes = cast'
    BY <1>2
  <2>2. \A q \in Questions \ unsent' : \A i \in 1 .. Len(log) :
          Settled(q, i)' => log[i].votes[q] = cast[q]
    BY <1>0, <1>4 DEF Tally
  <2>3. decoded[1].votes = cast
    BY <1>0, <1>1 DEF Held
  <2> QED
    BY <1>3, <2>1, <2>2, <2>3 DEF Tally
<1>8. Shown'
  BY <1>0, <1>3, <1>4 DEF Shown, Bar
<1>9. OneClicked(log)' /\ OneClicked(outbox)' /\ Clicked(log)' /\ Clicked(outbox)'
  BY <1>0, <1>2, <1>3 DEF OneClicked, Clicked
<1> QED
  BY <1>5, <1>6, <1>7, <1>8, <1>9 DEF Kept

(* A vote that comes when the server has caught up adds to the counts cast,  *)
(* whether or not its snapshot can be produced.                              *)
LEMMA VoteKeeps ==
  ASSUME TypeOK, Kept, NEW q \in Questions, NEW o \in Options, Vote(q, o), ~ disturbed'
  PROVE  Kept'
<1> USE DEF TypeOK, server, audience
<1>0. /\ Positions /\ Held /\ Tally /\ Shown
      /\ OneClicked(log) /\ OneClicked(outbox) /\ Clicked(log) /\ Clicked(outbox)
  BY DEF Kept
<1>1. PICK m \in Snapshots : m = sendMessage(decoded[1], q, o) /\ decoded' = << m >> /\ produce(m)
  BY VoteCases
<1>2. CaughtUp
  BY VoteCases
<1>3. /\ decoded # << >> /\ outbox = << >> /\ position = Len(log)
      /\ decoded[1].votes = cast
      /\ cast' = [cast EXCEPT ![q][o] = @ + 1]
      /\ UNCHANGED << log, position, toCommit, committed, audience >>
  BY <1>0, <1>2 DEF Vote, CaughtUp, Tally
<1>4. m.votes = cast' /\ m.lastClicked = {q}
  BY <1>1, <1>3 DEF sendMessage
<1>5. decoded' # << >> /\ decoded'[1].votes = cast'
  BY <1>1, <1>4
<1>6. \/ /\ Len(outbox') = 1 /\ outbox'[1] = m /\ outbox' # << >>
         /\ lost' = FALSE /\ unsent' = unsent \ {q}
      \/ outbox' = << >> /\ lost' = TRUE /\ unsent' = unsent \union {q}
  <2>1. CASE outbox' = Append(outbox, m) /\ lost' = FALSE /\ unsent' = unsent \ m.lastClicked
    <3>1. outbox' = << m >>
      BY <1>3, <2>1
    <3>2. Len(outbox') = 1 /\ outbox'[1] = m /\ outbox' # << >>
      BY <3>1
    <3>3. lost' = FALSE /\ unsent' = unsent \ {q}
      BY <1>4, <2>1
    <3> QED
      BY <3>2, <3>3
  <2>2. CASE outbox' = outbox /\ lost' = TRUE /\ unsent' = unsent \union m.lastClicked
    BY <1>3, <1>4, <2>2
  <2> QED
    BY <1>1, <2>1, <2>2 DEF produce
<1>7. ASSUME NEW p \in Questions
      PROVE  /\ p # q => cast'[p] = cast[p]
             /\ p = q \/ cast[p] # Zero[p] => cast'[p] # Zero[p]
  <2>1. cast \in Counts /\ cast' = [cast EXCEPT ![q][o] = @ + 1]
    BY <1>3
  <2> QED
    BY ONLY <2>1, CastGrows
<1>8. ASSUME NEW p \in Questions \ unsent', NEW i \in Nat, Settled(p, i)'
      PROVE  Settled(p, i) /\ p # q /\ p \notin unsent /\ cast'[p] = cast[p]
  <2>1. p # q
    <3>1. CASE outbox' # << >>
      BY <1>4, <1>6, <1>8, <3>1 DEF Settled
    <3>2. CASE outbox' = << >>
      BY <1>6, <3>2
    <3> QED
      BY <3>1, <3>2
  <2>2. p \notin unsent
    BY <1>6, <2>1
  <2>3. \A j \in i + 1 .. Len(log) : p \notin log[j].lastClicked
    BY <1>3, <1>8 DEF Settled
  <2> QED
    BY <1>3, <1>7, <2>1, <2>2, <2>3 DEF Settled
<1>9. Positions'
  BY <1>0, <1>3 DEF Positions, None, Unassigned
<1>10. Held'
  <2>1. position \in 0 .. Len(log) /\ \A j \in position + 1 .. Len(log) : FALSE
    BY <1>3
  <2> QED
    BY <1>3, <1>5, <2>1 DEF Held
<1>11. Len(outbox') <= 1 /\ \A i \in 1 .. Len(outbox') : outbox'[i] = m
  <2>1. CASE outbox' # << >>
    <3>1. Len(outbox') = 1 /\ outbox'[1] = m
      BY <1>6, <2>1
    <3>2. \A i \in 1 .. Len(outbox') : i = 1
      BY <3>1
    <3> QED
      BY ONLY <3>1, <3>2
  <2>2. CASE outbox' = << >>
    BY <2>2
  <2> QED
    BY <2>1, <2>2
<1>12. Tally'
  <2>1. \A p \in Questions \ unsent' : \A i \in 1 .. Len(log) :
          Settled(p, i)' => log[i].votes[p] = cast'[p]
    BY <1>0, <1>8 DEF Tally
  <2>2. ~ (~ lost' /\ outbox' = << >>)
    BY <1>6
  <2>3. \A i \in 1 .. Len(outbox') : outbox'[i].votes = cast'
    BY <1>4, <1>11
  <2> QED
    BY ONLY <1>3, <1>5, <1>11, <2>1, <2>2, <2>3 DEF Tally
<1>13. Shown'
  <2> SUFFICES ASSUME NEW p \in Questions \ (unsent' \union unseen), Settled(p, shown)'
               PROVE  display[p] = Bar(p)'
    BY <1>3 DEF Shown
  <2>1. Settled(p, shown) /\ p # q /\ p \notin unsent /\ cast'[p] = cast[p]
    BY <1>3, <1>8 DEF Settled
  <2>2. display[p] = Bar(p)
    BY <1>0, <2>1 DEF Shown
  <2> QED
    BY <2>1, <2>2 DEF Bar
<1>14. OneClicked(log)' /\ OneClicked(outbox)' /\ Clicked(log)' /\ Clicked(outbox)'
  <2>1. OneClicked(log)' /\ OneClicked(outbox)'
    BY <1>0, <1>3, <1>4, <1>11 DEF OneClicked
  <2>2. ASSUME NEW i \in 1 .. Len(log), NEW p \in log[i].lastClicked PROVE cast'[p] # Zero[p]
    <3>1. log[i] \in Snapshots
      OBVIOUS
    <3>2. p \in Questions /\ cast[p] # Zero[p]
      BY <1>0, <3>1 DEF Clicked, Snapshots
    <3> QED
      BY <1>7, <3>2
  <2>3. cast'[q] # Zero[q]
    BY <1>7
  <2> QED
    BY <1>3, <1>4, <1>11, <2>1, <2>2, <2>3 DEF Clicked
<1> QED
  BY <1>9, <1>10, <1>12, <1>13, <1>14 DEF Kept

(* What consumer.js passes over is no longer shown all its votes; where it   *)
(* reads again, it has still shown what it had come to.                      *)
LEMMA StartKeeps ==
  ASSUME TypeOK, Kept, consumerStart
  PROVE  Kept'
<1> USE DEF TypeOK
<1>0. Positions /\ Shown
  BY DEF Kept
<1>1. /\ ~ listening /\ stored = RD_KAFKA_OFFSET_INVALID /\ listening'
      /\ UNCHANGED << log, outbox, server, stored, shownCommitted, display, cast, lost, unsent >>
  BY <1>0 DEF consumerStart, history, Positions
<1>2. /\ shown' \in Nat /\ shown' <= Len(log) /\ unseen \subseteq unseen'
      /\ shownCommitted \in {RD_KAFKA_OFFSET_INVALID} \union 0 .. shown'
      /\ \A q \in Questions \ unseen' : Settled(q, shown') => Settled(q, shown)
  <2>1. CASE shownCommitted = RD_KAFKA_OFFSET_INVALID
    <3>1. /\ shown' = Len(log)
          /\ unseen' = unseen \union UNION { log[i].lastClicked : i \in shown + 1 .. Len(log) }
      BY <2>1 DEF consumerStart
    <3>2. ASSUME NEW q \in Questions \ unseen', NEW i \in shown + 1 .. Len(log)
          PROVE  q \notin log[i].lastClicked
      BY <3>1, <3>2
    <3>3. \A q \in Questions \ unseen' : Settled(q, shown') => Settled(q, shown)
      BY <3>2 DEF Settled
    <3> QED
      BY <2>1, <3>1, <3>3
  <2>2. CASE shownCommitted # RD_KAFKA_OFFSET_INVALID
    <3>1. shown' = shownCommitted /\ unseen' = unseen
      BY <2>2 DEF consumerStart
    <3>2. shown' \in 0 .. shown
      BY <1>0, <2>2, <3>1 DEF Positions
    <3>3. shown + 1 .. Len(log) \subseteq shown' + 1 .. Len(log)
      BY <3>2
    <3>4. \A q \in Questions : Settled(q, shown') => Settled(q, shown)
      BY <3>3 DEF Settled
    <3>5. shown <= Len(log)
      BY <1>0 DEF Positions
    <3> QED
      BY <3>1, <3>2, <3>4, <3>5
  <2> QED
    BY <2>1, <2>2
<1>3. Positions'
  <2>1. /\ position \in {None, Unassigned} \union 0 .. Len(log)
        /\ toCommit \in {None} \union 0 .. Len(log) - 1
        /\ committed \in {RD_KAFKA_OFFSET_INVALID} \union 0 .. Len(log) - 1
        /\ position \in {None, Unassigned} => decoded = << >>
        /\ Len(log) >= 1
    BY <1>0 DEF Positions
  <2> QED
    BY <1>1, <1>2, <2>1 DEF Positions, server
<1>4. Shown'
  <2> SUFFICES ASSUME NEW q \in Questions \ (unsent \union unseen'), Settled(q, shown)'
               PROVE  display[q] = Bar(q)
    BY <1>1 DEF Shown, Bar
  <2>1. Settled(q, shown')
    BY <1>1 DEF Settled
  <2>2. Settled(q, shown) /\ q \notin unseen
    BY <1>2, <2>1
  <2> QED
    BY <1>0, <2>2 DEF Shown
<1> QED
  BY <1>1, <1>3, <1>4, AudienceKeeps

(* What the audience is shown of the message that settles a question is all  *)
(* its votes.                                                                *)
LEMMA EachMessageKeeps ==
  ASSUME TypeOK, Kept, EachMessage
  PROVE  Kept'
<1> USE DEF TypeOK
<1> DEFINE m == log[shown + 1]
           q == CHOOSE c \in m.lastClicked : TRUE
<1>0. Positions /\ Tally /\ Shown /\ OneClicked(log) /\ Clicked(log)
  BY DEF Kept
<1>1. /\ listening /\ shown + 1 \in 1 .. Len(log) /\ shown' = shown + 1 /\ stored' = shown + 1
      /\ m.lastClicked # {}
      /\ UNCHANGED << log, outbox, server, listening, shownCommitted, cast, lost, unsent >>
  BY DEF EachMessage, history
<1>2. m \in Snapshots /\ m.lastClicked \subseteq Questions
  <2>1. m \in Snapshots
    BY <1>1
  <2> QED
    BY <2>1 DEF Snapshots
<1>3. q \in m.lastClicked /\ q \in Questions
  BY <1>1, <1>2
<1>4. display' = [display EXCEPT ![q] = << m.votes[q] >>] /\ unseen' = unseen \ {q}
  BY DEF EachMessage
<1>5. \A p \in m.lastClicked : p = q
  BY <1>0, <1>1, <1>3 DEF OneClicked
<1>6. cast[q] # Zero[q]
  BY <1>0, <1>1, <1>3 DEF Clicked
<1> HIDE DEF q
<1>7. ASSUME NEW p \in Questions \ (unsent \union unseen'), Settled(p, shown + 1)
      PROVE  display'[p] = Bar(p)
  <2>1. CASE p = q
    <3>1. m.votes[p] = cast[p]
      BY <1>0, <1>1, <1>7 DEF Tally
    <3> QED
      BY <1>3, <1>4, <1>6, <2>1, <3>1 DEF Bar
  <2>2. CASE p # q
    <3>1. p \notin m.lastClicked /\ p \notin unseen
      BY <1>4, <1>5, <2>2
    <3>2. \A j \in shown + 1 .. Len(log) : j = shown + 1 \/ j \in shown + 1 + 1 .. Len(log)
      BY <1>1
    <3>3. Settled(p, shown)
      BY <1>7, <3>1, <3>2 DEF Settled
    <3>4. display[p] = Bar(p)
      BY <1>0, <3>1, <3>3 DEF Shown
    <3> QED
      BY <1>4, <2>2, <3>4
  <2> QED
    BY <2>1, <2>2
<1>8. Shown'
  <2>1. \A p \in Questions : Settled(p, shown)' <=> Settled(p, shown + 1)
    BY <1>1 DEF Settled
  <2> QED
    BY <1>1, <1>7, <2>1 DEF Shown, Bar
<1>9. Positions'
  <2>1. /\ position \in {None, Unassigned} \union 0 .. Len(log)
        /\ toCommit \in {None} \union 0 .. Len(log) - 1
        /\ committed \in {RD_KAFKA_OFFSET_INVALID} \union 0 .. Len(log) - 1
        /\ position \in {None, Unassigned} => decoded = << >>
        /\ Len(log) >= 1
        /\ shownCommitted \in {RD_KAFKA_OFFSET_INVALID} \union 0 .. shown
    BY <1>0 DEF Positions
  <2>2. shownCommitted \in {RD_KAFKA_OFFSET_INVALID} \union 0 .. shown + 1
    BY <2>1
  <2>3. shown + 1 <= Len(log)
    BY <1>1
  <2> QED
    BY ONLY <1>1, <2>1, <2>2, <2>3 DEF Positions, server
<1> QED
  BY <1>1, <1>8, <1>9, AudienceKeeps

(* Every step keeps the tally until something disturbs the poll.             *)
LEMMA NextUndisturbed == TypeOK /\ Undisturbed /\ [Next]_vars => Undisturbed'
<1> SUFFICES ASSUME TypeOK, Undisturbed, [Next]_vars, ~ disturbed'
             PROVE  Kept'
  BY DEF Undisturbed
<1>0. ~ disturbed
  <2>1. CASE \E q \in Questions : \E o \in Options : Vote(q, o)
    BY <2>1, VoteCases DEF TypeOK
  <2>2. CASE ~ \E q \in Questions : \E o \in Options : Vote(q, o)
    BY <2>2 DEF Next, Ready, ReadyFails, Data, OffsetCommit, Deliver, DeliveryFails, DeliverTwice,
                DeliverLate, Crash, consumerStart, EachMessage, commitOffsets, Stop, vars,
                history, TypeOK
  <2> QED
    BY <2>1, <2>2
<1>a. /\ Kept /\ Positions /\ Held /\ Tally /\ Shown
  BY <1>0 DEF Undisturbed, Kept
<1> USE <1>a DEF TypeOK
<1>1. CASE Ready \/ ReadyFails
  <2>1. /\ position = None /\ decoded = << >>
        /\ UNCHANGED << log, outbox, decoded, toCommit, committed, audience, cast, lost, unsent >>
    BY <1>1 DEF Ready, ReadyFails, Positions, history
  <2>2. position' = Unassigned \/ position' = 1 \/ position' \in 0 .. Len(log)
    BY <1>1 DEF Ready, ReadyFails, Positions
  <2>3. Positions'
    BY <2>1, <2>2 DEF Positions, audience, None, Unassigned
  <2>4. ~ CaughtUp'
    BY <2>1 DEF CaughtUp
  <2>5. Held'
    BY <2>1 DEF Held
  <2> QED
    BY <2>1, <2>3, <2>4, <2>5, ServerKeeps
<1>2. CASE Data
  BY <1>2, DataKeeps
<1>3. CASE OffsetCommit
  <2>1. /\ toCommit # None /\ committed' = toCommit /\ toCommit' = None
        /\ UNCHANGED << log, outbox, decoded, position, audience, cast, lost, unsent >>
    BY <1>3 DEF OffsetCommit, history
  <2>2. Positions'
    BY <2>1 DEF Positions, audience
  <2>3. Held' /\ (CaughtUp' => decoded'[1].votes = cast)
    BY <2>1 DEF Held, Tally, CaughtUp
  <2> QED
    BY <2>1, <2>2, <2>3, ServerKeeps
<1>4. CASE Deliver \/ DeliverTwice
  <2>1. /\ outbox # << >> /\ log' = Append(log, Head(outbox))
        /\ outbox' = Tail(outbox) \/ outbox' = outbox
        /\ UNCHANGED << server, audience, cast, lost, unsent >>
    BY <1>4 DEF Deliver, DeliverTwice, history
  <2> QED
    BY <2>1, DeliveryKeeps
<1>5. ASSUME NEW q \in Questions, NEW o \in Options, Vote(q, o) PROVE Kept'
  BY <1>5, VoteKeeps
<1>6. ASSUME NEW i \in 2 .. Len(outbox), DeliverLate(i) PROVE Kept'
  BY <1>6 DEF DeliverLate
<1>7. ASSUME NEW i \in 1 .. Len(outbox), DeliveryFails(i) PROVE Kept'
  BY <1>7, DeliveryFailsKeeps
<1>8. CASE Crash
  <2>1. /\ outbox = << >> /\ ~ lost /\ outbox' = << >> /\ decoded' = << >>
        /\ position' = None /\ toCommit' = None
        /\ UNCHANGED << log, committed, audience, cast, lost, unsent >>
    BY <1>8 DEF Crash
  <2>2. Positions'
    BY <2>1 DEF Positions, audience
  <2>3. Held' /\ ~ CaughtUp'
    BY <2>1 DEF Held, CaughtUp
  <2>4. UNCHANGED outbox
    BY <2>1
  <2> QED
    BY <2>1, <2>2, <2>3, <2>4, ServerKeeps
<1>9. CASE consumerStart
  BY <1>9, StartKeeps
<1>10. CASE EachMessage
  BY <1>10, EachMessageKeeps
<1>11. CASE commitOffsets \/ Stop
  <2>1. /\ UNCHANGED << log, outbox, server, shown, display, unseen, cast, lost, unsent >>
        /\ \/ listening' = listening /\ stored' = stored /\ shownCommitted' = stored
           \/ /\ listening' = FALSE /\ stored' = RD_KAFKA_OFFSET_INVALID
              /\ shownCommitted' = shownCommitted
    BY <1>11 DEF commitOffsets, Stop, history
  <2>2. Positions'
    <3>1. stored' \in {RD_KAFKA_OFFSET_INVALID, shown}
      BY <2>1 DEF Positions
    <3>2. shownCommitted' \in {RD_KAFKA_OFFSET_INVALID} \union 0 .. shown
      BY <2>1 DEF Positions
    <3>3. ~ listening' => stored' = RD_KAFKA_OFFSET_INVALID
      BY <2>1 DEF Positions
    <3> QED
      BY <2>1, <3>1, <3>2, <3>3 DEF Positions, server
  <2>3. Shown'
    BY <2>1 DEF Shown, Settled, Bar
  <2> QED
    BY <2>1, <2>2, <2>3, AudienceKeeps
<1>12. CASE UNCHANGED vars
  <2>1. UNCHANGED << log, outbox, server, audience, cast, lost, unsent >>
    BY <1>12 DEF vars, history
  <2>2. Positions' /\ Held' /\ (CaughtUp' => decoded'[1].votes = cast)
    BY <2>1 DEF Positions, Held, Tally, CaughtUp, server, audience
  <2> QED
    BY <2>1, <2>2, ServerKeeps
<1> QED
  BY <1>1, <1>2, <1>3, <1>4, <1>5, <1>6, <1>7, <1>8, <1>9, <1>10, <1>11, <1>12 DEF Next

(* The seeds count nothing, and nothing was cast.                            *)
LEMMA InitUndisturbed == Init => Undisturbed
<1> SUFFICES ASSUME Init PROVE Undisturbed
  OBVIOUS
<1>1. Seeds \in Nat \ {0} /\ Len(log) = Seeds /\ \A i \in 1 .. Seeds : log[i] = message
  BY PollAssumption DEF Init
<1>2. Positions /\ ~ CaughtUp
  BY <1>1 DEF Init, Positions, CaughtUp
<1>3. OneClicked(log) /\ OneClicked(outbox) /\ Clicked(log) /\ Clicked(outbox)
  BY <1>1 DEF Init, OneClicked, Clicked, message
<1>4. Tally
  BY <1>1, <1>2 DEF Init, Tally, message
<1>5. Shown
  BY DEF Init, Shown, Bar
<1>6. Held
  BY DEF Init, Held
<1> QED
  BY <1>2, <1>3, <1>4, <1>5, <1>6 DEF Undisturbed, Kept

(* If votes come only when the server has read all it produced, and each is  *)
(* counted, a server that has caught up has counted exactly the votes cast,  *)
(* the newest snapshot does too unless it is the last vote's that is lost,   *)
(* and so do the bars of all questions whose last snapshot got to the topic  *)
(* and was not passed over: for any questions and votes, and any number of   *)
(* crashes, restarts, failed productions, and failed or repeated deliveries. *)
THEOREM PollCounts == Spec => []Counted
<1>1. Init => TypeOK /\ Undisturbed
  BY InitTyped, InitUndisturbed
<1>2. TypeOK /\ Undisturbed /\ [Next]_vars => (TypeOK /\ Undisturbed)'
  BY NextTyped, NextUndisturbed
<1>3. TypeOK /\ Undisturbed => Counted
  <2> SUFFICES ASSUME TypeOK, Positions, Tally, Shown PROVE Counted
    BY DEF Undisturbed, Kept, Counted
  <2> USE DEF TypeOK
  <2>1. ASSUME outbox = << >>, ~ lost PROVE Last(log \o outbox).votes = cast
    <3>1. Last(log \o outbox) = log[Len(log)]
      BY <2>1 DEF Last, Positions
    <3> QED
      BY <2>1, <3>1 DEF Tally
  <2>2. ASSUME outbox # << >> PROVE Last(log \o outbox).votes = cast
    <3>1. Len(outbox) = 1 /\ outbox[1].votes = cast
      BY <2>2, OneMessage DEF Tally
    <3>2. Len(log \o outbox) = Len(log) + 1 /\ (log \o outbox)[Len(log) + 1] = outbox[1]
      <4>1. Len(log \o outbox) = Len(log) + 1
        <5>1. Len(log \o outbox) = Len(log) + Len(outbox)
          OBVIOUS
        <5> QED
          BY <3>1, <5>1
      <4>2. Len(log) + 1 \in 1 .. Len(log) + Len(outbox) /\ ~ (Len(log) + 1 <= Len(log))
        BY <3>1
      <4>3. (log \o outbox)[Len(log) + 1] = outbox[Len(log) + 1 - Len(log)]
        BY <4>2
      <4>4. Len(log) + 1 - Len(log) = 1
        OBVIOUS
      <4> QED
        BY <4>1, <4>3, <4>4
    <3> QED
      BY <3>1, <3>2 DEF Last
  <2>3. ASSUME outbox = << >>, shown = Len(log), NEW q \in Questions \ (unsent \union unseen)
        PROVE  display[q] = Bar(q)
    <3>1. Settled(q, shown)
      BY <2>3 DEF Settled
    <3> QED
      BY <3>1 DEF Shown
  <2>4. CaughtUp => decoded[1].votes = cast
    BY DEF Tally
  <2> QED
    BY <2>1, <2>2, <2>3, <2>4 DEF Counted, Bar
<1> QED
  BY <1>1, <1>2, <1>3, PTL DEF Spec

-----------------------------------------------------------------------------
(* What the poll waits for is there, whatever disturbed it *)

(* Every message that a vote made tells what was clicked; only the seeds do  *)
(* not, and the audience's consumer never reads them.  A server that has     *)
(* read nothing begins at an offset that is in the topic, or at 1.           *)
Readable ==
  /\ Seeds <= shown /\ shown <= Len(log)
  /\ stored \in {RD_KAFKA_OFFSET_INVALID} \union Seeds .. Len(log)
  /\ shownCommitted \in {RD_KAFKA_OFFSET_INVALID} \union Seeds .. Len(log)
  /\ \A i \in Seeds + 1 .. Len(log) : log[i].lastClicked # {}
  /\ \A i \in 1 .. Len(outbox) : outbox[i].lastClicked # {}
  /\ toCommit \in {None} \union 0 .. Len(log) - 1
  /\ committed \in {RD_KAFKA_OFFSET_INVALID} \union 0 .. Len(log) - 1
  /\ decoded = << >> => position \in {None, Unassigned, 1} \union 0 .. Len(log) - 1

(* Neither program ever waits in vain: while the poll is not open and there  *)
(* is more than the first snapshot, the server becomes ready or reads one of *)
(* them, unless it did not learn where to begin; and the next message of     *)
(* consumer.js is one it can show.                                           *)
NothingStopsThePoll ==
  /\ decoded = << >> /\ Len(log) > 1 =>
       position \in {None, Unassigned} \union 0 .. Len(log) - 1
  /\ shown < Len(log) => log[shown + 1].lastClicked # {}

(* A message that tells what was clicked keeps the log readable.             *)
LEMMA AppendedReadable ==
  ASSUME TypeOK, Readable, NEW m \in Snapshots, m.lastClicked # {}, log' = Append(log, m),
         UNCHANGED << server, audience >>,
         \A i \in 1 .. Len(outbox') : outbox'[i].lastClicked # {}
  PROVE  Readable'
<1> USE DEF TypeOK, server, audience
<1>1. /\ Len(log') = Len(log) + 1 /\ log'[Len(log) + 1] = m
      /\ \A j \in 1 .. Len(log) : log'[j] = log[j]
  OBVIOUS
<1>2. \A i \in Seeds + 1 .. Len(log') : log'[i].lastClicked # {}
  <2> SUFFICES ASSUME NEW i \in Seeds + 1 .. Len(log') PROVE log'[i].lastClicked # {}
    OBVIOUS
  <2>1. i = Len(log) + 1 \/ i \in Seeds + 1 .. Len(log)
    BY <1>1, PollAssumption
  <2>2. CASE i = Len(log) + 1
    BY <1>1, <2>2
  <2>3. CASE i \in Seeds + 1 .. Len(log)
    <3>1. i \in 1 .. Len(log)
      BY <2>3, PollAssumption
    <3> QED
      BY <1>1, <2>3, <3>1 DEF Readable
  <2> QED
    BY <2>1, <2>2, <2>3
<1>3. /\ toCommit' \in {None} \union 0 .. Len(log') - 1
      /\ committed' \in {RD_KAFKA_OFFSET_INVALID} \union 0 .. Len(log') - 1
      /\ decoded' = << >> => position' \in {None, Unassigned, 1} \union 0 .. Len(log') - 1
      /\ Seeds <= shown' /\ shown' <= Len(log')
      /\ stored' \in {RD_KAFKA_OFFSET_INVALID} \union Seeds .. Len(log')
      /\ shownCommitted' \in {RD_KAFKA_OFFSET_INVALID} \union Seeds .. Len(log')
  BY <1>1, PollAssumption DEF Readable
<1> QED
  BY <1>2, <1>3 DEF Readable

LEMMA InitReadable == Init => Readable
<1> SUFFICES ASSUME Init PROVE Readable
  OBVIOUS
<1>1. Len(log) = Seeds /\ Seeds \in Nat
  BY PollAssumption DEF Init
<1>2. Seeds <= shown /\ shown <= Len(log) /\ \A i \in Seeds + 1 .. Len(log) : FALSE
  BY <1>1 DEF Init
<1>3. \A i \in 1 .. Len(outbox) : FALSE
  BY DEF Init
<1> QED
  BY <1>2, <1>3 DEF Init, Readable

LEMMA NextReadable == TypeOK /\ Readable /\ [Next]_vars => Readable'
<1> SUFFICES ASSUME TypeOK, Readable, [Next]_vars PROVE Readable'
  OBVIOUS
<1>a. ASSUME UNCHANGED << log, outbox, server >>, Seeds <= shown', shown' <= Len(log),
             stored' \in {RD_KAFKA_OFFSET_INVALID} \union Seeds .. Len(log),
             shownCommitted' \in {RD_KAFKA_OFFSET_INVALID} \union Seeds .. Len(log)
      PROVE  Readable'
  BY <1>a DEF Readable, server
<1> USE DEF TypeOK, server, audience
<1>1. CASE Ready \/ ReadyFails
  <2>1. position' \in {None, Unassigned, 1} \union 0 .. Len(log) - 1
    BY <1>1 DEF Ready, ReadyFails, Readable
  <2> QED
    BY <1>1, <2>1 DEF Ready, ReadyFails, Readable
<1>2. CASE Data
  <2>1. decoded' # << >> /\ toCommit' \in 0 .. Len(log) - 1
    BY <1>2 DEF Data
  <2> QED
    BY <1>2, <2>1 DEF Data, Readable
<1>3. CASE OffsetCommit
  <2>1. /\ committed' \in {RD_KAFKA_OFFSET_INVALID} \union 0 .. Len(log) - 1
        /\ toCommit' = None
    BY <1>3 DEF OffsetCommit, Readable
  <2> QED
    BY <1>3, <2>1 DEF OffsetCommit, Readable
<1>4. ASSUME NEW q \in Questions, NEW o \in Options, Vote(q, o) PROVE Readable'
  <2>0. UNCHANGED << log, position, toCommit, committed, audience >>
    BY <1>4 DEF Vote
  <2>1. CASE UNCHANGED << decoded, outbox >>
    BY <2>0, <2>1 DEF Readable
  <2>2. CASE \E m \in Snapshots : /\ m = sendMessage(decoded[1], q, o) /\ decoded' = << m >>
                                 /\ produce(m)
    <3>1. PICK m \in Snapshots : /\ m = sendMessage(decoded[1], q, o) /\ decoded' = << m >>
                                /\ produce(m)
      BY <2>2
    <3>2. m.lastClicked = {q}
      BY <3>1 DEF sendMessage
    <3>3. \A i \in 1 .. Len(outbox) : outbox[i].lastClicked # {}
      BY DEF Readable
    <3>4. \A i \in 1 .. Len(outbox') : outbox'[i].lastClicked # {}
      <4>1. CASE outbox' = outbox
        BY <3>3, <4>1
      <4>2. CASE outbox' = Append(outbox, m)
        <5>1. /\ Len(outbox') = Len(outbox) + 1 /\ outbox'[Len(outbox) + 1] = m
              /\ \A i \in 1 .. Len(outbox) : outbox'[i] = outbox[i]
          BY <4>2
        <5>2. \A i \in 1 .. Len(outbox') : i \in 1 .. Len(outbox) \/ i = Len(outbox) + 1
          BY <5>1
        <5> QED
          BY ONLY <3>2, <3>3, <5>1, <5>2
      <4> QED
        BY <3>1, <4>1, <4>2 DEF produce
    <3>5. decoded' # << >>
      BY <3>1
    <3> QED
      BY <2>0, <3>4, <3>5 DEF Readable
  <2> QED
    BY <1>4, <2>1, <2>2, VoteCases
<1>5. CASE Deliver \/ DeliverTwice
  <2>1. /\ outbox # << >> /\ log' = Append(log, Head(outbox))
        /\ outbox' = Tail(outbox) \/ outbox' = outbox
    BY <1>5 DEF Deliver, DeliverTwice
  <2>2. Head(outbox) = outbox[1] /\ outbox[1] \in Snapshots /\ 1 \in 1 .. Len(outbox)
    BY <2>1
  <2>3. \A i \in 1 .. Len(outbox') : outbox'[i].lastClicked # {}
    <3>1. CASE outbox' = outbox
      BY <3>1 DEF Readable
    <3>2. CASE outbox' = Tail(outbox)
      <4>1. /\ Len(Tail(outbox)) = Len(outbox) - 1
            /\ \A i \in 1 .. Len(outbox) - 1 : Tail(outbox)[i] = outbox[i + 1]
        BY <2>1
      <4>2. \A i \in 1 .. Len(outbox) - 1 : i + 1 \in 1 .. Len(outbox)
        OBVIOUS
      <4>3. \A i \in 1 .. Len(outbox) - 1 : outbox[i + 1].lastClicked # {}
        BY <4>2 DEF Readable
      <4> QED
        BY ONLY <3>2, <4>1, <4>3
    <3> QED
      BY <2>1, <3>1, <3>2
  <2>4. Head(outbox) \in Snapshots /\ Head(outbox).lastClicked # {}
    BY <2>2 DEF Readable
  <2>5. PICK m : m = Head(outbox)
    OBVIOUS
  <2>6. m \in Snapshots /\ m.lastClicked # {} /\ log' = Append(log, m)
    BY <2>1, <2>4, <2>5
  <2>7. UNCHANGED << server, audience >>
    BY <1>5 DEF Deliver, DeliverTwice
  <2> QED
    BY <2>3, <2>6, <2>7, AppendedReadable
<1>6. ASSUME NEW i \in 2 .. Len(outbox), DeliverLate(i) PROVE Readable'
  <2>1. i \in 1 .. Len(outbox)
    OBVIOUS
  <2>2. outbox[i] \in Snapshots /\ outbox[i].lastClicked # {}
    BY <2>1 DEF Readable
  <2>3. \A j \in 1 .. Len(RemoveAt(outbox, i)) :
          \E k \in 1 .. Len(outbox) : RemoveAt(outbox, i)[j] = outbox[k]
    <3>1. outbox \in Seq(Snapshots)
      OBVIOUS
    <3> QED
      BY ONLY <2>1, <3>1, RemovedElement
  <2>4. \A j \in 1 .. Len(RemoveAt(outbox, i)) : RemoveAt(outbox, i)[j].lastClicked # {}
    BY <2>3 DEF Readable
  <2>5. /\ log' = Append(log, outbox[i]) /\ outbox' = RemoveAt(outbox, i)
        /\ UNCHANGED << server, audience >>
    BY <1>6 DEF DeliverLate
  <2>6. \A j \in 1 .. Len(outbox') : outbox'[j].lastClicked # {}
    BY <2>4, <2>5
  <2> QED
    BY <2>2, <2>5, <2>6, AppendedReadable
<1>7. ASSUME NEW i \in 1 .. Len(outbox), DeliveryFails(i) PROVE Readable'
  <2>1. outbox' = RemoveAt(outbox, i) /\ UNCHANGED << log, server, audience >>
    BY <1>7 DEF DeliveryFails
  <2>2. \A j \in 1 .. Len(RemoveAt(outbox, i)) :
          \E k \in 1 .. Len(outbox) : RemoveAt(outbox, i)[j] = outbox[k]
    <3>1. outbox \in Seq(Snapshots) /\ i \in 1 .. Len(outbox)
      OBVIOUS
    <3> QED
      BY ONLY <3>1, RemovedElement
  <2>3. \A j \in 1 .. Len(outbox') : outbox'[j].lastClicked # {}
    BY <2>1, <2>2 DEF Readable
  <2> QED
    BY <2>1, <2>3 DEF Readable
<1>8. CASE Crash
  <2>1. outbox' = << >> /\ position' = None /\ toCommit' = None
    BY <1>8 DEF Crash
  <2> QED
    BY <1>8, <2>1 DEF Crash, Readable
<1>9. CASE consumerStart
  <2>1. shown' = Len(log) \/ shown' \in Seeds .. Len(log)
    BY <1>9 DEF consumerStart, Readable
  <2>2. /\ UNCHANGED << log, outbox, server, stored, shownCommitted >>
        /\ stored \in {RD_KAFKA_OFFSET_INVALID} \union Seeds .. Len(log)
        /\ shownCommitted \in {RD_KAFKA_OFFSET_INVALID} \union Seeds .. Len(log)
        /\ Seeds <= Len(log)
    BY <1>9, PollAssumption DEF consumerStart, Readable
  <2>3. Seeds <= shown' /\ shown' <= Len(log)
    BY <2>1, <2>2, PollAssumption
  <2> QED
    BY <2>2, <2>3, <1>a
<1>10. CASE EachMessage
  <2>1. /\ shown' = shown + 1 /\ stored' = shown + 1 /\ shown < Len(log)
        /\ UNCHANGED << log, outbox, server, shownCommitted >>
    BY <1>10 DEF EachMessage
  <2>2. Seeds <= shown' /\ shown' <= Len(log) /\ stored' \in Seeds .. Len(log)
    BY <2>1, PollAssumption DEF Readable
  <2>3. shownCommitted' \in {RD_KAFKA_OFFSET_INVALID} \union Seeds .. Len(log)
    BY <2>1 DEF Readable
  <2> QED
    BY <2>1, <2>2, <2>3, <1>a
<1>11. CASE commitOffsets \/ Stop
  <2>1. /\ UNCHANGED << log, outbox, server, shown >>
        /\ stored' = stored \/ stored' = RD_KAFKA_OFFSET_INVALID
        /\ shownCommitted' = stored \/ shownCommitted' = shownCommitted
    BY <1>11 DEF commitOffsets, Stop
  <2>2. /\ Seeds <= shown /\ shown <= Len(log)
        /\ stored \in {RD_KAFKA_OFFSET_INVALID} \union Seeds .. Len(log)
        /\ shownCommitted \in {RD_KAFKA_OFFSET_INVALID} \union Seeds .. Len(log)
    BY DEF Readable
  <2> QED
    BY <2>1, <2>2, <1>a
<1>12. CASE UNCHANGED vars
  BY <1>12 DEF vars, Readable
<1> QED
  BY <1>1, <1>2, <1>3, <1>4, <1>5, <1>6, <1>7, <1>8, <1>9, <1>10, <1>11, <1>12 DEF Next

(* Whatever is lost, repeated or late and however often either program is    *)
(* started again, the server finds a snapshot to open the poll with unless   *)
(* it did not learn where to begin, and consumer.js never comes to a message *)
(* that it fails on.  With the fairness of Ready, Data, Deliver and          *)
(* EachMessage this is why PollOpens.                                        *)
THEOREM PollIsNeverStuck == Spec => []NothingStopsThePoll
<1>1. Init => TypeOK /\ Readable
  BY InitTyped, InitReadable
<1>2. TypeOK /\ Readable /\ [Next]_vars => (TypeOK /\ Readable)'
  BY NextTyped, NextReadable
<1>3. TypeOK /\ Readable => NothingStopsThePoll
  <2> SUFFICES ASSUME TypeOK, Readable PROVE NothingStopsThePoll
    OBVIOUS
  <2> USE DEF TypeOK
  <2>1. ASSUME decoded = << >>, Len(log) > 1
        PROVE  position \in {None, Unassigned} \union 0 .. Len(log) - 1
    BY <2>1 DEF Readable
  <2>2. ASSUME shown < Len(log) PROVE log[shown + 1].lastClicked # {}
    <3>1. shown + 1 \in Seeds + 1 .. Len(log)
      BY <2>2, PollAssumption DEF Readable
    <3> QED
      BY <3>1 DEF Readable
  <2> QED
    BY <2>1, <2>2 DEF NothingStopsThePoll
<1> QED
  BY <1>1, <1>2, <1>3, PTL DEF Spec
=============================================================================
