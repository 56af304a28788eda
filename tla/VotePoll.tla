------------------------------ MODULE VotePoll ------------------------------
(***************************************************************************)
(* confluent-kafka-javascript-poll: a server counts the votes of a poll    *)
(* without a database.  Every vote produces a snapshot of all the counts   *)
(* to the topic total_count; the same server consumes the topic and keeps  *)
(* the snapshot it has read last, in decoded, as the counts that the next  *)
(* vote adds to.  A second program shows the audience what was voted on.   *)
(*                                                                         *)
(* Offsets count from 0, as Kafka's: offset o is log[o + 1].               *)
(***************************************************************************)
EXTENDS Integers, Sequences, SequencesExt

CONSTANTS Questions,
          Options,     \* of each question
          Seeds,       \* snapshots that are in the topic before any vote
          MaxVotes,    \* on each option, by question
          MaxFaults

ASSUME PollAssumption ==
  /\ Seeds \in Nat \ {0}
  /\ MaxVotes \in [Questions -> Nat]
  /\ MaxFaults \in Nat

None == -1
Unassigned == -2
RD_KAFKA_OFFSET_INVALID == -1001

Counts == [Questions -> [Options -> Nat]]

(* What seedproducer.js makes: nobody voted, nothing clicked.  It sends it  *)
(* to another topic; total_count is assumed to begin with Seeds of these.   *)
Zero == [q \in Questions |-> [o \in Options |-> 0]]

message == [votes |-> Zero, lastClicked |-> {}]

VARIABLES
  log,        \* total_count
  decoded,    \* the counts the server adds to, as a sequence of at most one
  outbox,     \* what librdkafka has not delivered yet
  position,   \* the server's consumer: the next offset, None before "ready",
              \*   Unassigned if that could not tell where to begin
  toCommit,   \* an offset that is being committed, or None
  committed,  \* the server's group
  listening,  \* consumer.js has been assigned the topic
  shown,      \* consumer.js: the next offset, or the one it had come to
  stored,     \* the offset it would commit, once it has read something
  shownCommitted,  \* its group
  display,    \* the audience's bar of a question: none yet, or its counts
  faults

(* What has happened, told apart for the properties.                       *)
VARIABLES
  cast,       \* the votes that were answered
  lost,       \* the snapshot of the last vote counted did not get to the topic
  unsent,     \* the questions with whose last vote that happened
  unseen,     \* the questions of which consumer.js has passed over a snapshot
  disturbed   \* a vote was not counted, or came when the server had not caught
              \*   up, or what the server had counted was lost with it

server == << decoded, position, toCommit, committed >>
audience == << listening, shown, stored, shownCommitted, display, unseen >>
history == << cast, lost, unsent, disturbed >>
vars == << log, outbox, server, audience, faults, history >>

Init ==
  /\ log = [i \in 1 .. Seeds |-> message]
  /\ decoded = << >>
  /\ outbox = << >>
  /\ position = None
  /\ toCommit = None
  /\ committed = RD_KAFKA_OFFSET_INVALID
  /\ listening = FALSE
  /\ shown = Seeds
  /\ stored = RD_KAFKA_OFFSET_INVALID
  /\ shownCommitted = RD_KAFKA_OFFSET_INVALID
  /\ display = [q \in Questions |-> << >>]
  /\ faults = 0
  /\ cast = Zero
  /\ lost = FALSE
  /\ unsent = {}
  /\ unseen = {}
  /\ disturbed = FALSE

-----------------------------------------------------------------------------
(* producer.js *)

(* Variant: RD_KAFKA_OFFSET_INVALID is taken for an offset.                *)
Ready_NoTest ==
  /\ position = None
  /\ position' = committed
  /\ UNCHANGED << log, outbox, decoded, toCommit, committed, audience, faults, history >>

(* "ready", and committed() answers: a group without an offset begins at    *)
(* offset 1.                                                                *)
Ready ==
  /\ position = None
  /\ position' = IF committed = RD_KAFKA_OFFSET_INVALID THEN 1 ELSE committed
  /\ UNCHANGED << log, outbox, decoded, toCommit, committed, audience, faults, history >>

(* committed() fails, after 5 seconds, or "ready" never comes: the error is  *)
(* logged and nothing is assigned, now or later.                            *)
ReadyFails ==
  /\ position = None
  /\ position' = Unassigned
  /\ UNCHANGED << log, outbox, decoded, toCommit, committed, audience, faults, history >>

(* Variant: what is consumed is added.                                     *)
Data_Adds ==
  /\ position \in 0 .. Len(log) - 1
  /\ decoded' = << [log[position + 1] EXCEPT !.votes =
                      [q \in Questions |-> [o \in Options |->
                         IF decoded = << >> THEN @[q][o] ELSE @[q][o] + decoded[1].votes[q][o]]]] >>
  /\ toCommit' = position
  /\ position' = position + 1
  /\ UNCHANGED << log, outbox, committed, audience, faults, history >>

(* Variant: commits the next offset, as Kafka would have it.               *)
Data_Next ==
  /\ position \in 0 .. Len(log) - 1
  /\ decoded' = << log[position + 1] >>
  /\ toCommit' = position + 1
  /\ position' = position + 1
  /\ UNCHANGED << log, outbox, committed, audience, faults, history >>

(* "data": the snapshot replaces what the server had counted itself.  What  *)
(* is committed is the message's own offset, where Kafka would have the     *)
(* next one: the last message is read again after a restart, without the    *)
(* adjustment by one that a comment here thinks of.                         *)
Data ==
  /\ position \in 0 .. Len(log) - 1
  /\ decoded' = << log[position + 1] >>
  /\ toCommit' = position
  /\ position' = position + 1
  /\ UNCHANGED << log, outbox, committed, audience, faults, history >>

OffsetCommit ==
  /\ toCommit # None
  /\ committed' = toCommit
  /\ toCommit' = None
  /\ UNCHANGED << log, outbox, decoded, position, audience, faults, history >>

CaughtUp == decoded # << >> /\ outbox = << >> /\ position = Len(log)

(* One more for the option, and the question is the only one clicked last.  *)
sendMessage(snapshot, q, o) ==
  [votes |-> [snapshot.votes EXCEPT ![q][o] = @ + 1], lastClicked |-> {q}]

(* producer.poll throws as long as the producer is not connected, before    *)
(* sendMessage is called, and that fails until something was consumed.      *)
NotCounted ==
  /\ disturbed' = TRUE
  /\ UNCHANGED << decoded, outbox, lost, unsent >>

(* librdkafka takes the message, or throws, its queue being full, and the   *)
(* error is logged: what was counted stays counted.                         *)
produce(m) ==
  \/ /\ outbox' = Append(outbox, m)
     /\ lost' = FALSE
     /\ unsent' = unsent \ m.lastClicked
  \/ /\ lost' = TRUE
     /\ unsent' = unsent \union m.lastClicked
     /\ UNCHANGED outbox

(* Variant: produces before it counts.                                     *)
Vote_ProducesFirst(q, o) ==
  /\ cast[q][o] < MaxVotes[q]
  /\ cast' = [cast EXCEPT ![q][o] = @ + 1]
  /\ \/ NotCounted
     \/ /\ decoded # << >>
        /\ disturbed' = (disturbed \/ ~ CaughtUp)
        /\ decoded' = << sendMessage(decoded[1], q, o) >>
        /\ produce([decoded[1] EXCEPT !.lastClicked = {q}])
  /\ UNCHANGED << log, position, toCommit, committed, audience, faults >>

(* POST /send-to-kafka-topic is answered first, whatever becomes of it.     *)
Vote(q, o) ==
  /\ cast[q][o] < MaxVotes[q]
  /\ cast' = [cast EXCEPT ![q][o] = @ + 1]
  /\ \/ NotCounted
     \/ /\ decoded # << >>
        /\ disturbed' = (disturbed \/ ~ CaughtUp)
        /\ LET counted == sendMessage(decoded[1], q, o) IN
             /\ decoded' = << counted >>
             /\ produce(counted)
  /\ UNCHANGED << log, position, toCommit, committed, audience, faults >>

(* The producer is neither idempotent nor waits for one message before the  *)
(* next: a retry may deliver late, and twice.                               *)
Deliver ==
  /\ outbox # << >>
  /\ log' = Append(log, Head(outbox))
  /\ outbox' = Tail(outbox)
  /\ UNCHANGED << server, audience, faults, history >>

(* The delivery report of an error is logged, and the message is gone.      *)
DeliveryFails(i) ==
  /\ outbox' = RemoveAt(outbox, i)
  /\ lost' = TRUE
  /\ unsent' = unsent \union outbox[i].lastClicked
  /\ UNCHANGED << log, server, audience, faults, cast, disturbed >>

Fault == faults < MaxFaults /\ faults' = faults + 1

DeliverTwice ==
  /\ Fault
  /\ outbox # << >>
  /\ log' = Append(log, Head(outbox))
  /\ UNCHANGED << outbox, server, audience, history >>

DeliverLate(i) ==
  /\ Fault
  /\ log' = Append(log, outbox[i])
  /\ outbox' = RemoveAt(outbox, i)
  /\ disturbed' = TRUE
  /\ UNCHANGED << server, audience, cast, lost, unsent >>

(* The server stops and is started again.                                   *)
Crash ==
  /\ Fault
  /\ decoded' = << >>
  /\ outbox' = << >>
  /\ position' = None
  /\ toCommit' = None
  /\ disturbed' = (disturbed \/ lost \/ outbox # << >>)
  /\ UNCHANGED << log, committed, audience, cast, lost, unsent >>

-----------------------------------------------------------------------------
(* consumer.js *)

(* fromBeginning: false: it begins where its group has committed, which may *)
(* be before where it was, or at the end of the topic, past all that came   *)
(* since.  If it cannot connect, it is not listening until somebody starts  *)
(* it again.                                                                *)
consumerStart ==
  /\ ~ listening
  /\ listening' = TRUE
  /\ IF shownCommitted = RD_KAFKA_OFFSET_INVALID
       THEN /\ shown' = Len(log)
            /\ unseen' = unseen \union UNION { log[i].lastClicked : i \in shown + 1 .. Len(log) }
       ELSE /\ shown' = shownCommitted
            /\ UNCHANGED unseen
  /\ UNCHANGED << log, outbox, server, stored, shownCommitted, display, faults, history >>

(* It tells the audience of the question that was clicked, the first one it *)
(* finds, and fails when there is none: that message is then read again and *)
(* again.                                                                   *)
EachMessage ==
  /\ listening
  /\ shown < Len(log)
  /\ log[shown + 1].lastClicked # {}
  /\ LET total_count == log[shown + 1]
         q == CHOOSE c \in total_count.lastClicked : TRUE
     IN  /\ display' = [display EXCEPT ![q] = << total_count.votes[q] >>]
         /\ unseen' = unseen \ {q}
  /\ shown' = shown + 1
  /\ stored' = shown + 1
  /\ UNCHANGED << log, outbox, server, listening, shownCommitted, faults, history >>

(* The library commits now and then, and disconnect does on a signal.       *)
commitOffsets ==
  /\ stored # RD_KAFKA_OFFSET_INVALID
  /\ shownCommitted' = stored
  /\ UNCHANGED << log, outbox, server, listening, shown, stored, display, unseen, faults, history >>

(* It is killed, or has disconnected.                                       *)
Stop ==
  /\ Fault
  /\ listening
  /\ listening' = FALSE
  /\ stored' = RD_KAFKA_OFFSET_INVALID
  /\ UNCHANGED << log, outbox, server, shown, shownCommitted, display, unseen, history >>

-----------------------------------------------------------------------------
Next ==
  \/ Ready \/ ReadyFails \/ Data \/ OffsetCommit \/ Deliver
  \/ \E q \in Questions : \E o \in Options : Vote(q, o)
  \/ \E i \in 1 .. Len(outbox) : DeliveryFails(i)
  \/ DeliverTwice \/ (\E i \in 2 .. Len(outbox) : DeliverLate(i)) \/ Crash
  \/ consumerStart \/ EachMessage \/ commitOffsets \/ Stop

(* "ready" comes to one end or the other.  Nobody need start consumer.js.   *)
Fairness ==
  /\ WF_vars(Ready \/ ReadyFails)
  /\ WF_vars(Data)
  /\ WF_vars(Deliver)
  /\ WF_vars(EachMessage)

Spec == Init /\ [][Next]_vars /\ Fairness

-----------------------------------------------------------------------------
Snapshots == [votes : Counts, lastClicked : SUBSET Questions]

TypeOK ==
  /\ log \in Seq(Snapshots)
  /\ decoded \in Seq(Snapshots)
  /\ outbox \in Seq(Snapshots)
  /\ position \in Nat \union {None, Unassigned}
  /\ toCommit \in Nat \union {None}
  /\ committed \in Nat \union {RD_KAFKA_OFFSET_INVALID}
  /\ listening \in BOOLEAN
  /\ shown \in Nat
  /\ stored \in Nat \union {RD_KAFKA_OFFSET_INVALID}
  /\ shownCommitted \in Nat \union {RD_KAFKA_OFFSET_INVALID}
  /\ display \in [Questions -> Seq([Options -> Nat])]
  /\ faults \in Nat
  /\ cast \in Counts
  /\ lost \in BOOLEAN
  /\ unsent \subseteq Questions
  /\ unseen \subseteq Questions
  /\ disturbed \in BOOLEAN

Within(votes) == \A q \in Questions : \A o \in Options : votes[q][o] <= cast[q][o]

(* No snapshot counts a vote that nobody cast, whatever is delivered twice, *)
(* late or not at all, and wherever the server starts again: adding to a    *)
(* stale snapshot loses votes and makes none.                               *)
NeverOvercounts ==
  /\ \A i \in 1 .. Len(log) : Within(log[i].votes)
  /\ \A i \in 1 .. Len(outbox) : Within(outbox[i].votes)
  /\ \A i \in 1 .. Len(decoded) : Within(decoded[i].votes)

(* If votes come only when the server has read all it produced, and each is *)
(* counted, none is ever lost to it: a caught up server has counted exactly *)
(* the votes cast, over crashes between the votes and messages delivered    *)
(* twice, and over a snapshot that was not produced or not delivered, for   *)
(* the next one counts its vote too.  The newest snapshot of the topic then *)
(* counts them all as well, unless it is that vote's which is lost.  And    *)
(* when consumer.js has come to the end, the audience sees those counts of  *)
(* every question whose last snapshot was neither lost nor passed over.     *)
Counted ==
  ~ disturbed =>
    /\ CaughtUp => decoded[1].votes = cast
    /\ ~ lost => Last(log \o outbox).votes = cast
    /\ outbox = << >> /\ shown = Len(log) =>
         \A q \in Questions \ (unsent \union unseen) :
           display[q] = IF cast[q] = Zero[q] THEN << >> ELSE << cast[q] >>

(* Once there is more in the topic than the first snapshot, which a new     *)
(* group never reads, the poll opens, and opens again after every crash,    *)
(* unless the server did not learn where to begin: it does not ask again.   *)
(* And the audience is shown all there is whenever consumer.js is listening.*)
PollOpens ==
  /\ Len(log) > 1 ~> decoded # << >> \/ position = Unassigned
  /\ []<>(outbox = << >> /\ (listening => shown = Len(log)))
=============================================================================
