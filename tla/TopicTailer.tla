---------------------------- MODULE TopicTailer ----------------------------
(***************************************************************************)
(* topic-tailer: browsers choose topics in a form, and a server that tails *)
(* a topic for all of them sends its messages to the topic's room.  The    *)
(* server keeps one table, subscriptions, of the streams that are ready.   *)
(* It makes a consumer in steps that wait for Kafka (newConsumer), and it  *)
(* learns that a room is empty in a callback, after the browser has left.  *)
(*                                                                         *)
(* A browser's messages arrive in their order; those under way are lost    *)
(* when its connection is.                                                 *)
(***************************************************************************)
EXTENDS Naturals, Sequences, SequencesExt

CONSTANTS Clients,     \* browsers
          Topics,
          MaxChanges   \* how much the users and the network do

ASSUME ChangesAssumption == MaxChanges \in Nat

VARIABLES
  selectedTopics,  \* of a browser: the topics whose box is checked
  wire,            \* the events on their way from a browser to the server
  room,            \* the browsers that have joined a topic
  subscriptions,   \* the topics that have an entry in the table
  starting,        \* of a topic: consumers that are being made
  running,         \* of a topic: consumers that are connected
  answers,         \* of a topic: callbacks to come which say "nobody there"
  changes,         \* how much the users and the network have done
  reconnected,     \* browsers that have a new connection and not said more
  broken,          \* topics whose consumer failed, or that were joined
                   \*   when "nobody there" was on its way
  hasty            \* topics that got a consumer while another one started

browsers == << selectedTopics, wire, changes, reconnected >>
server == << room, subscriptions, starting, running, answers, broken, hasty >>
vars == << browsers, server >>

Init ==
  /\ selectedTopics = [c \in Clients |-> {}]
  /\ wire = [c \in Clients |-> << >>]
  /\ room = [t \in Topics |-> {}]
  /\ subscriptions = {}
  /\ starting = [t \in Topics |-> 0]
  /\ running = [t \in Topics |-> 0]
  /\ answers = [t \in Topics |-> 0]
  /\ changes = 0
  /\ reconnected = {}
  /\ broken = {}
  /\ hasty = {}

-----------------------------------------------------------------------------
(* The browser *)

Events(kind, ts) ==
  LET order == SetToSeq(ts)
  IN  [i \in DOMAIN order |-> [kind |-> kind, topic |-> order[i]]]

(* Variant: a box that is cleared is not unsubscribed.                     *)
HandleFormUpdates_NoUnsubscribe(c, chosen) == wire[c] \o Events("subscribe", chosen)

(* handleFormUpdates sends a subscribe for every box that is checked, those *)
(* that were checked before included, and then an unsubscribe for the one   *)
(* that was and is not.                                                     *)
HandleFormUpdates(c, chosen) ==
  wire[c] \o Events("subscribe", chosen) \o Events("unsubscribe", selectedTopics[c] \ chosen)

(* A user checks or clears a box, or changes another setting, which submits *)
(* the same form.                                                           *)
ChangeForm(c, chosen) ==
  /\ changes < MaxChanges
  /\ changes' = changes + 1
  /\ wire' = [wire EXCEPT ![c] = HandleFormUpdates(c, chosen)]
  /\ selectedTopics' = [selectedTopics EXCEPT ![c] = chosen]
  /\ reconnected' = reconnected \ {c}
  /\ UNCHANGED server

CheckBox(c, t) ==
  ChangeForm(c, IF t \in selectedTopics[c] THEN selectedTopics[c] \ {t}
                                           ELSE selectedTopics[c] \union {t})

OtherChange(c) == selectedTopics[c] # {} /\ ChangeForm(c, selectedTopics[c])

(* The socket leaves its rooms; the server has no handler for it.  A page   *)
(* that is loaded anew has an empty form.                                   *)
LoseConnection(c) ==
  /\ changes < MaxChanges
  /\ changes' = changes + 1
  /\ wire' = [wire EXCEPT ![c] = << >>]
  /\ room' = [t \in Topics |-> room[t] \ {c}]
  /\ UNCHANGED << subscriptions, starting, running, answers, broken, hasty >>

LoadPage(c) ==
  /\ LoseConnection(c)
  /\ selectedTopics' = [selectedTopics EXCEPT ![c] = {}]
  /\ UNCHANGED reconnected

(* socket.io connects again by itself and does not join rooms: only the     *)
(* next change of the form does.                                            *)
Reconnect(c) ==
  /\ LoseConnection(c)
  /\ reconnected' = reconnected \union {c}
  /\ UNCHANGED selectedTopics

-----------------------------------------------------------------------------
(* The server *)

Arrives(c, kind) ==
  /\ wire[c] # << >>
  /\ Head(wire[c]).kind = kind
  /\ wire' = [wire EXCEPT ![c] = Tail(@)]
  /\ UNCHANGED << selectedTopics, changes, reconnected >>

NewConsumer(t) ==
  /\ starting' = [starting EXCEPT ![t] = @ + 1]
  /\ hasty' = IF starting[t] > 0 THEN hasty \union {t} ELSE hasty

Joins(c, t) ==
  /\ room' = [room EXCEPT ![t] = @ \union {c}]
  /\ broken' = IF answers[t] > 0 THEN broken \union {t}
               ELSE IF t \in subscriptions THEN broken ELSE broken \ {t}

(* Variant: only the first in a room asks for a consumer.                  *)
Subscribe_NeverAgain(c) ==
  /\ Arrives(c, "subscribe")
  /\ LET t == Head(wire[c]).topic IN
       /\ IF t \in subscriptions \/ room[t] # {} THEN UNCHANGED << starting, hasty >>
                                                 ELSE NewConsumer(t)
       /\ Joins(c, t)
  /\ UNCHANGED << subscriptions, running, answers >>

Subscribe(c) ==
  /\ Arrives(c, "subscribe")
  /\ LET t == Head(wire[c]).topic IN
       /\ IF t \in subscriptions THEN UNCHANGED << starting, hasty >> ELSE NewConsumer(t)
       /\ Joins(c, t)
  /\ UNCHANGED << subscriptions, running, answers >>

(* Variant: does not ask whether the room is empty.                        *)
Unsubscribe_AsksNothing(c) ==
  /\ Arrives(c, "unsubscribe")
  /\ LET t == Head(wire[c]).topic IN
       /\ room' = [room EXCEPT ![t] = @ \ {c}]
       /\ answers' = [answers EXCEPT ![t] = @ + 1]
  /\ UNCHANGED << subscriptions, starting, running, broken, hasty >>

(* clients() answers later; only an answer that nobody is there does        *)
(* anything.                                                                *)
Unsubscribe(c) ==
  /\ Arrives(c, "unsubscribe")
  /\ LET t == Head(wire[c]).topic IN
       /\ room' = [room EXCEPT ![t] = @ \ {c}]
       /\ answers' = IF room'[t] = {} THEN [answers EXCEPT ![t] = @ + 1] ELSE answers
  /\ UNCHANGED << subscriptions, starting, running, broken, hasty >>

(* Variant: the entry goes and its consumer stays.                         *)
NobodyThere_KeepsConsumer(t) ==
  /\ answers[t] > 0
  /\ answers' = [answers EXCEPT ![t] = @ - 1]
  /\ subscriptions' = subscriptions \ {t}
  /\ UNCHANGED << browsers, room, starting, running, broken, hasty >>

(* Variant: disconnects for each callback.                                 *)
NobodyThere_NoEntryTest(t) ==
  /\ answers[t] > 0
  /\ answers' = [answers EXCEPT ![t] = @ - 1]
  /\ subscriptions' = subscriptions \ {t}
  /\ running' = [running EXCEPT ![t] = @ - 1]
  /\ UNCHANGED << browsers, room, starting, broken, hasty >>

(* The callback disconnects the consumer of the entry, if there is one, and *)
(* deletes the entry.  It does not look again whether somebody has joined.  *)
NobodyThere(t) ==
  /\ answers[t] > 0
  /\ answers' = [answers EXCEPT ![t] = @ - 1]
  /\ subscriptions' = subscriptions \ {t}
  /\ running' = IF t \in subscriptions THEN [running EXCEPT ![t] = @ - 1] ELSE running
  /\ UNCHANGED << browsers, room, starting, broken, hasty >>

(* The stream is ready and takes the topic's entry, whatever is there.      *)
ConsumerReady(t) ==
  /\ starting[t] > 0
  /\ starting' = [starting EXCEPT ![t] = @ - 1]
  /\ running' = [running EXCEPT ![t] = @ + 1]
  /\ subscriptions' = subscriptions \union {t}
  /\ UNCHANGED << browsers, room, answers, broken, hasty >>

(* A promise is rejected and nothing handles it.                            *)
ConsumerFails(t) ==
  /\ starting[t] > 0
  /\ starting' = [starting EXCEPT ![t] = @ - 1]
  /\ broken' = broken \union {t}
  /\ UNCHANGED << browsers, room, subscriptions, running, answers, hasty >>

-----------------------------------------------------------------------------
User(c) == (\E t \in Topics : CheckBox(c, t)) \/ OtherChange(c) \/ LoadPage(c) \/ Reconnect(c)

Handles(c) == Subscribe(c) \/ Unsubscribe(c)

Started(t) == ConsumerReady(t) \/ ConsumerFails(t)

Next ==
  \/ \E c \in Clients : User(c) \/ Handles(c)
  \/ \E t \in Topics : Started(t) \/ NobodyThere(t)

(* Node runs what has arrived: events, callbacks, settled promises.         *)
Fairness ==
  /\ \A c \in Clients : WF_vars(Handles(c))
  /\ \A t \in Topics : WF_vars(Started(t)) /\ WF_vars(NobodyThere(t))

Spec == Init /\ [][Next]_vars /\ Fairness

-----------------------------------------------------------------------------
TypeOK ==
  /\ selectedTopics \in [Clients -> SUBSET Topics]
  /\ wire \in [Clients -> Seq([kind : {"subscribe", "unsubscribe"}, topic : Topics])]
  /\ room \in [Topics -> SUBSET Clients]
  /\ subscriptions \subseteq Topics
  /\ starting \in [Topics -> Nat]
  /\ running \in [Topics -> Nat]
  /\ answers \in [Topics -> Nat]
  /\ changes \in 0 .. MaxChanges
  /\ reconnected \subseteq Clients
  /\ broken \subseteq Topics
  /\ hasty \subseteq Topics

(* Whoever is in a topic's room has a consumer that serves it or is being   *)
(* made, but for two failures that the code has: the consumer could not be  *)
(* made, or somebody came in between an unsubscribe and its callback, which *)
(* disconnects the consumer all the same.  The next subscribe heals both.   *)
Served ==
  \A t \in Topics \ broken :
    room[t] # {} => starting[t] > 0 \/ (t \in subscriptions /\ running[t] > 0)

(* The rooms that a browser is in are the boxes that its user sees checked, *)
(* once all that it said has arrived, unless its connection was lost since. *)
SelectionAgrees ==
  \A c \in Clients \ reconnected : \A t \in Topics :
    wire[c] = << >> => (c \in room[t] <=> t \in selectedTopics[c])

(* topic-tailer.adoc:80: "Topic Tailer creates at most 1 consumer thread    *)
(* per tailed topic".                                                       *)
OneConsumer == \A t \in Topics : running[t] <= 1

(* It does as long as no browser asks for a topic while the topic's         *)
(* consumer is being made, and then every consumer is in the table.         *)
OneUnlessHasty ==
  \A t \in Topics \ hasty :
    /\ starting[t] + running[t] <= 1
    /\ running[t] = 1 <=> t \in subscriptions

(* In the end whoever is in a topic's room is served, unless one of the two *)
(* failures came last: nobody waits for a consumer forever.                 *)
AllServed ==
  \A t \in Topics : []<>(room[t] # {} => t \in subscriptions \/ t \in broken)
=============================================================================
