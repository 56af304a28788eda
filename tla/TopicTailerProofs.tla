------------------------- MODULE TopicTailerProofs -------------------------
(***************************************************************************)
(* For any number of browsers, topics and changes: whoever is in a room is *)
(* served, a topic has one consumer unless browsers were hasty, the rooms  *)
(* follow the boxes that are checked, and a subscribe heals a room.        *)
(***************************************************************************)
EXTENDS TopicTailer, FiniteSets, FiniteSetTheorems, TLAPS

Counts ==
  /\ room \in [Topics -> SUBSET Clients]
  /\ starting \in [Topics -> Nat]
  /\ running \in [Topics -> Nat]
  /\ answers \in [Topics -> Nat]

(* An entry is about a consumer that runs.                                  *)
EntryRuns == \A t \in Topics : t \in subscriptions => running[t] > 0

(* Where "nobody there" is on its way, nobody is, or somebody came since.   *)
AnswersHold == \A t \in Topics : answers[t] > 0 => room[t] = {} \/ t \in broken

IInv == Counts /\ EntryRuns /\ AnswersHold /\ Served /\ OneUnlessHasty

(* t need not be a topic: a browser may send anything.                      *)
LEMMA CountedUp ==
  ASSUME NEW f \in [Topics -> Nat], NEW t
  PROVE  [f EXCEPT ![t] = @ + 1] \in [Topics -> Nat]
<1>1. CASE t \in Topics BY <1>1
<1>2. CASE t \notin Topics
  <2>1. \A s \in Topics : [f EXCEPT ![t] = @ + 1][s] = f[s] BY <1>2
  <2> QED BY <2>1
<1> QED BY <1>1, <1>2

LEMMA InitIInv == Init => IInv
  BY DEF Init, IInv, Counts, EntryRuns, AnswersHold, Served, OneUnlessHasty

(* What no step but one of the server's may touch                           *)
LEMMA ServerUnchanged == ASSUME IInv, UNCHANGED server PROVE IInv'
  BY DEF IInv, server, Counts, EntryRuns, AnswersHold, Served, OneUnlessHasty

(* A connection that is lost only empties rooms.                            *)
LEMMA ConnectionLost == ASSUME IInv, NEW c \in Clients, LoseConnection(c) PROVE IInv'
<1> USE DEF IInv, LoseConnection
<1>1. Counts' BY DEF Counts
<1>2. EntryRuns' BY DEF EntryRuns, Counts
<1>3. AnswersHold' BY DEF AnswersHold, Counts
<1>4. Served' BY DEF Served, Counts
<1>5. OneUnlessHasty' BY DEF OneUnlessHasty
<1> QED BY <1>1, <1>2, <1>3, <1>4, <1>5

(* A browser joins, and a consumer is made when the topic has no entry.     *)
LEMMA Subscribed == ASSUME IInv, NEW c \in Clients, Subscribe(c) PROVE IInv'
<1> DEFINE t == Head(wire[c]).topic
<1>1. /\ Joins(c, t)
      /\ IF t \in subscriptions THEN UNCHANGED << starting, hasty >> ELSE NewConsumer(t)
      /\ UNCHANGED << subscriptions, running, answers >>
  BY DEF Subscribe
<1> HIDE DEF t
<1> USE <1>1 DEF IInv
<1>2. Counts'
  <2>1. room' \in [Topics -> SUBSET Clients] BY DEF Counts, Joins
  <2>2. starting' \in [Topics -> Nat] BY DEF Counts, NewConsumer
  <2> QED BY <2>1, <2>2 DEF Counts
<1>3. EntryRuns'
  BY DEF EntryRuns
<1>4. AnswersHold'
  <2> SUFFICES ASSUME NEW s \in Topics, answers[s] > 0 PROVE room'[s] = {} \/ s \in broken'
    BY DEF AnswersHold
  <2>1. CASE s = t BY <2>1 DEF Joins
  <2>2. CASE s # t BY <2>2 DEF Joins, Counts, AnswersHold
  <2> QED BY <2>1, <2>2
<1>5. Served'
  <2> SUFFICES ASSUME NEW s \in Topics, s \notin broken', room'[s] # {}
               PROVE starting'[s] > 0 \/ (s \in subscriptions /\ running[s] > 0)
    BY DEF Served
  <2>1. CASE s = t BY <2>1 DEF NewConsumer, Counts, EntryRuns
  <2>2. CASE s # t
    <3>1. s \notin broken /\ room'[s] = room[s] BY <2>2 DEF Joins, Counts
    <3>2. starting'[s] = starting[s] BY <2>2 DEF NewConsumer, Counts
    <3> QED BY <3>1, <3>2 DEF Served
  <2> QED BY <2>1, <2>2
<1>6. OneUnlessHasty'
  <2> SUFFICES ASSUME NEW s \in Topics, s \notin hasty'
               PROVE /\ starting'[s] + running[s] <= 1
                     /\ running[s] = 1 <=> s \in subscriptions
    BY DEF OneUnlessHasty
  <2>1. s \notin hasty BY DEF NewConsumer
  <2>2. CASE s = t /\ t \notin subscriptions
    <3>1. starting[s] = 0 BY <2>2 DEF NewConsumer, Counts
    <3>2. starting'[s] = 1 BY <2>2, <3>1 DEF NewConsumer, Counts
    <3>3. running[s] = 0 BY <2>1, <2>2 DEF OneUnlessHasty, Counts
    <3> QED BY <2>2, <3>2, <3>3
  <2>3. CASE s # t \/ t \in subscriptions
    <3>1. starting'[s] = starting[s] BY <2>3 DEF NewConsumer, Counts
    <3> QED BY <2>1, <3>1 DEF OneUnlessHasty
  <2> QED BY <2>2, <2>3
<1> QED BY <1>2, <1>3, <1>4, <1>5, <1>6

(* A browser leaves; who finds the room empty asks for nothing else.        *)
LEMMA Unsubscribed == ASSUME IInv, NEW c \in Clients, Unsubscribe(c) PROVE IInv'
<1> DEFINE t == Head(wire[c]).topic
<1>1. /\ room' = [room EXCEPT ![t] = @ \ {c}]
      /\ answers' = IF room'[t] = {} THEN [answers EXCEPT ![t] = @ + 1] ELSE answers
      /\ UNCHANGED << subscriptions, starting, running, broken, hasty >>
  BY DEF Unsubscribe
<1> HIDE DEF t
<1> USE <1>1 DEF IInv
<1>2. Counts'
  <2>1. room' \in [Topics -> SUBSET Clients] BY DEF Counts
  <2>2. answers' \in [Topics -> Nat]
    <3>1. [answers EXCEPT ![t] = @ + 1] \in [Topics -> Nat] BY CountedUp DEF Counts
    <3>2. answers' = answers \/ answers' = [answers EXCEPT ![t] = @ + 1] OBVIOUS
    <3> QED BY <3>1, <3>2 DEF Counts
  <2> QED BY <2>1, <2>2 DEF Counts
<1>3. EntryRuns' BY DEF EntryRuns
<1>4. AnswersHold'
  <2> SUFFICES ASSUME NEW s \in Topics, answers'[s] > 0 PROVE room'[s] = {} \/ s \in broken
    BY DEF AnswersHold
  <2>1. CASE s = t /\ room'[t] = {} BY <2>1
  <2>2. CASE ~ (s = t /\ room'[t] = {})
    <3>1. answers'[s] = answers[s] BY <2>2 DEF Counts
    <3>2. room[s] = {} \/ s \in broken BY <3>1 DEF AnswersHold
    <3> QED BY <3>2 DEF Counts
  <2> QED BY <2>1, <2>2
<1>5. Served' BY DEF Served, Counts
<1>6. OneUnlessHasty' BY DEF OneUnlessHasty
<1> QED BY <1>2, <1>3, <1>4, <1>5, <1>6

(* The callback takes the entry and its consumer away.                      *)
LEMMA Answered == ASSUME IInv, NEW t \in Topics, NobodyThere(t) PROVE IInv'
<1> USE DEF IInv, NobodyThere
<1>1. t \in subscriptions => running[t] > 0 BY DEF EntryRuns
<1>2. Counts'
  <2>1. running' \in [Topics -> Nat] BY <1>1 DEF Counts
  <2> QED BY <2>1 DEF Counts
<1>3. EntryRuns' BY <1>1 DEF EntryRuns, Counts
<1>4. AnswersHold' BY DEF AnswersHold, Counts
<1>5. Served'
  <2> SUFFICES ASSUME NEW s \in Topics, s \notin broken, room[s] # {}
               PROVE starting[s] > 0 \/ (s \in subscriptions' /\ running'[s] > 0)
    BY DEF Served
  <2>1. s # t BY DEF AnswersHold
  <2> QED BY <2>1 DEF Served, Counts
<1>6. OneUnlessHasty' BY <1>1 DEF OneUnlessHasty, Counts
<1> QED BY <1>2, <1>3, <1>4, <1>5, <1>6

(* A consumer is ready or has failed.                                       *)
LEMMA Made == ASSUME IInv, NEW t \in Topics, Started(t) PROVE IInv'
<1> USE DEF IInv
<1>1. CASE ConsumerReady(t)
  <2> USE <1>1 DEF ConsumerReady
  <2>1. Counts' BY DEF Counts
  <2>2. EntryRuns' BY DEF EntryRuns, Counts
  <2>3. AnswersHold' BY DEF AnswersHold
  <2>4. Served' BY DEF Served, Counts
  <2>5. OneUnlessHasty' BY DEF OneUnlessHasty, Counts
  <2> QED BY <2>1, <2>2, <2>3, <2>4, <2>5
<1>2. CASE ConsumerFails(t)
  <2> USE <1>2 DEF ConsumerFails
  <2>1. Counts' BY DEF Counts
  <2>2. EntryRuns' BY DEF EntryRuns
  <2>3. AnswersHold' BY DEF AnswersHold
  <2>4. Served' BY DEF Served, Counts
  <2>5. OneUnlessHasty' BY DEF OneUnlessHasty, Counts
  <2> QED BY <2>1, <2>2, <2>3, <2>4, <2>5
<1> QED BY <1>1, <1>2 DEF Started

LEMMA NextIInv == IInv /\ [Next]_vars => IInv'
<1> SUFFICES ASSUME IInv, [Next]_vars PROVE IInv'
  OBVIOUS
<1>1. ASSUME NEW c \in Clients, User(c) PROVE IInv'
  <2>1. CASE UNCHANGED server BY <2>1, ServerUnchanged
  <2>2. CASE LoseConnection(c) BY <2>2, ConnectionLost
  <2> QED BY <1>1, <2>1, <2>2 DEF User, CheckBox, OtherChange, ChangeForm, LoadPage, Reconnect
<1>2. ASSUME NEW c \in Clients, Handles(c) PROVE IInv'
  BY <1>2, Subscribed, Unsubscribed DEF Handles
<1>3. ASSUME NEW t \in Topics, Started(t) PROVE IInv'
  BY <1>3, Made
<1>4. ASSUME NEW t \in Topics, NobodyThere(t) PROVE IInv'
  BY <1>4, Answered
<1>5. CASE UNCHANGED vars
  BY <1>5, ServerUnchanged DEF vars
<1> QED BY <1>1, <1>2, <1>3, <1>4, <1>5 DEF Next

(* Everybody in a room is served, whatever the browsers and the network do  *)
(* and however the server's events, callbacks and promises interleave.      *)
THEOREM ServedTheorem == Spec => []Served
<1>1. Init => IInv BY InitIInv
<1>2. IInv /\ [Next]_vars => IInv' BY NextIInv
<1>3. IInv => Served BY DEF IInv
<1> QED BY <1>1, <1>2, <1>3, PTL DEF Spec

(* A topic has at most one consumer as long as no browser asked for it      *)
(* while its consumer was being made.                                       *)
THEOREM OneUnlessHastyTheorem == Spec => []OneUnlessHasty
<1>1. Init => IInv BY InitIInv
<1>2. IInv /\ [Next]_vars => IInv' BY NextIInv
<1>3. IInv => OneUnlessHasty BY DEF IInv
<1> QED BY <1>1, <1>2, <1>3, PTL DEF Spec

-----------------------------------------------------------------------------
(* What the events on their way add up to *)

Event == [kind : {"subscribe", "unsubscribe"}, topic : Topics]

(* Forms are finite, however many topics there are.                         *)
Typed ==
  /\ TypeOK
  /\ \A c \in Clients : IsFiniteSet(selectedTopics[c])

(* Nothing after the i-th event is about t.                                 *)
LastAbout(w, i, t) == \A j \in i + 1 .. Len(w) : w[j].topic # t

(* The last event about a topic says what the form does, and so does the    *)
(* room when there is no such event.                                        *)
Says(w, t, member, selected) ==
  /\ \A i \in 1 .. Len(w) :
       w[i].topic = t /\ LastAbout(w, i, t) => (w[i].kind = "subscribe" <=> selected)
  /\ LastAbout(w, 0, t) => (member <=> selected)

(* Who has a new connection has neither said anything nor is anywhere.      *)
FormsArrive ==
  \A c \in Clients : \A t \in Topics :
    IF c \in reconnected
      THEN wire[c] = << >> /\ c \notin room[t]
      ELSE Says(wire[c], t, c \in room[t], t \in selectedTopics[c])

TailerInv == IInv /\ Typed /\ FormsArrive

(* A form's events are of one kind and name each of its topics.             *)
LEMMA EventsName ==
  ASSUME NEW kind \in {"subscribe", "unsubscribe"}, NEW ts \in SUBSET Topics, IsFiniteSet(ts)
  PROVE  /\ Events(kind, ts) \in Seq(Event)
         /\ \A i \in 1 .. Len(Events(kind, ts)) :
              Events(kind, ts)[i].kind = kind /\ Events(kind, ts)[i].topic \in ts
         /\ \A t \in ts : \E i \in 1 .. Len(Events(kind, ts)) : Events(kind, ts)[i].topic = t
<1> DEFINE n == Cardinality(ts)
           order == SetToSeq(ts)
<1>1. n \in Nat /\ ExistsBijection(1 .. n, ts)
  BY FS_CardinalityType
<1>2. \E f \in [1 .. n -> ts] : IsInjective(f)
  BY <1>1 DEF ExistsBijection, Bijection, Injection
<1>3. order \in [1 .. n -> ts] /\ IsInjective(order)
  BY <1>2 DEF SetToSeq
<1>4. order \in Injection(1 .. n, ts)
  BY <1>3 DEF Injection
<1>5. Cardinality(1 .. n) = n
  BY <1>1, FS_Interval
<1> HIDE DEF n, order
<1>6. order \in Surjection(1 .. n, ts)
  BY <1>4, <1>5, FS_Injection DEF n
<1>7. \A t \in ts : \E i \in 1 .. n : order[i] = t
  BY <1>6 DEF Surjection
<1>8. Events(kind, ts) = [i \in 1 .. n |-> [kind |-> kind, topic |-> order[i]]]
  BY <1>3 DEF Events, order
<1>9. \A i \in 1 .. n : [kind |-> kind, topic |-> order[i]] \in Event
  BY <1>3 DEF Event
<1>10. Events(kind, ts) \in Seq(Event) /\ Len(Events(kind, ts)) = n
  BY <1>1, <1>8, <1>9
<1>12. ASSUME NEW i \in 1 .. n
       PROVE  Events(kind, ts)[i].kind = kind /\ Events(kind, ts)[i].topic \in ts
  BY <1>3, <1>8
<1>11. ASSUME NEW t \in ts
       PROVE  \E i \in 1 .. Len(Events(kind, ts)) : Events(kind, ts)[i].topic = t
  <2>1. PICK i \in 1 .. n : order[i] = t
    BY <1>7
  <2>2. Events(kind, ts)[i].topic = t
    BY <1>8, <2>1
  <2> QED
    BY <1>10, <2>2
<1> QED
  BY <1>10, <1>11, <1>12

(* Where the elements of a concatenation come from.                         *)
LEMMA Concatenated ==
  ASSUME NEW S, NEW w \in Seq(S), NEW e \in Seq(S)
  PROVE  /\ w \o e \in Seq(S) /\ Len(w \o e) = Len(w) + Len(e)
         /\ \A i \in 1 .. Len(w) : (w \o e)[i] = w[i]
         /\ \A i \in 1 .. Len(e) : (w \o e)[Len(w) + i] = e[i]
<1>1. \A i \in 1 .. Len(w) : i \in 1 .. Len(w) + Len(e)
  OBVIOUS
<1>2. ASSUME NEW i \in 1 .. Len(e) PROVE (w \o e)[Len(w) + i] = e[i]
  <2>1. Len(w) + i \in 1 .. Len(w) + Len(e) /\ ~ (Len(w) + i <= Len(w))
    OBVIOUS
  <2>2. (w \o e)[Len(w) + i] = e[Len(w) + i - Len(w)]
    BY <2>1
  <2>3. Len(w) + i - Len(w) = i
    OBVIOUS
  <2> QED
    BY <2>2, <2>3
<1> QED
  BY <1>1, <1>2

(* Of a topic that new events name, they alone say what becomes.            *)
LEMMA NamedAgain ==
  ASSUME NEW S, NEW w \in Seq(S), NEW e \in Seq(S), NEW t, NEW m, NEW selected,
         NEW k \in 1 .. Len(e), e[k].topic = t,
         \A i \in 1 .. Len(e) : e[i].topic = t => (e[i].kind = "subscribe" <=> selected)
  PROVE  Says(w \o e, t, m, selected)
<1> DEFINE u == w \o e
<1>1. /\ Len(u) = Len(w) + Len(e)
      /\ \A i \in 1 .. Len(e) : u[Len(w) + i] = e[i]
  BY Concatenated
<1> HIDE DEF u
<1>2. ASSUME NEW i \in 0 .. Len(w), LastAbout(u, i, t) PROVE FALSE
  <2>1. Len(w) + k \in i + 1 .. Len(u) /\ u[Len(w) + k].topic = t
    BY <1>1
  <2> QED
    BY <1>2, <2>1 DEF LastAbout
<1>3. ASSUME NEW i \in 1 .. Len(u), u[i].topic = t, LastAbout(u, i, t)
      PROVE  u[i].kind = "subscribe" <=> selected
  <2>1. ~ (i <= Len(w))
    BY <1>2, <1>3
  <2>2. i - Len(w) \in 1 .. Len(e) /\ Len(w) + (i - Len(w)) = i
    BY <1>1, <2>1
  <2>3. u[i] = e[i - Len(w)]
    BY <1>1, <2>2
  <2> QED
    BY <1>3, <2>2, <2>3
<1>4. 0 \in 0 .. Len(w)
  OBVIOUS
<1> QED
  BY <1>2, <1>3, <1>4 DEF Says, u

(* Of any other, they say nothing.                                          *)
LEMMA NotNamed ==
  ASSUME NEW S, NEW w \in Seq(S), NEW e \in Seq(S), NEW t, NEW m, NEW selected,
         \A i \in 1 .. Len(e) : e[i].topic # t,
         Says(w, t, m, selected)
  PROVE  Says(w \o e, t, m, selected)
<1> DEFINE u == w \o e
<1>1. /\ Len(u) = Len(w) + Len(e)
      /\ \A i \in 1 .. Len(w) : u[i] = w[i]
      /\ \A i \in 1 .. Len(e) : u[Len(w) + i] = e[i]
  BY Concatenated
<1> HIDE DEF u
<1>2. ASSUME NEW i \in 0 .. Len(w), LastAbout(u, i, t) PROVE LastAbout(w, i, t)
  <2> SUFFICES ASSUME NEW j \in i + 1 .. Len(w) PROVE w[j].topic # t
    BY DEF LastAbout
  <2>1. j \in i + 1 .. Len(u) /\ j \in 1 .. Len(w)
    BY <1>1
  <2> QED
    BY <1>1, <1>2, <2>1 DEF LastAbout
<1>3. ASSUME NEW i \in 1 .. Len(u), u[i].topic = t, LastAbout(u, i, t)
      PROVE  u[i].kind = "subscribe" <=> selected
  <2>1. CASE i <= Len(w)
    <3>1. i \in 1 .. Len(w) /\ i \in 0 .. Len(w)
      BY <2>1
    <3>2. u[i] = w[i] /\ LastAbout(w, i, t)
      BY <1>1, <1>2, <1>3, <3>1
    <3> QED
      BY <1>3, <3>1, <3>2 DEF Says
  <2>2. CASE ~ (i <= Len(w))
    <3>1. i - Len(w) \in 1 .. Len(e) /\ Len(w) + (i - Len(w)) = i
      BY <1>1, <2>2
    <3>2. u[i] = e[i - Len(w)]
      BY <1>1, <3>1
    <3> QED
      BY <1>3, <3>1, <3>2
  <2> QED
    BY <2>1, <2>2
<1>4. 0 \in 0 .. Len(w)
  OBVIOUS
<1> QED
  BY <1>2, <1>3, <1>4 DEF Says, u

(* What the server does with the first event puts the room where the rest   *)
(* of the events need it.                                                   *)
LEMMA Handled ==
  ASSUME NEW S, NEW w \in Seq(S), w # << >>, NEW t, NEW m, NEW selected,
         Says(w, t, m, selected)
  PROVE  Says(Tail(w), t, IF Head(w).topic = t THEN Head(w).kind = "subscribe" ELSE m, selected)
<1> DEFINE v == Tail(w)
<1>1. /\ Len(w) \in Nat \ {0} /\ Len(v) = Len(w) - 1 /\ Head(w) = w[1]
      /\ \A i \in 1 .. Len(v) : v[i] = w[i + 1]
  OBVIOUS
<1> HIDE DEF v
<1>2. ASSUME NEW i \in 0 .. Len(v), LastAbout(v, i, t) PROVE LastAbout(w, i + 1, t)
  <2> SUFFICES ASSUME NEW j \in i + 2 .. Len(w) PROVE w[j].topic # t
    BY DEF LastAbout
  <2>1. j - 1 \in i + 1 .. Len(v) /\ j - 1 \in 1 .. Len(v) /\ (j - 1) + 1 = j
    BY <1>1
  <2> QED
    BY <1>1, <1>2, <2>1 DEF LastAbout
<1>3. ASSUME NEW i \in 1 .. Len(v), v[i].topic = t, LastAbout(v, i, t)
      PROVE  v[i].kind = "subscribe" <=> selected
  <2>1. i + 1 \in 1 .. Len(w) /\ i \in 0 .. Len(v) /\ v[i] = w[i + 1]
    BY <1>1
  <2>2. LastAbout(w, i + 1, t)
    BY <1>2, <1>3, <2>1
  <2> QED
    BY <1>3, <2>1, <2>2 DEF Says
<1>4. ASSUME LastAbout(v, 0, t)
      PROVE  IF Head(w).topic = t THEN Head(w).kind = "subscribe" <=> selected
                                  ELSE m <=> selected
  <2>1. LastAbout(w, 1, t) /\ 1 \in 1 .. Len(w)
    BY <1>1, <1>2, <1>4
  <2>2. CASE Head(w).topic = t
    BY <1>1, <2>1, <2>2 DEF Says
  <2>3. CASE Head(w).topic # t
    <3>1. \A j \in 1 .. Len(w) : j = 1 \/ j \in 2 .. Len(w)
      BY <1>1
    <3>2. LastAbout(w, 0, t)
      BY <1>1, <2>1, <2>3, <3>1 DEF LastAbout
    <3> QED
      BY <2>3, <3>2 DEF Says
  <2> QED
    BY <2>2, <2>3
<1> QED
  BY <1>3, <1>4 DEF Says, v

(* A form that is submitted is typed and finite.                            *)
LEMMA FormTyped ==
  ASSUME Typed, NEW c \in Clients, NEW chosen \in SUBSET Topics, IsFiniteSet(chosen),
         ChangeForm(c, chosen)
  PROVE  Typed'
<1> USE DEF Typed, TypeOK
<1>1. /\ Events("subscribe", chosen) \in Seq(Event)
      /\ Events("unsubscribe", selectedTopics[c] \ chosen) \in Seq(Event)
  <2>1. /\ IsFiniteSet(selectedTopics[c] \ chosen)
        /\ selectedTopics[c] \ chosen \in SUBSET Topics
    BY FS_Difference
  <2> QED
    BY <2>1, EventsName
<1>2. wire[c] \in Seq(Event)
  BY DEF Event
<1>3. HandleFormUpdates(c, chosen) \in Seq(Event)
  BY <1>1, <1>2 DEF HandleFormUpdates
<1>4. wire' \in [Clients -> Seq(Event)]
  BY <1>3 DEF ChangeForm, Event
<1>5. selectedTopics' \in [Clients -> SUBSET Topics] /\ reconnected' \subseteq Clients
  BY DEF ChangeForm
<1>6. changes' \in 0 .. MaxChanges
  BY ChangesAssumption DEF ChangeForm
<1>7. \A d \in Clients : IsFiniteSet(selectedTopics'[d])
  BY DEF ChangeForm
<1> QED
  BY <1>4, <1>5, <1>6, <1>7 DEF ChangeForm, server, Event

(* What arrives is an event about a topic.                                  *)
LEMMA EventTyped ==
  ASSUME Typed, NEW c \in Clients, wire[c] # << >>
  PROVE  /\ wire[c] \in Seq(Event) /\ Tail(wire[c]) \in Seq(Event)
         /\ Head(wire[c]) \in Event
<1>1. wire[c] \in Seq(Event)
  BY DEF Typed, TypeOK, Event
<1> QED
  BY <1>1

(* Every step keeps the types; a callback needs that an entry's consumer runs. *)
LEMMA NextTyped == IInv /\ Typed /\ [Next]_vars => Typed'
<1> SUFFICES ASSUME IInv, Typed, [Next]_vars PROVE Typed'
  OBVIOUS
<1> USE DEF Typed, TypeOK
<1>1. ASSUME NEW c \in Clients, NEW t \in Topics, CheckBox(c, t) PROVE Typed'
  <2>1. /\ IsFiniteSet(selectedTopics[c] \ {t}) /\ IsFiniteSet(selectedTopics[c] \union {t})
        /\ selectedTopics[c] \ {t} \in SUBSET Topics /\ selectedTopics[c] \union {t} \in SUBSET Topics
    BY FS_AddElement, FS_RemoveElement
  <2> QED
    BY <1>1, <2>1, FormTyped DEF CheckBox
<1>2. ASSUME NEW c \in Clients, OtherChange(c) PROVE Typed'
  BY <1>2, FormTyped DEF OtherChange
<1>3. ASSUME NEW c \in Clients, LoadPage(c) \/ Reconnect(c) PROVE Typed'
  <2>1. /\ wire' = [wire EXCEPT ![c] = << >>] /\ room' = [t \in Topics |-> room[t] \ {c}]
        /\ changes < MaxChanges /\ changes' = changes + 1
        /\ UNCHANGED << subscriptions, starting, running, answers, broken, hasty >>
    BY <1>3 DEF LoadPage, Reconnect, LoseConnection
  <2>2. /\ selectedTopics' = selectedTopics \/ selectedTopics' = [selectedTopics EXCEPT ![c] = {}]
        /\ reconnected' \subseteq Clients
    BY <1>3 DEF LoadPage, Reconnect
  <2>3. wire' \in [Clients -> Seq([kind : {"subscribe", "unsubscribe"}, topic : Topics])]
    <3>1. << >> \in Seq(Event)
      OBVIOUS
    <3> QED
      BY <2>1, <3>1 DEF Event
  <2>4. changes' \in 0 .. MaxChanges
    BY <2>1, ChangesAssumption
  <2>5. /\ selectedTopics' \in [Clients -> SUBSET Topics]
        /\ \A d \in Clients : IsFiniteSet(selectedTopics'[d])
    BY <2>2, FS_EmptySet
  <2> QED
    BY <2>1, <2>2, <2>3, <2>4, <2>5
<1>4. ASSUME NEW c \in Clients, Subscribe(c) \/ Unsubscribe(c) PROVE Typed'
  <2>1. /\ wire[c] # << >> /\ wire' = [wire EXCEPT ![c] = Tail(wire[c])]
        /\ UNCHANGED << selectedTopics, changes, reconnected, subscriptions, running >>
    BY <1>4 DEF Subscribe, Unsubscribe, Arrives
  <2>2. Tail(wire[c]) \in Seq(Event) /\ Head(wire[c]).topic \in Topics
    BY <2>1, EventTyped DEF Event
  <2>3. wire' \in [Clients -> Seq(Event)]
    BY <2>1, <2>2 DEF Event
  <2> DEFINE t == Head(wire[c]).topic
  <2>4. /\ room' = [room EXCEPT ![t] = @ \union {c}] \/ room' = [room EXCEPT ![t] = @ \ {c}]
        /\ starting' = starting \/ starting' = [starting EXCEPT ![t] = @ + 1]
        /\ answers' = answers \/ answers' = [answers EXCEPT ![t] = @ + 1]
        /\ broken' \subseteq broken \union {t} /\ hasty' \subseteq hasty \union {t}
    BY <1>4 DEF Subscribe, Unsubscribe, Joins, NewConsumer
  <2> HIDE DEF t
  <2>5. t \in Topics
    BY <2>2 DEF t
  <2>6. room' \in [Topics -> SUBSET Clients]
    <3>1. CASE room' = [room EXCEPT ![t] = @ \union {c}]
      BY <2>5, <3>1
    <3>2. CASE room' = [room EXCEPT ![t] = @ \ {c}]
      BY <2>5, <3>2
    <3> QED
      BY <2>4, <3>1, <3>2
  <2>7. starting' \in [Topics -> Nat]
    <3>1. CASE starting' = [starting EXCEPT ![t] = @ + 1]
      BY <2>5, <3>1
    <3> QED
      BY <2>4, <3>1
  <2>8. answers' \in [Topics -> Nat]
    <3>1. CASE answers' = [answers EXCEPT ![t] = @ + 1]
      BY <2>5, <3>1
    <3> QED
      BY <2>4, <3>1
  <2>9. broken' \subseteq Topics /\ hasty' \subseteq Topics
    BY <2>4, <2>5
  <2> QED
    BY <2>1, <2>3, <2>6, <2>7, <2>8, <2>9 DEF Event
<1>5. ASSUME NEW t \in Topics, Started(t) PROVE Typed'
  <2>1. starting[t] > 0 /\ starting' = [starting EXCEPT ![t] = @ - 1] /\ UNCHANGED browsers
    BY <1>5 DEF Started, ConsumerReady, ConsumerFails
  <2>2. starting' \in [Topics -> Nat]
    BY <2>1
  <2>3. CASE ConsumerReady(t)
    BY <2>1, <2>2, <2>3 DEF ConsumerReady, browsers
  <2>4. CASE ConsumerFails(t)
    BY <2>1, <2>2, <2>4 DEF ConsumerFails, browsers
  <2> QED
    BY <1>5, <2>3, <2>4 DEF Started
<1>6. ASSUME NEW t \in Topics, NobodyThere(t) PROVE Typed'
  <2>1. t \in subscriptions => running[t] > 0
    BY DEF IInv, EntryRuns
  <2> QED
    BY <1>6, <2>1 DEF NobodyThere, browsers
<1>7. CASE UNCHANGED vars
  BY <1>7 DEF vars, browsers, server
<1> QED
  BY <1>1, <1>2, <1>3, <1>4, <1>5, <1>6, <1>7 DEF Next, User, Handles

-----------------------------------------------------------------------------
(* A submitted form names every topic that it changes.                      *)
LEMMA FormArrives ==
  ASSUME Typed, FormsArrive, NEW c \in Clients, NEW chosen \in SUBSET Topics,
         IsFiniteSet(chosen), NEW t \in Topics
  PROVE  Says(HandleFormUpdates(c, chosen), t, c \in room[t], t \in chosen)
<1> DEFINE w == wire[c]
           e == Events("subscribe", chosen)
           cleared == selectedTopics[c] \ chosen
           f == Events("unsubscribe", cleared)
<1>1. w \in Seq(Event)
  BY DEF Typed, TypeOK, Event
<1>2. IsFiniteSet(cleared) /\ cleared \in SUBSET Topics
  BY FS_Difference DEF Typed, TypeOK
<1>3. /\ e \in Seq(Event)
      /\ \A i \in 1 .. Len(e) : e[i].kind = "subscribe" /\ e[i].topic \in chosen
      /\ \A s \in chosen : \E i \in 1 .. Len(e) : e[i].topic = s
  BY EventsName
<1>4. /\ f \in Seq(Event)
      /\ \A i \in 1 .. Len(f) : f[i].kind = "unsubscribe" /\ f[i].topic \in cleared
      /\ \A s \in cleared : \E i \in 1 .. Len(f) : f[i].topic = s
  <2> HIDE DEF cleared
  <2> QED
    BY <1>2, EventsName
<1>6. HandleFormUpdates(c, chosen) = (w \o e) \o f
  BY DEF HandleFormUpdates
<1>7. t \in cleared <=> t \in selectedTopics[c] /\ t \notin chosen
  OBVIOUS
<1>8. t \notin selectedTopics[c] => Says(w, t, c \in room[t], FALSE)
  <2> SUFFICES ASSUME t \notin selectedTopics[c] PROVE Says(w, t, c \in room[t], FALSE)
    OBVIOUS
  <2>1. CASE c \in reconnected
    BY <2>1 DEF FormsArrive, Says
  <2>2. CASE c \notin reconnected
    <3>1. Says(w, t, c \in room[t], t \in selectedTopics[c])
      BY <2>2 DEF FormsArrive
    <3> QED
      BY <3>1 DEF Says
  <2> QED
    BY <2>1, <2>2
<1> HIDE DEF w, e, f, cleared
<1>9. w \o e \in Seq(Event)
  BY <1>1, <1>3
<1>10. CASE t \in chosen
  <2>1. PICK k \in 1 .. Len(e) : e[k].topic = t
    BY <1>3, <1>10
  <2>2. Says(w \o e, t, c \in room[t], TRUE)
    BY <1>1, <1>3, <2>1, NamedAgain
  <2>3. Says((w \o e) \o f, t, c \in room[t], TRUE)
    BY <1>4, <1>7, <1>9, <1>10, <2>2, NotNamed
  <2> QED
    BY <1>6, <1>10, <2>3 DEF Says
<1>11. CASE t \in cleared
  <2>1. PICK k \in 1 .. Len(f) : f[k].topic = t
    BY <1>4, <1>11
  <2>2. \A i \in 1 .. Len(f) : f[i].topic = t => (f[i].kind = "subscribe" <=> FALSE)
    BY <1>4
  <2>3. Says((w \o e) \o f, t, c \in room[t], FALSE)
    BY <1>4, <1>9, <2>1, <2>2, NamedAgain
  <2> QED
    BY <1>6, <1>7, <1>11, <2>3 DEF Says
<1>12. CASE t \notin chosen /\ t \notin cleared
  <2>1. Says(w, t, c \in room[t], FALSE)
    BY <1>7, <1>8, <1>12
  <2>2. Says(w \o e, t, c \in room[t], FALSE)
    BY <1>1, <1>3, <1>12, <2>1, NotNamed
  <2>3. Says((w \o e) \o f, t, c \in room[t], FALSE)
    BY <1>4, <1>9, <1>12, <2>2, NotNamed
  <2> QED
    BY <1>6, <1>12, <2>3 DEF Says
<1> QED
  BY <1>10, <1>11, <1>12

(* Every step of a browser, of the network or of the server keeps a room     *)
(* and the events on their way in agreement with the form.                   *)
LEMMA NextFormsArrive == IInv /\ Typed /\ FormsArrive /\ [Next]_vars => FormsArrive'
<1> SUFFICES ASSUME IInv, Typed, FormsArrive, [Next]_vars,
                    NEW d \in Clients, NEW s \in Topics
             PROVE  IF d \in reconnected'
                      THEN wire'[d] = << >> /\ d \notin room'[s]
                      ELSE Says(wire'[d], s, d \in room'[s], s \in selectedTopics'[d])
  BY DEF FormsArrive
<1> DEFINE Goal == IF d \in reconnected'
                     THEN wire'[d] = << >> /\ d \notin room'[s]
                     ELSE Says(wire'[d], s, d \in room'[s], s \in selectedTopics'[d])
<1>0. IF d \in reconnected
        THEN wire[d] = << >> /\ d \notin room[s]
        ELSE Says(wire[d], s, d \in room[s], s \in selectedTopics[d])
  BY DEF FormsArrive
<1>a. ASSUME wire'[d] = wire[d], d \in room'[s] <=> d \in room[s],
             d \in reconnected' <=> d \in reconnected,
             s \in selectedTopics'[d] <=> s \in selectedTopics[d]
      PROVE  Goal
  BY <1>0, <1>a DEF Says
<1> HIDE DEF Goal
<1>t. /\ selectedTopics \in [Clients -> SUBSET Topics]
      /\ wire \in [Clients -> Seq(Event)] /\ room \in [Topics -> SUBSET Clients]
  BY DEF Typed, TypeOK, Event
<1>1. ASSUME NEW c \in Clients, NEW chosen \in SUBSET Topics, IsFiniteSet(chosen), ChangeForm(c, chosen)
      PROVE  Goal
  <2>1. CASE d = c
    <3>1. wire'[c] = HandleFormUpdates(c, chosen) /\ selectedTopics'[c] = chosen
      BY <1>1, <1>t DEF ChangeForm
    <3>2. c \notin reconnected' /\ room' = room
      BY <1>1 DEF ChangeForm, server
    <3>3. Says(HandleFormUpdates(c, chosen), s, c \in room[s], s \in chosen)
      BY <1>1, FormArrives
    <3> QED
      BY <2>1, <3>1, <3>2, <3>3 DEF Goal
  <2>2. CASE d # c
    BY <1>1, <1>a, <1>t, <2>2 DEF ChangeForm, server
  <2> QED
    BY <2>1, <2>2
<1>2. ASSUME NEW c \in Clients, LoadPage(c) \/ Reconnect(c) PROVE Goal
  <2>1. /\ wire' = [wire EXCEPT ![c] = << >>] /\ room' = [t \in Topics |-> room[t] \ {c}]
    BY <1>2 DEF LoadPage, Reconnect, LoseConnection
  <2>2. CASE d # c
    <3>1. selectedTopics'[d] = selectedTopics[d] /\ (d \in reconnected' <=> d \in reconnected)
      BY <1>2, <1>t, <2>2 DEF LoadPage, Reconnect
    <3> QED
      BY <1>a, <1>t, <2>1, <2>2, <3>1
  <2>3. CASE d = c
    <3>1. wire'[d] = << >> /\ d \notin room'[s]
      BY <1>t, <2>1, <2>3
    <3>2. d \notin reconnected' => s \notin selectedTopics'[d]
      BY <1>2, <1>t, <2>3 DEF LoadPage, Reconnect
    <3> QED
      BY <3>1, <3>2 DEF Goal, Says
  <2> QED
    BY <2>2, <2>3
<1>3. ASSUME NEW c \in Clients, Subscribe(c) \/ Unsubscribe(c) PROVE Goal
  <2> DEFINE t == Head(wire[c]).topic
  <2>1. /\ wire[c] # << >> /\ wire' = [wire EXCEPT ![c] = Tail(wire[c])]
        /\ UNCHANGED << selectedTopics, reconnected >>
        /\ \/ Head(wire[c]).kind = "subscribe" /\ room' = [room EXCEPT ![t] = @ \union {c}]
           \/ Head(wire[c]).kind = "unsubscribe" /\ room' = [room EXCEPT ![t] = @ \ {c}]
    BY <1>3 DEF Subscribe, Unsubscribe, Arrives, Joins
  <2>2. wire[c] \in Seq(Event) /\ Head(wire[c]) \in Event
    BY <2>1, EventTyped
  <2>3. CASE d # c
    <3>1. d \in room'[s] <=> d \in room[s]
      BY <1>t, <2>1, <2>3
    <3> QED
      BY <1>a, <1>t, <2>1, <2>3, <3>1
  <2>4. CASE d = c
    <3>1. c \notin reconnected /\ c \notin reconnected'
      BY <1>0, <2>1, <2>4
    <3>2. Says(wire[c], s, c \in room[s], s \in selectedTopics[c])
      BY <1>0, <2>4, <3>1
    <3>3. Says(Tail(wire[c]), s,
               IF t = s THEN Head(wire[c]).kind = "subscribe" ELSE c \in room[s],
               s \in selectedTopics[c])
      BY <2>1, <2>2, <3>2, Handled
    <3>4. wire'[c] = Tail(wire[c])
      BY <1>t, <2>1
    <3>5. c \in room'[s] <=> IF t = s THEN Head(wire[c]).kind = "subscribe" ELSE c \in room[s]
      BY <1>t, <2>1
    <3>6. Says(Tail(wire[c]), s, c \in room'[s], s \in selectedTopics[c])
      BY <3>3, <3>5 DEF Says
    <3> QED
      BY <2>1, <2>4, <3>1, <3>4, <3>6 DEF Goal
  <2> QED
    BY <2>3, <2>4
<1>4. ASSUME NEW t \in Topics, Started(t) \/ NobodyThere(t) PROVE Goal
  BY <1>4, <1>a DEF Started, ConsumerReady, ConsumerFails, NobodyThere, browsers
<1>5. CASE UNCHANGED vars
  <2>1. UNCHANGED << wire, room, reconnected, selectedTopics >>
    BY <1>5 DEF vars, browsers, server
  <2>2. /\ wire'[d] = wire[d] /\ (d \in room'[s] <=> d \in room[s])
        /\ (d \in reconnected' <=> d \in reconnected)
        /\ (s \in selectedTopics'[d] <=> s \in selectedTopics[d])
    BY <2>1
  <2> QED
    BY <1>a, <2>2 DEF Goal
<1>6. ASSUME NEW c \in Clients, User(c) PROVE Goal
  <2>1. IsFiniteSet(selectedTopics[c]) /\ selectedTopics[c] \in SUBSET Topics
    BY DEF Typed, TypeOK
  <2>2. ASSUME NEW t \in Topics, CheckBox(c, t) PROVE Goal
    <3>1. /\ IsFiniteSet(selectedTopics[c] \ {t}) /\ IsFiniteSet(selectedTopics[c] \union {t})
          /\ selectedTopics[c] \ {t} \in SUBSET Topics
          /\ selectedTopics[c] \union {t} \in SUBSET Topics
      BY <2>1, FS_AddElement, FS_RemoveElement
    <3> QED
      BY <1>1, <2>2, <3>1 DEF CheckBox
  <2>3. CASE OtherChange(c)
    BY <1>1, <2>1, <2>3 DEF OtherChange
  <2> QED
    BY <1>2, <1>6, <2>2, <2>3 DEF User
<1> QED
  BY <1>3, <1>4, <1>5, <1>6 DEF Next, Handles, Goal

(* The inductive invariant of both parts, the table and the forms.           *)
LEMMA TailerInvariant == Spec => []TailerInv
<1>1. Init => TailerInv
  <2> SUFFICES ASSUME Init PROVE Typed /\ FormsArrive
    BY InitIInv DEF TailerInv
  <2>1. Typed
    BY FS_EmptySet, ChangesAssumption DEF Init, Typed, TypeOK
  <2>2. FormsArrive
    BY DEF Init, FormsArrive, Says
  <2> QED
    BY <2>1, <2>2
<1>2. TailerInv /\ [Next]_vars => TailerInv'
  BY NextIInv, NextTyped, NextFormsArrive DEF TailerInv
<1> QED
  BY <1>1, <1>2, PTL DEF Spec

(* The variables have their types, whatever the browsers send: no count of  *)
(* consumers or callbacks goes below zero.                                  *)
THEOREM TailerTypeCorrect == Spec => []TypeOK
<1>1. TailerInv => TypeOK
  BY DEF TailerInv, Typed
<1> QED
  BY <1>1, TailerInvariant, PTL

(* Once all that a browser said has arrived, it is in the rooms of the boxes *)
(* its user sees checked, unless its connection was lost since.              *)
THEOREM RoomsFollowForms == Spec => []SelectionAgrees
<1>1. TailerInv => SelectionAgrees
  BY DEF TailerInv, FormsArrive, SelectionAgrees, Says, LastAbout
<1> QED
  BY <1>1, TailerInvariant, PTL

(* A subscribe puts right what a failure has left: unless a callback that   *)
(* says "nobody there" is still to come, the topic has a consumer that      *)
(* serves it, or gets one, whether it was broken before or not.             *)
SubscribeHeals ==
  \A c \in Clients, t \in Topics :
    Subscribe(c) /\ t = Head(wire[c]).topic /\ answers[t] = 0 =>
      /\ c \in room'[t] /\ answers'[t] = 0
      /\ starting'[t] > 0 \/ (t \in subscriptions' /\ running'[t] > 0)
      /\ t \in broken' => t \in subscriptions'

(* The two failures that leave somebody in a room without a consumer last   *)
(* until the next subscribe to the topic, and no longer.                    *)
THEOREM TheNextSubscribeHeals == Spec => [][SubscribeHeals]_vars
<1>1. IInv => [SubscribeHeals]_vars
  <2> SUFFICES ASSUME IInv, NEW c \in Clients, NEW t \in Topics, Subscribe(c),
                      t = Head(wire[c]).topic, answers[t] = 0
               PROVE  /\ c \in room'[t] /\ answers'[t] = 0
                      /\ starting'[t] > 0 \/ (t \in subscriptions' /\ running'[t] > 0)
                      /\ t \in broken' => t \in subscriptions'
    BY DEF SubscribeHeals
  <2>1. /\ Joins(c, t) /\ UNCHANGED << subscriptions, running, answers >>
        /\ IF t \in subscriptions THEN UNCHANGED << starting, hasty >> ELSE NewConsumer(t)
    BY DEF Subscribe
  <2>2. Counts /\ EntryRuns
    BY DEF IInv
  <2> QED
    BY <2>1, <2>2 DEF Joins, NewConsumer, Counts, EntryRuns
<1>2. IInv /\ [Next]_vars => IInv'
  BY NextIInv
<1> QED
  BY <1>1, <1>2, InitIInv, PTL DEF Spec
=============================================================================
