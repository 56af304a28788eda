# Verification of demo-scene

`demo-scene` is a collection of about eighty independent demonstrations around
Apache Kafka.  Most of them are compose files, SQL and documentation.  This
directory verifies the four that have a program with state, concurrency and
failures of its own:

* **KPay** (`scalable-payment-processing`): a payment service with three stream
  processors, a control plane, a payment generator, metrics and topic set-up;
* **Streaming Pacman** (`streaming-pacman`): a browser game driven by keys,
  intervals and timeouts over global variables;
* **Topic tailer** (`topic-tailer`): a socket.io server that tails topics for
  the browsers that ask for them;
* **Vote poll** (`confluent-kafka-javascript-poll`): a server that counts votes
  in snapshots which it consumes itself.

Paths that begin with `kpay/` are under
`src/scalable-payment-processing/src/main/java/io/confluent/`, and `js/` is
`src/streaming-pacman/pacman/game/js/`.

## 1. The system

### KPay

| Part | State | Operations | Talks to |
|---|---|---|---|
| `payments/PaymentsInFlight` | positions in *incoming* and *complete*; window store of `InflightStats` | turn an incoming payment into a debit; count payments in and out | topics; `pauseMaybe` before every record |
| `payments/AccountProcessor` | position in *inflight*; store of `AccountBalance` | post a debit and send a credit; post a credit and send a completion | topics |
| `payments/PaymentsConfirmed` | position in *complete*; window store of `ConfirmedStats` | send a confirmation; count it | topics |
| `control/PauseControllable`, `StartStopController` | `paused` under a lock with a condition; `isProcessing` | `pauseMaybe`, `pause`, `resume`, `status` | stream threads, REST threads, the thread that reads the control topic |
| `KPayAllInOneImpl` | `scheduledPaymentFuture`, `paymentRunnable`, the generator's `position` | `generatePayments`, `stopPayments`, `isGeneratingPayments`, `shutdown` | REST threads, the executor's thread |
| `metrics/PaymentsThroughput` | window store with its cache; `stats`, `lastStats`, `processedLast` | aggregate, pass a window on, `getStats` | *complete*; REST threads |
| `util/KafkaTopicClientImpl` | topics on the brokers | `init`, `createTopic`, retries | brokers, other instances |
| `rest_iq/*` | none | read stores, forward to other hosts | the stores |

A payment goes

    incoming -> PaymentsInFlight -> inflight -> AccountProcessor (debit)
             -> inflight -> AccountProcessor (credit) -> complete
             -> PaymentsConfirmed -> confirmed

and `PaymentsInFlight` reads *complete* as well, to count the payment out.
Each of the three applications has one stream thread.  A record is handled by
several branches of a topology one after the other, and all of them are given
the *same* mutable `Payment`.

What is hard: debits and credits of a payment have different keys, so they go
through different partitions and interleave with other payments; statistics are
behind internal topics and lag; a gate can stop one of the threads in the
middle of a record; REST threads, stream threads and an executor share fields
without locks; answers of the brokers get lost; several instances set up the
same topics.

What makes it correct: every payment is debited, credited and confirmed once, in
that order; no money is made or lost; no stream thread meets a record it throws
on; what is in flight goes back to zero; a pause can be undone; the status shown
is the truth; an instance starts only on the topics it needs.

### Streaming Pacman

| Part | State | Operations |
|---|---|---|
| `game.js`, `start.html` | `HOME`, `LOCK`, `PAUSE`, `GAMEOVER`, `LIFES`, `LEVEL`, pending timeouts | keys; `ready`, `go`, `retry`, `win`, `prepareNextLevel`, `gameover`, `pauseGame`, `resumeGame` |
| `pacman.js` | position, direction, the direction that is tried, mouth, moving and killing intervals | `movePacman`, `killPacman`, `killingPacman`, tests for bubbles, ghosts and fruits |
| `ghosts.js` | per ghost a state (normal, afraid, eaten), a moving interval and two timers | `affraidGhost`, `startEatGhost`, `eatGhost`, their cancellations, `moveGhost` |
| `fruits.js`, `tools.js` | a fruit's interval and timer; `Timer` with pause and resume | `fruit`, `cancelFruit`; `start`, `pause`, `resume`, `cancel` |
| `paths.js`, `bubbles.js` | corridors; bubbles and whether they are eaten | `canMovePacman`, `canMoveGhost`, `drawBubbles` |

Everything is a global that any callback may read and write; `LOCK`, which some
functions test and others do not, is the only guard.  Hard are the orders in
which callbacks and keys come: a timeout that nothing cancels, a timer resumed
while it runs, two encounters in one step.  The game is correct if its
time-lines (a death, a win, a ghost being eaten, a start) never overlap, a pause
stops everything, no lock is for ever, and lives and levels add up; and if no
bubble of the maze is out of reach.

### Topic tailer

The server keeps socket.io rooms, one per topic, and `subscriptions`, the streams
that are ready.  A browser sends `subscribe` and `unsubscribe` whenever its form
changes.  Making a consumer waits for Kafka, and who is in a room is answered
in a callback: between question and answer others come and go.  It is correct if
whoever is in a room is served, rooms agree with what users chose, and a topic
has one consumer.

### Vote poll

`producer.js` adds each vote to the snapshot it consumed last and produces the
sum; `consumer.js` shows what was voted on.  Messages are delivered late or
twice or lost, producing and looking up an offset may fail, and either program may
be started again.  It is correct if no vote is counted twice, none is lost when
votes do not race, the audience sees what was voted, and the poll opens after every
crash.

### Everything else

`PROJECT.json` lists each component with the reason it is not modelled; see
section 5.

## 2. Modules

| Module | Models | Notes |
|---|---|---|
| `Summation` | – | the sum of a function on `1..n`, as a recursive function so that proofs can use it |
| `PaymentLedger` | what KPay promises | the abstract specification: per payment a stage, per account a balance |
| `PaymentPipeline` | `PaymentsInFlight`, `AccountProcessor`, `PaymentsConfirmed`, `Payment`, `AccountBalance`, the statistics | composes the processors, the topics and the pause; implements `PaymentLedger` and keeps `PauseProtocol` |
| `PauseProtocol` | what `PauseControllable` promises | abstract specification: per thread whether it is outside `pauseMaybe`, waits in it or has passed |
| `PauseGate` | `PauseControllable`, `StartStopController`, `shutdown` | one step per statement, with lock and wait set; implements `PauseProtocol` |
| `PaymentGenerator` | `generatePayments`, `PaymentRunnable`, `stopPayments` | one step per statement that touches a shared field |
| `ThroughputMetrics` | `PaymentsThroughput`, `ThroughputStats` | one step per statement of the stream thread and of the reader |
| `TopicClient` | `KafkaTopicClientImpl`, `RetryHelper`, start-up of an instance | a request with its answer is a step |
| `PacmanRound` | what a player is promised | abstract specification: the phase of a game, lives, level |
| `PacmanGame` | `game.js`, `start.html`, `ghosts.js`, `pacman.js`, `fruits.js`, `Timer` | one step per key, interval or timeout; implements `PacmanRound` |
| `PacmanMaze` | `paths.js`, `bubbles.js`, the movement of Pacman and of a ghost | the whole maze at its real size |
| `TopicTailer` | `server/index.js`, `App.js`, `TopicConfig.js` | one step per event, callback or settled promise |
| `VotePoll` | `producer.js`, `consumer.js`, `seedproducer.js` | one step per handler; crashes and deliveries |
| `MC…` | – | instances for TLC |
| `PaymentLedgerProofs`, `PaymentPipelineProofs`, `PauseGateProofs`, `TopicClientProofs`, `PacmanGameProofs`, `TopicTailerProofs`, `VotePollProofs` | – | the theorems about the module of that name; `PaymentLedgerProofs` also has the lemmas about sums |
| `KPayStatusProofs` | – | the theorems about what `KPayAllInOneImpl` shows over REST: about `PaymentGenerator` and `ThroughputMetrics`, which it extends both (so the latter's specification is called `MetricsSpec`) |

### How model and code correspond

**PaymentPipeline.**  A topic is a log per partition, a reader has a position
in each, and a key is sent to the partition that `PartitionOf` gives it.
`PartitionOf` is arbitrary, and so is `GroupOf` (`key.hashCode() % 10`), so
colliding hashes are included.  A payment's *txn*, *from*, *to* and *amount* do
not change; its *id* and *state* do, and `SetStateAndId` is the method of that
name.  A handler is one step, because a stream thread handles one record at a
time and what others see of it, the records it sends, it sends in one go.
Two things keep the order of the branches:
the record a `groupBy` writes is the payment in the state the branches *before*
it have left it in (`SecondChildSees`), and the aggregate behind an internal
topic is a step of its own (`AggregateInflight`, `AggregateConfirmed`).
Each handler whose code throws for a state it does not expect has that
disjunct: the thread dies (`accountUp`, `confirmedUp`).
`gate` is where the thread of `PaymentsInFlight` stands in `pauseMaybe`; while
it waits, its aggregates do not run either.  Here a call of `pauseMaybe`, a pause
and a resume are one step each.  What justifies it is `PauseProtocol`: `PauseGate`,
which has the statements one by one, implements it (`ImplementsProtocol`), and the
pipeline keeps it (`KeepsPauseProtocol`), so that the two modules agree on what the
lock and the condition come to.

**PauseGate.**  `lock` is the set of threads that hold the lock, `pc` the place
of each thread.  `await()` gives the lock up and joins the wait set in one step,
`signalAll` moves every waiting thread to *woken*, and a woken thread must take
the lock again.  `paused` is not tested again, as in the code.  Spurious wakeups
(which Java allows and which would only release a thread early) and interrupts
(nothing interrupts a stream thread) are left out.  `isProcessing` is not
volatile; the model's reads see the last write.
For `PauseProtocol` a thread *waits* from its test of `paused` until `paused` is
cleared, and has *passed* from then on, although it is signalled only later and
must still take the lock: that is when it is settled that no later pause holds it.

**PaymentGenerator.**  A generator is a number; `open` are the ones whose
producer is open, `scheduled` the ones whose executor runs them.  `position` is
an int of width `IntMax`; `%` has the sign of its left operand, as in Java, and
a negative index ends the run before `position++`.  `orderly` is a history: so
far every start and stop came when no other request was being answered, a start
only when the status said stopped and a stop only when it said running.

**ThroughputMetrics.**  Windows arrive in any order, since the partitions are
read in any order and records carry the time of the payment.  A window's
aggregate may change several times before the cache is flushed, and be passed
on more than once.  Latencies are left out: `merge` treats them like the
largest payment.  `throughputPerWindow` is never assigned in the code.

**TopicClient.**  `known` are the topics every broker knows of; a broker may
answer by old metadata for the others.  Every request may fail and be carried
out all the same, which matters for a creation.  A failure ends the process
(`System.exit` in `RestEndpointMain`), and it may be started again.  Topics are
not deleted: nothing in KPay calls `deleteTopics`.

**PacmanGame.**  The globals are the fields of one record, and each function of
the scripts is an operator from the record before it to the record after it, so
that a callback is the composition that the code's calls are.  A timer is
*null*, *live* (its timeout runs) or *idle*; a timeout that its timer has
forgotten, because `resume()` was called while it ran, is counted in `…Lost`.
What a step of Pacman meets is any member of `Steps`: a wall, or a bubble,
ghosts and a fruit at once.  A step that follows a reset looks at nothing,
because the mouth is at 3.  A score counts only when it passes a multiple of
10000 (`bonus`).  Two or more ghosts are met one after the other, in their order
in the code.
`clash` is a history variable: an encounter has happened inside another one (a
death or a win in a locked game, or, in `resumeGame`, a step that meets
something before the ghosts are started).  The code can get there, and what
happens then is in the model; the properties that no longer hold there except
it by name, and `NeverStuck` and `TypeOK` hold there too.

**PacmanMaze.**  Positions are the pixels of the code.  Either Pacman, steered by
any keys at any time, or one ghost moves: they do not hinder one another.  A
ghost may try any direction, whatever its character, unless it is eaten and goes
home.  `under` are the bubbles Pacman has been on (two pixels from their centre)
without eating them.  The last column of bubbles is drawn because a sum of 25
floats stays just below 518: `ColumnX` takes one hundredth off.

**TopicTailer.**  `wire` is a browser's connection, in order; it is emptied when
the connection is lost.  `answers` counts the callbacks to come that say "nobody
there"; others do nothing.  `starting` and `running` count consumers, in the
table or not.  Histories: `reconnected` (browsers whose connection is new and
whose form has not changed since), `broken` (a topic whose consumer failed, or
that was joined while "nobody there" was on its way) and `hasty` (a consumer was
asked for while another one was being made).

**VotePoll.**  A snapshot holds all counts.  `outbox` is what librdkafka has not
delivered; it delivers in order, or, as a fault, late or twice, and any message may
fail (`DeliveryFails`), which the server only logs.  A vote is answered first.  Then
it may not be counted at all (`NotCounted`: `producer.poll` throws while the producer
is not connected, or nothing was consumed yet), or it is counted and `produce` throws.
`position` is `None` until *ready* and `Unassigned` once `committed()` has failed,
which only a new start of the server heals (`producer.js:78-82`).  The offset that is
committed is the message's own, where Kafka's convention is the next one, so a
restarted server reads its last message again as the code stands; the comment at
`producer.js:103`, that one might commit `offset - 1` to that end, is at odds with it.
`consumer.js` begins where its group has committed (`shownCommitted`), or at the end
of the topic if it never has: `fromBeginning` is false.  It is not listening before it
is first started, while it is down, and when it could not connect; nobody is assumed to
start it.  `stored` is what the library would commit: nothing before a message is read.

Histories: `disturbed` (a vote was not counted, or came when the server had not read
what it produced, or the server stopped with a count that was nowhere else), `lost`
(the last counted vote's snapshot did not get to the topic), `unsent` (the questions
whose last vote that happened to) and `unseen` (the questions of which `consumer.js`
passed over a snapshot and has shown none since).

## 3. What is checked

| Run | Properties | Bounds | What it shows |
|---|---|---|---|
| `ledger` | `Conservation` | 3 payments, 2 accounts | the abstract ledger neither makes nor loses money |
| `pipeline` | `MoneyConserved`, `ThreadsSurvive`, `PostalState`, `ImplementsLedger`, `KeepsPauseProtocol` | 3 payments, 2 accounts, 2 partitions, 2 groups | the three processors together implement the ledger in every interleaving, leave the balances and counts the integration test expects, and pause as `PauseProtocol` says |
| `pipeline_live` | `EventuallyConfirmed`, `InflightDrains` | 2 payments | payments get through, and the statistics return to zero, if processing is not paused for good |
| `pause_gate` | `NoLostWakeup`, `ImplementsProtocol`, `ResumeReleases`, `ShutdownReleased` | 2 stream threads, 2 callers | no wakeup is lost, a resume releases every thread at once and for good, and a shutdown ends if somebody resumes |
| `topics` | `TypeOK`, `StartedOnConformingTopics`, `EveryStartEnds` | 2 instances, 2 topics, 2 tries | concurrent starts, crashes, lost answers and foreign topics |
| `generator` | `TypeOK`, `StatusAgrees`, `StopIsFinal` | 3 generators, 2 clients, ints of 3 bits | the status in every overlap of starts and stops, and what a user who follows it can rely on |
| `metrics` | `ReaderNeverFails`, `CountedOnce` | 4 payments, 2 windows, 2 amounts | the unlocked reader |
| `pacman_game` | `TypeOK`, `OneTimeline`, `Frozen`, `TimersAgree`, `NeverStuck`, `LockReleased`, `PlaysByTheRules` | 2 ghosts, 2 bubbles, 3 lives, 2 levels | no order of keys and callbacks makes two time-lines overlap, moves a paused game, loses a timeout or locks the game for good; the globals implement `PacmanRound` |
| `pacman_maze` | `TypeOK`, `NothingRunOver`, `AllEdible`, `DoorShut` | the real maze | nobody leaves the paths, every level can be won, no bubble is run over, the door lets normal ghosts out only |
| `topic_tailer` | `TypeOK`, `Served`, `SelectionAgrees`, `OneUnlessHasty`, `AllServed` | 2 browsers, 2 topics, 4 changes | who listens is served, through lost connections, late callbacks and consumers that fail |
| `poll` | `TypeOK`, `NeverOvercounts`, `Counted`, `PollOpens` | 2 questions, 3 votes, 2 faults | votes are not counted twice, not lost to the server if they do not race, shown unless passed over, and the poll opens after each crash unless the server cannot look up its offset |

`tailer_twice` expects a violation.  It shows a statement of the repository that
the code does not keep: "Topic Tailer creates at most 1 consumer thread per
tailed topic" (`src/topic-tailer/topic-tailer.adoc:80`).  The table gets its
entry only when the stream is ready; a second `subscribe` before that makes a
second consumer, and the first is never disconnected (`OneConsumer`).

The models also contain, without a run of their own:

* KPay: a woken thread that handles one record although processing was paused
  again; `isProcessing`, which is assigned outside the lock, so that two
  overlapping requests can leave it wrong; `shutdown`, which pauses the threads
  it waits for (it ends when somebody resumes, `ShutdownReleased`); retries of
  `describeConfigs` that send nothing (`KafkaTopicClientImpl.java:176`); a second
  start that makes the first generator unstoppable; a generator that fails at
  every tick after 2^31 payments; `merge`, which drops what its receiver has
  counted, and a window that is merged as it is when first passed on.
* Pacman: the clashes above.  After one, a ghost's fright may have two timeouts
  of which only one can be cancelled.
* Topic tailer: a browser that joins while "nobody there" is on its way loses
  the consumer; one whose connection was replaced shows topics it no longer
  receives; both until the next change of its form.
* Vote poll: a vote that arrives before the server has read its own last
  snapshot replaces counts; a topic with one message only never opens the poll, and
  neither does an error of `committed()`, until the server is started again; votes are
  answered all the same.  A snapshot that could not be produced or delivered is made
  good by the next vote, but the bar of its question stays behind until that one is
  voted on again; so does a bar whose snapshot `consumer.js` passed over because it had
  never committed.

### Why the bounds are enough

* *Pipeline*: one payment from an account to itself, and two others in opposite
  directions, so that two debits, a debit and a credit, and two credits of an
  account meet.  With two partitions and two groups, records of one payment are
  in the same partition or in different ones.  Amounts are distinct powers of
  two, so that no sum is right by accident.  The proofs cover all other values.
* *Pause*: a wakeup can be lost between one waiting thread and one caller;
  the second of each makes it possible for a signal to reach the wrong thread
  and for a pause to follow a resume at once.
* *Topics*: with two instances and two topics, one instance can create a topic
  between the other's two requests, and be at another topic when it crashes.
  Two tries are one retry.
* *Generator*: three generators are what it takes to lose one and replace
  another.  `IntMax` is 3: four accounts divide 2^2 as they divide 2^31, so the
  remainders behave as in the code, that of the least int, which is zero, included.
  Rates 0 and 10: the one that fails and one
  that does not.
* *Metrics*: two windows and four payments let a window be passed on, change,
  and be passed on again after the other.
* *Pacman game*: two ghosts are afraid, eaten and normal at the same time and
  are met in one step; the code treats ghosts alike.  With two bubbles a level
  has a first bubble, a super bubble and a last one.  One flash more than
  `Flashes` = 1 is the interval that fires and goes on, and fires and ends.
  `MaxTwins` = 1 is enough to tell a lost timeout from none.  A game that has
  clashed is followed only under the constraint `Aftermath` (first level, no
  extra life, one ghost's timeouts or the fruit's lost).  The constraint cuts no behaviour
  before a clash, and a behaviour that has clashed satisfies `LockReleased` and
  `PlaysByTheRules` for good, so it hides no violation of them;
  that a game is never stuck after a clash is checked within the constraint only.
* *Pacman maze*: the instance is the program's own maze.
* *Topic tailer*: two browsers are what two rooms and a race for one consumer
  need; four changes let a topic be chosen, left, and chosen again by another.
* *Vote poll*: two votes on one question and one on another, so that a lost vote
  may be of the same question or another; two faults let a server crash twice,
  or crash with a message delivered late, or `consumer.js` stop before and after its
  first commit.  Failed requests and deliveries are not counted as faults and come at
  any time.  Two seeds are one that is read.  That `total_count` begins with such
  messages is an assumption about how the topic was set up: `seedproducer.js` sends
  them to `voting_state`.

`MaxPayments`, `NumGenerators`, `NumPayments`, `MaxChanges`, `MaxVotes`,
`MaxFaults`, `MaxLifes`, `MaxLevel`, `MaxTwins` and `NumRetries` bound counters;
`NumRetries` is the code's own bound.  `CHECK_DEADLOCK FALSE` is set where the
system really may stop: all payments handled, a shutdown completed or stuck,
every generator used up, every browser done, every vote cast.  The game never
stops, and its deadlock check is on.

### Fairness

* `PaymentPipeline!FairSpec`: weak fairness of the three stream threads, which
  poll in a loop.  Nothing is assumed of payments, pauses and resumes; the two
  properties say "if processing is not paused for good" themselves.
* `PauseGate!FairSpec`: strong fairness per thread, because a `ReentrantLock`
  is not fair but the threads that compete for it leave it for long times
  between.  Strong fairness of `Stop` says that a stream thread polls again and
  again.  Requests need not come.
* `TopicClient!FairSpec`: weak fairness of a starting instance.  Brokers need
  not succeed, metadata need not spread.
* `PacmanGame!Spec`: weak fairness of each timeout and of the intervals that
  show a death and a win, because a browser runs what is due.  Keys need not be
  pressed, and Pacman's and the ghosts' steps need not come.
* `TopicTailer!Spec`: weak fairness of the handlers, callbacks and promises, which
  Node runs as they come.  Users and the network do what they like, and a
  consumer may fail each time.
* `VotePoll!Spec`: weak fairness of *ready*, which succeeds or fails, of *data*, of
  delivery and of `eachMessage`.  Nothing is assumed of votes, commits, failures and
  faults, and nobody need start `consumer.js`: `PollOpens` says that it shows all there
  is whenever it listens.
* `PaymentGenerator`, `ThroughputMetrics` and `PacmanMaze` state safety only.

## 4. What is proved

All for every value of the constants, from the named assumptions on them.

| Theorem | Statement |
|---|---|
| `LedgerTypeCorrect` | `PaymentLedger`: `Spec => []TypeOK` |
| `LedgerConserves` | `PaymentLedger`: `Spec => []Conservation` |
| `PipelineInvariant` | `PaymentPipeline`: `Spec => []PipelineInv` |
| `PipelineTypeCorrect`, `ThreadsAlwaysSurvive` | parts of `PipelineInv` |
| `PipelineImplementsLedger` | `PaymentPipeline`: `Spec => ImplementsLedger` |
| `PipelineConservesMoney` | by refinement from `LedgerConserves` |
| `PipelineKeepsPauseProtocol` | `PaymentPipeline`: `Spec => KeepsPauseProtocol` |
| `NothingIsDoneTwice`, `NothingButPausesStop` | `PaymentPipeline`: `Spec => [][OneAtATime]_vars`, `Spec => []OnlyPausesStop` |
| `BooksInvariant`, `PipelineSettles` | `PaymentPipeline`: `Spec => [](PipelineInv /\ BooksInv)`, `Spec => []PostalState` |
| `GateTypeCorrect`, `NoWakeupIsLost` | `PauseGate`: `Spec => []TypeOK`, `Spec => []NoLostWakeup` |
| `GateImplementsProtocol` | `PauseGate`: `Spec => ImplementsProtocol` |
| `GeneratorInvariant`, `GeneratorTypeCorrect` | `PaymentGenerator`: `Spec => []GeneratorInv`, `Spec => []TypeOK` |
| `StatusAlwaysAgrees`, `StopIsAlwaysFinal` | `PaymentGenerator`: `Spec => []StatusAgrees`, `Spec => StopIsFinal` |
| `MetricsInvariant`, `StatsReaderNeverFails`, `StatsCountPaymentsOnce` | `ThroughputMetrics`: `MetricsSpec => []MetricsInv`, `[]ReaderNeverFails`, `[]CountedOnce` |
| `TopicClientTypeCorrect`, `StartedTopicsConform` | `TopicClient`: `Spec => []TypeOK`, `Spec => []StartedOnConformingTopics` |
| `EveryStartIsBounded`, `EveryStartCountsDown` | `TopicClient`: `Spec => []StartsBounded`, `Spec => [][StartsCountDown]_vars` |
| `GameInvariant`, `GameTypeCorrect` | `PacmanGame`: `Spec => []GameInv`, `Spec => []TypeOK` |
| `OneTimelineAtATime`, `PausedGameIsFrozen`, `TimersGoWithTheirGhosts`, `LockIsAlwaysAwaited` | `PacmanGame`: `Spec => []OneTimeline`, `[]Frozen`, `[]TimersAgree`, `[]NeverStuck` |
| `GameImplementsRound` | `PacmanGame`: `Spec => PlaysByTheRules` |
| `TailerTypeCorrect`, `ServedTheorem`, `OneUnlessHastyTheorem`, `RoomsFollowForms` | `TopicTailer`: `Spec => []TypeOK`, `[]Served`, `[]OneUnlessHasty`, `[]SelectionAgrees` |
| `TheNextSubscribeHeals` | `TopicTailer`: `Spec => [][SubscribeHeals]_vars` |
| `PollTypeCorrect`, `PollNeverOvercounts`, `PollCounts` | `VotePoll`: `Spec => []TypeOK`, `[]NeverOvercounts`, `[]Counted` |
| `PollIsNeverStuck` | `VotePoll`: `Spec => []NothingStopsThePoll` |
| `SumToUpdate` | changing one element changes the sum by as much |

**The argument for the pipeline.**  `ThreadsSurvive` is not inductive: nothing in
it says what is in the logs.  `PipelineInv` adds

* `ContentsOK`: each topic holds only payments in the states that belong there,
  under the key that state calls for (a debit under the source account, a
  credit under the destination, the others under the transaction);
* `OnceEach`: no payment is in a log twice in the same state;
* `Provenance`: what a reader has written is what it has read.  A payment is in
  *inflight* as a debit iff `PaymentsInFlight` has read it, as a credit iff
  `AccountProcessor` has read the debit, in *complete* iff it has read the
  credit, in *confirmed* iff `PaymentsConfirmed` has read the completion.

From the last two, the next record of a log is one that was not read before, so
what is sent for it is not there yet: `OnceEach` is kept.  The refinement uses
`Provenance` to see that the stage the ledger reads off the topics goes one
step on, and that the record's key is the account the ledger posts.

**The argument for the books.**  `PostalState` speaks of the moment when nothing
is left to read; while something is, the statistics lag behind the topics, each
group by another amount.  `BooksInv` says by how much.  A payment that has been
read for the statistics waits in the internal topic of its group, at most once in
each state (`QueuedOnce`), and is counted when it leaves it; so the payments
*counted in*, *counted out* and *counted as confirmed* are those read in the
respective state less those that wait in it, and each statistic is the `Weigh`t of
such a set (`StatsAddUp`): the sum of 1, or of the amount, over it.  A balance is
the weight of the credits read for the account less that of the debits
(`BalancesAddUp`).  That no record is read twice is `PipelineInv`'s; that a step
adds one payment to one set makes it a step of one sum, by `SumToUpdate`.  When
nothing is left to read, no queue has anything, and by `Provenance` each set is
the set of the payments sent (`SettledBooks`).

**The argument for the gate.**  A thread between the test of `paused` and
`await()` holds the lock, and whoever changes `paused` must hold it, so a thread
about to wait still sees the `paused` it tested (`TestedOK`).  For the refinement of
`PauseProtocol` it must also be known that between `paused = false` and `signalAll`
the caller holds the lock (`SignallingOK`): no thread can join the wait set there, nor
a pause come in, so that those the signal finds are those that waited when `paused`
was cleared.

**What the liveness properties rest on.**  That something happens at last needs
fairness, which the prover does not handle.  What the code itself contributes is safety,
and is proved: that there is always a step to take, and that the steps come to an end
or nothing undoes them.

* *Payments* (`EventuallyConfirmed`, `InflightDrains`).  A payment has eight
  milestones: accepted, debited, credited, confirmed, returned to `PaymentsInFlight`, and
  three times counted.  `NothingIsDoneTwice`: each record a thread handles or counts is
  one payment's reaching one of them for the first time, and nothing takes one away, so
  the threads' work is bounded.  `NothingButPausesStop`: until all payments sent have
  reached all, some thread has a record it can handle, or processing is paused and
  the thread of `PaymentsInFlight` waits.  The first needs that the record read next was
  not read before, the second that what was read was written, both from `PipelineInv`.
* *Pauses* (`ResumeReleases`).  `GateImplementsProtocol`: after the resume no pause
  holds a thread that waited.
* *Starts* (`EveryStartEnds`).  `StepsLeft` is a variant of a starting instance: the
  retries left in this request, and those of the requests and topics to come.  It
  is zero when the start has ended, each step lowers it, and nobody else's step does
  anything to it (`EveryStartIsBounded`, `EveryStartCountsDown`).
* *The tailer* (`AllServed`).  `Served` names two failures that leave a room without a
  consumer; `TheNextSubscribeHeals` says that neither outlives the next subscribe.
* *The poll* (`PollOpens`).  `PollIsNeverStuck`, below.
* *The game* (`LockReleased`).  `LockIsAlwaysAwaited`.

**The argument for the generator.**  `StatusAgrees` speaks of moments when every
request is answered; `GeneratorInv` says what is true between the statements of
one.  `SetUpOK`: a generator that a client is setting up is that client's own, and
is not yet the one the status is about, so that no other request can cancel it.
`DeadForgotten`: while the status is about a future that was cancelled, the client
that cancelled it has not yet returned.  These two hold however requests overlap.
`OneUser` follows one user's requests statement by statement: which generators are
scheduled, which one `paymentRunnable` is, and that no other is about to send with
an open producer.  A run that began before `stopPayments` closed its producer can
no longer send, which is `StopIsFinal`.

**The argument for the metrics.**  `ReaderNeverFails` holds because *foreach*
assigns `lastStats` before `stats` changes and `getStats` reads them in the other order;
`LargestFirst` states it for every place in between: when `stats`, or what the reader has taken of it, has a largest payment, so has
`lastStats`.  `CountedOnce` compares two moments, as what is shown was a window's
aggregate some time ago.  `AllWithin` says that whatever was one once, and is kept in
`lastStats`, on its way there or shown, is within the sums of all windows now; `merge`,
which returns the counts of its argument instead of adding them up, keeps it.

**The argument for the topics.**  An instance has passed a topic only when it
created it or found it conforming (`Passed`), and a topic that exists keeps its
shape.

**The argument for the game.**  None of its properties is inductive: each says
something of a few globals, and what a callback does depends on all of them.
`GameInv` says that until two encounters meet (`clash`) the game is in one of nine
*modes*: `Home`, `Over`, `GetReady`, `Playing`, `Held` (paused), `EatingOne` (a
ghost), `Dying`, `Retrying`, `Won`.  A mode fixes the lock, which timeouts are
pending and how many, whether Pacman, the ghosts and the fruit's time go on, and how
each ghost's timers go with its state; in every mode no timeout is lost.  The
script's functions call one another as the model's operators do, so the proof has
one lemma per function that says it keeps the types, one that says to which mode it
leads, and one per key and callback that puts them together.  Of several afraid
ghosts met in one step Pacman eats the one with the lowest number, which exists
because the naturals are well founded, and for the others the game is locked
then.  `Unlocks`, the
third conjunct of `GameInv`, needs no mode: whoever sets the lock starts what clears
it, and nothing cancels that.  It holds after a clash too, and `NeverStuck` is read
off it.  `OneTimeline`, `Frozen` and `TimersAgree` are read off the modes, and so is the
refinement: a mode is a phase of `PacmanRound`, and each lemma about a key or a
callback says which phase comes next.  Lives change only in `Score`, `killPacman`
and `gameover`; that a step scores at most one extra life is a lemma of its own.

**The argument for the topic tailer.**  `Served` is not inductive: a callback that
says "nobody there" takes the consumer away.  `IInv` adds `AnswersHold` (where
such a callback is on its way, nobody is in the room, or the topic is `broken`)
and `EntryRuns` (an entry is about a consumer that runs); `OneUnlessHasty` then
says that it is the only one.  `SelectionAgrees` speaks of an empty wire;
`FormsArrive` says it for one that is not: the last event about a topic that is on
its way says what the form says, and the room says it when there is none.  A change
of the form appends to the wire an event for every topic it changes and for no
other, and a handler takes the first event off; both keep it.

**The argument for the poll.**  `NeverOvercounts` is inductive with `TypeOK`: every
snapshot anywhere is within the votes cast, a vote adds one to both sides, and
every fault only copies, drops or reorders snapshots.  That the property speaks
of the log, of what is on its way and of `decoded` is what makes it so.
`Counted` says what the server, the topic and the audience know when nothing disturbed
the poll, over crashes, restarts, repeated deliveries and snapshots that were not
produced or not delivered.  Its invariant is `Undisturbed`.  At most one message is on
its way and it counts all votes; the last message about a question, and every one that
comes after it, counts all its votes, but for the questions in `unsent`; so does what
the server adds to once it has caught up (`Tally`).  While a message is on its way, or
the last one was lost, the server itself has counted all votes, and nothing it still
has to read counts less (`Held`): a message may have been delivered and reported as
failed, and is then read when another vote could already come.  What the audience is
shown is the count of the last message it has seen about the question, but for those in
`unseen` (`Shown`).  Readers stay within the log, and `consumer.js` never commits past
where it is (`Positions`), which is what a crash and a restart need; a message is about
one question (`OneClicked`), which was voted on (`Clicked`).
`PollIsNeverStuck` does not suppose that the poll is undisturbed.  Its invariant,
`Readable`, says that every message but the seeds tells what was clicked, that
`consumer.js` and what it commits are past the seeds, and that an offset once committed
stays in the topic, so that a restarted server has a message to read.

**A change that the proofs asked for.**  `Pending` and `Phase` of `PacmanGame` had
`CASE` expressions whose arms overlap, of which TLC takes the first and a prover
may take any.  They are a disjunction and a chain of `IF` now; TLC finds the same
states.

**Only model-checked**:

* liveness (`EventuallyConfirmed`, `InflightDrains`, `ResumeReleases`,
  `ShutdownReleased`, `EveryStartEnds`, `LockReleased`, `AllServed`, `PollOpens`):
  it rests on fairness and `ENABLED`, which the prover does not handle.  Of each, but
  for `ShutdownReleased`, the safety half is proved, as said above;
* the properties of `PacmanMaze`, which is one concrete instance, so that TLC's
  answer is complete.

## 5. What is not modelled

* *KPay*: restarts (`PropertiesGetter` makes a fresh application id from the clock,
  so a restarted instance reads everything again into empty stores; the code has
  no part that recovers, so there is no promise to check); rebalancing, which a
  thread held in `pauseMaybe` may provoke; payments that another program puts into
  a topic in an unexpected state; the day boundary of the windows; reads of the
  stores over REST (`rest_iq`, `getPaymentPipelineStats`, `listAccounts`), which
  keep nothing; `DLQLatest` and `DLQMetrics`, which nothing uses.
* *Pacman*: drawing (`board.js`, the `draw…` functions), sounds, the animation of
  the home page, the scoreboard and the HTTP calls that report scores; values of
  scores; how each ghost's character picks the direction it would like.
* *Topic tailer*: what messages contain and how tables show them; the handler of
  `topic` (`server/index.js:36-38`), which joins a room without a consumer and which no
  client of the repository sends.
* *Vote poll*: requests whose question or option does not exist; browsers that are not
  connected when `consumer.js` emits.
* *Data and libraries*: `ratings-json.js` and `movies-json.js` of
  `streams-movie-demo` are two arrays, and `jquery*.js` are vendored.  They are
  about 65,000 of the repository's 70,800 lines of JavaScript, and there is no
  behaviour of this repository in them, so the modelled share of JavaScript stays
  small by count of lines.  Of what remains, the modules cover the game, the
  tailer and the poll except for drawing and layout.
* *The other demonstrations*: stateless topologies, one query per message, loops
  around generated clients, and directories without a program; `PROJECT.json`
  gives the reason for each.

## 6. Order of work

The modules were written in this order, the most important behaviour first:
the ledger and the pipeline; the pause; the topics; the generator and the
metrics; the game and its maze; the tailer; the poll.  The proofs followed in about the
same order; the game's, the books' and those of the metrics came last.  Every
invariant that a run checks is now a theorem, but for those of the maze, and so is the
safety half of the liveness properties.  `PauseProtocol` came with the last proofs, to
say what `PauseGate` and the pause inside `PaymentPipeline` have in common.  `TypeOK` of
these two modules is a theorem and no longer part of a run.
