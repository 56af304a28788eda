---------------------------- MODULE TopicClient ----------------------------
(***************************************************************************)
(* How service instances that start at the same time make sure that their  *)
(* topics exist: KPayInstance.getInstance calls initializeEnvironment,     *)
(* which calls KafkaTopicClientImpl.createTopic for one topic after the    *)
(* other.  Every request to the brokers goes through RetryHelper.  A       *)
(* request and its answer are one step, in which the brokers may carry it  *)
(* out and lose the answer.  Metadata lags behind: a broker that is asked  *)
(* may not know yet of a topic that exists.                                *)
(***************************************************************************)
EXTENDS Integers

CONSTANTS Instances,   \* the service instances
          NumTopics,   \* in the order they are created
          NumRetries,  \* RetryHelper.NUM_RETRIES
          Wanted,      \* the shape asked for: partitionCount, replicaCount
          ForeignShapes  \* the shapes topics have that others create

Topics == 1 .. NumTopics

Shape == [partitions : Nat, replicas : Nat]

ASSUME TopicAssumption ==
  /\ NumTopics \in Nat \ {0}
  /\ NumRetries \in Nat \ {0}
  /\ Wanted \in Shape
  /\ ForeignShapes \subseteq Shape

Missing == [partitions |-> -1, replicas |-> -1]

VARIABLES
  topics,    \* the topics and their shapes
  known,     \* the topics that every broker knows of
  pc,        \* which request an instance is about to send
  next,      \* the topic it is at
  retries,   \* RetryHelper's count, in this call of executeWithRetries
  config     \* the answer to describeConfigs, once it was asked for

instanceVars == <<pc, next, retries, config>>
vars == <<topics, known, instanceVars>>

Locations == {"connecting", "configuring", "listing", "creating", "describing",
              "started", "failed"}
Answers == {"none", "ok", "retriable", "fatal"}

Init ==
  /\ topics = [t \in Topics |-> Missing]
  /\ known = {}
  /\ pc = [i \in Instances |-> "connecting"]
  /\ next = [i \in Instances |-> 1]
  /\ retries = [i \in Instances |-> 0]
  /\ config = [i \in Instances |-> "none"]

-----------------------------------------------------------------------------
(* The brokers *)

Propagate(t) ==
  /\ topics[t] # Missing
  /\ t \notin known
  /\ known' = known \union {t}
  /\ UNCHANGED <<topics, instanceVars>>

(* Another program, or the broker itself for a client that writes to it.   *)
CreateForeign(t, shape) ==
  /\ topics[t] = Missing
  /\ topics' = [topics EXCEPT ![t] = shape]
  /\ UNCHANGED <<known, instanceVars>>

-----------------------------------------------------------------------------
(* RetryHelper.executeWithRetries: a call that ends makes way for the next. *)

Call(i, to) ==
  /\ pc' = [pc EXCEPT ![i] = to]
  /\ retries' = [retries EXCEPT ![i] = 0]

(* An error that is retriable, a lost answer for one: again, with the same  *)
(* request, until NUM_RETRIES tries have failed.                            *)
Retry_StartOver(i) == Call(i, "connecting")

Retry_OneMore(i) ==
  IF retries[i] < NumRetries
    THEN /\ retries' = [retries EXCEPT ![i] = @ + 1]
         /\ UNCHANGED pc
    ELSE Call(i, "failed")

Retry(i) ==
  IF retries[i] + 1 < NumRetries
    THEN /\ retries' = [retries EXCEPT ![i] = @ + 1]
         /\ UNCHANGED pc
    ELSE Call(i, "failed")

(* Any request: a retriable failure that changed nothing, or a fatal one.   *)
RequestFails(i) ==
  /\ pc[i] \in {"listing", "creating", "describing"}
  /\ Retry(i) \/ Call(i, "failed")
  /\ UNCHANGED <<topics, known, next, config>>

-----------------------------------------------------------------------------
(* KafkaTopicClientImpl.init.  describeCluster is not retried.              *)

DescribeCluster(i) ==
  /\ pc[i] = "connecting"
  /\ Call(i, "configuring") \/ Call(i, "failed")
  /\ UNCHANGED <<topics, known, next, config>>

(* describeConfigs is called once, before executeWithRetries: what the      *)
(* helper asks again and again is the answer to that request.               *)
DescribeConfigs(i, answer) ==
  /\ pc[i] = "configuring"
  /\ config[i] = "none"
  /\ config' = [config EXCEPT ![i] = answer]
  /\ UNCHANGED <<topics, known, pc, next, retries>>

TakeConfig(i) ==
  /\ pc[i] = "configuring"
  /\ \/ config[i] = "ok" /\ Call(i, "listing")
     \/ config[i] = "fatal" /\ Call(i, "failed")
     \/ /\ config[i] = "retriable"
        /\ IF retries[i] + 1 < NumRetries
             THEN retries' = [retries EXCEPT ![i] = @ + 1] /\ UNCHANGED pc
             ELSE Call(i, "failed")
  /\ UNCHANGED <<topics, known, next, config>>

-----------------------------------------------------------------------------
(* createTopic *)

NextTopic(i) ==
  /\ next' = [next EXCEPT ![i] = @ + 1]
  /\ Call(i, IF next[i] = NumTopics THEN "started" ELSE "listing")

(* isTopicExists *)
ListTopics(i) ==
  /\ pc[i] = "listing"
  /\ \/ topics[next[i]] # Missing /\ Call(i, "describing")
     \/ next[i] \notin known /\ Call(i, "creating")
  /\ UNCHANGED <<topics, known, next, config>>

CreateTopic(i) ==
  /\ pc[i] = "creating"
  /\ topics[next[i]] = Missing
  /\ topics' = [topics EXCEPT ![next[i]] = Wanted]
  /\ \/ NextTopic(i)
     \/ Retry(i) /\ UNCHANGED next
  /\ UNCHANGED <<known, config>>

(* TopicExistsException, which is not retriable.                            *)
TopicExists_Trusted(i) ==
  /\ pc[i] = "creating"
  /\ topics[next[i]] # Missing
  /\ NextTopic(i)
  /\ UNCHANGED <<topics, known, config>>

TopicExists(i) ==
  /\ pc[i] = "creating"
  /\ topics[next[i]] # Missing
  /\ Call(i, "describing")
  /\ UNCHANGED <<topics, known, next, config>>

(* validateTopicProperties: as many partitions, and at least as many        *)
(* replicas.                                                                *)
Conforms(shape) ==
  shape.partitions = Wanted.partitions /\ shape.replicas >= Wanted.replicas

(* UnknownTopicOrPartitionException is retriable.                           *)
DescribeTopic(i) ==
  /\ pc[i] = "describing"
  /\ IF Conforms(topics[next[i]])
       THEN NextTopic(i)
       ELSE Call(i, "failed") /\ UNCHANGED next
  /\ UNCHANGED <<topics, known, config>>

TopicUnknown(i) ==
  /\ pc[i] = "describing"
  /\ next[i] \notin known
  /\ Retry(i)
  /\ UNCHANGED <<topics, known, next, config>>

-----------------------------------------------------------------------------
(* A failure ends the process (System.exit); it may also end at any time,   *)
(* and be started again.                                                    *)
Crash(i) ==
  /\ pc[i] # "failed"
  /\ Call(i, "failed")
  /\ UNCHANGED <<topics, known, next, config>>

Restart(i) ==
  /\ pc[i] = "failed"
  /\ Call(i, "connecting")
  /\ next' = [next EXCEPT ![i] = 1]
  /\ config' = [config EXCEPT ![i] = "none"]
  /\ UNCHANGED <<topics, known>>

Start(i) ==
  \/ DescribeCluster(i) \/ (\E a \in Answers \ {"none"} : DescribeConfigs(i, a))
  \/ TakeConfig(i) \/ ListTopics(i) \/ CreateTopic(i) \/ TopicExists(i)
  \/ DescribeTopic(i) \/ TopicUnknown(i) \/ RequestFails(i)

Next ==
  \/ \E t \in Topics : Propagate(t) \/ \E s \in ForeignShapes : CreateForeign(t, s)
  \/ \E i \in Instances : Start(i) \/ Crash(i) \/ Restart(i)

Spec == Init /\ [][Next]_vars

(* An instance that is starting goes on.  The brokers may answer every      *)
(* request with a failure, and metadata need not spread.                    *)
FairSpec == Spec /\ \A i \in Instances : WF_vars(Start(i))

-----------------------------------------------------------------------------
TypeOK ==
  /\ topics \in [Topics -> Shape \union {Missing}]
  /\ known \subseteq Topics
  /\ pc \in [Instances -> Locations]
  /\ next \in [Instances -> 1 .. NumTopics + 1]
  /\ retries \in [Instances -> 0 .. NumRetries - 1]
  /\ config \in [Instances -> Answers]

(* An instance starts its processors only on topics that all exist in the   *)
(* shape it needs, whoever created them, and however many answers were      *)
(* lost and instances crashed on the way.                                   *)
StartedOnConformingTopics ==
  \A i \in Instances : pc[i] = "started" =>
    \A t \in Topics : topics[t] # Missing /\ Conforms(topics[t])

(* A start comes to an end, one way or the other, even if the brokers fail  *)
(* to answer again and again.                                               *)
EveryStartEnds ==
  \A i \in Instances : pc[i] = "connecting" ~> pc[i] \in {"started", "failed"}
=============================================================================
