------------------------- MODULE TopicClientProofs -------------------------
(* For every number of instances, topics and retries, and whatever shapes   *)
(* other programs create topics in: who has started has conforming topics,  *)
(* and every start counts down to its end.                                  *)
EXTENDS TopicClient, TLAPS

(* The topics an instance has passed exist and conform; once it has         *)
(* started, it has passed them all.                                         *)
PassedBy(i) ==
  /\ \A t \in Topics : t < next[i] => topics[t] # Missing /\ Conforms(topics[t])
  /\ pc[i] = "started" => next[i] = NumTopics + 1
  /\ pc[i] \in {"listing", "creating", "describing"} => next[i] \in Topics
  /\ pc[i] \in {"connecting", "configuring"} => next[i] = 1
  /\ pc[i] = "describing" => topics[next[i]] # Missing

Passed == \A i \in Instances : PassedBy(i)

TopicInv == TypeOK /\ Passed

(* What the end of a call, and a retry, leave behind. *)
LEMMA CallTyped ==
  ASSUME TypeOK, NEW i \in Instances, NEW to \in Locations, Call(i, to)
  PROVE  /\ pc' \in [Instances -> Locations]
         /\ retries' \in [Instances -> 0 .. NumRetries - 1]
BY TopicAssumption DEF TypeOK, Call, TopicAssumption

LEMMA RetryTyped ==
  ASSUME TypeOK, NEW i \in Instances, Retry(i)
  PROVE  /\ pc' \in [Instances -> Locations]
         /\ retries' \in [Instances -> 0 .. NumRetries - 1]
         /\ pc' = pc \/ Call(i, "failed")
<1>1. CASE retries[i] + 1 < NumRetries
  BY <1>1, TopicAssumption DEF TypeOK, Retry, TopicAssumption
<1>2. CASE ~ (retries[i] + 1 < NumRetries)
  BY <1>2, CallTyped DEF Retry, Locations
<1> QED BY <1>1, <1>2

LEMMA NextTopicTyped ==
  ASSUME TopicInv, NEW i \in Instances, NextTopic(i),
         pc[i] \in {"listing", "creating", "describing"}
  PROVE  /\ pc' \in [Instances -> Locations]
         /\ retries' \in [Instances -> 0 .. NumRetries - 1]
         /\ next' \in [Instances -> 1 .. NumTopics + 1]
<1>1. PICK to \in Locations : Call(i, to)
  BY DEF NextTopic, Locations
<1>2. next[i] \in Topics
  BY DEF TopicInv, Passed, PassedBy
<1>3. next' \in [Instances -> 1 .. NumTopics + 1]
  BY <1>2, TopicAssumption DEF NextTopic, TopicInv, TypeOK, Topics, TopicAssumption
<1> QED BY <1>1, <1>3, CallTyped DEF TopicInv

(* Every action keeps the types. *)
LEMMA TypeStep ==
  ASSUME TopicInv, [Next]_vars
  PROVE  TypeOK'
<1> TypeOK
  BY DEF TopicInv
<1>1. CASE UNCHANGED vars
  BY <1>1 DEF TypeOK, vars, instanceVars
<1>2. ASSUME NEW t \in Topics, Propagate(t)
      PROVE  TypeOK'
  BY <1>2 DEF TypeOK, Propagate, instanceVars
<1>3. ASSUME NEW t \in Topics, NEW s \in ForeignShapes, CreateForeign(t, s)
      PROVE  TypeOK'
  BY <1>3, TopicAssumption DEF TypeOK, CreateForeign, instanceVars, TopicAssumption
<1>4. ASSUME NEW i \in Instances, Start(i) \/ Crash(i) \/ Restart(i)
      PROVE  TypeOK'
  <2>1. CASE DescribeCluster(i)
    <3>1. PICK to \in Locations : Call(i, to)
      BY <2>1 DEF DescribeCluster, Locations
    <3> QED BY <2>1, <3>1, CallTyped DEF DescribeCluster, TypeOK
  <2>2. CASE \E a \in Answers \ {"none"} : DescribeConfigs(i, a)
    BY <2>2 DEF DescribeConfigs, TypeOK
  <2>3. CASE TakeConfig(i)
    <3>1. CASE \E to \in Locations : Call(i, to)
      BY <2>3, <3>1, CallTyped DEF TakeConfig, TypeOK
    <3>2. CASE /\ retries[i] + 1 < NumRetries
               /\ retries' = [retries EXCEPT ![i] = @ + 1]
               /\ UNCHANGED pc
      BY <2>3, <3>2, TopicAssumption DEF TakeConfig, TypeOK, TopicAssumption
    <3> QED BY <2>3, <3>1, <3>2 DEF TakeConfig, Locations
  <2>4. CASE ListTopics(i)
    <3>1. PICK to \in Locations : Call(i, to)
      BY <2>4 DEF ListTopics, Locations
    <3> QED BY <2>4, <3>1, CallTyped DEF ListTopics, TypeOK
  <2>5. CASE CreateTopic(i)
    <3>1. topics' \in [Topics -> Shape \union {Missing}]
      BY <2>5, TopicAssumption DEF CreateTopic, TypeOK, TopicAssumption
    <3>2. CASE NextTopic(i)
      BY <2>5, <3>1, <3>2, NextTopicTyped DEF CreateTopic, TypeOK
    <3>3. CASE Retry(i) /\ UNCHANGED next
      BY <2>5, <3>1, <3>3, RetryTyped DEF CreateTopic, TypeOK
    <3> QED BY <2>5, <3>2, <3>3 DEF CreateTopic
  <2>6. CASE TopicExists(i)
    <3>1. Call(i, "describing") /\ "describing" \in Locations
      BY <2>6 DEF TopicExists, Locations
    <3> QED BY <2>6, <3>1, CallTyped DEF TopicExists, TypeOK
  <2>7. CASE DescribeTopic(i)
    <3>1. CASE NextTopic(i)
      BY <2>7, <3>1, NextTopicTyped DEF DescribeTopic, TypeOK
    <3>2. CASE Call(i, "failed") /\ UNCHANGED next
      <4>1. "failed" \in Locations
        BY DEF Locations
      <4> QED BY <2>7, <3>2, <4>1, CallTyped DEF DescribeTopic, TypeOK
    <3> QED BY <2>7, <3>1, <3>2 DEF DescribeTopic
  <2>8. CASE TopicUnknown(i)
    BY <2>8, RetryTyped DEF TopicUnknown, TypeOK
  <2>9. CASE RequestFails(i)
    <3>1. "failed" \in Locations
      BY DEF Locations
    <3> QED BY <2>9, <3>1, RetryTyped, CallTyped DEF RequestFails, TypeOK
  <2>10. CASE Crash(i)
    <3>1. "failed" \in Locations
      BY DEF Locations
    <3> QED BY <2>10, <3>1, CallTyped DEF Crash, TypeOK
  <2>11. CASE Restart(i)
    <3>1. "connecting" \in Locations
      BY DEF Locations
    <3>2. next' \in [Instances -> 1 .. NumTopics + 1]
      BY <2>11, TopicAssumption DEF Restart, TypeOK, TopicAssumption
    <3>3. config' \in [Instances -> Answers]
      BY <2>11 DEF Restart, TypeOK, Answers
    <3> QED BY <2>11, <3>1, <3>2, <3>3, CallTyped DEF Restart, TypeOK
  <2> QED BY <1>4, <2>1, <2>2, <2>3, <2>4, <2>5, <2>6, <2>7, <2>8, <2>9, <2>10,
             <2>11 DEF Start
<1> QED BY <1>1, <1>2, <1>3, <1>4 DEF Next

(* A topic that exists keeps its shape. *)
LEMMA TopicsStay ==
  ASSUME TypeOK, [Next]_vars
  PROVE  \A t \in Topics : topics[t] # Missing => topics'[t] = topics[t]
<1>1. CASE UNCHANGED vars
  BY <1>1 DEF vars
<1>2. CASE \E t \in Topics : Propagate(t) \/ \E s \in ForeignShapes : CreateForeign(t, s)
  BY <1>2 DEF TypeOK, Propagate, CreateForeign
<1>3. CASE \E i \in Instances : Start(i) \/ Crash(i) \/ Restart(i)
  <2>1. PICK i \in Instances : Start(i) \/ Crash(i) \/ Restart(i)
    BY <1>3
  <2>2. CASE CreateTopic(i)
    BY <2>2 DEF CreateTopic, TypeOK
  <2>3. CASE ~ CreateTopic(i)
    BY <2>1, <2>3 DEF Start, Crash, Restart, DescribeCluster, DescribeConfigs, TakeConfig,
       ListTopics, TopicExists, DescribeTopic, TopicUnknown, RequestFails
  <2> QED BY <2>2, <2>3
<1> QED BY <1>1, <1>2, <1>3 DEF Next

(* A step of one instance leaves the others where they are. *)
LEMMA OthersStay ==
  ASSUME TypeOK, NEW i \in Instances, Start(i) \/ Crash(i) \/ Restart(i),
         NEW j \in Instances, j # i
  PROVE  pc'[j] = pc[j] /\ next'[j] = next[j]
BY DEF TypeOK, Start, Crash, Restart, DescribeCluster, DescribeConfigs, TakeConfig,
   ListTopics, CreateTopic, TopicExists, DescribeTopic, TopicUnknown, RequestFails,
   NextTopic, Retry, Call

(* Every action keeps what the instances have passed. *)
LEMMA PassedStep ==
  ASSUME TopicInv, [Next]_vars
  PROVE  Passed'
<1> TypeOK /\ Passed
  BY DEF TopicInv
<1>1. \A t \in Topics : topics[t] # Missing => topics'[t] = topics[t]
  BY TopicsStay
<1>2. ASSUME NEW j \in Instances, pc'[j] = pc[j] \/ pc'[j] = "failed", next'[j] = next[j]
      PROVE  PassedBy(j)'
  BY <1>1, <1>2 DEF Passed, PassedBy, Conforms
<1>3. CASE UNCHANGED vars
  BY <1>2, <1>3 DEF Passed, vars, instanceVars
<1>4. CASE \E t \in Topics : Propagate(t) \/ \E s \in ForeignShapes : CreateForeign(t, s)
  BY <1>2, <1>4 DEF Passed, Propagate, CreateForeign, instanceVars
<1>5. ASSUME NEW i \in Instances, Start(i) \/ Crash(i) \/ Restart(i)
      PROVE  PassedBy(i)'
  <2>1. ASSUME NEW to, Call(i, to)
        PROVE  pc'[i] = to
    BY <2>1 DEF Call, TypeOK
  <2>2. ASSUME Retry(i)
        PROVE  pc'[i] = pc[i] \/ pc'[i] = "failed"
    BY <2>1, <2>2 DEF Retry
  <2>3. ASSUME NextTopic(i), pc[i] \in {"creating", "describing"},
               topics'[next[i]] # Missing /\ Conforms(topics'[next[i]])
        PROVE  PassedBy(i)'
    <3>1. next[i] \in Topics /\ next'[i] = next[i] + 1
      BY <2>3 DEF Passed, PassedBy, NextTopic, TypeOK
    <3>2. pc'[i] = IF next[i] = NumTopics THEN "started" ELSE "listing"
      BY <2>1, <2>3 DEF NextTopic
    <3>3. \A t \in Topics : t < next'[i] => topics'[t] # Missing /\ Conforms(topics'[t])
      BY <1>1, <2>3, <3>1 DEF Passed, PassedBy, Topics
    <3> QED
      BY <3>1, <3>2, <3>3, TopicAssumption DEF PassedBy, Topics, Conforms, TopicAssumption
  <2>4. CASE DescribeCluster(i)
    BY <1>1, <2>1, <2>4 DEF DescribeCluster, Passed, PassedBy, Conforms
  <2>5. CASE \E a \in Answers \ {"none"} : DescribeConfigs(i, a)
    BY <1>2, <2>5 DEF DescribeConfigs
  <2>6. CASE TakeConfig(i)
    BY <1>1, <2>1, <2>6, TopicAssumption
       DEF TakeConfig, Passed, PassedBy, Conforms, Topics, TopicAssumption
  <2>7. CASE ListTopics(i)
    BY <1>1, <2>1, <2>7 DEF ListTopics, Passed, PassedBy, Conforms
  <2>8. CASE CreateTopic(i)
    <3>1. topics'[next[i]] = Wanted
      BY <2>8 DEF CreateTopic, Passed, PassedBy, TypeOK
    <3>2. Wanted # Missing /\ Conforms(Wanted)
      BY TopicAssumption DEF TopicAssumption, Shape, Missing, Conforms
    <3>3. CASE NextTopic(i)
      BY <2>3, <2>8, <3>1, <3>2, <3>3 DEF CreateTopic
    <3>4. CASE Retry(i) /\ UNCHANGED next
      BY <1>2, <2>2, <3>4
    <3> QED BY <2>8, <3>3, <3>4 DEF CreateTopic
  <2>9. CASE TopicExists(i)
    BY <1>1, <2>1, <2>9 DEF TopicExists, Passed, PassedBy, Conforms
  <2>10. CASE DescribeTopic(i)
    <3>1. CASE Conforms(topics[next[i]]) /\ NextTopic(i)
      BY <2>3, <2>10, <3>1 DEF DescribeTopic, Passed, PassedBy
    <3>2. CASE Call(i, "failed") /\ UNCHANGED next
      BY <1>2, <2>1, <3>2
    <3> QED BY <2>10, <3>1, <3>2 DEF DescribeTopic
  <2>11. CASE TopicUnknown(i)
    BY <1>2, <2>2, <2>11 DEF TopicUnknown
  <2>12. CASE RequestFails(i)
    BY <1>2, <2>1, <2>2, <2>12 DEF RequestFails
  <2>13. CASE Crash(i)
    BY <1>2, <2>1, <2>13 DEF Crash
  <2>14. CASE Restart(i)
    <3>1. next'[i] = 1 /\ pc'[i] = "connecting"
      BY <2>1, <2>14 DEF Restart, TypeOK
    <3> QED BY <3>1 DEF PassedBy, Topics
  <2> QED BY <1>5, <2>4, <2>5, <2>6, <2>7, <2>8, <2>9, <2>10, <2>11, <2>12, <2>13,
             <2>14 DEF Start
<1>6. CASE \E i \in Instances : Start(i) \/ Crash(i) \/ Restart(i)
  <2>1. PICK i \in Instances : Start(i) \/ Crash(i) \/ Restart(i)
    BY <1>6
  <2>2. ASSUME NEW j \in Instances, j # i
        PROVE  PassedBy(j)'
    BY <1>2, <2>1, <2>2, OthersStay
  <2> QED BY <1>5, <2>1, <2>2 DEF Passed
<1> QED BY <1>3, <1>4, <1>6 DEF Next

LEMMA TopicInvariant == Spec => []TopicInv
<1>1. Init => TopicInv
  BY TopicAssumption DEF Init, TopicInv, TypeOK, Passed, PassedBy, Topics, Locations,
     Answers, TopicAssumption
<1>2. TopicInv /\ [Next]_vars => TopicInv'
  BY TypeStep, PassedStep DEF TopicInv
<1> QED BY <1>1, <1>2, PTL DEF Spec

(* The state of the brokers and of the instances keeps its type. *)
THEOREM TopicClientTypeCorrect == Spec => []TypeOK
<1>1. TopicInv => TypeOK
  BY DEF TopicInv
<1> QED BY <1>1, TopicInvariant, PTL

(* No instance starts its processors on a topic that is missing or has the  *)
(* wrong shape.                                                             *)
THEOREM StartedTopicsConform == Spec => []StartedOnConformingTopics
<1>1. TopicInv => StartedOnConformingTopics
  <2> SUFFICES ASSUME TopicInv, NEW i \in Instances, pc[i] = "started", NEW t \in Topics
               PROVE  topics[t] # Missing /\ Conforms(topics[t])
    BY DEF StartedOnConformingTopics
  <2>1. next[i] = NumTopics + 1 /\ t < NumTopics + 1
    BY TopicAssumption DEF TopicInv, Passed, PassedBy, Topics, TopicAssumption
  <2> QED BY <2>1 DEF TopicInv, Passed, PassedBy
<1> QED BY <1>1, TopicInvariant, PTL

-----------------------------------------------------------------------------
(* Progress.  That a start ends takes an instance that goes on; how many    *)
(* steps it has left at most does not, whatever the brokers answer.         *)

(* Tries left in this call of executeWithRetries, then the calls that       *)
(* follow for this topic, then three calls for each of the later ones.      *)
TriesPerTopic == NumRetries + NumRetries + NumRetries

LaterTopics(i) == TriesPerTopic * (NumTopics - next[i])

StepsLeft(i) ==
  CASE pc[i] = "connecting"  -> 2 + NumRetries + TriesPerTopic * NumTopics
    [] pc[i] = "configuring" -> (IF config[i] = "none" THEN 1 ELSE 0)
                                + (NumRetries - retries[i]) + TriesPerTopic * NumTopics
    [] pc[i] = "listing"     -> NumRetries - retries[i] + NumRetries + NumRetries
                                + LaterTopics(i)
    [] pc[i] = "creating"    -> NumRetries - retries[i] + NumRetries + LaterTopics(i)
    [] pc[i] = "describing"  -> NumRetries - retries[i] + LaterTopics(i)
    [] pc[i] = "started"     -> 0
    [] pc[i] = "failed"      -> 0

(* A start that is under way has steps left, and no more than it had when   *)
(* it began.                                                                *)
StartsBounded ==
  \A i \in Instances :
    /\ StepsLeft(i) \in 0 .. 2 + NumRetries + TriesPerTopic * NumTopics
    /\ StepsLeft(i) = 0 <=> pc[i] \in {"started", "failed"}

(* Each of its steps leaves fewer, and only a restart begins anew: no step  *)
(* of the brokers or of another instance, and no lost answer, sends an      *)
(* instance back.                                                           *)
StartsCountDown ==
  \A i \in Instances :
    /\ Start(i) => StepsLeft(i)' < StepsLeft(i)
    /\ StepsLeft(i)' > StepsLeft(i) => Restart(i)

(* Arithmetic of the topics to come. *)
LEMMA Times ==
  ASSUME NEW a \in Nat, NEW k \in Nat, NEW m \in Nat
  PROVE  a * k \in Nat /\ a * (k + 1) = a * k + a /\ a * (k + m) = a * k + a * m
OBVIOUS

LEMMA Later ==
  ASSUME NEW n \in 1 .. NumTopics
  PROVE  /\ TriesPerTopic \in Nat /\ TriesPerTopic = 3 * NumRetries
         /\ TriesPerTopic * (NumTopics - n) \in Nat
         /\ TriesPerTopic * (NumTopics - n) + TriesPerTopic <= TriesPerTopic * NumTopics
         /\ TriesPerTopic * NumTopics \in Nat
         /\ n = 1 => TriesPerTopic * (NumTopics - n) + TriesPerTopic
                       = TriesPerTopic * NumTopics
         /\ n < NumTopics => TriesPerTopic * (NumTopics - n)
                               = TriesPerTopic * (NumTopics - (n + 1)) + TriesPerTopic
<1> DEFINE a == TriesPerTopic
           k == NumTopics - n
<1>1. a \in Nat /\ a = 3 * NumRetries /\ k \in Nat /\ NumTopics \in Nat /\ n \in Nat
  BY TopicAssumption DEF TopicAssumption, TriesPerTopic
<1>2. NumTopics = k + n /\ n - 1 \in Nat /\ n = (n - 1) + 1
  BY <1>1
<1> HIDE DEF a, k
<1>3. /\ a * k \in Nat /\ a * (k + n) = a * k + a * n /\ a * (k + 1) = a * k + a
      /\ a * ((n - 1) + 1) = a * (n - 1) + a /\ a * (n - 1) \in Nat
  BY <1>1, <1>2, Times
<1>4. a * NumTopics = a * k + a * (n - 1) + a
  <2>1. a * NumTopics = a * (k + n) /\ a * n = a * ((n - 1) + 1)
    BY <1>2
  <2>2. a * n \in Nat
    BY <1>1, Times
  <2> QED
    BY <1>1, <1>3, <2>1, <2>2
<1>5. n = 1 => a * k + a = a * NumTopics
  BY <1>1, <1>2, <1>3
<1>6. ASSUME n < NumTopics PROVE a * k = a * (NumTopics - (n + 1)) + a
  <2>1. NumTopics - (n + 1) \in Nat /\ k = (NumTopics - (n + 1)) + 1
    BY <1>1, <1>2, <1>6
  <2>2. a * ((NumTopics - (n + 1)) + 1) = a * (NumTopics - (n + 1)) + a
    BY <1>1, <2>1, Times
  <2> QED
    BY <2>1, <2>2
<1>7. a * NumTopics \in Nat /\ a * k + a <= a * NumTopics
  BY <1>1, <1>3, <1>4
<1> QED
  BY <1>1, <1>3, <1>5, <1>6, <1>7 DEF a, k

LEMMA TriesNat == NumRetries \in Nat /\ TriesPerTopic * NumTopics \in Nat
<1>1. 1 \in 1 .. NumTopics /\ NumRetries \in Nat
  BY TopicAssumption DEF TopicAssumption
<1> QED
  BY <1>1, Later

(* How many steps are left at each location, as sums.                       *)
LEMMA StepsAt ==
  ASSUME TopicInv, NEW i \in Instances
  PROVE  /\ NumRetries \in Nat /\ retries[i] \in Nat /\ retries[i] < NumRetries
         /\ next[i] \in Topics => LaterTopics(i) \in Nat
         /\ TriesPerTopic * NumTopics \in Nat
         /\ StepsLeft(i) \in Nat
         /\ pc[i] \in {"started", "failed"} => StepsLeft(i) = 0
         /\ pc[i] \notin {"started", "failed"} => StepsLeft(i) > 0
         /\ StepsLeft(i) <= 2 + NumRetries + TriesPerTopic * NumTopics
<1>1. /\ NumRetries \in Nat /\ retries[i] \in Nat /\ retries[i] < NumRetries
      /\ NumTopics \in Nat /\ NumTopics >= 1
      /\ pc[i] \in Locations
  BY TopicAssumption DEF TopicAssumption, TopicInv, TypeOK
<1>2. pc[i] \in {"listing", "creating", "describing"} => next[i] \in Topics
  BY DEF TopicInv, Passed, PassedBy
<1>3. next[i] \in Topics => /\ LaterTopics(i) \in Nat
                            /\ LaterTopics(i) + TriesPerTopic <= TriesPerTopic * NumTopics
  BY Later DEF LaterTopics, Topics
<1>4. /\ TriesPerTopic * NumTopics \in Nat /\ TriesPerTopic \in Nat
      /\ TriesPerTopic = 3 * NumRetries
  <2>1. 1 \in 1 .. NumTopics
    BY <1>1
  <2> QED
    BY <2>1, Later
<1> DEFINE later == LaterTopics(i)
           all == TriesPerTopic * NumTopics
           r == retries[i]
           per == TriesPerTopic
<1>5. StepsLeft(i) = CASE pc[i] = "connecting"  -> 2 + NumRetries + all
         [] pc[i] = "configuring" -> (IF config[i] = "none" THEN 1 ELSE 0)
                                     + (NumRetries - r) + all
         [] pc[i] = "listing"     -> NumRetries - r + NumRetries + NumRetries + later
         [] pc[i] = "creating"    -> NumRetries - r + NumRetries + later
         [] pc[i] = "describing"  -> NumRetries - r + later
         [] pc[i] = "started"     -> 0
         [] pc[i] = "failed"      -> 0
  BY DEF StepsLeft
<1> HIDE DEF later, all, r, per
<1>6. /\ NumRetries \in Nat /\ r \in Nat /\ r < NumRetries /\ all \in Nat /\ per = 3 * NumRetries
      /\ pc[i] \in {"listing", "creating", "describing"} => later \in Nat /\ later + per <= all
  BY <1>1, <1>2, <1>3, <1>4 DEF later, all, r, per
<1>7. /\ StepsLeft(i) \in Nat
      /\ pc[i] \in {"started", "failed"} => StepsLeft(i) = 0
      /\ pc[i] \notin {"started", "failed"} => StepsLeft(i) > 0
      /\ StepsLeft(i) <= 2 + NumRetries + all
  <2>1. CASE pc[i] \in {"connecting", "configuring"}
    BY <1>5, <1>6, <2>1
  <2>2. CASE pc[i] \in {"listing", "creating", "describing"}
    BY <1>5, <1>6, <2>2
  <2>3. CASE pc[i] \in {"started", "failed"}
    BY <1>5, <1>6, <2>3
  <2> QED
    BY <1>1, <2>1, <2>2, <2>3 DEF Locations
<1> QED
  BY <1>1, <1>3, <1>4, <1>7 DEF all

LEMMA EndedNow ==
  ASSUME NEW i \in Instances, pc'[i] \in {"started", "failed"}
  PROVE  StepsLeft(i)' = 0
<1>1. CASE pc'[i] = "started"
  BY <1>1 DEF StepsLeft
<1>2. CASE pc'[i] = "failed"
  BY <1>2 DEF StepsLeft
<1> QED
  BY <1>1, <1>2

(* One try fewer, or none left.                                             *)
LEMMA RetryCountsDown ==
  ASSUME TopicInv, TopicInv', NEW i \in Instances, Retry(i) \/ Call(i, "failed"),
         UNCHANGED next, pc[i] \in {"listing", "creating", "describing"}
  PROVE  StepsLeft(i)' < StepsLeft(i)
<1>1. next[i] \in Topics
  BY DEF TopicInv, Passed, PassedBy
<1>2. CASE pc'[i] = "failed"
  BY <1>2, StepsAt, EndedNow
<1>3. CASE retries' = [retries EXCEPT ![i] = @ + 1] /\ UNCHANGED pc
  <2>1. retries'[i] = retries[i] + 1 /\ LaterTopics(i)' = LaterTopics(i)
    BY <1>3 DEF TopicInv, TypeOK, LaterTopics
  <2> DEFINE later == LaterTopics(i)
  <2>2. /\ later \in Nat /\ NumRetries \in Nat /\ retries[i] \in Nat
        /\ later' = later
    BY <1>1, <2>1, StepsAt
  <2> HIDE DEF later
  <2>3. /\ pc[i] = "listing" =>
             /\ StepsLeft(i) = NumRetries - retries[i] + NumRetries + NumRetries + later
             /\ StepsLeft(i)' = NumRetries - retries'[i] + NumRetries + NumRetries + later'
        /\ pc[i] = "creating" =>
             /\ StepsLeft(i) = NumRetries - retries[i] + NumRetries + later
             /\ StepsLeft(i)' = NumRetries - retries'[i] + NumRetries + later'
        /\ pc[i] = "describing" =>
             /\ StepsLeft(i) = NumRetries - retries[i] + later
             /\ StepsLeft(i)' = NumRetries - retries'[i] + later'
    BY <1>3 DEF StepsLeft, later
  <2> QED
    BY <2>1, <2>2, <2>3
<1> QED
  BY <1>2, <1>3 DEF Retry, Call, TopicInv, TypeOK

(* The next topic, or none.                                                 *)
LEMMA NextTopicCountsDown ==
  ASSUME TopicInv, TopicInv', NEW i \in Instances, NextTopic(i),
         pc[i] \in {"creating", "describing"}
  PROVE  StepsLeft(i)' < StepsLeft(i)
<1>1. /\ next[i] \in Topics /\ next'[i] = next[i] + 1
      /\ pc'[i] = IF next[i] = NumTopics THEN "started" ELSE "listing"
      /\ retries'[i] = 0
  BY DEF TopicInv, Passed, PassedBy, TypeOK, NextTopic, Call
<1>2. CASE next[i] = NumTopics
  BY <1>1, <1>2, StepsAt, EndedNow
<1>3. CASE next[i] # NumTopics
  <2> DEFINE later == LaterTopics(i)
  <2>1. /\ later = later' + TriesPerTopic /\ later' \in Nat
        /\ TriesPerTopic = 3 * NumRetries /\ NumRetries \in Nat
        /\ retries[i] \in Nat /\ retries[i] < NumRetries
    <3>1. next[i] \in 1 .. NumTopics /\ next[i] < NumTopics /\ next'[i] \in 1 .. NumTopics
      BY <1>1, <1>3, TopicAssumption DEF Topics, TopicAssumption
    <3>2. /\ TriesPerTopic * (NumTopics - next[i])
               = TriesPerTopic * (NumTopics - (next[i] + 1)) + TriesPerTopic
          /\ TriesPerTopic * (NumTopics - next'[i]) \in Nat
          /\ TriesPerTopic = 3 * NumRetries
      BY <3>1, Later
    <3> QED
      BY <1>1, <3>2, StepsAt DEF LaterTopics
  <2>2. /\ StepsLeft(i)' = NumRetries - retries'[i] + NumRetries + NumRetries + later'
        /\ pc[i] = "creating" => StepsLeft(i) = NumRetries - retries[i] + NumRetries + later
        /\ pc[i] = "describing" => StepsLeft(i) = NumRetries - retries[i] + later
    BY <1>1, <1>3 DEF StepsLeft
  <2> HIDE DEF later
  <2> QED
    BY <1>1, <2>1, <2>2
<1> QED
  BY <1>2, <1>3

LEMMA StartCountsDown ==
  ASSUME TopicInv, TopicInv', NEW i \in Instances, Start(i)
  PROVE  StepsLeft(i)' < StepsLeft(i)
<1>t. /\ pc \in [Instances -> Locations]
      /\ retries \in [Instances -> 0 .. NumRetries - 1]
      /\ config \in [Instances -> Answers]
  BY DEF TopicInv, TypeOK
<1>c. ASSUME NEW to, Call(i, to) PROVE pc'[i] = to /\ retries'[i] = 0
  BY <1>t, <1>c DEF Call
<1>s. /\ NumRetries \in Nat /\ retries[i] \in Nat /\ retries[i] < NumRetries
      /\ TriesPerTopic * NumTopics \in Nat
  BY StepsAt
<1>f. ASSUME pc[i] \notin {"started", "failed"}, pc'[i] = "failed"
      PROVE  StepsLeft(i)' < StepsLeft(i)
  BY <1>f, StepsAt, EndedNow
<1> DEFINE all == TriesPerTopic * NumTopics
<1>1. CASE DescribeCluster(i)
  <2>1. CASE pc'[i] = "configuring" /\ retries'[i] = 0
    <3>1. /\ StepsLeft(i) = 2 + NumRetries + all
          /\ StepsLeft(i)' = (IF config'[i] = "none" THEN 1 ELSE 0) + (NumRetries - 0) + all
      BY <1>1, <2>1 DEF DescribeCluster, StepsLeft
    <3> HIDE DEF all
    <3>2. all \in Nat
      BY <1>s DEF all
    <3> QED
      BY <1>s, <3>1, <3>2
  <2> QED
    BY <1>1, <1>c, <1>f, <2>1 DEF DescribeCluster
<1>2. CASE \E a \in Answers \ {"none"} : DescribeConfigs(i, a)
  <2>1. /\ pc[i] = "configuring" /\ pc'[i] = "configuring" /\ retries'[i] = retries[i]
        /\ config[i] = "none" /\ config'[i] # "none"
    BY <1>2, <1>t DEF DescribeConfigs
  <2>2. /\ StepsLeft(i) = 1 + (NumRetries - retries[i]) + all
        /\ StepsLeft(i)' = 0 + (NumRetries - retries[i]) + all
    BY <2>1 DEF StepsLeft
  <2>3. all \in Nat
    BY <1>s
  <2> HIDE DEF all
  <2> QED
    BY <1>s, <2>2, <2>3
<1>3. CASE TakeConfig(i)
  <2>1. CASE pc'[i] = "listing" /\ retries'[i] = 0
    <3>1. next[i] = 1 /\ next'[i] = 1 /\ pc[i] = "configuring" /\ config[i] = "ok"
      BY <1>3, <1>t, <1>c, <2>1 DEF TakeConfig, TopicInv, Passed, PassedBy
    <3>2. 1 \in 1 .. NumTopics
      BY TopicAssumption DEF TopicAssumption
    <3>3. /\ LaterTopics(i)' + TriesPerTopic = all /\ TriesPerTopic = 3 * NumRetries
          /\ LaterTopics(i)' \in Nat
      BY <3>1, <3>2, Later DEF LaterTopics
    <3> DEFINE after == LaterTopics(i)'
    <3>4. /\ StepsLeft(i) = 0 + (NumRetries - retries[i]) + all
          /\ StepsLeft(i)' = NumRetries - 0 + NumRetries + NumRetries + after
      BY <2>1, <3>1 DEF StepsLeft
    <3>5. after + TriesPerTopic = all /\ after \in Nat
      BY <3>3
    <3> HIDE DEF after, all
    <3> QED
      BY <1>s, <3>3, <3>4, <3>5
  <2>2. CASE retries' = [retries EXCEPT ![i] = @ + 1] /\ UNCHANGED pc
    <3>1. /\ pc[i] = "configuring" /\ retries'[i] = retries[i] + 1
          /\ config' = config
      BY <1>3, <1>t, <2>2 DEF TakeConfig, Call
    <3>2. /\ StepsLeft(i) = (IF config[i] = "none" THEN 1 ELSE 0) + (NumRetries - retries[i]) + all
          /\ StepsLeft(i)' = (IF config[i] = "none" THEN 1 ELSE 0)
                             + (NumRetries - (retries[i] + 1)) + all
      BY <2>2, <3>1 DEF StepsLeft
    <3>3. all \in Nat
      BY <1>s
    <3> HIDE DEF all
    <3> QED
      BY <1>s, <3>2, <3>3
  <2> QED
    BY <1>3, <1>c, <1>f, <2>1, <2>2 DEF TakeConfig
<1>4. CASE ListTopics(i)
  <2>1. /\ pc[i] = "listing" /\ pc'[i] \in {"creating", "describing"} /\ retries'[i] = 0
        /\ LaterTopics(i)' = LaterTopics(i) /\ LaterTopics(i) \in Nat
    BY <1>4, <1>c, StepsAt DEF ListTopics, LaterTopics, TopicInv, Passed, PassedBy
  <2> DEFINE later == LaterTopics(i)
  <2>2. /\ StepsLeft(i) = NumRetries - retries[i] + NumRetries + NumRetries + later
        /\ pc'[i] = "creating" => StepsLeft(i)' = NumRetries - 0 + NumRetries + later
        /\ pc'[i] = "describing" => StepsLeft(i)' = NumRetries - 0 + later
    BY <2>1 DEF StepsLeft
  <2>3. later \in Nat
    BY <2>1
  <2> HIDE DEF later
  <2> QED
    BY <1>s, <2>1, <2>2, <2>3
<1>5. CASE CreateTopic(i)
  BY <1>5, RetryCountsDown, NextTopicCountsDown DEF CreateTopic
<1>6. CASE TopicExists(i)
  <2>1. /\ pc[i] = "creating" /\ pc'[i] = "describing" /\ retries'[i] = 0
        /\ LaterTopics(i)' = LaterTopics(i) /\ LaterTopics(i) \in Nat
    BY <1>6, <1>c, StepsAt DEF TopicExists, LaterTopics, TopicInv, Passed, PassedBy
  <2> DEFINE later == LaterTopics(i)
  <2>2. /\ StepsLeft(i) = NumRetries - retries[i] + NumRetries + later
        /\ StepsLeft(i)' = NumRetries - 0 + later
    BY <2>1 DEF StepsLeft
  <2>3. later \in Nat
    BY <2>1
  <2> HIDE DEF later
  <2> QED
    BY <1>s, <2>1, <2>2, <2>3
<1>7. CASE DescribeTopic(i)
  BY <1>7, RetryCountsDown, NextTopicCountsDown DEF DescribeTopic
<1>8. CASE TopicUnknown(i)
  BY <1>8, RetryCountsDown DEF TopicUnknown
<1>9. CASE RequestFails(i)
  BY <1>9, RetryCountsDown DEF RequestFails
<1> QED
  BY <1>1, <1>2, <1>3, <1>4, <1>5, <1>6, <1>7, <1>8, <1>9 DEF Start

(* However many answers are lost and whatever the brokers answer, a start   *)
(* has a bounded number of steps left, none only when it has ended.         *)
THEOREM EveryStartIsBounded == Spec => []StartsBounded
<1>1. TopicInv => StartsBounded
  <2> SUFFICES ASSUME TopicInv, NEW i \in Instances
               PROVE  /\ StepsLeft(i) \in 0 .. 2 + NumRetries + TriesPerTopic * NumTopics
                      /\ StepsLeft(i) = 0 <=> pc[i] \in {"started", "failed"}
    BY DEF StartsBounded
  <2> DEFINE all == TriesPerTopic * NumTopics
  <2>1. /\ NumRetries \in Nat /\ all \in Nat /\ StepsLeft(i) \in Nat
        /\ pc[i] \in {"started", "failed"} => StepsLeft(i) = 0
        /\ pc[i] \notin {"started", "failed"} => StepsLeft(i) > 0
        /\ StepsLeft(i) <= 2 + NumRetries + all
    BY StepsAt
  <2> HIDE DEF all
  <2>2. StepsLeft(i) \in 0 .. 2 + NumRetries + all
    BY <2>1
  <2> QED
    BY <2>1, <2>2 DEF all
<1> QED
  BY <1>1, TopicInvariant, PTL

(* And every step it takes leaves it fewer: the part of EveryStartEnds that *)
(* does not rest on fairness.                                               *)
THEOREM EveryStartCountsDown == Spec => [][StartsCountDown]_vars
<1>1. /\ TopicInv /\ TopicInv' /\ StartsBounded /\ StartsBounded'
      /\ [Next]_vars
      => [StartsCountDown]_vars
  <2> SUFFICES ASSUME TopicInv, TopicInv', StartsBounded, StartsBounded', Next,
                      NEW i \in Instances
               PROVE  /\ Start(i) => StepsLeft(i)' < StepsLeft(i)
                      /\ StepsLeft(i)' > StepsLeft(i) => Restart(i)
    BY DEF StartsCountDown
  <2>s. StepsLeft(i) \in Nat /\ StepsLeft(i)' \in Nat
    BY StepsAt, TriesNat DEF StartsBounded
  <2>1. Start(i) => StepsLeft(i)' < StepsLeft(i)
    BY StartCountsDown
  <2>2. ASSUME pc'[i] = pc[i], next'[i] = next[i], retries'[i] = retries[i],
               config'[i] = config[i]
        PROVE  StepsLeft(i)' = StepsLeft(i)
    BY <2>2 DEF StepsLeft, LaterTopics
  <2>3. CASE \E t \in Topics : Propagate(t) \/ \E s \in ForeignShapes : CreateForeign(t, s)
    BY <2>s, <2>1, <2>2, <2>3 DEF Propagate, CreateForeign, instanceVars
  <2>4. CASE Crash(i)
    <3>1. pc'[i] = "failed"
      BY <2>4 DEF Crash, Call, TopicInv, TypeOK
    <3>2. StepsLeft(i)' = 0
      BY <3>1 DEF StepsLeft
    <3> QED
      BY <2>s, <2>1, <3>2
  <2>5. ASSUME NEW j \in Instances, j # i, Start(j) \/ Crash(j) \/ Restart(j)
        PROVE  StepsLeft(i)' = StepsLeft(i)
    <3>1. retries'[i] = retries[i] /\ config'[i] = config[i]
      BY <2>5 DEF TopicInv, TypeOK, Start, Crash, Restart, DescribeCluster, DescribeConfigs,
         TakeConfig, ListTopics, CreateTopic, TopicExists, DescribeTopic, TopicUnknown,
         RequestFails, NextTopic, Retry, Call
    <3>2. pc'[i] = pc[i] /\ next'[i] = next[i]
      BY <2>5, OthersStay DEF TopicInv
    <3> QED
      BY <2>2, <3>1, <3>2
  <2> QED
    BY <2>s, <2>1, <2>3, <2>4, <2>5 DEF Next
<1> QED
  BY <1>1, TopicInvariant, EveryStartIsBounded, PTL DEF Spec
=============================================================================
