---------------------------- MODULE MCTopicClient ----------------------------
(* Two instances and two topics; other programs may create a topic in the   *)
(* right shape, with more replicas, or with too few partitions.             *)
EXTENDS TopicClient

MCWanted == [partitions |-> 5, replicas |-> 1]
MCForeignShapes == {[partitions |-> 5, replicas |-> 3], [partitions |-> 1, replicas |-> 1]}
=============================================================================
