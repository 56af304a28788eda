--------------------------- MODULE MCTopicTailer ---------------------------
(* Two browsers.  Sets of selected topics are at most two.                  *)
EXTENDS TopicTailer, TLC

CONSTANTS c1, c2, t1, t2

MCClients == {c1, c2}
MCTopics == {t1, t2}
=============================================================================
