------------------------ MODULE MCThroughputMetrics ------------------------
(* Four payments of two amounts in two windows: enough for a window to be   *)
(* passed on twice, and for a window to come back after the other.          *)
EXTENDS ThroughputMetrics
=============================================================================
