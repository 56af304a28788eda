---------------------------- MODULE MCPauseGate ----------------------------
(* Two stream threads, which is one more than an application starts, and    *)
(* one or two callers: a REST request and the control topic's thread.       *)
EXTENDS PauseGate
=============================================================================
