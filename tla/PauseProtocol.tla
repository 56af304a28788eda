--------------------------- MODULE PauseProtocol ---------------------------
(***************************************************************************)
(* What PauseControllable promises the threads that call pauseMaybe,       *)
(* without its lock and its condition: a call made while processing is     *)
(* paused waits for the next resume, whichever thread makes it, and for    *)
(* no more than that; any other call returns.                              *)
(***************************************************************************)
CONSTANT Workers  \* the threads that call pauseMaybe

VARIABLES
  paused,  \* PauseControllable.paused
  place    \* of each thread: outside pauseMaybe, or in it, waiting or passed

protocolVars == <<paused, place>>

Init ==
  /\ paused = FALSE
  /\ place = [w \in Workers |-> "outside"]

(* pauseMaybe *)
Arrive(w) ==
  /\ place[w] = "outside"
  /\ place' = [place EXCEPT ![w] = IF paused THEN "waiting" ELSE "passed"]
  /\ UNCHANGED paused

Return(w) ==
  /\ place[w] = "passed"
  /\ place' = [place EXCEPT ![w] = "outside"]
  /\ UNCHANGED paused

(* pauseProcessing: threads that have passed are not called back.          *)
Pause ==
  /\ paused' = TRUE
  /\ UNCHANGED place

(* startProcessing releases all that wait, at once and for good: a pause   *)
(* that follows it holds none of them.                                     *)
Resume ==
  /\ paused' = FALSE
  /\ place' = [w \in Workers |-> IF place[w] = "waiting" THEN "passed" ELSE place[w]]

Next ==
  \/ \E w \in Workers : Arrive(w) \/ Return(w)
  \/ Pause
  \/ Resume

Spec == Init /\ [][Next]_protocolVars
=============================================================================
