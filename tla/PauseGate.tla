----------------------------- MODULE PauseGate -----------------------------
(***************************************************************************)
(* Pausing and resuming the payment pipeline: stream threads call          *)
(* PauseControllable.pauseMaybe with every record; REST requests and the   *)
(* thread that reads the control topic call StartStopController.pause and  *)
(* resume; KPayAllInOneImpl.shutdown pauses and then closes the streams,   *)
(* those of PaymentsInFlight first.                                        *)
(* One step is one statement outside the lock, or one inside it.           *)
(***************************************************************************)
CONSTANTS Workers,  \* the stream threads
          Callers   \* the threads that pause, resume and shut down

Threads == Workers \union Callers

ASSUME GateAssumption == Workers \intersect Callers = {}

VARIABLES
  lock,          \* the threads that hold the lock: one, or none
  paused,        \* PauseControllable.paused
  isProcessing,  \* StartStopController.isProcessing, what status() shows
  closing,       \* KafkaStreams.close has told the stream threads to stop
  op,            \* what a caller was asked to do
  pc             \* where each thread is

vars == <<lock, paused, isProcessing, closing, op, pc>>

Ops == {"pause", "resume", "shutdown"}

WorkerLocations == {"processing",  \* outside pauseMaybe
                    "locking", "testing", "awaiting", "waiting", "woken", "unlocking",
                    "stopped"}
CallerLocations == {"idle", "locking", "setting", "signalling", "unlocking",
                    "recording", "closing"}

Init ==
  /\ lock = {}
  /\ paused = FALSE
  /\ isProcessing = TRUE
  /\ closing = FALSE
  /\ op = [c \in Callers |-> "resume"]   \* not read before a request sets it
  /\ pc = [t \in Threads |-> IF t \in Workers THEN "processing" ELSE "idle"]

Goto(t, from, to) == pc[t] = from /\ pc' = [pc EXCEPT ![t] = to]

(* lock(), and the return of await(), which takes the lock again.          *)
Acquire_Barging(t, from, to) ==
  /\ Goto(t, from, to)
  /\ lock' = lock \union {t}
  /\ UNCHANGED <<paused, isProcessing, closing, op>>

Acquire(t, from, to) ==
  /\ lock = {}
  /\ Goto(t, from, to)
  /\ lock' = {t}
  /\ UNCHANGED <<paused, isProcessing, closing, op>>

Release(t, to) ==
  /\ Goto(t, "unlocking", to)
  /\ lock' = lock \ {t}
  /\ UNCHANGED <<paused, isProcessing, closing, op>>

-----------------------------------------------------------------------------
(* The stream threads *)

(* Of the records it has polled, a thread handles some more when it is told *)
(* to close.                                                               *)
CallPauseMaybe(w) ==
  /\ Goto(w, "processing", "locking")
  /\ UNCHANGED <<lock, paused, isProcessing, closing, op>>

EnterPauseMaybe(w) == Acquire(w, "locking", "testing")

TestPaused(w) ==
  /\ Goto(w, "testing", IF paused THEN "awaiting" ELSE "unlocking")
  /\ UNCHANGED <<lock, paused, isProcessing, closing, op>>

(* await() gives the lock up and waits, in one step.                       *)
Await(w) ==
  /\ Goto(w, "awaiting", "waiting")
  /\ lock' = lock \ {w}
  /\ UNCHANGED <<paused, isProcessing, closing, op>>

(* An "if" guards the await, not a loop: a thread that is woken returns    *)
(* without looking at paused again.                                        *)
Wake_Loop(w) == Acquire(w, "woken", "testing")

Wake(w) == Acquire(w, "woken", "unlocking")

ReturnFromPauseMaybe(w) == Release(w, "processing")

(* Told to close, a stream thread stops when it next polls.                *)
Stop(w) ==
  /\ closing
  /\ Goto(w, "processing", "stopped")
  /\ UNCHANGED <<lock, paused, isProcessing, closing, op>>

-----------------------------------------------------------------------------
(* StartStopController *)

Request(c, o) ==
  /\ Goto(c, "idle", "locking")
  /\ op' = [op EXCEPT ![c] = o]
  /\ UNCHANGED <<lock, paused, isProcessing, closing>>

EnterSet(c) == Acquire(c, "locking", "setting")

SetPaused(c) ==
  /\ op[c] \in {"pause", "shutdown"}
  /\ Goto(c, "setting", "unlocking")
  /\ paused' = TRUE
  /\ UNCHANGED <<lock, isProcessing, closing, op>>

ClearPaused(c) ==
  /\ op[c] = "resume"
  /\ Goto(c, "setting", "signalling")
  /\ paused' = FALSE
  /\ UNCHANGED <<lock, isProcessing, closing, op>>

(* signal() instead of signalAll() *)
SignalAll_One(c) ==
  /\ pc[c] = "signalling"
  /\ LET waiting == {w \in Workers : pc[w] = "waiting"}
         woken   == IF waiting = {} THEN {} ELSE {CHOOSE w \in waiting : TRUE}
     IN pc' = [t \in Threads |-> IF t = c THEN "unlocking"
                                 ELSE IF t \in woken THEN "woken" ELSE pc[t]]
  /\ UNCHANGED <<lock, paused, isProcessing, closing, op>>

SignalAll(c) ==
  /\ pc[c] = "signalling"
  /\ pc' = [t \in Threads |->
              IF t = c THEN "unlocking"
              ELSE IF t \in Workers /\ pc[t] = "waiting" THEN "woken" ELSE pc[t]]
  /\ UNCHANGED <<lock, paused, isProcessing, closing, op>>

LeaveSet(c) == Release(c, "recording")

(* isProcessing is assigned after the lock is released.                    *)
RecordStatus(c) ==
  /\ Goto(c, "recording", IF op[c] = "shutdown" THEN "closing" ELSE "idle")
  /\ isProcessing' = (op[c] = "resume")
  /\ UNCHANGED <<lock, paused, closing, op>>

(* KafkaStreams.close() tells the stream threads to stop.                  *)
CloseStreams(c) ==
  /\ pc[c] = "closing"
  /\ ~ closing
  /\ closing' = TRUE
  /\ UNCHANGED <<lock, paused, isProcessing, op, pc>>

(* Then it waits for them, without a limit.                                *)
Closed(c) ==
  /\ \A w \in Workers : pc[w] = "stopped"
  /\ Goto(c, "closing", "idle")
  /\ UNCHANGED <<lock, paused, isProcessing, closing, op>>

-----------------------------------------------------------------------------
Worker(w) ==
  \/ CallPauseMaybe(w) \/ EnterPauseMaybe(w) \/ TestPaused(w) \/ Await(w)
  \/ Wake(w) \/ ReturnFromPauseMaybe(w) \/ Stop(w)

Caller(c) ==
  \/ EnterSet(c) \/ SetPaused(c) \/ ClearPaused(c) \/ SignalAll(c)
  \/ LeaveSet(c) \/ RecordStatus(c) \/ CloseStreams(c) \/ Closed(c)

Next ==
  \/ \E w \in Workers : Worker(w)
  \/ \E c \in Callers : Caller(c) \/ (\E o \in Ops : Request(c, o))

Spec == Init /\ [][Next]_vars

(* Every thread is scheduled, and one that wants the lock gets it in the   *)
(* end, whoever else takes it again and again.  A thread polls again and   *)
(* again, and so stops when it is told to.  Requests need not come.        *)
FairSpec ==
  /\ Spec
  /\ \A w \in Workers : SF_vars(Worker(w)) /\ SF_vars(Stop(w))
  /\ \A c \in Callers : SF_vars(Caller(c))

-----------------------------------------------------------------------------
TypeOK ==
  /\ lock \in {{}} \union {{t} : t \in Threads}
  /\ paused \in BOOLEAN /\ isProcessing \in BOOLEAN /\ closing \in BOOLEAN
  /\ op \in [Callers -> Ops]
  /\ pc \in [Threads -> WorkerLocations \union CallerLocations]
  /\ \A w \in Workers : pc[w] \in WorkerLocations
  /\ \A c \in Callers : pc[c] \in CallerLocations

(* No wakeup is lost: a stream thread waits only while processing is       *)
(* paused, or while the caller that resumed it has still to signal.  A     *)
(* thread that tested paused without the lock could start to wait after    *)
(* the signal and hold its partitions for ever.                            *)
NoLostWakeup ==
  \A w \in Workers :
    pc[w] = "waiting" => paused \/ \E c \in Callers : pc[c] = "signalling"

(* Where the protocol sees a thread.  The test of paused settles whether a  *)
(* call waits, so a thread about to await counts as waiting; clearing       *)
(* paused settles the resume, so a thread counts as passed from then on,    *)
(* though it is still to be signalled and to take the lock again.           *)
PlaceOf(w) ==
  IF pc[w] \in {"awaiting", "waiting"} /\ paused THEN "waiting"
  ELSE IF pc[w] \in {"awaiting", "waiting", "woken", "unlocking"} THEN "passed"
  ELSE "outside"

Protocol == INSTANCE PauseProtocol WITH place <- [w \in Workers |-> PlaceOf(w)]

(* The lock and the condition keep the protocol: a call waits if and only   *)
(* if it tests paused, and one resume releases all that wait, even those    *)
(* that do not run before the next pause.                                   *)
ImplementsProtocol == Protocol!Spec

(* Every resume releases every thread that waits, even if the next pause   *)
(* comes before those threads have run.                                    *)
ResumeReleases ==
  \A c \in Callers, w \in Workers :
    (pc[c] = "signalling" /\ pc[w] = "waiting") ~> pc[w] = "processing"

(* A shutdown completes if processing is resumed again and again.  On its   *)
(* own it need not: it waits for the thread that it has just paused.        *)
ShutdownReleased ==
  []<>(\E c \in Callers : pc[c] = "signalling") =>
    \A c \in Callers : pc[c] = "closing" ~> pc[c] = "idle"
=============================================================================
