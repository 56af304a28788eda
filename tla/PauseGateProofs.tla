-------------------------- MODULE PauseGateProofs --------------------------
(***************************************************************************)
(* The lock of PauseControllable excludes, no wakeup is lost, and the      *)
(* threads keep the pause protocol, for any number of stream threads and   *)
(* of callers.                                                             *)
(***************************************************************************)
EXTENDS PauseGate, TLAPS

(* The locations between lock() and unlock().                              *)
Inside == {"testing", "awaiting", "setting", "signalling", "unlocking"}

(* The lock is held by the threads inside, and by one at a time.           *)
LockOK ==
  /\ \A t \in Threads : t \in lock <=> pc[t] \in Inside
  /\ \A t, u \in Threads : t \in lock /\ u \in lock => t = u

(* What a thread inside has seen of paused still holds.                    *)
TestedOK ==
  \A w \in Workers : pc[w] = "awaiting" => paused

(* A resume is not overtaken by a pause before it has signalled.            *)
SignallingOK ==
  \A c \in Callers : pc[c] = "signalling" => ~ paused

GateInv == TypeOK /\ LockOK /\ TestedOK /\ SignallingOK /\ NoLostWakeup

LEMMA GateInit == Init => GateInv
BY GateAssumption DEF GateAssumption, Init, GateInv, TypeOK, LockOK, TestedOK, SignallingOK,
   NoLostWakeup, Threads, Inside, Ops, WorkerLocations, CallerLocations

(* A step of one thread that takes the lock.                               *)
LEMMA AcquireStep ==
  ASSUME GateInv, NEW t \in Threads, NEW from, NEW to,
         Acquire(t, from, to),
         from \in {"locking", "woken"}, to \in {"testing", "setting", "unlocking"},
         t \in Workers => to \in WorkerLocations,
         t \in Callers => to \in CallerLocations
  PROVE  GateInv'
<1> USE DEF GateInv
<1>1. /\ lock = {} /\ lock' = {t}
      /\ pc[t] = from /\ pc' = [pc EXCEPT ![t] = to]
      /\ UNCHANGED <<paused, isProcessing, closing, op>>
  BY DEF Acquire, Goto
<1>2. TypeOK'
  BY <1>1, GateAssumption DEF GateAssumption, TypeOK, Threads
<1>3. LockOK'
  BY <1>1, <1>2 DEF TypeOK, LockOK, Inside
<1>4. TestedOK'
  BY <1>1 DEF TypeOK, TestedOK, Threads
<1>5. NoLostWakeup'
  <2>1. \A u \in Threads : u # t => pc'[u] = pc[u]
    BY <1>1 DEF TypeOK
  <2>2. pc[t] \notin {"waiting", "signalling"} /\ pc'[t] \notin {"waiting", "signalling"}
    BY <1>1 DEF TypeOK
  <2> QED
    BY <1>1, <2>1, <2>2 DEF NoLostWakeup, Threads
<1>6. SignallingOK'
  BY <1>1 DEF TypeOK, SignallingOK, Threads
<1> QED
  BY <1>2, <1>3, <1>4, <1>5, <1>6

(* A step of one thread that gives the lock back or does not touch it, and  *)
(* changes paused only when it is inside.                                   *)
LEMMA WorkerStep ==
  ASSUME GateInv, NEW w \in Workers, Worker(w)
  PROVE  GateInv'
<1> USE DEF GateInv, Goto
<1>w. w \in Threads /\ w \notin Callers
  BY GateAssumption DEF GateAssumption, Threads
<1>1. CASE EnterPauseMaybe(w)
  BY <1>1, <1>w, AcquireStep DEF EnterPauseMaybe, WorkerLocations
<1>2. CASE Wake(w)
  BY <1>2, <1>w, AcquireStep DEF Wake, WorkerLocations
<1>3. CASE CallPauseMaybe(w) \/ Stop(w)
  <2>1. /\ pc[w] = "processing" /\ UNCHANGED <<lock, paused, isProcessing, closing, op>>
        /\ pc' = [pc EXCEPT ![w] = pc'[w]] /\ pc'[w] \in {"locking", "stopped"}
    BY <1>3, <1>w DEF CallPauseMaybe, Stop, TypeOK
  <2> QED
    BY <2>1, <1>w, GateAssumption DEF GateAssumption, TypeOK, LockOK, TestedOK,
       SignallingOK, NoLostWakeup, Threads, Inside, WorkerLocations
<1>4. CASE TestPaused(w)
  <2>1. /\ pc[w] = "testing" /\ UNCHANGED <<lock, paused, isProcessing, closing, op>>
        /\ pc' = [pc EXCEPT ![w] = IF paused THEN "awaiting" ELSE "unlocking"]
    BY <1>4 DEF TestPaused
  <2> QED
    BY <2>1, <1>w, GateAssumption DEF GateAssumption, TypeOK, LockOK, TestedOK,
       SignallingOK, NoLostWakeup, Threads, Inside, WorkerLocations
<1>5. CASE Await(w)
  <2>1. /\ pc[w] = "awaiting" /\ lock' = lock \ {w}
        /\ pc' = [pc EXCEPT ![w] = "waiting"]
        /\ UNCHANGED <<paused, isProcessing, closing, op>>
    BY <1>5 DEF Await
  <2>2. paused
    BY <2>1 DEF TestedOK
  <2>3. TypeOK'
    BY <2>1, <1>w, GateAssumption DEF GateAssumption, TypeOK, Threads, WorkerLocations
  <2>4. LockOK' /\ TestedOK'
    BY <2>1, <1>w DEF TypeOK, LockOK, TestedOK, Inside, Threads
  <2>5. SignallingOK' /\ NoLostWakeup'
    BY <2>1, <2>2, <1>w, GateAssumption
       DEF GateAssumption, SignallingOK, NoLostWakeup, TypeOK, Threads
  <2> QED
    BY <2>3, <2>4, <2>5
<1>6. CASE ReturnFromPauseMaybe(w)
  <2>1. /\ pc[w] = "unlocking" /\ lock' = lock \ {w}
        /\ pc' = [pc EXCEPT ![w] = "processing"]
        /\ UNCHANGED <<paused, isProcessing, closing, op>>
    BY <1>6 DEF ReturnFromPauseMaybe, Release
  <2> QED
    BY <2>1, <1>w, GateAssumption DEF GateAssumption, TypeOK, LockOK, TestedOK,
       SignallingOK, NoLostWakeup, Threads, Inside, WorkerLocations
<1> QED
  BY <1>1, <1>2, <1>3, <1>4, <1>5, <1>6 DEF Worker

LEMMA CallerStep ==
  ASSUME GateInv, NEW c \in Callers, Caller(c) \/ \E o \in Ops : Request(c, o)
  PROVE  GateInv'
<1> USE DEF GateInv, Goto
<1>c. c \in Threads /\ c \notin Workers
  BY GateAssumption DEF GateAssumption, Threads
<1>a. \A u \in Threads : pc[c] \in Inside /\ pc[u] \in Inside => u = c
  BY <1>c DEF LockOK
<1>1. CASE EnterSet(c)
  BY <1>1, <1>c, AcquireStep DEF EnterSet, CallerLocations
<1>2. CASE \E o \in Ops : Request(c, o)
  <2>1. PICK o \in Ops : Request(c, o)
    BY <1>2
  <2>2. /\ pc[c] = "idle" /\ pc' = [pc EXCEPT ![c] = "locking"]
        /\ op' = [op EXCEPT ![c] = o]
        /\ UNCHANGED <<lock, paused, isProcessing, closing>>
    BY <2>1 DEF Request
  <2> QED
    BY <2>2, <1>c, GateAssumption DEF GateAssumption, TypeOK, LockOK, TestedOK,
       SignallingOK, NoLostWakeup, Threads, Inside, CallerLocations
<1>3. CASE SetPaused(c)
  <2>1. /\ pc[c] = "setting" /\ pc' = [pc EXCEPT ![c] = "unlocking"]
        /\ paused' = TRUE
        /\ UNCHANGED <<lock, isProcessing, closing, op>>
    BY <1>3 DEF SetPaused
  <2>2. \A d \in Callers : pc[d] # "signalling"
    BY <2>1, <1>a, <1>c DEF Inside, Threads
  <2> QED
    BY <2>1, <2>2, <1>c, GateAssumption DEF GateAssumption, TypeOK, LockOK, TestedOK,
       SignallingOK, NoLostWakeup, Threads, Inside, CallerLocations
<1>4. CASE ClearPaused(c)
  <2>1. /\ pc[c] = "setting" /\ pc' = [pc EXCEPT ![c] = "signalling"]
        /\ paused' = FALSE
        /\ UNCHANGED <<lock, isProcessing, closing, op>>
    BY <1>4 DEF ClearPaused
  <2>2. TypeOK'
    BY <2>1, <1>c, GateAssumption DEF GateAssumption, TypeOK, Threads, CallerLocations
  <2>3. LockOK'
    BY <2>1, <1>c DEF TypeOK, LockOK, Inside
  <2>4. TestedOK'
    <3>1. \A w \in Workers : pc[w] \notin Inside
      BY <2>1, <1>a, <1>c DEF Inside, Threads
    <3> QED
      BY <2>1, <3>1, <1>c DEF TestedOK, Inside, TypeOK, Threads
  <2>5. NoLostWakeup'
    BY <2>1, <1>c DEF NoLostWakeup, TypeOK
  <2>6. SignallingOK'
    BY <2>1 DEF SignallingOK
  <2> QED
    BY <2>2, <2>3, <2>4, <2>5, <2>6
<1>5. CASE SignalAll(c)
  <2>1. /\ pc[c] = "signalling"
        /\ pc' = [t \in Threads |->
                    IF t = c THEN "unlocking"
                    ELSE IF t \in Workers /\ pc[t] = "waiting" THEN "woken" ELSE pc[t]]
        /\ UNCHANGED <<lock, paused, isProcessing, closing, op>>
    BY <1>5 DEF SignalAll
  <2>2. TypeOK'
    <3>1. pc' \in [Threads -> WorkerLocations \union CallerLocations]
      BY <2>1 DEF TypeOK, WorkerLocations, CallerLocations
    <3>2. \A w \in Workers : pc'[w] \in WorkerLocations
      BY <2>1, <1>c DEF TypeOK, WorkerLocations, Threads
    <3>3. \A d \in Callers : pc'[d] \in CallerLocations
      BY <2>1, <1>c, GateAssumption DEF GateAssumption, TypeOK, CallerLocations, Threads
    <3> QED
      BY <2>1, <3>1, <3>2, <3>3 DEF TypeOK
  <2>3. LockOK'
    BY <2>1, <1>c DEF LockOK, Inside
  <2>4. TestedOK'
    BY <2>1, <1>c DEF TestedOK, Threads
  <2>5. NoLostWakeup'
    BY <2>1, <1>c DEF NoLostWakeup, Threads
  <2>6. SignallingOK'
    BY <2>1, <1>c, GateAssumption DEF GateAssumption, SignallingOK, Threads
  <2> QED
    BY <2>2, <2>3, <2>4, <2>5, <2>6
<1>6. CASE LeaveSet(c)
  <2>1. /\ pc[c] = "unlocking" /\ pc' = [pc EXCEPT ![c] = "recording"]
        /\ lock' = lock \ {c}
        /\ UNCHANGED <<paused, isProcessing, closing, op>>
    BY <1>6 DEF LeaveSet, Release
  <2> QED
    BY <2>1, <1>c, GateAssumption DEF GateAssumption, TypeOK, LockOK, TestedOK,
       SignallingOK, NoLostWakeup, Threads, Inside, CallerLocations
<1>7. CASE RecordStatus(c) \/ CloseStreams(c) \/ Closed(c)
  <2>1. /\ pc[c] \in {"recording", "closing"}
        /\ pc' = [pc EXCEPT ![c] = pc'[c]] /\ pc'[c] \in {"idle", "closing"}
        /\ isProcessing' \in BOOLEAN /\ closing' \in BOOLEAN
        /\ UNCHANGED <<lock, paused, op>>
    BY <1>7, <1>c DEF RecordStatus, CloseStreams, Closed, TypeOK
  <2> QED
    BY <2>1, <1>c, GateAssumption DEF GateAssumption, TypeOK, LockOK, TestedOK,
       SignallingOK, NoLostWakeup, Threads, Inside, CallerLocations
<1> QED
  BY <1>1, <1>2, <1>3, <1>4, <1>5, <1>6, <1>7 DEF Caller

LEMMA GateInvariant == Spec => []GateInv
<1>1. GateInv /\ [Next]_vars => GateInv'
  <2>1. GateInv /\ UNCHANGED vars => GateInv'
    BY DEF vars, GateInv, TypeOK, LockOK, TestedOK, SignallingOK,
   NoLostWakeup
  <2> QED
    BY <2>1, WorkerStep, CallerStep DEF Next
<1> QED
  BY <1>1, GateInit, PTL DEF Spec

(* However many threads pause, resume and call pauseMaybe, none waits while *)
(* processing goes on, except until the caller that resumed it signals.     *)
THEOREM NoWakeupIsLost == Spec => []NoLostWakeup
<1>1. GateInv => NoLostWakeup
  BY DEF GateInv
<1> QED
  BY <1>1, GateInvariant, PTL

(* The variables have their types; the lock has one holder at most.         *)
THEOREM GateTypeCorrect == Spec => []TypeOK
<1>1. GateInv => TypeOK
  BY DEF GateInv
<1> QED
  BY <1>1, GateInvariant, PTL

-----------------------------------------------------------------------------
(* The gate keeps the protocol *)

(* A step that leaves paused alone leaves every place alone whose thread it *)
(* does not move.                                                           *)
LEMMA SamePlaces ==
  ASSUME UNCHANGED paused, \A w \in Workers : PlaceOf(w)' = PlaceOf(w)
  PROVE  UNCHANGED <<paused, [w \in Workers |-> PlaceOf(w)]>>
OBVIOUS

LEMMA GateInitProtocol == Init => Protocol!Init
BY GateAssumption DEF GateAssumption, Init, Protocol!Init, PlaceOf, Threads

LEMMA WorkerKeepsProtocol ==
  ASSUME GateInv, NEW w \in Workers, Worker(w)
  PROVE  [Protocol!Next]_<<paused, [v \in Workers |-> PlaceOf(v)]>>
<1> USE DEF GateInv, Goto
<1>w. /\ w \in Threads /\ Workers \subseteq Threads
      /\ pc \in [Threads -> WorkerLocations \union CallerLocations]
  BY DEF Threads, TypeOK
<1>1. CASE TestPaused(w)
  <2>1. /\ pc[w] = "testing" /\ UNCHANGED paused
        /\ pc' = [pc EXCEPT ![w] = IF paused THEN "awaiting" ELSE "unlocking"]
    BY <1>1 DEF TestPaused
  <2>2. /\ PlaceOf(w) = "outside" /\ PlaceOf(w)' = IF paused THEN "waiting" ELSE "passed"
        /\ \A v \in Workers : v # w => PlaceOf(v)' = PlaceOf(v)
    BY <2>1, <1>w DEF PlaceOf
  <2>3. Protocol!Arrive(w)
    BY <2>1, <2>2 DEF Protocol!Arrive
  <2> QED
    BY <2>3 DEF Protocol!Next
<1>2. CASE ReturnFromPauseMaybe(w)
  <2>1. /\ pc[w] = "unlocking" /\ UNCHANGED paused
        /\ pc' = [pc EXCEPT ![w] = "processing"]
    BY <1>2 DEF ReturnFromPauseMaybe, Release
  <2>2. /\ PlaceOf(w) = "passed" /\ PlaceOf(w)' = "outside"
        /\ \A v \in Workers : v # w => PlaceOf(v)' = PlaceOf(v)
    BY <2>1, <1>w DEF PlaceOf
  <2>3. Protocol!Return(w)
    BY <2>1, <2>2 DEF Protocol!Return
  <2> QED
    BY <2>3 DEF Protocol!Next
<1>3. CASE CallPauseMaybe(w) \/ EnterPauseMaybe(w) \/ Await(w) \/ Wake(w) \/ Stop(w)
  <2>1. /\ UNCHANGED paused /\ pc' = [pc EXCEPT ![w] = pc'[w]]
        /\ \/ pc[w] = "processing" /\ pc'[w] \in {"locking", "stopped"}
           \/ pc[w] = "locking" /\ pc'[w] = "testing"
           \/ pc[w] = "awaiting" /\ pc'[w] = "waiting"
           \/ pc[w] = "woken" /\ pc'[w] = "unlocking"
    BY <1>3, <1>w DEF CallPauseMaybe, EnterPauseMaybe, Acquire, Await, Wake, Stop
  <2>2. \A v \in Workers : PlaceOf(v)' = PlaceOf(v)
    BY <2>1, <1>w DEF PlaceOf
  <2> QED
    BY <2>1, <2>2, SamePlaces
<1> QED
  BY <1>1, <1>2, <1>3 DEF Worker

LEMMA CallerKeepsProtocol ==
  ASSUME GateInv, NEW c \in Callers, Caller(c) \/ \E o \in Ops : Request(c, o)
  PROVE  [Protocol!Next]_<<paused, [v \in Workers |-> PlaceOf(v)]>>
<1> USE DEF GateInv, Goto
<1>c. /\ c \in Threads /\ c \notin Workers /\ Workers \subseteq Threads
      /\ pc \in [Threads -> WorkerLocations \union CallerLocations]
  BY GateAssumption DEF GateAssumption, Threads, TypeOK
<1>1. CASE SetPaused(c)
  <2>1. pc[c] = "setting" /\ pc' = [pc EXCEPT ![c] = "unlocking"] /\ paused' = TRUE
    BY <1>1 DEF SetPaused
  (* No thread that waits has been resumed and not yet signalled. *)
  <2>2. \A w \in Workers : pc[w] \in {"awaiting", "waiting"} => paused
    <3>1. \A d \in Callers : pc[d] # "signalling"
      BY <2>1, <1>c DEF LockOK, Inside, Threads
    <3> QED
      BY <3>1 DEF TestedOK, NoLostWakeup
  <2>3. \A w \in Workers : PlaceOf(w)' = PlaceOf(w)
    BY <2>1, <2>2, <1>c DEF PlaceOf
  <2>4. Protocol!Pause
    BY <2>1, <2>3 DEF Protocol!Pause
  <2> QED
    BY <2>4 DEF Protocol!Next
<1>2. CASE ClearPaused(c)
  <2>1. pc[c] = "setting" /\ pc' = [pc EXCEPT ![c] = "signalling"] /\ paused' = FALSE
    BY <1>2 DEF ClearPaused
  <2>2. \A w \in Workers :
          PlaceOf(w)' = IF PlaceOf(w) = "waiting" THEN "passed" ELSE PlaceOf(w)
    BY <2>1, <1>c DEF PlaceOf
  <2>3. Protocol!Resume
    BY <2>1, <2>2 DEF Protocol!Resume
  <2> QED
    BY <2>3 DEF Protocol!Next
<1>3. CASE SignalAll(c)
  <2>1. /\ pc[c] = "signalling" /\ UNCHANGED paused
        /\ \A w \in Workers : pc'[w] = IF pc[w] = "waiting" THEN "woken" ELSE pc[w]
    BY <1>3, <1>c DEF SignalAll
  (* The lock is still held: no pause has come in between.                  *)
  <2>2. ~ paused
    BY <2>1 DEF SignallingOK
  <2>3. \A w \in Workers : PlaceOf(w)' = PlaceOf(w)
    BY <2>1, <2>2 DEF PlaceOf
  <2> QED
    BY <2>1, <2>3, SamePlaces
<1>4. CASE \/ EnterSet(c) \/ LeaveSet(c) \/ RecordStatus(c) \/ CloseStreams(c)
           \/ Closed(c) \/ \E o \in Ops : Request(c, o)
  <2>1. UNCHANGED paused /\ \A w \in Workers : pc'[w] = pc[w]
    BY <1>4, <1>c DEF EnterSet, Acquire, LeaveSet, Release, RecordStatus, CloseStreams,
       Closed, Request
  <2>2. \A w \in Workers : PlaceOf(w)' = PlaceOf(w)
    BY <2>1 DEF PlaceOf
  <2> QED
    BY <2>1, <2>2, SamePlaces
<1> QED
  BY <1>1, <1>2, <1>3, <1>4 DEF Caller

(* Every step of the threads, taken on its own, is a step of the pause      *)
(* protocol or none: a resume releases all that wait though it signals them *)
(* later and they run later still.                                          *)
THEOREM GateImplementsProtocol == Spec => ImplementsProtocol
<1>1. GateInv /\ [Next]_vars => [Protocol!Next]_Protocol!protocolVars
  <2>1. UNCHANGED vars => UNCHANGED Protocol!protocolVars
    BY DEF vars, PlaceOf, Protocol!protocolVars
  <2> QED
    BY <2>1, WorkerKeepsProtocol, CallerKeepsProtocol DEF Next, Protocol!protocolVars
<1> QED
  BY <1>1, GateInitProtocol, GateInvariant, PTL
     DEF Spec, ImplementsProtocol, Protocol!Spec
=============================================================================
