-------------------------- MODULE PaymentGenerator --------------------------
(***************************************************************************)
(* The payment generator: REST requests call generatePayments, which sets  *)
(* up a producer and a thread that sends a payment at a fixed rate, and    *)
(* stopPayments, which ends them.  KPayAllInOneImpl keeps the generator in *)
(* two fields without a lock.  One step is one statement that touches what *)
(* another thread sees.                                                    *)
(***************************************************************************)
EXTENDS Integers

CONSTANTS Clients,        \* threads that serve REST requests
          NumGenerators,  \* how often generatePayments is called at most
          Rates,          \* the payments per second that are asked for
          NumAccounts,    \* the generator's source accounts: larry, joe, mary, bob
          IntMax          \* Integer.MAX_VALUE

Generators == 1 .. NumGenerators
None == 0

ASSUME GeneratorAssumption ==
  /\ NumGenerators \in Nat
  /\ Rates \subseteq Int
  /\ NumAccounts \in Nat \ {0}
  /\ IntMax \in Nat \ {0}

VARIABLES
  scheduledPaymentFuture, paymentRunnable,  \* the fields: a generator, or null
  made,       \* how many generators were made
  scheduled,  \* the generators whose executor runs them
  open,       \* the generators whose producer is open
  running,    \* where a generator's thread is
  position,   \* PaymentRunnable.position
  pc,         \* where a client is
  mine,       \* the generator a client is setting up
  orderly     \* whether every start and stop came from one user, see Asked

fields == <<scheduledPaymentFuture, paymentRunnable>>
vars == <<fields, made, scheduled, open, running, position, pc, mine, orderly>>

Init ==
  /\ scheduledPaymentFuture = None
  /\ paymentRunnable = None
  /\ made = 0
  /\ scheduled = {}
  /\ open = {}
  /\ running = [g \in Generators |-> "resting"]
  /\ position = [g \in Generators |-> 0]
  /\ pc = [c \in Clients |-> "idle"]
  /\ mine = [c \in Clients |-> None]
  /\ orderly = TRUE

Goto(c, from, to) == pc[c] = from /\ pc' = [pc EXCEPT ![c] = to]

-----------------------------------------------------------------------------
(* generatePayments *)

GeneratePayments(c) ==
  /\ made < NumGenerators
  /\ Goto(c, "idle", "made")
  /\ made' = made + 1
  /\ mine' = [mine EXCEPT ![c] = made + 1]
  /\ open' = open \union {made + 1}
  /\ UNCHANGED <<fields, scheduled, running, position>>

KeepRunnable(c) ==
  /\ Goto(c, "made", "scheduling")
  /\ paymentRunnable' = mine[c]
  /\ UNCHANGED <<scheduledPaymentFuture, made, scheduled, open, running, position, mine>>

(* 1000/ratePerSecond fails for a rate of zero, scheduleAtFixedRate for a   *)
(* period that is not positive.  A rate above 1000 is a period of 1.        *)
Period(rate) == IF rate > 1000 THEN 1 ELSE IF rate > 0 THEN 1000 \div rate ELSE 0

ScheduleAtFixedRate(c, rate) ==
  /\ IF Period(rate) > 0
       THEN /\ Goto(c, "scheduling", "scheduled")
            /\ scheduled' = scheduled \union {mine[c]}
       ELSE /\ Goto(c, "scheduling", "idle")
            /\ UNCHANGED scheduled
  /\ UNCHANGED <<fields, made, open, running, position, mine>>

KeepFuture(c) ==
  /\ Goto(c, "scheduled", "idle")
  /\ scheduledPaymentFuture' = mine[c]
  /\ UNCHANGED <<paymentRunnable, made, scheduled, open, running, position, mine>>

-----------------------------------------------------------------------------
(* PaymentRunnable.run, on the thread of the generator's executor.  The     *)
(* accounts are picked by position % from.length, which is negative when    *)
(* position has overflowed: then the payment is not made, and position      *)
(* stays.  Whatever run throws is caught.  Each payment that is sent counts  *)
(* position on.                                                             *)

Remainder(a, n) == IF a < 0 THEN - ((- a) % n) ELSE a % n

Increment_NoOverflow(i) == i + 1

Increment(i) == IF i = IntMax THEN - IntMax - 1 ELSE i + 1

Run(g) ==
  /\ g \in scheduled
  /\ running[g] = "resting"
  /\ running' = [running EXCEPT ![g] =
                   IF Remainder(position[g], NumAccounts) < 0 THEN "resting" ELSE "sending"]
  /\ UNCHANGED <<fields, made, scheduled, open, position, pc, mine>>

(* KafkaProducer.send throws when the producer is closed.                   *)
Send(g) ==
  /\ running[g] = "sending"
  /\ running' = [running EXCEPT ![g] = "resting"]
  /\ IF g \in open
       THEN position' = [position EXCEPT ![g] = Increment(@)]
       ELSE UNCHANGED position
  /\ UNCHANGED <<fields, made, scheduled, open, pc, mine>>

-----------------------------------------------------------------------------
(* stopPayments *)

(* Without a generator this is a NullPointerException, and nothing else.    *)
StopPayments(c) ==
  /\ Goto(c, "idle", IF scheduledPaymentFuture = None THEN "idle" ELSE "cancelled")
  /\ scheduled' = scheduled \ {scheduledPaymentFuture}
  /\ UNCHANGED <<fields, made, open, running, position, mine>>

(* cancel(false) lets a run that has begun come to its end: closing the     *)
(* producer is what keeps it from sending.                                  *)
CloseProducer_NotYet(c) ==
  /\ Goto(c, "cancelled", "closed")
  /\ UNCHANGED <<fields, made, scheduled, open, running, position, mine>>

CloseProducer(c) ==
  /\ Goto(c, "cancelled", "closed")
  /\ open' = open \ {paymentRunnable}
  /\ UNCHANGED <<fields, made, scheduled, running, position, mine>>

ForgetFuture_Kept(c) ==
  /\ Goto(c, "closed", "idle")
  /\ UNCHANGED <<fields, made, scheduled, open, running, position, mine>>

ForgetFuture(c) ==
  /\ Goto(c, "closed", "idle")
  /\ scheduledPaymentFuture' = None
  /\ UNCHANGED <<paymentRunnable, made, scheduled, open, running, position, mine>>

isGeneratingPayments == scheduledPaymentFuture # None

-----------------------------------------------------------------------------
Client(c) ==
  \/ KeepRunnable(c) \/ (\E r \in Rates : ScheduleAtFixedRate(c, r)) \/ KeepFuture(c)
  \/ CloseProducer(c) \/ ForgetFuture(c)

Generator(g) == Run(g) \/ Send(g)

(* One user, who waits for each answer, starts the generator only when the  *)
(* status says that it is stopped, and stops it only when it says that it   *)
(* is running.                                                              *)
Answered == \A c \in Clients : pc[c] = "idle"

Asked(whenShown) == orderly' = (orderly /\ Answered /\ whenShown)

Next ==
  \/ \E c \in Clients : GeneratePayments(c) /\ Asked(~ isGeneratingPayments)
  \/ \E c \in Clients : StopPayments(c) /\ Asked(isGeneratingPayments)
  \/ (\E c \in Clients : Client(c)) /\ UNCHANGED orderly
  \/ (\E g \in Generators : Generator(g)) /\ UNCHANGED orderly

Spec == Init /\ [][Next]_vars

-----------------------------------------------------------------------------
TypeOK ==
  /\ scheduledPaymentFuture \in Generators \union {None}
  /\ paymentRunnable \in Generators \union {None}
  /\ made \in 0 .. NumGenerators
  /\ scheduled \subseteq Generators
  /\ open \subseteq Generators
  /\ running \in [Generators -> {"resting", "sending"}]
  /\ position \in [Generators -> - IntMax - 1 .. IntMax]
  /\ pc \in [Clients -> {"idle", "made", "scheduling", "scheduled", "cancelled", "closed"}]
  /\ mine \in [Clients -> Generators \union {None}]
  /\ orderly \in BOOLEAN

(* index.html:126, the title of the status button: "current status of       *)
(* generation - running or stopped".  When every request is answered, a     *)
(* status that says running is about a generator that is scheduled, however *)
(* requests overlapped: a stop that comes between leaves no dead future.    *)
(* After one user's requests it also says stopped only if none can send;    *)
(* two starts leave a first generator that nothing stops.                   *)
StatusAgrees ==
  Answered =>
    /\ isGeneratingPayments => scheduledPaymentFuture \in scheduled
    /\ orderly => (isGeneratingPayments <=> scheduled \intersect open # {})

(* Once stopPayments has returned to that user, no payment is sent any      *)
(* more, not even by a run that had begun when it was called.               *)
StopIsFinal ==
  [][(orderly /\ Answered /\ ~ isGeneratingPayments) => position' = position]_vars
=============================================================================
