--------------------------- MODULE PaymentLedger ---------------------------
(***************************************************************************)
(* What KPay promises about money, with the topics and the processors left *)
(* out: every payment the service accepts is taken from its source account *)
(* once, then given to its destination once, then confirmed once, in that  *)
(* order.  PaymentPipeline implements this specification.                  *)
(***************************************************************************)
EXTENDS Summation

CONSTANTS NumAccounts, NumPayments,
          From, To,   \* the accounts of a payment  (Payment.from, Payment.to)
          Amount      \* its amount, in cents       (Payment.amount)

Accounts == 1 .. NumAccounts
Payments == 1 .. NumPayments

ASSUME LedgerAssumption ==
  /\ NumAccounts \in Nat
  /\ NumPayments \in Nat
  /\ From \in [Payments -> Accounts]
  /\ To \in [Payments -> Accounts]
  /\ Amount \in [Payments -> Nat]

VARIABLES stage,    \* how far each payment has come
          balance   \* the account balances

vars == <<stage, balance>>

Stages == {"none", "incoming", "debited", "credited", "confirmed"}

TypeOK ==
  /\ stage \in [Payments -> Stages]
  /\ balance \in [Accounts -> Int]

Init ==
  /\ stage = [p \in Payments |-> "none"]
  /\ balance = [a \in Accounts |-> 0]

Advance(p, from, to) ==
  /\ stage[p] = from
  /\ stage' = [stage EXCEPT ![p] = to]

Post_Unsigned(a, cents) ==
  balance' = [balance EXCEPT ![a] = @ + (IF cents < 0 THEN -cents ELSE cents)]

Post(a, cents) == balance' = [balance EXCEPT ![a] = @ + cents]

Accept(p)  == Advance(p, "none", "incoming")      /\ UNCHANGED balance
Debit(p)   == Advance(p, "incoming", "debited")   /\ Post(From[p], -Amount[p])
Credit(p)  == Advance(p, "debited", "credited")   /\ Post(To[p], Amount[p])
Confirm(p) == Advance(p, "credited", "confirmed") /\ UNCHANGED balance

Next == \E p \in Payments : Accept(p) \/ Debit(p) \/ Credit(p) \/ Confirm(p)

Spec == Init /\ [][Next]_vars

-----------------------------------------------------------------------------
(* Money between two accounts: taken from the source, not yet given to the *)
(* destination.                                                            *)
InTransit ==
  [p \in Payments |-> IF stage[p] = "debited" THEN Amount[p] ELSE 0]

(* No money is made or lost: what the accounts hold together with what is  *)
(* between two accounts is what they started with, nothing.                *)
Conservation ==
  SumTo(balance, NumAccounts) + SumTo(InTransit, NumPayments) = 0
=============================================================================
