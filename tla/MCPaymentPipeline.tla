-------------------------- MODULE MCPaymentPipeline --------------------------
(* Three payments between two accounts, one of them from an account to      *)
(* itself.  Two partitions and two groups are enough for records of one     *)
(* payment, and of two payments, to be in one partition or in two.          *)
EXTENDS PaymentPipeline, FiniteSets

MCFrom   == [p \in Payments |-> IF p = 2 THEN 2 ELSE 1]
MCTo     == [p \in Payments |-> IF p = 1 THEN 2 ELSE 1]
MCAmount == [p \in Payments |-> 2 ^ (p-1)]
MCPartitions == {0, 1}
MCPartitionOf ==
  [k \in Keys |-> IF k[1] = "generated" THEN 0
                  ELSE IF k[1] = "account" THEN k[2] % 2 ELSE (k[2] + 1) % 2]
MCGroupOf ==
  [k \in Keys |-> IF k[1] = "txn" THEN 1 ELSE 2]
=============================================================================
