----------------------------- MODULE Summation -----------------------------
(***************************************************************************)
(* Sums of integer functions over 1..n.  The sum is a recursive function   *)
(* (not a RECURSIVE operator and not a fold), so that facts about it can   *)
(* be proved: see PaymentLedgerProofs.                                     *)
(***************************************************************************)
EXTENDS Integers

PrefixSums(f, n) ==
  LET s[k \in 0 .. n] == IF k = 0 THEN 0 ELSE s[k-1] + f[k] IN s

SumTo(f, n) == PrefixSums(f, n)[n]
=============================================================================
