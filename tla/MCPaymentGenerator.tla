------------------------ MODULE MCPaymentGenerator ------------------------
(* Two request threads and three generators; an int of three bits, and the *)
(* four source accounts of the code.  A rate of zero fails.                 *)
EXTENDS PaymentGenerator
=============================================================================
