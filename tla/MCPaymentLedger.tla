--------------------------- MODULE MCPaymentLedger ---------------------------
(* Three payments over two accounts; one of them pays itself back.          *)
EXTENDS PaymentLedger

MCFrom   == <<1, 1, 2>>
MCTo     == <<2, 2, 2>>
MCAmount == <<1, 2, 4>>

=============================================================================
