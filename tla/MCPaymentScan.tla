--------------------------- MODULE MCPaymentScan ---------------------------
\* Two requests, one of them paid twice.
EXTENDS PaymentScan, TLC

CONSTANTS i1, i2, t1, t2, t3

MCPays == (t1 :> i1) @@ (t2 :> i1) @@ (t3 :> i2)
=============================================================================
