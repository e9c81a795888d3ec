--------------------------- MODULE MCCreditWallet ---------------------------
(* Small instances of CreditWallet: two callers, two grants of which one was *)
(* paid for, and few keys of each other kind.                               *)
EXTENDS CreditWallet, TLC

CONSTANTS c1, c2, g1, g2, d1, d2, a1, a2, r1, r2, pay

MCGrantUnits == [g \in Grants |-> IF g = g1 THEN 3 ELSE 2]
MCPaymentOf == [g \in Grants |-> IF g = g1 THEN pay ELSE NoPayment]
MCDebitUnits == [d \in Debits |-> IF d = d1 THEN 2 ELSE 1]
MCReserveUnits == [a \in Attempts |-> 1]
MCActualUnits == 0 .. 2
MCRefundOf == [r \in Refunds |-> pay]
MCRefundPaise == [r \in Refunds |-> IF r = r1 THEN 3 ELSE 1]
MCPaymentPaise == [p \in Payments |-> 4]
=============================================================================
