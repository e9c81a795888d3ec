-------------------------- MODULE MCCreditReleases --------------------------
(* Small instances of CreditReleases: one yearly payment of three releases. *)
EXTENDS CreditReleases, TLC

CONSTANTS c1, c2, pay, full

MCGrants == Payments \X (1 .. Releases)
MCGrantUnits == [g \in Grants |-> 2]
MCPaymentOf == [g \in Grants |-> g[1]]
MCDebitUnits == [d \in Debits |-> 1]
MCReserveUnits == [a \in Attempts |-> 1]
MCRefundOf == [r \in Refunds |-> CHOOSE p \in Payments : TRUE]
MCRefundPaise == [r \in Refunds |-> 2]
MCPaymentPaise == [p \in Payments |-> 2]
=============================================================================
