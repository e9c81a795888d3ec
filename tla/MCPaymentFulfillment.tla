------------------------ MODULE MCPaymentFulfillment ------------------------
(* Small instances of PaymentFulfillment. *)
EXTENDS PaymentFulfillment, TLC

CONSTANTS w1, w2, plan, topup, half, rest

\* Every refund is of the plan's payment; two halves make it whole.
MCRefundOf == [r \in Refunds |-> plan]
MCRefundPaise == [r \in Refunds |-> 1]

WorkerSymmetry == Permutations(Workers)
RefundSymmetry == WorkerSymmetry \cup Permutations(Refunds)
=============================================================================
