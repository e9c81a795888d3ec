CONSTANTS
  w1 = w1
  w2 = w2
  plan = plan
  topup = topup
  half = half
  rest = rest
  Nobody = Nobody
  Workers = {w1, w2}
  Intents = {plan}
  Legacy = {}
  Refunds = {}
  RefundOf <- MCRefundOf
  RefundPaise <- MCRefundPaise
  TotalPaise = 2
  Preludes = {"authorized", "failed"}
  Requests = {"verify", "retry"}
  MaxDeliveries = 2
  MaxFailures = 1
SPECIFICATION RepairedSpec
INVARIANTS
  InvoicedIsFulfilled
  ClaimIsExclusive
PROPERTIES
  ConfirmedStaysConfirmed
  AlwaysRepairable
