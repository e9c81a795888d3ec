CONSTANTS
  w1 = w1
  w2 = w2
  plan = plan
  topup = topup
  half = half
  rest = rest
  Nobody = Nobody
  Workers = {w1, w2}
  Intents = {plan, topup}
  Legacy = {topup}
  Refunds = {half, rest}
  RefundOf <- MCRefundOf
  RefundPaise <- MCRefundPaise
  TotalPaise = 2
  Preludes = {}
  Requests = {"retry"}
  MaxDeliveries = 1
  MaxFailures = 0
SPECIFICATION Spec
SYMMETRY RefundSymmetry
INVARIANTS
  InvoiceNumbersHaveNoGap
  LegacyGrantedOnce
  CompletedMeansDone
