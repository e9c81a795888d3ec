CONSTANTS
  c1 = c1
  c2 = c2
  g1 = g1
  g2 = g2
  d1 = d1
  d2 = d2
  a1 = a1
  a2 = a2
  r1 = r1
  r2 = r2
  pay = pay
  NoPayment = NoPayment
  Callers = {c1, c2}
  Grants = {g1}
  Debits = {d1, d2}
  Attempts = {a1}
  Refunds = {}
  Payments = {pay}
  MeteringEnv = "enforce"
  GrantUnits <- MCGrantUnits
  PaymentOf <- MCPaymentOf
  DebitUnits <- MCDebitUnits
  ReserveUnits <- MCReserveUnits
  ActualUnits <- MCActualUnits
  RefundOf <- MCRefundOf
  RefundPaise <- MCRefundPaise
  PaymentPaise <- MCPaymentPaise
SPECIFICATION Spec
PROPERTIES
  RefusedOnlyWhenShort
