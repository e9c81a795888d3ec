CONSTANTS
  c1 = c1
  c2 = c2
  pay = pay
  full = full
  NoPayment = NoPayment
  Unlocked = Unlocked
  Callers = {c1, c2}
  Debits = {}
  Attempts = {}
  ActualUnits = {}
  Refunds = {full}
  Payments = {pay}
  MeteringEnv = "enforce"
  Releases = 3
  Months = 3
  MaxFailures = 1
  MaxLost = 1
  Grants <- MCGrants
  GrantUnits <- MCGrantUnits
  PaymentOf <- MCPaymentOf
  DebitUnits <- MCDebitUnits
  ReserveUnits <- MCReserveUnits
  RefundOf <- MCRefundOf
  RefundPaise <- MCRefundPaise
  PaymentPaise <- MCPaymentPaise
SPECIFICATION ReleasesFairSpec
INVARIANTS
  NeverEarly
  NothingSkipped
  
PROPERTIES
  YearlyIsReleased
