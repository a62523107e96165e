CONSTANTS
  Refunds = {r1, r2}
  Admins = {a1}
  NumWorkers = 1
  Total = 2
  PaidOnline = FALSE
  RevokeChoices = {FALSE}
  AdminTargets <- OrderStatus
  MaxTries = 3
  MaxFailures = 0
  Cashiers = {c1, c2}
  Rate = 5000
SPECIFICATION LedgerSpec
INVARIANTS
  NoOverpayment
  CommissionFollowsRefunds
PROPERTIES
  ImplementsLifecycle
SYMMETRY Symmetry
CHECK_DEADLOCK FALSE
