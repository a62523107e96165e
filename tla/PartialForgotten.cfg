CONSTANTS
  Refunds = {r1, r2}
  Admins = {a1}
  NumWorkers = 1
  Total = 2
  PaidOnline = TRUE
  RevokeChoices = {TRUE}
  AdminTargets = {}
  MaxTries = 3
  MaxFailures = 0
SPECIFICATION Spec
INVARIANTS
  PartialRefundRemembered
SYMMETRY Symmetry
CHECK_DEADLOCK FALSE
