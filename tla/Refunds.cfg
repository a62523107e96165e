CONSTANTS
  Refunds = {r1, r2}
  Admins = {a1}
  NumWorkers = 1
  Total = 2
  PaidOnline = TRUE
  RevokeChoices = {TRUE, FALSE}
  AdminTargets = {"refunded", "partially_refunded"}
  MaxTries = 3
  MaxFailures = 1
SPECIFICATION FairSpec
INVARIANTS
  RefundsWithinTotal
  RefundedIsSum
  BackedByTheGateway
  RefundedLosesAccess
PROPERTIES
  StatusTellsRefunded
  ApprovedIsAnswered
CHECK_DEADLOCK FALSE
