CONSTANTS
  o1 = o1
  p1 = p1
  m1 = m1
  m2 = m2
  Requests = {h1}
  Reconciler = rec
  NoCall = NoCall
  GatewayEnabled = FALSE
  AutoRelease = FALSE
  AdminTargets = {"paid", "refund_pending"}
  MaxCrashes = 1
  GatewayPayments = {p1}
  ManualPayments = {m1, m2}
  OrderOf <- AllFor1
  Messages = {"valid", "failed"}
  Orders <- OneOrder
SPECIFICATION FairSpec
INVARIANTS
  PaidIsBacked
  OneAttempt
PROPERTIES
  SettledStays
  ImplementsLifecycle
  PaidGetsFulfilled
CHECK_DEADLOCK FALSE
