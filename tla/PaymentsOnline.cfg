CONSTANTS
  o1 = o1
  p1 = p1
  m1 = m1
  m2 = m2
  Requests = {h1, h2}
  Reconciler = rec
  NoCall = NoCall
  GatewayEnabled = TRUE
  AutoRelease = TRUE
  AdminTargets = {"refund_pending"}
  MaxCrashes = 0
  GatewayPayments = {p1}
  ManualPayments = {}
  OrderOf <- CardOnly
  Messages = {"valid", "validated", "stray"}
  Orders <- OneOrder
SPECIFICATION Spec
INVARIANTS
  OneWorkerPerCallback
PROPERTIES
  PaidOnlyByValidation
SYMMETRY Symmetry
CHECK_DEADLOCK FALSE
