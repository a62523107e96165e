CONSTANTS
  o1 = o1
  p1 = p1
  m1 = m1
  m2 = m2
  Orders <- OneOrder
  Requests = {h1}
  Reconciler = rec
  NoCall = NoCall
  AutoRelease = FALSE
  GatewayPayments = {p1}
  ManualPayments = {}
  OrderOf <- CardOnly
  Messages = {}
  GatewayEnabled = FALSE
  AdminTargets = {}
  MaxCrashes = 0
SPECIFICATION ReconcileSpec
PROPERTIES
  TakenIsRecorded
CHECK_DEADLOCK FALSE
