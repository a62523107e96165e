CONSTANTS
  u1 = u1
  Panels = {t1, t2}
  Operators = {u1}
  OperatorOf <- OneOperator
  Inbound = {i1}
  Outbound = {o1}
  Nobody = Nobody
SPECIFICATION Spec
INVARIANTS
  OneOpenCall
  ActiveIsOwned
  QuietIsSilent
  HeardOnlyOnACall
PROPERTIES
  OverAndOwnedStay
  AnsweredStays
CHECK_DEADLOCK FALSE
SYMMETRY Symmetry
