CONSTANTS
  Mounts = {m1, m2}
  Customers = {c1}
  Bodies = {b1, b2}
  Accepted = {b1}
  MaxSubmits = 2
  MaxInAll = 2
  MaxCarts = 2
  MaxRedemptions = 1
  MaxPerUser = 1
  None = None
SPECIFICATION Spec
INVARIANT RetryOrdersOnce
CHECK_DEADLOCK FALSE
