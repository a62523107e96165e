CONSTANTS
  Requests = {r1}
  Machines = {m1, m2}
  Devices = {d1, d2}
  Reviewers = {v1, v2}
  DeviceLimit = 1
  MaxOverrides = 1
  None = None
SPECIFICATION FairSpec
INVARIANTS
  SeatsWithinLimit
  SeatHasAnOwner
PROPERTIES
  GrantArrives
CHECK_DEADLOCK FALSE
