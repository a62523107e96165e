CONSTANTS
  Contacts = {c1}
  Slots = {s1}
  Outbox = outbox
  Reports = {"delivered", "failed"}
  Limit = 1
  BatchSize = 1
  MaxRows = 2
  MaxDrafts = 2
  MaxChanges = 1
  None = None
SPECIFICATION FairSpec
INVARIANTS
  HandedOnce
  DraftSentOnce
  WithinAllowance
  OneCampaign
  ReportsKept
PROPERTIES
  QueueDrains
CHECK_DEADLOCK FALSE
