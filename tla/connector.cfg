SPECIFICATION FairSpec
CONSTANTS
  t1 = t1
  t2 = t2
  t3 = t3
  Tags = {t1, t2, t3}
  Foreign = {t3}
  Reports <- OwnOrForeign
  Disables <- OneDisabled
  Path <- SamePath
  MaxTagChanges = 1
  MaxDisables = 2
  MaxFaults = 2
INVARIANTS
  OneLinkPerTag
  NothingMissed
PROPERTIES
  DisabledDisconnects
  Reconnects
  RemovedLeavesNothing
CHECK_DEADLOCK FALSE
