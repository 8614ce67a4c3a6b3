SPECIFICATION Spec
CONSTANTS
  M = 32
  USABLE_INTERVAL = 3
  Slack = 2
  Horizon = 7
  MaxSent = 72
INVARIANTS
  WindowOrder
  AckHitsPacket
  ReceivedInPlace
  NoUnderflow
CHECK_DEADLOCK FALSE
