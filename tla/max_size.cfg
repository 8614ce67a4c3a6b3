SPECIFICATION Spec
CONSTANTS
  WriteSizes = {1, 3}
  ItemSizes = {3}
  MaxBytes = 3
  ReadSize = 1
  IoWriteSize = 2
  RecvBuffer = 8
  SendBuffer = 3
  SendQueue = 1
  MaxFrameLen = 2
  SeqMod = 3
  MaxFlushes = 1
  MaxFaults = 0
CHECK_DEADLOCK FALSE
INVARIANTS
  AcceptedCarried
