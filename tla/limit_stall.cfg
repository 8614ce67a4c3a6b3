SPECIFICATION FairSpec
CONSTANTS
  Links = {l1, l2}
  DataSize = 2
  SendBuffer = 3
  RecvBuffer = 3
  UnackedInit = 4
  UnackedLimit = 8
  UnackedIncrease <- MCUnackedIncrease
  SingleLink = 200
  MinIncreased = 2
  MinReset = 2
  MaxPing <- None
  MaxPingSpread <- None
  Reliable = 0
  Pings = {1}
  MaxConsecutive = 0
  MaxData = 2
  MaxControl = 1
  MaxFaults = 1
PROPERTIES
  BlockedLimitIncreases
