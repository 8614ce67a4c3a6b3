SPECIFICATION FairSpec
CONSTANTS
  t1 = t1
  t2 = t2
  s1 = s1
  s2 = s2
  Transports = {t1, t2}
  Streams = {s1, s2}
  Of <- MCOf
  ConnOf <- OneConn
  Foreign = {s2}
  Callers = {a1}
  MaxFaults = 1
PROPERTIES
  FilterComplete
  TransportEnds
  AcceptReturns
CHECK_DEADLOCK FALSE
