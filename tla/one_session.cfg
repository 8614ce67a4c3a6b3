SPECIFICATION Spec
CONSTANTS
  c1 = c1
  c2 = c2
  l1 = l1
  l2 = l2
  Servers = {1}
  Conns = {c1, c2}
  Own = {c2}
  Home = 1
  Links = {l1, l2}
  ConnOf <- MCConnOf
  DisconnectOnMismatch = TRUE
  Queue = 1
  NoServer = 0
  MaxInst = 3
  MaxListen <- MCMaxListen
INVARIANTS
  OneSession
CHECK_DEADLOCK FALSE
