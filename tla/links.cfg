SPECIFICATION Spec
CONSTANTS
  client = client
  server = server
  l1 = l1
  l2 = l2
  EP = {client, server}
  Peer <- MCPeer
  Server = server
  Links = {l1, l2}
  Lens = {0, 1}
  SendBuffer <- Buffer2
  RecvBuffer <- Buffer20
  SendQueue = 1
  UsableInterval = 100
  GiveUp = FALSE
  MayClose = {}
  MayDropRecv = {}
  MayDropSend = {client, server}
  InitLinks = {}
  NewLinkStates = {"confirmed"}
  StableLinks = {}
  MayLimit <- Unlimited
  MaxSend <- OneWay1
  MaxFaults = 1
SYMMETRY LinkSymmetry
INVARIANTS
  EofComplete
  OkMeansConsumed
PROPERTIES
  ImplementsPipe
CHECK_DEADLOCK FALSE
