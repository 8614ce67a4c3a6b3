SPECIFICATION FairSpec
CONSTANTS
  client = client
  server = server
  l1 = l1
  l2 = l2
  EP = {client, server}
  Peer <- MCPeer
  Server = server
  Links = {l1, l2}
  Lens = {0, 1}
  SendBuffer <- Buffer2
  RecvBuffer <- Buffer1
  SendQueue = 1
  UsableInterval = 100
  GiveUp = FALSE
  MayClose = {}
  MayDropRecv = {}
  MayDropSend = {}
  InitLinks = {l1, l2}
  NewLinkStates = {}
  StableLinks = {l1}
  MayLimit <- SurvivorLimited
  MaxSend <- OneWay2
  MaxFaults = 1
INVARIANTS
  FlowControl
  InOrderDelivery
  AckedReceived
  PacketStates
  PacketTracked
  NoProtocolError
PROPERTIES
  EventuallyConsumed
CHECK_DEADLOCK FALSE
