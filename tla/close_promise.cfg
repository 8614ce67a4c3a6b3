SPECIFICATION Spec
CONSTANTS
  client = client
  server = server
  l1 = l1
  l2 = l2
  EP = {client, server}
  Peer <- MCPeer
  Server = server
  Links = {l1, l2}
  Lens = {1}
  SendBuffer <- Buffer2
  RecvBuffer <- Buffer20
  SendQueue = 1
  UsableInterval = 100
  GiveUp = FALSE
  MayClose = {server}
  MayDropRecv = {server}
  MayDropSend = {}
  InitLinks = {l1, l2}
  NewLinkStates = {"confirmed"}
  StableLinks = {}
  MaxSend <- OneWay2
  MaxFaults = 0
PROPERTIES
  CloseStopsSender
CHECK_DEADLOCK FALSE
