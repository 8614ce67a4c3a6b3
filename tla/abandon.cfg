SPECIFICATION FairSpec
CONSTANTS
  client = client
  server = server
  l1 = l1
  l2 = l2
  EP = {client, server}
  Peer <- MCPeer
  Server = server
  Links = {l1}
  Lens = {0, 1}
  SendBuffer <- Buffer2
  RecvBuffer <- Buffer20
  SendQueue = 1
  UsableInterval = 100
  GiveUp = FALSE
  MayClose = {server}
  MayDropRecv = {server}
  MayDropSend = {server}
  InitLinks = {l1}
  NewLinkStates = {"confirmed"}
  StableLinks = {l1}
  MayLimit <- Unlimited
  MaxSend <- OneWay1
  MaxFaults = 1
PROPERTIES
  AbandonedEnds
CHECK_DEADLOCK FALSE
