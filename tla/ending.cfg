SPECIFICATION FairSpec
CONSTANTS
  client = client
  server = server
  l1 = l1
  l2 = l2
  EP = {client, server}
  Peer <- MCPeer
  Server = server
  Links = {l1, l2}
  Lens = {1}
  SendBuffer <- Buffer2
  RecvBuffer <- Buffer20
  SendQueue = 1
  UsableInterval = 0
  GiveUp = TRUE
  MayClose = {server}
  MayDropRecv = {}
  MayDropSend = {client, server}
  InitLinks = {l1, l2}
  NewLinkStates = {"confirmed"}
  StableLinks = {l1}
  MayLimit <- Unlimited
  MaxSend <- Nothing
  MaxFaults = 0
PROPERTIES
  EventuallyEnds
CHECK_DEADLOCK FALSE
