SPECIFICATION FairSpec
CONSTANTS
  client = client
  server = server
  EP = {client, server}
  Peer <- MCPeer
  Server = server
  TestDataLimit = 0
  TestAfterAckTimeout = TRUE
  Pinging = {}
  MayDisconnect = {client, server}
  MayBlock = {server}
  MaxBlocks = 2
  MaxData <- None
  MaxConsumed <- None
  MaxFaults = 2
PROPERTIES
  DisconnectEnds
  BlockingAgrees
  Reconfirmed
CHECK_DEADLOCK FALSE
