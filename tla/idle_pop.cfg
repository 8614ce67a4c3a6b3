SPECIFICATION Spec
CONSTANTS
  client = client
  server = server
  EP = {client, server}
  Peer <- MCPeer
  Server = server
  TestDataLimit = 0
  TestAfterAckTimeout = TRUE
  Pinging = {}
  MayDisconnect = {}
  MayBlock = {}
  MaxBlocks = 0
  MaxData <- None
  MaxConsumed <- Server1
  MaxFaults = 1
INVARIANTS
  PopSucceeds
CHECK_DEADLOCK FALSE
