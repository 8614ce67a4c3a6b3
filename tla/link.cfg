SPECIFICATION Spec
CONSTANTS
  client = client
  server = server
  EP = {client, server}
  Peer <- MCPeer
  Server = server
  TestDataLimit = 1
  TestAfterAckTimeout = TRUE
  Pinging = {server}
  MayDisconnect = {client, server}
  MayBlock = {server}
  MaxBlocks = 1
  MaxData <- Client1
  MaxConsumed <- Server1
  MaxFaults = 1
INVARIANTS
  LinkTypeOK
  IdleReady
  NothingWaits
  PingTracked
  AcceptedFirst
CHECK_DEADLOCK FALSE
