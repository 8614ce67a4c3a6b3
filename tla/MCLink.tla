------------------------------- MODULE MCLink -------------------------------
(***************************************************************************)
(* Instances of LinkSched for TLC: a client and a server.                  *)
(***************************************************************************)
EXTENDS LinkSched, TLC

CONSTANTS client, server

MCPeer == (client :> server) @@ (server :> client)
Both(x, y) == (client :> x) @@ (server :> y)

None == Both(0, 0)
Client1 == Both(1, 0)
Server1 == Both(0, 1)
=============================================================================
