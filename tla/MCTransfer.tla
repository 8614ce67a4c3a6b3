----------------------------- MODULE MCTransfer -----------------------------
(***************************************************************************)
(* Instances of Transfer for TLC: a client and a server.                   *)
(***************************************************************************)
EXTENDS Transfer, TLC

CONSTANTS client, server, l1, l2

MCPeer == (client :> server) @@ (server :> client)
Both(x, y) == (client :> x) @@ (server :> y)

Nothing == Both(0, 0)
OneWay1 == Both(1, 0)
OneWay2 == Both(2, 0)
Buffer1 == Both(1, 1)
Buffer2 == Both(2, 2)
Buffer20 == Both(20, 20)

Unlimited == Both({}, {})
SurvivorLimited == Both({l1}, {})

LinkSymmetry == Permutations(Links)
=============================================================================
