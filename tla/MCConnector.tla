---------------------------- MODULE MCConnector ----------------------------
(***************************************************************************)
(* Instances of Connector for TLC: two tags that share a path.             *)
(***************************************************************************)
EXTENDS Connector, TLC

CONSTANTS t1, t2, t3

SamePath(t) == 1
OwnOrForeign == {{t1, t2}, {t2}, {t3}}
OneDisabled == {{}, {t1}}
=============================================================================
