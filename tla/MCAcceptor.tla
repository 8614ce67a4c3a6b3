----------------------------- MODULE MCAcceptor -----------------------------
(* Instances of Acceptor: two transports, by each a stream of the same        *)
(* connection.                                                                *)
EXTENDS Acceptor
CONSTANTS t1, t2, s1, s2
MCOf(c) == IF c = s1 THEN t1 ELSE t2
OneConn(c) == 1
=============================================================================
