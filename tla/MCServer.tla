------------------------------ MODULE MCServer ------------------------------
(* Instances of Server: two links of a client's connection c1, which may lead *)
(* to two servers of which only the first listens, and a connection c2 that   *)
(* the first server made itself.                                              *)
EXTENDS Server
CONSTANTS c1, c2, l1, l2
MCConnOf == [l \in Links |-> c1]
MCMaxListen == [s \in Servers |-> IF s = Home THEN 1 ELSE 0]
=============================================================================
