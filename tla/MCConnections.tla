---------------------------- MODULE MCConnections ----------------------------
(* Instances of module Connections for TLC. *)
EXTENDS Connections, TLC

CONSTANTS alice, bob, k1, k2, w1

MCUserOf == [s \in Sockets |-> alice]
MCWaitsFor == [w \in Waiters |-> alice]
=============================================================================
