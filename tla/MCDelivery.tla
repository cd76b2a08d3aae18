----------------------------- MODULE MCDelivery -----------------------------
(* Instances of module Delivery for TLC. *)
EXTENDS Delivery, TLC

CONSTANTS r1, alice, bob, k1, k2, k3, c1, c2

MCUserOf == [s \in Sockets |-> IF s = k3 THEN NoUser ELSE alice]
MCSubmitter == [r \in Runs |-> alice]
=============================================================================
