------------------------------ MODULE MCClock ------------------------------
(* Three requests to pause or unpause in any order, and a time limit that is *)
(* passed while the clock runs.                                              *)
EXTENDS Clock, TLC
CONSTANTS q1, q2, q3, u1, u2
Symmetry == Permutations(Requests) \union Permutations(Webhooks)
=============================================================================
