------------------------------ MODULE MCTester ------------------------------
(* Instances of modules Tester and TesterInvariant for TLC. *)
EXTENDS TesterInvariant, TLC

CONSTANTS s1, t1, alice, bob, host, c1, c2, c3, d1, d2

MCSubmitter == [r \in Runs |-> IF r \in TestOnly THEN bob ELSE alice]
MCSymmetry == Permutations(Requests)
=============================================================================
