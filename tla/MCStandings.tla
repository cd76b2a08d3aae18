---------------------------- MODULE MCStandings ----------------------------
(* Two submissions of one team race each other; a test of the same team and  *)
(* a submission of another are in the table already, at the same second.     *)
EXTENDS Standings
CONSTANTS s1, s2, t1, o1, a, b, x
MCSubmitter == [r \in Runs |-> IF r = o1 THEN b ELSE a]
MCQuestion == [r \in Runs |-> x]
MCResults == {[success |-> TRUE, score |-> 1], [success |-> FALSE, score |-> 0]}
Symmetry == Permutations({s1, s2})
=============================================================================
