----------------------------- MODULE MCSessions -----------------------------
(* A host and a team with sessions of an earlier process, two ids that may be *)
(* drawn for new teams, and two patches of different fields.                  *)
EXTENDS Sessions, TLC
CONSTANTS h, a, b, c, sh, sa, q1, q2, q3
MCOwnerOf == [s \in Earlier |-> IF s = sh THEN h ELSE a]
MCPatches == {[f \in {g} |-> 1] : g \in Fields}
Symmetry == Permutations(Requests) \union Permutations(Users \ Configured)
=============================================================================
