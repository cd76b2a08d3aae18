------------------------------ MODULE MCServer ------------------------------
(* Instances of module Server for TLC: a configuration that can be ingested, *)
(* and one with another team that cannot, since it has a name twice.         *)
EXTENDS Server
CONSTANTS p1, p2, good, twice, t1, t2, host, a1, a2, u1, u2
MCAccounts == [c \in Configs |-> IF c = twice THEN {t2, host} ELSE {t1, host}]
=============================================================================
