-------------------------- MODULE IndexMigrationMC --------------------------
(* Two keys, one of them in capitals too.                                  *)
EXTENDS IndexMigration, TLC

CONSTANTS k1, K1, k2

MCKeys == {k1, K1, k2}
MCLower == [k \in MCKeys |-> IF k = K1 THEN k1 ELSE k]
\* Bound of the run: entries indexed and entries in Redis.
FewEntries ==
  /\ Cardinality(written) <= 2
  /\ Cardinality({e \in Keys \X IDs : e[2] \in redis[e[1]]}) <= 3

MCSymmetry == Permutations(Servers) \cup Permutations(IDs)
=============================================================================
