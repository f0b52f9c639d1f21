--------------------------- MODULE ClientManagerMC ---------------------------
(***************************************************************************)
(* Three trees, two of which share the default configuration.              *)
(***************************************************************************)
EXTENDS ClientManager, TLC

CONSTANTS t1, t2, t3, c1, c2

MCTrees == {t1, t2, t3}
MCConfigs == {c1, c2}
MCTreeConfig == t3 :> c2
Symmetry == Permutations(Threads)
=============================================================================
