----------------------------- MODULE ShardingMC -----------------------------
(***************************************************************************)
(* Instances of Sharding for TLC: up to two inactive shards among three    *)
(* trees, of zero, one or two leaves each.                                 *)
(***************************************************************************)
EXTENDS Sharding, TLC

CONSTANTS k1, k2

MCKeys == {k1, k2}

\* One key, and two of which the other one is primary.
MCConfigs == {<<k1>>, <<k2, k1>>}

Symmetry == Permutations(UUIDs)
=============================================================================
