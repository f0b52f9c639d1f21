---------------------------- MODULE RekorLogMC ----------------------------
(***************************************************************************)
(* Instances of RekorLog for TLC.                                          *)
(***************************************************************************)
EXTENDS RekorLogInv, TLC

Symmetry == Permutations(Servers) \union Permutations(Requests)
                \union Permutations(Leaves)

\* Bound of the rotation run.  States in which the search index was written, or
\* in which a shard has grown while an index write is under way, are checked and
\* not explored further: the index is the subject of RekorLogConcurrent.
RotationBound == index = {} /\ (Settled \/ jobs = {})
=============================================================================
