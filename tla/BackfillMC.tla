----------------------------- MODULE BackfillMC -----------------------------
(***************************************************************************)
(* Instances of Backfill for TLC.  Entry 1 has two keys, entry 2 shares    *)
(* one of them and is still to be written by the server.                   *)
(***************************************************************************)
EXTENDS Backfill, TLC

CONSTANTS k1, k2

MCKeys == {k1, k2}
MCIndexKeys == 1 :> {k1, k2} @@ 2 :> {k2}

\* All keys in lower case, as hashes are.
MCLower == [k \in MCKeys |-> k]

Symmetry == Permutations(Workers)
=============================================================================
