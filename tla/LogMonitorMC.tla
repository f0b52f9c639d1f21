---------------------------- MODULE LogMonitorMC ----------------------------
(***************************************************************************)
(* Instances of LogMonitor for TLC.                                        *)
(***************************************************************************)
EXTENDS LogMonitor, TLC

Symmetry == Permutations(Procs)

\* Bound of the run: with more than one shard, commands that overlap are checked
\* and not explored further.
OverlapWithOneShard == active = 1 \/ \A p, q \in Procs : Running(p) /\ Running(q) => p = q
=============================================================================
