----------------------------- MODULE VirtualLog -----------------------------
(***************************************************************************)
(* What a Rekor deployment promises its clients, however many Trillian     *)
(* trees (shards) and server processes stand behind the API: ONE           *)
(* append-only log, whose entries carry consecutive virtual indices, and a *)
(* set of signed entry timestamps (SETs) each of which names an entry at   *)
(* the position the log really gives it.  RekorLog implements this.        *)
(***************************************************************************)
EXTENDS Naturals

CONSTANTS
    Trees,   \* tree identifiers
    Leaves   \* leaf contents (canonicalized entries)

VARIABLES
    size,    \* number of entries in the virtual log
    log,     \* set of <<virtual index, tree, leaf>>
    signed   \* the same triples, for the entries a SET was issued for

vars == <<size, log, signed>>

Init == size = 0 /\ log = {} /\ signed = {}

\* A new entry takes the next virtual index and no other.
Append(t, l) ==
    /\ log' = log \union {<<size, t, l>>}
    /\ size' = size + 1
    /\ UNCHANGED signed

\* SETs are issued for entries of the log only.
Sign ==
    /\ \E S \in SUBSET log : signed' = signed \union S
    /\ UNCHANGED <<size, log>>

Next == (\E t \in Trees, l \in Leaves : Append(t, l)) \/ Sign

Spec == Init /\ [][Next]_vars
=============================================================================
