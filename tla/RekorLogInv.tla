---------------------------- MODULE RekorLogInv ----------------------------
(***************************************************************************)
(* The inductive invariant of RekorLog, in named parts.  RekorLogProofs    *)
(* proves it for every value of the constants, and RekorLogMC lets TLC     *)
(* check it on the small instances.  What depends on lengths that servers  *)
(* have read holds while the deployment is Settled.                        *)
(***************************************************************************)
EXTENDS RekorLog

WasRead(t) == \E x \in read : x[1] = t

\* Trees not yet active are empty.  Nobody adds to a tree before the lengths of
\* all trees before it were read, and trees only grow.
ShardsOK ==
    /\ \A t \in Trees : t > active => tree[t] = << >> /\ queued[t] = {}
    /\ \A t, u \in Trees :
           t < u /\ (tree[u] # << >> \/ queued[u] # {}) => WasRead(t)
    /\ \A x \in read : x[1] < active /\ x[2] <= Len(tree[x[1]])

\* Trillian's deduplication: no leaf twice in a tree, none both in the queue
\* and in the tree.
NoDuplicates ==
    /\ \A t \in Trees : \A i, j \in DOMAIN tree[t] : tree[t][i] = tree[t][j] => i = j
    /\ \A t \in Trees : \A l \in queued[t] : ~Holds(t, l)

\* The virtual index ranges of the shards follow one another, empty shards
\* taking no room.
RangesOK ==
    /\ first[1] = 0
    /\ \A t, u \in Trees :
           t < u /\ (\A w \in Trees : t < w /\ w < u => tree[w] = << >>)
               => first[u] = first[t] + Len(tree[t])
    /\ \A t, u \in Trees : t < u => first[t] + Len(tree[t]) <= first[u]

\* A server that is up was started with the deployed configuration, and has the
\* lengths of the shards that it has read.
ServersOK ==
    \A s \in Servers :
        /\ base[s][1] = 0
        /\ state[s] # "down" =>
            /\ cfg[s] = active
            /\ nxt[s] <= active
            /\ state[s] = "serving" => nxt[s] = active
            /\ \A t \in Trees : t < nxt[s] => <<t, length[s][t]>> \in read
            /\ Settled => \A t \in Trees : t <= nxt[s] => base[s][t] = first[t]

\* A request in flight is handled by a serving server, and the inclusion proof
\* it holds is a proof for its leaf.
RequestsOK ==
    \A r \in Requests :
        /\ pc[r] = "idle" => srv[r] = None
        /\ pc[r] # "idle" =>
            /\ srv[r] \in Servers /\ state[srv[r]] = "serving"
            /\ leaf[r] \in Leaves
        /\ pc[r] = "fetch" =>
            /\ pos[r] < size[r] /\ size[r] <= Len(tree[active])
            /\ tree[active][pos[r] + 1] = leaf[r]

\* Entries an answer may contain, SETs that may have been issued.
GoodEntry(e) ==
    /\ e.tree <= active
    /\ e.pos < e.size /\ e.size <= Len(tree[e.tree])
    /\ tree[e.tree][e.pos + 1] = e.leaf
    /\ e.tree = active \/ Settled => e.cp = e.size
    /\ Settled => e.vindex = first[e.tree] + e.pos

GoodSet(v, t, l) ==
    /\ t <= active
    /\ \E i \in DOMAIN tree[t] : tree[t][i] = l /\ (Settled => v = first[t] + i - 1)

OutputsOK ==
    /\ \A r \in Requests : \A e \in resp[r].entries : GoodEntry(e)
    /\ \A r \in Requests : \A id \in resp[r].named : Accepted(id[1], id[2])
    /\ \A x \in signed : GoodSet(x[1], x[2], x[3])
    /\ \A j \in jobs : Holds(j.tree, j.leaf)
    /\ \A id \in index : Holds(id[1], id[2])

\* All of it holds in every reachable state, whatever is left in the queue of a
\* tree when it becomes inactive.
IndInv ==
    TypeOK /\ ShardsOK /\ NoDuplicates /\ RangesOK /\ ServersOK /\ RequestsOK /\ OutputsOK
=============================================================================
