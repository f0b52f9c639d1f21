--------------------------- MODULE RekorLogProofs ---------------------------
(***************************************************************************)
(* RekorLogInv's invariant is inductive, for any sets of servers, requests *)
(* and leaves and any number of shards; what the clients rely on follows.  *)
(***************************************************************************)
EXTENDS RekorLogInv, TLAPS

USE MaxShardsAssumption, NoneAssumption

\* Tree identifiers are positive numbers, and downward closed.
LEMMA TreeNumbers ==
    /\ 1 \in Trees
    /\ \A t \in Trees : t \in Nat /\ t >= 1
    /\ \A t, u \in Trees : t < u => t + 1 \in Trees /\ t + 1 <= u
  BY DEF Trees

\* The invariant holds before any server has started.
LEMMA InitInv == Init => IndInv
<1> SUFFICES ASSUME Init PROVE IndInv
  OBVIOUS
<1>1. TypeOK
  BY DEF Init, TypeOK, Trees, PC, Codes, NoAnswer
<1>2. ShardsOK /\ NoDuplicates /\ RangesOK
  BY DEF Init, ShardsOK, NoDuplicates, RangesOK, Trees, Holds
<1>3. ServersOK /\ RequestsOK
  BY DEF Init, ServersOK, RequestsOK, Trees
<1>4. OutputsOK
  BY DEF Init, OutputsOK, NoAnswer
<1> QED
  BY <1>1, <1>2, <1>3, <1>4 DEF IndInv

\* Trees grow and what was read of them stays, so a deployment that is settled
\* after a step was settled before it.
LEMMA StaysSettled ==
    ASSUME IndInv, Settled', read \subseteq read',
           \A t \in Trees : Len(tree[t]) \in Nat /\ Len(tree'[t]) \in Nat
                            /\ Len(tree[t]) <= Len(tree'[t])
    PROVE  Settled
<1> SUFFICES ASSUME NEW x \in read PROVE x[2] = Len(tree[x[1]])
  BY DEF Settled
<1>1. x[1] \in Trees /\ x[2] \in Nat /\ x[2] <= Len(tree[x[1]])
  BY DEF IndInv, TypeOK, ShardsOK
<1>2. x[2] = Len(tree'[x[1]])
  BY DEF Settled
<1> QED
  BY <1>1, <1>2

\* The tree after t starts where t ends.
LEMMA NextRange ==
    ASSUME RangesOK, NEW t \in Trees, t + 1 \in Trees
    PROVE  first[t + 1] = first[t] + Len(tree[t])
<1>1. t < t + 1 /\ \A w \in Trees : ~(t < w /\ w < t + 1)
  BY TreeNumbers
<1> QED
  BY <1>1 DEF RangesOK

\* Appending a queued leaf to a tree, active or not, disturbs nothing that is
\* already known about it: prefixes stay as they are.  If the deployment is
\* settled after it, then nobody had read the length of the tree, so that every
\* later tree is empty and no server has got past it.
LEMMA IntegrateInv ==
    ASSUME IndInv, NEW t \in Trees, Integrate(t)
    PROVE  IndInv'
<1> PICK l \in queued[t] :
       /\ tree' = [tree EXCEPT ![t] = Append(@, l)]
       /\ queued' = [queued EXCEPT ![t] = @ \ {l}]
       /\ first' = [u \in Trees |-> IF t < u THEN first[u] + 1 ELSE first[u]]
       /\ UNCHANGED <<active, read, server, request, outputs>>
  BY DEF Integrate
<1> USE DEF IndInv, server, request, outputs
<1>1. t \in Nat /\ active \in Nat /\ t <= active /\ l \in Leaves
  BY TreeNumbers DEF ShardsOK, TypeOK
<1>2. TypeOK'
  <2>1. first' \in [Trees -> Nat]
    <3>1. first \in [Trees -> Nat]
      BY DEF TypeOK
    <3> QED
      BY <3>1
  <2>2. tree' \in [Trees -> Seq(Leaves)] /\ queued' \in [Trees -> SUBSET Leaves]
    BY <1>1 DEF TypeOK
  <2> QED
    BY <2>1, <2>2 DEF TypeOK
<1>3. /\ tree[t] \in Seq(Leaves)
      /\ tree'[t] = Append(tree[t], l)
      /\ \A u \in Trees : u # t => tree'[u] = tree[u]
  BY DEF TypeOK
<1>4. /\ Len(tree'[t]) = Len(tree[t]) + 1
      /\ tree'[t][Len(tree[t]) + 1] = l
      /\ DOMAIN tree[t] = 1 .. Len(tree[t])
      /\ DOMAIN tree'[t] = 1 .. Len(tree[t]) + 1
      /\ \A i \in DOMAIN tree[t] : tree'[t][i] = tree[t][i]
  BY <1>3
<1>5. \A u \in Trees : /\ DOMAIN tree[u] \subseteq DOMAIN tree'[u]
                       /\ Len(tree[u]) \in Nat /\ Len(tree'[u]) \in Nat
                       /\ Len(tree[u]) <= Len(tree'[u])
                       /\ \A i \in DOMAIN tree[u] : tree'[u][i] = tree[u][i]
                       /\ DOMAIN tree[u] = 1 .. Len(tree[u])
  BY <1>3, <1>4 DEF TypeOK
<1>6. \A u \in Trees : \A k : Holds(u, k) => Holds(u, k)'
  BY <1>5 DEF Holds
<1>7. ShardsOK'
  <2>1. \A u \in Trees : u # t => tree'[u] = tree[u] /\ queued'[u] = queued[u]
    BY <1>3 DEF TypeOK
  <2>2. \A u \in Trees : u > active => u # t
    BY <1>1
  <2>3. \A x \in read : x[1] \in Trees /\ x[2] \in Nat
    BY DEF TypeOK
  <2>4. \A x \in read : x[1] < active /\ x[2] <= Len(tree'[x[1]])
    BY <1>5, <2>3 DEF ShardsOK
  <2>5. \A u, v \in Trees :
           u < v /\ (tree'[v] # << >> \/ queued'[v] # {}) => WasRead(u)
    BY <2>1 DEF ShardsOK
  <2>6. \A u \in Trees : WasRead(u)' <=> WasRead(u)
    BY DEF WasRead
  <2>7. \A u \in Trees : u > active => tree'[u] = << >> /\ queued'[u] = {}
    BY <2>1, <2>2 DEF ShardsOK
  <2> QED
    <3>1. read' = read /\ active' = active
      OBVIOUS
    <3> HIDE DEF IndInv
    <3> QED
      BY <2>4, <2>5, <2>6, <2>7, <3>1 DEF ShardsOK
<1>8. NoDuplicates'
  <2>1. ~Holds(t, l)
    BY DEF NoDuplicates
  <2>2. ASSUME NEW u \in Trees, NEW i \in DOMAIN tree'[u], NEW j \in DOMAIN tree'[u],
               tree'[u][i] = tree'[u][j]
        PROVE  i = j
    <3>1. CASE u # t
      BY <2>2, <3>1, <1>3 DEF NoDuplicates
    <3>2. CASE u = t
      <4>1. \A k \in DOMAIN tree'[t] : k = Len(tree[t]) + 1 \/ k \in DOMAIN tree[t]
        BY <1>4, <1>5
      <4>2. \A k \in DOMAIN tree[t] : tree'[t][k] # l
        BY <2>1, <1>4 DEF Holds
      <4> QED
        BY <2>2, <3>2, <4>1, <4>2, <1>4 DEF NoDuplicates
    <3> QED
      BY <3>1, <3>2
  <2>3. ASSUME NEW u \in Trees, NEW k \in queued'[u], NEW i \in DOMAIN tree'[u]
        PROVE  tree'[u][i] # k
    <3>1. k \in queued[u] /\ ~(u = t /\ k = l)
      BY <2>3 DEF TypeOK
    <3>2. CASE u # t
      BY <3>1, <3>2, <1>3 DEF NoDuplicates, Holds
    <3>3. CASE u = t
      <4>1. i = Len(tree[t]) + 1 \/ i \in DOMAIN tree[t]
        BY <3>3, <1>4, <1>5
      <4> QED
        BY <3>1, <3>3, <4>1, <1>4 DEF NoDuplicates, Holds
    <3> QED
      BY <3>2, <3>3
  <2> QED
    BY <2>2, <2>3 DEF NoDuplicates, Holds
<1>9. \A u \in Trees : /\ u <= t => first'[u] = first[u]
                       /\ u > t => first'[u] = first[u] + 1
                       /\ u \in Nat /\ first[u] \in Nat
  BY <1>1, TreeNumbers DEF TypeOK
<1>10. RangesOK'
  <2>1. first'[1] = 0
    BY <1>1, <1>9, TreeNumbers DEF RangesOK
  <2>2. ASSUME NEW u \in Trees, NEW v \in Trees, u < v,
               \A w \in Trees : u < w /\ w < v => tree'[w] = << >>
        PROVE  first'[v] = first'[u] + Len(tree'[u])
    <3>1. \A w \in Trees : u < w /\ w < v => w # t /\ tree[w] = << >>
      <4>1. tree'[t] # << >>
        BY <1>4, <1>5
      <4> QED
        BY <2>2, <4>1, <1>3
    <3>2. /\ u \in Nat /\ v \in Nat /\ first[u] \in Nat /\ Len(tree[u]) \in Nat
          /\ first[v] = first[u] + Len(tree[u])
      <4>1. first[v] = first[u] + Len(tree[u])
        BY <2>2, <3>1 DEF RangesOK
      <4> QED
        BY <4>1, <1>5, <1>9
    <3>3. CASE u = t
      <4>1. first'[v] = first[v] + 1 /\ first'[u] = first[u]
        BY <2>2, <3>2, <3>3, <1>9
      <4> QED
        BY <3>2, <3>3, <4>1, <1>4
    <3>4. CASE t < u
      <4>1. /\ first'[v] = first[v] + 1 /\ first'[u] = first[u] + 1
            /\ tree'[u] = tree[u]
        BY <2>2, <3>2, <3>4, <1>1, <1>3, <1>9
      <4>2. Len(tree'[u]) = Len(tree[u])
        BY <4>1
      <4>3. first[v] + 1 = (first[u] + 1) + Len(tree[u])
        BY <3>2
      <4> QED
        BY <4>1, <4>2, <4>3
    <3>5. CASE u < t
      <4>1. v <= t
        BY <3>1, <3>2, <3>5, <1>1
      <4>2. /\ first'[v] = first[v] /\ first'[u] = first[u]
            /\ tree'[u] = tree[u]
        BY <3>2, <3>5, <4>1, <1>1, <1>3, <1>9
      <4> QED
        BY <3>2, <4>2
    <3> QED
      BY <3>2, <3>3, <3>4, <3>5, <1>1
  <2>3. ASSUME NEW u \in Trees, NEW v \in Trees, u < v
        PROVE  first'[u] + Len(tree'[u]) <= first'[v]
    <3>1. /\ u \in Nat /\ v \in Nat /\ first[u] \in Nat /\ first[v] \in Nat
          /\ Len(tree[u]) \in Nat /\ first[u] + Len(tree[u]) <= first[v]
      BY <2>3, <1>5, <1>9 DEF RangesOK
    <3>2. CASE u < t
      <4>1. first'[u] = first[u] /\ Len(tree'[u]) = Len(tree[u]) /\ first'[v] >= first[v]
        BY <3>1, <3>2, <1>1, <1>3, <1>9
      <4> QED
        BY <3>1, <4>1, <1>2 DEF TypeOK
    <3>3. CASE u = t
      <4>1. first'[u] = first[u] /\ Len(tree'[u]) = Len(tree[u]) + 1 /\ first'[v] = first[v] + 1
        BY <2>3, <3>1, <3>3, <1>1, <1>4, <1>9
      <4> QED
        BY <3>1, <4>1
    <3>4. CASE u > t
      <4>1. /\ first'[u] = first[u] + 1 /\ Len(tree'[u]) = Len(tree[u])
            /\ first'[v] = first[v] + 1
        BY <2>3, <3>1, <3>4, <1>1, <1>3, <1>9
      <4> QED
        BY <3>1, <4>1
    <3> QED
      BY <3>1, <3>2, <3>3, <3>4, <1>1
  <2> QED
    BY <2>1, <2>2, <2>3 DEF RangesOK
<1>11. Settled' => Settled
  BY <1>5, StaysSettled
<1>12. Settled' => ~WasRead(t)
  <2> SUFFICES ASSUME Settled', NEW x \in read, x[1] = t PROVE FALSE
    BY DEF WasRead
  <2>1. x[2] = Len(tree[t]) /\ x[2] = Len(tree'[t])
    BY <1>11 DEF Settled
  <2> QED
    BY <2>1, <1>4, <1>5
<1>13. Settled' => \A u \in Trees : tree[u] # << >> => first'[u] = first[u]
  <2> SUFFICES ASSUME Settled', NEW u \in Trees, tree[u] # << >> PROVE first'[u] = first[u]
    OBVIOUS
  <2>1. ~(t < u)
    BY <1>12 DEF ShardsOK
  <2> QED
    BY <2>1, <1>1, <1>9
<1>14. ServersOK'
  <2>1. ASSUME Settled', NEW s \in Servers, state[s] # "down",
               NEW u \in Trees, u <= nxt[s]
        PROVE  base[s][u] = first'[u]
    <3>1. nxt[s] \in Nat /\ u \in Nat
      BY TreeNumbers DEF TypeOK
    <3>2. ~(t < nxt[s])
      BY <2>1, <1>12 DEF ServersOK, WasRead
    <3>3. base[s][u] = first[u]
      BY <2>1, <1>11 DEF ServersOK
    <3> QED
      BY <2>1, <3>1, <3>2, <3>3, <1>1, <1>9
  <2> QED
    BY <2>1 DEF ServersOK
<1>15. RequestsOK'
  <2>1. active \in Trees
    BY DEF TypeOK
  <2>2. \A r \in Requests : pc[r] = "fetch" =>
            /\ pos[r] + 1 \in DOMAIN tree[active] /\ size[r] \in Nat
            /\ Len(tree[active]) \in Nat
    BY <1>5, <2>1 DEF RequestsOK, TypeOK
  <2> QED
    BY <1>5, <2>1, <2>2 DEF RequestsOK
<1>16. OutputsOK'
  <2>1. ASSUME NEW e \in Entries, GoodEntry(e) PROVE GoodEntry(e)'
    <3>1. /\ e.tree \in Trees /\ e.pos \in Nat /\ e.size \in Nat
          /\ e.pos + 1 \in DOMAIN tree[e.tree] /\ tree[e.tree] # << >>
      BY <2>1, <1>5 DEF GoodEntry, Entries
    <3>2. e.size <= Len(tree'[e.tree]) /\ tree'[e.tree][e.pos + 1] = e.leaf
      BY <2>1, <3>1, <1>5 DEF GoodEntry
    <3>3. Settled' => e.vindex = first'[e.tree] + e.pos /\ e.cp = e.size
      BY <2>1, <3>1, <1>11, <1>13 DEF GoodEntry
    <3> QED
      BY <2>1, <3>2, <3>3 DEF GoodEntry
  <2>2. ASSUME NEW v, NEW u \in Trees, NEW k, GoodSet(v, u, k) PROVE GoodSet(v, u, k)'
    <3>1. PICK i \in DOMAIN tree[u] : tree[u][i] = k /\ (Settled => v = first[u] + i - 1)
      BY <2>2 DEF GoodSet
    <3>2. i \in DOMAIN tree'[u] /\ tree'[u][i] = k
      BY <3>1, <1>5
    <3>3. Settled' => v = first'[u] + i - 1
      BY <3>1, <1>5, <1>11, <1>13
    <3> QED
      BY <2>2, <3>2, <3>3 DEF GoodSet
  <2>3. ASSUME NEW u \in Trees, NEW k \in Leaves, Accepted(u, k) PROVE Accepted(u, k)'
    <3>1. CASE Holds(u, k)
      BY <3>1, <1>6 DEF Accepted
    <3>2. CASE k \in queued[u] /\ ~(u = t /\ k = l)
      BY <3>2 DEF Accepted, TypeOK
    <3>3. CASE u = t /\ k = l
      BY <3>3, <1>4 DEF Accepted, Holds
    <3> QED
      BY <2>3, <3>1, <3>2, <3>3 DEF Accepted
  <2>4. \A r \in Requests : /\ resp[r].entries \subseteq Entries
                           /\ resp[r].named \subseteq Trees \X Leaves
    BY DEF TypeOK
  <2>5. \A r \in Requests : \A e \in resp[r].entries : GoodEntry(e)'
    BY <2>1, <2>4 DEF OutputsOK
  <2>6. \A r \in Requests : \A id \in resp[r].named : Accepted(id[1], id[2])'
    BY <2>3, <2>4 DEF OutputsOK
  <2>7. \A x \in signed : GoodSet(x[1], x[2], x[3])'
    BY <2>2 DEF OutputsOK, TypeOK
  <2>8. (\A j \in jobs : Holds(j.tree, j.leaf)') /\ (\A id \in index : Holds(id[1], id[2])')
    BY <1>6 DEF OutputsOK, TypeOK
  <2> QED
    BY <2>5, <2>6, <2>7, <2>8 DEF OutputsOK
<1> QED
  BY <1>2, <1>7, <1>8, <1>10, <1>14, <1>15, <1>16

\* A step that leaves the trees and the configuration alone, and may read the
\* length of an inactive shard.
LEMMA LengthsRead ==
    ASSUME IndInv, UNCHANGED <<trillian, active, first>>, read \subseteq read',
           \A x \in read' : x \in read \/ (x[1] < active /\ x[2] = Len(tree[x[1]])),
           \A t \in Trees : t < active => Len(tree[t]) \in Nat,
           read' \in SUBSET (Trees \X Nat)
    PROVE  /\ Settled' <=> Settled
           /\ ShardsOK' /\ NoDuplicates' /\ RangesOK'
           /\ UNCHANGED <<resp, outputs>> => OutputsOK'
<1> USE DEF trillian
<1>1. Settled' <=> Settled
  BY DEF Settled
<1>2. ShardsOK'
  <2>1. \A x \in read' : x[1] < active /\ x[2] <= Len(tree[x[1]])
    BY DEF IndInv, ShardsOK
  <2>2. \A t \in Trees : WasRead(t) => WasRead(t)'
    BY DEF WasRead
  <2> QED
    BY <2>1, <2>2 DEF IndInv, ShardsOK
<1>3. NoDuplicates' /\ RangesOK'
  BY DEF IndInv, NoDuplicates, RangesOK, Holds
<1>4. UNCHANGED <<resp, outputs>> => OutputsOK'
  BY <1>1 DEF IndInv, OutputsOK, outputs, Holds, Accepted, GoodEntry, GoodSet
<1> QED
  BY <1>1, <1>2, <1>3, <1>4

\* A step that reads nothing either.
LEMMA SameTrees ==
    ASSUME IndInv, UNCHANGED <<trillian, operator>>
    PROVE  /\ Settled' <=> Settled
           /\ ShardsOK' /\ NoDuplicates' /\ RangesOK'
           /\ UNCHANGED <<resp, outputs>> => OutputsOK'
<1>1. Settled' <=> Settled
  BY DEF Settled, trillian, operator
<1>2. ShardsOK' /\ NoDuplicates' /\ RangesOK'
  BY DEF IndInv, ShardsOK, WasRead, NoDuplicates, RangesOK, trillian, operator, Holds
<1>3. UNCHANGED <<resp, outputs>> => OutputsOK'
  BY <1>1 DEF IndInv, OutputsOK, trillian, operator, outputs, Holds, Accepted, GoodEntry, GoodSet
<1> QED
  BY <1>1, <1>2, <1>3

\* A handler that returns takes its local variables with it.
LEMMA ReturnInv ==
    ASSUME IndInv, NEW R \in SUBSET Requests, Return(R),
           UNCHANGED <<tree, operator>>,
           \A r \in Requests \ R : srv[r] \in Servers => state'[srv[r]] = state[srv[r]]
    PROVE  /\ RequestsOK'
           /\ pc' \in [Requests -> PC]
           /\ srv' \in [Requests -> Servers \union {None}]
           /\ leaf' \in [Requests -> Leaves \union {None}]
           /\ known' \in [Requests -> Nat]
           /\ size' \in [Requests -> Nat]
           /\ pos' \in [Requests -> Nat]
<1>1. /\ pc' \in [Requests -> PC]
      /\ srv' \in [Requests -> Servers \union {None}]
      /\ leaf' \in [Requests -> Leaves \union {None}]
      /\ known' \in [Requests -> Nat]
      /\ size' \in [Requests -> Nat]
      /\ pos' \in [Requests -> Nat]
  BY DEF IndInv, TypeOK, Return, PC
<1>2. RequestsOK'
  BY DEF IndInv, RequestsOK, Return, operator
<1> QED
  BY <1>1, <1>2

\* Server processes start, read the inactive shards and stop.
LEMMA ServerInv ==
    ASSUME IndInv, NEW s \in Servers, ServerStep(s)
    PROVE  IndInv'
<1> USE DEF IndInv
<1>1. CASE Start(s)
  <2> USE <1>1 DEF Start
  <2>1. TypeOK'
    BY TreeNumbers DEF TypeOK, trillian, operator, request, outputs
  <2>2. ServersOK'
    <3>1. \A c \in Servers : c # s =>
            state'[c] = state[c] /\ cfg'[c] = cfg[c] /\ nxt'[c] = nxt[c]
      BY DEF TypeOK
    <3>2. state'[s] = "starting" /\ cfg'[s] = active /\ nxt'[s] = 1
      BY DEF TypeOK
    <3>3. \A t \in Trees : t <= 1 => t = 1
      BY TreeNumbers
    <3>4. 1 <= active /\ \A t \in Trees : ~(t < 1)
      BY TreeNumbers DEF TypeOK
    <3> QED
      BY <3>1, <3>2, <3>3, <3>4, SameTrees DEF ServersOK, RangesOK, trillian, operator
  <2>3. RequestsOK'
    BY DEF RequestsOK, TypeOK, trillian, operator, request
  <2> QED
    BY <2>1, <2>2, <2>3, SameTrees DEF request
<1>2. CASE InitShard(s)
  <2> DEFINE t == nxt[s]
  <2> USE <1>2 DEF InitShard
  <2>0. t \in Trees /\ active \in Trees /\ cfg[s] = active
    BY DEF TypeOK, ServersOK
  <2>1. t \in Trees /\ t + 1 \in Trees /\ t < active /\ Len(tree[t]) \in Nat
    <3>1. t < active
      BY <2>0
    <3>2. Len(tree[t]) \in Nat
      BY <2>0 DEF TypeOK
    <3> HIDE DEF t
    <3> QED
      BY <2>0, <3>1, <3>2, TreeNumbers
  <2>2. TypeOK'
    <3>1. length' \in [Servers -> [Trees -> Nat]]
      <4> DEFINE d == [length[s] EXCEPT ![t] = Len(tree[t])]
      <4>1. d \in [Trees -> Nat]
        BY <2>1 DEF TypeOK
      <4>2. length' = [length EXCEPT ![s] = d]
        OBVIOUS
      <4> HIDE DEF d
      <4> QED
        BY <4>1, <4>2 DEF TypeOK
    <3>2. base[s] \in [Trees -> Nat] /\ base[s][t] + Len(tree[t]) \in Nat
      <4>1. base[s] \in [Trees -> Nat]
        BY DEF TypeOK
      <4> QED
        BY <2>1, <4>1
    <3>3. base' \in [Servers -> [Trees -> Nat]]
      <4> DEFINE b == [base[s] EXCEPT ![t + 1] = base[s][t] + Len(tree[t])]
      <4>1. b \in [Trees -> Nat]
        BY <3>2
      <4>2. base' = [base EXCEPT ![s] = b]
        OBVIOUS
      <4> HIDE DEF b
      <4> QED
        BY <4>1, <4>2 DEF TypeOK
    <3>4. nxt' \in [Servers -> Trees]
      BY <2>1 DEF TypeOK
    <3>5. read' \in SUBSET (Trees \X Nat)
      <4>1. read' = read \union {<<t, Len(tree[t])>>} /\ <<t, Len(tree[t])>> \in Trees \X Nat
        BY <2>1
      <4>2. read \in SUBSET (Trees \X Nat)
        BY DEF TypeOK
      <4> QED
        BY <4>1, <4>2
    <3> QED
      BY <3>1, <3>3, <3>4, <3>5 DEF TypeOK, trillian, request, outputs
  <2>3. /\ Settled' <=> Settled
        /\ ShardsOK' /\ NoDuplicates' /\ RangesOK' /\ OutputsOK'
        /\ read' = read \union {<<t, Len(tree[t])>>}
    <3>1. read' = read \union {<<t, Len(tree[t])>>} /\ read \subseteq read'
      OBVIOUS
    <3>2. \A x \in read' : x \in read \/ (x[1] < active /\ x[2] = Len(tree[x[1]]))
      <4>1. \A x \in read' : x \in read \/ x = <<t, Len(tree[t])>>
        BY <3>1
      <4> HIDE DEF t
      <4> QED
        BY <2>1, <4>1
    <3>3. read' \in SUBSET (Trees \X Nat)
      BY <2>2 DEF TypeOK
    <3>4. \A u \in Trees : u < active => Len(tree[u]) \in Nat
      BY DEF TypeOK
    <3> QED
      BY <3>1, <3>2, <3>3, <3>4, LengthsRead DEF request
  <2>4. ServersOK'
    <3>1. /\ Settled => base[s][t] = first[t]
          /\ first[t + 1] = first[t] + Len(tree[t])
      BY <2>0, <2>1, NextRange, TreeNumbers DEF ServersOK
    <3>2. /\ base'[s][t + 1] = base[s][t] + Len(tree[t])
          /\ \A u \in Trees : u # t + 1 => base'[s][u] = base[s][u]
          /\ length'[s][t] = Len(tree[t])
          /\ \A u \in Trees : u # t => length'[s][u] = length[s][u]
      BY <2>1 DEF TypeOK
    <3>3. \A c \in Servers : c # s => base'[c] = base[c] /\ length'[c] = length[c] /\ nxt'[c] = nxt[c]
      BY DEF TypeOK
    <3>4. ASSUME NEW c \in Servers, c # s
          PROVE  /\ base'[c][1] = 0
                 /\ state[c] # "down" =>
                      /\ cfg[c] = active /\ nxt'[c] <= active
                      /\ state[c] = "serving" => nxt'[c] = active
                      /\ \A u \in Trees : u < nxt'[c] => <<u, length'[c][u]>> \in read'
                      /\ Settled => \A u \in Trees : u <= nxt'[c] => base'[c][u] = first[u]
      BY <3>3, <3>4, <2>3 DEF ServersOK
    <3>5. /\ base'[s][1] = 0
          /\ cfg[s] = active /\ nxt'[s] = t + 1 /\ t + 1 <= active
          /\ \A u \in Trees : u < t + 1 => <<u, length'[s][u]>> \in read'
          /\ Settled => \A u \in Trees : u <= t + 1 => base'[s][u] = first[u]
      <4>1. nxt'[s] = t + 1 /\ t + 1 <= active /\ t + 1 # 1
        BY <2>0, <2>1, TreeNumbers DEF TypeOK
      <4>2. \A u \in Trees : u <= t + 1 => u = t + 1 \/ (u <= t /\ u # t + 1)
        BY <2>1, TreeNumbers
      <4>3. \A u \in Trees : u < t + 1 => u = t \/ (u < t /\ u # t)
        BY <2>1, TreeNumbers
      <4>4. \A u \in Trees : u < t + 1 => <<u, length'[s][u]>> \in read'
        BY <2>0, <2>3, <3>2, <4>3 DEF ServersOK
      <4>5. Settled => \A u \in Trees : u <= t + 1 => base'[s][u] = first[u]
        BY <2>0, <3>1, <3>2, <4>2 DEF ServersOK
      <4>6. base'[s][1] = 0
        BY <4>1, <3>2, TreeNumbers DEF ServersOK
      <4> QED
        BY <2>0, <4>1, <4>4, <4>5, <4>6
    <3> QED
      BY <2>3, <3>4, <3>5 DEF ServersOK, trillian
  <2>5. RequestsOK'
    BY DEF RequestsOK, trillian, request
  <2> QED
    BY <2>2, <2>3, <2>4, <2>5
<1>3. CASE Serve(s)
  <2> USE <1>3 DEF Serve
  <2>1. TypeOK'
    BY DEF TypeOK, trillian, operator, request, outputs
  <2>2. ServersOK'
    BY SameTrees DEF ServersOK, TypeOK, trillian, operator
  <2>3. RequestsOK'
    BY DEF RequestsOK, TypeOK, trillian, operator, request
  <2> QED
    BY <2>1, <2>2, <2>3, SameTrees DEF request
<1>4. CASE Crash(s)
  <2> DEFINE lost == {r \in Requests : srv[r] = s}
  <2> USE <1>4 DEF Crash
  <2>1. RequestsOK' /\ TypeOK'
    <3>1. Return(lost) /\ lost \in SUBSET Requests
      OBVIOUS
    <3>2. \A r \in Requests \ lost : srv[r] \in Servers => state'[srv[r]] = state[srv[r]]
      BY DEF TypeOK
    <3>3. resp' \in [Requests -> [code : Codes, named : SUBSET (Trees \X Leaves),
                                  entries : SUBSET Entries]]
      BY DEF TypeOK, NoAnswer, Codes
    <3>4. state' \in [Servers -> {"down", "starting", "serving"}]
      BY DEF TypeOK
    <3> HIDE DEF lost
    <3> QED
      BY <3>1, <3>2, <3>3, <3>4, ReturnInv DEF TypeOK, trillian, operator
  <2>2. ServersOK'
    BY SameTrees DEF ServersOK, TypeOK, trillian, operator
  <2>3. OutputsOK'
    <3>1. \A r \in Requests : resp'[r] \in {resp[r], NoAnswer}
      OBVIOUS
    <3>3. NoAnswer.entries = {} /\ NoAnswer.named = {}
      BY DEF NoAnswer
    <3>2. jobs' \subseteq jobs /\ UNCHANGED <<tree, queued, active, first, signed, index>>
      BY DEF trillian, operator
    <3> QED
      BY <3>1, <3>2, <3>3, SameTrees DEF OutputsOK, Holds, Accepted, GoodEntry, GoodSet
  <2> QED
    BY <2>1, <2>2, <2>3, SameTrees
<1> QED
  BY <1>1, <1>2, <1>3, <1>4 DEF ServerStep

\* Rotation: no server is up and the new tree is empty, so that it starts right
\* behind the old one wherever that will end.
LEMMA RotateInv ==
    ASSUME IndInv, Rotate
    PROVE  IndInv'
<1> USE DEF IndInv, Rotate, AllDown
<1>1. active \in Trees /\ active + 1 \in Trees /\ active \in Nat
  BY TreeNumbers DEF TypeOK, Trees
<1>2. \A r \in Requests : pc[r] = "idle"
  BY DEF RequestsOK
<1>3. Settled' <=> Settled
  BY DEF Settled, trillian
<1>4. TypeOK'
  BY <1>1 DEF TypeOK, trillian, server, request, outputs
<1>5. ShardsOK'
  <2>1. \A t \in Trees : t > active + 1 => t > active
    BY <1>1, TreeNumbers
  <2>2. \A x \in read : x[1] < active + 1
    <3>1. \A x \in read : x[1] \in Trees /\ x[1] < active
      BY DEF ShardsOK, TypeOK
    <3>2. \A t \in Trees : t < active => t < active + 1
      BY <1>1, TreeNumbers
    <3> QED
      BY <3>1, <3>2
  <2> QED
    BY <2>1, <2>2 DEF ShardsOK, WasRead, trillian
<1>6. NoDuplicates' /\ RangesOK'
  BY DEF NoDuplicates, RangesOK, Holds, trillian
<1>7. ServersOK'
  BY DEF ServersOK, server
<1>8. RequestsOK'
  BY <1>2 DEF RequestsOK, request, server
<1>9. OutputsOK'
  <2>1. \A t \in Trees : t <= active => t <= active + 1 /\ t # active + 1
    BY <1>1, TreeNumbers
  <2>2. ASSUME NEW e \in Entries, GoodEntry(e) PROVE GoodEntry(e)'
    BY <1>3, <2>1, <2>2 DEF GoodEntry, Entries, trillian
  <2>3. ASSUME NEW v, NEW t \in Trees, NEW l, GoodSet(v, t, l) PROVE GoodSet(v, t, l)'
    BY <1>3, <2>1, <2>3 DEF GoodSet, trillian
  <2>4. \A r \in Requests : \A e \in resp[r].entries : GoodEntry(e)'
    BY <2>2 DEF OutputsOK, TypeOK
  <2>5. \A x \in signed : GoodSet(x[1], x[2], x[3])'
    BY <2>3 DEF OutputsOK, TypeOK
  <2> QED
    BY <2>4, <2>5 DEF OutputsOK, request, outputs, trillian, Holds, Accepted
<1> QED
  BY <1>4, <1>5, <1>6, <1>7, <1>8, <1>9

\* A step that answers nothing, or only says that something went wrong.
LEMMA EmptyAnswer ==
    ASSUME IndInv, UNCHANGED <<trillian, operator, signed, index>>,
           \A r \in Requests : resp'[r] = resp[r] \/ resp'[r] \in {NoAnswer, ErrorAnswer},
           \A j \in jobs' : j \in jobs \/ Holds(j.tree, j.leaf)
    PROVE  OutputsOK'
<1>1. \A r \in Requests : \A e \in resp'[r].entries : GoodEntry(e)'
  BY SameTrees DEF IndInv, OutputsOK, NoAnswer, ErrorAnswer, GoodEntry, trillian, operator
<1>2. \A r \in Requests : \A id \in resp'[r].named : Accepted(id[1], id[2])'
  BY DEF IndInv, OutputsOK, NoAnswer, ErrorAnswer, Accepted, Holds, trillian
<1>3. /\ \A x \in signed' : GoodSet(x[1], x[2], x[3])'
      /\ \A j \in jobs' : Holds(j.tree, j.leaf)'
      /\ \A id \in index' : Holds(id[1], id[2])'
  BY SameTrees DEF IndInv, OutputsOK, GoodSet, Holds, trillian, operator
<1> QED
  BY <1>1, <1>2, <1>3 DEF OutputsOK

\* Steps of a request that answer nothing: the frame of the handler changes and
\* nothing else does.
LEMMA CreateLogEntryInv ==
    ASSUME IndInv, NEW r \in Requests, NEW s \in Servers, NEW l \in Leaves,
           CreateLogEntry(r, s, l)
    PROVE  IndInv'
<1> USE DEF IndInv, CreateLogEntry, Goto
<1>1. TypeOK'
  BY DEF TypeOK, PC, NoAnswer, Codes, trillian, operator, server, outputs
<1>2. ServersOK'
  BY SameTrees DEF ServersOK, trillian, operator, server
<1>3. RequestsOK'
  BY DEF RequestsOK, TypeOK, trillian, operator, server
<1>4. OutputsOK'
  <2>1. \A q \in Requests : resp'[q] = resp[q] \/ resp'[q] = NoAnswer
    BY DEF TypeOK
  <2> QED
    BY <2>1, EmptyAnswer DEF outputs
<1> QED
  BY <1>1, <1>2, <1>3, <1>4, SameTrees

\* The tree a request in flight adds to is the active one.
LEMMA InFlight ==
    ASSUME IndInv, NEW r \in Requests, pc[r] # "idle"
    PROVE  /\ srv[r] \in Servers /\ cfg[srv[r]] = active /\ leaf[r] \in Leaves
           /\ active \in Trees /\ state[srv[r]] = "serving"
  BY DEF IndInv, RequestsOK, ServersOK, TypeOK

\* A request that holds a proof holds one for its leaf, in the active tree.
LEMMA HeldProof ==
    ASSUME IndInv, NEW r \in Requests, pc[r] = "fetch"
    PROVE  /\ pos[r] \in Nat /\ size[r] \in Nat
           /\ pos[r] + 1 \in DOMAIN tree[active]
           /\ pos[r] < size[r] /\ size[r] <= Len(tree[active])
           /\ tree[active][pos[r] + 1] = leaf[r]
<1>1. /\ pos[r] \in Nat /\ size[r] \in Nat
      /\ tree[active] \in Seq(Leaves)
  BY DEF IndInv, TypeOK
<1>2. /\ pos[r] < size[r] /\ size[r] <= Len(tree[active])
      /\ tree[active][pos[r] + 1] = leaf[r]
  BY DEF IndInv, RequestsOK
<1> QED
  BY <1>1, <1>2

\* QueueLeaf adds to the queue of the active tree a leaf that is new to it.
LEMMA QueueLeafInv ==
    ASSUME IndInv, NEW r \in Requests, QueueLeaf(r)
    PROVE  IndInv'
<1> USE DEF IndInv, QueueLeaf
<1>1. /\ srv[r] \in Servers /\ cfg[srv[r]] = active /\ leaf[r] \in Leaves
      /\ active \in Trees /\ state[srv[r]] = "serving"
  BY InFlight
<1>2. /\ queued' = [queued EXCEPT ![active] = @ \union {leaf[r]}]
      /\ ~Accepted(active, leaf[r])
  BY <1>1
<1>3. queued' \in [Trees -> SUBSET Leaves]
  BY <1>1, <1>2 DEF TypeOK
<1>4. ErrorAnswer \in [code : Codes, named : SUBSET (Trees \X Leaves), entries : SUBSET Entries]
  BY DEF ErrorAnswer, Codes
<1>5. TypeOK' /\ RequestsOK'
  <2>1. CASE Return({r}) /\ resp' = [resp EXCEPT ![r] = ErrorAnswer]
    <3>1. resp' \in [Requests -> [code : Codes, named : SUBSET (Trees \X Leaves),
                                  entries : SUBSET Entries]]
      BY <2>1, <1>4 DEF TypeOK
    <3> QED
      BY <2>1, <3>1, <1>3, ReturnInv DEF TypeOK, operator, server, outputs
  <2>2. CASE Goto(r, "root") /\ UNCHANGED <<srv, leaf, known, size, pos, resp>>
    <3>1. TypeOK'
      BY <2>2, <1>3 DEF TypeOK, PC, Goto, operator, server, outputs
    <3>2. RequestsOK'
      BY <2>2, <1>1 DEF RequestsOK, TypeOK, Goto, operator, server
    <3> QED
      BY <3>1, <3>2
  <2> QED
    BY <2>1, <2>2
<1>6. ShardsOK' /\ RangesOK' /\ ServersOK'
  <2>1. UNCHANGED <<tree, operator, server>>
    OBVIOUS
  <2>2. ShardsOK'
    <3>1. \A t \in Trees : t # active => queued'[t] = queued[t]
      BY <1>2 DEF TypeOK
    <3>2. \A t \in Trees : t < active => WasRead(t)
      BY <1>1 DEF ServersOK, WasRead
    <3>3. \A t \in Trees : t > active => t # active
      BY <1>1, TreeNumbers
    <3> QED
      <4>1. UNCHANGED <<tree, active, read>>
        BY <2>1 DEF operator
      <4>2. \A t \in Trees : t > active => tree[t] = << >> /\ queued'[t] = {}
        BY <3>1, <3>3 DEF ShardsOK
      <4>3. \A t, u \in Trees :
              t < u /\ (tree[u] # << >> \/ queued'[u] # {}) => WasRead(t)
        BY <3>1, <3>2 DEF ShardsOK
      <4>4. \A t \in Trees : WasRead(t)' <=> WasRead(t)
        BY <4>1 DEF WasRead
      <4> HIDE DEF QueueLeaf, IndInv
      <4>5. ShardsOK
        BY DEF IndInv
      <4> QED
        BY <4>1, <4>2, <4>3, <4>4, <4>5 DEF ShardsOK
  <2>3. RangesOK' /\ ServersOK'
    BY <2>1 DEF RangesOK, ServersOK, Settled, operator, server
  <2> QED
    BY <2>2, <2>3
<1>7. NoDuplicates'
  BY <1>1, <1>2 DEF NoDuplicates, Accepted, Holds, TypeOK
<1>8. OutputsOK'
  <2>0. Settled' <=> Settled
    BY DEF Settled, operator
  <2>1. \A t \in Trees : \A l : Accepted(t, l) => Accepted(t, l)'
    BY <1>1, <1>2 DEF Accepted, Holds, TypeOK
  <2>2. \A q \in Requests : resp'[q] = resp[q] \/ resp'[q] = ErrorAnswer
    BY DEF TypeOK
  <2>3. \A q \in Requests : \A id \in resp'[q].named : Accepted(id[1], id[2])'
    BY <2>1, <2>2 DEF OutputsOK, TypeOK, ErrorAnswer
  <2>4. \A q \in Requests : \A e \in resp'[q].entries : GoodEntry(e)'
    BY <2>0, <2>2 DEF OutputsOK, ErrorAnswer, GoodEntry, operator
  <2> QED
    BY <2>0, <2>3, <2>4 DEF OutputsOK, outputs, operator, GoodSet, Holds
<1> QED
  BY <1>5, <1>6, <1>7, <1>8

\* Root, the two outcomes of a poll, and the wait for a new root.
LEMMA WaitingInv ==
    ASSUME IndInv, NEW r \in Requests, Root(r) \/ Poll(r) \/ WaitForRootUpdate(r)
    PROVE  IndInv'
<1> USE DEF IndInv
<1>0. UNCHANGED <<trillian, operator, server, srv, leaf, resp, outputs>>
  BY DEF Root, Poll, WaitForRootUpdate
<1>1. /\ srv[r] \in Servers /\ cfg[srv[r]] = active /\ leaf[r] \in Leaves
      /\ active \in Trees /\ state[srv[r]] = "serving"
  BY InFlight DEF Root, Poll, WaitForRootUpdate
<1>2. Len(tree[active]) \in Nat /\ DOMAIN tree[active] = 1 .. Len(tree[active])
  BY <1>1 DEF TypeOK
<1>3. /\ pc' \in [Requests -> PC]
      /\ known' \in [Requests -> Nat]
      /\ size' \in [Requests -> Nat]
      /\ pos' \in [Requests -> Nat]
  <2>1. CASE Root(r)
    BY <2>1, <1>1, <1>2 DEF Root, Goto, TypeOK, PC
  <2>2. CASE Poll(r)
    <3>1. \A i \in DOMAIN tree[active] : i - 1 \in Nat
      BY <1>2
    <3>2. pos' \in [Requests -> Nat]
      <4>1. pos \in [Requests -> Nat]
        BY DEF TypeOK
      <4>2. UNCHANGED pos \/ \E i \in DOMAIN tree[active] : pos' = [pos EXCEPT ![r] = i - 1]
        BY <2>2, <1>1 DEF Poll
      <4> QED
        BY <3>1, <4>1, <4>2
    <3>3. size' \in [Requests -> Nat] /\ known' \in [Requests -> Nat]
      <4>1. size \in [Requests -> Nat] /\ known \in [Requests -> Nat]
        BY DEF TypeOK
      <4>2. UNCHANGED known /\ (UNCHANGED size \/ size' = [size EXCEPT ![r] = Len(tree[active])])
        BY <2>2, <1>1 DEF Poll
      <4> QED
        BY <1>2, <4>1, <4>2
    <3>4. pc' \in [Requests -> PC]
      BY <2>2 DEF Poll, Goto, TypeOK, PC
    <3> QED
      BY <3>2, <3>3, <3>4
  <2>3. CASE WaitForRootUpdate(r)
    BY <2>3, <1>1, <1>2 DEF WaitForRootUpdate, Goto, TypeOK, PC
  <2> QED
    BY <2>1, <2>2, <2>3
<1>4. TypeOK'
  BY <1>0, <1>3 DEF TypeOK, trillian, operator, server, outputs
<1>5. RequestsOK'
  <2>1. \A q \in Requests : q # r => pc'[q] = pc[q] /\ size'[q] = size[q] /\ pos'[q] = pos[q]
    BY DEF Root, Poll, WaitForRootUpdate, Goto, TypeOK
  <2>2. pc'[r] # "idle"
    BY DEF Root, Poll, WaitForRootUpdate, Goto, TypeOK
  <2>3. pc'[r] = "fetch" =>
            /\ pos'[r] < size'[r] /\ size'[r] <= Len(tree[active])
            /\ tree[active][pos'[r] + 1] = leaf[r]
    <3>1. CASE Root(r) \/ WaitForRootUpdate(r)
      BY <3>1 DEF Root, WaitForRootUpdate, Goto, TypeOK
    <3>2. CASE Poll(r) /\ pc'[r] = "fetch"
      <4>1. PICK i \in DOMAIN tree[active] :
              /\ tree[active][i] = leaf[r]
              /\ pos' = [pos EXCEPT ![r] = i - 1]
              /\ size' = [size EXCEPT ![r] = Len(tree[active])]
        BY <3>2, <1>1 DEF Poll, Goto, TypeOK
      <4>2. i \in 1 .. Len(tree[active]) /\ pos'[r] = i - 1 /\ size'[r] = Len(tree[active])
        BY <4>1, <1>2 DEF TypeOK
      <4> QED
        BY <4>1, <4>2, <1>2
    <3> QED
      BY <3>1, <3>2
  <2> QED
    BY <1>0, <1>1, <2>1, <2>2, <2>3 DEF RequestsOK, trillian, operator, server
<1>6. ServersOK'
  BY <1>0, SameTrees DEF ServersOK, trillian, operator, server
<1> QED
  BY <1>0, <1>4, <1>5, <1>6, SameTrees

\* The request ends without an entry: 500 or 409.
LEMMA FailureInv ==
    ASSUME IndInv, NEW r \in Requests, AddLeafFails(r) \/ SigningFails(r) \/ Conflict(r)
    PROVE  IndInv'
<1> USE DEF IndInv
<1>0. Return({r}) /\ UNCHANGED <<trillian, operator, server, signed, index>>
  BY DEF AddLeafFails, SigningFails, Conflict, outputs
<1>1. /\ srv[r] \in Servers /\ cfg[srv[r]] = active /\ leaf[r] \in Leaves
      /\ active \in Trees
  BY InFlight DEF AddLeafFails, SigningFails, Conflict
<1>2. RequestsOK' /\ /\ pc' \in [Requests -> PC]
           /\ srv' \in [Requests -> Servers \union {None}]
           /\ leaf' \in [Requests -> Leaves \union {None}]
           /\ known' \in [Requests -> Nat]
           /\ size' \in [Requests -> Nat]
           /\ pos' \in [Requests -> Nat]
  BY <1>0, ReturnInv DEF trillian, server
<1>3. ServersOK'
  BY <1>0, SameTrees DEF ServersOK, trillian, operator, server
<1>4. CASE AddLeafFails(r) \/ SigningFails(r)
  <2>1. resp' = [resp EXCEPT ![r] = ErrorAnswer]
    BY <1>4 DEF AddLeafFails, SigningFails
  <2>2. resp' \in [Requests -> [code : Codes, named : SUBSET (Trees \X Leaves),
                                entries : SUBSET Entries]]
    <3>1. ErrorAnswer \in [code : Codes, named : SUBSET (Trees \X Leaves), entries : SUBSET Entries]
      BY DEF ErrorAnswer, Codes
    <3> QED
      BY <2>1, <3>1 DEF TypeOK
  <2>3. /\ jobs' \in SUBSET [srv : Servers, tree : Trees, leaf : Leaves]
        /\ \A j \in jobs' : j \in jobs \/ Holds(j.tree, j.leaf)
    <3>1. CASE AddLeafFails(r)
      BY <3>1 DEF AddLeafFails, outputs, TypeOK
    <3>2. CASE SigningFails(r)
      <4>0. pc[r] = "fetch"
        BY <3>2 DEF SigningFails
      <4>1. pos[r] + 1 \in DOMAIN tree[active] /\ tree[active][pos[r] + 1] = leaf[r]
        BY <4>0, HeldProof
      <4>2. jobs' = jobs \union {[srv |-> srv[r], tree |-> active, leaf |-> leaf[r]]}
        BY <3>2, <1>1 DEF SigningFails, StartIndexing
      <4>3. [srv |-> srv[r], tree |-> active, leaf |-> leaf[r]]
              \in [srv : Servers, tree : Trees, leaf : Leaves]
        BY <1>1
      <4>4. Holds(active, leaf[r])
        BY <4>1 DEF Holds
      <4>5. jobs \in SUBSET [srv : Servers, tree : Trees, leaf : Leaves]
        BY DEF TypeOK
      <4> QED
        BY <4>2, <4>3, <4>4, <4>5
    <3> QED
      BY <1>4, <3>1, <3>2
  <2>4. TypeOK'
    BY <1>0, <1>2, <2>2, <2>3 DEF TypeOK, trillian, operator, server
  <2>5. OutputsOK'
    <3>1. \A q \in Requests : resp'[q] = resp[q] \/ resp'[q] = ErrorAnswer
      BY <2>1 DEF TypeOK
    <3> QED
      BY <3>1, <1>0, <2>3, EmptyAnswer
  <2> QED
    BY <1>0, <1>2, <1>3, <2>4, <2>5, SameTrees
<1>5. CASE Conflict(r)
  <2> DEFINE a == [code |-> "conflict", named |-> {<<active, leaf[r]>>}, entries |-> {}]
  <2>1. resp' = [resp EXCEPT ![r] = a] /\ Accepted(active, leaf[r]) /\ UNCHANGED jobs
    BY <1>1, <1>5 DEF Conflict, outputs
  <2>2. a \in [code : Codes, named : SUBSET (Trees \X Leaves), entries : SUBSET Entries]
    BY <1>1 DEF Codes
  <2>3. TypeOK'
    <3>1. resp' \in [Requests -> [code : Codes, named : SUBSET (Trees \X Leaves),
                                  entries : SUBSET Entries]]
      BY <2>1, <2>2 DEF TypeOK
    <3> QED
      BY <1>0, <1>2, <2>1, <3>1 DEF TypeOK, trillian, operator, server
  <2>4. OutputsOK'
    <3>1. \A q \in Requests : q # r => resp'[q] = resp[q]
      BY <2>1 DEF TypeOK
    <3>2. resp'[r].entries = {} /\ resp'[r].named = {<<active, leaf[r]>>}
      BY <2>1 DEF TypeOK
    <3>3. \A q \in Requests : \A id \in resp'[q].named : Accepted(id[1], id[2])
      BY <2>1, <3>1, <3>2 DEF OutputsOK
    <3>4. \A q \in Requests : \A e \in resp'[q].entries : GoodEntry(e)
      BY <3>1, <3>2 DEF OutputsOK
    <3> QED
      BY <1>0, <2>1, <3>3, <3>4, SameTrees
      DEF OutputsOK, Accepted, Holds, GoodEntry, GoodSet, trillian, operator
  <2> QED
    BY <1>0, <1>2, <1>3, <2>3, <2>4, SameTrees DEF outputs
<1> QED
  BY <1>4, <1>5

\* The shards of a serving server are trees up to the active one.
LEMMA ShardOfServer ==
    ASSUME IndInv, NEW s \in Servers, state[s] = "serving", NEW t \in 1 .. cfg[s]
    PROVE  cfg[s] = active /\ active \in Trees /\ t \in Trees /\ t \in Nat /\ t <= active
<1>1. cfg[s] = active /\ active \in Trees
  BY DEF IndInv, ServersOK, TypeOK
<1> QED
  BY <1>1 DEF Trees

\* Every entry a serving server builds from a leaf of one of its shards is good:
\* the virtual index it computes is the position in the virtual log, and the
\* checkpoint it attaches is that of the proof's root, a cached one as long as
\* its shard has not grown.
LEMMA EntryIsGood ==
    ASSUME IndInv, NEW s \in Servers, state[s] = "serving",
           NEW t \in 1 .. cfg[s], NEW i \in DOMAIN tree[t],
           NEW n \in Nat, i <= n, n <= Len(tree[t]), t < cfg[s] => n = Len(tree[t])
    PROVE  /\ EntryFromLeaf(s, t, i, n) \in Entries
           /\ GoodEntry(EntryFromLeaf(s, t, i, n))
<1> DEFINE e == EntryFromLeaf(s, t, i, n)
           c == IF t < cfg[s] THEN length[s][t] ELSE n
<1>1. cfg[s] = active /\ active \in Trees /\ t \in Trees /\ t \in Nat /\ t <= active
  BY ShardOfServer
<1>2. tree[t] \in Seq(Leaves)
  BY <1>1 DEF IndInv, TypeOK
<1>3. i \in Nat /\ i >= 1 /\ tree[t][i] \in Leaves
  BY <1>2
<1>4. base[s][t] \in Nat /\ (Settled => base[s][t] = first[t])
  <2>1. base[s] \in [Trees -> Nat]
    BY DEF IndInv, TypeOK
  <2> QED
    BY <1>1, <2>1 DEF IndInv, ServersOK
<1>5. c \in Nat /\ (t = active \/ Settled => c = n)
  <2>1. CASE t < cfg[s]
    <3>1. <<t, length[s][t]>> \in read /\ t # active
      BY <1>1, <2>1, TreeNumbers DEF IndInv, ServersOK
    <3>2. length[s][t] \in Nat
      BY <3>1 DEF IndInv, TypeOK
    <3>3. Settled => length[s][t] = Len(tree[t])
      BY <3>1 DEF Settled
    <3> QED
      BY <2>1, <3>1, <3>2, <3>3
  <2>2. CASE ~(t < cfg[s])
    BY <2>2
  <2> QED
    BY <2>1, <2>2
<1>6. e = [tree |-> t, leaf |-> tree[t][i], pos |-> i - 1,
           vindex |-> base[s][t] + (i - 1), size |-> n, cp |-> c]
  BY DEF EntryFromLeaf, VirtualLogIndex
<1> HIDE DEF c
<1>7. i - 1 \in Nat /\ base[s][t] + (i - 1) \in Nat /\ (i - 1) + 1 = i /\ i - 1 < n
  BY <1>3, <1>4
<1>8. e \in Entries
  BY <1>1, <1>3, <1>5, <1>6, <1>7 DEF Entries
<1>9. GoodEntry(e)
  BY <1>1, <1>4, <1>5, <1>6, <1>7 DEF GoodEntry
<1> QED
  BY <1>8, <1>9

\* An answer made of good entries keeps the outputs good.
LEMMA AnswerInv ==
    ASSUME IndInv, NEW r \in Requests, NEW code \in Codes, NEW E \in SUBSET Entries,
           \A e \in E : GoodEntry(e), Answer(r, code, E),
           UNCHANGED <<trillian, operator, index>>,
           \A j \in jobs' : j \in jobs \/ Holds(j.tree, j.leaf)
    PROVE  /\ OutputsOK'
           /\ resp' \in [Requests -> [code : Codes, named : SUBSET (Trees \X Leaves),
                                      entries : SUBSET Entries]]
           /\ signed' \in SUBSET (Nat \X Trees \X Leaves)
<1> DEFINE N == {<<e.tree, e.leaf>> : e \in E}
           a == [code |-> code, named |-> N, entries |-> E]
<1> USE DEF IndInv
<1>1. resp' = [resp EXCEPT ![r] = a] /\ signed' = signed \union SetsOf(E)
  BY DEF Answer
<1>2. N \in SUBSET (Trees \X Leaves) /\ SetsOf(E) \in SUBSET (Nat \X Trees \X Leaves)
  BY DEF Entries, SetsOf
<1>3. a \in [code : Codes, named : SUBSET (Trees \X Leaves), entries : SUBSET Entries]
  BY <1>2
<1>4. /\ resp' \in [Requests -> [code : Codes, named : SUBSET (Trees \X Leaves),
                                 entries : SUBSET Entries]]
      /\ signed' \in SUBSET (Nat \X Trees \X Leaves)
  BY <1>1, <1>2, <1>3 DEF TypeOK
<1>5. /\ \A q \in Requests : q # r => resp'[q] = resp[q]
      /\ resp'[r].entries = E /\ resp'[r].named = N
  BY <1>1 DEF TypeOK
<1>6. ASSUME NEW e \in E
      PROVE  /\ GoodSet(e.vindex, e.tree, e.leaf)
             /\ Holds(e.tree, e.leaf)
  <2>1. /\ e.tree \in Trees /\ e.pos \in Nat /\ e.size \in Nat
        /\ first[e.tree] \in Nat /\ tree[e.tree] \in Seq(Leaves)
        /\ Settled => e.vindex = first[e.tree] + e.pos
        /\ e.pos < e.size /\ e.size <= Len(tree[e.tree])
        /\ tree[e.tree][e.pos + 1] = e.leaf /\ e.tree <= active
    BY <1>6 DEF GoodEntry, Entries, TypeOK
  <2>2. e.pos + 1 \in DOMAIN tree[e.tree]
    BY <2>1
  <2>3. Settled => e.vindex = first[e.tree] + (e.pos + 1) - 1
    BY <2>1
  <2> QED
    BY <2>1, <2>2, <2>3 DEF GoodSet, Holds
<1>7. \A q \in Requests : \A e \in resp'[q].entries : GoodEntry(e)
  BY <1>5 DEF OutputsOK
<1>8. \A q \in Requests : \A id \in resp'[q].named : Accepted(id[1], id[2])
  BY <1>5, <1>6 DEF OutputsOK, Accepted
<1>9. \A x \in signed' : GoodSet(x[1], x[2], x[3])
  BY <1>1, <1>6 DEF OutputsOK, SetsOf
<1>10. OutputsOK'
  BY <1>7, <1>8, <1>9, SameTrees
  DEF OutputsOK, Accepted, Holds, GoodEntry, GoodSet, trillian, operator
<1> QED
  BY <1>4, <1>10

\* The answer 201.
LEMMA CreatedInv ==
    ASSUME IndInv, NEW r \in Requests, Created(r)
    PROVE  IndInv'
<1> DEFINE e == EntryFromLeaf(srv[r], active, pos[r] + 1, size[r])
<1>0. /\ pc[r] = "fetch" /\ Return({r})
      /\ UNCHANGED <<trillian, operator, server, index>>
  BY DEF Created
<1>1. /\ srv[r] \in Servers /\ cfg[srv[r]] = active /\ leaf[r] \in Leaves
      /\ active \in Trees /\ state[srv[r]] = "serving"
  BY <1>0, InFlight
<1>2. Answer(r, "created", {e}) /\ StartIndexing(r)
  BY <1>1 DEF Created
<1>3. /\ pos[r] \in Nat /\ size[r] \in Nat /\ pos[r] + 1 \in DOMAIN tree[active]
      /\ pos[r] + 1 <= size[r] /\ size[r] <= Len(tree[active])
      /\ tree[active][pos[r] + 1] = leaf[r]
  BY <1>0, HeldProof
<1>4. e \in Entries /\ GoodEntry(e)
  <2>1. active \in 1 .. cfg[srv[r]] /\ ~(active < cfg[srv[r]])
    BY <1>1, TreeNumbers
  <2> HIDE DEF e
  <2> QED
    BY <1>1, <1>3, <2>1, EntryIsGood DEF e
<1>5. /\ jobs' \in SUBSET [srv : Servers, tree : Trees, leaf : Leaves]
      /\ \A j \in jobs' : j \in jobs \/ Holds(j.tree, j.leaf)
  <2>1. [srv |-> srv[r], tree |-> active, leaf |-> leaf[r]]
              \in [srv : Servers, tree : Trees, leaf : Leaves]
    BY <1>1
  <2>2. Holds(active, leaf[r])
    BY <1>3 DEF Holds
  <2>3. jobs \in SUBSET [srv : Servers, tree : Trees, leaf : Leaves]
    BY DEF IndInv, TypeOK
  <2> QED
    BY <1>1, <1>2, <2>1, <2>2, <2>3 DEF StartIndexing
<1>6. /\ OutputsOK'
      /\ resp' \in [Requests -> [code : Codes, named : SUBSET (Trees \X Leaves),
                                 entries : SUBSET Entries]]
      /\ signed' \in SUBSET (Nat \X Trees \X Leaves)
  <2>1. {e} \in SUBSET Entries /\ \A x \in {e} : GoodEntry(x)
    BY <1>4
  <2>2. "created" \in Codes
    BY DEF Codes
  <2> HIDE DEF e
  <2> QED
    BY <1>0, <1>2, <1>5, <2>1, <2>2, AnswerInv
<1>7. RequestsOK' /\ /\ pc' \in [Requests -> PC]
           /\ srv' \in [Requests -> Servers \union {None}]
           /\ leaf' \in [Requests -> Leaves \union {None}]
           /\ known' \in [Requests -> Nat]
           /\ size' \in [Requests -> Nat]
           /\ pos' \in [Requests -> Nat]
  BY <1>0, ReturnInv DEF trillian, server
<1>8. TypeOK'
  BY <1>0, <1>5, <1>6, <1>7 DEF IndInv, TypeOK, trillian, operator, server
<1>9. ServersOK'
  BY <1>0, SameTrees DEF IndInv, ServersOK, trillian, operator, server
<1> QED
  BY <1>0, <1>6, <1>7, <1>8, <1>9, SameTrees DEF IndInv

\* A goroutine that writes the index, or fails to, writes an ID that is good.
LEMMA IndexJobInv ==
    ASSUME IndInv, NEW j \in jobs, IndexJob(j)
    PROVE  IndInv'
<1> USE DEF IndInv, IndexJob
<1>1. j.tree \in Trees /\ j.leaf \in Leaves /\ Holds(j.tree, j.leaf)
  BY DEF TypeOK, OutputsOK
<1>2. TypeOK'
  <2>1. jobs' \in SUBSET [srv : Servers, tree : Trees, leaf : Leaves]
    BY DEF TypeOK
  <2>2. index' \in SUBSET (Trees \X Leaves)
    <3>1. index \in SUBSET (Trees \X Leaves) /\ <<j.tree, j.leaf>> \in Trees \X Leaves
      BY <1>1 DEF TypeOK
    <3> QED
      BY <3>1
  <2> QED
    BY <2>1, <2>2 DEF TypeOK, trillian, operator, server, request
<1>3. ServersOK' /\ RequestsOK'
  BY SameTrees DEF ServersOK, RequestsOK, trillian, operator, server, request
<1>4. OutputsOK'
  BY <1>1, SameTrees
  DEF OutputsOK, trillian, operator, request, Holds, Accepted, GoodEntry, GoodSet
<1> QED
  BY <1>2, <1>3, <1>4, SameTrees

\* Reads answer with good entries only.
LEMMA ReplyInv ==
    ASSUME IndInv, NEW r \in Requests, NEW s \in Servers,
           NEW E \in SUBSET Entries, \A e \in E : GoodEntry(e), Reply(r, s, E)
    PROVE  IndInv'
<1> DEFINE code == IF E = {} THEN "notfound" ELSE "ok"
<1>0. /\ Answer(r, code, E)
      /\ UNCHANGED <<trillian, operator, server, pc, srv, leaf, known, size, pos, jobs, index>>
  BY DEF Reply
<1>1. code \in Codes
  BY DEF Codes
<1> HIDE DEF code
<1>2. /\ OutputsOK'
      /\ resp' \in [Requests -> [code : Codes, named : SUBSET (Trees \X Leaves),
                                 entries : SUBSET Entries]]
      /\ signed' \in SUBSET (Nat \X Trees \X Leaves)
  BY <1>0, <1>1, AnswerInv
<1>3. TypeOK'
  BY <1>0, <1>2 DEF IndInv, TypeOK, trillian, operator, server
<1>4. ServersOK' /\ RequestsOK'
  BY <1>0, SameTrees DEF IndInv, ServersOK, RequestsOK, trillian, operator, server
<1> QED
  BY <1>0, <1>2, <1>3, <1>4, SameTrees DEF IndInv

\* What a lookup by hash returns are good entries.
LEMMA FoundIsGood ==
    ASSUME IndInv, NEW s \in Servers, state[s] = "serving",
           NEW t \in 1 .. cfg[s], NEW l
    PROVE  /\ Found(s, t, l) \in SUBSET Entries
           /\ \A e \in Found(s, t, l) : GoodEntry(e)
<1>0. t \in Trees
  BY ShardOfServer
<1>1. tree[t] \in Seq(Leaves)
  BY <1>0 DEF IndInv, TypeOK
<1>2. \A i \in DOMAIN tree[t] : /\ EntryFromLeaf(s, t, i, Len(tree[t])) \in Entries
                                /\ GoodEntry(EntryFromLeaf(s, t, i, Len(tree[t])))
  BY <1>1, EntryIsGood
<1> QED
  BY <1>2 DEF Found

\* The read handlers answer with good entries or none.
LEMMA ReadInv ==
    ASSUME IndInv, NEW r \in Requests, NEW s \in Servers, ReadStep(r, s)
    PROVE  IndInv'
<1>0. state[s] = "serving"
  BY DEF ReadStep, GetByEntryID, GetByUUID, GetByIndex, SearchByHash, ReadFails, Reply
<1>1. ASSUME NEW t \in Trees, NEW l \in Leaves, GetByEntryID(r, s, t, l)
      PROVE  IndInv'
  BY <1>0, <1>1, FoundIsGood, ReplyInv DEF GetByEntryID
<1>2. ASSUME NEW T \in SUBSET (1 .. cfg[s]), NEW l \in Leaves,
             Reply(r, s, UNION {Found(s, t, l) : t \in T})
      PROVE  IndInv'
  BY <1>0, <1>2, FoundIsGood, ReplyInv
<1>3. ASSUME NEW l \in Leaves, GetByUUID(r, s, l) PROVE IndInv'
  <2> DEFINE hits == {t \in 1 .. cfg[s] : Holds(t, l)}
             hit == IF cfg[s] \in hits THEN {cfg[s]}
                    ELSE {t \in hits : \A u \in hits : t <= u}
  <2>1. Reply(r, s, UNION {Found(s, t, l) : t \in hit})
    BY <1>3 DEF GetByUUID
  <2>2. hit \in SUBSET (1 .. cfg[s])
    OBVIOUS
  <2> HIDE DEF hit
  <2> QED
    BY <1>2, <2>1, <2>2
<1>4. ASSUME NEW l \in Leaves, SearchByHash(r, s, l) PROVE IndInv'
  BY <1>2, <1>4 DEF SearchByHash
<1>5. ASSUME NEW v \in AskedIndices, GetByIndex(r, s, v) PROVE IndInv'
  <2>1. PICK t \in 1 .. cfg[s] :
            LET i == (v - base[s][t]) + 1
            IN  Reply(r, s, IF i \in DOMAIN tree[t]
                            THEN {EntryFromLeaf(s, t, i, Len(tree[t]))} ELSE {})
    BY <1>5 DEF GetByIndex
  <2> DEFINE i == (v - base[s][t]) + 1
  <2>2. CASE i \in DOMAIN tree[t]
    <3>0. t \in Trees
      BY <1>0, ShardOfServer
    <3>1. tree[t] \in Seq(Leaves)
      BY <3>0 DEF IndInv, TypeOK
    <3>2. /\ EntryFromLeaf(s, t, i, Len(tree[t])) \in Entries
          /\ GoodEntry(EntryFromLeaf(s, t, i, Len(tree[t])))
      BY <1>0, <2>2, <3>1, EntryIsGood
    <3>3. Reply(r, s, {EntryFromLeaf(s, t, i, Len(tree[t]))})
      BY <2>1, <2>2
    <3> QED
      BY <3>2, <3>3, ReplyInv
  <2>3. CASE i \notin DOMAIN tree[t]
    <3>1. Reply(r, s, {})
      BY <2>1, <2>3
    <3> QED
      BY <3>1, ReplyInv
  <2> QED
    BY <2>2, <2>3
<1>6. ASSUME ReadFails(r, s) PROVE IndInv'
  <2> USE <1>6 DEF IndInv, ReadFails
  <2>1. TypeOK'
    <3>1. ErrorAnswer \in [code : Codes, named : SUBSET (Trees \X Leaves), entries : SUBSET Entries]
      BY DEF ErrorAnswer, Codes
    <3> QED
      BY <3>1 DEF TypeOK, trillian, operator, server, outputs
  <2>2. ServersOK' /\ RequestsOK'
    BY SameTrees DEF ServersOK, RequestsOK, trillian, operator, server
  <2>3. OutputsOK'
    <3>1. \A q \in Requests : resp'[q] = resp[q] \/ resp'[q] = ErrorAnswer
      BY DEF TypeOK
    <3> QED
      BY <3>1, EmptyAnswer DEF outputs
  <2> QED
    BY <2>1, <2>2, <2>3, SameTrees
<1> QED
  BY <1>1, <1>3, <1>4, <1>5, <1>6 DEF ReadStep

\* The invariant is inductive, hence holds in every reachable state.
THEOREM Invariance == Spec => []IndInv
<1>1. ASSUME IndInv, [Next]_vars PROVE IndInv'
  <2>1. CASE UNCHANGED vars
    <3> USE <2>1 DEF vars, trillian, operator, server, request, outputs
    <3>1. TypeOK'
      BY <1>1 DEF IndInv, TypeOK
    <3>2. ServersOK' /\ RequestsOK'
      BY <1>1, SameTrees DEF IndInv, ServersOK, RequestsOK
    <3> QED
      BY <1>1, <3>1, <3>2, SameTrees DEF IndInv
  <2>2. ASSUME NEW r \in Requests, RequestStep(r) PROVE IndInv'
    BY <1>1, <2>2, QueueLeafInv, WaitingInv, FailureInv, CreatedInv
    DEF RequestStep, AddLeafStep
  <2>3. ASSUME Steps PROVE IndInv'
    BY <1>1, <2>2, <2>3, IntegrateInv, ServerInv, CreateLogEntryInv, IndexJobInv, ReadInv
    DEF Steps
  <2> QED
    BY <1>1, <2>1, <2>3, RotateInv DEF Next
<1> QED
  BY <1>1, InitInv, PTL DEF Spec

\* Every variable keeps its type.
THEOREM TypeCorrect == Spec => []TypeOK
  BY Invariance, PTL DEF IndInv

\* The search index, written after the fact by goroutines that crashes cut
\* short, never points at an entry that is not in its tree.
THEOREM SearchIndexSound == Spec => []IndexSound
<1>1. IndInv => IndexSound
  BY DEF IndInv, OutputsOK, IndexSound
<1> QED
  BY <1>1, Invariance, PTL

\* Entry IDs in answers, the one of a 409 included, name accepted leaves.
THEOREM NamesAreReal == Spec => []NamedEntriesExist
<1>1. IndInv => NamedEntriesExist
  BY DEF IndInv, OutputsOK, NamedEntriesExist
<1> QED
  BY <1>1, Invariance, PTL

\* Every entry in an answer carries a valid proof and the checkpoint of that
\* proof's root, also the cached one of an inactive shard that has not grown
\* since a server read it.
THEOREM AnswersVerify == Spec => []EntriesVerify
<1>1. IndInv => EntriesVerify
  BY DEF IndInv, OutputsOK, EntriesVerify, GoodEntry
<1> QED
  BY <1>1, Invariance, PTL

\* The virtual log is a function: two places of it with the same index are the
\* same place, and so are two places with the same tree and leaf.
LEMMA OnePlace ==
    ASSUME IndInv, Settled,
           NEW v, NEW w, NEW t \in Trees, NEW u \in Trees, NEW k, NEW l,
           GoodSet(v, t, k), GoodSet(w, u, l)
    PROVE  /\ v = w => t = u /\ k = l
           /\ t = u /\ k = l => v = w
<1>1. PICK i \in DOMAIN tree[t] : tree[t][i] = k /\ v = first[t] + i - 1
  BY DEF GoodSet
<1>2. PICK j \in DOMAIN tree[u] : tree[u][j] = l /\ w = first[u] + j - 1
  BY DEF GoodSet
<1>3. /\ i \in 1 .. Len(tree[t]) /\ j \in 1 .. Len(tree[u])
      /\ Len(tree[t]) \in Nat /\ Len(tree[u]) \in Nat
      /\ first[t] \in Nat /\ first[u] \in Nat /\ t \in Nat /\ u \in Nat
      /\ t <= active /\ u <= active
  <2>1. /\ tree[t] \in Seq(Leaves) /\ tree[u] \in Seq(Leaves)
        /\ first[t] \in Nat /\ first[u] \in Nat
    BY DEF IndInv, TypeOK
  <2>2. /\ DOMAIN tree[t] = 1 .. Len(tree[t]) /\ DOMAIN tree[u] = 1 .. Len(tree[u])
        /\ Len(tree[t]) \in Nat /\ Len(tree[u]) \in Nat
    BY <2>1
  <2>3. t \in Nat /\ u \in Nat
    BY TreeNumbers
  <2>4. t <= active /\ u <= active
    BY DEF GoodSet
  <2> QED
    BY <2>1, <2>2, <2>3, <2>4
<1> DEFINE m == Len(tree[t])
           n == Len(tree[u])
           f == first[t]
           g == first[u]
<1>10. /\ m \in Nat /\ n \in Nat /\ f \in Nat /\ g \in Nat
      /\ i \in Nat /\ 1 <= i /\ i <= m /\ j \in Nat /\ 1 <= j /\ j <= n
      /\ v = f + i - 1 /\ w = g + j - 1
  <2>1. m \in Nat /\ n \in Nat /\ f \in Nat /\ g \in Nat /\ i \in 1 .. m /\ j \in 1 .. n
    BY <1>3
  <2>2. v = f + i - 1 /\ w = g + j - 1
    BY <1>1, <1>2
  <2> HIDE DEF m, n, f, g
  <2> QED
    BY <2>1, <2>2
<1>4. t < u => v < w
  <2>1. t < u => f + m <= g
    BY <1>3 DEF IndInv, RangesOK
  <2> HIDE DEF m, n, f, g
  <2> QED
    BY <1>10, <2>1
<1>5. u < t => w < v
  <2>1. u < t => g + n <= f
    BY <1>3 DEF IndInv, RangesOK
  <2> HIDE DEF m, n, f, g
  <2> QED
    BY <1>10, <2>1
<1>6. v \in Int /\ w \in Int
  BY <1>10
<1>7. v = w => t = u
  BY <1>3, <1>4, <1>5, <1>6
<1>8. v = w => k = l
  BY <1>1, <1>2, <1>3, <1>7
<1>9. t = u /\ k = l => i = j
  BY <1>1, <1>2 DEF IndInv, NoDuplicates
<1> QED
  BY <1>1, <1>2, <1>7, <1>8, <1>9

\* No virtual index is given out twice, by any server, over any rotation.
THEOREM IndicesUnique == Spec => []VirtualIndexUnique
<1>1. IndInv => VirtualIndexUnique
  <2> SUFFICES ASSUME IndInv, Settled, NEW x \in signed, NEW y \in signed, x[1] = y[1]
               PROVE  x = y
    BY DEF VirtualIndexUnique
  <2>1. x \in Nat \X Trees \X Leaves /\ y \in Nat \X Trees \X Leaves
    BY DEF IndInv, TypeOK
  <2>2. GoodSet(x[1], x[2], x[3]) /\ GoodSet(y[1], y[2], y[3])
    BY DEF IndInv, OutputsOK
  <2>3. x[2] = y[2] /\ x[3] = y[3]
    BY <2>1, <2>2, OnePlace
  <2> QED
    BY <2>1, <2>3
<1> QED
  BY <1>1, Invariance, PTL

\* The virtual index of an entry never changes, so its SET never goes stale.
THEOREM SetsStable == Spec => []SetStable
<1>1. IndInv => SetStable
  <2> SUFFICES ASSUME IndInv, Settled, NEW x \in signed, NEW y \in signed,
                      x[2] = y[2], x[3] = y[3]
               PROVE  x = y
    BY DEF SetStable
  <2>1. x \in Nat \X Trees \X Leaves /\ y \in Nat \X Trees \X Leaves
    BY DEF IndInv, TypeOK
  <2>2. GoodSet(x[1], x[2], x[3]) /\ GoodSet(y[1], y[2], y[3])
    BY DEF IndInv, OutputsOK
  <2>3. x[1] = y[1]
    BY <2>1, <2>2, OnePlace
  <2> QED
    BY <2>1, <2>3
<1> QED
  BY <1>1, Invariance, PTL

\* Looking an entry up under the index its SET carries finds that entry.
THEOREM IndicesResolve == Spec => []SignedIndexResolves
<1>1. IndInv => SignedIndexResolves
  <2> SUFFICES ASSUME IndInv, Settled, NEW s \in Servers, NEW x \in signed,
                      state[s] = "serving"
               PROVE  /\ ResolvesTo(s, x[1], x[2])
                      /\ LET i == (x[1] - base[s][x[2]]) + 1
                         IN  i \in DOMAIN tree[x[2]] /\ tree[x[2]][i] = x[3]
    BY DEF SignedIndexResolves
  <2> DEFINE v == x[1]
             t == x[2]
  <2>1. t \in Trees /\ GoodSet(v, t, x[3])
    BY DEF IndInv, TypeOK, OutputsOK
  <2>2. /\ cfg[s] = active /\ active \in Trees /\ nxt[s] = active
        /\ \A u \in Trees : u <= active => base[s][u] = first[u]
        /\ \A u \in Trees : u < active => length[s][u] = Len(tree[u])
    <3>1. active \in Trees /\ nxt[s] = active /\ cfg[s] = active
      BY DEF IndInv, TypeOK, ServersOK
    <3>2. \A u \in Trees : u < active => length[s][u] = Len(tree[u])
      BY <3>1 DEF IndInv, ServersOK, Settled
    <3> QED
      BY <3>1, <3>2 DEF IndInv, ServersOK
  <2>3. PICK i \in DOMAIN tree[t] : tree[t][i] = x[3] /\ v = first[t] + i - 1
    BY <2>1 DEF GoodSet
  <2>4. /\ t \in Nat /\ t >= 1 /\ active \in Nat /\ t <= active
        /\ t \in 1 .. active
    BY <2>1, <2>2, TreeNumbers DEF GoodSet
  <2>5. /\ first[t] \in Nat /\ Len(tree[t]) \in Nat /\ i \in Nat
        /\ 1 <= i /\ i <= Len(tree[t])
    <3>1. first[t] \in Nat /\ tree[t] \in Seq(Leaves)
      BY <2>1 DEF IndInv, TypeOK
    <3> QED
      BY <3>1, <2>3
  <2>6. \A u \in 1 .. t-1 : v >= base[s][u] + length[s][u]
    <3> SUFFICES ASSUME NEW u \in 1 .. t-1 PROVE v >= base[s][u] + length[s][u]
      OBVIOUS
    <3>1. u \in Trees /\ u < t /\ u < active /\ u <= active
      BY <2>1, <2>4 DEF Trees
    <3>2. first[u] + Len(tree[u]) <= first[t]
      BY <3>1, <2>1, <2>4 DEF IndInv, RangesOK
    <3>3. first[u] \in Nat /\ Len(tree[u]) \in Nat
      BY <3>1 DEF IndInv, TypeOK
    <3>4. base[s][u] = first[u] /\ length[s][u] = Len(tree[u])
      BY <3>1, <2>2
    <3> QED
      BY <3>2, <3>3, <3>4, <2>3, <2>5
  <2>7. t = active \/ v < base[s][t] + length[s][t]
    <3> SUFFICES ASSUME t # active PROVE v < base[s][t] + length[s][t]
      OBVIOUS
    <3>1. base[s][t] = first[t] /\ length[s][t] = Len(tree[t])
      BY <2>1, <2>2, <2>4
    <3> QED
      BY <3>1, <2>3, <2>5
  <2>8. (v - base[s][t]) + 1 = i
    BY <2>1, <2>2, <2>3, <2>4, <2>5
  <2> QED
    BY <2>2, <2>3, <2>4, <2>6, <2>7, <2>8 DEF ResolvesTo
<1> QED
  BY <1>1, Invariance, PTL
-----------------------------------------------------------------------------
(* Refinement: RekorLog implements VirtualLog. *)

\* The entries of the virtual log, shard by shard.
LEMMA VirtualEntriesAre ==
    \A x : x \in VirtualEntries <=>
        \E t \in 1 .. active : \E i \in DOMAIN tree[t] :
            x = <<first[t] + i - 1, t, tree[t][i]>>
  BY DEF VirtualEntries

\* What is signed is in the virtual log.
LEMMA SignedInLog == ASSUME IndInv, Settled PROVE signed \subseteq VirtualEntries
<1> SUFFICES ASSUME NEW x \in signed PROVE x \in VirtualEntries
  OBVIOUS
<1>1. x \in Nat \X Trees \X Leaves /\ GoodSet(x[1], x[2], x[3])
  BY DEF IndInv, TypeOK, OutputsOK
<1>2. x[2] \in 1 .. active
  <2>1. x[2] \in Trees /\ x[2] <= active /\ active \in Trees
    BY <1>1 DEF GoodSet, IndInv, TypeOK
  <2> QED
    BY <2>1, TreeNumbers
<1>3. PICK i \in DOMAIN tree[x[2]] : tree[x[2]][i] = x[3] /\ x[1] = first[x[2]] + i - 1
  BY <1>1 DEF GoodSet
<1>4. x = <<first[x[2]] + i - 1, x[2], tree[x[2]][i]>>
  BY <1>1, <1>3
<1> QED
  BY <1>2, <1>4, VirtualEntriesAre

\* Only the sequencer and rotation touch the trees, and SETs are never revoked.
LEMMA OtherSteps ==
    ASSUME Steps, ~(\E t \in Trees : Integrate(t))
    PROVE  UNCHANGED <<tree, active, first>> /\ signed \subseteq signed'
<1>1. ASSUME NEW s \in Servers, ServerStep(s)
      PROVE  UNCHANGED <<tree, active, first, signed>>
  BY <1>1 DEF ServerStep, Start, InitShard, Serve, Crash, trillian, operator, outputs
<1>2. ASSUME NEW r \in Requests, NEW s \in Servers, NEW l \in Leaves, CreateLogEntry(r, s, l)
      PROVE  UNCHANGED <<tree, active, first, signed>>
  BY <1>2 DEF CreateLogEntry, trillian, operator, outputs
<1>3. ASSUME NEW r \in Requests, RequestStep(r)
      PROVE  UNCHANGED <<tree, active, first>> /\ signed \subseteq signed'
  <2>1. CASE Created(r)
    BY <2>1 DEF Created, Answer, trillian, operator
  <2>2. CASE ~Created(r)
    BY <1>3, <2>2 DEF RequestStep, AddLeafStep, QueueLeaf, Conflict, Root, Poll,
       WaitForRootUpdate, SigningFails, AddLeafFails, trillian, operator, outputs
  <2> QED
    BY <2>1, <2>2
<1>4. ASSUME NEW j \in jobs, IndexJob(j)
      PROVE  UNCHANGED <<tree, active, first, signed>>
  BY <1>4 DEF IndexJob, trillian, operator
<1>5. ASSUME NEW r, NEW s, NEW E, Reply(r, s, E)
      PROVE  UNCHANGED <<tree, active, first>> /\ signed \subseteq signed'
  BY <1>5 DEF Reply, Answer, trillian, operator
<1>6. ASSUME NEW r \in Requests, NEW s \in Servers, ReadStep(r, s)
      PROVE  UNCHANGED <<tree, active, first>> /\ signed \subseteq signed'
  <2>1. CASE ReadFails(r, s)
    BY <2>1 DEF ReadFails, trillian, operator, outputs
  <2>2. CASE \E E : Reply(r, s, E)
    BY <2>2, <1>5
  <2> QED
    BY <1>6, <2>1, <2>2 DEF ReadStep, GetByEntryID, GetByUUID, GetByIndex, SearchByHash
<1> QED
  BY <1>1, <1>2, <1>3, <1>4, <1>6 DEF Steps

\* An integrated leaf takes the next virtual index, also in a shard that has
\* become inactive, if nobody has read its length: every later tree is empty.
LEMMA IntegrateAppends ==
    ASSUME IndInv, NEW t \in Trees, Integrate(t), Settled'
    PROVE  Virtual!Next
<1>1. PICK l \in queued[t] :
         /\ tree' = [tree EXCEPT ![t] = Append(@, l)]
         /\ first' = [u \in Trees |-> IF t < u THEN first[u] + 1 ELSE first[u]]
         /\ UNCHANGED <<active, read, signed>>
  BY DEF Integrate, outputs
<1>2. /\ l \in Leaves /\ active \in Trees /\ active \in Nat /\ t \in Nat
      /\ t <= active /\ t \in 1 .. active
  <2>1. l \in Leaves /\ active \in Trees /\ ~(t > active)
    BY DEF IndInv, ShardsOK, TypeOK
  <2> QED
    BY <2>1, TreeNumbers
<1>3. /\ tree[t] \in Seq(Leaves) /\ first[t] \in Nat
      /\ tree'[t] = Append(tree[t], l)
      /\ \A u \in Trees : u # t => tree'[u] = tree[u]
  BY <1>1 DEF IndInv, TypeOK
<1> DEFINE n == Len(tree[t])
           end == first[active] + Len(tree[active])
<1>4. /\ n \in Nat /\ Len(tree'[t]) = n + 1
      /\ DOMAIN tree[t] = 1 .. n /\ DOMAIN tree'[t] = 1 .. n + 1
      /\ tree'[t][n + 1] = l /\ \A i \in 1 .. n : tree'[t][i] = tree[t][i]
  BY <1>3
<1>5. ~WasRead(t)
  <2> SUFFICES ASSUME NEW x \in read, x[1] = t PROVE FALSE
    BY DEF WasRead
  <2>1. x[2] <= n /\ x[2] \in Nat
    BY DEF IndInv, ShardsOK, TypeOK
  <2>2. x[2] = n + 1
    BY <1>1, <1>4 DEF Settled
  <2> QED
    BY <1>4, <2>1, <2>2
<1>6. \A u \in Trees : t < u => tree[u] = << >> /\ tree'[u] = << >>
  BY <1>2, <1>3, <1>5, TreeNumbers DEF IndInv, ShardsOK
<1>7. /\ \A u \in Trees : u <= t => first'[u] = first[u]
      /\ \A u \in Trees : u > t => first'[u] = first[u] + 1
      /\ \A u \in Trees : u \in Nat /\ first[u] \in Nat
  BY <1>1, <1>2, TreeNumbers DEF IndInv, TypeOK
<1>8. /\ end = first[t] + n
      /\ end' = end + 1
  <2>1. CASE t = active
    <3>1. end = first[t] + n /\ first'[active] = first[t] /\ Len(tree'[active]) = n + 1
      BY <2>1, <1>2, <1>4, <1>7
    <3>2. end' = first'[active] + Len(tree'[active])
      BY <1>1
    <3> QED
      BY <3>1, <3>2, <1>3, <1>4
  <2>2. CASE t < active
    <3>1. tree[active] = << >> /\ tree'[active] = << >>
      BY <2>2, <1>2, <1>6
    <3>2. first[t] + n <= first[active] /\ first'[active] = first[active] + 1 /\ first[active] \in Nat
      BY <2>2, <1>2, <1>7 DEF IndInv, RangesOK
    <3>3. first[active] = first[t] + n
      BY <2>2, <1>2, <1>6 DEF IndInv, RangesOK
    <3>4. end' = first'[active] + Len(tree'[active])
      BY <1>1
    <3> QED
      BY <3>1, <3>2, <3>3, <3>4
  <2> QED
    BY <2>1, <2>2, <1>2
<1>9. VirtualEntries' = VirtualEntries \union {<<end, t, l>>}
  <2>1. \A u \in 1 .. active : u \in Trees
    BY <1>2 DEF Trees
  <2>2. ASSUME NEW x \in VirtualEntries'
        PROVE  x \in VirtualEntries \union {<<end, t, l>>}
    <3>1. PICK u \in 1 .. active : \E i \in DOMAIN tree'[u] :
             x = <<first'[u] + i - 1, u, tree'[u][i]>>
      BY <1>1, <2>2 DEF VirtualEntries
    <3>2. PICK i \in DOMAIN tree'[u] : x = <<first'[u] + i - 1, u, tree'[u][i]>>
      BY <3>1
    <3>3. u \in Trees /\ u <= t /\ first'[u] = first[u]
      <4>1. ~(t < u)
        BY <1>6, <2>1, <3>2
      <4> QED
        BY <4>1, <1>2, <1>7, <2>1
    <3>4. CASE u = t /\ i = n + 1
      <4>1. first[t] + (n + 1) - 1 = first[t] + n
        BY <1>3, <1>4
      <4> QED
        BY <1>4, <1>8, <3>2, <3>3, <3>4, <4>1
    <3>5. CASE ~(u = t /\ i = n + 1)
      <4>1. i \in DOMAIN tree[u] /\ tree'[u][i] = tree[u][i]
        <5>1. CASE u # t
          BY <5>1, <1>3, <2>1
        <5>2. CASE u = t
          <6>1. i \in 1 .. n + 1 /\ i # n + 1
            BY <5>2, <1>4, <3>5
          <6>2. i \in 1 .. n
            BY <6>1, <1>4
          <6> QED
            BY <5>2, <6>2, <1>4
        <5> QED
          BY <5>1, <5>2
      <4> QED
        BY <3>2, <3>3, <4>1, VirtualEntriesAre
    <3> QED
      BY <3>4, <3>5
  <2>3. ASSUME NEW x \in VirtualEntries PROVE x \in VirtualEntries'
    <3>0. PICK u \in 1 .. active : \E i \in DOMAIN tree[u] :
             x = <<first[u] + i - 1, u, tree[u][i]>>
      BY <2>3, VirtualEntriesAre
    <3>1. PICK i \in DOMAIN tree[u] : x = <<first[u] + i - 1, u, tree[u][i]>>
      BY <3>0
    <3>2. i \in DOMAIN tree'[u] /\ tree'[u][i] = tree[u][i]
      <4>1. CASE u # t
        BY <1>3, <2>1, <4>1
      <4>2. CASE u = t
        <5>1. i \in 1 .. n
          BY <1>4, <3>1, <4>2
        <5>2. i \in 1 .. n + 1
          BY <1>4, <5>1
        <5> HIDE DEF n
        <5> QED
          BY <1>4, <4>2, <5>1, <5>2
      <4> QED
        BY <4>1, <4>2
    <3>3. first'[u] = first[u]
      <4>1. ~(t < u)
        BY <1>6, <2>1, <3>1
      <4> QED
        BY <4>1, <1>2, <1>7, <2>1
    <3> QED
      BY <1>1, <3>1, <3>2, <3>3 DEF VirtualEntries
  <2>4. <<end, t, l>> \in VirtualEntries'
    <3>1. n + 1 \in DOMAIN tree'[t] /\ first'[t] = first[t]
      BY <1>2, <1>4, <1>7
    <3>2. first[t] + (n + 1) - 1 = first[t] + n
      BY <1>3, <1>4
    <3>3. <<end, t, l>> = <<first'[t] + (n + 1) - 1, t, tree'[t][n + 1]>>
      BY <1>4, <1>8, <3>1, <3>2
    <3>4. \E u \in 1 .. active' : \E i \in DOMAIN tree'[u] :
             <<end, t, l>> = <<first'[u] + i - 1, u, tree'[u][i]>>
      BY <1>1, <1>2, <3>1, <3>3
    <3> HIDE DEF end
    <3> QED
      BY <3>4 DEF VirtualEntries
  <2> QED
    BY <2>2, <2>3, <2>4
<1>10. Virtual!Append(t, l)
  BY <1>1, <1>8, <1>9 DEF Virtual!Append
<1> QED
  BY <1>2, <1>10 DEF Virtual!Next

\* Rotation is invisible.
LEMMA RotateStutters ==
    ASSUME IndInv, Rotate
    PROVE  UNCHANGED Virtual!vars
<1> USE DEF Rotate
<1>1. /\ active \in Trees /\ active + 1 \in Trees /\ active \in Nat /\ active < MaxShards
      /\ UNCHANGED <<tree, first, signed>> /\ active' = active + 1
  <2>1. active \in Trees
    BY DEF IndInv, TypeOK
  <2> QED
    BY <2>1 DEF Trees, trillian, outputs
<1>2. first[active + 1] = first[active] + Len(tree[active])
  BY <1>1, NextRange DEF IndInv
<1>3. tree[active + 1] = << >> /\ first[active + 1] \in Nat
  BY <1>1 DEF IndInv, ShardsOK, TypeOK
<1>4. (first[active] + Len(tree[active]))' = first[active] + Len(tree[active])
  BY <1>1, <1>2, <1>3
<1>5. VirtualEntries' = VirtualEntries
  <2>1. \A t \in 1 .. active : t \in 1 .. active + 1 /\ first'[t] = first[t]
    BY <1>1, <1>2 DEF Trees
  <2>2. \A t \in 1 .. active + 1 : t \in 1 .. active \/ DOMAIN tree[t] = {}
    BY <1>1, <1>3
  <2>3. ASSUME NEW x \in VirtualEntries' PROVE x \in VirtualEntries
    <3>1. PICK t \in 1 .. active + 1 : \E i \in DOMAIN tree[t] :
             x = <<first'[t] + i - 1, t, tree[t][i]>>
      BY <1>1, <2>3 DEF VirtualEntries
    <3>2. t \in 1 .. active /\ first'[t] = first[t]
      BY <2>1, <2>2, <3>1
    <3> QED
      BY <3>1, <3>2, VirtualEntriesAre
  <2>4. ASSUME NEW x \in VirtualEntries PROVE x \in VirtualEntries'
    <3>1. PICK t \in 1 .. active : \E i \in DOMAIN tree[t] :
             x = <<first[t] + i - 1, t, tree[t][i]>>
      BY <2>4, VirtualEntriesAre
    <3> QED
      BY <1>1, <2>1, <3>1 DEF VirtualEntries
  <2> QED
    BY <2>3, <2>4
<1> QED
  BY <1>1, <1>4, <1>5 DEF Virtual!vars

\* Behind any number of shards and servers there is one append-only log, up to
\* the step by which a shard grows whose length has been read.
THEOREM Refinement == Spec => VirtualLogSpec
<1> DEFINE P == Settled => signed \subseteq VirtualEntries
<1>1. Init => Virtual!Init
  <2> SUFFICES ASSUME Init PROVE Virtual!Init
    OBVIOUS
  <2>1. active = 1 /\ 1 \in Trees /\ tree[1] = << >> /\ first[1] = 0 /\ signed = {}
    BY TreeNumbers DEF Init
  <2>2. VirtualEntries = {}
    BY <2>1 DEF VirtualEntries
  <2> QED
    BY <2>1, <2>2 DEF Virtual!Init
<1>2. ASSUME IndInv, P', [Next]_vars
      PROVE  [Settled' => Virtual!Next]_(Virtual!vars)
  <2>1. CASE UNCHANGED vars
    BY <2>1 DEF vars, trillian, operator, outputs, Virtual!vars, VirtualEntries
  <2>2. CASE Rotate
    BY <1>2, <2>2, RotateStutters
  <2>3. CASE \E t \in Trees : Integrate(t)
    BY <1>2, <2>3, IntegrateAppends
  <2>4. CASE Steps /\ ~(\E t \in Trees : Integrate(t))
    <3> SUFFICES ASSUME Settled' PROVE Virtual!Next
      OBVIOUS
    <3>1. UNCHANGED <<tree, active, first>> /\ signed \subseteq signed'
      BY <2>4, OtherSteps
    <3>2. VirtualEntries' = VirtualEntries
      BY <3>1 DEF VirtualEntries
    <3>3. signed' \in SUBSET VirtualEntries
      BY <1>2, <3>2
    <3>4. signed' = signed \union signed'
      BY <3>1
    <3> QED
      BY <3>1, <3>2, <3>3, <3>4 DEF Virtual!Next, Virtual!Sign
  <2> QED
    BY <1>2, <2>1, <2>2, <2>3, <2>4 DEF Next
<1>3. IndInv => P
  BY SignedInLog
<1> QED
  BY <1>1, <1>2, <1>3, Invariance, PTL DEF Spec, VirtualLogSpec
=============================================================================
