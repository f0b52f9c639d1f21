--------------------------- MODULE ShardingProofs ---------------------------
(***************************************************************************)
(* The virtual log for any number of shards of any length.                 *)
(***************************************************************************)
EXTENDS Sharding, SequenceTheorems, WellFoundedInduction, TLAPS

-----------------------------------------------------------------------------
(* Induction, by the least element of a set of naturals *)

\* Every set of naturals that is not empty has a least element.
LEMMA Least ==
    ASSUME NEW T, T \subseteq Nat, T # {}
    PROVE  \E x \in T : \A y \in T : x <= y
<1>1. PICK x \in T : \A y \in T : ~(<<y, x>> \in OpToRel(<, Nat))
    BY NatLessThanWellFounded, WFMin
<1>2. \A y \in T : ~(y < x)
    BY <1>1 DEF OpToRel
<1> QED
    BY <1>2

\* Min is that element.
LEMMA MinIsLeast ==
    ASSUME NEW T, T \subseteq Nat, T # {}
    PROVE  Min(T) \in T /\ \A y \in T : Min(T) <= y
BY Least DEF Min

\* The shape that the inductions below have.
LEMMA Induction ==
    ASSUME NEW n \in Nat, NEW T, T \subseteq 0 .. n, 0 \in T,
           \A i \in 1 .. n : i - 1 \in T => i \in T
    PROVE  T = 0 .. n
<1> DEFINE Left == (0 .. n) \ T
<1>1. SUFFICES ASSUME Left # {} PROVE FALSE
    OBVIOUS
<1>2. PICK m \in Left : \A y \in Left : m <= y
    <2>1. Left \subseteq Nat
        OBVIOUS
    <2> HIDE DEF Left
    <2> QED
        BY <1>1, <2>1, Least
<1>3. m \in 1 .. n /\ m - 1 \in 0 .. n /\ m - 1 < m
    BY <1>2
<1>4. m - 1 \in T
    BY <1>2, <1>3
<1> QED
    BY <1>2, <1>3, <1>4

\* Some function starts with base and goes on by step.
Defines(n, S, base, step) ==
    \E f \in [0 .. n -> S] : f[0] = base /\ \A i \in 1 .. n : f[i] = step[i][f[i - 1]]

\* A recursive definition over 0 .. n that always has a value defines a function.
LEMMA Recursion ==
    ASSUME NEW n \in Nat, NEW S, NEW base \in S, NEW step \in [1 .. n -> [S -> S]]
    PROVE  Defines(n, S, base, step)
<1> DEFINE Runs(f, m) == f[0] = base /\ \A i \in 1 .. m : f[i] = step[i][f[i - 1]]
           T == {m \in 0 .. n : \E f \in [0 .. m -> S] : Runs(f, m)}
<1>2. 0 \in T
    <2>1. [i \in 0 .. 0 |-> base] \in [0 .. 0 -> S] /\ Runs([i \in 0 .. 0 |-> base], 0)
        OBVIOUS
    <2>2. 0 \in 0 .. n
        OBVIOUS
    <2> HIDE DEF Runs
    <2> QED
        BY <2>1, <2>2
<1>3. ASSUME NEW i \in 1 .. n, i - 1 \in T PROVE i \in T
    <2>0. i \in 0 .. n /\ i - 1 \in 0 .. n /\ i \in Nat /\ i # 0 /\ i - 1 \in 0 .. i - 1 /\ i - 1 # i
        BY <1>3
    <2>1. PICK f \in [0 .. i - 1 -> S] : Runs(f, i - 1)
        BY <1>3
    <2> DEFINE g == [j \in 0 .. i |-> IF j = i THEN step[i][f[i - 1]] ELSE f[j]]
    <2>2. f[i - 1] \in S /\ step[i] \in [S -> S] /\ step[i][f[i - 1]] \in S
        BY <1>3, <2>0
    <2>3. g \in [0 .. i -> S]
        BY <2>0, <2>2
    <2>4. ASSUME NEW j \in 1 .. i PROVE g[j] = step[j][g[j - 1]]
        <3>1. CASE j = i
            BY <2>0, <3>1
        <3>2. CASE j # i
            <4>1. j \in 1 .. i - 1 /\ j \in 0 .. i /\ j - 1 \in 0 .. i /\ j - 1 # i
                BY <2>0, <2>4, <3>2
            <4> QED
                BY <2>1, <3>2, <4>1
        <3> QED
            BY <3>1, <3>2
    <2>5. g[0] = base
        BY <2>0, <2>1
    <2>6. Runs(g, i)
        BY <2>4, <2>5
    <2> HIDE DEF g, Runs
    <2>7. \E h \in [0 .. i -> S] : Runs(h, i)
        BY <2>3, <2>6
    <2> QED
        BY <2>0, <2>7
<1>4. n \in T
    <2>1. T \subseteq 0 .. n
        OBVIOUS
    <2> HIDE DEF T
    <2>2. T = 0 .. n
        BY <1>2, <1>3, <2>1, Induction
    <2> QED
        BY <2>2
<1> QED
    BY <1>4 DEF Defines

-----------------------------------------------------------------------------
(* Sequences *)

\* Two sequences one after the other, with places counted from 1 and from 0.
Joins(s, t) ==
    /\ Len(s) \in Nat /\ Len(t) \in Nat
    /\ Len(s \o t) = Len(s) + Len(t)
    /\ \A i \in 1 .. Len(s) : (s \o t)[i] = s[i]
    /\ \A i \in 1 .. Len(t) : (s \o t)[Len(s) + i] = t[i]
    /\ \A v \in Nat : v < Len(s) => (s \o t)[v + 1] = s[v + 1]
    /\ \A v \in Nat : Len(s) <= v /\ v < Len(s) + Len(t) =>
           (s \o t)[v + 1] = t[(v - Len(s)) + 1]

\* The concatenation of sequences over a set.
LEMMA Joining ==
    ASSUME NEW S, NEW s \in Seq(S), NEW t \in Seq(S)
    PROVE  Joins(s, t) /\ s \o t \in Seq(S)
BY DEF Joins

-----------------------------------------------------------------------------
(* The running sum of the loops over the inactive shards *)

\* The inactive shards are a sequence, with lengths.
HasLengths == Len(inactive) \in Nat /\ \A i \in 1 .. Len(inactive) : inactive[i].TreeLength \in Nat

\* The running sum is what the loops compute.
LEMMA BeforeDef ==
    ASSUME HasLengths
    PROVE  /\ Before \in [0 .. Len(inactive) -> Nat]
           /\ Before[0] = 0
           /\ \A i \in 1 .. Len(inactive) : Before[i] = Before[i - 1] + inactive[i].TreeLength
<1> DEFINE n == Len(inactive)
           step == [i \in 1 .. n |-> [x \in Nat |-> x + inactive[i].TreeLength]]
<1>1. n \in Nat /\ \A i \in 1 .. n : inactive[i].TreeLength \in Nat
    BY DEF HasLengths
<1> HIDE DEF n
<1>2. step \in [1 .. n -> [Nat -> Nat]]
    BY <1>1
<1>3. PICK f \in [0 .. n -> Nat] : f[0] = 0 /\ \A i \in 1 .. n : f[i] = step[i][f[i - 1]]
    <2> DEFINE S == Nat
               zero == 0
    <2>1. step \in [1 .. n -> [S -> S]] /\ zero \in S
        BY <1>2
    <2> HIDE DEF step, S, zero
    <2>2. Defines(n, S, zero, step)
        BY <1>1, <2>1, Recursion
    <2> QED
        BY <2>2 DEF S, zero, Defines
<1>4. \A i \in 0 .. n : i # 0 => i \in 1 .. n /\ i - 1 \in 0 .. n
    BY <1>1
<1>5. f = [i \in 0 .. n |-> IF i = 0 THEN 0 ELSE f[i - 1] + inactive[i].TreeLength]
    BY <1>3, <1>4
<1>6. Before = [i \in 0 .. n |-> IF i = 0 THEN 0 ELSE Before[i - 1] + inactive[i].TreeLength]
    BY <1>5 DEF Before, n
<1>7. Before[0] = 0 /\ \A i \in 1 .. n : Before[i] = Before[i - 1] + inactive[i].TreeLength
    BY <1>1, <1>6
<1>8. Before \in [0 .. n -> Nat]
    <2> DEFINE U == {m \in 0 .. n : Before[m] \in Nat}
    <2>1. U \subseteq 0 .. n /\ 0 \in U
        BY <1>1, <1>7
    <2>2. ASSUME NEW i \in 1 .. n, i - 1 \in U PROVE i \in U
        <3>1. Before[i - 1] \in Nat /\ inactive[i].TreeLength \in Nat /\ i \in 0 .. n
            BY <1>1, <2>2
        <3>2. Before[i] = Before[i - 1] + inactive[i].TreeLength
            BY <1>7
        <3>3. Before[i] \in Nat
            BY <3>1, <3>2
        <3> QED
            BY <3>1, <3>3
    <2> HIDE DEF U
    <2>3. U = 0 .. n
        BY <1>1, <2>1, <2>2, Induction
    <2>4. \A m \in 0 .. n : Before[m] \in Nat
        BY <2>3 DEF U
    <2> QED
        BY <1>6, <2>4
<1> QED
    BY <1>7, <1>8 DEF n

\* The parts of the shards follow each other.
LEMMA BeforeMonotone ==
    ASSUME HasLengths, NEW j \in 0 .. Len(inactive), NEW i \in 0 .. j
    PROVE  Before[i] <= Before[j]
<1> DEFINE n == Len(inactive)
           T == {m \in 0 .. n : \A k \in 0 .. m : Before[k] <= Before[m]}
<1>1. n \in Nat /\ \A m \in 1 .. n : inactive[m].TreeLength \in Nat
    BY DEF HasLengths
<1>2. /\ Before \in [0 .. n -> Nat]
      /\ \A m \in 1 .. n : Before[m] = Before[m - 1] + inactive[m].TreeLength
    BY BeforeDef
<1> HIDE DEF n
<1>3. T \subseteq 0 .. n /\ 0 \in T
    <2>1. Before[0] <= Before[0] /\ 0 \in 0 .. n
        BY <1>1, <1>2
    <2>2. \A k \in 0 .. 0 : k = 0
        OBVIOUS
    <2> QED
        BY <2>1, <2>2
<1>4. ASSUME NEW m \in 1 .. n, m - 1 \in T PROVE m \in T
    <2>1. m \in 0 .. n /\ m - 1 \in 0 .. n
        BY <1>1, <1>4
    <2>2. Before[m - 1] <= Before[m]
        <3>1. Before[m - 1] \in Nat /\ inactive[m].TreeLength \in Nat
            BY <1>1, <1>2, <2>1
        <3>2. Before[m] = Before[m - 1] + inactive[m].TreeLength
            BY <1>2
        <3> QED
            BY <3>1, <3>2
    <2>3. ASSUME NEW k \in 0 .. m PROVE Before[k] <= Before[m]
        <3>1. CASE k = m
            BY <1>2, <2>1, <3>1
        <3>2. CASE k # m
            <4>1. k \in 0 .. m - 1 /\ k \in 0 .. n
                BY <1>1, <2>1, <2>3, <3>2
            <4>2. Before[k] <= Before[m - 1]
                BY <1>4, <4>1
            <4>3. Before[k] \in Nat /\ Before[m] \in Nat /\ Before[m - 1] \in Nat
                BY <1>2, <2>1, <4>1
            <4> QED
                BY <2>2, <4>2, <4>3
        <3> QED
            BY <3>1, <3>2
    <2> QED
        BY <2>1, <2>3
<1> HIDE DEF T
<1>5. T = 0 .. n
    BY <1>1, <1>3, <1>4, Induction
<1>6. j \in T
    BY <1>5 DEF n
<1> QED
    BY <1>6 DEF T

-----------------------------------------------------------------------------
(* The two loops *)

\* What a configuration is: shards that differ, known to Trillian, each inactive one
\* with the length of its tree.
Config ==
    /\ leaves \in [TreeIDs -> Seq(UUIDs)]
    /\ Len(inactive) \in Nat /\ DOMAIN inactive = 1 .. Len(inactive)
    /\ active.TreeID \in TreeIDs
    /\ \A i \in 1 .. Len(inactive) :
           /\ inactive[i].TreeID \in TreeIDs
           /\ inactive[i].TreeID # active.TreeID
           /\ inactive[i].TreeLength = Len(leaves[inactive[i].TreeID])
    /\ \A i, j \in 1 .. Len(inactive) : inactive[i].TreeID = inactive[j].TreeID => i = j

\* A configuration has lengths.
LEMMA ConfigLengths == Config => HasLengths
BY DEF Config, HasLengths

\* The shard of a tree is found by its tree ID, which no other shard has.
LEMMA InactiveShardFound ==
    ASSUME Config
    PROVE  /\ \A i \in 1 .. Len(inactive) : InactiveShard(inactive[i].TreeID) = i
           /\ \A t : InactiveShard(t) # 0 =>
                 InactiveShard(t) \in 1 .. Len(inactive) /\ inactive[InactiveShard(t)].TreeID = t
           /\ InactiveShard(active.TreeID) = 0
<1> DEFINE I(t) == {i \in 1 .. Len(inactive) : inactive[i].TreeID = t}
<1>1. \A t : InactiveShard(t) = IF I(t) # {} THEN Min(I(t)) ELSE 0
    BY DEF InactiveShard, SelectInSeq
<1>2. \A t : I(t) \subseteq Nat /\ (I(t) # {} => Min(I(t)) \in I(t))
    <2>1. \A t : I(t) \subseteq Nat
        BY DEF Config
    <2> HIDE DEF I
    <2> QED
        BY <2>1, MinIsLeast
<1>3. \A i \in 1 .. Len(inactive) : \A j \in I(inactive[i].TreeID) : j = i
    BY DEF Config
<1>4. \A i \in 1 .. Len(inactive) : i \in I(inactive[i].TreeID)
    OBVIOUS
<1>5. I(active.TreeID) = {}
    BY DEF Config
<1>6. \A t : \A j \in I(t) : j \in 1 .. Len(inactive) /\ inactive[j].TreeID = t /\ j # 0
    BY DEF Config
<1> HIDE DEF I
<1> QED
    BY <1>1, <1>2, <1>3, <1>4, <1>5, <1>6

\* VirtualLogIndex for the shards of the configuration.
LEMMA VirtualIndexOf ==
    ASSUME Config, NEW k \in Nat
    PROVE  /\ \A i \in 1 .. Len(inactive) :
                  VirtualLogIndex(k, inactive[i].TreeID) = Before[i - 1] + k
           /\ VirtualLogIndex(k, active.TreeID) = Before[Len(inactive)] + k
<1>1. \A i \in 1 .. Len(inactive) : i # 0
    BY DEF Config
<1>2. \A i \in 1 .. Len(inactive) : VirtualLogIndex(k, inactive[i].TreeID) = Before[i - 1] + k
    BY <1>1, InactiveShardFound DEF VirtualLogIndex
<1>3. VirtualLogIndex(k, active.TreeID) = Before[Len(inactive)] + k
    BY InactiveShardFound DEF VirtualLogIndex, TotalInactiveLength
<1> QED
    BY <1>2, <1>3

\* ResolveVirtualIndex finds the shard whose part of the virtual log the index is in.
LEMMA Resolved ==
    ASSUME Config, NEW v \in Nat
    PROVE  \/ \E i \in 1 .. Len(inactive) :
                 /\ Before[i - 1] <= v /\ v < Before[i]
                 /\ ResolveVirtualIndex(v) = <<inactive[i].TreeID, v - Before[i - 1]>>
           \/ /\ Before[Len(inactive)] <= v
              /\ ResolveVirtualIndex(v) = <<active.TreeID, v - Before[Len(inactive)]>>
<1> DEFINE n == Len(inactive)
           hits == {i \in DOMAIN inactive : v - Before[i - 1] < inactive[i].TreeLength}
<1>1. /\ n \in Nat /\ DOMAIN inactive = 1 .. n
      /\ \A i \in 1 .. n : inactive[i].TreeLength \in Nat
    BY ConfigLengths DEF Config, HasLengths
<1>2. /\ Before \in [0 .. n -> Nat] /\ Before[0] = 0
      /\ \A i \in 1 .. n : Before[i] = Before[i - 1] + inactive[i].TreeLength
    BY BeforeDef, ConfigLengths
<1>3. ResolveVirtualIndex(v) = IF hits = {} THEN <<active.TreeID, v - Before[n]>>
                               ELSE <<inactive[Min(hits)].TreeID, v - Before[Min(hits) - 1]>>
    BY DEF ResolveVirtualIndex, TotalInactiveLength
<1> HIDE DEF n
<1>4. \A i \in 1 .. n : Before[i] \in Nat /\ Before[i - 1] \in Nat /\ (i \in hits <=> v < Before[i])
    <2> SUFFICES ASSUME NEW i \in 1 .. n
                 PROVE  Before[i] \in Nat /\ Before[i - 1] \in Nat /\ (i \in hits <=> v < Before[i])
        OBVIOUS
    <2>1. i \in 0 .. n /\ i - 1 \in 0 .. n
        BY <1>1
    <2>2. Before[i] \in Nat /\ Before[i - 1] \in Nat
        BY <1>2, <2>1
    <2> QED
        BY <1>1, <1>2, <2>2
<1>5. hits \subseteq 1 .. n
    BY <1>1
<1> HIDE DEF hits
<1>6. CASE hits = {}
    <2>1. Before[n] <= v
        <3>1. CASE n = 0
            BY <1>2, <3>1
        <3>2. CASE n # 0
            <4>1. n \in 1 .. n
                BY <1>1, <3>2
            <4> QED
                BY <1>4, <1>6, <4>1
        <3> QED
            BY <3>1, <3>2
    <2> QED
        BY <1>3, <1>6, <2>1 DEF n
<1>7. CASE hits # {}
    <2>0. hits \subseteq Nat
        BY <1>1, <1>5
    <2>1. Min(hits) \in hits /\ \A j \in hits : Min(hits) <= j
        BY <1>7, <2>0, MinIsLeast
    <2>2. PICK i : i = Min(hits)
        OBVIOUS
    <2>3. i \in 1 .. n /\ v < Before[i] /\ \A j \in hits : i <= j
        BY <1>4, <1>5, <2>1, <2>2
    <2>4. Before[i - 1] <= v
        <3>1. CASE i = 1
            BY <1>2, <3>1
        <3>2. CASE i # 1
            <4>1. i - 1 \in 1 .. n /\ i - 1 < i
                BY <1>1, <2>3, <3>2
            <4>2. i - 1 \notin hits
                BY <1>1, <2>3, <4>1
            <4> QED
                BY <1>4, <4>1, <4>2
        <3> QED
            BY <3>1, <3>2
    <2>5. ResolveVirtualIndex(v) = <<inactive[i].TreeID, v - Before[i - 1]>>
        BY <1>3, <1>7, <2>2
    <2> QED
        BY <2>3, <2>4, <2>5 DEF n
<1> QED
    BY <1>6, <1>7

-----------------------------------------------------------------------------
(* The concatenation of the shards *)

Places == TreeIDs \X Int

\* The positions of the leaves of one tree.
LEMMA PositionsOf ==
    ASSUME Config, NEW t \in TreeIDs
    PROVE  /\ Positions(t) \in Seq(Places)
           /\ Len(Positions(t)) = Len(leaves[t])
           /\ \A k \in Nat : k < Len(leaves[t]) => Positions(t)[k + 1] = <<t, k>>
<1>1. leaves[t] \in Seq(UUIDs)
    BY DEF Config
<1>2. DOMAIN leaves[t] = 1 .. Len(leaves[t]) /\ Len(leaves[t]) \in Nat
    BY <1>1
<1>3. \A i \in DOMAIN leaves[t] : <<t, i - 1>> \in Places
    BY <1>2 DEF Places
<1>4. Positions(t) \in [1 .. Len(leaves[t]) -> Places]
    BY <1>2, <1>3 DEF Positions
<1>5. ASSUME NEW k \in Nat, k < Len(leaves[t]) PROVE Positions(t)[k + 1] = <<t, k>>
    <2>1. k + 1 \in 1 .. Len(leaves[t]) /\ (k + 1) - 1 = k
        BY <1>2, <1>5
    <2>2. Positions(t)[k + 1] = <<t, (k + 1) - 1>>
        BY <1>2, <2>1 DEF Positions
    <2> QED
        BY <2>1, <2>2
<1> QED
    BY <1>2, <1>4, <1>5

\* The concatenation is defined for every list of shards.
LEMMA JoinedDef ==
    ASSUME Config
    PROVE  /\ Joined \in [0 .. Len(inactive) -> Seq(Places)]
           /\ Joined[0] = << >>
           /\ \A i \in 1 .. Len(inactive) :
                  Joined[i] = Joined[i - 1] \o Positions(inactive[i].TreeID)
<1> DEFINE n == Len(inactive)
           S == Seq(Places)
           empty == << >>
           Add(x, i) == x \o Positions(inactive[i].TreeID)
           step == [i \in 1 .. n |-> [x \in S |-> Add(x, i)]]
<1>1. n \in Nat /\ empty \in S /\ \A i \in 1 .. n : \A x \in S : Add(x, i) \in S
    <2>1. n \in Nat /\ \A i \in 1 .. n : Positions(inactive[i].TreeID) \in S
        BY PositionsOf DEF Config
    <2> QED
        BY <2>1
<1> HIDE DEF n, S, empty, Add
<1>2. step \in [1 .. n -> [S -> S]]
    BY <1>1
<1>4. PICK f \in [0 .. n -> S] : f[0] = empty /\ \A i \in 1 .. n : f[i] = step[i][f[i - 1]]
    <2> HIDE DEF step
    <2>1. Defines(n, S, empty, step)
        BY <1>1, <1>2, Recursion
    <2> QED
        BY <2>1 DEF Defines
<1>5. \A i \in 0 .. n : i # 0 => i \in 1 .. n /\ i - 1 \in 0 .. n
    BY <1>1
<1>6. f = [i \in 0 .. n |-> IF i = 0 THEN empty ELSE Add(f[i - 1], i)]
    BY <1>4, <1>5
<1>7. Joined = [i \in 0 .. n |-> IF i = 0 THEN empty ELSE Add(Joined[i - 1], i)]
    BY <1>6 DEF Joined, n, empty, Add
<1>8. Joined[0] = empty /\ \A i \in 1 .. n : Joined[i] = Add(Joined[i - 1], i)
    BY <1>1, <1>7
<1>9. Joined \in [0 .. n -> S]
    <2> DEFINE U == {m \in 0 .. n : Joined[m] \in S}
    <2>1. U \subseteq 0 .. n /\ 0 \in U
        BY <1>1, <1>8
    <2>2. ASSUME NEW i \in 1 .. n, i - 1 \in U PROVE i \in U
        BY <1>1, <1>8, <2>2
    <2> HIDE DEF U
    <2>3. U = 0 .. n
        BY <1>1, <2>1, <2>2, Induction
    <2>4. \A m \in 0 .. n : Joined[m] \in S
        BY <2>3 DEF U
    <2> QED
        BY <1>7, <2>4
<1> QED
    BY <1>8, <1>9 DEF n, S, empty, Add

\* The part of a shard begins in the concatenation where the running sum says.
LEMMA JoinedAt ==
    ASSUME Config, NEW m \in 0 .. Len(inactive)
    PROVE  /\ Len(Joined[m]) = Before[m]
           /\ \A j \in 1 .. m : \A v \in Nat : Before[j - 1] <= v /\ v < Before[j] =>
                  Joined[m][v + 1] = <<inactive[j].TreeID, v - Before[j - 1]>>
<1> DEFINE n == Len(inactive)
           P(i) == Positions(inactive[i].TreeID)
           At(k) == \A j \in 1 .. k : \A v \in Nat : Before[j - 1] <= v /\ v < Before[j] =>
                       Joined[k][v + 1] = <<inactive[j].TreeID, v - Before[j - 1]>>
           T == {k \in 0 .. n : Len(Joined[k]) = Before[k] /\ At(k)}
<1>1. /\ n \in Nat
      /\ Before \in [0 .. n -> Nat] /\ Before[0] = 0
      /\ \A i \in 1 .. n : Before[i] = Before[i - 1] + inactive[i].TreeLength
    BY ConfigLengths, BeforeDef DEF Config
<1>2. /\ Joined \in [0 .. n -> Seq(Places)] /\ Joined[0] = << >>
      /\ \A i \in 1 .. n : Joined[i] = Joined[i - 1] \o P(i)
    BY JoinedDef
<1>3. \A i \in 1 .. n :
          /\ P(i) \in Seq(Places) /\ Len(P(i)) = inactive[i].TreeLength
          /\ \A k \in Nat : k < Len(P(i)) => P(i)[k + 1] = <<inactive[i].TreeID, k>>
    BY PositionsOf DEF Config
<1>4. \A k \in 0 .. n : \A j \in 0 .. k : Before[j] <= Before[k]
    BY ConfigLengths, BeforeMonotone
<1> HIDE DEF n, P
<1>5. T \subseteq 0 .. n /\ 0 \in T
    <2>1. 0 \in 0 .. n /\ Len(Joined[0]) = Before[0]
        BY <1>1, <1>2
    <2>2. At(0)
        OBVIOUS
    <2> QED
        BY <2>1, <2>2
<1>6. ASSUME NEW i \in 1 .. n, i - 1 \in T PROVE i \in T
    <2>0. /\ i \in 0 .. n /\ i - 1 \in 0 .. n /\ i \in 1 .. i /\ i \in Nat
        BY <1>1
    <2>1. /\ Len(Joined[i - 1]) = Before[i - 1] /\ At(i - 1)
        BY <1>6
    <2>2. Joined[i - 1] \in Seq(Places) /\ P(i) \in Seq(Places) /\ Joined[i] = Joined[i - 1] \o P(i)
        BY <1>2, <1>3, <2>0
    <2>3. /\ Before[i - 1] \in Nat /\ Before[i] \in Nat
          /\ Before[i] = Before[i - 1] + Len(P(i)) /\ Len(P(i)) = inactive[i].TreeLength
        BY <1>1, <1>3, <2>0
    <2> DEFINE J == Joined[i - 1]
               Q == P(i)
    <2>10. Joins(J, Q)
        <3>1. J \in Seq(Places) /\ Q \in Seq(Places)
            BY <2>2
        <3> HIDE DEF J, Q
        <3> QED
            BY <3>1, Joining
    <2>4. Len(Joined[i]) = Before[i]
        BY <2>1, <2>2, <2>3, <2>10 DEF Joins
    <2>5. ASSUME NEW j \in 1 .. i, NEW v \in Nat, Before[j - 1] <= v, v < Before[j]
          PROVE  Joined[i][v + 1] = <<inactive[j].TreeID, v - Before[j - 1]>>
        <3>1. CASE j = i
            <4>1. v - Before[i - 1] \in Nat /\ v - Before[i - 1] < Len(P(i)) /\ v < Before[i - 1] + Len(P(i))
                BY <2>3, <2>5, <3>1
            <4>2. (Joined[i - 1] \o P(i))[v + 1] = P(i)[(v - Len(Joined[i - 1])) + 1]
                BY <2>1, <2>5, <2>10, <3>1, <4>1 DEF Joins
            <4>3. P(i)[(v - Before[i - 1]) + 1] = <<inactive[i].TreeID, v - Before[i - 1]>>
                BY <1>3, <4>1
            <4> QED
                BY <2>1, <2>2, <3>1, <4>2, <4>3
        <3>2. CASE j # i
            <4>1. j \in 1 .. i - 1 /\ j \in 0 .. i - 1
                BY <2>0, <2>5, <3>2
            <4>2. Before[j] <= Before[i - 1] /\ Before[j] \in Nat
                BY <1>1, <1>4, <2>0, <4>1
            <4>3. v < Len(Joined[i - 1])
                BY <2>1, <2>3, <2>5, <4>2
            <4>4. Joined[i][v + 1] = Joined[i - 1][v + 1]
                BY <2>2, <2>10, <4>3 DEF Joins
            <4>5. Joined[i - 1][v + 1] = <<inactive[j].TreeID, v - Before[j - 1]>>
                BY <2>1, <2>5, <4>1
            <4> QED
                BY <4>4, <4>5
        <3> QED
            BY <3>1, <3>2
    <2>6. At(i)
        BY <2>5
    <2> HIDE DEF At
    <2> QED
        BY <2>0, <2>4, <2>6
<1> HIDE DEF T
<1>7. T = 0 .. n
    BY <1>1, <1>5, <1>6, Induction
<1>8. m \in T
    BY <1>7 DEF n
<1> QED
    BY <1>8 DEF T

\* Both functions agree with the concatenation, whatever the configuration.
LEMMA ConfigIndexIsPosition == Config => IndexIsPosition
<1> SUFFICES ASSUME Config, NEW v \in 0 .. Len(Concatenation) - 1
             PROVE  /\ ResolveVirtualIndex(v) = Concatenation[v + 1]
                    /\ VirtualLogIndex(Concatenation[v + 1][2], Concatenation[v + 1][1]) = v
    BY DEF IndexIsPosition
<1> DEFINE n == Len(inactive)
           A == Positions(active.TreeID)
<1>1. /\ n \in Nat /\ n \in 0 .. n
      /\ Before \in [0 .. n -> Nat]
    BY ConfigLengths, BeforeDef DEF Config
<1>2. Before[n] \in Nat
    BY <1>1
<1>3. /\ Joined[n] \in Seq(Places) /\ Len(Joined[n]) = Before[n]
      /\ \A j \in 1 .. n : \A w \in Nat : Before[j - 1] <= w /\ w < Before[j] =>
             Joined[n][w + 1] = <<inactive[j].TreeID, w - Before[j - 1]>>
    BY <1>1, JoinedDef, JoinedAt
<1>4. /\ A \in Seq(Places) /\ Len(A) \in Nat /\ active.TreeID \in TreeIDs
      /\ \A k \in Nat : k < Len(A) => A[k + 1] = <<active.TreeID, k>>
    BY PositionsOf DEF Config
<1>5. Concatenation = Joined[n] \o A
    BY DEF Concatenation
<1> HIDE DEF n, A
<1>11. Joins(Joined[n], A)
    <2> DEFINE J == Joined[n]
    <2>1. J \in Seq(Places) /\ A \in Seq(Places)
        BY <1>3, <1>4
    <2> HIDE DEF J
    <2>2. Joins(J, A)
        BY <2>1, Joining
    <2> QED
        BY <2>2 DEF J
<1>6. Len(Concatenation) = Before[n] + Len(A)
    BY <1>3, <1>5, <1>11 DEF Joins
<1>7. v \in Nat /\ v < Before[n] + Len(A)
    BY <1>2, <1>4, <1>6
<1>8. \A t : \A k \in Nat : <<t, k>>[1] = t /\ <<t, k>>[2] = k
    OBVIOUS
<1>9. CASE \E i \in 1 .. n : /\ Before[i - 1] <= v /\ v < Before[i]
                             /\ ResolveVirtualIndex(v) = <<inactive[i].TreeID, v - Before[i - 1]>>
    <2>1. PICK i \in 1 .. n : /\ Before[i - 1] <= v /\ v < Before[i]
                              /\ ResolveVirtualIndex(v) = <<inactive[i].TreeID, v - Before[i - 1]>>
        BY <1>9
    <2>2. i \in 0 .. n /\ i - 1 \in 0 .. n
        BY <1>1
    <2>3. Before[i] <= Before[n] /\ Before[i] \in Nat /\ Before[i - 1] \in Nat
        <3>1. Before[i] <= Before[n]
            BY <1>1, <2>2, ConfigLengths, BeforeMonotone DEF n
        <3> QED
            BY <1>1, <2>2, <3>1
    <2>4. v < Len(Joined[n]) /\ v - Before[i - 1] \in Nat
        <3>1. v < Before[n] /\ v - Before[i - 1] \in Nat
            <4>1. /\ v \in Nat /\ Before[i - 1] <= v /\ v < Before[i]
                  /\ Before[i] <= Before[n] /\ Before[i] \in Nat /\ Before[i - 1] \in Nat
                BY <1>7, <2>1, <2>3
            <4> QED
                BY <1>2, <4>1
        <3> QED
            BY <1>3, <3>1
    <2>5. Concatenation[v + 1] = Joined[n][v + 1]
        BY <1>5, <1>7, <1>11, <2>4 DEF Joins
    <2>6. Joined[n][v + 1] = <<inactive[i].TreeID, v - Before[i - 1]>>
        BY <1>3, <1>7, <2>1
    <2>7. VirtualLogIndex(v - Before[i - 1], inactive[i].TreeID) = Before[i - 1] + (v - Before[i - 1])
        BY <2>4, VirtualIndexOf DEF n
    <2>8. VirtualLogIndex(v - Before[i - 1], inactive[i].TreeID) = v
        BY <1>7, <2>3, <2>7
    <2> QED
        BY <1>8, <2>1, <2>4, <2>5, <2>6, <2>8
<1>10. CASE /\ Before[n] <= v
            /\ ResolveVirtualIndex(v) = <<active.TreeID, v - Before[n]>>
    <2>1. v - Before[n] \in Nat /\ v - Before[n] < Len(A)
        BY <1>2, <1>4, <1>7, <1>10
    <2>2. (Joined[n] \o A)[v + 1] = A[(v - Len(Joined[n])) + 1]
        BY <1>3, <1>7, <1>10, <1>11 DEF Joins
    <2>3. A[(v - Before[n]) + 1] = <<active.TreeID, v - Before[n]>>
        BY <1>4, <2>1
    <2>4. Concatenation[v + 1] = <<active.TreeID, v - Before[n]>>
        BY <1>3, <1>5, <2>2, <2>3
    <2>5. VirtualLogIndex(v - Before[n], active.TreeID) = Before[n] + (v - Before[n])
        BY <2>1, VirtualIndexOf DEF n
    <2>6. VirtualLogIndex(v - Before[n], active.TreeID) = v
        BY <1>2, <1>7, <2>5
    <2> QED
        BY <1>8, <1>10, <2>1, <2>4, <2>6
<1> QED
    BY <1>7, <1>9, <1>10, Resolved DEF n

-----------------------------------------------------------------------------
(* The configuration that the server starts with *)

\* NewLogRanges makes a configuration.
LEMMA InitConfig == Init => Config
<1> SUFFICES ASSUME Init PROVE Config
    OBVIOUS
<1>1. PICK shards \in ShardLists, own \in Configs :
          /\ leaves \in [TreeIDs -> Contents]
          /\ active = InitializeRange(shards[Len(shards) - 1 + 1], 0, own, own)
          /\ \E config \in [1 .. Len(shards) - 1 -> Configs \union {Unset}] :
                inactive = [i \in 1 .. Len(shards) - 1 |->
                              InitializeRange(shards[i], Len(leaves[shards[i]]), config[i], own)]
    BY DEF Init
<1>2. PICK m \in 0 .. MaxInactive + 1 : shards \in [1 .. m -> TreeIDs]
    BY DEF ShardLists, SeqOf
<1>3. shards # << >> /\ IsInjective(shards)
    BY DEF ShardLists
<1>4. m \in Nat /\ Len(shards) = m /\ DOMAIN shards = 1 .. m
    BY <1>2, BoundsAssumption
<1>5. m # 0
    BY <1>2, <1>3, <1>4
<1> DEFINE n == m - 1
<1>6. n \in Nat /\ n = Len(shards) - 1 /\ Len(shards) - 1 + 1 = m /\ m \in 1 .. m
      /\ \A i \in 1 .. n : i \in 1 .. m /\ i # m
    BY <1>4, <1>5
<1>7. PICK config : inactive = [i \in 1 .. n |->
                        InitializeRange(shards[i], Len(leaves[shards[i]]), config[i], own)]
    BY <1>1, <1>6
<1> HIDE DEF n
<1>8. /\ DOMAIN inactive = 1 .. n
      /\ \A i \in 1 .. n : /\ inactive[i].TreeID = shards[i]
                           /\ inactive[i].TreeLength = Len(leaves[shards[i]])
    BY <1>7 DEF InitializeRange
<1>9. Len(inactive) = n
    BY <1>6, <1>7
<1>10. active.TreeID = shards[m]
    BY <1>1, <1>6 DEF InitializeRange
<1>11. leaves \in [TreeIDs -> Seq(UUIDs)]
    <2>1. Contents \subseteq Seq(UUIDs)
        BY BoundsAssumption DEF Contents, SeqOf
    <2> QED
        BY <1>1, <2>1
<1>12. \A i, j \in 1 .. m : shards[i] = shards[j] => i = j
    BY <1>3, <1>4 DEF IsInjective
<1>13. \A i \in 1 .. m : shards[i] \in TreeIDs
    BY <1>2
<1> QED
    BY <1>6, <1>8, <1>9, <1>10, <1>11, <1>12, <1>13 DEF Config

-----------------------------------------------------------------------------
(* What the handlers look at *)

Shards == {active.TreeID} \union {inactive[i].TreeID : i \in 1 .. Len(inactive)}

\* AllShards lists the trees of the configuration and no others.
LEMMA AllShardsAre ==
    ASSUME Config
    PROVE  /\ AllShards \in Seq(TreeIDs)
           /\ ToSet(AllShards) = Shards
           /\ Shards \subseteq TreeIDs
<1> DEFINE n == Len(inactive)
           rest == [i \in DOMAIN inactive |-> inactive[i].TreeID]
<1>1. n \in Nat /\ DOMAIN inactive = 1 .. n /\ active.TreeID \in TreeIDs
      /\ \A i \in 1 .. n : inactive[i].TreeID \in TreeIDs
    BY DEF Config
<1>2. rest \in [1 .. n -> TreeIDs]
    BY <1>1
<1>3. rest \in Seq(TreeIDs) /\ Len(rest) = n /\ \A i \in 1 .. n : rest[i] = inactive[i].TreeID
    BY <1>1, <1>2
<1>4. AllShards = <<active.TreeID>> \o rest
    BY DEF AllShards
<1> HIDE DEF n, rest
<1>5. <<active.TreeID>> \in Seq(TreeIDs)
    BY <1>1
<1>6. AllShards \in Seq(TreeIDs) /\ Len(AllShards) = n + 1
      /\ AllShards[1] = active.TreeID
      /\ \A i \in 1 .. n : AllShards[i + 1] = rest[i]
    BY <1>1, <1>3, <1>4, <1>5
<1>7. DOMAIN AllShards = 1 .. n + 1
    BY <1>1, <1>6
<1>8. \A k \in 1 .. n + 1 : k = 1 \/ (k - 1 \in 1 .. n /\ (k - 1) + 1 = k)
    BY <1>1
<1>9. ToSet(AllShards) \subseteq Shards
    <2> SUFFICES ASSUME NEW k \in 1 .. n + 1 PROVE AllShards[k] \in Shards
        BY <1>7 DEF ToSet
    <2>1. CASE k = 1
        BY <1>6, <2>1 DEF Shards
    <2>2. CASE k - 1 \in 1 .. n /\ (k - 1) + 1 = k
        <3>1. AllShards[k] = inactive[k - 1].TreeID
            BY <1>3, <1>6, <2>2
        <3> QED
            BY <2>2, <3>1 DEF Shards, n
    <2> QED
        BY <1>8, <2>1, <2>2
<1>10. Shards \subseteq ToSet(AllShards)
    <2>1. active.TreeID \in ToSet(AllShards)
        BY <1>1, <1>6, <1>7 DEF ToSet
    <2>2. ASSUME NEW i \in 1 .. n PROVE inactive[i].TreeID \in ToSet(AllShards)
        <3>1. i + 1 \in DOMAIN AllShards /\ AllShards[i + 1] = inactive[i].TreeID
            BY <1>1, <1>3, <1>6, <1>7
        <3> QED
            BY <3>1 DEF ToSet
    <2> QED
        BY <2>1, <2>2 DEF Shards, n
<1> QED
    BY <1>1, <1>6, <1>9, <1>10 DEF Shards, n

\* GetLogRangeByTreeID has an error for the trees outside of the configuration only.
LEMMA RangeFound ==
    ASSUME Config, NEW t
    PROVE  GetLogRangeByTreeID(t) # << >> <=> t \in Shards
<1>1. InactiveShard(t) # 0 <=> \E i \in 1 .. Len(inactive) : inactive[i].TreeID = t
    <2>1. ASSUME NEW i \in 1 .. Len(inactive), inactive[i].TreeID = t PROVE InactiveShard(t) # 0
        <3>1. InactiveShard(inactive[i].TreeID) = i
            BY InactiveShardFound
        <3>2. i # 0
            BY DEF Config
        <3> QED
            BY <2>1, <3>1, <3>2
    <2>2. ASSUME InactiveShard(t) # 0
          PROVE  \E i \in 1 .. Len(inactive) : inactive[i].TreeID = t
        BY <2>2, InactiveShardFound
    <2> QED
        BY <2>1, <2>2
<1>2. t \in Shards <=> t = active.TreeID \/ InactiveShard(t) # 0
    BY <1>1 DEF Shards
<1>3. <<active>> # << >> /\ \A r : <<r>> # << >>
    OBVIOUS
<1> QED
    BY <1>2, <1>3 DEF GetLogRangeByTreeID

\* Trillian finds the leaves of a tree.
LEMMA FoundAre ==
    ASSUME NEW t, NEW u
    PROVE  Found(t, u) # {} <=> u \in ToSet(leaves[t])
BY DEF Found, ToSet

\* What the functions on entry IDs make of each kind of ID that the API lets through.
LEMMA IDKinds ==
    ASSUME NEW id \in IDs
    PROVE  \/ /\ id.form = "uuid"
              /\ GetUUIDFromIDString(id) = [err |-> Nil, uuid |-> id.uuid]
              /\ GetTreeIDFromIDString(id) = [err |-> PlainUUID, tree |-> 0]
              /\ ValidateEntryID(id) = Error
           \/ /\ id.form = "entry" /\ id.tree \in TreeIDs
              /\ GetUUIDFromIDString(id) = [err |-> Nil, uuid |-> id.uuid]
              /\ GetTreeIDFromIDString(id) = [err |-> Nil, tree |-> id.tree]
              /\ ValidateEntryID(id) = Nil
           \/ /\ id.form = "entry" /\ id.tree = 0 /\ id.tree \notin TreeIDs
              /\ GetUUIDFromIDString(id) = [err |-> Nil, uuid |-> id.uuid]
              /\ GetTreeIDFromIDString(id) = [err |-> NoTree, tree |-> 0]
              /\ ValidateEntryID(id) = NoTree
           \/ /\ id.form = "entry" /\ id.tree = BadTree /\ id.tree \notin TreeIDs
              /\ GetUUIDFromIDString(id) = [err |-> Error, uuid |-> Nil]
              /\ ValidateEntryID(id) = Error
<1>0. Nil # Error /\ Nil # NoTree /\ Nil # PlainUUID /\ NoTree # Error /\ NoTree # PlainUUID /\ Error # PlainUUID
    BY DEF Nil, Error, NoTree, PlainUUID
<1>1. CASE id.form = "uuid"
    BY <1>0, <1>1 DEF GetUUIDFromIDString, GetTreeIDFromIDString, ValidateEntryID, ValidateUUID, ValidateTreeID
<1>2. CASE id.form = "entry" /\ id.tree \in TreeIDs
    <2>1. id.tree # BadTree /\ id.tree # 0
        BY <1>2, TreeIDsAssumption
    <2>2. ValidateEntryID(id) = Nil
        BY <1>2, <2>1 DEF ValidateEntryID, ValidateUUID, ValidateTreeID
    <2> QED
        BY <1>0, <1>2, <2>2 DEF GetUUIDFromIDString, GetTreeIDFromIDString
<1>3. CASE id.form = "entry" /\ id.tree = 0
    <2>1. id.tree # BadTree /\ id.tree \notin TreeIDs
        BY <1>3, TreeIDsAssumption
    <2>2. ValidateEntryID(id) = NoTree
        BY <1>0, <1>3, <2>1 DEF ValidateEntryID, ValidateUUID, ValidateTreeID
    <2> QED
        BY <1>0, <1>3, <2>1, <2>2 DEF GetUUIDFromIDString, GetTreeIDFromIDString
<1>4. CASE id.form = "entry" /\ id.tree = BadTree
    <2>0. id.tree \notin TreeIDs
        BY <1>4, TreeIDsAssumption
    <2>1. ValidateEntryID(id) = Error
        BY <1>0, <1>4 DEF ValidateEntryID, ValidateUUID, ValidateTreeID
    <2> QED
        BY <1>0, <1>4, <2>0, <2>1 DEF GetUUIDFromIDString
<1>5. id.form = "uuid" \/ (id.form = "entry" /\ id.tree \in TreeIDs \union {0, BadTree})
    BY DEF IDs, UUIDForm, EntryForm
<1> QED
    BY <1>1, <1>2, <1>3, <1>4, <1>5

\* retrieveUUIDFromTree asks for trees of the configuration only.
LEMMA FromTree ==
    ASSUME Config, NEW u, NEW t
    PROVE  LET r == RetrieveUUIDFromTree(u, t)
           IN  /\ r.asked \subseteq Shards
               /\ r.reply.code = 200 <=> t \in Shards /\ u \in ToSet(leaves[t])
               /\ r.reply.code \in {200, 404}
<1>1. CASE GetLogRangeByTreeID(t) = << >>
    BY <1>1, RangeFound DEF RetrieveUUIDFromTree, NotFound, Answer
<1>2. CASE GetLogRangeByTreeID(t) # << >>
    BY <1>2, RangeFound, FoundAre DEF RetrieveUUIDFromTree, NotFound, Answer
<1> QED
    BY <1>1, <1>2

\* The search through all shards stops at the first one that has the leaf.
FirstWith(u) == SelectInSeq(AllShards, LAMBDA t : Found(t, u) # {})

\* It finds a shard that has the leaf if there is one, and asks configured trees only.
LEMMA FromAnyTree ==
    ASSUME Config, NEW u
    PROVE  /\ FirstWith(u) # 0 <=> \E t \in Shards : u \in ToSet(leaves[t])
           /\ FirstWith(u) # 0 => /\ AllShards[FirstWith(u)] \in Shards
                                  /\ ToSet(SubSeq(AllShards, 1, FirstWith(u))) \subseteq Shards
<1> DEFINE n == Len(AllShards)
           I == {i \in 1 .. n : Found(AllShards[i], u) # {}}
           hit == FirstWith(u)
<1>1. hit = IF I # {} THEN Min(I) ELSE 0
    BY DEF SelectInSeq, FirstWith
<1>2. n \in Nat /\ DOMAIN AllShards = 1 .. n /\ AllShards \in Seq(TreeIDs)
      /\ Shards = {AllShards[i] : i \in 1 .. n}
    BY AllShardsAre DEF ToSet
<1>3. I # {} <=> \E t \in Shards : u \in ToSet(leaves[t])
    BY <1>2, FoundAre
<1>4. I # {} => Min(I) \in I
    <2>1. I \subseteq Nat
        BY <1>2
    <2> HIDE DEF I
    <2> QED
        BY <2>1, MinIsLeast
<1>5. \A i \in I : i \in 1 .. n /\ i # 0
    BY <1>2
<1> HIDE DEF hit, n, I
<1>6. (hit # 0 <=> I # {}) /\ (hit # 0 => hit \in 1 .. n)
    BY <1>1, <1>4, <1>5
<1>7. ASSUME hit # 0 PROVE ToSet(SubSeq(AllShards, 1, hit)) \subseteq Shards
    <2>1. \A i \in DOMAIN SubSeq(AllShards, 1, hit) :
              i \in 1 .. n /\ SubSeq(AllShards, 1, hit)[i] = AllShards[i]
        BY <1>2, <1>6, <1>7 DEF n
    <2> QED
        BY <1>2, <2>1 DEF ToSet
<1>8. hit # 0 => AllShards[hit] \in Shards
    BY <1>2, <1>6
<1> QED
    BY <1>3, <1>6, <1>7, <1>8 DEF hit

\* retrieveLogEntry, for each kind of ID.
LEMMA Retrieved ==
    ASSUME Config, NEW id \in IDs
    PROVE  LET r == RetrieveLogEntry(id)
               shards == {t \in Shards : id.uuid \in ToSet(leaves[t])}
           IN  /\ r.asked \subseteq Shards
               /\ id.form = "uuid" => /\ r.reply.code = 200 <=> shards # {}
                                      /\ r.reply.code = 404 <=> shards = {}
               /\ id.form = "entry" /\ id.tree \in TreeIDs =>
                      (r.reply.code = 200 <=> id.tree \in shards)
               /\ id.form = "entry" /\ id.tree \notin TreeIDs => r.reply.entries = {}
<1> DEFINE uuid == GetUUIDFromIDString(id)
           tid == GetTreeIDFromIDString(id)
           hit == FirstWith(id.uuid)
           shards == {t \in Shards : id.uuid \in ToSet(leaves[t])}
           r == RetrieveLogEntry(id)
<1>0. Nil # Error /\ Nil # NoTree /\ Nil # PlainUUID /\ NoTree # Error /\ NoTree # PlainUUID /\ Error # PlainUUID
    BY DEF Nil, Error, NoTree, PlainUUID
<1>1. CASE /\ id.form = "uuid"
           /\ uuid = [err |-> Nil, uuid |-> id.uuid]
           /\ tid = [err |-> PlainUUID, tree |-> 0]
    <2>1. r = [asked |-> IF hit = 0 THEN ToSet(AllShards) ELSE ToSet(SubSeq(AllShards, 1, hit)),
               reply |-> IF hit = 0 THEN NotFound ELSE Answer(200, Found(AllShards[hit], id.uuid))]
        BY <1>0, <1>1 DEF RetrieveLogEntry, FirstWith
    <2>2. hit # 0 <=> shards # {}
        BY FromAnyTree
    <2>3. r.asked \subseteq Shards
        BY <2>1, AllShardsAre, FromAnyTree
    <2>4. r.reply.code = IF hit = 0 THEN 404 ELSE 200
        BY <2>1 DEF NotFound, Answer
    <2> QED
        BY <1>1, <2>2, <2>3, <2>4
<1>2. CASE /\ id.form = "entry" /\ id.tree \in TreeIDs
           /\ uuid = [err |-> Nil, uuid |-> id.uuid]
           /\ tid = [err |-> Nil, tree |-> id.tree]
    <2>1. r = RetrieveUUIDFromTree(id.uuid, id.tree)
        BY <1>0, <1>2 DEF RetrieveLogEntry
    <2> QED
        BY <1>2, <2>1, FromTree
<1>3. CASE id.form = "entry" /\ id.tree \notin TreeIDs /\ (uuid.err = Error \/ (uuid.err = Nil /\ tid.err = NoTree))
    <2>1. r = [asked |-> {}, reply |-> Answer(500, {})]
        BY <1>0, <1>3 DEF RetrieveLogEntry
    <2>2. r.asked = {} /\ r.reply.entries = {} /\ r.reply.code = 500
        BY <2>1 DEF Answer
    <2> QED
        BY <1>3, <2>2
<1> QED
    BY <1>1, <1>2, <1>3, IDKinds

\* The leaf that ResolveVirtualIndex finds has the index it was found by.
LEMMA ByIndex ==
    ASSUME Config, NEW v \in Nat
    PROVE  LET t == ResolveVirtualIndex(v)[1]
               i == ResolveVirtualIndex(v)[2] + 1
           IN  /\ t \in Shards
               /\ i \in DOMAIN leaves[t] <=> v < Length
               /\ LogEntryFromLeaf(t, i).logIndex = v
<1> DEFINE n == Len(inactive)
           L(t) == Len(leaves[t])
<1>1. /\ n \in Nat /\ n \in 0 .. n
      /\ Before \in [0 .. n -> Nat]
      /\ \A j \in 1 .. n : Before[j] = Before[j - 1] + inactive[j].TreeLength
    BY ConfigLengths, BeforeDef DEF Config
<1>2. Before[n] \in Nat
    BY <1>1
<1>3. /\ active.TreeID \in TreeIDs
      /\ \A j \in 1 .. n : inactive[j].TreeID \in TreeIDs /\ inactive[j].TreeLength = L(inactive[j].TreeID)
      /\ \A t \in TreeIDs : L(t) \in Nat /\ DOMAIN leaves[t] = 1 .. L(t)
    BY DEF Config
<1>4. Length = Before[n] + L(active.TreeID)
    BY DEF Length, TotalInactiveLength
<1> HIDE DEF L
<1>5. SUFFICES ASSUME NEW t, NEW k \in Nat, ResolveVirtualIndex(v) = <<t, k>>,
                      t \in Shards, t \in TreeIDs, k < L(t) <=> v < Length,
                      VirtualLogIndex(k, t) = v
               PROVE  /\ t \in Shards
                      /\ k + 1 \in DOMAIN leaves[t] <=> v < Length
                      /\ LogEntryFromLeaf(t, k + 1).logIndex = v
    <2>1. CASE \E i \in 1 .. n : /\ Before[i - 1] <= v /\ v < Before[i]
                                 /\ ResolveVirtualIndex(v) = <<inactive[i].TreeID, v - Before[i - 1]>>
        <3>1. PICK i \in 1 .. n : /\ Before[i - 1] <= v /\ v < Before[i]
                                  /\ ResolveVirtualIndex(v) = <<inactive[i].TreeID, v - Before[i - 1]>>
            BY <2>1
        <3> DEFINE t == inactive[i].TreeID
                   k == v - Before[i - 1]
        <3>2. i \in 0 .. n /\ i - 1 \in 0 .. n
            BY <1>1
        <3>3. Before[i] <= Before[n]
            BY <1>1, <3>2, ConfigLengths, BeforeMonotone
        <3>4. Before[i] \in Nat /\ Before[i - 1] \in Nat /\ Before[i] = Before[i - 1] + L(t)
            BY <1>1, <1>3, <3>2
        <3>5. k \in Nat /\ k < L(t) /\ v < Length /\ Before[i - 1] + k = v
            <4>1. L(t) \in Nat /\ L(active.TreeID) \in Nat
                BY <1>3
            <4>2. v < Length
                BY <1>2, <1>4, <3>1, <3>3, <3>4, <4>1
            <4> QED
                BY <3>1, <3>4, <4>1, <4>2
        <3>6. t \in Shards /\ t \in TreeIDs
            BY <1>3 DEF Shards
        <3>7. VirtualLogIndex(k, t) = v
            BY <3>5, VirtualIndexOf
        <3> HIDE DEF t, k
        <3> QED
            BY <1>5, <3>1, <3>5, <3>6, <3>7 DEF t, k
    <2>2. CASE /\ Before[n] <= v
               /\ ResolveVirtualIndex(v) = <<active.TreeID, v - Before[n]>>
        <3> DEFINE t == active.TreeID
                   k == v - Before[n]
        <3>1. k \in Nat /\ (k < L(t) <=> v < Length) /\ Before[n] + k = v
            BY <1>2, <1>3, <1>4, <2>2
        <3>2. t \in Shards /\ t \in TreeIDs
            BY <1>3 DEF Shards
        <3>3. VirtualLogIndex(k, t) = v
            BY <3>1, VirtualIndexOf
        <3> HIDE DEF t, k
        <3> QED
            BY <1>5, <2>2, <3>1, <3>2, <3>3 DEF t, k
    <2> QED
        BY <2>1, <2>2, Resolved
<1>6. k + 1 \in DOMAIN leaves[t] <=> k < L(t)
    BY <1>3, <1>5
<1>7. (k + 1) - 1 = k
    BY <1>5
<1>8. LogEntryFromLeaf(t, k + 1).logIndex = VirtualLogIndex((k + 1) - 1, t)
    BY DEF LogEntryFromLeaf
<1> QED
    BY <1>5, <1>6, <1>7, <1>8

-----------------------------------------------------------------------------
(* The steps *)

IndInv == Config /\ KnownTreesOnly /\ LookupComplete /\ IndexedEntryCarriesIndex

\* What depends on the configuration only stays.
LEMMA RangesKept ==
    ASSUME UNCHANGED ranges
    PROVE  /\ Config' <=> Config
           /\ AllShards' = AllShards
           /\ Length' = Length
           /\ leaves' = leaves
<1>1. leaves' = leaves /\ inactive' = inactive /\ active' = active
    BY DEF ranges
<1>2. Before' = Before
    BY <1>1 DEF Before
<1>3. Length' = Length
    BY <1>1, <1>2 DEF Length, TotalInactiveLength
<1>4. AllShards' = AllShards
    BY <1>1 DEF AllShards
<1>5. Config' <=> Config
    BY <1>1 DEF Config
<1> QED
    BY <1>1, <1>3, <1>4, <1>5

\* An answer that is right keeps the invariant.
LEMMA ServeKeeps ==
    ASSUME IndInv, NEW req, NEW result, Serve(req, result),
           result.asked \subseteq Shards,
           req.op = "uuid" => LookupComplete',
           req.op = "index" => IndexedEntryCarriesIndex'
    PROVE  IndInv'
<1>1. request' = req /\ consulted' = result.asked /\ UNCHANGED ranges
    BY DEF Serve
<1>2. Config' /\ AllShards' = AllShards
    BY <1>1, RangesKept DEF IndInv
<1>3. KnownTreesOnly'
    BY <1>1, <1>2, AllShardsAre DEF KnownTreesOnly, IndInv, ToSet
<1>4. LookupComplete'
    BY <1>1 DEF LookupComplete
<1>5. IndexedEntryCarriesIndex'
    BY <1>1 DEF IndexedEntryCarriesIndex
<1> QED
    BY <1>2, <1>3, <1>4, <1>5 DEF IndInv

\* A client that judges an answer changes nothing.
LEMMA SameKeeps ==
    ASSUME IndInv, UNCHANGED <<ranges, request, reply, consulted>>
    PROVE  IndInv'
<1>1. Config' /\ AllShards' = AllShards /\ Length' = Length /\ leaves' = leaves
    BY RangesKept DEF IndInv
<1>2. KnownTreesOnly'
    BY <1>1 DEF IndInv, KnownTreesOnly, ToSet
<1>3. LookupComplete'
    BY <1>1 DEF IndInv, LookupComplete, ToSet, GetUUIDFromIDString, ValidateUUID, ValidateEntryID, ValidateTreeID
<1>4. IndexedEntryCarriesIndex'
    BY <1>1 DEF IndInv, IndexedEntryCarriesIndex
<1> QED
    BY <1>1, <1>2, <1>3, <1>4 DEF IndInv

\* At first nothing was asked.
LEMMA InitInv == Init => IndInv
<1> SUFFICES ASSUME Init PROVE IndInv
    OBVIOUS
<1>1. Config
    BY InitConfig
<1>2. request = [op |-> "none"] /\ consulted = {}
    BY DEF Init
<1> QED
    BY <1>1, <1>2 DEF IndInv, KnownTreesOnly, LookupComplete, IndexedEntryCarriesIndex

\* Every handler answers as the invariant says.
LEMMA NextInv == IndInv /\ [Next]_vars => IndInv'
<1> SUFFICES ASSUME IndInv, [Next]_vars PROVE IndInv'
    OBVIOUS
<1>0. Config
    BY DEF IndInv
<1>1. ASSUME NEW id \in IDs, GetLogEntryByUUID(id) PROVE IndInv'
    <2> DEFINE req == [op |-> "uuid", id |-> id]
    <2>1. Serve(req, RetrieveLogEntry(id))
        BY <1>1 DEF GetLogEntryByUUID
    <2>2. req.op = "uuid" /\ req.id = id
        OBVIOUS
    <2>3. RetrieveLogEntry(id).asked \subseteq Shards
        BY <1>0, Retrieved
    <2>4. request' = req /\ reply' = RetrieveLogEntry(id).reply
          /\ AllShards' = AllShards /\ leaves' = leaves
        BY <2>1, RangesKept DEF Serve
    <2>5. request'.id = id
        BY <2>4
    <2>6. ToSet(AllShards)' = Shards
        BY <1>0, <2>4, AllShardsAre DEF ToSet
    <2>7. id.form = "uuid" \/ id.form = "entry"
        BY IDKinds
    <2>8. LookupComplete'
        <3> DEFINE shards == {t \in Shards : id.uuid \in ToSet(leaves[t])}
        <3>1. {t \in ToSet(AllShards) : request.id.uuid \in ToSet(leaves[t])}' = shards
            BY <2>4, <2>5, <2>6 DEF ToSet
        <3>2. /\ id.form = "uuid" => /\ reply'.code = 200 <=> shards # {}
                                     /\ reply'.code = 404 <=> shards = {}
              /\ id.form = "entry" /\ id.tree \in TreeIDs =>
                      (reply'.code = 200 <=> id.tree \in shards)
              /\ id.form = "entry" /\ id.tree \notin TreeIDs => reply'.entries = {}
            BY <1>0, <2>4, Retrieved
        <3> HIDE DEF shards, req
        <3> QED
            BY <2>5, <2>7, <3>1, <3>2 DEF LookupComplete
    <2> HIDE DEF req
    <2> QED
        BY <2>1, <2>2, <2>3, <2>8, ServeKeeps
<1>2. ASSUME NEW v \in 0 .. Length, GetLogEntryByIndex(v) PROVE IndInv'
    <2> DEFINE t == ResolveVirtualIndex(v)[1]
               i == ResolveVirtualIndex(v)[2] + 1
               req == [op |-> "index", index |-> v]
               result == [asked |-> {t},
                          reply |-> IF i \in DOMAIN leaves[t]
                                    THEN Answer(200, {LogEntryFromLeaf(t, i)}) ELSE NotFound]
    <2>1. Serve(req, result)
        BY <1>2 DEF GetLogEntryByIndex
    <2>2. req.op = "index" /\ req.index = v /\ result.asked = {t}
        OBVIOUS
    <2>3. v \in Nat
        OBVIOUS
    <2>4. /\ t \in Shards
          /\ i \in DOMAIN leaves[t] <=> v < Length
          /\ LogEntryFromLeaf(t, i).logIndex = v
        BY <1>0, <2>3, ByIndex
    <2>5. request' = req /\ reply' = result.reply /\ Length' = Length
        BY <2>1, RangesKept DEF Serve
    <2> HIDE DEF t, i
    <2>6. CASE i \in DOMAIN leaves[t]
        <3>1. reply'.code = 200 /\ reply'.entries = {LogEntryFromLeaf(t, i)}
            BY <2>5, <2>6 DEF Answer
        <3>2. IndexedEntryCarriesIndex'
            BY <2>4, <2>5, <2>6, <3>1 DEF IndexedEntryCarriesIndex
        <3> HIDE DEF req, result
        <3> QED
            BY <2>1, <2>2, <2>4, <3>2, ServeKeeps
    <2>7. CASE i \notin DOMAIN leaves[t]
        <3>1. reply'.code = 404 /\ reply'.entries = {}
            BY <2>5, <2>7 DEF Answer, NotFound
        <3>2. IndexedEntryCarriesIndex'
            BY <2>4, <2>5, <2>7, <3>1 DEF IndexedEntryCarriesIndex
        <3> HIDE DEF req, result
        <3> QED
            BY <2>1, <2>2, <2>4, <3>2, ServeKeeps
    <2> QED
        BY <2>6, <2>7
<1>3. ASSUME NEW id \in IDs, SearchLogQuery(id) PROVE IndInv'
    <2> DEFINE req == [op |-> "search", id |-> id]
    <2>1. PICK result : Serve(req, result) /\ result.asked \subseteq Shards
        BY <1>0, <1>3, Retrieved, AllShardsAre DEF SearchLogQuery
    <2>2. req.op = "search"
        OBVIOUS
    <2> HIDE DEF req
    <2> QED
        BY <2>1, <2>2, ServeKeeps
<1>4. ASSUME NEW t \in TreeIDs \union {0}, NEW m \in 1 .. MaxLength + 1,
          NEW n \in 1 .. MaxLength + 1, GetLogProof(t, m, n)
      PROVE  IndInv'
    <2> DEFINE req == [op |-> "proof", tree |-> t]
               tid == IF t = 0 THEN active.TreeID ELSE t
               result == CASE m > n -> [asked |-> {}, reply |-> Answer(400, {})]
                           [] m <= n /\ GetLogRangeByTreeID(tid) = << >> ->
                                 [asked |-> {}, reply |-> Answer(400, {})]
                           [] OTHER ->
                                 [asked |-> {tid},
                                  reply |-> Answer(IF n <= Len(leaves[tid]) THEN 200 ELSE 400, {})]
    <2>0. m > n \/ m <= n
        BY BoundsAssumption
    <2>1. Serve(req, result)
        BY <1>4 DEF GetLogProof
    <2>3. result.asked \subseteq Shards
        <3>1. CASE m > n
            <4>1. ~(m <= n)
                BY <3>1, BoundsAssumption
            <4> QED
                BY <3>1, <4>1
        <3>2. CASE ~(m > n) /\ GetLogRangeByTreeID(tid) = << >>
            BY <2>0, <3>2
        <3>3. CASE ~(m > n) /\ GetLogRangeByTreeID(tid) # << >>
            <4>1. tid \in Shards
                BY <1>0, <3>3, RangeFound
            <4> HIDE DEF tid
            <4> QED
                BY <3>3, <4>1
        <3> QED
            BY <3>1, <3>2, <3>3
    <2>2. req.op = "proof"
        OBVIOUS
    <2> HIDE DEF req, result
    <2> QED
        BY <2>1, <2>2, <2>3, ServeKeeps
<1>5. ASSUME GetLogInfo PROVE IndInv'
    <2> DEFINE req == [op |-> "info"]
    <2>1. PICK result : Serve(req, result) /\ result.asked \subseteq Shards
        BY <1>0, <1>5, AllShardsAre DEF GetLogInfo
    <2>2. req.op = "info"
        OBVIOUS
    <2> HIDE DEF req
    <2> QED
        BY <2>1, <2>2, ServeKeeps
<1>6. ASSUME GetEntries \/ VerifyEntry \/ VerifyEntriesAll \/ VerifyLogInfo PROVE IndInv'
    <2>1. UNCHANGED <<ranges, request, reply, consulted>>
        BY <1>6 DEF GetEntries, VerifyEntry, VerifyEntriesAll, VerifyLogInfo, Judge
    <2> QED
        BY <2>1, SameKeeps
<1>7. ASSUME Done PROVE IndInv'
    <2>1. request' = [op |-> "none"] /\ consulted' = {} /\ UNCHANGED ranges
        BY <1>7 DEF Done
    <2>2. Config'
        BY <1>0, <2>1, RangesKept
    <2> QED
        BY <2>1, <2>2 DEF IndInv, KnownTreesOnly, LookupComplete, IndexedEntryCarriesIndex
<1>8. ASSUME UNCHANGED vars PROVE IndInv'
    BY <1>8, SameKeeps DEF vars
<1> QED
    BY <1>1, <1>2, <1>3, <1>4, <1>5, <1>6, <1>7, <1>8 DEF Next

\* Whatever is asked, the configuration stays what NewLogRanges made it, and the answers
\* are those of IndInv: for any number of shards and of leaves.
THEOREM Invariance == Spec => []IndInv
BY InitInv, NextInv, PTL DEF Spec

\* The virtual log is the concatenation of the shards, for any list of shards of any
\* lengths, empty ones included: VirtualLogIndex and ResolveVirtualIndex are inverse to
\* each other and agree with the position of the leaf.
THEOREM IndexIsPositionHolds == Spec => []IndexIsPosition
<1>1. IndInv => IndexIsPosition
    BY ConfigIndexIsPosition DEF IndInv
<1> QED
    BY <1>1, Invariance, PTL

\* No request, whatever ID, index or tree it names, makes a server ask Trillian about a
\* tree that is not in its configuration.
THEOREM KnownTreesOnlyHolds == Spec => []KnownTreesOnly
<1>1. IndInv => KnownTreesOnly
    BY DEF IndInv
<1> QED
    BY <1>1, Invariance, PTL

\* retrieveLogEntry finds a leaf under its UUID in whichever shard it is, under an entry
\* ID in the tree that the ID names, and nothing else.
THEOREM LookupCompleteHolds == Spec => []LookupComplete
<1>1. IndInv => LookupComplete
    BY DEF IndInv
<1> QED
    BY <1>1, Invariance, PTL

\* GetLogEntryByIndex answers an index that the log has with the entry that carries
\* it, and any other with 404.
THEOREM IndexedEntryCarriesIndexHolds == Spec => []IndexedEntryCarriesIndex
<1>1. IndInv => IndexedEntryCarriesIndex
    BY DEF IndInv
<1> QED
    BY <1>1, Invariance, PTL

-----------------------------------------------------------------------------
(* Signed notes *)

\* The signature line that Sign adds.
SignatureOf(hostname, k, text) ==
    [name |-> hostname, hash |-> getPublicKeyHash(k), sig |-> Signature(k, text)]

CheckpointOf(hostname, t, root) ==
    [origin |-> <<hostname, t>>, size |-> Len(root), hash |-> root, other |-> << >>]

TextOf(hostname, t, root) ==
    <<<<"origin", <<hostname, t>>>>, <<"size", Len(root)>>, <<"hash", root>>>>

\* The note that all signers have signed.
NoteOf(hostname, t, root, keys) ==
    [note |-> TextOf(hostname, t, root),
     signatures |-> [i \in 1 .. Len(keys) |-> SignatureOf(hostname, keys[i], TextOf(hostname, t, root))]]

\* Append adds one element to a function on 1 .. i - 1.
LEMMA AppendNext ==
    ASSUME NEW S, NEW i \in Nat \ {0}, NEW s \in Seq(S), Len(s) = i - 1, NEW x \in S
    PROVE  Append(s, x) = [j \in 1 .. i |-> IF j = i THEN x ELSE s[j]]
<1>1. Append(s, x) \in Seq(S) /\ Len(Append(s, x)) = i
    OBVIOUS
<1>2. DOMAIN Append(s, x) = 1 .. i
    BY <1>1
<1>3. Append(s, x) = [j \in 1 .. i |-> Append(s, x)[j]]
    <2> DEFINE a == Append(s, x)
    <2>1. a \in [1 .. i -> S]
        BY <1>1, LenProperties
    <2> HIDE DEF a
    <2>2. a = [j \in 1 .. i |-> a[j]]
        BY <2>1
    <2> QED
        BY <2>2 DEF a
<1>4. \A j \in 1 .. i : Append(s, x)[j] = IF j = i THEN x ELSE s[j]
    OBVIOUS
<1> QED
    BY <1>3, <1>4

\* The loop over the signers makes one signature of each, in their order.
LEMMA SignsAll ==
    ASSUME NEW K, NEW keys \in Seq(K), NEW h, NEW t, NEW root
    PROVE  CreateAndSignCheckpointMultiple(h, t, root, keys) = MarshalText(NoteOf(h, t, root, keys))
<1> DEFINE n == Len(keys)
           text == TextOf(h, t, root)
           start == CreateSignedCheckpoint(CheckpointOf(h, t, root))
           sig(i) == SignatureOf(h, keys[i], text)
           note(m) == [note |-> text, signatures |-> [i \in 1 .. m |-> sig(i)]]
           signed == CHOOSE f : f = [i \in 0 .. n |-> IF i = 0 THEN start ELSE Sign(f[i - 1], h, keys[i])]
<1>1. n \in Nat
    OBVIOUS
<1>2. CreateAndSignCheckpointMultiple(h, t, root, keys) = MarshalText(signed[n])
    BY DEF CreateAndSignCheckpointMultiple, CheckpointOf
<1>3. start = note(0)
    BY DEF CreateSignedCheckpoint, MarshalCheckpoint, TextOf, CheckpointOf
<1>4. ASSUME NEW i \in 1 .. n PROVE Sign(note(i - 1), h, keys[i]) = note(i)
    <2> DEFINE S == {sig(j) : j \in 1 .. n}
               s == [j \in 1 .. i - 1 |-> sig(j)]
    <2>1. i \in Nat \ {0} /\ s \in Seq(S) /\ Len(s) = i - 1 /\ sig(i) \in S
        BY <1>1
    <2> HIDE DEF S, s, sig
    <2>2. Append(s, sig(i)) = [j \in 1 .. i |-> IF j = i THEN sig(i) ELSE s[j]]
        BY <2>1, AppendNext
    <2>3. [j \in 1 .. i |-> IF j = i THEN sig(i) ELSE s[j]] = [j \in 1 .. i |-> sig(j)]
        BY <2>1 DEF s
    <2>4. Sign(note(i - 1), h, keys[i]) = [note |-> text, signatures |-> Append(s, sig(i))]
        <3>1. note(i - 1) = [note |-> text, signatures |-> s]
            BY DEF s
        <3>2. sig(i) = [name |-> h, hash |-> getPublicKeyHash(keys[i]), sig |-> Signature(keys[i], text)]
            BY DEF SignatureOf, sig
        <3>3. \A q : Sign([note |-> text, signatures |-> q], h, keys[i])
                       = [note |-> text, signatures |-> Append(q, sig(i))]
            BY <3>2 DEF Sign
        <3> QED
            BY <3>1, <3>3
    <2> QED
        BY <2>2, <2>3, <2>4
<1> HIDE DEF note, start, n
<1>5. signed = [i \in 0 .. n |-> IF i = 0 THEN start ELSE Sign(signed[i - 1], h, keys[i])]
    <2> DEFINE f == [m \in 0 .. n |-> note(m)]
    <2>1. f = [i \in 0 .. n |-> IF i = 0 THEN start ELSE Sign(f[i - 1], h, keys[i])]
        BY <1>1, <1>3, <1>4
    <2> HIDE DEF f
    <2> QED
        BY <2>1
<1> HIDE DEF signed
<1>6. signed[n] = note(n)
    <2> DEFINE T == {m \in 0 .. n : signed[m] = note(m)}
    <2>1. T \subseteq 0 .. n /\ 0 \in T
        BY <1>1, <1>3, <1>5
    <2>2. ASSUME NEW i \in 1 .. n, i - 1 \in T PROVE i \in T
        <3>1. i \in 0 .. n /\ i # 0
            BY <1>1
        <3> QED
            BY <1>4, <1>5, <2>2, <3>1
    <2> HIDE DEF T
    <2>3. T = 0 .. n
        BY <1>1, <2>1, <2>2, Induction
    <2>4. n \in T
        BY <1>1, <2>3
    <2> QED
        BY <2>4 DEF T
<1>7. note(n) = NoteOf(h, t, root, keys)
    BY DEF NoteOf, note, n
<1> QED
    BY <1>2, <1>6, <1>7

\* A checkpoint is three lines, of which none is empty.
LEMMA TextLines ==
    ASSUME NEW h, NEW t, NEW root
    PROVE  LET text == TextOf(h, t, root)
           IN  /\ Len(text) = 3 /\ DOMAIN text = 1 .. 3
               /\ text[1] = <<"origin", <<h, t>>>> /\ text[2] = <<"size", Len(root)>> /\ text[3] = <<"hash", root>>
               /\ \A i \in 1 .. 3 : text[i] # Blank
<1> DEFINE text == TextOf(h, t, root)
<1>1. /\ Len(text) = 3 /\ DOMAIN text = 1 .. 3
      /\ text[1] = <<"origin", <<h, t>>>> /\ text[2] = <<"size", Len(root)>> /\ text[3] = <<"hash", root>>
    BY DEF TextOf
<1>2. text[1][1] = "origin" /\ text[2][1] = "size" /\ text[3][1] = "hash" /\ Blank[1] = "blank"
    BY <1>1 DEF Blank
<1> HIDE DEF text
<1>3. \A i \in 1 .. 3 : i = 1 \/ i = 2 \/ i = 3
    OBVIOUS
<1>4. \A i \in 1 .. 3 : text[i][1] # Blank[1]
    BY <1>2, <1>3
<1> QED
    BY <1>1, <1>4 DEF text

\* Marshalled and parsed, a note is what it was.
LEMMA NoteParses ==
    ASSUME NEW K, NEW keys \in Seq(K), keys # << >>, NEW h, NEW t, NEW root
    PROVE  UnmarshalText(MarshalText(NoteOf(h, t, root, keys))) = {NoteOf(h, t, root, keys)}
<1> DEFINE n == Len(keys)
           text == TextOf(h, t, root)
           sig(i) == SignatureOf(h, keys[i], text)
           tail == [i \in 1 .. n |-> SignatureLine(sig(i))]
           S == {text[1], text[2], text[3], Blank} \union {tail[i] : i \in 1 .. n}
           lines == MarshalText(NoteOf(h, t, root, keys))
<1>1. n \in Nat /\ n # 0
    OBVIOUS
<1>2. /\ Len(text) = 3 /\ DOMAIN text = 1 .. 3
      /\ \A i \in 1 .. 3 : text[i] # Blank /\ text[i] \in S
    BY TextLines
<1>3. tail \in Seq(S) /\ Len(tail) = n
    BY <1>1
<1>4. \A i \in 1 .. n : tail[i] # Blank /\ tail[i][1] = "signature" /\ tail[i][2] = sig(i)
    <2> SUFFICES ASSUME NEW i \in 1 .. n
                 PROVE  tail[i] # Blank /\ tail[i][1] = "signature" /\ tail[i][2] = sig(i)
        OBVIOUS
    <2>1. tail[i] = SignatureLine(sig(i))
        OBVIOUS
    <2> HIDE DEF sig, tail
    <2>2. tail[i][1] = "signature" /\ tail[i][2] = sig(i)
        BY <2>1 DEF SignatureLine
    <2>3. Blank[1] = "blank"
        BY DEF Blank
    <2> QED
        BY <2>2, <2>3
<1>5. lines = text \o <<Blank>> \o tail
    <2>1. NoteOf(h, t, root, keys).note = text
        BY DEF NoteOf
    <2>2. NoteOf(h, t, root, keys).signatures = [i \in 1 .. n |-> sig(i)]
        BY DEF NoteOf
    <2>3. DOMAIN [i \in 1 .. n |-> sig(i)] = 1 .. n /\ \A i \in 1 .. n : [j \in 1 .. n |-> sig(j)][i] = sig(i)
        OBVIOUS
    <2> QED
        BY <2>1, <2>2, <2>3 DEF MarshalText
<1>6. text \in Seq(S) /\ Blank \in S
    BY <1>2 DEF TextOf
<1> HIDE DEF S, text, tail, n, lines
<1>7. /\ lines \in Seq(S) /\ Len(lines) = 4 + n
      /\ \A i \in 1 .. 3 : lines[i] = text[i]
      /\ lines[4] = Blank
      /\ \A i \in 1 .. n : lines[4 + i] = tail[i]
    <2> DEFINE head == text \o <<Blank>>
               blank == <<Blank>>
    <2>0. blank \in Seq(S) /\ Len(blank) = 1 /\ blank[1] = Blank
        BY <1>6
    <2>1. /\ head \in Seq(S) /\ Len(head) = 4 /\ head[4] = Blank
          /\ \A i \in 1 .. 3 : head[i] = text[i]
        <3>1. head = text \o blank
            OBVIOUS
        <3> HIDE DEF head, blank
        <3>2. Joins(text, blank) /\ text \o blank \in Seq(S)
            BY <1>6, <2>0, Joining
        <3>3. 1 \in 1 .. 1 /\ 3 + 1 = 4
            OBVIOUS
        <3> QED
            BY <1>2, <2>0, <3>1, <3>2, <3>3 DEF Joins
    <2>2. lines = head \o tail
        BY <1>5
    <2> HIDE DEF head
    <2>3. /\ lines \in Seq(S) /\ Len(lines) = 4 + n
          /\ \A i \in 1 .. 4 : lines[i] = head[i]
          /\ \A i \in 1 .. n : lines[4 + i] = tail[i]
        <3>1. Joins(head, tail) /\ head \o tail \in Seq(S)
            BY <1>3, <2>1, Joining
        <3> QED
            BY <1>3, <2>1, <2>2, <3>1 DEF Joins
    <2>4. 4 \in 1 .. 4 /\ \A i \in 1 .. 3 : i \in 1 .. 4
        OBVIOUS
    <2> QED
        BY <2>1, <2>3, <2>4
<1> DEFINE I == {i \in 1 .. Len(lines) : lines[i] = Blank}
<1>8. I = {4}
    <2>1. 4 \in I
        BY <1>1, <1>7
    <2>2. ASSUME NEW i \in I PROVE i = 4
        <3>1. i \in 1 .. 3 \/ i = 4 \/ (i - 4 \in 1 .. n /\ 4 + (i - 4) = i)
            BY <1>1, <1>7
        <3> QED
            BY <1>2, <1>4, <1>7, <3>1
    <2> QED
        BY <2>1, <2>2
<1>9. SelectLastInSeq(lines, LAMBDA l : l = Blank) = 4
    <2>1. Max({4}) = 4
        BY DEF Max
    <2> QED
        BY <1>8, <2>1 DEF SelectLastInSeq
<1> DEFINE sigs == SubSeq(lines, 5, Len(lines))
<1>10. /\ DOMAIN sigs = 1 .. n /\ sigs # << >>
       /\ \A i \in 1 .. n : sigs[i] = tail[i]
    <2>1. sigs \in Seq(S) /\ Len(sigs) = n /\ \A i \in 1 .. n : sigs[i] = lines[4 + i]
        BY <1>1, <1>7
    <2> HIDE DEF sigs
    <2> QED
        BY <1>1, <1>7, <2>1
<1>11. SubSeq(lines, 1, 3) = text
    <2> DEFINE a == SubSeq(lines, 1, 3)
    <2>1. a \in Seq(S) /\ Len(a) = 3 /\ \A i \in 1 .. 3 : a[i] = text[i]
        BY <1>1, <1>7
    <2>2. a \in [1 .. 3 -> S] /\ text \in [1 .. 3 -> S]
        BY <1>2, <1>6, <2>1, LenProperties
    <2> HIDE DEF a
    <2>3. a = text
        BY <2>1, <2>2
    <2> QED
        BY <2>3 DEF a
<1>12. UnmarshalText(lines) = {[note |-> SubSeq(lines, 1, 3),
                                signatures |-> [i \in DOMAIN sigs |-> sigs[i][2]]]}
    <2>1. 4 + 1 = 5 /\ 4 - 1 = 3 /\ 4 # 0
        OBVIOUS
    <2>2. \A i \in DOMAIN sigs : sigs[i][1] = "signature"
        BY <1>4, <1>10
    <2> QED
        BY <1>9, <1>10, <2>1, <2>2 DEF UnmarshalText
<1>13. [i \in DOMAIN sigs |-> sigs[i][2]] = [i \in 1 .. n |-> sig(i)]
    BY <1>4, <1>10
<1> QED
    BY <1>11, <1>12, <1>13 DEF NoteOf, lines, text, n

\* The text of a checkpoint parses to it.
LEMMA CheckpointParses ==
    ASSUME NEW h, NEW t, NEW root
    PROVE  UnmarshalCheckpoint(TextOf(h, t, root)) = {CheckpointOf(h, t, root)}
<1> DEFINE text == TextOf(h, t, root)
           I == {i \in 1 .. Len(text) : text[i] = Blank}
<1>1. /\ Len(text) = 3 /\ DOMAIN text = 1 .. 3
      /\ text[1] = <<"origin", <<h, t>>>> /\ text[2] = <<"size", Len(root)>> /\ text[3] = <<"hash", root>>
      /\ \A i \in 1 .. 3 : text[i] # Blank
    BY TextLines
<1>2. SelectInSeq(text, LAMBDA l : l = Blank) = 0
    BY <1>1 DEF SelectInSeq
<1>3. SubSeq(text, 4, Len(text)) = << >>
    <2>1. text \in Seq({text[1], text[2], text[3]})
        BY DEF TextOf
    <2> HIDE DEF text
    <2> QED
        BY <1>1, <2>1
<1>4. \A i \in 1 .. 3 : text[i][1] = <<"origin", "size", "hash">>[i]
    <2>1. text[1][1] = "origin" /\ text[2][1] = "size" /\ text[3][1] = "hash"
        BY <1>1
    <2>2. <<"origin", "size", "hash">>[1] = "origin" /\ <<"origin", "size", "hash">>[2] = "size"
          /\ <<"origin", "size", "hash">>[3] = "hash"
        OBVIOUS
    <2>3. \A i \in 1 .. 3 : i = 1 \/ i = 2 \/ i = 3
        OBVIOUS
    <2> HIDE DEF text
    <2> QED
        BY <2>1, <2>2, <2>3
<1>5. text[1][2] = <<h, t>> /\ text[2][2] = Len(root) /\ text[3][2] = root
    BY <1>1
<1>6. ~(Len(text) < 3)
    BY <1>1
<1> HIDE DEF text
<1>7. UnmarshalCheckpoint(text) = {[origin |-> <<h, t>>, size |-> Len(root), hash |-> root, other |-> << >>]}
    BY <1>2, <1>3, <1>4, <1>5, <1>6 DEF UnmarshalCheckpoint
<1> QED
    BY <1>7 DEF CheckpointOf, text

\* Each of those who signed a note is found to have signed it.
LEMMA NoteVerifies ==
    ASSUME NEW K, NEW keys \in Seq(K), NEW h, NEW t, NEW root, NEW j \in 1 .. Len(keys)
    PROVE  Verify(NoteOf(h, t, root, keys), keys[j])
<1> DEFINE n == Len(keys)
           text == TextOf(h, t, root)
           sigs == [i \in 1 .. n |-> SignatureOf(h, keys[i], text)]
           I == {i \in 1 .. Len(sigs) : sigs[i].hash = getPublicKeyHash(keys[j])}
<1>1. n \in Nat /\ Len(sigs) = n
    OBVIOUS
<1>2. \A i \in 1 .. n : sigs[i].hash = <<"hint", keys[i]>> /\ sigs[i].sig = Signature(keys[i], text)
    BY DEF SignatureOf, getPublicKeyHash
<1>3. NoteOf(h, t, root, keys).note = text /\ NoteOf(h, t, root, keys).signatures = sigs
    BY DEF NoteOf
<1> HIDE DEF n, text, sigs
<1>4. \A i \in I : keys[i] = keys[j] /\ i \in 1 .. n /\ i # 0
    <2> SUFFICES ASSUME NEW i \in I PROVE keys[i] = keys[j] /\ i \in 1 .. n /\ i # 0
        OBVIOUS
    <2>1. i \in 1 .. n /\ i # 0
        BY <1>1
    <2>2. <<"hint", keys[i]>> = <<"hint", keys[j]>>
        BY <1>2, <2>1 DEF getPublicKeyHash
    <2>3. keys[i] = keys[j]
        BY <2>2
    <2> QED
        BY <2>1, <2>3
<1>5. j \in I /\ I \subseteq Nat
    BY <1>1, <1>2 DEF getPublicKeyHash, n
<1>6. SelectInSeq(sigs, LAMBDA s : s.hash = getPublicKeyHash(keys[j])) = Min(I)
    BY <1>5 DEF SelectInSeq
<1> HIDE DEF I
<1>7. Min(I) \in I
    BY <1>5, MinIsLeast
<1>8. Min(I) # 0 /\ sigs[Min(I)].sig = Signature(keys[j], text)
    BY <1>2, <1>4, <1>7
<1> QED
    BY <1>3, <1>6, <1>8 DEF Verify

-----------------------------------------------------------------------------
(* What clients make of the answers *)

\* The keys of a shard.
SignersOf(t) == GetLogRangeByTreeID(t)[1].Signers

\* The checkpoint that the server sends for a shard, cached or not.
SentCheckpoint(t) ==
    IF t \in DOMAIN cachedCheckpoints THEN cachedCheckpoints[t]
    ELSE CreateAndSignCheckpointMultiple(Hostname, t, leaves[t], SignersOf(t))

\* Every shard has keys, and those of an inactive one have signed its cached checkpoint.
Signed ==
    /\ active.Signers \in Configs
    /\ \A i \in 1 .. Len(inactive) : inactive[i].Signers \in Configs
    /\ DOMAIN cachedCheckpoints = {inactive[i].TreeID : i \in 1 .. Len(inactive)}
    /\ \A t \in DOMAIN cachedCheckpoints :
          cachedCheckpoints[t] = CreateAndSignCheckpointMultiple(Hostname, t, leaves[t], SignersOf(t))

\* An entry that answers a request for id.
Answers(id, e) ==
    \E t \in Shards : \E i \in DOMAIN leaves[t] :
        /\ e = LogEntryFromLeaf(t, i)
        /\ leaves[t][i] = id.uuid
        /\ id.form = "entry" => id.tree = t

\* What the server has answered is about the leaves of its shards.
Replied ==
    /\ request.op \in {"uuid", "search"} =>
          request.id \in IDs /\ \A e \in reply.entries : Answers(request.id, e)
    /\ request.op = "index" =>
          \A e \in reply.entries : \E t \in Shards : \E i \in DOMAIN leaves[t] : e = LogEntryFromLeaf(t, i)
    /\ request.op = "info" =>
          \A info \in reply.entries : \E t \in Shards : info = ShardInfo(t, SentCheckpoint(t))

\* A client is given the keys of the shard that it asks about.
LEMMA ShardKeys ==
    ASSUME Config, Signed, NEW t \in Shards
    PROVE  /\ SignersOf(t) \in Configs
           /\ SignersOf(t) \in Seq(Keys) /\ SignersOf(t) # << >>
           /\ 1 \in DOMAIN SignersOf(t)
           /\ PublicKeys(t) = SignersOf(t)
           /\ PublicKey(t) = {SignersOf(t)[1]}
<1>1. SignersOf(t) \in Configs
    <2>1. CASE t = active.TreeID
        <3>1. GetLogRangeByTreeID(t) = <<active>>
            BY <2>1 DEF GetLogRangeByTreeID
        <3> QED
            BY <3>1 DEF SignersOf, Signed
    <2>2. CASE t # active.TreeID
        <3>1. PICK i \in 1 .. Len(inactive) : inactive[i].TreeID = t
            BY <2>2 DEF Shards
        <3>2. InactiveShard(t) = i /\ i # 0
            <4>1. InactiveShard(inactive[i].TreeID) = i
                BY InactiveShardFound
            <4>2. i # 0
                BY DEF Config
            <4> QED
                BY <3>1, <4>1, <4>2
        <3>3. GetLogRangeByTreeID(t) = <<inactive[i]>>
            BY <2>2, <3>2 DEF GetLogRangeByTreeID
        <3> QED
            BY <3>3 DEF SignersOf, Signed
    <2> QED
        BY <2>1, <2>2
<1>2. SignersOf(t) \in Seq(Keys) /\ SignersOf(t) # << >>
    BY <1>1, ConfigsAssumption
<1>3. 1 \in DOMAIN SignersOf(t)
    <2> DEFINE s == SignersOf(t)
    <2>1. s \in Seq(Keys) /\ s # << >>
        BY <1>2
    <2> HIDE DEF s
    <2>2. 1 \in DOMAIN s
        BY <2>1
    <2> QED
        BY <2>2 DEF s
<1>4. t # 0
    BY AllShardsAre, TreeIDsAssumption
<1>5. GetLogRangeByTreeID(t) # << >>
    BY RangeFound
<1>6. PublicKeys(t) = SignersOf(t)
    BY <1>4, <1>5 DEF PublicKeys, SignersOf
<1>7. PublicKey(t) = {SignersOf(t)[1]}
    BY <1>2, <1>6 DEF PublicKey
<1> QED
    BY <1>1, <1>2, <1>3, <1>6, <1>7

\* The checkpoint of a shard parses to the note that all keys of the shard signed.
LEMMA SentParses ==
    ASSUME Config, Signed, NEW t \in Shards
    PROVE  LET note == NoteOf(Hostname, t, leaves[t], SignersOf(t))
           IN  /\ UnmarshalText(SentCheckpoint(t)) = {note}
               /\ UnmarshalSignedCheckpoint(SentCheckpoint(t)) =
                     {[checkpoint |-> CheckpointOf(Hostname, t, leaves[t]), signed |-> note]}
               /\ \A i \in DOMAIN SignersOf(t) : Verify(note, SignersOf(t)[i])
<1> DEFINE keys == SignersOf(t)
           note == NoteOf(Hostname, t, leaves[t], keys)
<1>1. keys \in Seq(Keys) /\ keys # << >>
    BY ShardKeys
<1>2. SentCheckpoint(t) = CreateAndSignCheckpointMultiple(Hostname, t, leaves[t], keys)
    BY DEF SentCheckpoint, Signed
<1> HIDE DEF keys
<1>3. SentCheckpoint(t) = MarshalText(note)
    BY <1>1, <1>2, SignsAll
<1>4. UnmarshalText(SentCheckpoint(t)) = {note}
    BY <1>1, <1>3, NoteParses
<1>5. note.note = TextOf(Hostname, t, leaves[t])
    BY DEF NoteOf
<1>6. \A i \in DOMAIN keys : Verify(note, keys[i])
    BY <1>1, NoteVerifies, LenProperties
<1> HIDE DEF note
<1>7. UnmarshalSignedCheckpoint(SentCheckpoint(t)) =
         {[checkpoint |-> CheckpointOf(Hostname, t, leaves[t]), signed |-> note]}
    <2>1. UnmarshalCheckpoint(note.note) = {CheckpointOf(Hostname, t, leaves[t])}
        BY <1>5, CheckpointParses
    <2> QED
        BY <1>4, <2>1 DEF UnmarshalSignedCheckpoint
<1> QED
    BY <1>4, <1>6, <1>7 DEF note, keys

\* What an entry carries, and who signed it.
LEMMA EntryCarries ==
    ASSUME Config, Signed, NEW t \in Shards, NEW i \in DOMAIN leaves[t]
    PROVE  LET e == LogEntryFromLeaf(t, i)
               p == e.inclusionProof
               keys == SignersOf(t)
           IN  /\ e.id = EntryForm(t, leaves[t][i]) /\ e.body = leaves[t][i]
               /\ p.treeSize = Len(leaves[t]) /\ p.rootHash = leaves[t] /\ p.hashes = leaves[t]
               /\ p.logIndex = i - 1 /\ p.checkpoint = SentCheckpoint(t)
               /\ e.signedEntryTimestamp = Signature(keys[1], Bundle(e))
               /\ DOMAIN e.additional = 1 .. Len(keys) - 1 /\ Len(e.additional) = Len(keys) - 1
               /\ \A k \in 1 .. Len(keys) - 1 :
                     /\ e.additional[k].logID = LogID(keys[k + 1])
                     /\ e.additional[k].set = Signature(keys[k + 1], Bundle(e))
<1> DEFINE keys == SignersOf(t)
           e0 == [body |-> leaves[t][i], logIndex |-> VirtualLogIndex(i - 1, t), logID |-> LogID(keys[1])]
           sets == signEntryMultiple(keys, e0)
           p == [treeSize |-> Len(leaves[t]), rootHash |-> leaves[t], logIndex |-> i - 1,
                 hashes |-> leaves[t], checkpoint |-> SentCheckpoint(t)]
           more == [k \in 1 .. Len(sets) - 1 |->
                      [logID |-> LogID(keys[k + 1]), set |-> sets[k + 1]]]
           e == LogEntryFromLeaf(t, i)
<1>1. e = [id |-> CreateEntryIDFromParts(t, leaves[t][i]).id,
           body |-> e0.body, logIndex |-> e0.logIndex, logID |-> e0.logID,
           inclusionProof |-> p, signedEntryTimestamp |-> sets[1], additional |-> more]
    BY DEF LogEntryFromLeaf, SentCheckpoint, SignersOf
<1>2. keys \in Seq(Keys) /\ 1 \in DOMAIN keys
    BY ShardKeys
<1>3. Len(keys) \in Nat /\ DOMAIN keys = 1 .. Len(keys)
    BY <1>2
<1> HIDE DEF keys
<1>4. sets = [k \in 1 .. Len(keys) |-> Signature(keys[k], Bundle(e0))]
    BY <1>3 DEF signEntryMultiple
<1>5. Len(sets) = Len(keys)
    BY <1>3, <1>4
<1>6. Bundle(e) = Bundle(e0)
    <2> HIDE DEF p, sets, more
    <2> QED
        BY <1>1 DEF Bundle
<1>7. CreateEntryIDFromParts(t, leaves[t][i]).id = EntryForm(t, leaves[t][i])
    BY DEF CreateEntryIDFromParts
<1>8. sets[1] = Signature(keys[1], Bundle(e0))
    BY <1>2, <1>3, <1>4
<1>9. \A k \in 1 .. Len(keys) - 1 : sets[k + 1] = Signature(keys[k + 1], Bundle(e0))
    <2>1. \A k \in 1 .. Len(keys) - 1 : k + 1 \in 1 .. Len(keys)
        BY <1>3
    <2> QED
        BY <1>4, <2>1
<1> HIDE DEF sets
<1>10. /\ DOMAIN more = 1 .. Len(keys) - 1
       /\ \A k \in 1 .. Len(keys) - 1 :
             more[k].logID = LogID(keys[k + 1]) /\ more[k].set = sets[k + 1]
    BY <1>5
<1>11. Len(more) = Len(keys) - 1
    BY <1>2, <1>3, <1>5
<1> HIDE DEF more
<1>12. e.id = EntryForm(t, leaves[t][i]) /\ e.body = leaves[t][i] /\ e.additional = more
       /\ e.signedEntryTimestamp = sets[1] /\ e.inclusionProof = p
    BY <1>1, <1>7
<1> HIDE DEF e, e0
<1>13. /\ e.inclusionProof.treeSize = Len(leaves[t]) /\ e.inclusionProof.rootHash = leaves[t]
       /\ e.inclusionProof.hashes = leaves[t] /\ e.inclusionProof.logIndex = i - 1
       /\ e.inclusionProof.checkpoint = SentCheckpoint(t)
    BY <1>12
<1> HIDE DEF p
<1> QED
    BY <1>6, <1>8, <1>9, <1>10, <1>11, <1>12, <1>13 DEF e, keys

\* The entry ID that the server composed is read back by the client.
LEMMA EntryIDRead ==
    ASSUME NEW t \in TreeIDs, NEW u \in UUIDs
    PROVE  /\ GetTreeIDFromIDString(EntryForm(t, u)) = [err |-> Nil, tree |-> t]
           /\ GetUUIDFromIDString(EntryForm(t, u)) = [err |-> Nil, uuid |-> u]
<1> DEFINE id == EntryForm(t, u)
<1>1. id \in IDs
    BY DEF IDs
<1>2. id.form = "entry" /\ id.tree = t /\ id.uuid = u
    BY DEF EntryForm
<1> HIDE DEF id
<1>3. id.form # "uuid" /\ id.tree \in TreeIDs
    BY <1>2
<1>4. /\ GetTreeIDFromIDString(id) = [err |-> Nil, tree |-> id.tree]
      /\ GetUUIDFromIDString(id) = [err |-> Nil, uuid |-> id.uuid]
    BY <1>1, <1>3, IDKinds
<1> QED
    BY <1>2, <1>4 DEF id

\* An entry of any shard passes the checks of both clients.
LEMMA EntryAccepted ==
    ASSUME Config, Signed, NEW t \in Shards, NEW i \in DOMAIN leaves[t],
           NEW e, e = LogEntryFromLeaf(t, i)
    PROVE  Accepts(e) /\ AcceptsAll(e)
<1> DEFINE keys == SignersOf(t)
           p == e.inclusionProof
           note == NoteOf(Hostname, t, leaves[t], keys)
           c == CheckpointOf(Hostname, t, leaves[t])
<1>1. t \in TreeIDs /\ leaves[t] \in Seq(UUIDs)
    BY AllShardsAre DEF Config
<1>2. leaves[t][i] \in UUIDs /\ i - 1 < Len(leaves[t]) /\ (i - 1) + 1 = i
    BY <1>1
<1>3. /\ e.id = EntryForm(t, leaves[t][i]) /\ e.body = leaves[t][i]
      /\ p.treeSize = Len(leaves[t]) /\ p.rootHash = leaves[t] /\ p.hashes = leaves[t]
      /\ p.logIndex = i - 1 /\ p.checkpoint = SentCheckpoint(t)
      /\ e.signedEntryTimestamp = Signature(keys[1], Bundle(e))
      /\ DOMAIN e.additional = 1 .. Len(keys) - 1 /\ Len(e.additional) = Len(keys) - 1
      /\ \A k \in 1 .. Len(keys) - 1 :
            /\ e.additional[k].logID = LogID(keys[k + 1])
            /\ e.additional[k].set = Signature(keys[k + 1], Bundle(e))
    BY EntryCarries
<1>4. GetTreeIDFromIDString(e.id) = [err |-> Nil, tree |-> t]
    BY <1>1, <1>2, <1>3, EntryIDRead
<1>5. GetTreeIDFromIDString(e.id).err = Nil /\ GetTreeIDFromIDString(e.id).tree = t
    BY <1>4
<1>6. PublicKeys(t) = keys /\ PublicKey(t) = {keys[1]} /\ 1 \in DOMAIN keys /\ keys # << >>
    BY ShardKeys
<1>7. /\ UnmarshalText(p.checkpoint) = {note}
      /\ UnmarshalSignedCheckpoint(p.checkpoint) = {[checkpoint |-> c, signed |-> note]}
      /\ \A k \in DOMAIN keys : Verify(note, keys[k])
    BY <1>3, SentParses
<1>8. c.hash = leaves[t]
    BY DEF CheckpointOf
<1>9. VerifyInclusion(e)
    <2> DEFINE s == leaves[t]
    <2>1. s \in [1 .. Len(s) -> UUIDs] /\ i \in DOMAIN s
        BY <1>1, LenProperties
    <2> HIDE DEF s
    <2>2. [s EXCEPT ![i] = s[i]] = s
        BY <2>1
    <2> QED
        BY <1>2, <1>3, <2>2 DEF VerifyInclusion, VerifyMerkle, s
<1> HIDE DEF keys, note, c
<1>10. VerifyCheckpointSignature(e, keys[1])
    <2> DEFINE sth == [checkpoint |-> c, signed |-> note]
    <2>1. sth.checkpoint = c /\ sth.signed = note
        OBVIOUS
    <2>2. sth \in UnmarshalSignedCheckpoint(p.checkpoint)
        BY <1>7
    <2> HIDE DEF sth
    <2> QED
        BY <1>3, <1>6, <1>7, <1>8, <2>1, <2>2 DEF VerifyCheckpointSignature
<1>11. VerifyLogEntry(e, keys[1])
    BY <1>3, <1>9, <1>10 DEF VerifyLogEntry, VerifySignedEntryTimestamp
<1>12. Accepts(e)
    BY <1>5, <1>6, <1>11 DEF Accepts
<1>13. VerifyAll(note, keys)
    BY <1>6, <1>7 DEF VerifyAll
<1>14. AcceptsAll(e)
    BY <1>3, <1>5, <1>6, <1>7, <1>13 DEF AcceptsAll
<1> QED
    BY <1>12, <1>14

\* A client that asked for an entry by its ID takes the answer for that entry.
LEMMA AnswerMatches ==
    ASSUME Config, Signed, NEW id \in IDs, NEW e, Answers(id, e)
    PROVE  SameEntry(id, e.id) /\ verifyBodyMatchesUUID(e) /\ Accepts(e) /\ AcceptsAll(e)
<1>1. PICK t \in Shards : \E i \in DOMAIN leaves[t] :
          e = LogEntryFromLeaf(t, i) /\ leaves[t][i] = id.uuid /\ (id.form = "entry" => id.tree = t)
    BY DEF Answers
<1>2. PICK i \in DOMAIN leaves[t] :
          e = LogEntryFromLeaf(t, i) /\ leaves[t][i] = id.uuid /\ (id.form = "entry" => id.tree = t)
    BY <1>1
<1>3. t \in TreeIDs /\ leaves[t] \in Seq(UUIDs)
    BY AllShardsAre DEF Config
<1>4. leaves[t][i] \in UUIDs
    BY <1>3
<1>5. e.id = EntryForm(t, leaves[t][i]) /\ e.body = leaves[t][i]
    BY <1>2, EntryCarries
<1>6. /\ GetTreeIDFromIDString(e.id) = [err |-> Nil, tree |-> t]
      /\ GetUUIDFromIDString(e.id) = [err |-> Nil, uuid |-> leaves[t][i]]
    BY <1>3, <1>4, <1>5, EntryIDRead
<1>7. GetUUIDFromIDString(id) = [err |-> Nil, uuid |-> id.uuid]
      /\ \/ GetTreeIDFromIDString(id) = [err |-> PlainUUID, tree |-> 0]
         \/ GetTreeIDFromIDString(id) = [err |-> Nil, tree |-> t]
    BY <1>2, <1>3, IDKinds
<1>8. SameEntry(id, e.id)
    BY <1>2, <1>6, <1>7 DEF SameEntry
<1>9. verifyBodyMatchesUUID(e)
    BY <1>5, <1>6 DEF verifyBodyMatchesUUID
<1>10. Accepts(e) /\ AcceptsAll(e)
    BY <1>2, EntryAccepted
<1> QED
    BY <1>8, <1>9, <1>10

\* So does the tree head of any shard.
LEMMA InfoAccepted ==
    ASSUME Config, Signed, NEW t \in Shards
    PROVE  verifyTree(ShardInfo(t, SentCheckpoint(t)))
<1> DEFINE keys == SignersOf(t)
           note == NoteOf(Hostname, t, leaves[t], keys)
           sth == [checkpoint |-> CheckpointOf(Hostname, t, leaves[t]), signed |-> note]
           info == ShardInfo(t, SentCheckpoint(t))
<1>1. info.tree = t /\ info.signedTreeHead = SentCheckpoint(t)
    BY DEF ShardInfo
<1>2. PublicKey(t) = {keys[1]} /\ 1 \in DOMAIN keys
    BY ShardKeys
<1>3. sth \in UnmarshalSignedCheckpoint(info.signedTreeHead) /\ Verify(note, keys[1])
    BY <1>1, <1>2, SentParses
<1>4. sth.signed = note
    OBVIOUS
<1> HIDE DEF sth, note, keys, info
<1>5. verifyTree(info)
    BY <1>1, <1>2, <1>3, <1>4 DEF verifyTree
<1> QED
    BY <1>5 DEF info

\* The answers depend on nothing but the configuration and the trees.
LEMMA AnswersKept ==
    ASSUME UNCHANGED ranges
    PROVE  /\ Shards' = Shards
           /\ \A t, i : LogEntryFromLeaf(t, i)' = LogEntryFromLeaf(t, i)
           /\ \A t : SentCheckpoint(t)' = SentCheckpoint(t)
           /\ \A t, c : ShardInfo(t, c)' = ShardInfo(t, c)
           /\ \A id, e : Answers(id, e)' <=> Answers(id, e)
           /\ Signed' <=> Signed
<1>1. leaves' = leaves /\ inactive' = inactive /\ active' = active /\ cachedCheckpoints' = cachedCheckpoints
    BY DEF ranges
<1>2. Before' = Before
    BY <1>1 DEF Before
<1>3. \A t : InactiveShard(t)' = InactiveShard(t)
    BY <1>1 DEF InactiveShard, SelectInSeq
<1>4. \A t : GetLogRangeByTreeID(t)' = GetLogRangeByTreeID(t)
    BY <1>1, <1>3 DEF GetLogRangeByTreeID
<1>5. \A k, t : VirtualLogIndex(k, t)' = VirtualLogIndex(k, t)
    BY <1>1, <1>2, <1>3 DEF VirtualLogIndex, TotalInactiveLength
<1>6. ASSUME NEW t, NEW i PROVE LogEntryFromLeaf(t, i)' = LogEntryFromLeaf(t, i)
    <2>1. GetLogRangeByTreeID(t)' = GetLogRangeByTreeID(t)
        BY <1>4
    <2>2. VirtualLogIndex(i - 1, t)' = VirtualLogIndex(i - 1, t)
        BY <1>5
    <2> QED
        BY <1>1, <2>1, <2>2, Zenon DEF LogEntryFromLeaf
<1>7. \A t : SignersOf(t)' = SignersOf(t)
    BY <1>4 DEF SignersOf
<1>8. \A t : SentCheckpoint(t)' = SentCheckpoint(t)
    BY <1>1, <1>7 DEF SentCheckpoint
<1>9. \A t, c : ShardInfo(t, c)' = ShardInfo(t, c)
    BY <1>1 DEF ShardInfo
<1>10. Shards' = Shards
    BY <1>1 DEF Shards
<1>11. \A id, e : Answers(id, e)' <=> Answers(id, e)
    BY <1>1, <1>6, <1>10 DEF Answers
<1>12. Signed' <=> Signed
    BY <1>1, <1>7 DEF Signed
<1> QED
    BY <1>6, <1>8, <1>9, <1>10, <1>11, <1>12

\* The checkpoints cached at the start are signed by the keys of their shards.
LEMMA InitSigned == Init => Signed
<1> SUFFICES ASSUME Init PROVE Signed
    OBVIOUS
<1>0. Config
    BY InitConfig
<1>1. PICK shards \in ShardLists, own \in Configs :
          LET n == Len(shards) - 1
          IN  /\ active = InitializeRange(shards[n + 1], 0, own, own)
              /\ \E config \in [1 .. n -> Configs \union {Unset}] :
                    inactive = [i \in 1 .. n |->
                                  InitializeRange(shards[i], Len(leaves[shards[i]]), config[i], own)]
              /\ cachedCheckpoints =
                    [t \in {inactive[i].TreeID : i \in 1 .. n} |->
                       CreateAndSignCheckpointMultiple(Hostname, t, leaves[t],
                                                       GetLogRangeByTreeID(t)[1].Signers)]
    BY DEF Init
<1> DEFINE n == Len(shards) - 1
<1>2. PICK config \in [1 .. n -> Configs \union {Unset}] :
          inactive = [i \in 1 .. n |->
                        InitializeRange(shards[i], Len(leaves[shards[i]]), config[i], own)]
    BY <1>1
<1>3. Len(inactive) \in Nat /\ DOMAIN inactive = 1 .. Len(inactive) /\ DOMAIN inactive = 1 .. n
    BY <1>0, <1>2 DEF Config
<1>4. active.Signers = own
    BY <1>1 DEF InitializeRange
<1>5. \A i \in 1 .. n : inactive[i].Signers \in Configs
    BY <1>2 DEF InitializeRange
<1>6. cachedCheckpoints = [t \in {inactive[i].TreeID : i \in 1 .. n} |->
                             CreateAndSignCheckpointMultiple(Hostname, t, leaves[t], SignersOf(t))]
    BY <1>1 DEF SignersOf
<1> HIDE DEF n
<1>7. /\ DOMAIN cachedCheckpoints = {inactive[i].TreeID : i \in 1 .. Len(inactive)}
      /\ \A t \in DOMAIN cachedCheckpoints :
            cachedCheckpoints[t] = CreateAndSignCheckpointMultiple(Hostname, t, leaves[t], SignersOf(t))
    BY <1>3, <1>6
<1> QED
    BY <1>3, <1>4, <1>5, <1>7 DEF Signed

HonestInv == Signed /\ Replied /\ HonestAnswersAccepted

\* What is found of a leaf answers a request for it.
LEMMA FoundAnswers ==
    ASSUME NEW t \in Shards, NEW id, id.form = "entry" => id.tree = t, NEW e \in Found(t, id.uuid)
    PROVE  Answers(id, e)
BY DEF Found, Answers

\* retrieveLogEntry answers with the entry it was asked for.
LEMMA RetrievedAnswers ==
    ASSUME Config, NEW id \in IDs, NEW e \in RetrieveLogEntry(id).reply.entries
    PROVE  Answers(id, e)
<1> DEFINE uuid == GetUUIDFromIDString(id)
           tid == GetTreeIDFromIDString(id)
           r == RetrieveLogEntry(id)
<1>0. Nil # Error /\ Nil # NoTree /\ Nil # PlainUUID /\ NoTree # Error /\ NoTree # PlainUUID /\ Error # PlainUUID
    BY DEF Nil, Error, NoTree, PlainUUID
<1>1. CASE /\ id.form = "uuid"
           /\ uuid = [err |-> Nil, uuid |-> id.uuid]
           /\ tid = [err |-> PlainUUID, tree |-> 0]
    <2> DEFINE hit == FirstWith(id.uuid)
    <2>1. r.reply = IF hit = 0 THEN NotFound ELSE Answer(200, Found(AllShards[hit], id.uuid))
        BY <1>0, <1>1 DEF RetrieveLogEntry, FirstWith
    <2>2. hit # 0 /\ e \in Found(AllShards[hit], id.uuid)
        BY <2>1 DEF NotFound, Answer
    <2>3. AllShards[hit] \in Shards
        BY <2>2, FromAnyTree
    <2> HIDE DEF hit
    <2> QED
        BY <1>1, <2>2, <2>3, FoundAnswers
<1>2. CASE /\ id.form = "entry" /\ id.tree \in TreeIDs
           /\ uuid = [err |-> Nil, uuid |-> id.uuid]
           /\ tid = [err |-> Nil, tree |-> id.tree]
    <2>1. r = RetrieveUUIDFromTree(id.uuid, id.tree)
        BY <1>0, <1>2 DEF RetrieveLogEntry
    <2>2. id.tree \in Shards /\ e \in Found(id.tree, id.uuid)
        BY <2>1, RangeFound DEF RetrieveUUIDFromTree, NotFound, Answer
    <2> QED
        BY <2>2, FoundAnswers
<1>3. CASE id.form = "entry" /\ id.tree \notin TreeIDs
    BY <1>3, Retrieved
<1> QED
    BY <1>1, <1>2, <1>3, IDKinds

\* An answer about leaves of the shards keeps the invariant.
LEMMA ServeHonest ==
    ASSUME HonestInv, NEW req, NEW result, Serve(req, result),
           req.op \in {"uuid", "search"} =>
              req.id \in IDs /\ \A e \in result.reply.entries : Answers(req.id, e),
           req.op = "index" =>
              \A e \in result.reply.entries :
                 \E t \in Shards : \E i \in DOMAIN leaves[t] : e = LogEntryFromLeaf(t, i),
           req.op = "info" =>
              \A info \in result.reply.entries : \E t \in Shards : info = ShardInfo(t, SentCheckpoint(t))
    PROVE  HonestInv'
<1>1. request' = req /\ reply' = result.reply /\ verdict' = verdict /\ UNCHANGED ranges
    BY DEF Serve
<1>2. leaves' = leaves
    BY <1>1 DEF ranges
<1>3. HonestAnswersAccepted' /\ Signed'
    BY <1>1, AnswersKept DEF HonestInv, HonestAnswersAccepted
<1>4. Replied'
    BY <1>1, <1>2, AnswersKept DEF Replied
<1> QED
    BY <1>3, <1>4 DEF HonestInv

\* So does a verdict other than a rejection.
LEMMA JudgeHonest ==
    ASSUME HonestInv, NEW outcome, Judge(outcome), outcome # "rejected"
    PROVE  HonestInv'
<1>1. request' = request /\ reply' = reply /\ verdict' = outcome /\ UNCHANGED ranges
    BY DEF Judge
<1>2. leaves' = leaves
    BY <1>1 DEF ranges
<1>3. HonestAnswersAccepted' /\ Signed'
    BY <1>1, AnswersKept DEF HonestInv, HonestAnswersAccepted
<1>4. Replied'
    BY <1>1, <1>2, AnswersKept DEF HonestInv, Replied
<1> QED
    BY <1>3, <1>4 DEF HonestInv

\* Every answer is about leaves of the shards, and no verdict is a rejection.
LEMMA NextHonest == IndInv /\ HonestInv /\ [Next]_vars => HonestInv'
<1> SUFFICES ASSUME IndInv, HonestInv, [Next]_vars PROVE HonestInv'
    OBVIOUS
<1>0. Config /\ Signed /\ Replied
    BY DEF IndInv, HonestInv
<1>1. ASSUME NEW id \in IDs, GetLogEntryByUUID(id) PROVE HonestInv'
    <2> DEFINE req == [op |-> "uuid", id |-> id]
    <2>1. Serve(req, RetrieveLogEntry(id))
        BY <1>1 DEF GetLogEntryByUUID
    <2>2. req.op = "uuid" /\ req.id = id
        OBVIOUS
    <2>3. \A e \in RetrieveLogEntry(id).reply.entries : Answers(id, e)
        BY <1>0, RetrievedAnswers
    <2> HIDE DEF req
    <2> QED
        BY <2>1, <2>2, <2>3, ServeHonest
<1>2. ASSUME NEW v \in 0 .. Length, GetLogEntryByIndex(v) PROVE HonestInv'
    <2> DEFINE t == ResolveVirtualIndex(v)[1]
               i == ResolveVirtualIndex(v)[2] + 1
               req == [op |-> "index", index |-> v]
               result == [asked |-> {t},
                          reply |-> IF i \in DOMAIN leaves[t]
                                    THEN Answer(200, {LogEntryFromLeaf(t, i)}) ELSE NotFound]
    <2>1. Serve(req, result)
        BY <1>2 DEF GetLogEntryByIndex
    <2>2. req.op = "index"
        OBVIOUS
    <2>3. v \in Nat
        OBVIOUS
    <2>4. t \in Shards
        BY <1>0, <2>3, ByIndex
    <2> HIDE DEF t, i
    <2>5. result.reply.entries = IF i \in DOMAIN leaves[t] THEN {LogEntryFromLeaf(t, i)} ELSE {}
        BY DEF Answer, NotFound
    <2> HIDE DEF req, result
    <2>6. \A e \in result.reply.entries :
             \E tt \in Shards : \E ii \in DOMAIN leaves[tt] : e = LogEntryFromLeaf(tt, ii)
        BY <2>4, <2>5
    <2> QED
        BY <2>1, <2>2, <2>6, ServeHonest
<1>3. ASSUME NEW id \in IDs, SearchLogQuery(id) PROVE HonestInv'
    <2> DEFINE req == [op |-> "search", id |-> id]
               exact == RetrieveLogEntry(id)
               result ==
                  CASE ValidateEntryID(id) = Nil ->
                         [asked |-> exact.asked, reply |-> Answer(200, exact.reply.entries)]
                    [] ValidateEntryID(id) # Nil /\ id.form = "entry" ->
                         [asked |-> {}, reply |-> Answer(400, {})]
                    [] OTHER ->
                         [asked |-> ToSet(AllShards),
                          reply |-> Answer(200, UNION {Found(t, id.uuid) : t \in ToSet(AllShards)})]
    <2>1. Serve(req, result)
        BY <1>3 DEF SearchLogQuery
    <2>2. req.op = "search" /\ req.id = id
        OBVIOUS
    <2>3. \A e \in exact.reply.entries : Answers(id, e)
        BY <1>0, RetrievedAnswers
    <2>4. ASSUME NEW e \in result.reply.entries PROVE Answers(id, e)
        <3>1. CASE ValidateEntryID(id) = Nil
            <4> HIDE DEF exact
            <4>1. result.reply.entries = exact.reply.entries
                BY <3>1 DEF Answer
            <4> HIDE DEF result
            <4> QED
                BY <2>3, <2>4, <4>1
        <3>2. CASE ValidateEntryID(id) # Nil /\ id.form = "entry"
            <4> HIDE DEF exact
            <4>1. result.reply.entries = {}
                BY <3>2 DEF Answer
            <4> HIDE DEF result
            <4> QED
                BY <2>4, <4>1
        <3>3. CASE ValidateEntryID(id) # Nil /\ id.form # "entry"
            <4> HIDE DEF exact
            <4>1. result.reply.entries = UNION {Found(t, id.uuid) : t \in ToSet(AllShards)}
                BY <3>3 DEF Answer
            <4> HIDE DEF result
            <4>2. PICK t \in Shards : e \in Found(t, id.uuid)
                BY <1>0, <2>4, <4>1, AllShardsAre
            <4> QED
                BY <3>3, <4>2, FoundAnswers
        <3> QED
            BY <3>1, <3>2, <3>3
    <2> HIDE DEF req, result
    <2> QED
        BY <2>1, <2>2, <2>4, ServeHonest
<1>4. ASSUME NEW t, NEW m, NEW n, GetLogProof(t, m, n) PROVE HonestInv'
    <2> DEFINE req == [op |-> "proof", tree |-> t]
    <2>1. PICK result : Serve(req, result)
        BY <1>4 DEF GetLogProof
    <2>2. req.op = "proof"
        OBVIOUS
    <2> HIDE DEF req
    <2> QED
        BY <2>1, <2>2, ServeHonest
<1>5. ASSUME GetLogInfo PROVE HonestInv'
    <2> DEFINE req == [op |-> "info"]
               own == ShardInfo(active.TreeID,
                         CreateAndSignCheckpointMultiple(Hostname, active.TreeID,
                                                         leaves[active.TreeID], active.Signers))
               others == {ShardInfo(t, cachedCheckpoints[t]) : t \in DOMAIN cachedCheckpoints}
               result == [asked |-> ToSet(AllShards), reply |-> Answer(200, others \union {own})]
    <2>1. Serve(req, result)
        BY <1>5 DEF GetLogInfo
    <2>2. req.op = "info"
        OBVIOUS
    <2>3. \A t \in DOMAIN cachedCheckpoints : t \in Shards /\ SentCheckpoint(t) = cachedCheckpoints[t]
        BY <1>0 DEF Signed, Shards, SentCheckpoint
    <2>4. own = ShardInfo(active.TreeID, SentCheckpoint(active.TreeID))
        <3>1. active.TreeID \notin DOMAIN cachedCheckpoints
            BY <1>0 DEF Config, Signed
        <3>2. SignersOf(active.TreeID) = active.Signers
            BY DEF SignersOf, GetLogRangeByTreeID
        <3> QED
            BY <3>1, <3>2 DEF SentCheckpoint
    <2>5. active.TreeID \in Shards
        BY DEF Shards
    <2> HIDE DEF own
    <2>6. \A info \in others \union {own} : \E t \in Shards : info = ShardInfo(t, SentCheckpoint(t))
        BY <2>3, <2>4, <2>5
    <2> HIDE DEF others
    <2>7. result.reply.entries = others \union {own}
        BY DEF Answer
    <2> HIDE DEF req, result
    <2> QED
        BY <2>1, <2>2, <2>6, <2>7, ServeHonest
<1>6. ASSUME GetEntries PROVE HonestInv'
    <2> DEFINE ok == \A e \in reply.entries :
                        (request.op = "uuid" => SameEntry(request.id, e.id)) /\ Accepts(e)
    <2>1. request.op \in {"uuid", "index"} /\ Judge(Verdict(ok))
        BY <1>6 DEF GetEntries
    <2>2. ok
        BY <1>0, <2>1, AnswerMatches, EntryAccepted DEF Replied
    <2> HIDE DEF ok
    <2>3. Verdict(ok) = "accepted"
        BY <2>2 DEF Verdict
    <2> QED
        BY <2>1, <2>3, JudgeHonest
<1>7. ASSUME VerifyEntry PROVE HonestInv'
    <2> DEFINE ok == \A e \in reply.entries :
                        verifyBodyMatchesUUID(e) /\ SameEntry(request.id, e.id) /\ Accepts(e)
    <2>1. request.op = "search" /\ Judge(IF Cardinality(reply.entries) # 1 THEN "failed" ELSE Verdict(ok))
        BY <1>7 DEF VerifyEntry
    <2>2. ok
        BY <1>0, <2>1, AnswerMatches DEF Replied
    <2> HIDE DEF ok
    <2>3. Verdict(ok) = "accepted"
        BY <2>2 DEF Verdict
    <2> QED
        BY <2>1, <2>3, JudgeHonest
<1>8. ASSUME VerifyEntriesAll PROVE HonestInv'
    <2> DEFINE ok == \A e \in reply.entries : AcceptsAll(e)
    <2>1. request.op \in {"uuid", "index", "search"} /\ Judge(Verdict(ok))
        BY <1>8 DEF VerifyEntriesAll
    <2>2. ok
        BY <1>0, <2>1, AnswerMatches, EntryAccepted DEF Replied
    <2> HIDE DEF ok
    <2>3. Verdict(ok) = "accepted"
        BY <2>2 DEF Verdict
    <2> QED
        BY <2>1, <2>3, JudgeHonest
<1>9. ASSUME VerifyLogInfo PROVE HonestInv'
    <2> DEFINE ok == \A info \in reply.entries : verifyTree(info)
    <2>1. request.op = "info" /\ Judge(Verdict(ok))
        BY <1>9 DEF VerifyLogInfo
    <2>2. ok
        BY <1>0, <2>1, InfoAccepted DEF Replied
    <2> HIDE DEF ok
    <2>3. Verdict(ok) = "accepted"
        BY <2>2 DEF Verdict
    <2> QED
        BY <2>1, <2>3, JudgeHonest
<1>10. ASSUME Done PROVE HonestInv'
    <2>1. request' = [op |-> "none"] /\ verdict' = "none" /\ UNCHANGED ranges
        BY <1>10 DEF Done
    <2>2. Signed'
        BY <1>0, <2>1, AnswersKept
    <2> QED
        BY <2>1, <2>2 DEF HonestInv, HonestAnswersAccepted, Replied
<1>11. ASSUME UNCHANGED vars PROVE HonestInv'
    <2>1. request' = request /\ reply' = reply /\ verdict' = verdict /\ UNCHANGED ranges
        BY <1>11 DEF vars
    <2>2. leaves' = leaves
        BY <2>1 DEF ranges
    <2>3. Replied' /\ Signed'
        BY <1>0, <2>1, <2>2, AnswersKept DEF Replied
    <2> QED
        BY <2>1, <2>3 DEF HonestInv, HonestAnswersAccepted
<1> QED
    BY <1>1, <1>2, <1>3, <1>4, <1>5, <1>6, <1>7, <1>8, <1>9, <1>10, <1>11 DEF Next

\* rekor-cli, and a client that wants the signatures of all keys, reject nothing that an
\* honest server sends, for any number of shards, leaves and keys, shared between shards or
\* not, and whether the checkpoint was cached at the start or signed for the answer.
THEOREM HonestAnswersAcceptedHolds == Spec => []HonestAnswersAccepted
<1>1. Init => HonestInv
    <2> SUFFICES ASSUME Init PROVE HonestInv
        OBVIOUS
    <2>1. Signed
        BY InitSigned
    <2>2. request = [op |-> "none"] /\ verdict = "none"
        BY DEF Init
    <2> QED
        BY <2>1, <2>2 DEF HonestInv, HonestAnswersAccepted, Replied
<1>2. HonestInv => HonestAnswersAccepted
    BY DEF HonestInv
<1> QED
    BY <1>1, <1>2, NextHonest, Invariance, PTL DEF Spec

=============================================================================
