-------------------------- MODULE LogMonitorProofs --------------------------
(***************************************************************************)
(* The log monitor for any number of trees, branches and overlapping       *)
(* commands: a fork is noticed as far as the user was told, and nothing    *)
(* else is taken for one.                                                  *)
(***************************************************************************)
EXTENDS LogMonitor, TLAPS

-----------------------------------------------------------------------------
(* Roots *)

\* A root is real if its branch is 1 where the branches agree.
Real(r) == r = Root(r.tree, r.branch, r.size)

\* What the log shows of a tree is a real root.
LEMMA RootType ==
    ASSUME NEW t \in Trees, NEW b \in Branches, NEW n \in 0 .. MaxSize
    PROVE  /\ Root(t, b, n) \in Roots /\ Real(Root(t, b, n))
           /\ Root(t, b, n).tree = t /\ Root(t, b, n).size = n
           /\ n > Fork => Root(t, b, n).branch = b
BY ForkAssumption, BoundsAssumption DEF Root, Roots, Real

\* A real root is consistent with itself.
LEMMA ExtendsReflexive == ASSUME NEW r \in Roots, Real(r) PROVE Extends(r, r)
BY BoundsAssumption DEF Real, Root, Roots, Extends

\* Consistency proofs compose.
LEMMA ExtendsTransitive ==
    ASSUME NEW x \in Roots, NEW y \in Roots, NEW z \in Roots, Extends(x, y), Extends(y, z)
    PROVE  Extends(x, z)
BY ForkAssumption, BoundsAssumption DEF Root, Roots, Extends

\* Two real roots of a tree that do not fit are beyond Fork, on two branches.
LEMMA TwoBranches ==
    ASSUME NEW x \in Roots, NEW y \in Roots, Real(x), Real(y),
           x.tree = y.tree, x.size <= y.size, ~Extends(x, y)
    PROVE  x.size > Fork /\ y.size > Fork /\ x.branch # y.branch
BY ForkAssumption, BoundsAssumption DEF Root, Roots, Extends, Real

-----------------------------------------------------------------------------
(* The inductive invariant *)

\* The log has shown r.
WasShown(r) == Real(r) /\ (r.size > Fork => r.branch \in views[r.tree])

\* r extends all the roots of its tree that are vouched for.
Follows(r) == \A x \in line[r.tree] : Extends(x, r)

\* An entry of the state file: its root was shown, and under the key of a tree
\* it is of that tree and follows the ones vouched for.
Good(e) ==
    /\ WasShown(e.root)
    /\ e.key \in Trees => e.root.tree = e.key /\ Follows(e.root)

\* What a command holds, and what it has proved and written by then.
Step(p) ==
    /\ \A t \in Trees : info[p][t].tree = t /\ WasShown(info[p][t])
    /\ \A e \in buf[p] : Good(e)
    /\ ~Running(p) => buf[p] = {} /\ stored[p] = {} /\ ~alone[p]
    /\ pc[p] \in {"read", "open", "write"} =>
           key[p] \in {at[p], ServerURL} /\ Follows(info[p][at[p]])
    /\ pc[p] \in {"open", "write"} =>
           \A e \in buf[p] : e.key = key[p] => e.root = info[p][at[p]]
    /\ alone[p] =>
           /\ \A q \in Procs : Running(q) => q = p
           /\ \A t \in stored[p] :
                  /\ Follows(info[p][t])
                  /\ \A e \in file \union buf[p] : e.key = t => e.root = info[p][t]
    /\ pc[p] = "alarm" => Forked(at[p])

Memory ==
    /\ \A e \in file : Good(e)
    /\ \A t \in Trees : \A x \in line[t] : x.tree = t /\ Real(x)

IndInv == TypeOK /\ Memory /\ ReportedRootsConsistent /\ \A p \in Procs : Step(p)

-----------------------------------------------------------------------------
(* Types *)

Statuses == {"idle", "alarm", "error", "verify", "read", "open", "write"}

\* Types of the local variables and of the histories a command changes.
LocalType ==
    /\ pc \in [Procs -> Statuses]
    /\ info \in [Procs -> [Trees -> Roots]]
    /\ shards \in [Procs -> Trees]
    /\ at \in [Procs -> Trees]
    /\ key \in [Procs -> Keys]
    /\ buf \in [Procs -> SUBSET Entries]
    /\ alone \in [Procs -> BOOLEAN]
    /\ stored \in [Procs -> SUBSET Trees]

\* Tree numbers.
LEMMA TreeNumbers ==
    1 \in Trees /\ \A t \in Trees : t \in Nat /\ \A u \in Trees : t < u => t + 1 \in Trees
BY BoundsAssumption DEF Trees

\* A process that ends.
LEMMA EndType ==
    ASSUME TypeOK, NEW p \in Procs, NEW status \in Statuses, End(p, status)
    PROVE  LocalType'
<1>1. [t \in Trees |-> Root(t, 1, 0)] \in [Trees -> Roots]
  BY RootType, ForkAssumption, BoundsAssumption
<1>2. info' \in [Procs -> [Trees -> Roots]]
  BY <1>1 DEF TypeOK, End
<1>3. pc' \in [Procs -> Statuses] /\ key' \in [Procs -> Keys]
  BY DEF TypeOK, End, Goto, Statuses, Keys
<1>4. shards' \in [Procs -> Trees] /\ at' \in [Procs -> Trees]
  BY TreeNumbers DEF TypeOK, End
<1>5. buf' \in [Procs -> SUBSET Entries] /\ stored' \in [Procs -> SUBSET Trees]
  BY DEF TypeOK, End
<1>6. alone' \in [Procs -> BOOLEAN]
  BY Zenon DEF TypeOK, End
<1> QED
  BY <1>2, <1>3, <1>4, <1>5, <1>6 DEF LocalType

\* After a Dump the next one, the next tree, or the end of the command.
LEMMA AfterDumpType ==
    ASSUME TypeOK, NEW p \in Procs, NEW done \in BOOLEAN, AfterDump(p, done)
    PROVE  LocalType' /\ line' \in [Trees -> SUBSET Roots]
<1>1. CASE key[p] # ServerURL
  <2>1. /\ Goto(p, "read") /\ key' = [key EXCEPT ![p] = ServerURL]
        /\ stored' = [stored EXCEPT ![p] = IF done THEN @ \union {at[p]} ELSE @]
        /\ UNCHANGED <<info, shards, at, buf, alone, line>>
    BY <1>1 DEF AfterDump
  <2>2. stored' \in [Procs -> SUBSET Trees]
    BY <2>1 DEF TypeOK
  <2>3. pc' \in [Procs -> Statuses] /\ key' \in [Procs -> Keys]
    BY <2>1 DEF TypeOK, Goto, Statuses, Keys
  <2> QED
    BY <2>1, <2>2, <2>3 DEF LocalType, TypeOK
<1>2. CASE key[p] = ServerURL /\ at[p] < shards[p]
  <2>1. /\ Goto(p, "verify") /\ at' = [at EXCEPT ![p] = @ + 1]
        /\ UNCHANGED <<info, shards, key, buf, alone, stored, line>>
    BY <1>2 DEF AfterDump
  <2>2. at' \in [Procs -> Trees]
    BY <1>2, <2>1, TreeNumbers DEF TypeOK
  <2>3. pc' \in [Procs -> Statuses]
    BY <2>1 DEF TypeOK, Goto, Statuses
  <2> QED
    BY <2>1, <2>2, <2>3 DEF LocalType, TypeOK
<1>3. CASE key[p] = ServerURL /\ ~(at[p] < shards[p])
  <2>1. End(p, "idle") /\ Report(p)
    BY <1>3 DEF AfterDump
  <2>2. LocalType'
    BY <2>1, EndType DEF Statuses
  <2>3. \A t \in Trees : line[t] \union {info[p][t]} \in SUBSET Roots /\ line[t] \in SUBSET Roots
    BY DEF TypeOK
  <2>4. line' \in [Trees -> SUBSET Roots]
    BY <2>1, <2>3 DEF Report
  <2> QED
    BY <2>2, <2>4
<1> QED
  BY <1>1, <1>2, <1>3

\* The step of a command keeps the types.
LEMMA CommandType ==
    ASSUME TypeOK, NEW p \in Procs, Command(p)
    PROVE  TypeOK'
<1>0. TypeOK' <=> /\ LocalType' /\ (active \in Trees)' /\ (blank \in BOOLEAN)'
                  /\ (file \in SUBSET Entries)' /\ (views \in [Trees -> SUBSET Branches])'
                  /\ (line \in [Trees -> SUBSET Roots])'
  BY DEF TypeOK, LocalType, Statuses
<1>1. ASSUME UNCHANGED <<active, disk, views, line>>, LocalType' PROVE TypeOK'
  BY <1>0, <1>1 DEF TypeOK, disk
<1>2. CASE GetLogInfo(p)
  <2>1. PICK shown \in [1 .. active -> Shown] :
          /\ info' = [info EXCEPT ![p] = [t \in Trees |->
                        IF t <= active THEN Root(t, shown[t][1], shown[t][2])
                        ELSE Root(t, 1, 0)]]
          /\ views' = [t \in Trees |->
                        IF t <= active /\ shown[t][2] > Fork
                        THEN views[t] \union {shown[t][1]} ELSE views[t]]
    BY <1>2 DEF GetLogInfo
  <2>2. \A t \in Trees : t <= active =>
            shown[t][1] \in Branches /\ shown[t][2] \in 0 .. MaxSize
    <3>1. \A t \in Trees : t <= active => t \in 1 .. active
      BY BoundsAssumption DEF Trees, TypeOK
    <3> QED
      BY <2>1, <3>1 DEF Shown
  <2>3. info' \in [Procs -> [Trees -> Roots]]
    <3> DEFINE I == [t \in Trees |-> IF t <= active THEN Root(t, shown[t][1], shown[t][2])
                                     ELSE Root(t, 1, 0)]
    <3>1. I \in [Trees -> Roots]
      BY <2>2, RootType, ForkAssumption, BoundsAssumption
    <3> HIDE DEF I
    <3>2. info' = [info EXCEPT ![p] = I]
      BY <2>1 DEF I
    <3> QED
      BY <3>1, <3>2 DEF TypeOK
  <2>4. views' \in [Trees -> SUBSET Branches]
    <3>1. \A t \in Trees : views[t] \in SUBSET Branches
      BY DEF TypeOK
    <3> QED
      BY <2>1, <2>2, <3>1
  <2>5. pc' \in [Procs -> Statuses] /\ shards' \in [Procs -> Trees] /\ at' \in [Procs -> Trees]
    BY <1>2, TreeNumbers DEF GetLogInfo, Goto, TypeOK, Statuses
  <2>6. alone' \in [Procs -> BOOLEAN]
    BY <1>2 DEF GetLogInfo
  <2> QED
    BY <1>0, <1>2, <2>3, <2>4, <2>5, <2>6 DEF GetLogInfo, LocalType, TypeOK, disk
<1>3. ASSUME Accept(p) PROVE LocalType'
  <2>1. at[p] \in Keys
    BY DEF TypeOK, Keys
  <2> QED
    BY <1>3, <2>1 DEF Accept, Goto, LocalType, TypeOK, Statuses
<1>4. CASE VerifyFirst(p)
  <2>1. LocalType'
    BY <1>3, <1>4 DEF VerifyFirst
  <2>2. line' \in [Trees -> SUBSET Roots]
    BY <1>4 DEF VerifyFirst, TypeOK
  <2> QED
    BY <1>0, <1>4, <2>1, <2>2 DEF VerifyFirst, TypeOK, disk
<1>5. CASE VerifyTree(p)
  <2>1. PICK old \in Load(at[p]) :
           LET verdict == ProveConsistency(old, info[p][at[p]])
           IN  IF verdict = "ok" THEN Accept(p) ELSE End(p, verdict)
    BY <1>5 DEF VerifyTree
  <2>2. ProveConsistency(old, info[p][at[p]]) \in {"ok", "alarm", "error"}
    BY DEF ProveConsistency
  <2>3. LocalType'
    BY <2>1, <2>2, <1>3, EndType DEF Statuses
  <2> QED
    BY <1>1, <1>5, <2>3 DEF VerifyTree
<1>6. CASE ProofUnavailable(p) \/ VerifyFails(p)
  BY <1>1, <1>6, EndType DEF ProofUnavailable, VerifyFails, Statuses
<1>7. CASE DumpFails(p)
  <2>1. LocalType' /\ line' \in [Trees -> SUBSET Roots]
    BY <1>7, AfterDumpType DEF DumpFails
  <2> QED
    BY <1>0, <1>7, <2>1 DEF DumpFails, TypeOK, disk
<1>8. CASE DumpRead(p)
  <2>1. [key |-> key[p], root |-> info[p][at[p]]] \in Entries /\ file \in SUBSET Entries
    BY DEF TypeOK, Entries
  <2>2. buf' \in [Procs -> SUBSET Entries]
    BY <1>8, <2>1 DEF DumpRead, TypeOK
  <2>3. pc' \in [Procs -> Statuses]
    BY <1>8 DEF DumpRead, Goto, TypeOK, Statuses
  <2> QED
    BY <1>0, <1>8, <2>2, <2>3 DEF DumpRead, LocalType, TypeOK, disk, history
<1>9. CASE DumpOpen(p)
  BY <1>0, <1>9 DEF DumpOpen, Goto, LocalType, TypeOK, Statuses, local, history
<1>10. CASE DumpWrite(p)
  <2>1. LocalType' /\ line' \in [Trees -> SUBSET Roots]
    BY <1>10, AfterDumpType DEF DumpWrite
  <2>2. file' \in SUBSET Entries
    <3>1. file' = buf[p] \/ file' = {}
      BY <1>10 DEF DumpWrite
    <3> QED
      BY <3>1 DEF TypeOK
  <2> QED
    BY <1>0, <1>10, <2>1, <2>2 DEF DumpWrite, TypeOK
<1>11. CASE DumpWriteFails(p)
  <2>1. LocalType' /\ line' \in [Trees -> SUBSET Roots]
    BY <1>11, AfterDumpType DEF DumpWriteFails
  <2> QED
    BY <1>0, <1>11, <2>1 DEF DumpWriteFails, Torn, TypeOK, disk
<1>12. CASE Crash(p)
  <2>1. LocalType'
    BY <1>12, EndType DEF Crash, Statuses
  <2> QED
    BY <1>0, <1>12, <2>1 DEF Crash, Torn, TypeOK, disk
<1> QED
  BY <1>2, <1>4, <1>5, <1>6, <1>7, <1>8, <1>9, <1>10, <1>11, <1>12 DEF Command

\* Every variable keeps its type, whatever the log shows and the disk does.
THEOREM TypeCorrect == Spec => []TypeOK
<1>1. Init => TypeOK
  <2> SUFFICES ASSUME Init PROVE TypeOK
    OBVIOUS
  <2>1. [t \in Trees |-> Root(t, 1, 0)] \in [Trees -> Roots]
    BY RootType, ForkAssumption, BoundsAssumption
  <2> QED
    BY <2>1, TreeNumbers DEF Init, TypeOK, Keys
<1>2. TypeOK /\ [Next]_vars => TypeOK'
  <2> SUFFICES ASSUME TypeOK, [Next]_vars PROVE TypeOK'
    OBVIOUS
  <2>1. CASE UNCHANGED vars
    BY <2>1 DEF TypeOK, vars, disk, local, history
  <2>2. CASE Rotate
    <3>1. active' \in Trees
      BY <2>2, BoundsAssumption DEF Rotate, TypeOK, Trees
    <3> QED
      BY <2>2, <3>1 DEF Rotate, TypeOK, disk, local, history
  <2>3. CASE \E p \in Procs : Command(p)
    BY <2>3, CommandType
  <2> QED
    BY <2>1, <2>2, <2>3 DEF Next
<1> QED
  BY <1>1, <1>2, PTL DEF Spec
-----------------------------------------------------------------------------
(* The invariant *)

\* Before any command.
LEMMA InitInv == Init => IndInv
<1> SUFFICES ASSUME Init PROVE IndInv
  OBVIOUS
<1>1. TypeOK
  <2>1. [t \in Trees |-> Root(t, 1, 0)] \in [Trees -> Roots]
    BY RootType, ForkAssumption, BoundsAssumption
  <2> QED
    BY <2>1, TreeNumbers DEF Init, TypeOK, Keys
<1>2. Memory /\ ReportedRootsConsistent
  BY DEF Init, Memory, ReportedRootsConsistent
<1>3. ASSUME NEW p \in Procs PROVE Step(p)
  <2>1. \A t \in Trees : info[p][t].tree = t /\ WasShown(info[p][t])
    BY RootType, ForkAssumption, BoundsAssumption DEF Init, WasShown
  <2>2. buf[p] = {} /\ stored[p] = {} /\ ~alone[p] /\ pc[p] = "idle"
    BY DEF Init
  <2> QED
    BY <2>1, <2>2 DEF Step, Running
<1> QED
  BY <1>1, <1>2, <1>3 DEF IndInv

\* The types of what a command looks at.
LEMMA Typed ==
    ASSUME TypeOK
    PROVE  /\ \A p \in Procs : at[p] \in Trees /\ \A t \in Trees : info[p][t] \in Roots
           /\ \A e \in file : e \in Entries
           /\ \A p \in Procs : \A e \in buf[p] : e \in Entries
           /\ \A p \in Procs : \A t \in stored[p] : t \in Trees
           /\ \A t \in Trees : \A x \in line[t] : x \in Roots
           /\ \A e \in Entries : e.root \in Roots /\ e.key \in Keys
           /\ \A r \in Roots : r.tree \in Trees
<1>1. \A e \in Entries : e.root \in Roots /\ e.key \in Keys
  BY DEF Entries
<1>2. \A r \in Roots : r.tree \in Trees
  BY DEF Roots
<1> QED
  BY <1>1, <1>2 DEF TypeOK

\* The log shows more, and no more is vouched for.
More == \A t \in Trees : views[t] \subseteq views'[t] /\ line'[t] \subseteq line[t]

\* Then a root keeps its standing,
LEMMA RootKept ==
    ASSUME More, NEW r \in Roots
    PROVE  (WasShown(r) => WasShown(r)') /\ (Follows(r) => Follows(r)')
<1>1. r.tree \in Trees
  BY DEF Roots
<1> QED
  BY <1>1 DEF More, WasShown, Follows

\* and so does an entry of the state file.
LEMMA EntryKept ==
    ASSUME More, NEW e \in Entries, Good(e)
    PROVE  Good(e)'
<1>1. e.root \in Roots
  BY DEF Entries
<1> QED
  BY <1>1, RootKept DEF Good

\* What a process holds is not touched by another's step.
Untouched(q) == UNCHANGED <<pc[q], info[q], at[q], key[q], buf[q], stored[q]>>

\* The step of one command leaves what the others know as it is.
LEMMA OthersKept ==
    ASSUME IndInv, More, NEW q \in Procs, Untouched(q), ~alone'[q]
    PROVE  Step(q)'
<1>1. TypeOK /\ Step(q) /\ at[q] \in Trees
  BY Typed DEF IndInv
<1>2. \A t \in Trees : info'[q][t].tree = t /\ WasShown(info[q][t])'
  <2> SUFFICES ASSUME NEW t \in Trees PROVE info[q][t].tree = t /\ WasShown(info[q][t])'
    BY DEF Untouched
  <2>1. info[q][t].tree = t /\ WasShown(info[q][t]) /\ info[q][t] \in Roots
    BY <1>1, Typed DEF Step
  <2>2. PICK r \in Roots : r = info[q][t] /\ WasShown(r)
    BY <2>1
  <2>3. WasShown(r)'
    BY <2>2, RootKept
  <2> QED
    BY <2>1, <2>2, <2>3 DEF Untouched, WasShown
<1>3. (pc[q] = "alarm" => Forked(at[q]))'
  BY <1>1 DEF Step, Forked, Untouched, More
<1>4. (Running(q)' <=> Running(q)) /\ (~Running(q) => buf[q] = {} /\ stored[q] = {})'
  BY <1>1 DEF Step, Running, Untouched
<1>5. \A e \in buf'[q] : Good(e)'
  <2> SUFFICES ASSUME NEW e \in buf[q] PROVE Good(e)'
    BY DEF Untouched
  <2>1. e \in Entries /\ Good(e)
    BY <1>1, Typed DEF Step
  <2> QED
    BY <2>1, EntryKept
<1>6. (pc[q] \in {"read", "open", "write"} =>
            key[q] \in {at[q], ServerURL} /\ Follows(info[q][at[q]]))'
  <2> SUFFICES ASSUME pc[q] \in {"read", "open", "write"}
               PROVE  key[q] \in {at[q], ServerURL} /\ Follows(info[q][at[q]])'
    BY DEF Untouched
  <2>1. key[q] \in {at[q], ServerURL} /\ Follows(info[q][at[q]]) /\ info[q][at[q]] \in Roots
    BY <1>1, Typed DEF Step
  <2>2. PICK r \in Roots : r = info[q][at[q]] /\ Follows(r)
    BY <2>1
  <2>3. Follows(r)'
    BY <2>2, RootKept
  <2> QED
    BY <2>1, <2>2, <2>3 DEF Untouched, Follows
<1>7. (pc[q] \in {"open", "write"} =>
           \A e \in buf[q] : e.key = key[q] => e.root = info[q][at[q]])'
  BY <1>1 DEF Step, Untouched
<1> QED
  BY <1>2, <1>3, <1>4, <1>5, <1>6, <1>7 DEF Step

\* A step of p that vouches for nothing new and leaves entries in the file that
\* p or the file held.
LEMMA StepKeeps ==
    ASSUME IndInv, TypeOK', More, NEW p \in Procs, Step(p)',
           \A e \in file' : e \in file \/ e \in buf[p],
           \A q \in Procs : q # p => Untouched(q) /\ ~alone'[q]
    PROVE  IndInv'
<1>0. TypeOK /\ Memory /\ Step(p)
  BY DEF IndInv
<1>1. \A q \in Procs : Step(q)'
  BY OthersKept
<1>2. ReportedRootsConsistent'
  BY DEF IndInv, ReportedRootsConsistent, More
<1>3. Memory'
  <2>1. ASSUME NEW e \in file' PROVE Good(e)'
    <3>1. e \in Entries /\ Good(e)
      BY <1>0, Typed DEF Memory, Step
    <3> QED
      BY <3>1, EntryKept
  <2>2. \A t \in Trees : \A x \in line'[t] : x.tree = t /\ Real(x)
    BY <1>0 DEF Memory, More
  <2> QED
    BY <2>1, <2>2 DEF Memory
<1> QED
  BY <1>1, <1>2, <1>3 DEF IndInv

\* A running command is the only one that can be alone.
LEMMA OthersNotAlone ==
    ASSUME IndInv, NEW p \in Procs, Running(p), NEW q \in Procs, q # p
    PROVE  ~alone[q]
BY DEF IndInv, Step

\* A process that ends knows nothing any more.
LEMMA EndStep ==
    ASSUME IndInv, NEW p \in Procs, Running(p), NEW status \in {"idle", "alarm", "error"},
           End(p, status), status = "alarm" => Forked(at[p])'
    PROVE  /\ Step(p)'
           /\ \A q \in Procs : q # p => Untouched(q) /\ ~alone'[q]
<1>0. TypeOK
  BY DEF IndInv
<1>1. /\ pc'[p] = status /\ buf'[p] = {} /\ stored'[p] = {} /\ alone'[p] = FALSE
      /\ info'[p] = [t \in Trees |-> Root(t, 1, 0)]
  BY <1>0 DEF End, Goto, TypeOK
<1>2. \A t \in Trees : info'[p][t].tree = t /\ WasShown(info[p][t])'
  <2> SUFFICES ASSUME NEW t \in Trees
               PROVE  Root(t, 1, 0).tree = t /\ WasShown(Root(t, 1, 0))'
    BY <1>1 DEF WasShown
  <2>1. Real(Root(t, 1, 0)) /\ Root(t, 1, 0).tree = t /\ Root(t, 1, 0).size = 0
    BY RootType, ForkAssumption, BoundsAssumption
  <2> QED
    BY <2>1, ForkAssumption DEF WasShown
<1>3. Step(p)'
  BY <1>1, <1>2 DEF Step, Running
<1>4. \A q \in Procs : q # p => Untouched(q) /\ alone'[q] = alone[q]
  BY <1>0 DEF End, Goto, TypeOK, Untouched
<1> QED
  BY <1>3, <1>4, OthersNotAlone

\* A command that fails or is killed vouches for nothing.
LEMMA EndKeeps ==
    ASSUME IndInv, TypeOK', NEW p \in Procs, Running(p),
           NEW status \in {"idle", "alarm", "error"},
           End(p, status), status = "alarm" => Forked(at[p])',
           UNCHANGED <<views, line>>, file' = file \/ file' = {}
    PROVE  IndInv'
<1>1. More
  BY DEF More
<1> QED
  BY <1>1, EndStep, StepKeeps

\* The part of Step(p) that only views and line can change.
LEMMA InfoKept ==
    ASSUME IndInv, More, NEW p \in Procs, UNCHANGED info[p]
    PROVE  /\ \A t \in Trees : info'[p][t].tree = t /\ WasShown(info[p][t])'
           /\ \A t \in Trees : Follows(info[p][t]) => Follows(info[p][t])'
<1> SUFFICES ASSUME NEW t \in Trees
             PROVE  /\ info[p][t].tree = t /\ WasShown(info[p][t])'
                    /\ Follows(info[p][t]) => Follows(info[p][t])'
  OBVIOUS
<1>1. info[p][t].tree = t /\ WasShown(info[p][t]) /\ info[p][t] \in Roots
  BY Typed DEF IndInv, Step
<1>2. PICK r \in Roots : r = info[p][t]
  BY <1>1
<1>3. (WasShown(r) => WasShown(r)') /\ (Follows(r) => Follows(r)')
  BY RootKept
<1> QED
  BY <1>1, <1>2, <1>3 DEF WasShown, Follows

\* The command goes on: what remains to be shown of its step.
LEMMA Continues ==
    ASSUME IndInv, TypeOK', More, NEW p \in Procs, Running(p), Running(p)',
           UNCHANGED <<info[p], alone[p]>>,
           \A q \in Procs : q # p => Untouched(q) /\ alone'[q] = alone[q],
           \A e \in file' : e \in file \/ e \in buf[p],
           \A e \in buf'[p] : Good(e)',
           pc'[p] \in {"read", "open", "write"} =>
               key'[p] \in {at'[p], ServerURL} /\ Follows(info[p][at[p]])',
           pc'[p] \in {"open", "write"} =>
               \A e \in buf'[p] : e.key = key'[p] => e.root = info[p][at'[p]],
           alone[p] => \A t \in stored'[p] :
               /\ Follows(info[p][t])
               /\ \A e \in file' \union buf'[p] : e.key = t => e.root = info[p][t]
    PROVE  IndInv'
<1>0. TypeOK /\ Step(p)
  BY DEF IndInv
<1>1. \A t \in Trees : info'[p][t].tree = t /\ WasShown(info[p][t])'
  BY InfoKept
<1>2. (alone[p] => \A q \in Procs : Running(q) => q = p)'
  <2>1. \A q \in Procs : q # p => (Running(q)' <=> Running(q))
    BY DEF Running, Untouched
  <2> QED
    BY <1>0, <2>1 DEF Step
<1>3. (alone[p] => \A t \in stored[p] :
           /\ Follows(info[p][t])
           /\ \A e \in file \union buf[p] : e.key = t => e.root = info[p][t])'
  <2> SUFFICES ASSUME alone[p], NEW t \in stored'[p]
               PROVE  Follows(info[p][t])' /\ \A e \in file' \union buf'[p] :
                            e.key = t => e.root = info[p][t]
    OBVIOUS
  <2>1. t \in Trees
    BY DEF TypeOK
  <2> QED
    BY <2>1, InfoKept
<1>4. pc'[p] # "alarm"
  BY DEF Running
<1>5. Step(p)'
  BY <1>1, <1>2, <1>3, <1>4 DEF Step
<1>6. \A q \in Procs : q # p => ~alone'[q]
  BY OthersNotAlone
<1> QED
  BY <1>5, <1>6, StepKeeps

\* The steps in which a root is verified.
LEMMA AcceptKeeps ==
    ASSUME IndInv, TypeOK', More, NEW p \in Procs, pc[p] = "verify", Accept(p),
           UNCHANGED file, Follows(info[p][at[p]])'
    PROVE  IndInv'
<1>0. TypeOK /\ Step(p)
  BY DEF IndInv
<1>1. /\ pc'[p] = "read" /\ key'[p] = at[p]
      /\ \A q \in Procs : q # p => pc'[q] = pc[q] /\ key'[q] = key[q]
      /\ UNCHANGED <<info, shards, at, buf, alone, stored>>
  BY <1>0 DEF Accept, Goto, TypeOK
<1>2. \A q \in Procs : q # p => Untouched(q) /\ alone'[q] = alone[q]
  BY <1>1 DEF Untouched
<1>3. \A e \in buf'[p] : Good(e)'
  <2> SUFFICES ASSUME NEW e \in buf[p] PROVE Good(e)'
    BY <1>1
  <2>1. e \in Entries /\ Good(e)
    BY <1>0, Typed DEF Step
  <2> QED
    BY <2>1, EntryKept
<1>4. Running(p) /\ Running(p)'
  BY <1>1 DEF Running
<1>5. alone[p] => \A t \in stored'[p] :
               /\ Follows(info[p][t])
               /\ \A e \in file' \union buf'[p] : e.key = t => e.root = info[p][t]
  BY <1>0, <1>1 DEF Step
<1> QED
  BY <1>1, <1>2, <1>3, <1>4, <1>5, Continues

\* Without an old state nothing is vouched for any more.
LEMMA VerifyFirstKeeps ==
    ASSUME IndInv, TypeOK', NEW p \in Procs, VerifyFirst(p)
    PROVE  IndInv'
<1>0. TypeOK /\ Step(p) /\ at[p] \in Trees /\ UNCHANGED info
  BY Typed DEF IndInv, VerifyFirst, Accept
<1>1. line' = [line EXCEPT ![at[p]] = {}] /\ UNCHANGED <<file, views>>
  BY DEF VerifyFirst, disk
<1>2. More
  BY <1>0, <1>1 DEF More, TypeOK
<1>3. info[p][at[p]].tree = at[p] /\ UNCHANGED at
  BY <1>0 DEF Step, VerifyFirst, Accept
<1>4. line'[at[p]] = {}
  BY <1>0, <1>1 DEF TypeOK
<1>5. Follows(info[p][at[p]])'
  BY <1>0, <1>3, <1>4 DEF Follows
<1> QED
  BY <1>1, <1>2, <1>5, AcceptKeeps DEF VerifyFirst

\* With one, a root that passes extends it, and one that does not shows a fork.
LEMMA VerifyTreeKeeps ==
    ASSUME IndInv, TypeOK', NEW p \in Procs, VerifyTree(p)
    PROVE  IndInv'
<1>0. TypeOK /\ Memory /\ Step(p) /\ at[p] \in Trees /\ pc[p] = "verify"
  BY Typed DEF IndInv, VerifyTree
<1> DEFINE new == info[p][at[p]]
<1>1. new \in Roots /\ new.tree = at[p] /\ WasShown(new)
  BY <1>0, Typed DEF Step
<1>2. PICK old \in Load(at[p]) :
           LET verdict == ProveConsistency(old, new)
           IN  IF verdict = "ok" THEN Accept(p) ELSE End(p, verdict)
  BY DEF VerifyTree
<1>3. PICK e \in file : e.key = at[p] /\ e.root = old
  BY <1>2 DEF Load
<1>4. old \in Roots /\ old.tree = at[p] /\ WasShown(old) /\ Follows(old)
  BY <1>0, <1>3, Typed DEF Memory, Good
<1>5. UNCHANGED <<file, views, line>> /\ More
  BY DEF VerifyTree, disk, More
<1>6. CASE ProveConsistency(old, new) = "ok"
  <2>1. Accept(p)
    BY <1>2, <1>6
  <2>2. Extends(old, new)
    BY <1>6 DEF ProveConsistency
  <2>3. \A x \in line[at[p]] : x \in Roots /\ Extends(x, old)
    BY <1>0, <1>4, Typed DEF Follows
  <2>4. \A x \in line[at[p]] : Extends(x, new)
    BY <1>1, <1>4, <2>2, <2>3, ExtendsTransitive
  <2>5. Follows(info[p][at[p]])'
    BY <1>1, <1>5, <2>1, <2>4 DEF Follows, Accept
  <2> QED
    BY <1>0, <1>5, <2>1, <2>5, AcceptKeeps
<1>7. CASE ProveConsistency(old, new) = "alarm"
  <2>1. End(p, "alarm")
    BY <1>2, <1>7
  <2>2. ~(old.size > new.size) /\ ~Extends(old, new)
    BY <1>7 DEF ProveConsistency
  <2>3. old.size <= new.size
    BY <1>1, <1>4, <2>2, BoundsAssumption DEF Roots
  <2>4. old.size > Fork /\ new.size > Fork /\ old.branch # new.branch
    BY <1>1, <1>4, <2>2, <2>3, TwoBranches DEF WasShown
  <2>5. Forked(at[p])
    BY <1>1, <1>4, <2>4 DEF WasShown, Forked
  <2>6. at'[p] = at[p]
    BY <1>0, <2>1 DEF End, TypeOK
  <2>7. Forked(at[p])'
    BY <1>5, <2>5, <2>6 DEF Forked
  <2> QED
    BY <1>0, <1>5, <2>1, <2>7, EndKeeps DEF Running
<1>8. CASE ProveConsistency(old, new) = "error"
  <2>1. End(p, "error")
    BY <1>2, <1>8
  <2> QED
    BY <1>0, <1>5, <2>1, EndKeeps DEF Running
<1> QED
  BY <1>6, <1>7, <1>8 DEF ProveConsistency

\* A new command: what the log shows it is shown.
LEMMA GetLogInfoKeeps ==
    ASSUME IndInv, TypeOK', NEW p \in Procs, GetLogInfo(p)
    PROVE  IndInv'
<1>0. TypeOK /\ Step(p) /\ buf[p] = {} /\ stored[p] = {}
  BY DEF IndInv, Step, GetLogInfo
<1>1. PICK shown \in [1 .. active -> Shown] :
          /\ info' = [info EXCEPT ![p] = [t \in Trees |->
                        IF t <= active THEN Root(t, shown[t][1], shown[t][2])
                        ELSE Root(t, 1, 0)]]
          /\ views' = [t \in Trees |->
                        IF t <= active /\ shown[t][2] > Fork
                        THEN views[t] \union {shown[t][1]} ELSE views[t]]
  BY DEF GetLogInfo
<1>2. \A t \in Trees : t <= active => shown[t][1] \in Branches /\ shown[t][2] \in 0 .. MaxSize
  <2>1. \A t \in Trees : t <= active => t \in 1 .. active
    BY <1>0, BoundsAssumption DEF Trees, TypeOK
  <2> QED
    BY <1>1, <2>1 DEF Shown
<1>3. /\ pc'[p] = "verify" /\ UNCHANGED <<file, key, buf, stored, line>>
      /\ \A q \in Procs : q # p => Untouched(q) /\ ~alone'[q]
  BY <1>0, <1>1 DEF GetLogInfo, Goto, TypeOK, disk, Untouched
<1>4. More
  BY <1>1, <1>3 DEF More
<1>5. ASSUME NEW t \in Trees PROVE info'[p][t].tree = t /\ WasShown(info[p][t])'
  <2>1. info'[p][t] = IF t <= active THEN Root(t, shown[t][1], shown[t][2]) ELSE Root(t, 1, 0)
    BY <1>0, <1>1 DEF TypeOK
  <2>2. CASE t <= active
    <3>1. PICK b \in Branches, n \in 0 .. MaxSize : b = shown[t][1] /\ n = shown[t][2]
      BY <1>2, <2>2
    <3>2. n > Fork => b \in views'[t]
      BY <1>1, <2>2, <3>1
    <3>3. info'[p][t] = Root(t, b, n)
      BY <2>1, <2>2, <3>1
    <3> QED
      BY <3>2, <3>3, RootType DEF WasShown
  <2>3. CASE ~(t <= active)
    <3>1. info'[p][t] = Root(t, 1, 0)
      BY <2>1, <2>3
    <3>2. Real(Root(t, 1, 0)) /\ Root(t, 1, 0).tree = t /\ Root(t, 1, 0).size = 0
      BY RootType, ForkAssumption, BoundsAssumption
    <3> QED
      BY <3>1, <3>2, ForkAssumption DEF WasShown
  <2> QED
    BY <2>2, <2>3
<1>6. alone'[p] => \A q \in Procs : Running(q)' => q = p
  <2>1. alone'[p] => \A q \in Procs : ~Running(q)
    BY DEF GetLogInfo
  <2> QED
    BY <1>3, <2>1 DEF Running, Untouched
<1>7. Step(p)'
  BY <1>0, <1>3, <1>5, <1>6 DEF Step, Running
<1> QED
  BY <1>3, <1>4, <1>7, StepKeeps

\* Dump reads the file and replaces the entry under its key.
LEMMA DumpReadKeeps ==
    ASSUME IndInv, TypeOK', NEW p \in Procs, DumpRead(p)
    PROVE  IndInv'
<1>0. TypeOK /\ Memory /\ Step(p) /\ at[p] \in Trees /\ pc[p] = "read"
  BY Typed DEF IndInv, DumpRead
<1> DEFINE mine == [key |-> key[p], root |-> info[p][at[p]]]
<1>1. /\ pc'[p] = "open"
      /\ buf'[p] = {e \in file : e.key # key[p]} \union {mine}
      /\ \A q \in Procs : q # p => pc'[q] = pc[q] /\ buf'[q] = buf[q]
      /\ UNCHANGED <<file, info, shards, at, key, views, alone, stored, line>>
  BY <1>0 DEF DumpRead, Goto, TypeOK, disk, history
<1>2. More /\ Running(p) /\ Running(p)'
  BY <1>0, <1>1 DEF More, Running
<1>3. \A q \in Procs : q # p => Untouched(q) /\ alone'[q] = alone[q]
  BY <1>1 DEF Untouched
<1>4. key[p] \in {at[p], ServerURL} /\ Follows(info[p][at[p]])
  BY <1>0 DEF Step
<1>5. info[p][at[p]].tree = at[p] /\ WasShown(info[p][at[p]]) /\ mine \in Entries
  BY <1>0 DEF Step, TypeOK, Entries
<1>6. Good(mine)
  BY <1>4, <1>5, ServerURLAssumption DEF Good
<1>7. \A e \in buf'[p] : Good(e)'
  <2> SUFFICES ASSUME NEW e \in buf'[p] PROVE Good(e)'
    OBVIOUS
  <2>1. e \in Entries /\ Good(e)
    BY <1>0, <1>1, <1>5, <1>6, Typed DEF Memory
  <2> QED
    BY <1>2, <2>1, EntryKept
<1>8. \A e \in buf'[p] : e.key = key'[p] => e.root = info[p][at'[p]]
  BY <1>1
<1>9. Follows(info[p][at[p]])'
  BY <1>1, <1>4 DEF Follows
<1>10. alone[p] => \A t \in stored'[p] :
               /\ Follows(info[p][t])
               /\ \A e \in file' \union buf'[p] : e.key = t => e.root = info[p][t]
  <2> SUFFICES ASSUME alone[p], NEW t \in stored[p]
               PROVE  /\ Follows(info[p][t])
                      /\ \A e \in file \union buf'[p] : e.key = t => e.root = info[p][t]
    BY <1>1
  <2>1. Follows(info[p][t]) /\ \A e \in file : e.key = t => e.root = info[p][t]
    BY <1>0 DEF Step
  <2>2. t \in Trees
    BY <1>0, Typed
  <2>3. mine.key = t => mine.root = info[p][t]
    BY <1>4, <2>2, ServerURLAssumption
  <2> QED
    BY <1>1, <2>1, <2>3
<1> QED
  BY <1>1, <1>2, <1>3, <1>4, <1>7, <1>8, <1>9, <1>10, Continues

\* Opening the file empties it.
LEMMA DumpOpenKeeps ==
    ASSUME IndInv, TypeOK', NEW p \in Procs, DumpOpen(p)
    PROVE  IndInv'
<1>0. TypeOK /\ Step(p) /\ at[p] \in Trees /\ pc[p] = "open"
  BY Typed DEF IndInv, DumpOpen
<1>1. /\ pc'[p] = "write" /\ file' = {}
      /\ \A q \in Procs : q # p => pc'[q] = pc[q]
      /\ UNCHANGED <<info, shards, at, key, buf, views, alone, stored, line>>
  BY <1>0 DEF DumpOpen, Goto, TypeOK, local, history
<1>2. More /\ Running(p) /\ Running(p)'
  BY <1>0, <1>1 DEF More, Running
<1>3. \A q \in Procs : q # p => Untouched(q) /\ alone'[q] = alone[q]
  BY <1>1 DEF Untouched
<1>4. \A e \in buf'[p] : Good(e)'
  <2> SUFFICES ASSUME NEW e \in buf[p] PROVE Good(e)'
    BY <1>1
  <2>1. e \in Entries /\ Good(e)
    BY <1>0, Typed DEF Step
  <2> QED
    BY <1>2, <2>1, EntryKept
<1>5. key[p] \in {at[p], ServerURL} /\ Follows(info[p][at[p]])
  BY <1>0 DEF Step
<1>6. Follows(info[p][at[p]])'
  BY <1>1, <1>5 DEF Follows
<1>7. \A e \in buf'[p] : e.key = key'[p] => e.root = info[p][at'[p]]
  BY <1>0, <1>1 DEF Step
<1>8. alone[p] => \A t \in stored'[p] :
               /\ Follows(info[p][t])
               /\ \A e \in file' \union buf'[p] : e.key = t => e.root = info[p][t]
  BY <1>0, <1>1 DEF Step
<1> QED
  BY <1>1, <1>2, <1>3, <1>4, <1>5, <1>6, <1>7, <1>8, Continues

\* A success report of a command alone: what it vouches for follows what was
\* vouched for, and the file holds nothing older.
LEMMA ReportKeeps ==
    ASSUME IndInv, TypeOK', NEW p \in Procs, Running(p), End(p, "idle"), Report(p),
           UNCHANGED views, \A e \in file' : e \in file \/ e \in buf[p]
    PROVE  IndInv'
<1>0. TypeOK /\ Memory /\ Step(p) /\ ReportedRootsConsistent
  BY DEF IndInv
<1>1. CASE ~alone[p]
  <2>1. More
    BY <1>1 DEF Report, More
  <2> QED
    BY <2>1, EndStep, StepKeeps
<1>2. CASE alone[p]
  <2>1. \A t \in Trees : line'[t] = IF t \in stored[p] THEN line[t] \union {info[p][t]} ELSE line[t]
    BY <1>2 DEF Report
  <2>2. \A t \in stored[p] : /\ Follows(info[p][t]) /\ info[p][t].tree = t
                             /\ info[p][t] \in Roots /\ Real(info[p][t])
                             /\ \A e \in file \union buf[p] : e.key = t => e.root = info[p][t]
    BY <1>0, <1>2, Typed DEF Step, WasShown
  <2>3. \A t \in stored[p] : \A x \in line[t] : Extends(x, info[p][t])
    BY <2>2 DEF Follows
  <2>4. \A t \in stored[p] : Extends(info[p][t], info[p][t])
    BY <2>2, ExtendsReflexive
  <2>5. ReportedRootsConsistent'
    <3> SUFFICES ASSUME NEW t \in Trees, NEW x \in line'[t], NEW y \in line'[t]
                 PROVE  Extends(x, y) \/ Extends(y, x)
      BY DEF ReportedRootsConsistent
    <3> QED
      BY <1>0, <2>1, <2>3, <2>4 DEF ReportedRootsConsistent
  <2>6. ASSUME NEW e \in file' PROVE Good(e)'
    <3>1. e \in Entries /\ Good(e) /\ e.root \in Roots
      BY <1>0, Typed DEF Memory, Step
    <3>2. WasShown(e.root)'
      BY <3>1 DEF Good, WasShown
    <3>3. ASSUME e.key \in Trees PROVE e.root.tree = e.key /\ Follows(e.root)'
      <4>1. e.root.tree = e.key /\ \A x \in line[e.key] : Extends(x, e.root)
        BY <3>1, <3>3 DEF Good, Follows
      <4>2. e.key \in stored[p] => e.root = info[p][e.key]
        BY <2>2
      <4>3. \A x \in line'[e.key] : Extends(x, e.root)
        BY <2>1, <2>4, <3>3, <4>1, <4>2
      <4> QED
        BY <4>1, <4>3 DEF Follows
    <3> QED
      BY <3>2, <3>3 DEF Good
  <2>7. \A t \in Trees : \A x \in line'[t] : x.tree = t /\ Real(x)
    <3> SUFFICES ASSUME NEW t \in Trees, NEW x \in line'[t] PROVE x.tree = t /\ Real(x)
      OBVIOUS
    <3>1. x \in line[t] \/ (t \in stored[p] /\ x = info[p][t])
      BY <2>1
    <3>2. CASE x \in line[t]
      BY <1>0, <3>2 DEF Memory
    <3>3. CASE t \in stored[p] /\ x = info[p][t]
      BY <2>2, <3>3
    <3> QED
      BY <3>1, <3>2, <3>3
  <2>8. Step(p)' /\ \A q \in Procs : q # p => Untouched(q) /\ ~alone'[q]
    BY EndStep
  <2>9. ASSUME NEW q \in Procs, q # p PROVE Step(q)'
    <3>1. Step(q) /\ ~Running(q) /\ buf[q] = {} /\ stored[q] = {}
      BY <1>0, <1>2, <2>9 DEF IndInv, Step
    <3>2. Untouched(q) /\ ~alone'[q]
      BY <2>8, <2>9
    <3>3. /\ buf'[q] = {} /\ stored'[q] = {} /\ pc'[q] = pc[q]
          /\ pc'[q] \notin {"verify", "read", "open", "write"}
      BY <3>1, <3>2 DEF Untouched, Running
    <3>4. \A t \in Trees : info'[q][t].tree = t /\ WasShown(info[q][t])'
      BY <3>1, <3>2 DEF Step, Untouched, WasShown
    <3>5. (pc[q] = "alarm" => Forked(at[q]))'
      BY <3>1, <3>2 DEF Step, Untouched, Forked
    <3> QED
      BY <3>2, <3>3, <3>4, <3>5 DEF Step, Running
  <2> QED
    BY <2>5, <2>6, <2>7, <2>8, <2>9 DEF IndInv, Memory
<1> QED
  BY <1>1, <1>2

\* After a Dump, done or not.
LEMMA AfterDumpKeeps ==
    ASSUME IndInv, TypeOK', NEW p \in Procs, NEW done \in BOOLEAN, AfterDump(p, done),
           pc[p] \in {"read", "write"}, UNCHANGED views,
           file' = file \/ file' = {} \/ (file' = buf[p] /\ pc[p] = "write"),
           done => pc[p] = "write" /\ file' \subseteq buf[p]
    PROVE  IndInv'
<1>0. TypeOK /\ Step(p) /\ at[p] \in Trees /\ Running(p)
  BY Typed DEF IndInv, Running
<1>1. key[p] \in {at[p], ServerURL} /\ Follows(info[p][at[p]])
  BY <1>0 DEF Step
<1>2. \A e \in file' : e \in file \/ e \in buf[p]
  OBVIOUS
<1>3. \A e \in buf[p] : e \in Entries /\ Good(e)
  BY <1>0, Typed DEF Step
<1>4. CASE key[p] # ServerURL
  <2>1. /\ Goto(p, "read") /\ key' = [key EXCEPT ![p] = ServerURL]
        /\ stored' = [stored EXCEPT ![p] = IF done THEN @ \union {at[p]} ELSE @]
        /\ UNCHANGED <<info, shards, at, buf, alone, line>>
    BY <1>4 DEF AfterDump
  <2>2. /\ pc'[p] = "read" /\ key'[p] = ServerURL
        /\ stored'[p] = IF done THEN stored[p] \union {at[p]} ELSE stored[p]
    BY <1>0, <2>1 DEF Goto, TypeOK
  <2>3. \A q \in Procs : q # p => Untouched(q) /\ alone'[q] = alone[q]
    BY <1>0, <2>1 DEF Untouched, Goto, TypeOK
  <2>4. More /\ Running(p)'
    BY <2>1, <2>2 DEF More, Running
  <2>5. \A e \in buf'[p] : Good(e)'
    BY <1>3, <2>1, <2>4, EntryKept
  <2>6. Follows(info[p][at[p]])'
    BY <1>1, <2>1 DEF Follows
  <2>7. done => \A e \in file' \union buf'[p] : e.key = at[p] => e.root = info[p][at[p]]
    BY <1>0, <1>1, <1>4, <2>1 DEF Step
  <2>8. alone[p] => \A t \in stored'[p] :
               /\ Follows(info[p][t])
               /\ \A e \in file' \union buf'[p] : e.key = t => e.root = info[p][t]
    <3> SUFFICES ASSUME alone[p], NEW t \in stored'[p]
                 PROVE  /\ Follows(info[p][t])
                        /\ \A e \in file' \union buf'[p] : e.key = t => e.root = info[p][t]
      OBVIOUS
    <3>1. CASE t \in stored[p]
      BY <1>0, <1>2, <2>1, <3>1 DEF Step
    <3>2. CASE t = at[p] /\ done
      BY <1>1, <2>7, <3>2
    <3> QED
      BY <2>2, <3>1, <3>2
  <2> QED
    BY <1>0, <1>2, <2>1, <2>2, <2>3, <2>4, <2>5, <2>6, <2>8, Continues
<1>5. CASE key[p] = ServerURL /\ at[p] < shards[p]
  <2>1. /\ Goto(p, "verify") /\ at' = [at EXCEPT ![p] = @ + 1]
        /\ UNCHANGED <<info, shards, key, buf, alone, stored, line>>
    BY <1>5 DEF AfterDump
  <2>2. pc'[p] = "verify"
    BY <1>0, <2>1 DEF Goto, TypeOK
  <2>3. \A q \in Procs : q # p => Untouched(q) /\ alone'[q] = alone[q]
    BY <1>0, <2>1 DEF Untouched, Goto, TypeOK
  <2>4. More /\ Running(p)'
    BY <2>1, <2>2 DEF More, Running
  <2>5. \A e \in buf'[p] : Good(e)'
    BY <1>3, <2>1, <2>4, EntryKept
  <2>6. alone[p] => \A t \in stored'[p] :
               /\ Follows(info[p][t])
               /\ \A e \in file' \union buf'[p] : e.key = t => e.root = info[p][t]
    BY <1>0, <1>2, <2>1 DEF Step
  <2> QED
    BY <1>0, <1>2, <2>1, <2>2, <2>3, <2>4, <2>5, <2>6, Continues
<1>6. CASE key[p] = ServerURL /\ ~(at[p] < shards[p])
  <2>1. End(p, "idle") /\ Report(p)
    BY <1>6 DEF AfterDump
  <2> QED
    BY <1>0, <1>2, <2>1, ReportKeeps
<1> QED
  BY <1>4, <1>5, <1>6

\* A step that no command takes.
LEMMA FrameKeeps ==
    ASSUME IndInv, TypeOK', UNCHANGED <<disk, pc, local, history>>
    PROVE  IndInv'
<1>1. /\ UNCHANGED <<file, pc, info, shards, at, key, buf, views, alone, stored, line>>
      /\ \A r : (WasShown(r)' <=> WasShown(r)) /\ (Follows(r)' <=> Follows(r))
  BY DEF disk, local, history, WasShown, Follows
<1>2. (\A e : Good(e)' <=> Good(e)) /\ (\A p : Running(p)' <=> Running(p))
  BY <1>1 DEF Good, Running
<1>3. (Memory /\ ReportedRootsConsistent)'
  BY <1>1, <1>2 DEF IndInv, Memory, ReportedRootsConsistent
<1>4. ASSUME NEW p \in Procs PROVE Step(p)'
  <2>0. Step(p)
    BY DEF IndInv
  <2>1. \A t \in Trees : info'[p][t].tree = t /\ WasShown(info[p][t])'
    BY <1>1, <2>0 DEF Step, WasShown
  <2>2. \A e \in buf'[p] : Good(e)'
    BY <1>1, <1>2, <2>0 DEF Step
  <2>3. (pc[p] \in {"read", "open", "write"} =>
             key[p] \in {at[p], ServerURL} /\ Follows(info[p][at[p]]))'
    BY <1>1, <2>0 DEF Step, Follows
  <2>4. (alone[p] => \A t \in stored[p] :
             /\ Follows(info[p][t])
             /\ \A e \in file \union buf[p] : e.key = t => e.root = info[p][t])'
    BY <1>1, <2>0 DEF Step, Follows
  <2>5. (pc[p] = "alarm" => Forked(at[p]))'
    BY <1>1, <2>0 DEF Step, Forked
  <2> QED
    BY <1>1, <1>2, <2>0, <2>1, <2>2, <2>3, <2>4, <2>5 DEF Step
<1> QED
  BY <1>3, <1>4 DEF IndInv

\* IndInv always holds, with any number of commands side by side, dumps that
\* fail and processes that are killed.
THEOREM Invariance == Spec => []IndInv
<1>1. Init => IndInv
  BY InitInv
<1>2. IndInv /\ [Next]_vars => IndInv'
  <2> SUFFICES ASSUME IndInv, [Next]_vars PROVE IndInv'
    OBVIOUS
  <2>0. TypeOK
    BY DEF IndInv
  <2>1. CASE UNCHANGED vars
    <3>1. TypeOK' /\ UNCHANGED <<disk, pc, local, history>>
      BY <2>0, <2>1 DEF vars, disk, local, history, TypeOK
    <3> QED
      BY <3>1, FrameKeeps
  <2>2. CASE Rotate
    <3>1. active' \in Trees
      BY <2>0, <2>2, BoundsAssumption DEF Rotate, TypeOK, Trees
    <3>2. TypeOK'
      BY <2>0, <2>2, <3>1 DEF Rotate, TypeOK, disk, local, history
    <3> QED
      BY <2>2, <3>2, FrameKeeps DEF Rotate
  <2>3. ASSUME NEW p \in Procs, Command(p) PROVE IndInv'
    <3>1. TypeOK'
      BY <2>0, <2>3, CommandType
    <3>2. CASE GetLogInfo(p) \/ VerifyFirst(p) \/ VerifyTree(p)
      BY <3>1, <3>2, GetLogInfoKeeps, VerifyFirstKeeps, VerifyTreeKeeps
    <3>3. CASE ProofUnavailable(p) \/ VerifyFails(p)
      <4>1. /\ End(p, "error") /\ UNCHANGED <<file, views, line>> /\ Running(p)
        BY <3>3 DEF ProofUnavailable, VerifyFails, disk, Running
      <4> QED
        BY <3>1, <4>1, EndKeeps
    <3>4. CASE DumpFails(p)
      <4>1. AfterDump(p, FALSE) /\ pc[p] = "read" /\ UNCHANGED <<file, views>>
        BY <3>4 DEF DumpFails, disk
      <4> QED
        BY <3>1, <4>1, AfterDumpKeeps
    <3>5. CASE DumpRead(p) \/ DumpOpen(p)
      BY <3>1, <3>5, DumpReadKeeps, DumpOpenKeeps
    <3>6. CASE DumpWrite(p)
      <4>1. /\ AfterDump(p, TRUE) /\ pc[p] = "write" /\ UNCHANGED views
            /\ file' = buf[p] \/ file' = {}
        BY <3>6 DEF DumpWrite
      <4> QED
        BY <3>1, <4>1, AfterDumpKeeps
    <3>7. CASE DumpWriteFails(p)
      <4>1. /\ AfterDump(p, FALSE) /\ pc[p] = "write" /\ UNCHANGED views
            /\ file' = file \/ file' = {}
        BY <3>7 DEF DumpWriteFails, Torn, disk
      <4> QED
        BY <3>1, <4>1, AfterDumpKeeps
    <3>8. CASE Crash(p)
      <4>1. /\ End(p, "idle") /\ Running(p) /\ UNCHANGED <<views, line>>
            /\ file' = file \/ file' = {}
        BY <3>8 DEF Crash, Torn, disk
      <4> QED
        BY <3>1, <4>1, EndKeeps
    <3> QED
      BY <2>3, <3>2, <3>3, <3>4, <3>5, <3>6, <3>7, <3>8 DEF Command
  <2> QED
    BY <2>1, <2>2, <2>3 DEF Next
<1> QED
  BY <1>1, <1>2, PTL DEF Spec

\* A fork of the log does not stay unnoticed by commands that report success and
\* keep what they report: their roots lie on one line.
THEOREM ForksNoticed == Spec => []ReportedRootsConsistent
<1>1. IndInv => ReportedRootsConsistent
  BY DEF IndInv
<1> QED
  BY <1>1, Invariance, PTL

\* A command says that the log is inconsistent only if the log has shown two
\* branches, with other commands overwriting the state at any time.
THEOREM NoFalseAlarm == Spec => []AlarmMeansFork
<1>1. IndInv => AlarmMeansFork
  BY DEF IndInv, Step, AlarmMeansFork
<1> QED
  BY <1>1, Invariance, PTL
=============================================================================
