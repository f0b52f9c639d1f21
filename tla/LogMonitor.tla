----------------------------- MODULE LogMonitor -----------------------------
(***************************************************************************)
(* rekor-cli loginfo: a command fetches the checkpoints of all shards,     *)
(* proves each one consistent with the checkpoint remembered for that tree *)
(* in ~/.rekor/state.json, and remembers the new one if it can.  Commands  *)
(* of one user share the file and take no lock.                            *)
(*                                                                         *)
(* The log answers a command with any root of any branch of a tree: a      *)
(* smaller one than before when a replica lags, one of another branch when *)
(* the log has forked.  A root is a tree, a branch and a size; up to size  *)
(* Fork the branches of a tree are the same.  A consistency proof between  *)
(* two roots verifies exactly when one extends the other, at any later     *)
(* time as well, so asking for it and checking it is one step, taken when  *)
(* the state file is read.                                                 *)
(***************************************************************************)
EXTENDS Naturals, FiniteSets

CONSTANTS
    Procs,      \* rekor-cli processes of one user
    Branches,   \* branches of every tree
    Fork,       \* size up to which the branches agree
    MaxShards,  \* bound on the number of trees
    MaxSize,    \* bound on the size of a tree
    ServerURL   \* the key of the state file that is no tree

ASSUME ForkAssumption == Fork \in Nat /\ 1 \in Branches
ASSUME BoundsAssumption == MaxShards \in Nat \ {0} /\ MaxSize \in Nat

Trees == 1 .. MaxShards
Keys == Trees \union {ServerURL}

ASSUME ServerURLAssumption == ServerURL \notin Trees

VARIABLES
    active,    \* the active tree; the inactive shards are 1 .. active - 1
    file,      \* state.json as it unmarshals: a set of [key, root] records,
               \*   none when the file is missing, cut off or garbled
    blank,     \* the file has no bytes
    pc,        \* pc[p]: where process p is, or how its last command ended
    info,      \* info[p][t]: the checkpoints in the log info it fetched
    shards,    \* shards[p]: the active tree in that log info
    at,        \* at[p]: the tree being verified
    key,       \* key[p]: the key Dump writes
    buf,       \* buf[p]: the state Dump read, to be written back
    views,     \* history: views[t], branches of which t was shown beyond Fork
    alone,     \* history: alone[p], no other command has run beside p's
    stored,    \* history: stored[p], trees whose root p's command has stored
    line       \* history: line[t], roots of t in successful reports that were
               \*   stored by a command alone, since a command last said that
               \*   it had no state for t

history == <<views, alone, stored, line>>
local == <<info, shards, at, key, buf>>
disk == <<file, blank>>
vars == <<active, disk, pc, local, history>>

Root(t, b, n) == [tree |-> t, branch |-> IF n <= Fork THEN 1 ELSE b, size |-> n]
Roots == [tree : Trees, branch : Branches, size : 0 .. MaxSize]
Entries == [key : Keys, root : Roots]

\* new is the root of a tree that extends the tree of old
Extends(old, new) ==
    old.size <= new.size /\ Root(new.tree, new.branch, old.size) = old

\* Two roots that the log has shown for t are on different branches.
Forked(t) == \E b, c \in views[t] : b # c

\* The checkpoint remembered for a key; an error reads as no state at all.
Load(k) == {e.root : e \in {x \in file : x.key = k}}

\* A command ends with success or is killed ("idle"), says that two roots do
\* not agree ("alarm"), or fails in another way ("error").
Running(p) == pc[p] \in {"verify", "read", "open", "write"}
Goto(p, label) == pc' = [pc EXCEPT ![p] = label]

\* The process exits; its local variables go, but for the tree an alarm is about.
End(p, status) ==
    /\ Goto(p, status)
    /\ info' = [info EXCEPT ![p] = [t \in Trees |-> Root(t, 1, 0)]]
    /\ shards' = [shards EXCEPT ![p] = 1]
    /\ key' = [key EXCEPT ![p] = ServerURL]
    /\ buf' = [buf EXCEPT ![p] = {}]
    /\ alone' = [alone EXCEPT ![p] = FALSE]
    /\ stored' = [stored EXCEPT ![p] = {}]
    /\ at' = [at EXCEPT ![p] = IF status = "alarm" THEN @ ELSE 1]
-----------------------------------------------------------------------------
(* The log *)

Rotate ==
    /\ active < MaxShards
    /\ active' = active + 1
    /\ UNCHANGED <<disk, pc, local, history>>

\* What a tree may look like: any size, on any branch beyond Fork.
Shown == {x \in Branches \X (0 .. MaxSize) : x[2] <= Fork => x[1] = 1}

\* GetLogInfo: the checkpoints of the inactive shards and of the active tree.
GetLogInfo(p) ==
    /\ ~Running(p)
    /\ \E shown \in [1 .. active -> Shown] :
        /\ info' = [info EXCEPT ![p] = [t \in Trees |->
                        IF t <= active THEN Root(t, shown[t][1], shown[t][2])
                        ELSE Root(t, 1, 0)]]
        /\ views' = [t \in Trees |->
                        IF t <= active /\ shown[t][2] > Fork
                        THEN views[t] \union {shown[t][1]} ELSE views[t]]
    /\ shards' = [shards EXCEPT ![p] = active]
    /\ at' = [at EXCEPT ![p] = 1]
    /\ Goto(p, "verify")
    /\ alone' = [q \in Procs |-> q = p /\ \A r \in Procs : ~Running(r)]
    /\ UNCHANGED <<active, disk, key, buf, stored, line>>
-----------------------------------------------------------------------------
(* The command, one shard after the other and the active one last *)

\* Mutant: of two roots of the same size the hashes are not compared.
ProveConsistencyBySize(old, new) ==
    IF old.size = 0 \/ old.size > new.size THEN "error"
    ELSE IF old.size = new.size \/ Extends(old, new) THEN "ok" ELSE "alarm"

\* Mutant: a smaller root is compared like any other.
ProveConsistencyLag(old, new) ==
    IF old.size = 0 THEN "error" ELSE IF Extends(old, new) THEN "ok" ELSE "alarm"

\* ProveConsistency: there is no proof from an empty tree or to a smaller one;
\* roots of one size must be the same, and a larger one must come with a proof.
ProveConsistency(old, new) ==
    IF old.size = 0 \/ old.size > new.size THEN "error"
    ELSE IF Extends(old, new) THEN "ok" ELSE "alarm"

\* The new checkpoint has passed; now the first Dump.
Accept(p) ==
    /\ Goto(p, "read")
    /\ key' = [key EXCEPT ![p] = at[p]]
    /\ UNCHANGED <<info, shards, at, buf, alone, stored>>

\* verifyTree, which looks the tree up by its ID, without an old state: "No
\* previous log state stored, unable to prove consistency".
VerifyFirst(p) ==
    /\ pc[p] = "verify"
    /\ Load(at[p]) = {}
    /\ Accept(p)
    /\ line' = [line EXCEPT ![at[p]] = {}]
    /\ UNCHANGED <<active, disk, views>>

\* verifyTree with one.
VerifyTree(p) ==
    /\ pc[p] = "verify"
    /\ \E old \in Load(at[p]) :
        LET verdict == ProveConsistency(old, info[p][at[p]])
        IN  IF verdict = "ok" THEN Accept(p) ELSE End(p, verdict)
    /\ UNCHANGED <<active, disk, views, line>>

\* The proof is asked of a replica of Trillian that has not seen the new root.
\* It has none to give, the server answers 400 and the command fails.
ProofUnavailable(p) ==
    /\ pc[p] = "verify"
    /\ \E old \in Load(at[p]) : old.size \in 1 .. info[p][at[p]].size - 1
    /\ End(p, "error")
    /\ UNCHANGED <<active, disk, views, line>>

\* Another call of verifyTree fails: the key cannot be fetched, the signature
\* of the checkpoint does not verify.
VerifyFails(p) ==
    /\ pc[p] = "verify"
    /\ End(p, "error")
    /\ UNCHANGED <<active, disk, views, line>>

\* What the command has stored of tree t it vouches for from now on.
Report(p) ==
    line' = [t \in Trees |->
                IF alone[p] /\ t \in stored[p] THEN line[t] \union {info[p][t]}
                ELSE line[t]]

\* Mutant: the loop goes one shard too far.
AfterDumpTooFar(p, done) ==
    /\ IF key[p] # ServerURL
       THEN Goto(p, "read") /\ key' = [key EXCEPT ![p] = ServerURL] /\ UNCHANGED at
       ELSE Goto(p, "verify") /\ at' = [at EXCEPT ![p] = @ + 1] /\ UNCHANGED key
    /\ UNCHANGED <<info, shards, buf, alone, stored, line>>

\* After the Dump for the tree comes the one for the server URL, then the next
\* shard, and after the last one the command reports success.  A Dump that was
\* not done is logged, and no more.
AfterDump(p, done) ==
    CASE key[p] # ServerURL ->
            /\ Goto(p, "read")
            /\ key' = [key EXCEPT ![p] = ServerURL]
            /\ stored' = [stored EXCEPT ![p] = IF done THEN @ \union {at[p]} ELSE @]
            /\ UNCHANGED <<info, shards, at, buf, alone, line>>
      [] key[p] = ServerURL /\ at[p] < shards[p] ->
            /\ Goto(p, "verify")
            /\ at' = [at EXCEPT ![p] = @ + 1]
            /\ UNCHANGED <<info, shards, key, buf, alone, stored, line>>
      [] OTHER ->
            /\ End(p, "idle")
            /\ Report(p)

\* Nothing is written: store_tree_state is off, the log is empty, there is no
\* home directory, or the file cannot be opened.
DumpFails(p) ==
    /\ pc[p] = "read"
    /\ AfterDump(p, FALSE)
    /\ UNCHANGED <<active, disk, views>>

DumpRead(p) ==
    /\ pc[p] = "read"
    /\ info[p][at[p]].size # 0
    /\ buf' = [buf EXCEPT ![p] = {e \in file : e.key # key[p]}
                  \union {[key |-> key[p], root |-> info[p][at[p]]]}]
    /\ Goto(p, "open")
    /\ UNCHANGED <<active, disk, info, shards, at, key, history>>

\* os.WriteFile opens the file with O_TRUNC ...
DumpOpen(p) ==
    /\ pc[p] = "open"
    /\ file' = {}
    /\ blank' = TRUE
    /\ Goto(p, "write")
    /\ UNCHANGED <<active, local, history>>

\* ... and writes.  If another process wrote meanwhile, its bytes may stick out
\* behind the new ones.
DumpWrite(p) ==
    /\ pc[p] = "write"
    /\ file' \in {buf[p]} \union (IF blank THEN {} ELSE {{}})
    /\ blank' = FALSE
    /\ AfterDump(p, TRUE)
    /\ UNCHANGED <<active, views>>

\* Nothing has been written yet, or a part that does not unmarshal.
Torn == UNCHANGED disk \/ (file' = {} /\ blank' = FALSE)

\* The write fails, for want of space say.
DumpWriteFails(p) ==
    /\ pc[p] = "write"
    /\ Torn
    /\ AfterDump(p, FALSE)
    /\ UNCHANGED <<active, views>>

\* An interrupt.
Crash(p) ==
    /\ Running(p)
    /\ IF pc[p] = "write" THEN Torn ELSE UNCHANGED disk
    /\ End(p, "idle")
    /\ UNCHANGED <<active, views, line>>
-----------------------------------------------------------------------------
Init ==
    /\ active = 1
    /\ file = {}
    /\ blank = TRUE
    /\ pc = [p \in Procs |-> "idle"]
    /\ info = [p \in Procs |-> [t \in Trees |-> Root(t, 1, 0)]]
    /\ shards = [p \in Procs |-> 1]
    /\ at = [p \in Procs |-> 1]
    /\ key = [p \in Procs |-> ServerURL]
    /\ buf = [p \in Procs |-> {}]
    /\ views = [t \in Trees |-> {}]
    /\ alone = [p \in Procs |-> FALSE]
    /\ stored = [p \in Procs |-> {}]
    /\ line = [t \in Trees |-> {}]

Command(p) ==
    \/ GetLogInfo(p)
    \/ VerifyFirst(p)
    \/ VerifyTree(p)
    \/ ProofUnavailable(p)
    \/ VerifyFails(p)
    \/ DumpFails(p)
    \/ DumpRead(p)
    \/ DumpOpen(p)
    \/ DumpWrite(p)
    \/ DumpWriteFails(p)
    \/ Crash(p)

Next == Rotate \/ \E p \in Procs : Command(p)

Spec == Init /\ [][Next]_vars
-----------------------------------------------------------------------------
(* Properties *)

\* Every variable has its type.
TypeOK ==
    /\ active \in Trees
    /\ blank \in BOOLEAN
    /\ file \in SUBSET Entries
    /\ pc \in [Procs -> {"idle", "alarm", "error", "verify", "read", "open", "write"}]
    /\ info \in [Procs -> [Trees -> Roots]]
    /\ shards \in [Procs -> Trees]
    /\ at \in [Procs -> Trees]
    /\ key \in [Procs -> Keys]
    /\ buf \in [Procs -> SUBSET Entries]
    /\ views \in [Trees -> SUBSET Branches]
    /\ alone \in [Procs -> BOOLEAN]
    /\ stored \in [Procs -> SUBSET Trees]
    /\ line \in [Trees -> SUBSET Roots]

\* A fork is noticed.  The roots of a tree with which commands reported success
\* are all of one branch, as long as the user was told nothing to the contrary:
\* counted are commands that ran alone and whose Dump did not fail, since a
\* command last said that it had no previous state.  In between, other commands
\* may have overlapped, failed to write or been killed between the truncation
\* of the file and the write, and may have overwritten what was stored.
ReportedRootsConsistent ==
    \A t \in Trees : \A x, y \in line[t] : Extends(x, y) \/ Extends(y, x)

\* Nothing else is taken for a fork: ProveConsistency says that hashes do not
\* match or that a proof does not verify only if the log has shown two branches
\* of the tree; not because a replica lags, because another command has moved
\* the state on or left it garbled, or because of a rotation.
AlarmMeansFork ==
    \A p \in Procs : pc[p] = "alarm" => Forked(at[p])
=============================================================================
