------------------------------ MODULE RekorLog ------------------------------
(***************************************************************************)
(* The write and read paths of a Rekor deployment: server processes that   *)
(* accept entries (createLogEntry), a Trillian log with one tree per shard *)
(* (external), the search index filled by a goroutine after each accepted  *)
(* entry, and the operator who rotates to a new shard.                     *)
(*                                                                         *)
(* Trees are numbered in the order in which they were made active, so the  *)
(* inactive shards of a configuration whose active tree is t, which the    *)
(* configuration file lists from oldest to newest, are 1 .. t-1.           *)
(*                                                                         *)
(* A Merkle root is abstracted to the number of leaves it covers: hashing  *)
(* is assumed collision free and Trillian only appends, so the root of     *)
(* tree t at size n determines, and is determined by, the first n leaves.  *)
(* For the same reason an RPC that asks about the prefix of size n has the *)
(* same answer at every later time, and a root and the proof fetched for   *)
(* it are read in one step.                                                *)
(***************************************************************************)
EXTENDS Integers, Sequences, FiniteSets

CONSTANTS
    Servers,    \* rekor-server processes
    Requests,   \* API request slots; a slot serves one request at a time
    Leaves,     \* canonicalized entries, i.e. leaf values
    MaxShards,  \* bound on the number of trees ever made active
    None        \* no server, no leaf

ASSUME MaxShardsAssumption == MaxShards \in Nat \ {0}
ASSUME NoneAssumption == None \notin Servers \union Leaves

Trees == 1 .. MaxShards

VARIABLES
    \* --- Trillian and the operator -----------------------------------------
    tree,     \* tree[t]: the integrated leaves, in order
    queued,   \* queued[t]: leaves accepted by QueueLeaf, not yet integrated
    active,   \* the tree that the deployed configuration names as active
    first,    \* history: leaves in the trees before t, where t begins in the log
    read,     \* history: <<t, n>>, a server has read that inactive shard t has n
              \*   leaves
    \* --- server processes --------------------------------------------------
    state,    \* state[s]: "down", "starting" or "serving"
    cfg,      \* cfg[s]: active tree in the configuration s was started with
    nxt,      \* nxt[s]: next inactive shard CompleteInitialization visits
    length,   \* length[s][t]: LogRange.TreeLength, and the size of the cached
              \*   checkpoint of inactive shard t
    base,     \* base[s][t]: sum of length[s][u] over u < t
    \* --- requests ----------------------------------------------------------
    pc,       \* pc[r]: where the handler of request r is
    srv,      \* srv[r]: the server that handles it
    leaf,     \* leaf[r]: the leaf it adds
    known,    \* known[r]: tree size trusted by the waiting log client
    size,     \* size[r]: tree size of the root the inclusion proof is for
    pos,      \* pos[r]: position of the leaf in that proof
    resp,     \* resp[r]: the answer to the last request of slot r
    \* --- what left the servers ---------------------------------------------
    signed,   \* <<virtual index, tree, leaf>> of every SET ever issued
    jobs,     \* index writes the servers still have to do
    index     \* <<tree, leaf>> pairs (entry IDs) in the search index

trillian == <<tree, queued>>
operator == <<active, first, read>>
server   == <<state, cfg, nxt, length, base>>
request  == <<pc, srv, leaf, known, size, pos, resp>>
outputs  == <<signed, jobs, index>>
vars     == <<trillian, operator, server, request, outputs>>

PC == {"idle", "queue", "root", "poll", "wait", "fetch"}
Codes == {"none", "created", "ok", "conflict", "notfound", "error"}

\* A log entry as the API returns it: vindex is LogEntryAnon.LogIndex, size
\* and pos are the inclusion proof's TreeSize and LogIndex, cp is the size in
\* the checkpoint attached to the proof.
Entries == [tree : Trees, leaf : Leaves, pos : Nat, vindex : Nat,
            size : Nat, cp : Nat]

\* named holds the entry IDs an answer mentions: those of its entries, or the
\* one in the Location of a 409.
NoAnswer == [code |-> "none", named |-> {}, entries |-> {}]
ErrorAnswer == [code |-> "error", named |-> {}, entries |-> {}]

Holds(t, l) == \E i \in DOMAIN tree[t] : tree[t][i] = l
Accepted(t, l) == l \in queued[t] \/ Holds(t, l)
-----------------------------------------------------------------------------
(* Answers *)

\* Mutant: the index within the tree is taken for the virtual one.
VirtualLogIndexOfTree(s, tid, leafIndex) == leafIndex

\* Mutant: the loop adds a shard's length before it compares the tree IDs.
VirtualLogIndexSwapped(s, tid, leafIndex) ==
    base[s][tid] + leafIndex + (IF tid < cfg[s] THEN length[s][tid] ELSE 0)

\* VirtualLogIndex: the loop adds up the lengths of the inactive shards that
\* precede tid.  TreeLength never changes once CompleteInitialization is done,
\* so the running sums are kept in base; ShardingMC checks the loop itself.
VirtualLogIndex(s, tid, leafIndex) == base[s][tid] + leafIndex

\* Mutant: an index equal to the length is looked for in the inactive shard.
ResolvesToInclusive(s, v, t) ==
    /\ t \in 1 .. cfg[s]
    /\ \A u \in 1 .. t-1 : v > base[s][u] + length[s][u]
    /\ t = cfg[s] \/ v <= base[s][t] + length[s][t]

\* ResolveVirtualIndex: v lies in the first inactive shard that ends after it,
\* in the active shard if there is none.
ResolvesTo(s, v, t) ==
    /\ t \in 1 .. cfg[s]
    /\ \A u \in 1 .. t-1 : v >= base[s][u] + length[s][u]
    /\ t = cfg[s] \/ v < base[s][t] + length[s][t]

\* Mutant: the checkpoint is made from a root fetched anew, not the proof's.
EntryFromLeafFreshRoot(s, t, i, n) ==
    [tree |-> t, leaf |-> tree[t][i], pos |-> i - 1,
     vindex |-> VirtualLogIndex(s, t, i - 1), size |-> n,
     cp |-> IF t < cfg[s] THEN length[s][t] ELSE Len(tree[t])]

\* logEntryFromLeaf: the checkpoint of an inactive shard comes from the cache
\* filled at startup, the proof and its root from Trillian.
EntryFromLeaf(s, t, i, n) ==
    [tree |-> t, leaf |-> tree[t][i], pos |-> i - 1,
     vindex |-> VirtualLogIndex(s, t, i - 1), size |-> n,
     cp |-> IF t < cfg[s] THEN length[s][t] ELSE n]

SetsOf(E) == {<<e.vindex, e.tree, e.leaf>> : e \in E}

Answer(r, code, E) ==
    /\ resp' = [resp EXCEPT ![r] =
                  [code |-> code, named |-> {<<e.tree, e.leaf>> : e \in E},
                   entries |-> E]]
    /\ signed' = signed \union SetsOf(E)
Goto(r, label) == pc' = [pc EXCEPT ![r] = label]

\* The handlers of the requests in R return; their local variables go.
Return(R) ==
    /\ pc' = [r \in Requests |-> IF r \in R THEN "idle" ELSE pc[r]]
    /\ srv' = [r \in Requests |-> IF r \in R THEN None ELSE srv[r]]
    /\ leaf' = [r \in Requests |-> IF r \in R THEN None ELSE leaf[r]]
    /\ known' = [r \in Requests |-> IF r \in R THEN 0 ELSE known[r]]
    /\ size' = [r \in Requests |-> IF r \in R THEN 0 ELSE size[r]]
    /\ pos' = [r \in Requests |-> IF r \in R THEN 0 ELSE pos[r]]
-----------------------------------------------------------------------------
(* Trillian (external) *)

\* The sequencer of Trillian's log signer integrates a queued leaf and
\* publishes a root that covers it.  It does so for every tree: what was queued
\* in a tree before a rotation is integrated after it.
Integrate(t) ==
    \E l \in queued[t] :
        /\ tree' = [tree EXCEPT ![t] = Append(@, l)]
        /\ queued' = [queued EXCEPT ![t] = @ \ {l}]
        /\ first' = [u \in Trees |-> IF t < u THEN first[u] + 1 ELSE first[u]]
        /\ UNCHANGED <<active, read, server, request, outputs>>
-----------------------------------------------------------------------------
(* Server start and stop *)

\* NewAPI reads the deployed configuration.
Start(s) ==
    /\ state[s] = "down"
    /\ state' = [state EXCEPT ![s] = "starting"]
    /\ cfg' = [cfg EXCEPT ![s] = active]
    /\ nxt' = [nxt EXCEPT ![s] = 1]
    /\ UNCHANGED <<trillian, operator, length, base, request, outputs>>

\* Mutant: the loop does not stop at the last inactive shard.
InitShardUnbounded(s) ==
    LET t == nxt[s]
        n == Len(tree[t])
    IN  /\ state[s] = "starting"
        /\ length' = [length EXCEPT ![s] = [@ EXCEPT ![t] = n]]
        /\ base' = [base EXCEPT ![s] = [@ EXCEPT ![t + 1] = base[s][t] + n]]
        /\ nxt' = [nxt EXCEPT ![s] = t + 1]
        /\ read' = read \union {<<t, n>>}
        /\ UNCHANGED <<trillian, active, first, state, cfg, request, outputs>>

\* One iteration of CompleteInitialization: GetLatest on an inactive shard
\* gives both its TreeLength and the root of its cached checkpoint.
InitShard(s) ==
    LET t == nxt[s]
        n == Len(tree[t])
    IN  /\ state[s] = "starting"
        /\ t < cfg[s]
        /\ length' = [length EXCEPT ![s] = [@ EXCEPT ![t] = n]]
        /\ base' = [base EXCEPT ![s] = [@ EXCEPT ![t + 1] = base[s][t] + n]]
        /\ nxt' = [nxt EXCEPT ![s] = t + 1]
        /\ read' = read \union {<<t, n>>}
        /\ UNCHANGED <<trillian, active, first, state, cfg, request, outputs>>

Serve(s) ==
    /\ state[s] = "starting"
    /\ nxt[s] = cfg[s]
    /\ state' = [state EXCEPT ![s] = "serving"]
    /\ UNCHANGED <<trillian, operator, cfg, nxt, length, base, request, outputs>>

\* A failed start (ConfigureAPI panics), a crash or a stop: the requests in
\* flight get no answer and the goroutines that fill the index die.
Crash(s) ==
    LET lost == {r \in Requests : srv[r] = s}
    IN  /\ state[s] # "down"
        /\ state' = [state EXCEPT ![s] = "down"]
        /\ Return(lost)
        /\ resp' = [r \in Requests |-> IF r \in lost THEN NoAnswer ELSE resp[r]]
        /\ jobs' = {j \in jobs : j.srv # s}
        /\ UNCHANGED <<trillian, operator, cfg, nxt, length, base,
                       signed, index>>

AllDown == \A s \in Servers : state[s] = "down"

\* The rotation of the sharding end-to-end test: with the servers stopped a
\* new tree becomes the active one and the old one joins the inactive shards,
\* with whatever is still in its queue.
Rotate ==
    /\ active < MaxShards
    /\ AllDown
    /\ active' = active + 1
    /\ UNCHANGED <<trillian, first, read, server, request, outputs>>
-----------------------------------------------------------------------------
(* createLogEntry, and AddLeaf which it calls *)

\* Mutant: requests are taken before the shards are known.
CreateLogEntryEarly(r, s, l) ==
    /\ pc[r] = "idle"
    /\ state[s] # "down"
    /\ Goto(r, "queue")
    /\ srv' = [srv EXCEPT ![r] = s]
    /\ leaf' = [leaf EXCEPT ![r] = l]
    /\ resp' = [resp EXCEPT ![r] = NoAnswer]
    /\ UNCHANGED <<trillian, operator, server, known, size, pos, outputs>>

\* A proposed entry that passed validation and was canonicalized to l.
CreateLogEntry(r, s, l) ==
    /\ pc[r] = "idle"
    /\ state[s] = "serving"
    /\ Goto(r, "queue")
    /\ srv' = [srv EXCEPT ![r] = s]
    /\ leaf' = [leaf EXCEPT ![r] = l]
    /\ resp' = [resp EXCEPT ![r] = NoAnswer]
    /\ UNCHANGED <<trillian, operator, server, known, size, pos, outputs>>

\* Mutant: the index is written as soon as the leaf is queued.
QueueLeafIndexes(r) ==
    LET s == srv[r]
    IN  /\ pc[r] = "queue"
        /\ ~Accepted(cfg[s], leaf[r])
        /\ queued' = [queued EXCEPT ![cfg[s]] = @ \union {leaf[r]}]
        /\ jobs' = jobs \union {[srv |-> s, tree |-> cfg[s], leaf |-> leaf[r]]}
        /\ Goto(r, "root")
        /\ UNCHANGED <<tree, operator, server, srv, leaf, known, size, pos, resp,
                       signed, index>>

\* QueueLeaf on a leaf the tree does not know.  The reply may be lost, and the
\* client then gets an internal error although the leaf is queued.
QueueLeaf(r) ==
    LET t == cfg[srv[r]]
    IN  /\ pc[r] = "queue"
        /\ ~Accepted(t, leaf[r])
        /\ queued' = [queued EXCEPT ![t] = @ \union {leaf[r]}]
        /\ \/ /\ Goto(r, "root")
              /\ UNCHANGED <<srv, leaf, known, size, pos, resp>>
           \/ /\ Return({r})
              /\ resp' = [resp EXCEPT ![r] = ErrorAnswer]
        /\ UNCHANGED <<tree, operator, server, outputs>>

\* Mutant: any failure of QueueLeaf is answered as a conflict.
ConflictOnError(r) ==
    /\ pc[r] = "queue"
    /\ Return({r})
    /\ resp' = [resp EXCEPT ![r] =
                  [code |-> "conflict", named |-> {<<cfg[srv[r]], leaf[r]>>},
                   entries |-> {}]]
    /\ UNCHANGED <<trillian, operator, server, outputs>>

\* Trillian answers ALREADY_EXISTS, integrated or not: AddLeaf returns at once
\* and createLogEntry answers 409 with the entry ID in the active tree.
Conflict(r) ==
    /\ pc[r] = "queue"
    /\ Accepted(cfg[srv[r]], leaf[r])
    /\ Return({r})
    /\ resp' = [resp EXCEPT ![r] =
                  [code |-> "conflict", named |-> {<<cfg[srv[r]], leaf[r]>>},
                   entries |-> {}]]
    /\ UNCHANGED <<trillian, operator, server, outputs>>

\* The root the log client starts from.
Root(r) ==
    /\ pc[r] = "root"
    /\ known' = [known EXCEPT ![r] = Len(tree[cfg[srv[r]]])]
    /\ Goto(r, "poll")
    /\ UNCHANGED <<trillian, operator, server, srv, leaf, size, pos, resp, outputs>>

\* Mutant: the client waits for a root newer than the latest, not newer than
\* the one it knows.
PollForgets(r) ==
    LET t == cfg[srv[r]]
    IN  /\ pc[r] = "poll"
        /\ \/ /\ known[r] >= 1
              /\ \E i \in DOMAIN tree[t] :
                    /\ tree[t][i] = leaf[r]
                    /\ pos' = [pos EXCEPT ![r] = i - 1]
              /\ size' = [size EXCEPT ![r] = Len(tree[t])]
              /\ Goto(r, "fetch")
              /\ UNCHANGED known
           \/ /\ known[r] = 0 \/ ~Holds(t, leaf[r])
              /\ known' = [known EXCEPT ![r] = Len(tree[t])]
              /\ Goto(r, "wait")
              /\ UNCHANGED <<size, pos>>
        /\ UNCHANGED <<trillian, operator, server, srv, leaf, resp, outputs>>

\* One round of waitForInclusion: ask for a proof at the latest root unless
\* the trusted root is empty; NotFound means wait for another root.
Poll(r) ==
    LET t == cfg[srv[r]]
    IN  /\ pc[r] = "poll"
        /\ \/ /\ known[r] >= 1
              /\ \E i \in DOMAIN tree[t] :
                    /\ tree[t][i] = leaf[r]
                    /\ pos' = [pos EXCEPT ![r] = i - 1]
              /\ size' = [size EXCEPT ![r] = Len(tree[t])]
              /\ Goto(r, "fetch")
           \/ /\ known[r] = 0 \/ ~Holds(t, leaf[r])
              /\ Goto(r, "wait")
              /\ UNCHANGED <<size, pos>>
        /\ UNCHANGED <<trillian, operator, server, srv, leaf, known, resp, outputs>>

\* WaitForRootUpdate returns when the latest root is newer than the trusted
\* one, which is the root of the previous update and not that of the proof.
WaitForRootUpdate(r) ==
    LET n == Len(tree[cfg[srv[r]]])
    IN  /\ pc[r] = "wait"
        /\ n > known[r]
        /\ known' = [known EXCEPT ![r] = n]
        /\ Goto(r, "poll")
        /\ UNCHANGED <<trillian, operator, server, srv, leaf, size, pos, resp, outputs>>

\* The goroutine that writes the index is started before the entry is signed.
StartIndexing(r) ==
    jobs' = jobs \union {[srv |-> srv[r], tree |-> cfg[srv[r]], leaf |-> leaf[r]]}

\* getStandaloneLeaf returns the leaf at the proof's position, createLogEntry
\* starts the index write, signs the SET and the checkpoint of the proof's
\* root, and answers 201.  It also starts the goroutines that store an
\* attestation and publish an event; they touch no state of this module.
Created(r) ==
    LET s == srv[r]
        t == cfg[s]
    IN  /\ pc[r] = "fetch"
        /\ tree[t][pos[r] + 1] = leaf[r]
        /\ StartIndexing(r)
        /\ Answer(r, "created", {EntryFromLeaf(s, t, pos[r] + 1, size[r])})
        /\ Return({r})
        /\ UNCHANGED <<trillian, operator, server, index>>

\* The signer fails (a KMS may be remote): 500, with the index write under way.
SigningFails(r) ==
    /\ pc[r] = "fetch"
    /\ tree[cfg[srv[r]]][pos[r] + 1] = leaf[r]
    /\ StartIndexing(r)
    /\ Return({r})
    /\ resp' = [resp EXCEPT ![r] = ErrorAnswer]
    /\ UNCHANGED <<trillian, operator, server, signed, index>>

\* An RPC fails or the request's context is done: 500, and whatever was queued
\* stays queued.
AddLeafFails(r) ==
    /\ pc[r] # "idle"
    /\ Return({r})
    /\ resp' = [resp EXCEPT ![r] = ErrorAnswer]
    /\ UNCHANGED <<trillian, operator, server, outputs>>

\* addToIndex succeeds or fails; nothing retries it.
IndexJob(j) ==
    /\ jobs' = jobs \ {j}
    /\ index' \in {index, index \union {<<j.tree, j.leaf>>}}
    /\ UNCHANGED <<trillian, operator, server, request, signed>>
-----------------------------------------------------------------------------
(* Reads: an answer is computed from the leaves and roots Trillian returns *)

Reply(r, s, E) ==
    /\ pc[r] = "idle"
    /\ state[s] = "serving"
    /\ Answer(r, IF E = {} THEN "notfound" ELSE "ok", E)
    /\ UNCHANGED <<trillian, operator, server, pc, srv, leaf, known, size, pos,
                   jobs, index>>

\* Entries a server returns for leaf l in tree t: at most one.
Found(s, t, l) ==
    {EntryFromLeaf(s, t, i, Len(tree[t])) :
        i \in {k \in DOMAIN tree[t] : tree[t][k] = l}}

\* GET /log/entries/{entryUUID} with an entry ID; a tree outside the
\* configuration of the server is not found.
GetByEntryID(r, s, t, l) ==
    Reply(r, s, IF t \in 1 .. cfg[s] THEN Found(s, t, l) ELSE {})

\* The same with a plain UUID: the active tree, then the inactive ones from
\* the oldest, and the first hit wins.
GetByUUID(r, s, l) ==
    LET hits == {t \in 1 .. cfg[s] : Holds(t, l)}
        hit == IF cfg[s] \in hits THEN {cfg[s]}
               ELSE {t \in hits : \A u \in hits : t <= u}
    IN  Reply(r, s, UNION {Found(s, t, l) : t \in hit})

\* GET /log/entries?logIndex=v
GetByIndex(r, s, v) ==
    \E t \in 1 .. cfg[s] :
        /\ ResolvesTo(s, v, t)
        /\ LET i == (v - base[s][t]) + 1
           IN  Reply(r, s, IF i \in DOMAIN tree[t]
                           THEN {EntryFromLeaf(s, t, i, Len(tree[t]))} ELSE {})

\* POST /log/entries/retrieve with a proposed entry or a UUID: one result for
\* each shard that holds the leaf.
SearchByHash(r, s, l) ==
    Reply(r, s, UNION {Found(s, t, l) : t \in 1 .. cfg[s]})

\* A request that ends before it changes anything: a read on which an RPC or
\* the signer fails, or a proposed entry that is rejected before AddLeaf.
ReadFails(r, s) ==
    /\ pc[r] = "idle"
    /\ state[s] = "serving"
    /\ resp' = [resp EXCEPT ![r] = ErrorAnswer]
    /\ UNCHANGED <<trillian, operator, server, pc, srv, leaf, known, size, pos, outputs>>
-----------------------------------------------------------------------------
Init ==
    /\ tree = [t \in Trees |-> << >>]
    /\ queued = [t \in Trees |-> {}]
    /\ active = 1
    /\ first = [t \in Trees |-> 0]
    /\ read = {}
    /\ state = [s \in Servers |-> "down"]
    /\ cfg = [s \in Servers |-> 1]
    /\ nxt = [s \in Servers |-> 1]
    /\ length = [s \in Servers |-> [t \in Trees |-> 0]]
    /\ base = [s \in Servers |-> [t \in Trees |-> 0]]
    /\ pc = [r \in Requests |-> "idle"]
    /\ srv = [r \in Requests |-> None]
    /\ leaf = [r \in Requests |-> None]
    /\ known = [r \in Requests |-> 0]
    /\ size = [r \in Requests |-> 0]
    /\ pos = [r \in Requests |-> 0]
    /\ resp = [r \in Requests |-> NoAnswer]
    /\ signed = {}
    /\ jobs = {}
    /\ index = {}

ServerStep(s) == Start(s) \/ InitShard(s) \/ Serve(s) \/ Crash(s)

\* The steps by which a request makes progress, and the ones that end it early.
AddLeafStep(r) ==
    \/ QueueLeaf(r)
    \/ Conflict(r)
    \/ Root(r)
    \/ Poll(r)
    \/ WaitForRootUpdate(r)
    \/ Created(r)

RequestStep(r) == AddLeafStep(r) \/ SigningFails(r) \/ AddLeafFails(r)

\* Virtual indices worth asking for: every one in use and one beyond.
AskedIndices == 0 .. first[active] + Len(tree[active])

ReadStep(r, s) ==
    \/ \E t \in Trees, l \in Leaves : GetByEntryID(r, s, t, l)
    \/ \E l \in Leaves : GetByUUID(r, s, l)
    \/ \E v \in AskedIndices : GetByIndex(r, s, v)
    \/ \E l \in Leaves : SearchByHash(r, s, l)
    \/ ReadFails(r, s)

Steps ==
    \/ \E t \in Trees : Integrate(t)
    \/ \E s \in Servers : ServerStep(s)
    \/ \E r \in Requests, s \in Servers, l \in Leaves : CreateLogEntry(r, s, l)
    \/ \E r \in Requests : RequestStep(r)
    \/ \E j \in jobs : IndexJob(j)
    \/ \E r \in Requests, s \in Servers : ReadStep(r, s)

Next == Steps \/ Rotate

Spec == Init /\ [][Next]_vars
-----------------------------------------------------------------------------
(* Properties *)

\* Every variable has the type its comment gives.
TypeOK ==
    /\ tree \in [Trees -> Seq(Leaves)]
    /\ queued \in [Trees -> SUBSET Leaves]
    /\ active \in Trees
    /\ first \in [Trees -> Nat]
    /\ read \in SUBSET (Trees \X Nat)
    /\ state \in [Servers -> {"down", "starting", "serving"}]
    /\ cfg \in [Servers -> Trees]
    /\ nxt \in [Servers -> Trees]
    /\ length \in [Servers -> [Trees -> Nat]]
    /\ base \in [Servers -> [Trees -> Nat]]
    /\ pc \in [Requests -> PC]
    /\ srv \in [Requests -> Servers \union {None}]
    /\ leaf \in [Requests -> Leaves \union {None}]
    /\ known \in [Requests -> Nat]
    /\ size \in [Requests -> Nat]
    /\ pos \in [Requests -> Nat]
    /\ resp \in [Requests -> [code : Codes, named : SUBSET (Trees \X Leaves),
                              entries : SUBSET Entries]]
    /\ signed \in SUBSET (Nat \X Trees \X Leaves)
    /\ jobs \in SUBSET [srv : Servers, tree : Trees, leaf : Leaves]
    /\ index \in SUBSET (Trees \X Leaves)

\* No inactive shard has grown since a server read its length.  Nothing in the
\* code sees to it: a leaf that was queued before a rotation can be integrated
\* at any time after it.  What clients are promised about virtual indices and
\* cached checkpoints holds up to that moment, and the properties say so.
Settled == \A x \in read : x[2] = Len(tree[x[1]])

\* No two entries are signed with the same virtual index, whichever server
\* signed them and however many rotations lie between, unless a shard has grown
\* after its length was read.
VirtualIndexUnique ==
    Settled => \A x, y \in signed : x[1] = y[1] => x = y

\* An entry is signed with one virtual index only: a SET handed out by
\* createLogEntry stays valid for what later reads return, also after its
\* shard has become inactive, with the same exception.
SetStable ==
    Settled => \A x, y \in signed : x[2] = y[2] /\ x[3] = y[3] => x = y

\* Every server that serves finds, under the virtual index of a SET, the entry
\* the SET was issued for (VirtualLogIndex and ResolveVirtualIndex agree across
\* servers and restarts), with the same exception.
SignedIndexResolves ==
    Settled =>
        \A s \in Servers : \A x \in signed :
            state[s] = "serving" =>
                /\ ResolvesTo(s, x[1], x[2])
                /\ LET i == (x[1] - base[s][x[2]]) + 1
                   IN  i \in DOMAIN tree[x[2]] /\ tree[x[2]][i] = x[3]

\* The inclusion proof of an answer holds in the tree, and the checkpoint
\* attached to it is about the same root (VerifyCheckpointSignature rejects the
\* entry otherwise), cached ones as long as their shards have not grown.
EntriesVerify ==
    \A r \in Requests : \A e \in resp[r].entries :
        /\ e.pos < e.size /\ e.size <= Len(tree[e.tree])
        /\ tree[e.tree][e.pos + 1] = e.leaf
        /\ e.tree = active \/ Settled => e.cp = e.size

\* An entry ID handed to a client, by a 201, a 409 or a read, is that of a leaf
\* the tree holds or has queued: no answer names an entry that was dropped.
NamedEntriesExist ==
    \A r \in Requests : \A id \in resp[r].named : Accepted(id[1], id[2])

\* The search index points at integrated entries only, although it is written
\* by goroutines that survive the request and races with crashes.
IndexSound ==
    \A id \in index : Holds(id[1], id[2])

\* What the cached checkpoint of an inactive shard says is what the shard is:
\* the comment on API.cachedCheckpoints, "Inactive shards will always return
\* the same checkpoint".
InactiveShardsFrozen ==
    \A s \in Servers : state[s] = "serving" =>
        \A t \in 1 .. cfg[s] - 1 : length[s][t] = Len(tree[t])

VirtualEntries ==
    UNION {{<<first[t] + i - 1, t, tree[t][i]>> : i \in DOMAIN tree[t]} :
              t \in 1 .. active}

Virtual == INSTANCE VirtualLog
    WITH size <- first[active] + Len(tree[active]),
         log <- VirtualEntries

\* The deployment behaves as one append-only virtual log, whose shards are
\* invisible in the indices and the SETs that clients see, through rotations
\* during which the old tree's queue is still being integrated, up to the step
\* by which a shard grows whose length has been read.
VirtualLogSpec ==
    Virtual!Init /\ [][Settled' => Virtual!Next]_(Virtual!vars)
-----------------------------------------------------------------------------
(* Liveness: the sequencer keeps sequencing, and a handler that can take a   *)
(* step takes it.  Failures, timeouts and crashes are never required.        *)

Fairness ==
    /\ \A t \in Trees : WF_vars(Integrate(t))
    /\ \A r \in Requests : WF_vars(AddLeafStep(r))

FairSpec == Spec /\ Fairness

\* Every accepted request is answered: AddLeaf does not wait for a root that
\* has already come, even when no other leaf follows.
RequestsReturn == \A r \in Requests : pc[r] # "idle" ~> pc[r] = "idle"
=============================================================================
