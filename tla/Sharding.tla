------------------------------ MODULE Sharding ------------------------------
(***************************************************************************)
(* One server's view of its shards (LogRanges), the entry IDs that carry a *)
(* tree ID in front of a leaf hash, the handlers that route a request to a *)
(* tree by them, and the clients, which check the answer with the same      *)
(* functions and those of SignedNotes.  The lengths and the cached         *)
(* checkpoints are those of a server that has started; RekorLog has the    *)
(* start and the concurrency.                                              *)
(***************************************************************************)
EXTENDS SignedNotes

CONSTANTS
    TreeIDs,     \* tree IDs Trillian gives out: positive int64
    BadTree,     \* 16 hex digits that are no int64, as those of 2^63 and up
    UUIDs,       \* Merkle leaf hashes
    Keys,        \* keys of signers
    Unset,       \* a signing configuration that is not set
    Configs,     \* those that are: a sequence of keys, the primary one first
    Hostname,    \* the identity that notes are signed with
    MaxInactive, \* bound on the number of inactive shards
    MaxLength    \* bound on the number of leaves of a tree

ASSUME ConfigsAssumption == Configs \subseteq Seq(Keys) \ {<< >>}
ASSUME BoundsAssumption == MaxInactive \in Nat /\ MaxLength \in Nat
ASSUME TreeIDsAssumption == 0 \notin TreeIDs /\ BadTree \notin TreeIDs \union {0}

VARIABLES
    leaves,    \* leaves[t]: leaf hashes of tree t, in order (Trillian)
    inactive,  \* LogRanges.inactive, from oldest to newest
    active,    \* LogRanges.active
    cachedCheckpoints, \* of the inactive shards, signed at the start
    request,   \* what the client asked for
    reply,     \* what the server answered
    consulted, \* the trees it asked Trillian about
    verdict    \* what rekor-cli makes of the answer

ranges == <<leaves, inactive, active, cachedCheckpoints>>
vars == <<ranges, request, reply, consulted, verdict>>

Nil == "nil"
Error == "error"
PlainUUID == "ErrPlainUUID"
NoTree == "0 is not a valid TreeID"
-----------------------------------------------------------------------------
(* Entry IDs: an ID is told from others by its length *)

UUIDForm(u) == [form |-> "uuid", tree |-> 0, uuid |-> u]
EntryForm(t, u) == [form |-> "entry", tree |-> t, uuid |-> u]

\* What the pattern of the API lets through.
IDs == {UUIDForm(u) : u \in UUIDs}
         \union {EntryForm(t, u) : t \in TreeIDs \union {0, BadTree}, u \in UUIDs}

\* The validators answer Nil when they find nothing wrong.
ValidateUUID(id) == IF id.form \in {"uuid", "entry"} THEN Nil ELSE Error

ValidateTreeID(id) ==
    IF id.form \notin {"entry", "tree"} \/ id.tree = BadTree THEN Error
    ELSE IF id.tree = 0 THEN NoTree ELSE Nil

ValidateEntryID(id) ==
    IF ValidateUUID(id) # Nil THEN ValidateUUID(id) ELSE ValidateTreeID(id)

\* An entry ID of tree 0 still has a UUID.
GetUUIDFromIDString(id) ==
    CASE id.form = "uuid" /\ ValidateUUID(id) = Nil -> [err |-> Nil, uuid |-> id.uuid]
      [] id.form = "entry" /\ ValidateEntryID(id) \in {Nil, NoTree} ->
            [err |-> Nil, uuid |-> id.uuid]
      [] OTHER -> [err |-> Error, uuid |-> Nil]

GetTreeIDFromIDString(id) ==
    CASE id.form = "uuid" -> [err |-> PlainUUID, tree |-> 0]
      [] id.form # "uuid" /\ ValidateEntryID(id) # Nil ->
            [err |-> ValidateEntryID(id), tree |-> 0]
      [] OTHER -> [err |-> Nil, tree |-> id.tree]

\* The tree ID is padded to its full length, so that the parts can be told
\* apart again.
CreateEntryIDFromParts(t, u) ==
    LET id == EntryForm(t, u)
    IN  [err |-> ValidateEntryID(id), id |-> id]
-----------------------------------------------------------------------------
(* LogRanges *)

\* initializeRange: a shard without a signing configuration of its own uses
\* the one of the active tree, as it is now.
InitializeRange(t, n, config, default) ==
    [TreeID |-> t, TreeLength |-> n,
     Signers |-> IF config = Unset THEN default ELSE config]

AllShards == <<active.TreeID>> \o [i \in DOMAIN inactive |-> inactive[i].TreeID]

\* The place of a tree among the inactive shards, 0 if it is not there.
InactiveShard(t) == SelectInSeq(inactive, LAMBDA r : r.TreeID = t)

\* The active shard is compared first; an error is an empty sequence.
GetLogRangeByTreeID(t) ==
    CASE t = active.TreeID -> <<active>>
      [] t # active.TreeID /\ InactiveShard(t) # 0 -> <<inactive[InactiveShard(t)]>>
      [] OTHER -> << >>

\* The sum that the loops below have after i inactive shards.
Before[i \in 0 .. Len(inactive)] ==
    IF i = 0 THEN 0 ELSE Before[i - 1] + inactive[i].TreeLength

TotalInactiveLength == Before[Len(inactive)]

\* The keys of the tree of the request, of the active one when it names none,
\* or nothing where the answer is 400.
PublicKeys(t) ==
    LET found == GetLogRangeByTreeID(t)
    IN  CASE t = 0 -> active.Signers
          [] t # 0 /\ found = << >> -> << >>
          [] OTHER -> found[1].Signers

\* Mutant: the key of the active tree for every tree.
PublicKeyActive(t) == {active.Signers[1]}

\* The primary key.
PublicKey(t) == IF PublicKeys(t) = << >> THEN {} ELSE {PublicKeys(t)[1]}

\* Mutant: a shard's length is added before its tree ID is compared.
VirtualLogIndexSwapped(leafIndex, tid) ==
    LET i == InactiveShard(tid)
    IN  CASE i # 0 -> Before[i] + leafIndex
          [] i = 0 /\ active.TreeID = tid -> TotalInactiveLength + leafIndex
          [] OTHER -> -1

\* The loop adds the lengths of the shards before the one it looks for.
VirtualLogIndex(leafIndex, tid) ==
    LET i == InactiveShard(tid)
    IN  CASE i # 0 -> Before[i - 1] + leafIndex
          [] i = 0 /\ active.TreeID = tid -> TotalInactiveLength + leafIndex
          [] OTHER -> -1

\* Mutant: an index equal to the length is still in the shard.
ResolveVirtualIndexInclusive(index) ==
    LET hits == {i \in DOMAIN inactive : index - Before[i - 1] <= inactive[i].TreeLength}
    IN  IF hits = {} THEN <<active.TreeID, index - TotalInactiveLength>>
        ELSE <<inactive[Min(hits)].TreeID, index - Before[Min(hits) - 1]>>

\* The loop subtracts the lengths of the shards that end before the index, and leaves
\* at the first one that does not.
ResolveVirtualIndex(index) ==
    LET hits == {i \in DOMAIN inactive : index - Before[i - 1] < inactive[i].TreeLength}
    IN  IF hits = {} THEN <<active.TreeID, index - TotalInactiveLength>>
        ELSE <<inactive[Min(hits)].TreeID, index - Before[Min(hits) - 1]>>
-----------------------------------------------------------------------------
(* Handlers *)

Answer(code, E) == [code |-> code, entries |-> E]
NotFound == Answer(404, {})

\* logEntryFromLeaf: the leaf with its ID and its virtual index, a signature of
\* each signer, and a proof for the root that is current, beside a checkpoint
\* that was cached if the shard is inactive.
LogEntryFromLeaf(t, i) ==
    LET range == GetLogRangeByTreeID(t)[1]
        e == [body |-> leaves[t][i], logIndex |-> VirtualLogIndex(i - 1, t),
              logID |-> LogID(range.Signers[1])]
        sets == signEntryMultiple(range.Signers, e)
    IN  [id |-> CreateEntryIDFromParts(t, leaves[t][i]).id,
         body |-> e.body, logIndex |-> e.logIndex, logID |-> e.logID,
         inclusionProof |->
            [treeSize |-> Len(leaves[t]), rootHash |-> leaves[t], logIndex |-> i - 1,
             hashes |-> leaves[t],
             checkpoint |-> IF t \in DOMAIN cachedCheckpoints THEN cachedCheckpoints[t]
                            ELSE CreateAndSignCheckpointMultiple(Hostname, t, leaves[t], range.Signers)],
         signedEntryTimestamp |-> sets[1],
         additional |-> [k \in 1 .. Len(sets) - 1 |->
                           [logID |-> LogID(range.Signers[k + 1]), set |-> sets[k + 1]]]]

Found(t, u) == {LogEntryFromLeaf(t, i) : i \in {k \in DOMAIN leaves[t] : leaves[t][k] = u}}

\* Mutant: the tree ID of the request goes straight to Trillian.
RetrieveUUIDFromTreeUnchecked(u, t) ==
    [asked |-> {t},
     reply |-> IF GetLogRangeByTreeID(t) = << >> \/ Found(t, u) = {} THEN NotFound
               ELSE Answer(200, Found(t, u))]

\* retrieveUUIDFromTree: the trees it asks, and what it finds.
RetrieveUUIDFromTree(u, t) ==
    IF GetLogRangeByTreeID(t) = << >> THEN [asked |-> {}, reply |-> NotFound]
    ELSE [asked |-> {t},
          reply |-> IF Found(t, u) = {} THEN NotFound ELSE Answer(200, Found(t, u))]

\* Mutant: a plain UUID is looked for in the active tree only.
RetrieveLogEntryActiveOnly(id) ==
    LET uuid == GetUUIDFromIDString(id)
        tid == GetTreeIDFromIDString(id)
    IN  IF uuid.err # Nil \/ tid.err \notin {Nil, PlainUUID}
        THEN [asked |-> {}, reply |-> Answer(500, {})]
        ELSE RetrieveUUIDFromTree(uuid.uuid,
                                  IF tid.err = Nil THEN tid.tree ELSE active.TreeID)

\* retrieveLogEntry: the tree of the ID, or all shards until one has the leaf.
RetrieveLogEntry(id) ==
    LET uuid == GetUUIDFromIDString(id)
        tid == GetTreeIDFromIDString(id)
        hit == SelectInSeq(AllShards, LAMBDA t : Found(t, uuid.uuid) # {})
    IN  CASE uuid.err # Nil -> [asked |-> {}, reply |-> Answer(500, {})]
          [] uuid.err = Nil /\ tid.err = Nil -> RetrieveUUIDFromTree(uuid.uuid, tid.tree)
          [] uuid.err = Nil /\ tid.err = PlainUUID ->
                [asked |-> IF hit = 0 THEN ToSet(AllShards)
                           ELSE ToSet(SubSeq(AllShards, 1, hit)),
                 reply |-> IF hit = 0 THEN NotFound
                           ELSE Answer(200, Found(AllShards[hit], uuid.uuid))]
          [] OTHER -> [asked |-> {}, reply |-> Answer(500, {})]

Serve(req, result) ==
    /\ request = [op |-> "none"]
    /\ request' = req
    /\ reply' = result.reply
    /\ consulted' = result.asked
    /\ UNCHANGED <<ranges, verdict>>

GetLogEntryByUUID(id) == Serve([op |-> "uuid", id |-> id], RetrieveLogEntry(id))

GetLogEntryByIndex(v) ==
    LET at == ResolveVirtualIndex(v)
        t == at[1]
        i == at[2] + 1
    IN  Serve([op |-> "index", index |-> v],
              [asked |-> {t},
               reply |-> IF i \in DOMAIN leaves[t]
                         THEN Answer(200, {LogEntryFromLeaf(t, i)}) ELSE NotFound])

\* One ID of POST /log/entries/retrieve.  Not finding it is no error here.
SearchLogQuery(id) ==
    LET exact == RetrieveLogEntry(id)
    IN  Serve([op |-> "search", id |-> id],
              CASE ValidateEntryID(id) = Nil ->
                     [asked |-> exact.asked, reply |-> Answer(200, exact.reply.entries)]
                [] ValidateEntryID(id) # Nil /\ id.form = "entry" ->
                     [asked |-> {}, reply |-> Answer(400, {})]
                [] OTHER ->
                     [asked |-> ToSet(AllShards),
                      reply |-> Answer(200, UNION {Found(t, id.uuid) : t \in ToSet(AllShards)})])

\* GET /log/proof for a tree, the active one when t = 0; the sizes asked for
\* are first and last.
GetLogProof(t, first, last) ==
    LET tid == IF t = 0 THEN active.TreeID ELSE t
    IN  Serve([op |-> "proof", tree |-> t],
              CASE first > last -> [asked |-> {}, reply |-> Answer(400, {})]
                [] first <= last /\ GetLogRangeByTreeID(tid) = << >> ->
                     [asked |-> {}, reply |-> Answer(400, {})]
                [] OTHER ->
                     [asked |-> {tid},
                      reply |-> Answer(IF last <= Len(leaves[tid]) THEN 200 ELSE 400, {})])

\* inactiveShardLogInfo, and the same of the active shard.
ShardInfo(t, checkpoint) ==
    [tree |-> t, rootHash |-> leaves[t], treeSize |-> Len(leaves[t]), signedTreeHead |-> checkpoint]

GetLogInfo ==
    Serve([op |-> "info"],
          [asked |-> ToSet(AllShards),
           reply |-> Answer(200,
             {ShardInfo(t, cachedCheckpoints[t]) : t \in DOMAIN cachedCheckpoints} \union
             {ShardInfo(active.TreeID,
                CreateAndSignCheckpointMultiple(Hostname, active.TreeID, leaves[active.TreeID],
                                                active.Signers))})])
-----------------------------------------------------------------------------
(* rekor-cli get, verify and loginfo, and a client in multi-signer mode *)

\* compareEntryUUIDs
SameEntry(asked, got) ==
    LET a == GetTreeIDFromIDString(asked)
        g == GetTreeIDFromIDString(got)
    IN  /\ GetUUIDFromIDString(asked).err = Nil /\ GetUUIDFromIDString(got).err = Nil
        /\ GetUUIDFromIDString(asked).uuid = GetUUIDFromIDString(got).uuid
        /\ \/ a.err = PlainUUID
           \/ a.err = Nil /\ g.err = PlainUUID
           \/ a.err = Nil /\ g.err = Nil /\ a.tree = g.tree

\* loadVerifier, with the tree named by the entry ID.
Accepts(e) ==
    /\ GetTreeIDFromIDString(e.id).err = Nil
    /\ \E k \in PublicKey(GetTreeIDFromIDString(e.id).tree) : VerifyLogEntry(e, k)

\* The signatures of all keys of the tree, each of those of an entry under its log ID.
AcceptsAll(e) ==
    LET keys == PublicKeys(GetTreeIDFromIDString(e.id).tree)
    IN  /\ \E sth \in UnmarshalText(e.inclusionProof.checkpoint) : VerifyAll(sth, keys)
        /\ Len(e.additional) = Len(keys) - 1
        /\ \A i \in DOMAIN e.additional :
              /\ e.additional[i].logID = LogID(keys[i + 1])
              /\ e.additional[i].set = Signature(keys[i + 1], Bundle(e))

\* verifyTree, without the remembered checkpoint: that is in LogMonitor.
verifyTree(info) ==
    \E sth \in UnmarshalSignedCheckpoint(info.signedTreeHead) :
        \E k \in PublicKey(info.tree) : Verify(sth.signed, k)

verifyBodyMatchesUUID(e) == GetUUIDFromIDString(e.id) = [err |-> Nil, uuid |-> e.body]

Judge(outcome) ==
    /\ reply.code = 200 /\ verdict = "none"
    /\ verdict' = outcome
    /\ UNCHANGED <<ranges, request, reply, consulted>>

Verdict(ok) == IF ok THEN "accepted" ELSE "rejected"

\* rekor-cli get
GetEntries ==
    /\ request.op \in {"uuid", "index"}
    /\ Judge(Verdict(\A e \in reply.entries :
                (request.op = "uuid" => SameEntry(request.id, e.id)) /\ Accepts(e)))

\* rekor-cli verify --uuid, which wants one entry: "multiple entries returned;
\* this should not happen", but does for a leaf that is in two shards.
VerifyEntry ==
    /\ request.op = "search"
    /\ Judge(IF Cardinality(reply.entries) # 1 THEN "failed"
             ELSE Verdict(\A e \in reply.entries :
                    verifyBodyMatchesUUID(e) /\ SameEntry(request.id, e.id) /\ Accepts(e)))

VerifyEntriesAll ==
    /\ request.op \in {"uuid", "index", "search"}
    /\ Judge(Verdict(\A e \in reply.entries : AcceptsAll(e)))

VerifyLogInfo ==
    /\ request.op = "info"
    /\ Judge(Verdict(\A info \in reply.entries : verifyTree(info)))

\* The client is ready for its next command.
Done ==
    /\ request.op # "none"
    /\ reply.code = 200 /\ request.op # "proof" => verdict # "none"
    /\ request' = [op |-> "none"]
    /\ reply' = NotFound
    /\ consulted' = {}
    /\ verdict' = "none"
    /\ UNCHANGED ranges
-----------------------------------------------------------------------------
\* Trillian refuses a second leaf with the same hash in a tree.
Contents == {s \in SeqOf(UUIDs, MaxLength) : IsInjective(s)}

\* A configuration names a tree once.
ShardLists == {s \in SeqOf(TreeIDs, MaxInactive + 1) : s # << >> /\ IsInjective(s)}

\* NewLogRanges and CompleteInitialization: the last tree of shards is the
\* active one, its configuration is set.
Init ==
    \E shards \in ShardLists, own \in Configs :
        LET n == Len(shards) - 1
        IN  /\ leaves \in [TreeIDs -> Contents]
            /\ active = InitializeRange(shards[n + 1], 0, own, own)
            /\ \E config \in [1 .. n -> Configs \union {Unset}] :
                  inactive = [i \in 1 .. n |->
                                InitializeRange(shards[i], Len(leaves[shards[i]]),
                                                config[i], own)]
            /\ cachedCheckpoints =
                  [t \in {inactive[i].TreeID : i \in 1 .. n} |->
                     CreateAndSignCheckpointMultiple(Hostname, t, leaves[t],
                                                     GetLogRangeByTreeID(t)[1].Signers)]
            /\ request = [op |-> "none"]
            /\ reply = NotFound
            /\ consulted = {}
            /\ verdict = "none"

Length == TotalInactiveLength + Len(leaves[active.TreeID])

Next ==
    \/ \E id \in IDs : GetLogEntryByUUID(id)
    \/ \E v \in 0 .. Length : GetLogEntryByIndex(v)
    \/ \E id \in IDs : SearchLogQuery(id)
    \/ \E t \in TreeIDs \union {0}, m, n \in 1 .. MaxLength + 1 : GetLogProof(t, m, n)
    \/ GetLogInfo
    \/ GetEntries
    \/ VerifyEntry
    \/ VerifyEntriesAll
    \/ VerifyLogInfo
    \/ Done

Spec == Init /\ [][Next]_vars
-----------------------------------------------------------------------------
(* Properties *)

\* The virtual log is the concatenation of the shards from the oldest to the
\* active one, empty shards included: the position of a leaf in it is what
\* VirtualLogIndex computes, and ResolveVirtualIndex is the way back.
Positions(t) == [i \in DOMAIN leaves[t] |-> <<t, i - 1>>]
Joined[i \in 0 .. Len(inactive)] ==
    IF i = 0 THEN << >> ELSE Joined[i - 1] \o Positions(inactive[i].TreeID)
Concatenation == Joined[Len(inactive)] \o Positions(active.TreeID)
IndexIsPosition ==
    \A v \in 0 .. Len(Concatenation) - 1 :
        LET at == Concatenation[v + 1]
        IN  /\ ResolveVirtualIndex(v) = at
            /\ VirtualLogIndex(at[2], at[1]) = v

\* "Reject tree IDs not in the configured shard set before they reach the
\* Trillian client cache or backend": no request makes a server ask for, and
\* keep a client of, a tree outside its configuration.
KnownTreesOnly == consulted \subseteq ToSet(AllShards)

\* Clients reject nothing an honest server sends: the ID they parse is the one
\* the server composed, the keys they fetch by the tree in that ID are those that
\* signed the entry and the note, whichever shard the entry is in and whether the
\* checkpoint was cached, and the note parses to what was signed.
HonestAnswersAccepted == verdict # "rejected"

\* A leaf is found under its UUID wherever it is, under its entry ID in the
\* tree that ID names, and nowhere else.
LookupComplete ==
    request.op = "uuid" /\ GetUUIDFromIDString(request.id).err = Nil =>
        LET shards == {t \in ToSet(AllShards) : request.id.uuid \in ToSet(leaves[t])}
        IN  CASE request.id.form = "uuid" ->
                    (reply.code = 200 <=> shards # {}) /\ (reply.code = 404 <=> shards = {})
              [] request.id.form = "entry" /\ request.id.tree \in TreeIDs ->
                    (reply.code = 200 <=> request.id.tree \in shards)
              [] OTHER -> reply.entries = {}

\* An index in the log is answered with the entry that carries it.
IndexedEntryCarriesIndex ==
    request.op = "index" =>
        /\ reply.code = 200 <=> request.index < Length
        /\ \A e \in reply.entries : e.logIndex = request.index

=============================================================================
