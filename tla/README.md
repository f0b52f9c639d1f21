# Rekor in TLA+

A verification project for Rekor, the transparency log: TLA+ modules translated
from the Go source, TLC configurations that check them on small instances, and
theorems that TLAPS proves for every value of the constants. `PROJECT.json` maps
every definition to the lines it models.

## 1. The system

Rekor is an HTTP server in front of Trillian. Trillian keeps Merkle trees; a
Rekor *log* is a sequence of such trees, the *shards*, of which only the last is
written to. A client never sees where one shard ends: entries carry a *virtual
index* that counts through all of them, and a *signed entry timestamp* (SET) by
which the log promises that index. An entry is submitted as a *proposed entry* of
one of eleven kinds; its kind verifies the signature in it and turns it into the
canonical *leaf* that is logged.

| component | state | operations | interacts through |
|---|---|---|---|
| API write path (`pkg/api/entries.go`, `trillian_client.go`) | requests in flight | `createLogEntry`, `AddLeaf` | RPCs to Trillian, a goroutine for the search index, one for attestations, one for events |
| API read path (`entries.go`, `tlog.go`, `public_key.go`) | none | lookups by entry ID, UUID, index, proposed entry; log info; log proof; public keys | RPCs, log ranges, checkpoint cache |
| entry types (`pkg/types`), their schemas (`pkg/generated/models`) | registries | unmarshal, validate, verify, canonicalize, index keys, attestations | write path, backfill, CLI |
| PKI formats (`pkg/pki`) | none | parse, canonical value, subjects, identities, verify | entry types, search |
| server start and stop (`api.go`, `serve.go`, `restapi/server.go`) | log ranges, cached checkpoints, listeners | `NewAPI`, `Serve`, `handleShutdown`, `StopAPI` | everything below |
| sharding (`pkg/sharding`) | inactive shards and their lengths, active tree, signers | entry IDs, `VirtualLogIndex`, `ResolveVirtualIndex`, `GetLogRangeByTreeID` | used by server and CLI |
| Trillian client manager (`manager.go`) | two caches under two RW mutexes, a shutdown flag | `GetTrillianClient`, `getConn`, `Close` | shared by all handlers |
| Trillian (external) | trees, queues | queue, sequence, prove | RPC |
| search index (`pkg/indexstorage`) | lists or rows per key | write, look up | written by the server, `backfill-index`, `copy-index`, `cleanup-index` |
| search API (`pkg/api/index.go`) | none | `SearchIndexHandler` | search index |
| `backfill-index` | worker group, collector | `populate` | API and search index |
| `copy-index`, `cleanup-index` | SCAN cursor, batches | move the index from Redis to MySQL | both stores |
| CLI monitoring (`log_info.go`, `state.go`) | `~/.rekor/state.json` | `loginfo`: verify, remember | API, a file shared by commands |
| CLI get / verify / upload / search, client library | none | with retries | API |
| verification library (`pkg/verify`), checkpoints and notes (`pkg/util`) | none | proofs and signatures | CLI, other clients |
| publisher (`pkg/pubsub`), attestations (`pkg/storage`) | wait group, blob store | publish, close, put, get | goroutines of `createLogEntry` |

What is hard to get right, and what correctness means:

* **Indices across shards, servers and restarts.** Each server reads the lengths
  of the inactive shards once, at startup. An index must mean the same entry for
  every server and for ever.
* **Answers put together from several sources.** Leaf, proof and root come from
  Trillian, the checkpoint of an inactive shard from a cache filled at startup, each
  signed by every signer of the shard.
* **Writes with partial failures.** A leaf may be queued while the client is told
  of an error; a retry gets a conflict; the index is written by a goroutine that
  outlives the request, and by nothing else if it dies.
* **One meaning, computed in several places.** The leaf is written by the server from
  parsed and re-encoded parts of what was submitted. `verify` computes it again on the
  client, the backfill computes index keys from the leaf, search computes the key of a
  key, reads compute the name of an attestation. All of them have to agree, in every
  kind, for every encoding of the same key.
* **Waiting for integration.** `AddLeaf` polls and waits in a loop; a lost wake-up
  shows only when no other leaf follows.
* **Caches with double checked locking, and shutdown during calls.**
* **Stopping** while goroutines use the clients that `StopAPI` closes.
* **A state file without locks or atomic replacement**, which decides whether the
  user is told that the log forked.
* **Index tools** that may be interrupted anywhere, share counters without a lock,
  hand errors to a collector nobody waits for, replace an ID by two Redis commands,
  and delete by key what was copied by entry.

## 2. Modules

| module | models | composes |
|---|---|---|
| `VirtualLog` | abstract: one append-only log and the SETs issued for it | |
| `RekorLog` | servers, requests, Trillian, rotation, search index | refines `VirtualLog` |
| `RekorLogInv`, `RekorLogProofs` | its inductive invariant in named parts, its proofs | |
| `ClientManager`, `ClientManagerProofs` | `pkg/trillianclient/manager.go`, its proofs | |
| `SignedNotes` | checkpoints, signed notes, the verification library | |
| `Sharding`, `ShardingProofs` | `pkg/sharding`, the routing of requests, the CLI's check of the answer; its proofs | `SignedNotes` |
| `LogMonitor`, `LogMonitorProofs` | `rekor-cli loginfo` with its state file and the log it watches, its proofs | |
| `PKI` | the six key and signature formats | |
| `EntryBase` | documents, encodings, digests, index keys: what entry types share | `PKI` |
| `AlpineEntry` … `TufEntry` | one module per kind and version (twelve) | `EntryBase` |
| `EntryTypes` | dispatch by kind and version (`pkg/types`) | all twelve |
| `Submission`, `SubmissionProofs` | upload, the request, its goroutines, backfill, verify, search; its proofs, kind by kind | `EntryTypes` |
| `Lifecycle`, `LifecycleProofs` | the process from listening to its end, its proofs | |
| `Backfill`, `BackfillProofs` | `backfill-index` on Redis, beside a writing server, its proofs | |
| `IndexMigration`, `IndexMigrationProofs` | `copy-index` and `cleanup-index`, beside writing servers, their proofs | |

`…MC` modules give values to constants for TLC. `createLogEntry` is modelled three
times, at the grain of three questions: `RekorLog` has its RPCs and no contents,
`Submission` its contents in one step, `Lifecycle` its goroutines.

### RekorLog

Trees are numbered in the order in which they became active. `tree` and `queued`
are Trillian's; `active` is the deployed configuration; `first` is a history
variable with the virtual index at which each tree begins. Per server: `state`,
`cfg` (the active tree it was started with), `nxt` (how far
`CompleteInitialization` has come), `length` (`TreeLength`, which is also the size
in the cached checkpoint) and `base` (sums of lengths). Per request slot: the place
in the handler and its local variables, and the last answer. `signed`, `jobs` and
`index` are what leaves the servers.

`Start`, `InitShard`, `Serve` are `NewAPI`; `CreateLogEntry`, `QueueLeaf`,
`Conflict`, `Root`, `Poll`, `WaitForRootUpdate`, `Created`, `SigningFails`,
`AddLeafFails` are `createLogEntry` with `AddLeaf` inside, cut where an RPC lets
others run; `IndexJob` is the index goroutine; `GetByEntryID`, `GetByUUID`,
`GetByIndex`, `SearchByHash` are the reads. `Crash` stops a server anywhere.
`Integrate` is Trillian's sequencer. `Rotate` is the operator's procedure from
`tests/sharding-e2e-test.sh`: with the servers stopped, a new tree becomes the active
one. The procedure does not drain the old tree's queue, so a leaf that is still in it can
be integrated at any time afterwards. `read` is a history variable with the lengths that
servers have read of inactive shards, and `Settled` says that none of these shards has
grown since. Proofs, entry names and the search index are right whether it holds or not;
what depends on the lengths servers read (virtual indices, cached checkpoints) is right
while it holds, and the properties say so.

A Merkle root is abstracted to the size it covers. This is sound because trees are
append-only and hashing is taken as collision free: the root at size n then
determines the first n leaves. For the same reason an RPC about a given prefix has
the same answer at any later time, so that a read is one step. Trillian is one
consistent service here; lagging replicas are in `LogMonitor`. A request that
is rejected before it reaches Trillian changes nothing and is `ReadFails`.

### ClientManager

One step per critical section: no section blocks and none is nested in another.
`handed` is a history variable of the client objects callers were given. `Close` is
called once, by `StopAPI`, and has two sections.

### SignedNotes and Sharding

A note is a text of lines and a sequence of signature lines with a name, a key hint
and a signature; `MarshalText` and `UnmarshalText` keep what the code keeps, and a
signature is a term with its key and its message. A hint is the key itself: that two
keys share the first four bytes of their hash is left out.

`Sharding` is a server that has started, with every small configuration as an initial
state: which trees, in which order, of which length, with or without a signing
configuration of their own, of one or of two signers. An entry ID is a record that has
its form (which in the code is its length), tree and hash. The sum
that the loops of `VirtualLogIndex` and `ResolveVirtualIndex` carry is the recursive
function `Before`; the loop's early exit is the first shard that matches. The handlers
record which trees they ask Trillian about. `GetEntries`, `VerifyEntry` and
`VerifyLogInfo` are what `rekor-cli get`, `verify` and `loginfo` do with an answer, and
`VerifyEntriesAll` is a client that demands every published key's signature.

### LogMonitor

A root is a tree, a branch and a size; the branches of a tree agree up to size `Fork`.
At every request the log may show any root of any branch: a smaller one than before when
a replica lags, one of another branch when it has forked. Any number of commands run,
side by side or not. Each fetches the log info once and then, per shard, loads the state,
proves consistency and stores the new checkpoint under the tree ID and under the server's
URL. `ProveConsistency` has three outcomes, as in `pkg/verify`: the roots agree; they do
not agree, which is the alarm; or there is nothing to prove (an empty old tree, a smaller
new one), which is an error without being an alarm. `ProofUnavailable` (a replica that has
not seen the new root) and `VerifyFails` are errors too. `Dump` reads the whole file, then
`os.WriteFile` truncates it and writes; it may not be done at all (`DumpFails`: the flag
is off, the log is empty, the file cannot be opened), fail in the middle
(`DumpWriteFails`), be cut short by a kill (`Crash`), or be garbled by a second writer. A
failed `Dump` is only logged, and the command goes on to report success.

Four history variables say what the user may rely on: `views` (branches shown of a tree),
`alone` and `stored` (which commands had no other beside them, and what they stored), and
`line`: roots with which such commands reported success, since a command last said "No
previous log state stored". A root whose `Dump` failed, or that was stored by a command
another one ran beside, is not in `line`: the file may not remember it.

### PKI, entry types, Submission

Bytes are *documents*: records with a format, a meaning and an encoding, so that the
same key in PEM with other line ends, armored or binary, is another document with the
same meaning. `Digest(alg, d)` is a term; keys, signatures and digests have to be
computed to be equal. Parsing is an operator from a document to the set of its results:
empty on an error, with several members where the code iterates over a Go map. Every
kind has a module with the same operators as its Go package (`UnmarshalJSON` and
`ValidateProposed` of the generated model, `ValidSchema`, `Unmarshal`, `validate`,
`fetchExternalEntities`, `Canonicalize`, `IndexKeys`, `Verifiers`,
`CreateFromArtifactProperties`, attestations), and `EntryTypes` dispatches as
`pkg/types` does, with semantic versions and the in-toto iterator. Two places where
the code pairs signatures with keys are modelled in full: `verifyEnvelope` of dsse tries
the verifiers in order until every signature is verified and pairs each with the last
that accepted it, by its own key or by the alternative key of its certificate; and
`Pkcs7NewPublicKey` returns the first certificate of the bundle of a jar, whoever signed.

In `Submission` a client runs an upload: `StartUpload` makes the proposals,
`createLogEntry`, `AlreadyExists` and `Refused` are the server's answers, each of which
may be lost (`Replied`), after which the HTTP client tries again up to `RetryMax`
times; `TryNext` is the fallback of in-toto. `addToIndex` and `StoreAttestation` are
goroutines that may never run. `populate` is the backfill of one leaf. `verifyCmd` and
`searchCmd` change nothing and are operators, which the properties call in every state.
The log is a set of leaves here: indices and proofs are the other modules' subject.
Time matters for TUF alone and moves with `Tick`.

### Lifecycle

`handleShutdown` of the generated server with one goroutine per listener and the
graceful timeout; the goroutines of `createLogEntry` as members of `jobs` and `calls`;
`sync.WaitGroup` by its contract, including its panic when it is reused before `Wait`
has returned. `StopAPI` closes publisher, index client and Trillian connections in this
order, each in a step of its own.

### Backfill and IndexMigration

`list[k][e]` counts how often the ID of entry e is in the Redis list of key k.
Workers are the slots of the errgroup. LREM and LPUSH are separate steps, each of
which may be executed without its reply arriving. The unlocked
`runningInsertErrs++` is a load and a store. The collector has received a result
before it has appended it (`pending`). The server's `WriteIndex` for late entries
runs at any time.

In `IndexMigration` servers are restarted with MySQL one by one. `copy-index` and
`cleanup-index` may be started at any time, side by side and while servers write to
either store, and end anywhere. SCAN may return nothing, or a list again, and ends only
after everything that was there throughout. `pending` and `settled` are histories of what
was indexed before the running copy and before one that has completed; `exposed` of what
was not settled when a cleanup had read its key from the table.
MySQL compares keys without regard to case; the cleanup deletes the lower case of a
key, and the Redis key as a whole.

## 3. Runs

| run | result | what it shows |
|---|---|---|
| `RekorLogRotation` | pass | `VirtualIndexUnique`, `SetStable`, `SignedIndexResolves`, `EntriesVerify`, `TypeOK`, the inductive invariant, and that `RekorLog` implements `VirtualLog` while `Settled`: two servers around a rotation that leaves leaves in the queue |
| `RekorLogConcurrent` | pass | `NamedEntriesExist`, `IndexSound`, `RequestsReturn`: two concurrent requests |
| `RekorLogUndrained` | violation | see findings |
| `ClientManager` | pass | one client per tree, one connection per configuration, usable until shutdown, none after |
| `Sharding` | pass | index arithmetic against concatenation; routing; whoever holds a published key accepts honest answers, with fresh and cached checkpoints |
| `LogMonitor` | pass | forks are noticed as far as the user was told (`ReportedRootsConsistent`), and nothing else is taken for one (`AlarmMeansFork`): two commands that overlap, fail and are killed |
| `Backfill` | pass | success means exact; the budget is enforced; `populate` returns |
| `BackfillInterrupted` | violation | see findings |
| `Submission` | pass | leaves say what was signed (`LoggedIsVouched`), can be read (`LeavesReadBack`), are logged once, by a second upload (`OneLeafPerArtifact`) as by a retry (`RetriesAddNothing`), and are found by verify, search, backfill and the attestation bucket |
| `SubmissionVerify` | violation | see findings |
| `Lifecycle` | pass | no request meets a closed client, a counted event is sent, a signal ends the process |
| `IndexMigration` | pass | what was found before the migration is found during and after it, unless a cleanup took its key before a complete copy had covered it |

**Bounds.** Two leaves, two shards and two servers are the least with which an
index can be wrong by a shard's length and two servers can disagree; the proofs
remove these bounds. The constraint `RotationBound` stops at states in which the search
index was written, which is the subject of the other run. `ClientManager` has two goroutines, three trees and two
configurations, so that trees share a configuration or not, and four dials, more
than the code makes before shutdown. `Sharding` has two inactive shards of up to two
leaves, so that an empty shard can be first, between and last, and two signing
configurations whose primary keys differ and which share a key (`MCConfigs`).
`LogMonitor` has two processes, two branches that part at size 1, sizes up to 2 and two
shards; overlapping commands are explored with one shard and checked with two
(`OverlapWithOneShard`), since shards are verified one by one. `Backfill` has two entries, one of them with two keys, a shared key, and
an error budget of one. `Submission` has artifacts of all kinds and formats, most of them
with keys or signatures in two or more encodings, documents that a server has to refuse or repair, two
commands (`MaxUploads`), one retry (`RetryMax`) and one tick (`MaxTime`); the constraint
`OneKind` keeps both commands to one kind, since kinds share nothing but the index and
the bucket, to which each adds keys and objects of its own. `Lifecycle` has one
listener, as `serve.go` enables, two requests and two encodings, so that one publication
can begin while another is waited for. `IndexMigration` has a key in two cases, another
key, two IDs, two servers, and batches of two, so that a cleanup has more
than one; states with more than two entries indexed or three IDs in Redis are not explored
further (`FewEntries`).
`MaxShards`, `MaxDials`, `MaxInactive`, `MaxLength`, `MaxSize`, `MaxOld`, `MaxUploads`,
`RetryMax`, `MaxTime` are constants that stand in a guard or an initial condition.

Deadlock is not checked where the system may stop: a process that exited
(`Lifecycle`) and clients that have run all their commands (`Submission`).

**Symmetry** is used only in runs without liveness properties, on sets whose
members the modules, and `VirtualLog`, never tell apart.

**Fairness.** `RekorLog`: weak fairness of the sequencer, which Trillian's log
signer runs at an interval, and of each handler's own next step: a goroutine that
can run is scheduled, and an RPC is answered. Errors, timeouts and crashes are
never required. `Backfill`: weak fairness of each worker, the collector and
`populate`; interrupts and the server's writes are not required. `Lifecycle`: weak
fairness of the steps of stopping: the runtime runs what is ready, the timer of the
graceful timeout fires, and a `Publish` call ends by the timeout it sets itself.
Requests, and the goroutines that write index and attestation, may hang for ever.

### Findings

1. `RekorLogUndrained`: `api.go:51` says that an inactive shard always returns the same
   checkpoint, and servers cache it, and its length, at startup. The repository's rotation
   does not drain the old tree's queue: a leaf in it can be integrated after that, the
   cached checkpoint no longer fits the proofs, and a server started later gives the
   entries of the new shard other virtual indices than were signed.
2. `BackfillInterrupted`: an interrupt between LREM and LPUSH loses an ID that was in
   the index.
3. `SubmissionVerify`: `rekor-cli verify --type intoto` never finds what `upload` made
   from the same flags, because `verify` sends the iterator and not its element.

### Observations

What the models made visible and no run states as a property, because the code does not
promise otherwise or because it is outside a property's premises:

* *Rotation.* Deduplication is per tree, so an artifact uploaded before and after a
  rotation is in two shards, and `verify` ends with "multiple entries returned; this
  should not happen".
* *One artifact, two leaves.* The canonical form of a PGP key depends on the order of a
  map if the key has several user IDs (`pgp.go:255-282`), and so does the chart hash of
  a Helm provenance with several files (`provenance.go:86-104`): a retry may log a
  second leaf (`MapOrder`, `Unambiguous`). An armored PGP signature is logged as it was
  sent (`pgp.go:118-120`), and so is a raw signature, so the same signature armored and in
  binary, or armored with other headers, has two leaves (`KeptVerbatim`).
* *The key of a jar.* A jar's signature is verified by whichever certificate of the bundle
  made it, and the leaf names the first certificate as the public key
  (`pkcs7.go:173`), so a search by key or a reader of the leaf may name another member
  of the chain than the signer. `LoggedIsVouched` says no more than that for jars: the
  signer is in the bundle, and the bundle is in the leaf.
* *Search.* `SearchIndexHandler` looks for the bare digest of a key, while dsse and
  in-toto entries are indexed with the prefix `sha256:` and jar entries by the
  certificate, so a search by key misses them; an in-toto 0.0.2 entry is not found by
  the hash of its envelope and a TUF entry not by that of its metadata; the pattern of
  the search schema has no sha384; an e-mail address in the comment of an SSH key is
  that of the first uploader only (`FoundByKey`, `FoundByHash`).
* *Backfill.* Index keys computed from the leaf of cose, dsse and in-toto entries are
  fewer than those computed from the submitted entry, and for helm are an error
  (`KeysInLeaf`); keys are not converted to lower case; `populate` does not wait for
  the collector, so a failed insertion may go unreported.
* *Leaves that cannot be read back.* A DSSE signature in URL-safe base64 is verified and
  logged, and the leaf does not satisfy the schema (`Unreadable`).
* *Expiry.* Index keys and verifiers of a TUF entry that was logged are errors once its
  root has expired, and so is `verify` (`InForce`).
* *Stopping.* A publication that begins while `Close` wakes up makes the wait group
  panic; one that begins later uses a closed client; index writes still outstanding
  fail, and only a backfill repairs them.
* *Monitoring.* A root whose `Dump` failed is reported and not remembered, so a fork that
  the next command meets goes unnoticed; the failure is in the command's output only. A
  second command that overlaps may store an older root over a newer one, with the same
  effect, or leave the file unreadable, which the next command reports as no previous
  state. An older root than the one remembered, from a replica that lags, makes the
  command fail although nothing is wrong.
* *Cleanup.* `cleanup-index` "deletes those entries from the Redis database"
  (`main.go:16`) and in fact deletes the whole list of every key for which MySQL has any
  row, entries that were not copied included (`exposed`): it is safe only for what was
  indexed before a complete copy.
* *Small ones.* `getConn` does not look at the shutdown flag, contrary to
  `manager.go:219`; `GetTreeIDFromIDString` rejects a plain tree ID, contrary to
  `sharding.go:186`; hashedrekord keeps digests in upper case, so the same digest in two
  cases is two leaves; SSH signatures with sha256 are parsed and always fail to verify.

`BackfillExact` therefore says what holds when there was no interrupt and the
collector was done (`pending = None`), for keys in lower case.

## 4. Proofs

`RekorLogProofs` proves, for any sets of servers, requests and leaves and any number
of shards, that `Spec` implies `[]` of `IndInv`, `TypeOK`, `VirtualIndexUnique`,
`SetStable`, `SignedIndexResolves`, `EntriesVerify`, `NamedEntriesExist`, `IndexSound`,
and that `Spec` implies `VirtualLogSpec`: a refinement of `VirtualLog` in which every step
that leaves the deployment `Settled` is a step of the virtual log or a stutter.
Assumptions: `MaxShards` is a positive natural number, `None` is neither a server
nor a leaf.

The safety properties are not inductive. `IndInv` (`RekorLogInv`) adds what they rest
on:

* `ShardsOK`: trees not yet active are empty, and whoever adds to a tree has read the
  lengths of all trees before it. So when the deployment is `Settled`, a tree with a
  successor that is not empty has its final length, although queues are not drained.
* `RangesOK`: shards occupy consecutive ranges of virtual indices beginning at
  `first`, empty shards taking no room.
* `ServersOK`: a server that is up has the deployed configuration, and the sums it
  has computed so far are `first` while `Settled`. It links what a server believes to what is true.
* `NoDuplicates`: a leaf has one place in a tree, so that an entry has one index.
* `RequestsOK`: the proof a request holds stays a proof for its leaf.
* `OutputsOK`: every answer, SET, index job and index record is about a leaf at its
  place.

Once a shard has grown behind a server's back the deployment is never `Settled` again
(`StaysSettled`), so nothing has to be said about what follows.
There is one lemma per action or group of actions that `IndInv` is preserved. The
three index theorems follow from `OnePlace`: a virtual index lies in the range of one
shard only. For the refinement, `Integrate` is `Append`,
also on an inactive tree that nobody has read and that has only empty trees behind it, an
answer is `Sign`, everything else stutters; that a rotation stutters uses `RangesOK`.

`ClientManagerProofs` proves `IndInv`, `OneClientPerTree`, `SharedConnections`,
`ClientsUsable` and `NoClientAfterShutdown` for any number of goroutines, trees and
configurations. Until shutdown the maps only grow, so what was handed out is what is
cached; a goroutine about to publish carries the cached connection of its tree.

`LifecycleProofs` proves `RequestsKeepClients` and `CountedEventsSent` for any
listeners, requests and encodings. Neither mentions the listeners that
`handleShutdown` waits for, and both depend on them: `Drained` says that a listener that
shut down in good order has no request left, `Collected` that `handleShutdown` has
counted only such ones and calls `StopAPI` after all of them, `ClosedLast` that clients
are closed in `StopAPI` and the publisher after its wait, `CountedLate` that whoever is
counted after that wait came too late for it.

`IndexMigrationProofs` proves `NothingLost` for any servers, keys, IDs and batch size,
with copies and cleanups in any order; `Lower` is assumed to be idempotent. The invariant
follows an entry that no cleanup has exposed. `Stored`: it is in Redis or in MySQL, and in
MySQL once it is settled. `OnTheWay`: while a copy runs that began after it was indexed, it
is in MySQL, or its list is still to be returned by SCAN, or is in the batch, or the entry
is in the part that was read. `Covered`: if a cleanup is about to delete its key, it is in
MySQL, so that what is deleted is a copy.

`LogMonitorProofs` proves `TypeOK`, `ReportedRootsConsistent` and `AlarmMeansFork` for any
trees, branches and commands, overlapping, failing and killed as they may. The invariant
says that every entry of the file, and of every buffer that some command is about to
write, is a root the log has shown (`WasShown`) and extends all roots of `line`
(`Follows`): an overlapping command can write an old root back, but none that was
overtaken by a root in `line`, because roots enter `line` only from commands that had no
other beside them. What such a command has stored is still in the file when it reports
(`Step`). The argument rests on `Extends` being transitive, and for the alarm on
`TwoBranches`: two roots of a tree of which neither extends the other lie beyond `Fork`, on
two branches. `ServerURL` is assumed to be no tree ID.

`BackfillProofs` proves `TypeOK`, `BudgetEnforced` and `BackfillExact` for any workers,
entries and keys. For the budget, `OverBudget` says that whoever took the counter over
it has not returned yet or has returned an error: losing increments to the race cannot
undo that. For exactness, `Accounted` says that an entry that was given out is in work,
reported as an error, or placed under all its keys, and `Careful` what a worker without
an error has done so far; both hold until the context is cancelled. `BackfillExactHolds`
has the hypothesis `LowerKeys`: the backfill pushes keys as they are and the search
looks for them in lower case, so a key that is not in lower case would be written to a
list nobody reads.

`ShardingProofs` proves the five properties of `Sharding` for any configuration: any
list of shards of any lengths, any signing configurations, shared or not.
Assumptions: a signing configuration is a sequence of keys that is not empty
(`ConfigsAssumption`), tree IDs are not 0 and not the malformed one
(`TreeIDsAssumption`), the bounds are natural numbers.

* `IndexIsPosition` is induction over the shards. It is done with sets: the numbers for
  which a statement holds are a set that has 0 and with i - 1 also i, and a least number
  outside would be a contradiction (`Least`, `Induction`). `Recursion` shows in the same way
  that the recursive definitions `Before` and `Joined` define functions, so that their
  defining equations can be used.
* `Config` is what `NewLogRanges` and `CompleteInitialization` establish: every tree is
  configured once and each `TreeLength` is the length of its tree. `KnownTreesOnly`,
  `LookupComplete` and `IndexedEntryCarriesIndex` follow per handler from it and from what
  the ID functions do with each form of an ID.
* `HonestAnswersAccepted` needs `Signed` (each cached checkpoint is the one its shard's
  signers sign) and `Replied` (each entry of an answer is what `LogEntryFromLeaf` makes of
  a leaf, and answers the request). That a note with any number of signatures is parsed
  back and verified by each of its keys is `NoteParses`, `CheckpointParses` and
  `NoteVerifies`.

`SubmissionProofs` proves, for any clients, artifacts, documents, accepted kinds and
registry of algorithms, from `BoundsAssumption` alone (the bounds are natural numbers):

* `TypeOK`, together with: what a command still has to send is a sequence.
* `LoggedIsVouched`. It is inductive as it stands: only `createLogEntry` adds a leaf, and
  the work is in one lemma per kind and version (`AlpineVouched` … `TufVouched`) that
  what `Canonicalize` makes of an entry that `Unmarshal` accepted is vouched for.
  `UnmarshalByKind` and `CanonicalByKind` undo the dispatch of `EntryTypes`.
* `AttestationsFound`, from `AttestationInv`: objects in the bucket, and those still on
  their way in a goroutine, are stored under their digest, and an entry, its leaf and
  whatever is read from the leaf have the same attestation key (`AttestationLinked`). An
  entry overwrites another's object only with the same object.
* `BackfillComplete`, from `BackfillInv`: whatever is read from a leaf has, at any time,
  index keys that the submitted entry had (`KeysRecomputed`), and of a leaf that was
  backfilled the index has all keys of some reading, at the time of that reading: a TUF
  root may expire between submission and backfill.
* `LeavesReadAsSubmitted`: the part of `LeavesReadBack` that holds for every catalogue. A
  reading of a leaf has the kind and version of the leaf and the identities of the
  submitted entry, and is refused or canonicalized to the same leaf when inserted again.
* `RetriesAddNothing` (`RetriesMeetTheirLeaf`): a request that is sent again after its reply was lost never adds a
  leaf. `RetryInv` says of such a request that everything it can be canonicalized to, at
  any time, is in the log already. It is inductive because a request has one leaf
  (`DocumentLeafOnce`): parsers and canonical forms are sets of results in the model, and
  these have at most one member, kind by kind, unless a Go map is involved. That is the
  hypothesis `Unambiguous`: a PGP key has one user ID per entity and a Helm provenance
  one file, for the kinds that have them. It also asks that the verifiers of a DSSE
  envelope are numbered, which a Go slice is and which the prover cannot derive from
  `SelectSeq`.

TLC checked `AttestationInv`, `BackfillInv` and `RetryInv` on the instance of the run
`Submission` before they were proved.

Only model-checked:

* `RequestsReturn`, `Terminates`, `Stops`: liveness under fairness is out of the prover's
  reach.
* That a leaf can be read at all, the other half of `LeavesReadBack`. It needs that every
  document is well-formed and that none of its members is `Nil`, which is a fact about
  the catalogue that TLC enumerates.
* `OneLeafPerArtifact`, `VerifyFindsUpload`, `SearchFindsIndexed`: they are about
  artifacts in several encodings, so they hold of a catalogue of well-formed documents in
  which an artifact's `pkiFormat` is the format of its key, which some kinds never look
  at. `RetriesAddNothing` is what remains of the first for any catalogue.

## 5. What is left, and what is not modelled

Left to state: a catalogue of artifacts as an assumption instead of an enumeration (what
a well-formed document of each format is, which encodings it has), from which the last two
items above could be proved.

Not modelled:

* `VerifyCurrentCheckpoint` (`pkg/verify`): exported, without a caller in the
  repository, so there is no protocol to put it in.
* Signers: key material, KMS and Tink calls, and the merging of MTC cosigners, which
  happens in a library that is not in the repository. `Sharding` has which signers a
  shard gets.
* Contents and encodings of events, `log_proof.go` (prints an answer), the dry runs of
  the index tools, `CreateAndInitTree`.
* Generated code other than the server's start and stop and the decoding and validation
  of entries, searches and queries: the embedded specification, the generated client,
  routing, response writers.
* Logging, metrics, flags, output formats, conversion to the protobuf TLE, fuzzing
  helpers.
* Cryptography and the inside of archives and packages: signatures and digests are
  terms, an archive is a record of the parts the code looks at.
