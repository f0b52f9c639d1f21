----------------------------- MODULE Submission -----------------------------
(***************************************************************************)
(* The life of an entry from an artifact on a client's disk to a leaf of   *)
(* the log and back: rekor-cli upload with its fallback and the retries of *)
(* its HTTP client, the request in the server, the goroutines that index   *)
(* the entry and store its attestation, the backfill, and the commands     *)
(* verify and search, which start from the artifact again.                 *)
(*                                                                         *)
(* The log is a set of leaves: shards, indices, proofs and races between   *)
(* servers are the subject of RekorLog and Sharding.                       *)
(***************************************************************************)
EXTENDS EntryTypes

CONSTANTS Clients,
          Artifacts,      \* what clients upload: [kind, version, props]
          Documents,      \* proposed entries that are sent as they are
          AcceptedKinds,  \* --enabled_entry_types
          Permitted,      \* the algorithm registry: pairs <<key type, hash>>
          RetryMax,       \* retries of a request
          MaxUploads,     \* bound on the commands of a run
          MaxTime         \* bound on the clock

ASSUME BoundsAssumption == RetryMax \in Nat /\ MaxUploads \in Nat /\ MaxTime \in Nat

VARIABLES now,          \* the clock, against which TUF roles expire
          command,      \* command[c]: the upload that c is running, or Nil
          log,          \* the leaves
          jobs,         \* goroutines that outlive their requests
          index,        \* pairs <<key, leaf>>
          attestations, \* [key, value]: the objects in the bucket
          started,      \* commands so far
          created,      \* history: [source, leaf, entry, at]
          uploads,      \* history: [artifact, leaf], as told to clients
          backfilled    \* history: leaves that a backfill did without errors

vars == <<now, command, log, jobs, index, attestations, started, created, uploads, backfilled>>

---------------------------------------------------------------------------
(* The server's side of a request.                                         *)

BindRequest(doc) == {pe \in unmarshalProposedEntry(doc) : ValidateProposedEntry(pe)}

\* Without a hash, or with one of another algorithm, it is taken for SHA-256.
getArtifactHashValue(e) ==
  IF \E h \in ArtifactHash(e) : h[2] \in {"sha384", "sha512"}
  THEN (CHOOSE h \in ArtifactHash(e) : TRUE)[2] ELSE "sha256"

\* An identity is a certificate or a key.
getPublicKey(id) == IF id[1] = "cert" THEN id[2].key ELSE id[2]

\* Only hashedrekord entries are held to the registry.
checkEntryAlgorithms(e) ==
  e.kind = "hashedrekord" =>
    /\ Verifiers(e, now) # {}
    /\ \A k \in Verifiers(e, now) : \A id \in Identities(k) :
         <<getPublicKey(id).type, getArtifactHashValue(e)>> \in Permitted

\* The entry objects made of a request; there is none if the answer is 400.
Admitted(doc) ==
  {e \in UNION {CreateVersionedEntry(pe, AcceptedKinds) : pe \in BindRequest(doc)} :
     checkEntryAlgorithms(e)}

\* A leaf of the log as an entry object.
ReadLeaf(leaf) == UNION {UnmarshalEntry(pe) : pe \in unmarshalProposedEntry(leaf)}

\* The object in the bucket under a key.
FetchAttestation(key) == {a.value : a \in {a \in attestations : a.key = key}}

\* An answer about a leaf, with its attestation if that can be found.  Leaves are
\* read here because attestations are stored: one that cannot be is an error.
\* Objects are never stored under a UUID, where the code looks next.
logEntryFromLeaf(leaf) ==
  {[body |-> leaf,
    attestation |-> IF HasAttestation(e) THEN UNION {FetchAttestation(k) : k \in AttestationKey(e)} ELSE {}] :
     e \in ReadLeaf(leaf)}

\* The body of a search by proposed entries, and what is required of it.
maxSearchQueries == 10
ValidateEntries(pes) ==
  Len(pes) \in 1 .. maxSearchQueries /\ \A i \in DOMAIN pes : ValidateProposedEntry(pes[i])
BindQuery(docs) ==
  LET Entry(i) == unmarshalProposedEntry(docs[i])
  IN {pes \in [DOMAIN docs -> UNION {Entry(i) : i \in DOMAIN docs}] :
        (\A i \in DOMAIN docs : pes[i] \in Entry(i)) /\ ValidateEntries(pes)}

\* The search by proposed entries.  One that cannot be canonicalized, or one whose
\* leaf cannot be read, fails the whole request.
SearchLogQueryHandler(docs) ==
  LET Leaves(pe) == {c.leaf : c \in UNION {CanonicalizeEntry(e, now) : e \in UnmarshalEntry(pe)}}
      Found(pes) == log \cap UNION {Leaves(pes[i]) : i \in DOMAIN pes}
      Fails(pes) == \/ \E i \in DOMAIN pes : Leaves(pes[i]) = {}
                    \/ \E l \in Found(pes) : logEntryFromLeaf(l) = {}
  IN UNION {logEntryFromLeaf(l) : l \in UNION {Found(pes) : pes \in {b \in BindQuery(docs) : ~Fails(b)}}}

---------------------------------------------------------------------------
(* The search by index keys.                                               *)

LookupIndices(keys) == {p[2] : p \in {p \in index : p[1] \in keys}}

\* The result of one lookup of all keys, or of all lookups of one key.
CollectionValues(operator, keys) ==
  CASE operator = "or"  -> LookupIndices(keys)
    [] operator = "and" -> {l \in log : keys # {} /\ \A k \in keys : l \in LookupIndices({k})}

\* What is required of a query; an absent operator is "or".
ValidKey(k) == k.format \in {"pgp", "x509", "minisign", "ssh", "tuf"}
ValidSearchIndex(q) ==
  /\ q.operator \in {"", "and", "or"}
  /\ q.hash # Nil => IsHex(q.hash) /\ q.hash.alg \in {"sha1", "sha256", "sha512"}
  /\ q.publicKey # Nil => ValidKey(q.publicKey)

\* Mutant: the key is looked up as it was sent.
SearchIndexHandlerVerbatim(q) ==
  CollectionValues(IF q.operator = "" THEN "or" ELSE q.operator,
    (IF q.hash = Nil THEN {} ELSE {HashKey(q.hash.alg, q.hash)})
      \cup (IF q.email = Nil THEN {} ELSE {NameKey(q.email)})
      \cup (IF q.publicKey = Nil THEN {} ELSE {BytesKey(q.publicKey.content)}))

\* A query has a hash, a key with its format, an e-mail address, or some of them.
SearchIndexHandler(q) ==
  LET operator == IF q.operator = "" THEN "or" ELSE q.operator
      names == (IF q.hash = Nil THEN {} ELSE {HashKey(q.hash.alg, q.hash)})
                 \cup (IF q.email = Nil THEN {} ELSE {NameKey(q.email)})
      canonical == UNION {KeyCanonicalValue(k) : k \in NewPublicKey(q.publicKey.format, q.publicKey.content, now)}
  IN IF q.publicKey = Nil THEN CollectionValues(operator, names)
     ELSE UNION {CollectionValues(operator, names \cup {BytesKey(c)}) : c \in canonical}

\* rekor-cli search: the flag --sha goes before --artifact.
searchCmd(flags) ==
  LET hash == IF flags.sha # Nil \/ flags.artifact = Nil THEN flags.sha ELSE Digest("sha256", flags.artifact)
      key == IF flags.publicKey = Nil THEN Nil
             ELSE [format |-> flags.pkiFormat, content |-> flags.publicKey]
      q == [hash |-> hash, publicKey |-> key, email |-> flags.email, operator |-> flags.operator]
  IN IF {hash, key, flags.email} # {Nil} /\ ValidSearchIndex(q) THEN SearchIndexHandler(q) ELSE {}

---------------------------------------------------------------------------
(* rekor-cli upload.                                                       *)

\* Proposals made of an artifact, to be tried in this order.
StartUpload(c) ==
  /\ command[c] = Nil /\ started < MaxUploads
  /\ started' = started + 1
  /\ \/ \E a \in Artifacts : \E pes \in NewProposedEntry(a.kind, a.version, a.props, now) :
          command' = [command EXCEPT ![c] = [source |-> a, proposals |-> pes, tries |-> 0]]
     \/ \E d \in Documents :
          command' = [command EXCEPT ![c] = [source |-> d, proposals |-> <<d>>, tries |-> 0]]
  /\ UNCHANGED <<now, log, jobs, index, attestations, created, uploads, backfilled>>

\* 400: the next proposal of the iterator, or the end of the command.
TryNext(c) ==
  /\ command[c] # Nil /\ Admitted(command[c].proposals[1]) = {}
  /\ command' = [command EXCEPT ![c] =
       IF Len(@.proposals) = 1 THEN Nil
       ELSE [source |-> @.source, proposals |-> Tail(@.proposals), tries |-> 0]]
  /\ UNCHANGED <<now, log, jobs, index, attestations, started, created, uploads, backfilled>>

\* The entry cannot be canonicalized, and the command fails.
Refused(c) ==
  /\ command[c] # Nil /\ Admitted(command[c].proposals[1]) # {}
  /\ \A e \in Admitted(command[c].proposals[1]) : CanonicalizeEntry(e, now) = {}
  /\ command' = [command EXCEPT ![c] = Nil]
  /\ UNCHANGED <<now, log, jobs, index, attestations, started, created, uploads, backfilled>>

\* Mutant: the client retries forever.
RepliedForever(c, leaf) ==
  \/ /\ command' = [command EXCEPT ![c] = Nil]
     /\ uploads' = uploads \cup {[artifact |-> command[c].source, leaf |-> leaf]}
  \/ /\ command' = [command EXCEPT ![c].tries = @ + 1]
     /\ UNCHANGED uploads

\* The client is told of a leaf, by a 201 or by a 409, and the command ends; or
\* the reply is a 5xx or is lost, and the client sends the request again until
\* it gives up.
Replied(c, leaf) ==
  \/ /\ command' = [command EXCEPT ![c] = Nil]
     /\ uploads' = uploads \cup {[artifact |-> command[c].source, leaf |-> leaf]}
  \/ /\ command' = [command EXCEPT ![c] =
          IF @.tries = RetryMax THEN Nil
          ELSE [source |-> @.source, proposals |-> @.proposals, tries |-> @.tries + 1]]
     /\ UNCHANGED uploads

\* What the server starts in the background for an entry that it added.
JobsFor(leaf, e) ==
  {[op |-> "index", leaf |-> leaf, entry |-> e]} \cup
  (IF HasAttestation(e)
   THEN {[op |-> "attest", leaf |-> leaf, kv |-> kv] : kv \in AttestationKeyValue(e)} ELSE {})

createLogEntry(c) ==
  /\ command[c] # Nil
  /\ \E e \in Admitted(command[c].proposals[1]) : \E f \in CanonicalizeEntry(e, now) :
       /\ f.leaf \notin log
       /\ log' = log \cup {f.leaf}
       /\ jobs' = jobs \cup JobsFor(f.leaf, f.entry)
       /\ created' = created \cup
            {[source |-> command[c].source, leaf |-> f.leaf, entry |-> f.entry, at |-> now]}
       /\ Replied(c, f.leaf)
  /\ UNCHANGED <<now, index, attestations, started, backfilled>>

\* 409, with the ID of the leaf: for the command this is a success.
AlreadyExists(c) ==
  /\ command[c] # Nil
  /\ \E e \in Admitted(command[c].proposals[1]) : \E f \in CanonicalizeEntry(e, now) :
       f.leaf \in log /\ Replied(c, f.leaf)
  /\ UNCHANGED <<now, log, jobs, index, attestations, started, created, backfilled>>

---------------------------------------------------------------------------
(* Goroutines, and the backfill.  A goroutine whose storage fails, or whose*)
(* process ends, is one that is never scheduled.                           *)

addToIndex(j) ==
  /\ j.op = "index"
  /\ \E keys \in IndexKeys(j.entry, now) : index' = index \cup {<<k, j.leaf>> : k \in keys}
  /\ jobs' = jobs \ {j}
  /\ UNCHANGED <<now, command, log, attestations, started, created, uploads, backfilled>>

\* An object of that key is replaced.
StoreAttestation(j) ==
  /\ j.op = "attest"
  /\ attestations' = {a \in attestations : a.key # j.kv.key} \cup {j.kv}
  /\ jobs' = jobs \ {j}
  /\ UNCHANGED <<now, command, log, index, started, created, uploads, backfilled>>

\* backfill-index for one leaf that can be read and has keys.
populate(l) ==
  /\ l \notin backfilled
  /\ \E r \in logEntryFromLeaf(l) : \E e \in ReadLeaf(r.body) : \E keys \in IndexKeys(e, now) :
       index' = index \cup {<<k, l>> : k \in keys}
  /\ backfilled' = backfilled \cup {l}
  /\ UNCHANGED <<now, command, log, jobs, attestations, started, created, uploads>>

Tick ==
  /\ now < MaxTime
  /\ now' = now + 1
  /\ UNCHANGED <<command, log, jobs, index, attestations, started, created, uploads, backfilled>>

---------------------------------------------------------------------------
(* rekor-cli verify with an artifact.                                      *)

\* Of an intoto entry without a version the client has an iterator, which is
\* neither a proposed entry in JSON nor one that UnmarshalEntry takes.
IsIterator(a) == a.kind = "intoto" /\ a.version = AnyVersion
SentBy(a, proposals) ==
  IF IsIterator(a) THEN [kind |-> "none", apiVersion |-> Nil, spec |-> Nil] ELSE proposals[1]

\* Mutant: the proposal is compared as it is.
verifyProposedEntryMatchesBodyVerbatim(doc, body) == {doc = body}

verifyProposedEntryMatchesBody(doc, body) ==
  {c.leaf = body : c \in UNION {CanonicalizeEntry(e, now) : e \in UnmarshalEntry(doc)}}

\* The leaf that is verified, or Nil where the command fails.
verifyCmd(a) ==
  LET Outcomes(doc) ==
        LET found == SearchLogQueryHandler(<<doc>>)
        IN IF found = {} THEN {Nil}
           ELSE UNION {{IF ok THEN r.body ELSE Nil : ok \in verifyProposedEntryMatchesBody(doc, r.body)} : r \in found}
      proposals == NewProposedEntry(a.kind, a.version, a.props, now)
  IN IF proposals = {} THEN {Nil} ELSE UNION {Outcomes(SentBy(a, ps)) : ps \in proposals}

---------------------------------------------------------------------------
Init ==
  /\ now = 0
  /\ command = [c \in Clients |-> Nil]
  /\ log = {} /\ jobs = {} /\ index = {} /\ attestations = {}
  /\ started = 0 /\ created = {} /\ uploads = {} /\ backfilled = {}

Next ==
  \/ \E c \in Clients : \/ StartUpload(c) \/ TryNext(c) \/ Refused(c)
                        \/ createLogEntry(c) \/ AlreadyExists(c)
  \/ \E j \in jobs : addToIndex(j) \/ StoreAttestation(j)
  \/ \E l \in log : populate(l)
  \/ Tick

Spec == Init /\ [][Next]_vars

---------------------------------------------------------------------------
(* Types.                                                                  *)

Sources == Artifacts \cup Documents

\* Commands, jobs and histories have their shapes, and what a command still has to
\* send is what its artifact or document made; retries are counted to their limit.
TypeOK ==
  /\ now \in 0 .. MaxTime /\ started \in 0 .. MaxUploads
  /\ DOMAIN command = Clients
  /\ \A c \in Clients : command[c] # Nil =>
       /\ command[c].source \in Sources
       /\ command[c].tries \in 0 .. RetryMax
       /\ Len(command[c].proposals) \in 1 .. 2
  /\ \A j \in jobs : j.op \in {"index", "attest"} /\ j.leaf \in log
  /\ \A p \in index : p[2] \in log
  /\ log = {x.leaf : x \in created}
  /\ \A u \in uploads : u.artifact \in Sources /\ u.leaf \in log
  /\ backfilled \subseteq log

---------------------------------------------------------------------------
(* What the log says is true.                                              *)

\* The keys of a key document of the log.
KeysIn(d) ==
  CASE d.fmt = "pgp key" -> {d.ring[i].key : i \in DOMAIN d.ring}
    [] d.fmt = "pem"     -> {d.blocks[1].key} \cup d.blocks[1].alt
    [] OTHER             -> {d.key}

\* Digests are of documents, so a leaf's digest names what was signed.  The signer of
\* a jar is one of the certificates in the signature, and the key of its leaf is the
\* first of these, whoever signed.
SignsDigest(sig, keys, digest) == sig.by \in keys /\ sig.over = digest.of

Vouched(leaf) ==
  LET s == leaf.spec
  IN CASE leaf.kind \in {"rekord", "hashedrekord"} ->
            SignsDigest(s.signature.content, KeysIn(s.signature.publicKey.content), s.data.hash.value)
       [] leaf.kind = "alpine" ->
            LET p == s.package.hash.value.of
            IN /\ SignsDigest(p.sigs[1], KeysIn(s.publicKey.content), [of |-> p.control])
               /\ p.control[Len(p.control)].datahash.of = p.data
       [] leaf.kind = "rpm" -> s.package.hash.value.of.by \in KeysIn(s.publicKey.content)
       [] leaf.kind = "jar" ->
            LET sig == s.signature.content
                signers == {sig.certs[i].key : i \in DOMAIN sig.certs}
            IN /\ SignsDigest(sig, signers, [of |-> s.archive.hash.value.of.manifest])
               /\ sig.certs[1].key \in KeysIn(s.signature.publicKey.content)
       [] leaf.kind = "helm" ->
            LET sig == s.chart.provenance.signature.content
            IN sig.by \in KeysIn(s.publicKey.content) /\ s.chart.hash.value \in sig.over.files
       [] leaf.kind = "cose" ->
            LET m == s.data.envelopeHash.value.of
            IN m.by \in KeysIn(s.publicKey) /\ s.data.payloadHash.value.of = m.payload
       [] leaf.kind = "dsse" ->
            /\ \A i \in DOMAIN s.signatures :
                 SignsDigest(s.signatures[i].signature, KeysIn(s.signatures[i].verifier), s.payloadHash.value)
            /\ s.envelopeHash.value.of.payload = s.payloadHash.value.of
       [] leaf.kind = "intoto" /\ leaf.apiVersion = "0.0.1" ->
            LET m == s.content.hash.value.of
            IN /\ \E i \in DOMAIN m.signatures :
                    SignsDigest(m.signatures[i], KeysIn(s.publicKey), s.content.payloadHash.value)
               /\ m.payload = s.content.payloadHash.value.of
       [] leaf.kind = "intoto" /\ leaf.apiVersion = "0.0.2" ->
            LET sigs == s.content.envelope.signatures
                keys == UNION {KeysIn(sigs[i].publicKey) : i \in DOMAIN sigs}
            IN \A i \in DOMAIN sigs : SignsDigest(sigs[i].sig, keys, s.content.payloadHash.value)
       [] leaf.kind = "rfc3161" -> s.tsr.content.verifies
       [] leaf.kind = "tuf" ->
            LET m == s.metadata.content
            IN m.by \cap s.root.content.roles[m.role] # {}

\* Whoever reads a leaf can rely on it: the signatures in it were made, with the
\* keys in it, over what its digests name.  The server checks signatures on the
\* submitted bytes, and the leaf is put together from parsed, canonicalized and
\* recomputed parts of them (Unmarshal and Canonicalize of every type).
LoggedIsVouched == \A l \in log : Vouched(l)

\* A leaf is not what the schema allows: a DSSE signature in the URL alphabet.
Unreadable(leaf) ==
  leaf.kind = "dsse" /\ \E i \in DOMAIN leaf.spec.signatures : leaf.spec.signatures[i].signature.enc # "std"

\* Whoever vouches for an entry.
IdentitiesOf(e, t) == UNION {Identities(k) : k \in Verifiers(e, t)}

\* What a leaf is parsed as: an entry of its kind that is not insertable, or is the
\* same entry if it is, and whose verifiers have the identities that entry had.
ReadsAs(leaf, entry, at) ==
  \A e \in ReadLeaf(leaf) :
    /\ Insertable(e) => \A f \in CanonicalizeEntry(e, at) : f.leaf = leaf
    /\ e.kind = leaf.kind /\ e.version = leaf.apiVersion
    /\ IdentitiesOf(e, at) = IdentitiesOf(entry, at)

\* Every leaf can be parsed again by the server that wrote it, as the entry that was
\* submitted: what logEntryFromLeaf, the backfill and every client that reads the log
\* depend on.
LeavesReadBack ==
  \A x \in created : ~Unreadable(x.leaf) =>
    ReadLeaf(x.leaf) # {} /\ ReadsAs(x.leaf, x.entry, x.at)

\* The Go code ranges over a map: the identities of a PGP key, the files of a chart.
MapOrder(a) ==
  \/ \E i \in DOMAIN a.props.publicKeys :
       LET d == a.props.publicKeys[i]
       IN d.fmt = "pgp key" /\ \E j \in DOMAIN d.ring : Len(d.ring[j].uids) > 1
  \/ a.kind = "helm" /\ Cardinality(a.props.artifact.text.files) > 1

\* What a document says.  The comment of an SSH key is part of its encoding.
Unencoded(d) == [f \in DOMAIN d \ {"enc", "comment"} |-> d[f]]

\* Armored PGP signatures and raw ones are logged as they were sent.
KeptVerbatim(sig) == sig.fmt = "raw sig" \/ (sig.fmt = "pgp sig" /\ sig.enc # "binary")

\* The same artifact, up to the encoding of its keys, of its signature where that is
\* parsed, and of TUF metadata, which is a signature too.
SameUpToEncoding(a, b) ==
  LET p == a.props
      q == b.props
  IN /\ a.kind = b.kind /\ a.version = b.version
     /\ p.artifactHash = q.artifactHash /\ p.pkiFormat = q.pkiFormat /\ p.aad = q.aad
     /\ DOMAIN p.publicKeys = DOMAIN q.publicKeys
     /\ \A i \in DOMAIN p.publicKeys : Unencoded(p.publicKeys[i]) = Unencoded(q.publicKeys[i])
     /\ \/ p.signature = q.signature
        \/ /\ Nil \notin {p.signature, q.signature}
           /\ ~KeptVerbatim(p.signature) /\ ~KeptVerbatim(q.signature)
           /\ Unencoded(p.signature) = Unencoded(q.signature)
     /\ \/ p.artifact = q.artifact
        \/ a.kind = "tuf" /\ Unencoded(p.artifact) = Unencoded(q.artifact)

\* An artifact has one leaf, in whatever encoding its keys come and, unless it is raw or
\* an armored PGP signature, its signature: the second submission meets the first as a
\* duplicate.  An armored PGP signature is logged verbatim, so it has a leaf beside that
\* of its binary form; and where a Go map is ranged over, the canonical form is not a
\* function of the artifact, and each upload may add a leaf.
OneLeafPerArtifact ==
  \A x, y \in created :
    (/\ {x.source, y.source} \subseteq Artifacts
     /\ ~MapOrder(x.source) /\ SameUpToEncoding(x.source, y.source)) => x.leaf = y.leaf

---------------------------------------------------------------------------
(* Requests that are sent again.                                           *)

AtMostOne(S) == \A x, y \in S : x = y

\* The entities of a PGP ring have one user ID each, or the same one several times.
OneUserID(d) == \A i \in DOMAIN d.ring : AtMostOne(Elems(d.ring[i].uids))

\* What the Go code takes from a map is one: a key has one user ID, a chart one file.
OneOrder(e) ==
  /\ e.kind \in {"helm", "rpm"} => OneUserID(e.impl.publicKey.content)
  /\ e.kind = "helm" => AtMostOne(e.impl.chart.provenance.content.text.files)
  /\ e.kind = "rekord" /\ e.impl.signature.format = "pgp" => OneUserID(e.impl.signature.publicKey.content)

\* The verifiers of an envelope are a list.
VerifiersListed(pe) ==
  \A o \in Dsse!DecodeEntry(pe.spec) : o.proposedContent # Nil => DOMAIN o.proposedContent.verifiers \subseteq Nat

\* The entries made of a document.  Nothing in its making is taken from a Go map.
EntriesOf(doc) == UNION {CreateVersionedEntry(pe, AcceptedKinds) : pe \in BindRequest(doc)}
Unambiguous(doc) ==
  /\ \A pe \in BindRequest(doc) : pe.kind = "dsse" => VerifiersListed(pe)
  /\ \A e \in EntriesOf(doc) : OneOrder(e)

\* The client sends an unambiguous request again, after a lost or failed reply.
Retrying(c) == command[c] # Nil /\ command[c].tries # 0 /\ Unambiguous(command[c].proposals[1])

\* A request that is sent again after its reply was lost (the retries of
\* pkg/client/rekor_client.go) adds nothing to the log: the server parses, verifies and
\* canonicalizes it anew, at another time and after other requests, and meets its own
\* leaf.  A request in which the order of a Go map takes part may add a second leaf.
RetriesAddNothing == [][\A c \in Clients : Retrying(c) => ~createLogEntry(c)]_vars

---------------------------------------------------------------------------
(* What was uploaded is found again.                                       *)

\* The root that the artifact was verified with is still in force.
InForce(a) == a.kind = "tuf" => now <= a.props.publicKeys[1].expires

FoundBy(u) ==
  (/\ u.artifact \in Artifacts /\ ~MapOrder(u.artifact)
   /\ InForce(u.artifact) /\ ~Unreadable(u.leaf)) => verifyCmd(u.artifact) = {u.leaf}

\* rekor-cli verify, given the files and flags of an upload that succeeded, finds
\* and accepts the leaf of that upload, after any other upload.
VerifyFindsUpload ==
  \A u \in uploads : (u.artifact \in Artifacts /\ ~IsIterator(u.artifact)) => FoundBy(u)

\* The same of every upload, with the flag --type intoto too: "Verifies an entry
\* exists in the transparency log" (cmd/rekor-cli/app/verify.go).
VerifyFindsEveryUpload == \A u \in uploads : u.artifact \in Artifacts => FoundBy(u)

\* Types whose index keys have the key's digest without an algorithm.
FoundByKey == {"alpine", "cose", "hashedrekord", "helm", "rekord", "rpm", "tuf"}
FoundByHash == {"alpine", "cose", "rekord", "rpm"}

\* rekor-cli search with the key of an upload, with a subject of that key, and with
\* key and artifact together, finds the entry once it is in the index, whoever put
\* it there and whatever encoding the key has.  (The comment of an SSH key is not
\* part of its canonical form, so an address in it is the first uploader's only.)
SearchFindsIndexed ==
  \A u \in uploads :
    LET a == u.artifact
    IN (/\ a \in Artifacts /\ ~MapOrder(a) /\ InForce(a) /\ a.kind \in FoundByKey
        /\ \E p \in index : p[2] = u.leaf) =>
       LET none == [sha |-> Nil, artifact |-> Nil, publicKey |-> Nil, pkiFormat |-> "", email |-> Nil, operator |-> ""]
           byKey == [none EXCEPT !.publicKey = a.props.publicKeys[1], !.pkiFormat = a.props.pkiFormat]
       IN /\ u.leaf \in searchCmd(byKey)
          /\ a.props.pkiFormat # "ssh" => \A k \in NewPublicKey(a.props.pkiFormat, a.props.publicKeys[1], now) :
               \A s \in Subjects(k) : u.leaf \in searchCmd([none EXCEPT !.email = s])
          /\ a.kind \in FoundByHash \ {"cose"} =>
               u.leaf \in searchCmd([byKey EXCEPT !.artifact = a.props.artifact, !.operator = "and"])

\* Types whose keys can be computed from the leaf alone.
KeysInLeaf == {"alpine", "hashedrekord", "jar", "rekord", "rfc3161", "rpm", "tuf"}

\* The backfill, which has the leaf only, gives an entry all the keys that the
\* goroutine of its request would have given it.
BackfillComplete ==
  \A x \in created :
    (x.leaf \in backfilled /\ x.leaf.kind \in KeysInLeaf) =>
      \E keys \in IndexKeys(x.entry, x.at) : \A k \in keys : <<k, x.leaf>> \in index

\* What is returned as the attestation of an entry is what the digests of its leaf
\* name, and it is returned once it was stored, whatever other entries with the same
\* payload do to that object.
AttestationsFound ==
  \A x \in created : HasAttestation(x.entry) =>
    \A r \in logEntryFromLeaf(x.leaf) :
      LET digest == IF x.leaf.kind = "cose" THEN x.leaf.spec.data.envelopeHash.value
                    ELSE x.leaf.spec.content.payloadHash.value
      IN /\ \A d \in r.attestation : Digest("sha256", d) = digest
         /\ r.attestation = {} => \A kv \in AttestationKeyValue(x.entry) : kv \notin attestations
=============================================================================
