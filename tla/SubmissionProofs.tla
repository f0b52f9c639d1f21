-------------------------- MODULE SubmissionProofs --------------------------
(***************************************************************************)
(* Proofs about Submission.                                                *)
(***************************************************************************)
EXTENDS Submission, TLAPS

---------------------------------------------------------------------------
(* Types.                                                                  *)

IsSequence(s) == s \in Seq({s[i] : i \in DOMAIN s})

\* What a command still has to send is a sequence.
ProposalsAreSequences ==
  \A c \in Clients : command[c] # Nil => IsSequence(command[c].proposals)

TypeInv == TypeOK /\ ProposalsAreSequences

LEMMA SequenceOfOne == \A x : IsSequence(<<x>>) /\ Len(<<x>>) = 1
BY DEF IsSequence

LEMMA SequenceOfTwo == \A x, y : IsSequence(<<x, y>>) /\ Len(<<x, y>>) = 2
<1> SUFFICES ASSUME NEW x, NEW y PROVE IsSequence(<<x, y>>) /\ Len(<<x, y>>) = 2
  OBVIOUS
<1> DEFINE s == <<x, y>>
           S == {s[i] : i \in DOMAIN s}
<1>1. Len(s) = 2 /\ DOMAIN s = 1 .. 2
  OBVIOUS
<1>2. s \in [1 .. 2 -> S]
  BY <1>1
<1>3. s \in Seq(S)
  BY <1>2
<1>4. QED BY <1>1, <1>3 DEF IsSequence

LEMMA TailIsSequence ==
  ASSUME NEW s, IsSequence(s), Len(s) \in 1 .. 2, Len(s) # 1
  PROVE  IsSequence(Tail(s)) /\ Len(Tail(s)) = 1
<1> DEFINE S == {s[i] : i \in DOMAIN s}
           t == Tail(s)
           T == {t[i] : i \in DOMAIN t}
<1>1. s \in Seq(S) /\ Len(s) = 2
  BY DEF IsSequence
<1>2. t \in Seq(S) /\ Len(t) = 1
  <2> HIDE DEF S
  <2> QED BY <1>1
<1>3. DOMAIN t = 1 .. 1 /\ t = [i \in 1 .. 1 |-> t[i]]
  <2> HIDE DEF S, t
  <2> QED BY <1>2
<1>4. t \in Seq(T)
  <2> HIDE DEF t
  <2>1. t \in [1 .. 1 -> T]
    BY <1>3
  <2>2. QED BY <2>1
<1>5. QED BY <1>2, <1>4 DEF IsSequence

\* A client's proposals for an artifact are a sequence of one, or of two where the
\* intoto type has both versions to offer.
LEMMA ProposalsOfArtifact ==
  ASSUME NEW kind, NEW version, NEW props, NEW t,
         NEW pes \in NewProposedEntry(kind, version, props, t)
  PROVE  IsSequence(pes) /\ Len(pes) \in 1 .. 2
<1>1. (\E x : pes = <<x>>) \/ (\E x, y : pes = <<x, y>>)
  <2>1. ASSUME NEW S, pes \in {<<pe>> : pe \in S} PROVE \E x : pes = <<x>>
    BY <2>1
  <2>2. CASE kind = "intoto"
    <3>1. pes \in IntotoCreateProposedEntry(version, props, t)
      BY <2>2 DEF NewProposedEntry
    <3>2. QED BY <3>1 DEF IntotoCreateProposedEntry
  <2>3. CASE kind # "intoto"
    BY <2>3 DEF NewProposedEntry
  <2>4. QED BY <2>2, <2>3
<1>2. QED BY <1>1, SequenceOfOne, SequenceOfTwo

---------------------------------------------------------------------------
(* Steps.                                                                  *)

LEMMA TypeInit == Init => TypeInv
BY BoundsAssumption DEF Init, TypeInv, TypeOK, ProposalsAreSequences

LEMMA TypeStart ==
  ASSUME TypeInv, NEW c \in Clients, StartUpload(c) PROVE TypeInv'
<1> USE BoundsAssumption
<1>1. PICK s, pes :
        /\ s \in Sources /\ command' = [command EXCEPT ![c] = [source |-> s, proposals |-> pes, tries |-> 0]]
        /\ IsSequence(pes) /\ Len(pes) \in 1 .. 2
  <2>1. ASSUME NEW a \in Artifacts, NEW pes \in NewProposedEntry(a.kind, a.version, a.props, now)
        PROVE  a \in Sources /\ IsSequence(pes) /\ Len(pes) \in 1 .. 2
    BY ProposalsOfArtifact DEF Sources
  <2>2. ASSUME NEW d \in Documents
        PROVE  d \in Sources /\ IsSequence(<<d>>) /\ Len(<<d>>) \in 1 .. 2
    BY SequenceOfOne DEF Sources
  <2>3. QED BY <2>1, <2>2 DEF StartUpload
<1>2. UNCHANGED <<now, log, jobs, index, attestations, created, uploads, backfilled>> /\ started' \in 0 .. MaxUploads
  BY DEF StartUpload, TypeInv, TypeOK
<1>3. \A d \in Clients : command'[d] # Nil =>
        /\ command'[d].source \in Sources /\ command'[d].tries \in 0 .. RetryMax
        /\ Len(command'[d].proposals) \in 1 .. 2 /\ IsSequence(command'[d].proposals)
  BY <1>1 DEF TypeInv, TypeOK, ProposalsAreSequences
<1>4. DOMAIN command' = Clients
  BY <1>1 DEF TypeInv, TypeOK
<1>5. QED BY <1>2, <1>3, <1>4 DEF TypeInv, TypeOK, ProposalsAreSequences

\* The commands after a step in which one of them ended or was given a new record.
LEMMA TypeCommand ==
  ASSUME TypeInv, NEW c \in Clients, NEW r,
         command' = [command EXCEPT ![c] = r],
         r # Nil => /\ r.source \in Sources /\ r.tries \in 0 .. RetryMax
                    /\ Len(r.proposals) \in 1 .. 2 /\ IsSequence(r.proposals)
  PROVE  /\ DOMAIN command' = Clients
         /\ ProposalsAreSequences'
         /\ \A d \in Clients : command'[d] # Nil =>
              /\ command'[d].source \in Sources
              /\ command'[d].tries \in 0 .. RetryMax
              /\ Len(command'[d].proposals) \in 1 .. 2
BY DEF TypeInv, TypeOK, ProposalsAreSequences

LEMMA TypeTryNext ==
  ASSUME TypeInv, NEW c \in Clients, TryNext(c) PROVE TypeInv'
<1> USE BoundsAssumption
<1> DEFINE p == command[c]
           r == IF Len(p.proposals) = 1 THEN Nil
                ELSE [source |-> p.source, proposals |-> Tail(p.proposals), tries |-> 0]
<1>1. command' = [command EXCEPT ![c] = r]
  BY DEF TryNext, TypeInv, TypeOK
<1>2. r # Nil => /\ r.source \in Sources /\ r.tries \in 0 .. RetryMax
                 /\ Len(r.proposals) \in 1 .. 2 /\ IsSequence(r.proposals)
  BY TailIsSequence DEF TryNext, TypeInv, TypeOK, ProposalsAreSequences
<1> HIDE DEF r
<1>3. QED BY <1>1, <1>2, TypeCommand DEF TryNext, TypeInv, TypeOK

LEMMA TypeReplied ==
  ASSUME TypeInv, NEW c \in Clients, command[c] # Nil, NEW leaf, Replied(c, leaf)
  PROVE  /\ DOMAIN command' = Clients
         /\ ProposalsAreSequences'
         /\ \A d \in Clients : command'[d] # Nil =>
              /\ command'[d].source \in Sources
              /\ command'[d].tries \in 0 .. RetryMax
              /\ Len(command'[d].proposals) \in 1 .. 2
         /\ uploads' \subseteq uploads \cup {[artifact |-> command[c].source, leaf |-> leaf]}
<1> USE BoundsAssumption
<1> DEFINE p == command[c]
           r == IF p.tries = RetryMax THEN Nil
                ELSE [source |-> p.source, proposals |-> p.proposals, tries |-> p.tries + 1]
<1>1. command' = [command EXCEPT ![c] = Nil] \/ command' = [command EXCEPT ![c] = r]
  BY DEF Replied, TypeInv, TypeOK
<1>2. r # Nil => /\ r.source \in Sources /\ r.tries \in 0 .. RetryMax
                 /\ Len(r.proposals) \in 1 .. 2 /\ IsSequence(r.proposals)
  BY DEF TypeInv, TypeOK, ProposalsAreSequences
<1>3. uploads' \subseteq uploads \cup {[artifact |-> command[c].source, leaf |-> leaf]}
  BY DEF Replied
<1> HIDE DEF r
<1>4. CASE command' = [command EXCEPT ![c] = Nil]
  BY <1>3, <1>4, TypeCommand
<1>5. CASE command' = [command EXCEPT ![c] = r]
  BY <1>2, <1>3, <1>5, TypeCommand
<1>6. QED BY <1>1, <1>4, <1>5

LEMMA TypeCreate ==
  ASSUME TypeInv, NEW c \in Clients, createLogEntry(c) PROVE TypeInv'
<1>0. PICK e \in Admitted(command[c].proposals[1]) : \E f \in CanonicalizeEntry(e, now) :
        /\ log' = log \cup {f.leaf}
        /\ jobs' = jobs \cup JobsFor(f.leaf, f.entry)
        /\ created' = created \cup
             {[source |-> command[c].source, leaf |-> f.leaf, entry |-> f.entry, at |-> now]}
        /\ Replied(c, f.leaf)
  BY DEF createLogEntry
<1>1. PICK f \in CanonicalizeEntry(e, now) :
        /\ log' = log \cup {f.leaf}
        /\ jobs' = jobs \cup JobsFor(f.leaf, f.entry)
        /\ created' = created \cup
             {[source |-> command[c].source, leaf |-> f.leaf, entry |-> f.entry, at |-> now]}
        /\ Replied(c, f.leaf)
  BY <1>0
<1>2. command[c] # Nil /\ UNCHANGED <<now, index, attestations, started, backfilled>>
  BY DEF createLogEntry
<1>3. \A j \in JobsFor(f.leaf, f.entry) : j.op \in {"index", "attest"} /\ j.leaf = f.leaf
  BY DEF JobsFor
<1>4. log' = {x.leaf : x \in created'}
  <2> DEFINE new == [source |-> command[c].source, leaf |-> f.leaf, entry |-> f.entry, at |-> now]
  <2>1. new.leaf = f.leaf
    OBVIOUS
  <2>2. created' = created \cup {new} /\ log' = log \cup {new.leaf} /\ log = {x.leaf : x \in created}
    BY <1>1, <2>1 DEF TypeInv, TypeOK
  <2> HIDE DEF new
  <2>3. QED BY <2>2
<1>5. \A j \in jobs' : j.op \in {"index", "attest"} /\ j.leaf \in log'
  BY <1>1, <1>3 DEF TypeInv, TypeOK
<1>6. \A u \in uploads' : u.artifact \in Sources /\ u.leaf \in log'
  BY <1>1, <1>2, TypeReplied DEF TypeInv, TypeOK
<1>7. (\A p \in index' : p[2] \in log') /\ backfilled' \subseteq log'
  BY <1>1, <1>2 DEF TypeInv, TypeOK
<1>8. now' \in 0 .. MaxTime /\ started' \in 0 .. MaxUploads
  BY <1>2 DEF TypeInv, TypeOK
<1>9. QED
  <2>1. DOMAIN command' = Clients /\ ProposalsAreSequences'
        /\ \A d \in Clients : command'[d] # Nil =>
              /\ command'[d].source \in Sources
              /\ command'[d].tries \in 0 .. RetryMax
              /\ Len(command'[d].proposals) \in 1 .. 2
    BY <1>1, <1>2, TypeReplied
  <2>2. QED BY <2>1, <1>4, <1>5, <1>6, <1>7, <1>8 DEF TypeInv, TypeOK

LEMMA TypeExists ==
  ASSUME TypeInv, NEW c \in Clients, AlreadyExists(c) PROVE TypeInv'
<1>1. PICK leaf \in log : Replied(c, leaf)
  BY DEF AlreadyExists
<1>2. command[c] # Nil /\ UNCHANGED <<now, log, jobs, index, attestations, started, created, backfilled>>
  BY DEF AlreadyExists
<1>3. \A u \in uploads' : u.artifact \in Sources /\ u.leaf \in log
  BY <1>1, <1>2, TypeReplied DEF TypeInv, TypeOK
<1>4. DOMAIN command' = Clients /\ ProposalsAreSequences'
      /\ \A d \in Clients : command'[d] # Nil =>
            /\ command'[d].source \in Sources
            /\ command'[d].tries \in 0 .. RetryMax
            /\ Len(command'[d].proposals) \in 1 .. 2
  BY <1>1, <1>2, TypeReplied
<1>5. QED BY <1>2, <1>3, <1>4 DEF TypeInv, TypeOK

\* Every step keeps the types.
LEMMA TypeNext == TypeInv /\ [Next]_vars => TypeInv'
<1> SUFFICES ASSUME TypeInv, [Next]_vars PROVE TypeInv'
  OBVIOUS
<1>1. ASSUME NEW c \in Clients, StartUpload(c) PROVE TypeInv'
  BY <1>1, TypeStart
<1>2. ASSUME NEW c \in Clients, TryNext(c) PROVE TypeInv'
  BY <1>2, TypeTryNext
<1>3. ASSUME NEW c \in Clients, Refused(c) PROVE TypeInv'
  BY <1>3, TypeCommand DEF Refused, TypeInv, TypeOK
<1>4. ASSUME NEW c \in Clients, createLogEntry(c) PROVE TypeInv'
  BY <1>4, TypeCreate
<1>5. ASSUME NEW c \in Clients, AlreadyExists(c) PROVE TypeInv'
  BY <1>5, TypeExists
<1>6. ASSUME NEW j \in jobs, addToIndex(j) PROVE TypeInv'
  BY <1>6 DEF addToIndex, TypeInv, TypeOK, ProposalsAreSequences
<1>7. ASSUME NEW j \in jobs, StoreAttestation(j) PROVE TypeInv'
  BY <1>7 DEF StoreAttestation, TypeInv, TypeOK, ProposalsAreSequences
<1>8. ASSUME NEW l \in log, populate(l) PROVE TypeInv'
  BY <1>8 DEF populate, TypeInv, TypeOK, ProposalsAreSequences
<1>9. CASE Tick
  BY <1>9, BoundsAssumption DEF Tick, TypeInv, TypeOK, ProposalsAreSequences
<1>10. CASE UNCHANGED vars
  BY <1>10 DEF vars, TypeInv, TypeOK, ProposalsAreSequences
<1>11. QED BY <1>1, <1>2, <1>3, <1>4, <1>5, <1>6, <1>7, <1>8, <1>9, <1>10 DEF Next

\* Commands, jobs and histories have their shapes: a client never counts past the
\* limit of its retries, and nothing that is indexed, backfilled, told to a client or
\* still to be done by a goroutine of the server is about a leaf that is not in the log.
THEOREM SubmissionTypes == Spec => []TypeOK
<1>1. TypeInv => TypeOK
  BY DEF TypeInv
<1>2. QED BY TypeInit, TypeNext, <1>1, PTL DEF Spec

---------------------------------------------------------------------------
(* What the log says is true.  For each kind: an entry that was created and*)
(* canonicalized gives a leaf that is vouched for.  An entry type is an    *)
(* instance, and the operators of PKI and EntryBase that its definitions   *)
(* use are those of the instance.                                          *)

\* The canonical form of an X.509 key has the keys of its first block.
LEMMA X509KeysIn ==
  ASSUME NEW k, NEW p, p.fmt = "pem", p.blocks = k.blocks
  PROVE  k.blocks[1].key \in KeysIn(p) /\ k.blocks[1].alt \subseteq KeysIn(p)
BY DEF KeysIn

\* The canonical form of a PGP key has the keys of its ring.
LEMMA PgpKeysIn ==
  ASSUME NEW k, NEW p \in PgpKeyCanonicalValue(k), NEW i \in DOMAIN k.ring
  PROVE  k.ring[i].key \in KeysIn(p)
<1>1. PICK r \in [DOMAIN k.ring -> UNION {PgpSerialize(k.ring[j]) : j \in DOMAIN k.ring}] :
        /\ \A j \in DOMAIN r : r[j] \in PgpSerialize(k.ring[j])
        /\ p = [fmt |-> "pgp key", enc |-> "canonical", ring |-> r]
  BY DEF PgpKeyCanonicalValue
<1>2. p.fmt = "pgp key" /\ p.ring = r
  BY <1>1
<1>3. DOMAIN p.ring = DOMAIN k.ring
  BY <1>1
<1>4. p.ring[i] \in PgpSerialize(k.ring[i])
  BY <1>1, <1>3
<1>5. p.ring[i].key = k.ring[i].key
  BY <1>4 DEF PgpSerialize
<1>6. KeysIn(p) = {p.ring[j].key : j \in DOMAIN p.ring}
  BY <1>2 DEF KeysIn
<1>7. QED BY <1>3, <1>5, <1>6

\* The canonical form of a PGP signature is by the signer of the signature.
LEMMA PgpSigSame ==
  ASSUME NEW g, NEW s \in PgpSigCanonicalValue(g)
  PROVE  s.by = g.signature.by /\ s.over = g.signature.over
<1> DEFINE r == [fmt |-> "pgp sig", enc |-> "canonical", by |-> g.signature.by, over |-> g.signature.over]
<1>1. s = g.signature \/ s = r
  BY DEF PgpSigCanonicalValue
<1>2. r.by = g.signature.by /\ r.over = g.signature.over
  OBVIOUS
<1> HIDE DEF r
<1>3. QED BY <1>1, <1>2

LEMMA AlpineVouched ==
  ASSUME NEW v, NEW t, NEW c \in Alpine!Canonicalize(v, t) PROVE Vouched(c.leaf)
<1> DEFINE d == v.package.content
           Form(e, p) == [publicKey |-> [content |-> p],
                          package |-> [hash |-> e.entry.package.hash, content |-> Nil,
                                       pkginfo |-> e.apk.pkginfo]]
<1>1. PICK e, p :
        /\ e \in Alpine!fetchExternalEntities(v, t) /\ p \in Alpine!X509KeyCanonicalValue(e.key)
        /\ c = [leaf |-> Alpine!MarshalJSON("0.0.1", Form(e, p)), entry |-> Form(e, p)]
  BY DEF Alpine!Canonicalize
<1>2. c.leaf = [kind |-> "alpine", apiVersion |-> "0.0.1", spec |-> Form(e, p)]
  BY <1>1 DEF Alpine!MarshalJSON
<1>3. /\ e.apk \in Alpine!UnmarshalPackage(d)
      /\ Alpine!VerifySignature(e.apk, e.key.blocks[1].key)
      /\ e.entry.package.hash = Alpine!FilledIn(v.package.hash, d)
      /\ v.package.hash = Nil \/ v.package.hash.value = Alpine!Digest("sha256", d)
  BY <1>1 DEF Alpine!fetchExternalEntities
<1>4. e.entry.package.hash.value.of = d
  BY <1>3 DEF Alpine!FilledIn, Alpine!Sha256, Alpine!Digest
<1>5. d.control[Len(d.control)].datahash.of = d.data
  <2>1. Alpine!ToLower(d.control[Len(d.control)].datahash) = Alpine!Digest("sha256", d.data)
    BY <1>3 DEF Alpine!UnmarshalPackage
  <2> DEFINE h == d.control[Len(d.control)].datahash
  <2>2. Alpine!ToLower(h).of = h.of
    BY DEF Alpine!ToLower, Alpine!Digest
  <2> HIDE DEF h
  <2>3. Alpine!ToLower(h).of = d.data
    BY <2>1 DEF Alpine!Digest, h
  <2>4. h.of = d.data
    BY <2>2, <2>3
  <2>5. QED BY <2>4 DEF h
<1>6. e.apk.signature = d.sigs[1] /\ e.apk.control = d.control
  BY <1>3 DEF Alpine!UnmarshalPackage
<1>7. e.key.blocks[1].key \in KeysIn(p)
  BY <1>1, X509KeysIn DEF Alpine!X509KeyCanonicalValue
<1>8. d.sigs[1].by \in KeysIn(p) /\ d.sigs[1].over = d.control
  BY <1>3, <1>6, <1>7 DEF Alpine!VerifySignature
<1>9. /\ c.leaf.kind = "alpine" /\ c.leaf.spec.publicKey.content = p
      /\ c.leaf.spec.package.hash.value.of = d
  BY <1>2, <1>4
<1>10. QED BY <1>5, <1>8, <1>9 DEF Vouched, SignsDigest

LEMMA CoseVouched ==
  ASSUME NEW pe, NEW v \in Cose!UnmarshalEntry(pe), Cose!Insertable(v), NEW t, NEW c \in Cose!Canonicalize(v, t)
  PROVE  Vouched(c.leaf)
<1> DEFINE m == v.sign1Msg
           Spec0(p) == [message |-> Nil, publicKey |-> p,
                       data |-> [aad |-> Nil,
                         payloadHash |-> [algorithm |-> "sha256", value |-> Cose!Digest("sha256", m.payload)],
                         envelopeHash |-> [algorithm |-> "sha256", value |-> v.envelopeHash]]]
<1>1. PICK p \in Cose!X509KeyCanonicalValue(v.keyObj) :
        c = [leaf |-> Cose!MarshalJSON("0.0.1", Spec0(p)), entry |-> v]
  BY DEF Cose!Canonicalize
<1>2. c.leaf = [kind |-> "cose", apiVersion |-> "0.0.1", spec |-> Spec0(p)]
  BY <1>1 DEF Cose!MarshalJSON
<1>3. PICK o, k, h :
        /\ k \in Cose!X509NewPublicKey(o.publicKey) /\ Cose!validate(o, k) /\ h \in Cose!envelopeHash(o)
        /\ v = [obj |-> o, keyObj |-> k, sign1Msg |-> o.message, envelopeHash |-> h]
  BY DEF Cose!UnmarshalEntry, Cose!Unmarshal
<1>4. o.message # Nil /\ m = o.message /\ v.keyObj = k
  BY <1>3 DEF Cose!Insertable
<1>5. v.envelopeHash.of = m
  BY <1>3, <1>4 DEF Cose!envelopeHash, Cose!Digest
<1>6. m.by = v.keyObj.blocks[1].key
  BY <1>3, <1>4 DEF Cose!validate
<1>7. v.keyObj.blocks[1].key \in KeysIn(p)
  BY <1>1, X509KeysIn DEF Cose!X509KeyCanonicalValue
<1>8. /\ c.leaf.kind = "cose" /\ c.leaf.spec.publicKey = p
      /\ c.leaf.spec.data.envelopeHash.value.of = m
      /\ c.leaf.spec.data.payloadHash.value.of = m.payload
  BY <1>2, <1>5 DEF Cose!Digest
<1>9. QED BY <1>6, <1>7, <1>8 DEF Vouched

LEMMA HashedRekordVouched ==
  ASSUME NEW v, NEW t, NEW c \in HashedRekord!Canonicalize(v, t) PROVE Vouched(c.leaf)
<1> DEFINE h == v.data.hash
           Form(s, p) == [signature |-> [content |-> s, publicKey |-> [content |-> p]],
                          data |-> [hash |-> v.data.hash]]
<1>0. \E e \in HashedRekord!validate(v) :
        \E s \in HashedRekord!X509SigCanonicalValue(e.sig), p \in HashedRekord!X509KeyCanonicalValue(e.key) :
          c = [leaf |-> HashedRekord!MarshalJSON("0.0.1", Form(s, p)), entry |-> Form(s, p)]
  BY DEF HashedRekord!Canonicalize
<1>1. PICK e, s, p :
        /\ e \in HashedRekord!validate(v)
        /\ s \in HashedRekord!X509SigCanonicalValue(e.sig) /\ p \in HashedRekord!X509KeyCanonicalValue(e.key)
        /\ c = [leaf |-> HashedRekord!MarshalJSON("0.0.1", Form(s, p)), entry |-> Form(s, p)]
  BY <1>0
<1>2. c.leaf = [kind |-> "hashedrekord", apiVersion |-> "0.0.1", spec |-> Form(s, p)]
  BY <1>1 DEF HashedRekord!MarshalJSON
<1>3. HashedRekord!X509VerifyDigest(e.sig, h.algorithm, h.value.of, e.key)
  BY <1>1 DEF HashedRekord!validate
<1>4. s.by = e.key.blocks[1].key /\ s.over = h.value.of
  BY <1>1, <1>3 DEF HashedRekord!X509VerifyDigest, HashedRekord!X509SigCanonicalValue
<1>5. e.key.blocks[1].key \in KeysIn(p)
  BY <1>1, X509KeysIn DEF HashedRekord!X509KeyCanonicalValue
<1>6. /\ c.leaf.kind = "hashedrekord" /\ c.leaf.spec.signature.content = s
      /\ c.leaf.spec.signature.publicKey.content = p /\ c.leaf.spec.data.hash.value = h.value
  BY <1>2
<1>7. QED BY <1>4, <1>5, <1>6 DEF Vouched, SignsDigest

LEMMA Rfc3161Vouched ==
  ASSUME NEW pe, NEW v \in Rfc3161!UnmarshalEntry(pe), NEW t, NEW c \in Rfc3161!Canonicalize(v, t)
  PROVE  Vouched(c.leaf)
<1>1. PICK o : Rfc3161!validate(o) /\ v = [obj |-> o, tsrContent |-> o.tsr.content]
  BY DEF Rfc3161!UnmarshalEntry, Rfc3161!Unmarshal
<1>2. c.leaf = [kind |-> "rfc3161", apiVersion |-> "0.0.1", spec |-> [tsr |-> [content |-> o.tsr.content]]]
  BY <1>1 DEF Rfc3161!Canonicalize, Rfc3161!MarshalJSON
<1>3. o.tsr.content.verifies
  BY <1>1 DEF Rfc3161!validate
<1>4. c.leaf.kind = "rfc3161" /\ c.leaf.spec.tsr.content = o.tsr.content
  BY <1>2
<1>5. QED BY <1>3, <1>4 DEF Vouched

LEMMA HelmVouched ==
  ASSUME NEW v, NEW t, NEW c \in Helm!Canonicalize(v, t) PROVE Vouched(c.leaf)
<1> DEFINE Form(p, s, h) == [publicKey |-> [content |-> p],
                             chart |-> [hash |-> h,
                                        provenance |-> [content |-> Nil, signature |-> [content |-> s]]]]
<1>1. \E e \in Helm!fetchExternalEntities(v, t) :
        \E p \in Helm!PgpKeyCanonicalValue(e.key), s \in Helm!PgpSigCanonicalValue(e.sig),
           h \in Helm!GetChartAlgorithmHash(e.provenance) :
          c = [leaf |-> Helm!MarshalJSON("0.0.1", Form(p, s, h)), entry |-> v]
  BY DEF Helm!Canonicalize
<1>2. PICK e, p, s, h :
        /\ e \in Helm!fetchExternalEntities(v, t)
        /\ p \in Helm!PgpKeyCanonicalValue(e.key) /\ s \in Helm!PgpSigCanonicalValue(e.sig)
        /\ h \in Helm!GetChartAlgorithmHash(e.provenance)
        /\ c = [leaf |-> Helm!MarshalJSON("0.0.1", Form(p, s, h)), entry |-> v]
  BY <1>1
<1>3. c.leaf = [kind |-> "helm", apiVersion |-> "0.0.1", spec |-> Form(p, s, h)]
  BY <1>2 DEF Helm!MarshalJSON
<1>4. Helm!PgpVerify(e.sig, e.provenance.text, e.key)
  BY <1>2 DEF Helm!fetchExternalEntities
<1>5. PICK i \in DOMAIN e.key.ring : e.key.ring[i].key = e.sig.signature.by
  BY <1>4 DEF Helm!PgpVerify
<1>6. s.by = e.sig.signature.by /\ s.over = e.provenance.text
  <2>1. s.by = e.sig.signature.by /\ s.over = e.sig.signature.over
    <3>1. s \in PgpSigCanonicalValue(e.sig)
      BY <1>2 DEF Helm!PgpSigCanonicalValue, PgpSigCanonicalValue
    <3>2. QED BY <3>1, PgpSigSame
  <2>2. QED BY <2>1, <1>4 DEF Helm!PgpVerify
<1>7. h.value \in e.provenance.text.files
  BY <1>2 DEF Helm!GetChartAlgorithmHash
<1>8. e.key.ring[i].key \in KeysIn(p)
  <2>1. p \in PgpKeyCanonicalValue(e.key)
    BY <1>2 DEF Helm!PgpKeyCanonicalValue, PgpKeyCanonicalValue, Helm!PgpSerialize, PgpSerialize, Helm!AnyOrder, AnyOrder, Helm!Elems, Elems
  <2>2. QED BY <2>1, <1>5, PgpKeysIn
<1>9. /\ c.leaf.kind = "helm" /\ c.leaf.spec.publicKey.content = p
      /\ c.leaf.spec.chart.provenance.signature.content = s /\ c.leaf.spec.chart.hash.value = h.value
  BY <1>3
<1>10. QED BY <1>5, <1>6, <1>7, <1>8, <1>9 DEF Vouched

LEMMA RpmVouched ==
  ASSUME NEW v, NEW t, NEW c \in Rpm!Canonicalize(v, t) PROVE Vouched(c.leaf)
<1> DEFINE d == v.package.content
           Form(e, p) == [publicKey |-> [content |-> p],
                          package |-> [hash |-> e.entry.package.hash, content |-> Nil, headers |-> e.rpm.headers]]
<1>1. PICK e, p :
        /\ e \in Rpm!fetchExternalEntities(v, t) /\ p \in Rpm!PgpKeyCanonicalValue(e.key)
        /\ c = [leaf |-> Rpm!MarshalJSON("0.0.1", Form(e, p)), entry |-> e.entry]
  BY DEF Rpm!Canonicalize
<1>2. c.leaf = [kind |-> "rpm", apiVersion |-> "0.0.1", spec |-> Form(e, p)]
  BY <1>1 DEF Rpm!MarshalJSON
<1>3. /\ Rpm!GPGCheck(d, e.key.ring)
      /\ e.entry.package.hash = Rpm!FilledIn(v.package.hash, d)
      /\ v.package.hash = Nil \/ v.package.hash.value = Rpm!Digest("sha256", d)
  BY <1>1 DEF Rpm!fetchExternalEntities
<1>4. e.entry.package.hash.value.of = d
  BY <1>3 DEF Rpm!FilledIn, Rpm!Sha256, Rpm!Digest
<1>5. PICK i \in DOMAIN e.key.ring : e.key.ring[i].key = d.by
  BY <1>3 DEF Rpm!GPGCheck
<1>6. e.key.ring[i].key \in KeysIn(p)
  <2>1. p \in PgpKeyCanonicalValue(e.key)
    BY <1>1 DEF Rpm!PgpKeyCanonicalValue, PgpKeyCanonicalValue, Rpm!PgpSerialize, PgpSerialize, Rpm!AnyOrder, AnyOrder, Rpm!Elems, Elems
  <2>2. QED BY <2>1, <1>5, PgpKeysIn
<1>7. c.leaf.kind = "rpm" /\ c.leaf.spec.publicKey.content = p /\ c.leaf.spec.package.hash.value.of = d
  BY <1>2, <1>4
<1>8. QED BY <1>5, <1>6, <1>7 DEF Vouched

LEMMA TufVouched ==
  ASSUME NEW v, NEW t, NEW c \in Tuf!Canonicalize(v, t) PROVE Vouched(c.leaf)
<1> DEFINE Form(m, r) == [metadata |-> [content |-> m], root |-> [content |-> r]]
<1>1. \E e \in Tuf!Verified(v, t) :
        \E m \in Tuf!TufSigCanonicalValue(e.sig), r \in Tuf!TufKeyCanonicalValue(e.key) :
          c = [leaf |-> Tuf!MarshalJSON("0.0.1", Form(m, r)), entry |-> v]
  BY DEF Tuf!Canonicalize
<1>2. PICK e, m, r :
        /\ e \in Tuf!Verified(v, t)
        /\ m \in Tuf!TufSigCanonicalValue(e.sig) /\ r \in Tuf!TufKeyCanonicalValue(e.key)
        /\ c = [leaf |-> Tuf!MarshalJSON("0.0.1", Form(m, r)), entry |-> v]
  BY <1>1
<1>3. c.leaf = [kind |-> "tuf", apiVersion |-> "0.0.1", spec |-> Form(m, r)]
  BY <1>2 DEF Tuf!MarshalJSON
<1>4. e.sig.signed.by \cap e.key.root.roles[e.sig.signed.role] # {}
  BY <1>2 DEF Tuf!Verified, Tuf!TufVerify, Tuf!TufVerifyMeta
<1>5. m.by = e.sig.signed.by /\ m.role = e.sig.signed.role /\ r.roles = e.key.root.roles
  BY <1>2 DEF Tuf!TufSigCanonicalValue, Tuf!TufKeyCanonicalValue, Tuf!TufCanonicalJSON
<1>6. c.leaf.kind = "tuf" /\ c.leaf.spec.metadata.content = m /\ c.leaf.spec.root.content = r
  BY <1>3
<1>7. QED BY <1>4, <1>5, <1>6 DEF Vouched

LEMMA JarVouched ==
  ASSUME NEW v, NEW t, NEW c \in Jar!Canonicalize(v, t) PROVE Vouched(c.leaf)
<1> DEFINE d == v.archive.content
           Form(e, s, p) == [signature |-> [content |-> s, publicKey |-> [content |-> p]],
                             archive |-> [hash |-> e.entry.archive.hash, content |-> Nil]]
<1>1. \E e \in Jar!fetchExternalEntities(v, t) :
        \E s \in Jar!Pkcs7SigCanonicalValue(e.sig), p \in Jar!Pkcs7KeyCanonicalValue(e.key) :
          c = [leaf |-> Jar!MarshalJSON("0.0.1", Form(e, s, p)), entry |-> Form(e, s, p)]
  BY DEF Jar!Canonicalize
<1>2. PICK e, s, p :
        /\ e \in Jar!fetchExternalEntities(v, t)
        /\ s \in Jar!Pkcs7SigCanonicalValue(e.sig) /\ p \in Jar!Pkcs7KeyCanonicalValue(e.key)
        /\ c = [leaf |-> Jar!MarshalJSON("0.0.1", Form(e, s, p)), entry |-> Form(e, s, p)]
  BY <1>1
<1>3. c.leaf = [kind |-> "jar", apiVersion |-> "0.0.1", spec |-> Form(e, s, p)]
  BY <1>2 DEF Jar!MarshalJSON
<1>4. PICK f \in Jar!extractPKCS7SignatureFromJAR(d) :
        /\ e.key \in Jar!Pkcs7NewPublicKey(f) /\ e.sig \in Jar!Pkcs7NewSignature(f)
        /\ e.entry.archive.hash = Jar!FilledIn(v.archive.hash, d)
        /\ v.archive.hash = Nil \/ v.archive.hash.value = Jar!Digest("sha256", d)
        /\ Jar!JarVerify(d) /\ Len(d.sigs) = 1
  BY <1>2 DEF Jar!fetchExternalEntities
<1>5. e.entry.archive.hash.value.of = d
  BY <1>4 DEF Jar!FilledIn, Jar!Sha256, Jar!Digest
<1>6. f = d.sigs[1]
  BY <1>4 DEF Jar!extractPKCS7SignatureFromJAR
<1>7. Jar!Pkcs7Verify(e.sig, d.manifest, Nil)
  BY <1>4, <1>6 DEF Jar!JarVerify
<1>8. s.by = e.sig.raw.by /\ s.over = d.manifest /\ s.certs = e.sig.raw.certs
  BY <1>2, <1>7 DEF Jar!Pkcs7SigCanonicalValue, Jar!Pkcs7Verify
<1>9. s.by \in {s.certs[i].key : i \in DOMAIN s.certs}
  BY <1>7, <1>8 DEF Jar!Pkcs7Verify
<1>10. s.certs[1] = e.key.certs[1]
  BY <1>4, <1>8 DEF Jar!Pkcs7NewSignature, Jar!Pkcs7NewPublicKey
<1>11. p.fmt = "pem" /\ p.blocks[1] = e.key.certs[1]
  BY <1>2 DEF Jar!Pkcs7KeyCanonicalValue
<1>12. s.certs[1].key \in KeysIn(p)
  BY <1>10, <1>11 DEF KeysIn
<1>13. /\ c.leaf.kind = "jar" /\ c.leaf.spec.signature.content = s
       /\ c.leaf.spec.signature.publicKey.content = p /\ c.leaf.spec.archive.hash.value.of = d
  BY <1>3, <1>5
<1>14. QED BY <1>8, <1>9, <1>12, <1>13 DEF Vouched, SignsDigest

\* An X.509 key has the blocks of the document that it was read from.
LEMMA X509Parsed ==
  ASSUME NEW d, NEW k \in X509NewPublicKey(d)
  PROVE  d.fmt = "pem" /\ X509NewPublicKey(d) = {k} /\ k = [fmt |-> "x509", blocks |-> d.blocks]
BY DEF X509NewPublicKey

LEMMA X509Instances ==
  \A d : /\ Dsse!X509NewPublicKey(d) = X509NewPublicKey(d)
         /\ IntotoV002!X509NewPublicKey(d) = X509NewPublicKey(d)
BY DEF X509NewPublicKey, Dsse!X509NewPublicKey, IntotoV002!X509NewPublicKey, MaxChain, Dsse!MaxChain,
       IntotoV002!MaxChain

\* One signature of the submitted envelope by one key of the first block.
LEMMA DsseVouched ==
  ASSUME NEW pe, NEW v \in Dsse!UnmarshalEntry(pe), Dsse!Insertable(v), NEW t, NEW c \in Dsse!Canonicalize(v, t)
  PROVE  Vouched(c.leaf)
<1> DEFINE Verifier(k) == CHOOSE d \in Dsse!X509KeyCanonicalValue(k) : TRUE
           Obj(vs, env) == [proposedContent |-> Nil,
                            signatures |-> [i \in DOMAIN vs |->
                              [signature |-> vs[i].sig, verifier |-> Verifier(vs[i].key)]],
                            payloadHash |-> Dsse!Sha256(env.payload),
                            envelopeHash |-> Dsse!Sha256(env)]
           Stored(o) ==
             IF o.envelopeHash = Nil \/ o.payloadHash = Nil \/ o.signatures = <<>> THEN {}
             ELSE {[obj |-> o, env |-> Nil, extracted |-> {}, insertable |-> FALSE]}
           Made(vs, env) == [obj |-> Obj(vs, env), env |-> env.payloadType,
                             extracted |-> Dsse!ExtractedIndexKeys(env), insertable |-> TRUE]
           Proposed(o) ==
             LET env == o.proposedContent.envelope
             IN IF \/ o.envelopeHash # Nil \/ o.payloadHash # Nil \/ o.signatures # <<>>
                   \/ env.fmt # "dsse" \/ env.signatures = <<>>
                THEN {}
                ELSE {Made(vs, env) : vs \in Dsse!verifyEnvelope(o.proposedContent.verifiers, env)}
<1>1. PICK env, verifiers, vs :
        /\ vs \in Dsse!verifyEnvelope(verifiers, env)
        /\ v.obj = Obj(vs, env)
  <2>1. PICK o \in Dsse!DecodeEntry(pe.spec) :
          v \in (IF o.proposedContent = Nil THEN Stored(o) ELSE Proposed(o))
    BY DEF Dsse!UnmarshalEntry, Dsse!Unmarshal
  <2>2. v \notin Stored(o)
    BY DEF Dsse!Insertable
  <2>3. v \in Proposed(o)
    BY <2>1, <2>2
  <2>4. \E vs \in Dsse!verifyEnvelope(o.proposedContent.verifiers, o.proposedContent.envelope) :
          v = Made(vs, o.proposedContent.envelope)
    BY <2>3
  <2>5. ASSUME NEW vs, NEW env PROVE Made(vs, env).obj = Obj(vs, env)
    OBVIOUS
  <2> HIDE DEF Made, Obj
  <2>6. QED BY <2>4, <2>5
<1> DEFINE s == c.leaf.spec
<1>2. c.leaf = [kind |-> "dsse", apiVersion |-> "0.0.1",
                spec |-> [proposedContent |-> Nil, signatures |-> v.obj.signatures,
                          payloadHash |-> v.obj.payloadHash, envelopeHash |-> v.obj.envelopeHash]]
  BY DEF Dsse!Canonicalize, Dsse!MarshalJSON
<1>3. /\ c.leaf.kind = "dsse"
      /\ s.signatures = [i \in DOMAIN vs |-> [signature |-> vs[i].sig, verifier |-> Verifier(vs[i].key)]]
      /\ s.payloadHash.value.of = env.payload /\ s.envelopeHash.value.of = env
  <2>1. /\ c.leaf.kind = "dsse" /\ s.signatures = v.obj.signatures
        /\ s.payloadHash = v.obj.payloadHash /\ s.envelopeHash = v.obj.envelopeHash
    BY <1>2
  <2>2. /\ v.obj.signatures = [i \in DOMAIN vs |-> [signature |-> vs[i].sig, verifier |-> Verifier(vs[i].key)]]
        /\ v.obj.payloadHash = Dsse!Sha256(env.payload) /\ v.obj.envelopeHash = Dsse!Sha256(env)
    <3> HIDE DEF Verifier
    <3> QED BY <1>1
  <2>3. Dsse!Sha256(env.payload).value.of = env.payload /\ Dsse!Sha256(env).value.of = env
    BY DEF Dsse!Sha256, Dsse!Digest
  <2> HIDE DEF Verifier, s
  <2>4. QED BY <2>1, <2>2, <2>3
<1>4. ASSUME NEW i \in DOMAIN vs
      PROVE  /\ \E x \in Dsse!CryptoKeys(vs[i].key) : vs[i].sig.by = x
             /\ vs[i].sig.over = env.payload
  <2> DEFINE sigs == {env.signatures[j] : j \in DOMAIN env.signatures}
             accepted(n) == UNION {UNION {Dsse!DsseAccepted(x, env) : x \in Dsse!CryptoKeys(k)} :
                                     k \in Dsse!X509NewPublicKey(verifiers[n])}
             Key(n) == CHOOSE k \in Dsse!X509NewPublicKey(verifiers[n]) : TRUE
             tried == {n \in DOMAIN verifiers : ~(sigs \subseteq UNION {accepted(j) : j \in 1 .. (n - 1)})}
             lasts == {f \in [sigs -> tried] : \A g \in sigs :
                         g \in accepted(f[g]) /\ \A n \in tried : n > f[g] => g \notin accepted(n)}
             Paired(last) == [j \in DOMAIN env.signatures |->
                                [sig |-> env.signatures[j], key |-> Key(last[env.signatures[j]])]]
  <2>0. vs \in {Paired(last) : last \in lasts}
    BY <1>1 DEF Dsse!verifyEnvelope
  <2>1. PICK last \in lasts : vs = Paired(last)
    BY <2>0
  <2> DEFINE g == env.signatures[i]
             n == last[g]
  <2>2. i \in DOMAIN env.signatures /\ vs[i].sig = g /\ vs[i].key = Key(n)
    <3> HIDE DEF Key, lasts
    <3> QED BY <2>1
  <2>3. g \in accepted(n)
    <3>1. g \in sigs
      BY <2>2
    <3> HIDE DEF accepted, sigs, g
    <3>2. QED BY <3>1, <2>1
  <2>4. PICK k \in Dsse!X509NewPublicKey(verifiers[n]) :
          \E x \in Dsse!CryptoKeys(k) : g \in Dsse!DsseAccepted(x, env)
    BY <2>3
  <2>5. Key(n) = k
    BY <2>4, X509Instances, X509Parsed
  <2>6. PICK x \in Dsse!CryptoKeys(k) : g \in Dsse!DsseAccepted(x, env)
    BY <2>4
  <2>7. g.by = x /\ g.over = env.payload
    BY <2>6 DEF Dsse!DsseAccepted
  <2>8. QED BY <2>2, <2>5, <2>6, <2>7
<1>5. ASSUME NEW i \in DOMAIN vs PROVE Dsse!CryptoKeys(vs[i].key) \subseteq KeysIn(Verifier(vs[i].key))
  <2> DEFINE k == vs[i].key
             d == Verifier(k)
  <2>1. [fmt |-> "pem", enc |-> "canonical", blocks |-> k.blocks] \in Dsse!X509KeyCanonicalValue(k)
    BY DEF Dsse!X509KeyCanonicalValue
  <2>2. d \in Dsse!X509KeyCanonicalValue(k)
    BY <2>1
  <2> HIDE DEF d
  <2>3. d.fmt = "pem" /\ d.blocks = k.blocks
    BY <2>2 DEF Dsse!X509KeyCanonicalValue
  <2>4. QED BY <2>3, X509KeysIn DEF Dsse!CryptoKeys, d
<1>6. ASSUME NEW i \in DOMAIN s.signatures
      PROVE  SignsDigest(s.signatures[i].signature, KeysIn(s.signatures[i].verifier), s.payloadHash.value)
  <2>1. i \in DOMAIN vs /\ s.signatures[i].signature = vs[i].sig /\ s.signatures[i].verifier = Verifier(vs[i].key)
    BY <1>3
  <2>2. QED BY <2>1, <1>3, <1>4, <1>5 DEF SignsDigest
<1> HIDE DEF s
<1>7. QED BY <1>3, <1>6 DEF Vouched, s

LEMMA IntotoV001Vouched ==
  ASSUME NEW pe, NEW v \in IntotoV001!Unmarshal(pe), IntotoV001!Insertable(v), NEW t,
         NEW c \in IntotoV001!Canonicalize(v, t)
  PROVE  Vouched(c.leaf)
<1>1. PICK o, k : k \in IntotoV001!X509NewPublicKey(o.publicKey) /\ v \in IntotoV001!validate(o, k)
  BY DEF IntotoV001!Unmarshal
<1> DEFINE env == o.content.envelope
<1>2. env # Nil
  BY <1>1 DEF IntotoV001!validate, IntotoV001!Insertable
<1>3. /\ \E i \in DOMAIN env.signatures :
           env.signatures[i].by = k.blocks[1].key /\ env.signatures[i].over = env.payload
      /\ v.keyObj = k
      /\ v.obj.content.hash = IntotoV001!Sha256(env)
      /\ v.obj.content.payloadHash = IntotoV001!Sha256(env.payload)
  BY <1>1, <1>2 DEF IntotoV001!validate
<1>4. PICK p \in IntotoV001!X509KeyCanonicalValue(v.keyObj) :
        c.leaf = [kind |-> "intoto", apiVersion |-> "0.0.1",
                  spec |-> [publicKey |-> p,
                            content |-> [envelope |-> Nil, hash |-> v.obj.content.hash,
                                         payloadHash |-> v.obj.content.payloadHash]]]
  BY DEF IntotoV001!Canonicalize
<1>5. k.blocks[1].key \in KeysIn(p)
  BY <1>3, <1>4, X509KeysIn DEF IntotoV001!X509KeyCanonicalValue
<1>6. /\ c.leaf.kind = "intoto" /\ c.leaf.apiVersion = "0.0.1" /\ c.leaf.spec.publicKey = p
      /\ c.leaf.spec.content.hash.value.of = env /\ c.leaf.spec.content.payloadHash.value.of = env.payload
  BY <1>3, <1>4 DEF IntotoV001!Sha256, IntotoV001!Digest
<1>7. QED BY <1>3, <1>5, <1>6 DEF Vouched, SignsDigest

LEMMA IntotoV002Vouched ==
  ASSUME NEW pe, NEW v \in IntotoV002!Unmarshal(pe), IntotoV002!Insertable(v), NEW t,
         NEW c \in IntotoV002!Canonicalize(v, t)
  PROVE  Vouched(c.leaf)
<1> DEFINE Keys(e) == [i \in DOMAIN e.signatures |-> e.signatures[i].publicKey]
           Envelope(e) == [payload |-> e.payload,
                           signatures |-> [i \in DOMAIN e.signatures |-> e.signatures[i].sig]]
           Made(o) == [obj |-> [content |-> [envelope |-> o.content.envelope, hash |-> o.content.hash,
                                             payloadHash |-> IntotoV002!Sha256(o.content.envelope.payload)]],
                       env |-> Envelope(o.content.envelope)]
           Checked(o) ==
             LET e == o.content.envelope
             IN IF e.payload = Nil THEN {[obj |-> o, env |-> Nil]}
                ELSE IF IntotoV002!verifyEnvelope(Keys(e), Envelope(e)) = {} \/ e.payload.enc # "std" THEN {}
                     ELSE {Made(o)}
<1>1. PICK e : /\ IntotoV002!verifyEnvelope(Keys(e), Envelope(e)) # {}
               /\ v.obj.content.envelope = e
               /\ v.obj.content.payloadHash = IntotoV002!Sha256(e.payload)
  <2>1. PICK o \in IntotoV002!DecodeEntry(pe.spec) : v \in Checked(o)
    BY DEF IntotoV002!Unmarshal
  <2> DEFINE e == o.content.envelope
  <2>2. v.env # Nil
    BY DEF IntotoV002!Insertable
  <2>3. e.payload # Nil
    BY <2>1, <2>2
  <2>4. v = Made(o) /\ IntotoV002!verifyEnvelope(Keys(e), Envelope(e)) # {}
    BY <2>1, <2>3
  <2>5. Made(o).obj.content.envelope = e /\ Made(o).obj.content.payloadHash = IntotoV002!Sha256(e.payload)
    OBVIOUS
  <2> HIDE DEF Made, Keys, Envelope
  <2>6. QED BY <2>4, <2>5
<1> DEFINE sigs == e.signatures
           accepted(n) == UNION {IntotoV002!DsseAccepted(k.blocks[1].key, Envelope(e)) :
                                   k \in IntotoV002!X509NewPublicKey(Keys(e)[n])}
<1>2. \A i \in DOMAIN sigs : \E n \in DOMAIN sigs : sigs[i].sig \in accepted(n)
  <2>1. {Envelope(e).signatures[i] : i \in DOMAIN Envelope(e).signatures}
          \subseteq UNION {accepted(n) : n \in DOMAIN Keys(e)}
    BY <1>1 DEF IntotoV002!verifyEnvelope
  <2>2. DOMAIN Keys(e) = DOMAIN sigs /\ DOMAIN Envelope(e).signatures = DOMAIN sigs
        /\ \A i \in DOMAIN sigs : Envelope(e).signatures[i] = sigs[i].sig
    OBVIOUS
  <2> HIDE DEF Keys, Envelope, sigs, accepted
  <2>3. QED BY <2>1, <2>2
<1>3. ASSUME NEW n \in DOMAIN sigs, NEW g \in accepted(n)
      PROVE  g.by \in KeysIn(sigs[n].publicKey) /\ g.over = e.payload
  <2>1. PICK k \in IntotoV002!X509NewPublicKey(sigs[n].publicKey) :
          g \in IntotoV002!DsseAccepted(k.blocks[1].key, Envelope(e))
    BY <1>3
  <2>2. g.by = k.blocks[1].key /\ g.over = e.payload
    BY <2>1 DEF IntotoV002!DsseAccepted
  <2>3. sigs[n].publicKey.fmt = "pem" /\ sigs[n].publicKey.blocks = k.blocks
    BY <2>1, X509Instances, X509Parsed
  <2>4. QED BY <2>2, <2>3, X509KeysIn
<1>4. /\ c.leaf.kind = "intoto" /\ c.leaf.apiVersion = "0.0.2"
      /\ c.leaf.spec.content.envelope.signatures = sigs
      /\ c.leaf.spec.content.payloadHash.value.of = e.payload
  BY <1>1 DEF IntotoV002!Canonicalize, IntotoV002!MarshalJSON, IntotoV002!Sha256, IntotoV002!Digest
<1> DEFINE keys == UNION {KeysIn(sigs[i].publicKey) : i \in DOMAIN sigs}
<1>5. \A i \in DOMAIN sigs : sigs[i].sig.by \in keys /\ sigs[i].sig.over = e.payload
  <2> HIDE DEF sigs, accepted
  <2> QED BY <1>2, <1>3
<1> HIDE DEF sigs
<1>6. QED BY <1>4, <1>5 DEF Vouched, SignsDigest

\* Keys and signatures as the formats of a rekord entry parse and write them.
LEMMA PgpForms ==
  \A d : /\ \A s \in Rekord!PgpNewSignature(d) : s.fmt = "pgp"
         /\ \A k \in Rekord!PgpNewPublicKey(d) : k.fmt = "pgp" /\ k.ring = d.ring
<1> TAKE d
<1>1. ASSUME NEW s \in Rekord!PgpNewSignature(d) PROVE s.fmt = "pgp"
  <2>1. s = [fmt |-> "pgp", isArmored |-> d.enc # "binary", signature |-> d]
    BY DEF Rekord!PgpNewSignature
  <2>2. QED BY <2>1
<1>2. ASSUME NEW k \in Rekord!PgpNewPublicKey(d) PROVE k.fmt = "pgp" /\ k.ring = d.ring
  <2>1. k = [fmt |-> "pgp", ring |-> d.ring]
    BY DEF Rekord!PgpNewPublicKey
  <2>2. QED BY <2>1
<1>3. QED BY <1>1, <1>2

LEMMA MinisignForms ==
  \A d : /\ \A s \in Rekord!MinisignNewSignature(d) : s.fmt = "minisign"
         /\ \A k \in Rekord!MinisignNewPublicKey(d) : k.fmt = "minisign"
         /\ \A c \in Rekord!MinisignSigCanonicalValue(d) : c.by = d.by /\ c.over = d.over
         /\ \A p \in Rekord!MinisignKeyCanonicalValue(d) : p.fmt = "minisign key" /\ p.key = d.key
<1> TAKE d
<1>1. ASSUME NEW s \in Rekord!MinisignNewSignature(d) PROVE s.fmt = "minisign"
  <2>1. s = [fmt |-> "minisign", by |-> d.by, over |-> d.over]
    BY DEF Rekord!MinisignNewSignature
  <2>2. QED BY <2>1
<1>2. ASSUME NEW k \in Rekord!MinisignNewPublicKey(d) PROVE k.fmt = "minisign"
  <2>1. k = [fmt |-> "minisign", key |-> d.key, keyId |-> IF d.enc = "raw" THEN "zero" ELSE d.keyId]
    BY DEF Rekord!MinisignNewPublicKey
  <2>2. QED BY <2>1
<1>3. ASSUME NEW c \in Rekord!MinisignSigCanonicalValue(d) PROVE c.by = d.by /\ c.over = d.over
  <2>1. c = [fmt |-> "minisign sig", enc |-> "canonical", by |-> d.by, over |-> d.over]
    BY DEF Rekord!MinisignSigCanonicalValue
  <2>2. QED BY <2>1
<1>4. ASSUME NEW p \in Rekord!MinisignKeyCanonicalValue(d) PROVE p.fmt = "minisign key" /\ p.key = d.key
  <2>1. p = [fmt |-> "minisign key", enc |-> "canonical", key |-> d.key, keyId |-> d.keyId]
    BY DEF Rekord!MinisignKeyCanonicalValue
  <2>2. QED BY <2>1
<1>5. QED BY <1>1, <1>2, <1>3, <1>4

LEMMA X509Forms ==
  \A d : /\ \A s \in Rekord!X509NewSignature(d) : s.fmt = "x509"
         /\ \A k \in Rekord!X509NewPublicKey(d) : k.fmt = "x509" /\ k.blocks = d.blocks
         /\ \A p \in Rekord!X509KeyCanonicalValue(d) : p.fmt = "pem" /\ p.blocks = d.blocks
<1> TAKE d
<1>1. ASSUME NEW s \in Rekord!X509NewSignature(d) PROVE s.fmt = "x509"
  <2>1. s = [fmt |-> "x509", signature |-> d]
    BY DEF Rekord!X509NewSignature
  <2>2. QED BY <2>1
<1>2. ASSUME NEW k \in Rekord!X509NewPublicKey(d) PROVE k.fmt = "x509" /\ k.blocks = d.blocks
  <2>1. k = [fmt |-> "x509", blocks |-> d.blocks]
    BY DEF Rekord!X509NewPublicKey
  <2>2. QED BY <2>1
<1>3. ASSUME NEW p \in Rekord!X509KeyCanonicalValue(d) PROVE p.fmt = "pem" /\ p.blocks = d.blocks
  <2>1. p = [fmt |-> "pem", enc |-> "canonical", blocks |-> d.blocks]
    BY DEF Rekord!X509KeyCanonicalValue
  <2>2. QED BY <2>1
<1>4. QED BY <1>1, <1>2, <1>3

LEMMA SshForms ==
  \A d : /\ \A s \in Rekord!SshDecode(d) : s.fmt = "ssh" /\ s.by = d.by /\ s.over = d.over
         /\ \A k \in Rekord!SshNewPublicKey(d) : k.fmt = "ssh"
         /\ \A p \in Rekord!SshKeyCanonicalValue(d) : p.fmt = "ssh key" /\ p.key = d.key
<1> TAKE d
<1>1. ASSUME NEW s \in Rekord!SshDecode(d) PROVE s.fmt = "ssh" /\ s.by = d.by /\ s.over = d.over
  <2>1. s = [fmt |-> "ssh", by |-> d.by, over |-> d.over, signedAlg |-> d.signedAlg,
             pk |-> d.pk, hashAlg |-> d.hashAlg]
    BY DEF Rekord!SshDecode
  <2>2. QED BY <2>1
<1>2. ASSUME NEW k \in Rekord!SshNewPublicKey(d) PROVE k.fmt = "ssh"
  <2>1. k = [fmt |-> "ssh", key |-> d.key, comment |-> d.comment]
    BY DEF Rekord!SshNewPublicKey
  <2>2. QED BY <2>1
<1>3. ASSUME NEW p \in Rekord!SshKeyCanonicalValue(d) PROVE p.fmt = "ssh key" /\ p.key = d.key
  <2>1. p = [fmt |-> "ssh key", enc |-> "canonical", key |-> d.key, comment |-> Rekord!NoEmail]
    BY DEF Rekord!SshKeyCanonicalValue
  <2>2. QED BY <2>1
<1>4. QED BY <1>1, <1>2, <1>3

\* In each of the formats of a rekord entry: what Verify accepts was signed, after
\* canonicalization, with a key of the canonical key document.
LEMMA RekordSigned ==
  ASSUME NEW f \in {"pgp", "minisign", "x509", "ssh"}, NEW g, NEW d, NEW t, NEW m,
         NEW s \in Rekord!NewSignature(f, g), NEW k \in Rekord!NewPublicKey(f, d, t),
         Rekord!Verify(s, m, k, t),
         NEW c \in Rekord!SigCanonicalValue(s), NEW p \in Rekord!KeyCanonicalValue(k)
  PROVE  c.by \in KeysIn(p) /\ c.over = m
<1>1. CASE f = "pgp"
  <2>1. s \in Rekord!PgpNewSignature(g) /\ k \in Rekord!PgpNewPublicKey(d)
    BY <1>1 DEF Rekord!NewSignature, Rekord!NewPublicKey
  <2>2. s.fmt = "pgp" /\ k.fmt = "pgp"
    BY <2>1, PgpForms
  <2>3. Rekord!PgpVerify(s, m, k) /\ c \in Rekord!PgpSigCanonicalValue(s) /\ p \in Rekord!PgpKeyCanonicalValue(k)
    BY <2>2 DEF Rekord!Verify, Rekord!SigCanonicalValue, Rekord!KeyCanonicalValue
  <2>4. c.by = s.signature.by /\ c.over = s.signature.over
    <3>1. c \in PgpSigCanonicalValue(s)
      BY <2>3 DEF Rekord!PgpSigCanonicalValue, PgpSigCanonicalValue
    <3>2. QED BY <3>1, PgpSigSame
  <2>5. PICK i \in DOMAIN k.ring : k.ring[i].key = s.signature.by
    BY <2>3 DEF Rekord!PgpVerify
  <2>6. k.ring[i].key \in KeysIn(p)
    <3>1. p \in PgpKeyCanonicalValue(k)
      BY <2>3 DEF Rekord!PgpKeyCanonicalValue, PgpKeyCanonicalValue, Rekord!PgpSerialize, PgpSerialize,
                  Rekord!AnyOrder, AnyOrder, Rekord!Elems, Elems
    <3>2. QED BY <3>1, PgpKeysIn
  <2>7. QED BY <2>3, <2>4, <2>5, <2>6 DEF Rekord!PgpVerify
<1>2. CASE f = "minisign"
  <2>1. s \in Rekord!MinisignNewSignature(g) /\ k \in Rekord!MinisignNewPublicKey(d)
    BY <1>2 DEF Rekord!NewSignature, Rekord!NewPublicKey
  <2>2. s.fmt = "minisign" /\ k.fmt = "minisign"
    BY <2>1, MinisignForms
  <2>3. /\ Rekord!MinisignVerify(s, m, k) /\ c \in Rekord!MinisignSigCanonicalValue(s)
        /\ p \in Rekord!MinisignKeyCanonicalValue(k)
    BY <2>2 DEF Rekord!Verify, Rekord!SigCanonicalValue, Rekord!KeyCanonicalValue
  <2>4. c.by = s.by /\ c.over = s.over
    BY <2>3, MinisignForms
  <2>5. p.fmt = "minisign key" /\ p.key = k.key
    BY <2>3, MinisignForms
  <2>6. QED BY <2>3, <2>4, <2>5 DEF KeysIn, Rekord!MinisignVerify
<1>3. CASE f = "x509"
  <2>1. s \in Rekord!X509NewSignature(g) /\ k \in Rekord!X509NewPublicKey(d)
    BY <1>3 DEF Rekord!NewSignature, Rekord!NewPublicKey
  <2>2. s.fmt = "x509" /\ k.fmt = "x509"
    BY <2>1, X509Forms
  <2>3. /\ Rekord!X509Verify(s, m, k) /\ c \in Rekord!X509SigCanonicalValue(s)
        /\ p \in Rekord!X509KeyCanonicalValue(k)
    BY <2>2 DEF Rekord!Verify, Rekord!SigCanonicalValue, Rekord!KeyCanonicalValue
  <2>4. c.by = k.blocks[1].key /\ c.over = m
    BY <2>3 DEF Rekord!X509SigCanonicalValue, Rekord!X509Verify, Rekord!X509VerifyDigest
  <2>5. p.fmt = "pem" /\ p.blocks = k.blocks
    BY <2>3, X509Forms
  <2>6. QED BY <2>4, <2>5, X509KeysIn
<1>4. CASE f = "ssh"
  <2>1. s \in Rekord!SshDecode(g) /\ k \in Rekord!SshNewPublicKey(d)
    BY <1>4 DEF Rekord!NewSignature, Rekord!NewPublicKey
  <2>2. s.fmt = "ssh" /\ k.fmt = "ssh"
    BY <2>1, SshForms
  <2>3. Rekord!SshVerify(s, m, k) /\ c = Rekord!SshArmor(s) /\ p \in Rekord!SshKeyCanonicalValue(k)
    BY <2>2 DEF Rekord!Verify, Rekord!SigCanonicalValue, Rekord!KeyCanonicalValue
  <2>4. PICK x \in Rekord!SshDecode(Rekord!SshArmor(s)) : x.by = k.key /\ x.over = m
    BY <2>3 DEF Rekord!SshVerify
  <2>5. c.by = k.key /\ c.over = m
    BY <2>3, <2>4, SshForms
  <2>6. p.fmt = "ssh key" /\ p.key = k.key
    BY <2>3, SshForms
  <2>7. QED BY <2>5, <2>6 DEF KeysIn
<1>5. QED BY <1>1, <1>2, <1>3, <1>4

LEMMA RekordVouched ==
  ASSUME NEW pe, NEW v \in Rekord!UnmarshalEntry(pe), NEW t, NEW c \in Rekord!Canonicalize(v, t)
  PROVE  Vouched(c.leaf)
<1> DEFINE f == v.signature.format
           d == v.data.content
           Form(e, s, p) == [signature |-> [format |-> f, content |-> s, publicKey |-> [content |-> p]],
                             data |-> [hash |-> e.entry.data.hash, content |-> Nil]]
<1>1. f \in {"pgp", "minisign", "x509", "ssh"}
  BY DEF Rekord!UnmarshalEntry, Rekord!Unmarshal, Rekord!ValidSchema, Rekord!Required, Rekord!ValidSignature
<1>2. \E e \in Rekord!Verified(v, t) :
        \E s \in Rekord!SigCanonicalValue(e.sig), p \in Rekord!KeyCanonicalValue(e.key) :
          c = [leaf |-> Rekord!MarshalJSON("0.0.1", Form(e, s, p)), entry |-> Form(e, s, p)]
  <2> DEFINE Forms(e) == {Form(e, s, p) : s \in Rekord!SigCanonicalValue(e.sig),
                                          p \in Rekord!KeyCanonicalValue(e.key)}
  <2>1. c \in {[leaf |-> Rekord!MarshalJSON("0.0.1", x), entry |-> x] :
                 x \in UNION {Forms(e) : e \in Rekord!Verified(v, t)}}
    BY DEF Rekord!Canonicalize
  <2> HIDE DEF Form, Forms
  <2>2. PICK e \in Rekord!Verified(v, t) : \E x \in Forms(e) :
          c = [leaf |-> Rekord!MarshalJSON("0.0.1", x), entry |-> x]
    BY <2>1
  <2>3. QED BY <2>2 DEF Forms
<1>3. PICK e, s, p :
        /\ e \in Rekord!Verified(v, t)
        /\ s \in Rekord!SigCanonicalValue(e.sig) /\ p \in Rekord!KeyCanonicalValue(e.key)
        /\ c = [leaf |-> Rekord!MarshalJSON("0.0.1", Form(e, s, p)), entry |-> Form(e, s, p)]
  BY <1>2
<1>4. c.leaf = [kind |-> "rekord", apiVersion |-> "0.0.1", spec |-> Form(e, s, p)]
  BY <1>3 DEF Rekord!MarshalJSON
<1>5. e \in Rekord!fetchExternalEntities(v, t) /\ Rekord!Verify(e.sig, d, e.key, t)
  BY <1>3 DEF Rekord!Verified
<1>6. /\ e.sig \in Rekord!NewSignature(f, v.signature.content)
      /\ e.key \in Rekord!NewPublicKey(f, v.signature.publicKey.content, t)
      /\ e.entry.data.hash = Rekord!FilledIn(v.data.hash, d)
      /\ v.data.hash = Nil \/ v.data.hash.value = Rekord!Digest("sha256", d)
  BY <1>5 DEF Rekord!fetchExternalEntities
<1>7. e.entry.data.hash.value.of = d
  BY <1>6 DEF Rekord!FilledIn, Rekord!Sha256, Rekord!Digest
<1>8. s.by \in KeysIn(p) /\ s.over = d
  BY <1>1, <1>3, <1>5, <1>6, RekordSigned
<1>9. /\ c.leaf.kind = "rekord" /\ c.leaf.spec.signature.content = s
      /\ c.leaf.spec.signature.publicKey.content = p /\ c.leaf.spec.data.hash.value.of = d
  BY <1>4, <1>7
<1>10. QED BY <1>8, <1>9 DEF Vouched, SignsDigest

\* What a request is unmarshalled to, by kind.
LEMMA UnmarshalByKind ==
  ASSUME NEW pe, NEW e \in UnmarshalEntry(pe)
  PROVE  /\ e.kind = pe.kind /\ pe.kind \in Kinds
         /\ pe.kind # "intoto" => e.version = "0.0.1"
         /\ pe.kind = "alpine" => e.impl \in Alpine!UnmarshalEntry(pe)
         /\ pe.kind = "cose" => e.impl \in Cose!UnmarshalEntry(pe)
         /\ pe.kind = "dsse" => e.impl \in Dsse!UnmarshalEntry(pe)
         /\ pe.kind = "hashedrekord" => e.impl \in HashedRekord!UnmarshalEntry(pe)
         /\ pe.kind = "helm" => e.impl \in Helm!UnmarshalEntry(pe)
         /\ pe.kind = "jar" => e.impl \in Jar!UnmarshalEntry(pe)
         /\ pe.kind = "rekord" => e.impl \in Rekord!UnmarshalEntry(pe)
         /\ pe.kind = "rfc3161" => e.impl \in Rfc3161!UnmarshalEntry(pe)
         /\ pe.kind = "rpm" => e.impl \in Rpm!UnmarshalEntry(pe)
         /\ pe.kind = "tuf" => e.impl \in Tuf!UnmarshalEntry(pe)
         /\ pe.kind = "intoto" => \/ e.version = "0.0.1" /\ e.impl \in IntotoV001!Unmarshal(pe)
                                  \/ e.version = "0.0.2" /\ e.impl \in IntotoV002!Unmarshal(pe)
<1> DEFINE Made(S, v) == {[kind |-> pe.kind, version |-> v, impl |-> x] : x \in S}
<1>1. ASSUME NEW S, NEW v, e \in Made(S, v) PROVE e.kind = pe.kind /\ e.version = v /\ e.impl \in S
  BY <1>1
<1>2. CASE pe.kind = "alpine"
  <2>1. e \in Made(Alpine!UnmarshalEntry(pe), "0.0.1")
    BY <1>2 DEF UnmarshalEntry
  <2> HIDE DEF Made
  <2>2. QED BY <2>1, <1>1, <1>2 DEF Kinds
<1>3. CASE pe.kind = "cose"
  <2>1. e \in Made(Cose!UnmarshalEntry(pe), "0.0.1")
    BY <1>3 DEF UnmarshalEntry
  <2> HIDE DEF Made
  <2>2. QED BY <2>1, <1>1, <1>3 DEF Kinds
<1>4. CASE pe.kind = "dsse"
  <2>1. e \in Made(Dsse!UnmarshalEntry(pe), "0.0.1")
    BY <1>4 DEF UnmarshalEntry
  <2> HIDE DEF Made
  <2>2. QED BY <2>1, <1>1, <1>4 DEF Kinds
<1>5. CASE pe.kind = "hashedrekord"
  <2>1. e \in Made(HashedRekord!UnmarshalEntry(pe), "0.0.1")
    BY <1>5 DEF UnmarshalEntry
  <2> HIDE DEF Made
  <2>2. QED BY <2>1, <1>1, <1>5 DEF Kinds
<1>6. CASE pe.kind = "helm"
  <2>1. e \in Made(Helm!UnmarshalEntry(pe), "0.0.1")
    BY <1>6 DEF UnmarshalEntry
  <2> HIDE DEF Made
  <2>2. QED BY <2>1, <1>1, <1>6 DEF Kinds
<1>7. CASE pe.kind = "jar"
  <2>1. e \in Made(Jar!UnmarshalEntry(pe), "0.0.1")
    BY <1>7 DEF UnmarshalEntry
  <2> HIDE DEF Made
  <2>2. QED BY <2>1, <1>1, <1>7 DEF Kinds
<1>8. CASE pe.kind = "rekord"
  <2>1. e \in Made(Rekord!UnmarshalEntry(pe), "0.0.1")
    BY <1>8 DEF UnmarshalEntry
  <2> HIDE DEF Made
  <2>2. QED BY <2>1, <1>1, <1>8 DEF Kinds
<1>9. CASE pe.kind = "rfc3161"
  <2>1. e \in Made(Rfc3161!UnmarshalEntry(pe), "0.0.1")
    BY <1>9 DEF UnmarshalEntry
  <2> HIDE DEF Made
  <2>2. QED BY <2>1, <1>1, <1>9 DEF Kinds
<1>10. CASE pe.kind = "rpm"
  <2>1. e \in Made(Rpm!UnmarshalEntry(pe), "0.0.1")
    BY <1>10 DEF UnmarshalEntry
  <2> HIDE DEF Made
  <2>2. QED BY <2>1, <1>1, <1>10 DEF Kinds
<1>11. CASE pe.kind = "tuf"
  <2>1. e \in Made(Tuf!UnmarshalEntry(pe), "0.0.1")
    BY <1>11 DEF UnmarshalEntry
  <2> HIDE DEF Made
  <2>2. QED BY <2>1, <1>1, <1>11 DEF Kinds
<1>12. CASE pe.kind = "intoto"
  <2>1. e \in IntotoUnmarshalEntry(pe)
    BY <1>12 DEF UnmarshalEntry
  <2>2. e \in Made(IntotoV002!Unmarshal(pe), "0.0.2") \/ e \in Made(IntotoV001!Unmarshal(pe), "0.0.1")
    BY <1>12, <2>1 DEF IntotoUnmarshalEntry
  <2> HIDE DEF Made
  <2>3. QED BY <2>2, <1>1, <1>12 DEF Kinds
<1>13. pe.kind \in Kinds
  BY DEF UnmarshalEntry, Kinds
<1>14. QED BY <1>13, <1>2, <1>3, <1>4, <1>5, <1>6, <1>7, <1>8, <1>9, <1>10, <1>11, <1>12 DEF Kinds

\* c is a result of Canonicalize for e.
CanonicalOf(c, e, t) ==
  /\ e.kind = "alpine" => c \in Alpine!Canonicalize(e.impl, t)
  /\ e.kind = "cose" => c \in Cose!Canonicalize(e.impl, t)
  /\ e.kind = "dsse" => c \in Dsse!Canonicalize(e.impl, t)
  /\ e.kind = "hashedrekord" => c \in HashedRekord!Canonicalize(e.impl, t)
  /\ e.kind = "helm" => c \in Helm!Canonicalize(e.impl, t)
  /\ e.kind = "jar" => c \in Jar!Canonicalize(e.impl, t)
  /\ e.kind = "rekord" => c \in Rekord!Canonicalize(e.impl, t)
  /\ e.kind = "rfc3161" => c \in Rfc3161!Canonicalize(e.impl, t)
  /\ e.kind = "rpm" => c \in Rpm!Canonicalize(e.impl, t)
  /\ e.kind = "tuf" => c \in Tuf!Canonicalize(e.impl, t)
  /\ e.kind = "intoto" /\ e.version = "0.0.1" => c \in IntotoV001!Canonicalize(e.impl, t)
  /\ e.kind = "intoto" /\ e.version = "0.0.2" => c \in IntotoV002!Canonicalize(e.impl, t)

\* What an entry is canonicalized to, by kind.
LEMMA CanonicalByKind ==
  ASSUME NEW e, NEW t, NEW f \in CanonicalizeEntry(e, t), e.kind \in Kinds,
         e.kind = "intoto" => e.version \in {"0.0.1", "0.0.2"}
  PROVE  /\ f.entry.kind = e.kind /\ f.entry.version = e.version
         /\ \E c : CanonicalOf(c, e, t) /\ f.leaf = c.leaf /\ f.entry.impl = c.entry
<1> DEFINE Forms(S) == {[leaf |-> c.leaf, entry |-> [kind |-> e.kind, version |-> e.version, impl |-> c.entry]] : c \in S}
           Of(S) == /\ f.entry.kind = e.kind /\ f.entry.version = e.version
                    /\ \E c \in S : f.leaf = c.leaf /\ f.entry.impl = c.entry
<1>1. ASSUME NEW S, f \in Forms(S) PROVE Of(S)
  <2>1. PICK c \in S : f = [leaf |-> c.leaf, entry |-> [kind |-> e.kind, version |-> e.version, impl |-> c.entry]]
    BY <1>1
  <2>2. QED BY <2>1
<1>2. CASE e.kind = "alpine"
  <2>1. f \in Forms(Alpine!Canonicalize(e.impl, t))
    BY <1>2 DEF CanonicalizeEntry
  <2> HIDE DEF Forms
  <2>2. QED BY <2>1, <1>1, <1>2 DEF CanonicalOf
<1>3. CASE e.kind = "cose"
  <2>1. f \in Forms(Cose!Canonicalize(e.impl, t))
    BY <1>3 DEF CanonicalizeEntry
  <2> HIDE DEF Forms
  <2>2. QED BY <2>1, <1>1, <1>3 DEF CanonicalOf
<1>4. CASE e.kind = "dsse"
  <2>1. f \in Forms(Dsse!Canonicalize(e.impl, t))
    BY <1>4 DEF CanonicalizeEntry
  <2> HIDE DEF Forms
  <2>2. QED BY <2>1, <1>1, <1>4 DEF CanonicalOf
<1>5. CASE e.kind = "hashedrekord"
  <2>1. f \in Forms(HashedRekord!Canonicalize(e.impl, t))
    BY <1>5 DEF CanonicalizeEntry
  <2> HIDE DEF Forms
  <2>2. QED BY <2>1, <1>1, <1>5 DEF CanonicalOf
<1>6. CASE e.kind = "helm"
  <2>1. f \in Forms(Helm!Canonicalize(e.impl, t))
    BY <1>6 DEF CanonicalizeEntry
  <2> HIDE DEF Forms
  <2>2. QED BY <2>1, <1>1, <1>6 DEF CanonicalOf
<1>7. CASE e.kind = "jar"
  <2>1. f \in Forms(Jar!Canonicalize(e.impl, t))
    BY <1>7 DEF CanonicalizeEntry
  <2> HIDE DEF Forms
  <2>2. QED BY <2>1, <1>1, <1>7 DEF CanonicalOf
<1>8. CASE e.kind = "rekord"
  <2>1. f \in Forms(Rekord!Canonicalize(e.impl, t))
    BY <1>8 DEF CanonicalizeEntry
  <2> HIDE DEF Forms
  <2>2. QED BY <2>1, <1>1, <1>8 DEF CanonicalOf
<1>9. CASE e.kind = "rfc3161"
  <2>1. f \in Forms(Rfc3161!Canonicalize(e.impl, t))
    BY <1>9 DEF CanonicalizeEntry
  <2> HIDE DEF Forms
  <2>2. QED BY <2>1, <1>1, <1>9 DEF CanonicalOf
<1>10. CASE e.kind = "rpm"
  <2>1. f \in Forms(Rpm!Canonicalize(e.impl, t))
    BY <1>10 DEF CanonicalizeEntry
  <2> HIDE DEF Forms
  <2>2. QED BY <2>1, <1>1, <1>10 DEF CanonicalOf
<1>11. CASE e.kind = "tuf"
  <2>1. f \in Forms(Tuf!Canonicalize(e.impl, t))
    BY <1>11 DEF CanonicalizeEntry
  <2> HIDE DEF Forms
  <2>2. QED BY <2>1, <1>1, <1>11 DEF CanonicalOf
<1>12. CASE e.kind = "intoto" /\ e.version = "0.0.1"
  <2>1. f \in Forms(IntotoV001!Canonicalize(e.impl, t))
    BY <1>12 DEF CanonicalizeEntry
  <2> HIDE DEF Forms
  <2>2. QED BY <2>1, <1>1, <1>12 DEF CanonicalOf
<1>13. CASE e.kind = "intoto" /\ e.version = "0.0.2"
  <2>1. f \in Forms(IntotoV002!Canonicalize(e.impl, t))
    BY <1>13 DEF CanonicalizeEntry
  <2> HIDE DEF Forms
  <2>2. QED BY <2>1, <1>1, <1>13 DEF CanonicalOf
<1>14. QED BY <1>2, <1>3, <1>4, <1>5, <1>6, <1>7, <1>8, <1>9, <1>10, <1>11, <1>12, <1>13 DEF Kinds

LEMMA CanonicalVouched ==
  ASSUME NEW pe, NEW e \in CreateVersionedEntry(pe, AcceptedKinds), NEW t, NEW f \in CanonicalizeEntry(e, t)
  PROVE  Vouched(f.leaf)
<1>1. e \in UnmarshalEntry(pe) /\ Insertable(e)
  BY DEF CreateVersionedEntry
<1>2. e.kind = pe.kind /\ pe.kind \in Kinds
  BY <1>1, UnmarshalByKind
<1>3. e.kind = "intoto" => e.version \in {"0.0.1", "0.0.2"}
  BY <1>1, UnmarshalByKind
<1>4. PICK c : CanonicalOf(c, e, t) /\ f.leaf = c.leaf /\ f.entry.impl = c.entry
  BY <1>2, <1>3, CanonicalByKind
<1>5. CASE e.kind = "alpine"
  <2>1. c \in Alpine!Canonicalize(e.impl, t)
    BY <1>4, <1>5 DEF CanonicalOf
  <2>2. QED BY <1>4, <2>1, AlpineVouched
<1>6. CASE e.kind = "cose"
  <2>1. c \in Cose!Canonicalize(e.impl, t)
    BY <1>4, <1>6 DEF CanonicalOf
  <2>2. e.impl \in Cose!UnmarshalEntry(pe)
    BY <1>1, <1>2, <1>6, UnmarshalByKind
  <2>3. Cose!Insertable(e.impl)
    BY <1>1, <1>6 DEF Insertable
  <2>4. QED BY <1>4, <2>1, <2>2, <2>3, CoseVouched
<1>7. CASE e.kind = "dsse"
  <2>1. c \in Dsse!Canonicalize(e.impl, t)
    BY <1>4, <1>7 DEF CanonicalOf
  <2>2. e.impl \in Dsse!UnmarshalEntry(pe)
    BY <1>1, <1>2, <1>7, UnmarshalByKind
  <2>3. Dsse!Insertable(e.impl)
    BY <1>1, <1>7 DEF Insertable
  <2>4. QED BY <1>4, <2>1, <2>2, <2>3, DsseVouched
<1>8. CASE e.kind = "hashedrekord"
  <2>1. c \in HashedRekord!Canonicalize(e.impl, t)
    BY <1>4, <1>8 DEF CanonicalOf
  <2>2. QED BY <1>4, <2>1, HashedRekordVouched
<1>9. CASE e.kind = "helm"
  <2>1. c \in Helm!Canonicalize(e.impl, t)
    BY <1>4, <1>9 DEF CanonicalOf
  <2>2. QED BY <1>4, <2>1, HelmVouched
<1>10. CASE e.kind = "jar"
  <2>1. c \in Jar!Canonicalize(e.impl, t)
    BY <1>4, <1>10 DEF CanonicalOf
  <2>2. QED BY <1>4, <2>1, JarVouched
<1>11. CASE e.kind = "rekord"
  <2>1. c \in Rekord!Canonicalize(e.impl, t)
    BY <1>4, <1>11 DEF CanonicalOf
  <2>2. e.impl \in Rekord!UnmarshalEntry(pe)
    BY <1>1, <1>2, <1>11, UnmarshalByKind
  <2>3. QED BY <1>4, <2>1, <2>2, RekordVouched
<1>12. CASE e.kind = "rfc3161"
  <2>1. c \in Rfc3161!Canonicalize(e.impl, t)
    BY <1>4, <1>12 DEF CanonicalOf
  <2>2. e.impl \in Rfc3161!UnmarshalEntry(pe)
    BY <1>1, <1>2, <1>12, UnmarshalByKind
  <2>3. QED BY <1>4, <2>1, <2>2, Rfc3161Vouched
<1>13. CASE e.kind = "rpm"
  <2>1. c \in Rpm!Canonicalize(e.impl, t)
    BY <1>4, <1>13 DEF CanonicalOf
  <2>2. QED BY <1>4, <2>1, RpmVouched
<1>14. CASE e.kind = "tuf"
  <2>1. c \in Tuf!Canonicalize(e.impl, t)
    BY <1>4, <1>14 DEF CanonicalOf
  <2>2. QED BY <1>4, <2>1, TufVouched
<1>15. CASE e.kind = "intoto" /\ e.version = "0.0.1"
  <2>1. c \in IntotoV001!Canonicalize(e.impl, t)
    BY <1>4, <1>15 DEF CanonicalOf
  <2>2. e.impl \in IntotoV001!Unmarshal(pe)
    BY <1>1, <1>2, <1>15, UnmarshalByKind
  <2>3. IntotoV001!Insertable(e.impl)
    BY <1>1, <1>15 DEF Insertable
  <2>4. QED BY <1>4, <2>1, <2>2, <2>3, IntotoV001Vouched
<1>16. CASE e.kind = "intoto" /\ e.version = "0.0.2"
  <2>1. c \in IntotoV002!Canonicalize(e.impl, t)
    BY <1>4, <1>16 DEF CanonicalOf
  <2>2. e.impl \in IntotoV002!Unmarshal(pe)
    BY <1>1, <1>2, <1>16, UnmarshalByKind
  <2>3. IntotoV002!Insertable(e.impl)
    BY <1>1, <1>16 DEF Insertable
  <2>4. QED BY <1>4, <2>1, <2>2, <2>3, IntotoV002Vouched
<1>17. QED BY <1>2, <1>3, <1>5, <1>6, <1>7, <1>8, <1>9, <1>10, <1>11, <1>12, <1>13, <1>14, <1>15, <1>16 DEF Kinds

\* Only createLogEntry adds a leaf, and it adds the canonical form of an entry that
\* was unmarshalled and is insertable; leaves are never removed.
THEOREM LogIsVouched == Spec => []LoggedIsVouched
<1>1. Init => LoggedIsVouched
  BY DEF Init, LoggedIsVouched
<1>2. LoggedIsVouched /\ [Next]_vars => LoggedIsVouched'
  <2> SUFFICES ASSUME LoggedIsVouched, [Next]_vars, NEW l \in log' PROVE Vouched(l)
    BY DEF LoggedIsVouched
  <2>1. CASE log' = log
    BY <2>1 DEF LoggedIsVouched
  <2>2. ASSUME NEW c \in Clients, createLogEntry(c) PROVE Vouched(l)
    <3>1. PICK e \in Admitted(command[c].proposals[1]) :
            \E f \in CanonicalizeEntry(e, now) : log' = log \cup {f.leaf}
      BY <2>2 DEF createLogEntry
    <3>2. PICK f \in CanonicalizeEntry(e, now) : log' = log \cup {f.leaf}
      BY <3>1
    <3>3. PICK pe : e \in CreateVersionedEntry(pe, AcceptedKinds)
      BY <3>1 DEF Admitted
    <3>4. Vouched(f.leaf)
      BY <3>2, <3>3, CanonicalVouched
    <3>5. QED BY <3>2, <3>4 DEF LoggedIsVouched
  <2>3. QED
    BY <2>1, <2>2 DEF Next, StartUpload, TryNext, Refused, AlreadyExists, addToIndex, StoreAttestation,
                      populate, Tick, vars
<1>3. QED BY <1>1, <1>2, PTL DEF Spec
---------------------------------------------------------------------------
(* Attestations.                                                           *)

\* A leaf is read as a proposed entry of its kind, version and spec.
LEMMA LeafRead ==
  ASSUME NEW leaf, leaf.kind \in Kinds, NEW e \in ReadLeaf(leaf)
  PROVE  \E pe : /\ pe.kind = leaf.kind /\ pe.apiVersion = leaf.apiVersion /\ pe.spec = leaf.spec
                 /\ e \in UnmarshalEntry(pe)
<1>1. PICK pe \in unmarshalProposedEntry(leaf) : e \in UnmarshalEntry(pe)
  BY DEF ReadLeaf
<1> DEFINE Same(k) == [kind |-> k, apiVersion |-> leaf.apiVersion, spec |-> leaf.spec]
<1>2. CASE leaf.kind = "alpine"
  <2>1. pe \in Alpine!UnmarshalJSON(leaf)
    BY <1>1, <1>2 DEF unmarshalProposedEntry
  <2>2. pe = Same("alpine")
    BY <2>1 DEF Alpine!UnmarshalJSON
  <2>3. pe.kind = leaf.kind /\ pe.apiVersion = leaf.apiVersion /\ pe.spec = leaf.spec
    BY <2>2, <1>2
  <2>4. QED BY <1>1, <2>3
<1>3. CASE leaf.kind = "cose"
  <2>1. pe \in Cose!UnmarshalJSON(leaf)
    BY <1>1, <1>3 DEF unmarshalProposedEntry
  <2>2. pe = Same("cose")
    BY <2>1 DEF Cose!UnmarshalJSON
  <2>3. pe.kind = leaf.kind /\ pe.apiVersion = leaf.apiVersion /\ pe.spec = leaf.spec
    BY <2>2, <1>3
  <2>4. QED BY <1>1, <2>3
<1>4. CASE leaf.kind = "dsse"
  <2>1. pe \in Dsse!UnmarshalJSON(leaf)
    BY <1>1, <1>4 DEF unmarshalProposedEntry
  <2>2. pe = Same("dsse")
    BY <2>1 DEF Dsse!UnmarshalJSON
  <2>3. pe.kind = leaf.kind /\ pe.apiVersion = leaf.apiVersion /\ pe.spec = leaf.spec
    BY <2>2, <1>4
  <2>4. QED BY <1>1, <2>3
<1>5. CASE leaf.kind = "hashedrekord"
  <2>1. pe \in HashedRekord!UnmarshalJSON(leaf)
    BY <1>1, <1>5 DEF unmarshalProposedEntry
  <2>2. pe = Same("hashedrekord")
    BY <2>1 DEF HashedRekord!UnmarshalJSON
  <2>3. pe.kind = leaf.kind /\ pe.apiVersion = leaf.apiVersion /\ pe.spec = leaf.spec
    BY <2>2, <1>5
  <2>4. QED BY <1>1, <2>3
<1>6. CASE leaf.kind = "helm"
  <2>1. pe \in Helm!UnmarshalJSON(leaf)
    BY <1>1, <1>6 DEF unmarshalProposedEntry
  <2>2. pe = Same("helm")
    BY <2>1 DEF Helm!UnmarshalJSON
  <2>3. pe.kind = leaf.kind /\ pe.apiVersion = leaf.apiVersion /\ pe.spec = leaf.spec
    BY <2>2, <1>6
  <2>4. QED BY <1>1, <2>3
<1>7. CASE leaf.kind = "intoto"
  <2>1. pe \in IntotoV002!UnmarshalJSON(leaf)
    BY <1>1, <1>7 DEF unmarshalProposedEntry
  <2>2. pe = Same("intoto")
    BY <2>1 DEF IntotoV002!UnmarshalJSON
  <2>3. pe.kind = leaf.kind /\ pe.apiVersion = leaf.apiVersion /\ pe.spec = leaf.spec
    BY <2>2, <1>7
  <2>4. QED BY <1>1, <2>3
<1>8. CASE leaf.kind = "jar"
  <2>1. pe \in Jar!UnmarshalJSON(leaf)
    BY <1>1, <1>8 DEF unmarshalProposedEntry
  <2>2. pe = Same("jar")
    BY <2>1 DEF Jar!UnmarshalJSON
  <2>3. pe.kind = leaf.kind /\ pe.apiVersion = leaf.apiVersion /\ pe.spec = leaf.spec
    BY <2>2, <1>8
  <2>4. QED BY <1>1, <2>3
<1>9. CASE leaf.kind = "rekord"
  <2>1. pe \in Rekord!UnmarshalJSON(leaf)
    BY <1>1, <1>9 DEF unmarshalProposedEntry
  <2>2. pe = Same("rekord")
    BY <2>1 DEF Rekord!UnmarshalJSON
  <2>3. pe.kind = leaf.kind /\ pe.apiVersion = leaf.apiVersion /\ pe.spec = leaf.spec
    BY <2>2, <1>9
  <2>4. QED BY <1>1, <2>3
<1>10. CASE leaf.kind = "rfc3161"
  <2>1. pe \in Rfc3161!UnmarshalJSON(leaf)
    BY <1>1, <1>10 DEF unmarshalProposedEntry
  <2>2. pe = Same("rfc3161")
    BY <2>1 DEF Rfc3161!UnmarshalJSON
  <2>3. pe.kind = leaf.kind /\ pe.apiVersion = leaf.apiVersion /\ pe.spec = leaf.spec
    BY <2>2, <1>10
  <2>4. QED BY <1>1, <2>3
<1>11. CASE leaf.kind = "rpm"
  <2>1. pe \in Rpm!UnmarshalJSON(leaf)
    BY <1>1, <1>11 DEF unmarshalProposedEntry
  <2>2. pe = Same("rpm")
    BY <2>1 DEF Rpm!UnmarshalJSON
  <2>3. pe.kind = leaf.kind /\ pe.apiVersion = leaf.apiVersion /\ pe.spec = leaf.spec
    BY <2>2, <1>11
  <2>4. QED BY <1>1, <2>3
<1>12. CASE leaf.kind = "tuf"
  <2>1. pe \in Tuf!UnmarshalJSON(leaf)
    BY <1>1, <1>12 DEF unmarshalProposedEntry
  <2>2. pe = Same("tuf")
    BY <2>1 DEF Tuf!UnmarshalJSON
  <2>3. pe.kind = leaf.kind /\ pe.apiVersion = leaf.apiVersion /\ pe.spec = leaf.spec
    BY <2>2, <1>12
  <2>4. QED BY <1>1, <2>3
<1>13. QED BY <1>2, <1>3, <1>4, <1>5, <1>6, <1>7, <1>8, <1>9, <1>10, <1>11, <1>12 DEF Kinds

\* The digest in a leaf under which its attestation is stored.
NamedDigest(leaf) ==
  IF leaf.kind = "cose" THEN leaf.spec.data.envelopeHash.value ELSE leaf.spec.content.payloadHash.value

\* Leaf and entry agree on the key of the attestation: it is the digest that the leaf
\* has, whoever reads the leaf computes it, and it is the digest of what is stored.
AttestationLinked(leaf, entry) ==
  HasAttestation(entry) =>
    /\ AttestationKey(entry) \subseteq {NamedDigest(leaf)}
    /\ \A kv \in AttestationKeyValue(entry) :
         kv.key \in AttestationKey(entry) /\ kv.key = Digest("sha256", kv.value)
    /\ \A e \in ReadLeaf(leaf) : HasAttestation(e) /\ AttestationKey(e) = AttestationKey(entry)

\* The log and the bucket fit together, and so does what is on its way to the bucket.
AttestationInv ==
  /\ \A x \in created : AttestationLinked(x.leaf, x.entry)
  /\ \A a \in attestations : a.key = Digest("sha256", a.value)
  /\ \A j \in jobs : j.op = "attest" => j.kv.key = Digest("sha256", j.kv.value)

\* The digest of a submitted message is computed; a leaf has no message, and the digest
\* that it has is used as it is, in lower case already.
LEMMA CoseAttestation ==
  ASSUME NEW pe, NEW v \in Cose!UnmarshalEntry(pe), Cose!Insertable(v), NEW t, NEW c \in Cose!Canonicalize(v, t)
  PROVE  /\ c.leaf.kind = "cose" /\ c.leaf.apiVersion = "0.0.1" /\ c.entry = v
         /\ c.leaf.spec.message = Nil /\ c.leaf.spec.data.envelopeHash.value = v.envelopeHash
         /\ v.obj.message # Nil /\ v.envelopeHash = Digest("sha256", v.obj.message)
<1> DEFINE m == v.sign1Msg
           Logged(p) == [message |-> Nil, publicKey |-> p,
                         data |-> [aad |-> Nil,
                           payloadHash |-> [algorithm |-> "sha256", value |-> Cose!Digest("sha256", m.payload)],
                           envelopeHash |-> [algorithm |-> "sha256", value |-> v.envelopeHash]]]
<1>1. PICK p \in Cose!X509KeyCanonicalValue(v.keyObj) :
        c = [leaf |-> Cose!MarshalJSON("0.0.1", Logged(p)), entry |-> v]
  BY DEF Cose!Canonicalize
<1>2. c.leaf = [kind |-> "cose", apiVersion |-> "0.0.1", spec |-> Logged(p)] /\ c.entry = v
  BY <1>1 DEF Cose!MarshalJSON
<1>3. PICK o, k, h :
        /\ h \in Cose!envelopeHash(o)
        /\ v = [obj |-> o, keyObj |-> k, sign1Msg |-> o.message, envelopeHash |-> h]
  BY DEF Cose!UnmarshalEntry, Cose!Unmarshal
<1>4. v.obj = o /\ v.envelopeHash = h
  BY <1>3
<1>5. o.message # Nil
  BY <1>4 DEF Cose!Insertable
<1>6. h = Digest("sha256", o.message)
  BY <1>3, <1>5 DEF Cose!envelopeHash, Cose!Digest, Digest
<1>7. /\ c.leaf.kind = "cose" /\ c.leaf.apiVersion = "0.0.1"
      /\ c.leaf.spec.message = Nil /\ c.leaf.spec.data.envelopeHash.value = v.envelopeHash
  BY <1>2
<1>8. QED BY <1>2, <1>4, <1>5, <1>6, <1>7

LEMMA CoseReadBack ==
  ASSUME NEW pe, NEW v \in Cose!UnmarshalEntry(pe), pe.spec.message = Nil, NEW d,
         pe.spec.data.envelopeHash.value = Digest("sha256", d)
  PROVE  v.envelopeHash = Digest("sha256", d)
<1>1. PICK o, k, h :
        /\ o \in Cose!DecodeEntry(pe.spec) /\ h \in Cose!envelopeHash(o)
        /\ v = [obj |-> o, keyObj |-> k, sign1Msg |-> o.message, envelopeHash |-> h]
  BY DEF Cose!UnmarshalEntry, Cose!Unmarshal
<1> DEFINE Data(x) == {[payloadHash |-> x.payloadHash, envelopeHash |-> x.envelopeHash, aad |-> a] :
                         a \in Cose!DecodeBytes(x.aad)}
<1>2. PICK m, k2, b :
        /\ m \in Cose!DecodeBytes(pe.spec.message) /\ b \in (IF pe.spec.data = Nil THEN {Nil} ELSE Data(pe.spec.data))
        /\ o = [message |-> m, publicKey |-> k2, data |-> b]
  BY <1>1 DEF Cose!DecodeEntry, Cose!Member
<1>3. o.message = Nil /\ o.data = b
  BY <1>2 DEF Cose!DecodeBytes
<1>4. o.data # Nil /\ h = Cose!ToLower(o.data.envelopeHash.value)
  BY <1>1, <1>3 DEF Cose!envelopeHash
<1>5. b \in Data(pe.spec.data)
  BY <1>2, <1>3, <1>4
<1>6. b.envelopeHash = pe.spec.data.envelopeHash
  BY <1>5
<1>7. Cose!ToLower(Digest("sha256", d)) = Digest("sha256", d)
  BY DEF Cose!ToLower, Digest
<1>8. v.envelopeHash = h
  BY <1>1
<1>9. QED BY <1>3, <1>4, <1>6, <1>7, <1>8

LEMMA CoseLinked ==
  ASSUME NEW pe, NEW v \in Cose!UnmarshalEntry(pe), Cose!Insertable(v), NEW t, NEW c \in Cose!Canonicalize(v, t),
         NEW leaf, NEW entry, leaf = c.leaf, entry.kind = "cose", entry.impl = c.entry
  PROVE  AttestationLinked(leaf, entry)
<1>1. /\ leaf.kind = "cose" /\ entry.impl = v
      /\ leaf.spec.message = Nil /\ leaf.spec.data.envelopeHash.value = v.envelopeHash
      /\ v.envelopeHash = Digest("sha256", v.obj.message)
  BY CoseAttestation
<1>2. AttestationKey(entry) = {v.envelopeHash}
  BY <1>1 DEF AttestationKey, Cose!AttestationKey
<1>3. ASSUME NEW kv \in AttestationKeyValue(entry)
      PROVE  kv.key \in AttestationKey(entry) /\ kv.key = Digest("sha256", kv.value)
  <2>1. kv \in Cose!AttestationKeyValue(v)
    BY <1>1 DEF AttestationKeyValue
  <2>2. PICK x \in Cose!AttestationKey(v) : kv = [key |-> x, value |-> v.obj.message]
    BY <2>1 DEF Cose!AttestationKeyValue
  <2>3. x = v.envelopeHash
    BY <2>2 DEF Cose!AttestationKey
  <2>4. kv.key = x /\ kv.value = v.obj.message
    BY <2>2
  <2>5. QED BY <1>1, <1>2, <2>3, <2>4
<1>4. ASSUME NEW e \in ReadLeaf(leaf) PROVE HasAttestation(e) /\ AttestationKey(e) = {v.envelopeHash}
  <2>1. PICK q : /\ q.kind = "cose" /\ q.spec = leaf.spec /\ e \in UnmarshalEntry(q)
    BY <1>1, LeafRead DEF Kinds
  <2>2. e.kind = "cose" /\ e.impl \in Cose!UnmarshalEntry(q)
    BY <2>1, UnmarshalByKind
  <2>3. e.impl.envelopeHash = v.envelopeHash
    BY <1>1, <2>1, <2>2, CoseReadBack
  <2>4. QED BY <2>2, <2>3 DEF HasAttestation, AttestationKey, Cose!AttestationKey
<1>5. NamedDigest(leaf) = v.envelopeHash
  BY <1>1 DEF NamedDigest
<1>6. QED BY <1>2, <1>3, <1>4, <1>5 DEF AttestationLinked

\* An entry that was submitted has the digest of its payload computed, and so has its
\* leaf; a leaf has no envelope, and its digests are kept when it is read.
LEMMA IntotoV001Linked ==
  ASSUME NEW pe, NEW v \in IntotoV001!Unmarshal(pe), IntotoV001!Insertable(v), NEW t,
         NEW c \in IntotoV001!Canonicalize(v, t), NEW leaf, NEW entry, leaf = c.leaf,
         entry.kind = "intoto", entry.version = "0.0.1", entry.impl = c.entry
  PROVE  AttestationLinked(leaf, entry)
<1> DEFINE h == v.obj.content.payloadHash
           Logged(p) == [publicKey |-> p, content |-> [envelope |-> Nil, hash |-> v.obj.content.hash,
                                                       payloadHash |-> h]]
<1>1. PICK p \in IntotoV001!X509KeyCanonicalValue(v.keyObj) :
        c = [leaf |-> [kind |-> "intoto", apiVersion |-> "0.0.1", spec |-> Logged(p)], entry |-> v]
  BY DEF IntotoV001!Canonicalize
<1>2. entry.impl = v /\ leaf = [kind |-> "intoto", apiVersion |-> "0.0.1", spec |-> Logged(p)]
  BY <1>1
<1>3. /\ leaf.kind = "intoto" /\ leaf.apiVersion = "0.0.1"
      /\ leaf.spec.content.envelope = Nil /\ leaf.spec.content.payloadHash = h
  BY <1>2
<1>4. h = IntotoV001!Sha256(v.env.payload)
  <2>1. PICK o, k : v \in IntotoV001!validate(o, k)
    BY DEF IntotoV001!Unmarshal
  <2>2. o.content.envelope # Nil
    BY <2>1 DEF IntotoV001!validate, IntotoV001!Insertable
  <2>3. v.env = o.content.envelope /\ h = IntotoV001!Sha256(o.content.envelope.payload)
    BY <2>1, <2>2 DEF IntotoV001!validate
  <2>4. QED BY <2>3
<1>5. h.value = Digest("sha256", v.env.payload)
  BY <1>4 DEF IntotoV001!Sha256, IntotoV001!Digest, Digest
<1> DEFINE keys == IF h = Nil THEN {} ELSE {h.value}
<1>6. AttestationKey(entry) = keys
  BY <1>2 DEF AttestationKey, IntotoV001!AttestationKey
<1>7. ASSUME NEW kv \in AttestationKeyValue(entry)
      PROVE  kv.key \in AttestationKey(entry) /\ kv.key = Digest("sha256", kv.value)
  <2>1. kv \in IntotoV001!AttestationKeyValue(v)
    BY <1>2 DEF AttestationKeyValue
  <2>2. PICK x \in keys : kv = [key |-> x, value |-> v.env.payload]
    BY <2>1 DEF IntotoV001!AttestationKeyValue, IntotoV001!AttestationKey
  <2>3. kv.key = x /\ kv.value = v.env.payload
    BY <2>2
  <2>4. x = h.value
    BY <2>2
  <2>5. QED BY <1>5, <1>6, <2>2, <2>3, <2>4
<1>8. ASSUME NEW e \in ReadLeaf(leaf) PROVE HasAttestation(e) /\ AttestationKey(e) = keys
  <2>1. PICK q : /\ q.kind = "intoto" /\ q.apiVersion = "0.0.1" /\ q.spec = leaf.spec /\ e \in UnmarshalEntry(q)
    BY <1>3, LeafRead DEF Kinds
  <2>2. e \in {[kind |-> "intoto", version |-> "0.0.1", impl |-> w] : w \in IntotoV001!Unmarshal(q)}
    BY <2>1 DEF UnmarshalEntry, IntotoUnmarshalEntry, SemVerMatches
  <2>3. e.kind = "intoto" /\ e.version = "0.0.1" /\ e.impl \in IntotoV001!Unmarshal(q)
    BY <2>2
  <2>4. PICK o, k : o \in IntotoV001!DecodeEntry(q.spec) /\ e.impl \in IntotoV001!validate(o, k)
    BY <2>3 DEF IntotoV001!Unmarshal
  <2>5. o.content = leaf.spec.content
    BY <2>1, <2>4 DEF IntotoV001!DecodeEntry
  <2>6. e.impl = [obj |-> o, keyObj |-> k, env |-> Nil]
    BY <1>3, <2>4, <2>5 DEF IntotoV001!validate
  <2>7. e.impl.obj = o
    BY <2>6
  <2>8. e.impl.obj.content.payloadHash = h
    BY <1>3, <2>5, <2>7
  <2>9. QED BY <2>3, <2>8 DEF HasAttestation, AttestationKey, IntotoV001!AttestationKey
<1>9. keys \subseteq {NamedDigest(leaf)}
  BY <1>3 DEF NamedDigest
<1> HIDE DEF keys
<1>10. QED BY <1>6, <1>7, <1>8, <1>9 DEF AttestationLinked

\* A leaf has an envelope without a payload; what has no envelope is not valid.
LEMMA IntotoV002ReadBack ==
  ASSUME NEW pe, NEW v \in IntotoV002!Unmarshal(pe), pe.spec.content.envelope.payload = Nil
  PROVE  /\ v.obj.content.payloadHash = pe.spec.content.payloadHash /\ v.env = Nil
         /\ v.obj.content.envelope.signatures = pe.spec.content.envelope.signatures
<1> DEFINE s == pe.spec
           None == [envelope |-> Nil, hash |-> Nil, payloadHash |-> Nil]
           NoEnvelope == [payloadType |-> Nil, payload |-> Nil, signatures |-> Nil]
           Bad(e) == \/ e.payload = IntotoV002!NotBase64
                     \/ /\ e.signatures # Nil
                        /\ \E i \in DOMAIN e.signatures :
                             IntotoV002!NotBase64 \in {e.signatures[i].sig, e.signatures[i].publicKey}
           Kept(e) == [payloadType |-> e.payloadType, signatures |-> e.signatures,
                       payload |-> IF e.payload = IntotoV002!EmptyBytes THEN Nil ELSE e.payload]
           Envelopes(e) == IF e = Nil THEN {NoEnvelope} ELSE IF Bad(e) THEN {} ELSE {Kept(e)}
           Content(x) == {[envelope |-> e, hash |-> x.hash, payloadHash |-> x.payloadHash] :
                            e \in Envelopes(x.envelope)}
           Keys(e) == [i \in DOMAIN e.signatures |-> e.signatures[i].publicKey]
           Envelope(e) == [payload |-> e.payload,
                           signatures |-> [i \in DOMAIN e.signatures |-> e.signatures[i].sig]]
           Made(o) == [obj |-> [content |-> [envelope |-> o.content.envelope, hash |-> o.content.hash,
                                             payloadHash |-> IntotoV002!Sha256(o.content.envelope.payload)]],
                       env |-> Envelope(o.content.envelope)]
           Checked(o) ==
             LET e == o.content.envelope
             IN IF e.payload = Nil THEN {[obj |-> o, env |-> Nil]}
                ELSE IF IntotoV002!verifyEnvelope(Keys(e), Envelope(e)) = {} \/ e.payload.enc # "std" THEN {}
                     ELSE {Made(o)}
<1>1. PICK o \in IntotoV002!DecodeEntry(s) : IntotoV002!ValidSchema(o) /\ v \in Checked(o)
  BY DEF IntotoV002!Unmarshal
<1>2. o.content.envelope.payloadType # Nil
  BY <1>1 DEF IntotoV002!ValidSchema, IntotoV002!Required, IntotoV002!ValidContent, IntotoV002!ValidEnvelope
<1> DEFINE x == IF s.content = Nil THEN None ELSE s.content
<1>3. PICK y \in Content(x) : o = [content |-> y]
  BY <1>1 DEF IntotoV002!DecodeEntry
<1>4. PICK e \in Envelopes(x.envelope) : y = [envelope |-> e, hash |-> x.hash, payloadHash |-> x.payloadHash]
  BY <1>3
<1>5. o.content = y /\ y.envelope = e /\ y.payloadHash = x.payloadHash
  BY <1>3, <1>4
<1>6. NoEnvelope.payloadType = Nil /\ None.envelope = Nil
  OBVIOUS
<1>7. x.envelope # Nil /\ s.content # Nil
  <2> HIDE DEF NoEnvelope, None
  <2> QED BY <1>2, <1>4, <1>5, <1>6
<1>8. x = s.content
  BY <1>7
<1>9. e = Kept(x.envelope)
  BY <1>4, <1>7
<1>10. e.payload = Nil /\ e.signatures = x.envelope.signatures
  BY <1>8, <1>9
<1>11. v = [obj |-> o, env |-> Nil]
  BY <1>1, <1>5, <1>10
<1>12. v.obj = o /\ v.env = Nil
  BY <1>11
<1> HIDE DEF x
<1>13. QED BY <1>5, <1>8, <1>10, <1>12

LEMMA IntotoV002Linked ==
  ASSUME NEW pe, NEW v \in IntotoV002!Unmarshal(pe), IntotoV002!Insertable(v), NEW t,
         NEW c \in IntotoV002!Canonicalize(v, t), NEW leaf, NEW entry, leaf = c.leaf,
         entry.kind = "intoto", entry.version = "0.0.2", entry.impl = c.entry
  PROVE  AttestationLinked(leaf, entry)
<1> DEFINE h == v.obj.content.payloadHash
           Logged == [content |-> [envelope |-> [payload |-> Nil, payloadType |-> v.obj.content.envelope.payloadType,
                                                 signatures |-> v.obj.content.envelope.signatures],
                                   hash |-> v.obj.content.hash, payloadHash |-> h]]
<1>1. c = [leaf |-> IntotoV002!MarshalJSON("0.0.2", Logged), entry |-> v]
  BY DEF IntotoV002!Canonicalize
<1>2. entry.impl = v /\ leaf = [kind |-> "intoto", apiVersion |-> "0.0.2", spec |-> Logged]
  BY <1>1 DEF IntotoV002!MarshalJSON
<1>3. /\ leaf.kind = "intoto" /\ leaf.apiVersion = "0.0.2"
      /\ leaf.spec.content.envelope.payload = Nil /\ leaf.spec.content.payloadHash = h
  BY <1>2
<1>4. h = IntotoV002!Sha256(v.env.payload)
  <2> DEFINE Keys(e) == [i \in DOMAIN e.signatures |-> e.signatures[i].publicKey]
             Envelope(e) == [payload |-> e.payload,
                             signatures |-> [i \in DOMAIN e.signatures |-> e.signatures[i].sig]]
             Made(o) == [obj |-> [content |-> [envelope |-> o.content.envelope, hash |-> o.content.hash,
                                               payloadHash |-> IntotoV002!Sha256(o.content.envelope.payload)]],
                         env |-> Envelope(o.content.envelope)]
             Checked(o) ==
               LET e == o.content.envelope
               IN IF e.payload = Nil THEN {[obj |-> o, env |-> Nil]}
                  ELSE IF IntotoV002!verifyEnvelope(Keys(e), Envelope(e)) = {} \/ e.payload.enc # "std" THEN {}
                       ELSE {Made(o)}
  <2>1. PICK o \in IntotoV002!DecodeEntry(pe.spec) : v \in Checked(o)
    BY DEF IntotoV002!Unmarshal
  <2>2. v.env # Nil
    BY DEF IntotoV002!Insertable
  <2>3. o.content.envelope.payload # Nil
    BY <2>1, <2>2
  <2>4. v = Made(o)
    BY <2>1, <2>3
  <2>5. /\ Made(o).env = Envelope(o.content.envelope)
        /\ Made(o).obj.content.payloadHash = IntotoV002!Sha256(o.content.envelope.payload)
    OBVIOUS
  <2>6. Envelope(o.content.envelope).payload = o.content.envelope.payload
    OBVIOUS
  <2> HIDE DEF Made, Envelope
  <2>7. QED BY <2>4, <2>5, <2>6
<1>5. h.value = Digest("sha256", v.env.payload)
  BY <1>4 DEF IntotoV002!Sha256, IntotoV002!Digest, Digest
<1> DEFINE keys == IF h = Nil THEN {} ELSE {h.value}
<1>6. AttestationKey(entry) = keys
  BY <1>2 DEF AttestationKey, IntotoV002!AttestationKey
<1>7. ASSUME NEW kv \in AttestationKeyValue(entry)
      PROVE  kv.key \in AttestationKey(entry) /\ kv.key = Digest("sha256", kv.value)
  <2>1. kv \in IntotoV002!AttestationKeyValue(v)
    BY <1>2 DEF AttestationKeyValue
  <2>2. PICK x \in keys : kv = [key |-> x, value |-> v.env.payload]
    BY <2>1 DEF IntotoV002!AttestationKeyValue, IntotoV002!AttestationKey
  <2>3. kv.key = x /\ kv.value = v.env.payload
    BY <2>2
  <2>4. x = h.value
    BY <2>2
  <2>5. QED BY <1>5, <1>6, <2>2, <2>3, <2>4
<1>8. ASSUME NEW e \in ReadLeaf(leaf) PROVE HasAttestation(e) /\ AttestationKey(e) = keys
  <2>1. PICK q : /\ q.kind = "intoto" /\ q.apiVersion = "0.0.2" /\ q.spec = leaf.spec /\ e \in UnmarshalEntry(q)
    BY <1>3, LeafRead DEF Kinds
  <2>2. e \in {[kind |-> "intoto", version |-> "0.0.2", impl |-> w] : w \in IntotoV002!Unmarshal(q)}
    BY <2>1 DEF UnmarshalEntry, IntotoUnmarshalEntry, SemVerMatches
  <2>3. e.kind = "intoto" /\ e.version = "0.0.2" /\ e.impl \in IntotoV002!Unmarshal(q)
    BY <2>2
  <2>4. e.impl.obj.content.payloadHash = h
    BY <1>3, <2>1, <2>3, IntotoV002ReadBack
  <2>5. QED BY <2>3, <2>4 DEF HasAttestation, AttestationKey, IntotoV002!AttestationKey
<1>9. keys \subseteq {NamedDigest(leaf)}
  BY <1>3 DEF NamedDigest
<1> HIDE DEF keys
<1>10. QED BY <1>6, <1>7, <1>8, <1>9 DEF AttestationLinked

LEMMA CanonicalLinked ==
  ASSUME NEW pe, NEW e \in CreateVersionedEntry(pe, AcceptedKinds), NEW t, NEW f \in CanonicalizeEntry(e, t)
  PROVE  AttestationLinked(f.leaf, f.entry)
<1>1. e \in UnmarshalEntry(pe) /\ Insertable(e)
  BY DEF CreateVersionedEntry
<1>2. e.kind = pe.kind /\ pe.kind \in Kinds
  BY <1>1, UnmarshalByKind
<1>3. e.kind = "intoto" => e.version \in {"0.0.1", "0.0.2"}
  BY <1>1, UnmarshalByKind
<1>4. f.entry.kind = e.kind /\ f.entry.version = e.version
  BY <1>2, <1>3, CanonicalByKind
<1>5. PICK c : CanonicalOf(c, e, t) /\ f.leaf = c.leaf /\ f.entry.impl = c.entry
  BY <1>2, <1>3, CanonicalByKind
<1>6. CASE e.kind = "cose"
  <2>1. e.impl \in Cose!UnmarshalEntry(pe) /\ Cose!Insertable(e.impl) /\ c \in Cose!Canonicalize(e.impl, t)
    BY <1>1, <1>2, <1>5, <1>6, UnmarshalByKind DEF Insertable, CanonicalOf
  <2>2. QED BY <1>4, <1>5, <1>6, <2>1, CoseLinked
<1>7. CASE e.kind = "intoto" /\ e.version = "0.0.1"
  <2>1. /\ e.impl \in IntotoV001!Unmarshal(pe) /\ IntotoV001!Insertable(e.impl)
        /\ c \in IntotoV001!Canonicalize(e.impl, t)
    BY <1>1, <1>2, <1>5, <1>7, UnmarshalByKind DEF Insertable, CanonicalOf
  <2>2. QED BY <1>4, <1>5, <1>7, <2>1, IntotoV001Linked
<1>8. CASE e.kind = "intoto" /\ e.version = "0.0.2"
  <2>1. /\ e.impl \in IntotoV002!Unmarshal(pe) /\ IntotoV002!Insertable(e.impl)
        /\ c \in IntotoV002!Canonicalize(e.impl, t)
    BY <1>1, <1>2, <1>5, <1>8, UnmarshalByKind DEF Insertable, CanonicalOf
  <2>2. QED BY <1>4, <1>5, <1>8, <2>1, IntotoV002Linked
<1>9. CASE e.kind \notin {"cose", "intoto"}
  BY <1>4, <1>9 DEF AttestationLinked, HasAttestation
<1>10. QED BY <1>3, <1>6, <1>7, <1>8, <1>9

\* What a created entry is: the canonical form, at the time of the request, of an entry
\* that could be created.
LEMMA CreatedIsCanonical ==
  ASSUME NEW c \in Clients, createLogEntry(c)
  PROVE  \E pe, e, f : /\ e \in CreateVersionedEntry(pe, AcceptedKinds) /\ f \in CanonicalizeEntry(e, now)
                       /\ log' = log \cup {f.leaf} /\ jobs' = jobs \cup JobsFor(f.leaf, f.entry)
                       /\ created' = created \cup {[source |-> command[c].source, leaf |-> f.leaf,
                                                    entry |-> f.entry, at |-> now]}
<1>1. PICK e \in Admitted(command[c].proposals[1]) : \E f \in CanonicalizeEntry(e, now) :
        /\ log' = log \cup {f.leaf} /\ jobs' = jobs \cup JobsFor(f.leaf, f.entry)
        /\ created' = created \cup {[source |-> command[c].source, leaf |-> f.leaf,
                                     entry |-> f.entry, at |-> now]}
  BY DEF createLogEntry
<1>2. PICK pe : e \in CreateVersionedEntry(pe, AcceptedKinds)
  BY <1>1 DEF Admitted
<1>3. QED BY <1>1, <1>2

LEMMA AttestationNext == AttestationInv /\ [Next]_vars => AttestationInv'
<1> SUFFICES ASSUME AttestationInv, [Next]_vars PROVE AttestationInv'
  OBVIOUS
<1> DEFINE Fits(j) == j.op = "attest" => j.kv.key = Digest("sha256", j.kv.value)
<1>1. ASSUME NEW c \in Clients, createLogEntry(c) PROVE AttestationInv'
  <2>1. PICK pe, e, f : /\ e \in CreateVersionedEntry(pe, AcceptedKinds) /\ f \in CanonicalizeEntry(e, now)
                        /\ jobs' = jobs \cup JobsFor(f.leaf, f.entry)
                        /\ created' = created \cup {[source |-> command[c].source, leaf |-> f.leaf,
                                                     entry |-> f.entry, at |-> now]}
    BY <1>1, CreatedIsCanonical
  <2>2. AttestationLinked(f.leaf, f.entry)
    BY <2>1, CanonicalLinked
  <2>3. ASSUME NEW x \in created' PROVE AttestationLinked(x.leaf, x.entry)
    <3>1. x \in created \/ (x.leaf = f.leaf /\ x.entry = f.entry)
      BY <2>1
    <3>2. QED BY <2>2, <3>1 DEF AttestationInv
  <2>4. ASSUME NEW j \in JobsFor(f.leaf, f.entry) PROVE Fits(j)
    <3>1. CASE j = [op |-> "index", leaf |-> f.leaf, entry |-> f.entry]
      BY <3>1
    <3>2. ASSUME HasAttestation(f.entry), NEW kv \in AttestationKeyValue(f.entry),
                 j = [op |-> "attest", leaf |-> f.leaf, kv |-> kv]
          PROVE  Fits(j)
      <4>1. j.kv = kv
        BY <3>2
      <4>2. QED BY <2>2, <3>2, <4>1 DEF AttestationLinked
    <3>3. QED BY <3>1, <3>2 DEF JobsFor
  <2>5. attestations' = attestations
    BY <1>1 DEF createLogEntry
  <2>6. \A j \in jobs' : Fits(j)
    BY <2>1, <2>4 DEF AttestationInv
  <2>7. QED BY <2>3, <2>5, <2>6 DEF AttestationInv
<1>2. ASSUME NEW j \in jobs, StoreAttestation(j) PROVE AttestationInv'
  BY <1>2 DEF StoreAttestation, AttestationInv
<1>3. ASSUME created' = created, attestations' = attestations, jobs' \subseteq jobs PROVE AttestationInv'
  BY <1>3 DEF AttestationInv
<1>4. QED
  BY <1>1, <1>2, <1>3 DEF Next, StartUpload, TryNext, Refused, AlreadyExists, addToIndex, populate, Tick, vars

\* Attestations are found: the key that is computed from a leaf is the digest that the
\* leaf names, and nothing is ever stored under a key that is not its digest, so that an
\* object that replaces another has the same content.
THEOREM AttestationsAreFound == Spec => []AttestationsFound
<1>1. Init => AttestationInv
  BY DEF Init, AttestationInv
<1>2. AttestationInv => AttestationsFound
  <2> SUFFICES ASSUME AttestationInv, NEW x \in created, HasAttestation(x.entry), NEW r \in logEntryFromLeaf(x.leaf)
               PROVE  /\ \A d \in r.attestation : Digest("sha256", d) = NamedDigest(x.leaf)
                      /\ r.attestation = {} => \A kv \in AttestationKeyValue(x.entry) : kv \notin attestations
    BY DEF AttestationsFound, NamedDigest
  <2>1. AttestationLinked(x.leaf, x.entry)
    BY DEF AttestationInv
  <2>2. PICK e \in ReadLeaf(x.leaf) :
          r = [body |-> x.leaf,
               attestation |-> IF HasAttestation(e) THEN UNION {FetchAttestation(k) : k \in AttestationKey(e)} ELSE {}]
    BY DEF logEntryFromLeaf
  <2>3. HasAttestation(e) /\ AttestationKey(e) = AttestationKey(x.entry)
    BY <2>1, <2>2 DEF AttestationLinked
  <2>4. r.attestation = UNION {FetchAttestation(k) : k \in AttestationKey(x.entry)}
    BY <2>2, <2>3
  <2>5. ASSUME NEW d \in r.attestation PROVE Digest("sha256", d) = NamedDigest(x.leaf)
    <3>1. PICK k \in AttestationKey(x.entry) : d \in FetchAttestation(k)
      BY <2>4
    <3>2. k = NamedDigest(x.leaf)
      BY <2>1, <3>1 DEF AttestationLinked
    <3>3. PICK a \in attestations : a.key = k /\ a.value = d
      BY <3>1 DEF FetchAttestation
    <3>4. QED BY <3>2, <3>3 DEF AttestationInv
  <2>6. ASSUME NEW kv \in AttestationKeyValue(x.entry), kv \in attestations PROVE kv.value \in r.attestation
    <3>1. kv.key \in AttestationKey(x.entry)
      BY <2>1 DEF AttestationLinked
    <3>2. kv.value \in FetchAttestation(kv.key)
      BY <2>6 DEF FetchAttestation
    <3>3. QED BY <2>4, <3>1, <3>2
  <2>7. QED BY <2>5, <2>6
<1>3. QED BY <1>1, <1>2, AttestationNext, PTL DEF Spec

---------------------------------------------------------------------------
(* The backfill.  What it computes the keys of is the entry that its leaf  *)
(* is read as; for each kind of KeysInLeaf these are keys of the entry that*)
(* was submitted.                                                          *)

\* Leaves have the kind and the version of their entries.
LEMMA LeafKinds ==
  ASSUME NEW v, NEW t, NEW c
  PROVE  /\ c \in Alpine!Canonicalize(v, t) => c.leaf.kind = "alpine" /\ c.leaf.apiVersion = "0.0.1"
         /\ c \in Cose!Canonicalize(v, t) => c.leaf.kind = "cose" /\ c.leaf.apiVersion = "0.0.1"
         /\ c \in Dsse!Canonicalize(v, t) => c.leaf.kind = "dsse" /\ c.leaf.apiVersion = "0.0.1"
         /\ c \in HashedRekord!Canonicalize(v, t) => c.leaf.kind = "hashedrekord" /\ c.leaf.apiVersion = "0.0.1"
         /\ c \in Helm!Canonicalize(v, t) => c.leaf.kind = "helm" /\ c.leaf.apiVersion = "0.0.1"
         /\ c \in Jar!Canonicalize(v, t) => c.leaf.kind = "jar" /\ c.leaf.apiVersion = "0.0.1"
         /\ c \in Rekord!Canonicalize(v, t) => c.leaf.kind = "rekord" /\ c.leaf.apiVersion = "0.0.1"
         /\ c \in Rfc3161!Canonicalize(v, t) => c.leaf.kind = "rfc3161" /\ c.leaf.apiVersion = "0.0.1"
         /\ c \in Rpm!Canonicalize(v, t) => c.leaf.kind = "rpm" /\ c.leaf.apiVersion = "0.0.1"
         /\ c \in Tuf!Canonicalize(v, t) => c.leaf.kind = "tuf" /\ c.leaf.apiVersion = "0.0.1"
         /\ c \in IntotoV001!Canonicalize(v, t) => c.leaf.kind = "intoto" /\ c.leaf.apiVersion = "0.0.1"
         /\ c \in IntotoV002!Canonicalize(v, t) => c.leaf.kind = "intoto" /\ c.leaf.apiVersion = "0.0.2"
<1>1. ASSUME c \in Alpine!Canonicalize(v, t) PROVE c.leaf.kind = "alpine" /\ c.leaf.apiVersion = "0.0.1"
  <2>1. PICK s, e : c = [leaf |-> Alpine!MarshalJSON("0.0.1", s), entry |-> e]
    BY <1>1 DEF Alpine!Canonicalize
  <2>2. QED BY <2>1 DEF Alpine!MarshalJSON
<1>2. ASSUME c \in Cose!Canonicalize(v, t) PROVE c.leaf.kind = "cose" /\ c.leaf.apiVersion = "0.0.1"
  <2>1. PICK s, e : c = [leaf |-> Cose!MarshalJSON("0.0.1", s), entry |-> e]
    BY <1>2 DEF Cose!Canonicalize
  <2>2. QED BY <2>1 DEF Cose!MarshalJSON
<1>3. ASSUME c \in Dsse!Canonicalize(v, t) PROVE c.leaf.kind = "dsse" /\ c.leaf.apiVersion = "0.0.1"
  <2>1. PICK s, e : c = [leaf |-> Dsse!MarshalJSON("0.0.1", s), entry |-> e]
    BY <1>3 DEF Dsse!Canonicalize
  <2>2. QED BY <2>1 DEF Dsse!MarshalJSON
<1>4. ASSUME c \in HashedRekord!Canonicalize(v, t) PROVE c.leaf.kind = "hashedrekord" /\ c.leaf.apiVersion = "0.0.1"
  <2>1. PICK s, e : c = [leaf |-> HashedRekord!MarshalJSON("0.0.1", s), entry |-> e]
    BY <1>4 DEF HashedRekord!Canonicalize
  <2>2. QED BY <2>1 DEF HashedRekord!MarshalJSON
<1>5. ASSUME c \in Helm!Canonicalize(v, t) PROVE c.leaf.kind = "helm" /\ c.leaf.apiVersion = "0.0.1"
  <2>1. PICK s, e : c = [leaf |-> Helm!MarshalJSON("0.0.1", s), entry |-> e]
    BY <1>5 DEF Helm!Canonicalize
  <2>2. QED BY <2>1 DEF Helm!MarshalJSON
<1>6. ASSUME c \in Jar!Canonicalize(v, t) PROVE c.leaf.kind = "jar" /\ c.leaf.apiVersion = "0.0.1"
  <2>1. PICK s, e : c = [leaf |-> Jar!MarshalJSON("0.0.1", s), entry |-> e]
    BY <1>6 DEF Jar!Canonicalize
  <2>2. QED BY <2>1 DEF Jar!MarshalJSON
<1>7. ASSUME c \in Rekord!Canonicalize(v, t) PROVE c.leaf.kind = "rekord" /\ c.leaf.apiVersion = "0.0.1"
  <2>1. PICK s, e : c = [leaf |-> Rekord!MarshalJSON("0.0.1", s), entry |-> e]
    BY <1>7 DEF Rekord!Canonicalize
  <2>2. QED BY <2>1 DEF Rekord!MarshalJSON
<1>8. ASSUME c \in Rfc3161!Canonicalize(v, t) PROVE c.leaf.kind = "rfc3161" /\ c.leaf.apiVersion = "0.0.1"
  <2>1. PICK s, e : c = [leaf |-> Rfc3161!MarshalJSON("0.0.1", s), entry |-> e]
    BY <1>8 DEF Rfc3161!Canonicalize
  <2>2. QED BY <2>1 DEF Rfc3161!MarshalJSON
<1>9. ASSUME c \in Rpm!Canonicalize(v, t) PROVE c.leaf.kind = "rpm" /\ c.leaf.apiVersion = "0.0.1"
  <2>1. PICK s, e : c = [leaf |-> Rpm!MarshalJSON("0.0.1", s), entry |-> e]
    BY <1>9 DEF Rpm!Canonicalize
  <2>2. QED BY <2>1 DEF Rpm!MarshalJSON
<1>10. ASSUME c \in Tuf!Canonicalize(v, t) PROVE c.leaf.kind = "tuf" /\ c.leaf.apiVersion = "0.0.1"
  <2>1. PICK s, e : c = [leaf |-> Tuf!MarshalJSON("0.0.1", s), entry |-> e]
    BY <1>10 DEF Tuf!Canonicalize
  <2>2. QED BY <2>1 DEF Tuf!MarshalJSON
<1>11. ASSUME c \in IntotoV001!Canonicalize(v, t) PROVE c.leaf.kind = "intoto" /\ c.leaf.apiVersion = "0.0.1"
  <2>1. PICK s, e : c = [leaf |-> [kind |-> "intoto", apiVersion |-> "0.0.1", spec |-> s], entry |-> e]
    BY <1>11 DEF IntotoV001!Canonicalize
  <2>2. QED BY <2>1
<1>12. ASSUME c \in IntotoV002!Canonicalize(v, t) PROVE c.leaf.kind = "intoto" /\ c.leaf.apiVersion = "0.0.2"
  <2>1. PICK s, e : c = [leaf |-> IntotoV002!MarshalJSON("0.0.2", s), entry |-> e]
    BY <1>12 DEF IntotoV002!Canonicalize
  <2>2. QED BY <2>1 DEF IntotoV002!MarshalJSON
<1>13. QED BY <1>1, <1>2, <1>3, <1>4, <1>5, <1>6, <1>7, <1>8, <1>9, <1>10, <1>11, <1>12

LEMMA AlpineRead ==
  ASSUME NEW v, NEW t, NEW c \in Alpine!Canonicalize(v, t),
         NEW pe, pe.spec = c.leaf.spec, NEW w \in Alpine!UnmarshalEntry(pe)
  PROVE  /\ w.publicKey.content = c.entry.publicKey.content
         /\ w.package.hash = c.entry.package.hash /\ w.package.content = Nil
<1> DEFINE s == c.leaf.spec
           Form(e, p) == [publicKey |-> [content |-> p],
                          package |-> [hash |-> e.entry.package.hash, content |-> Nil,
                                       pkginfo |-> e.apk.pkginfo]]
<1>1. PICK e, p : c = [leaf |-> Alpine!MarshalJSON("0.0.1", Form(e, p)), entry |-> Form(e, p)]
  BY DEF Alpine!Canonicalize
<1>2. c.leaf = [kind |-> "alpine", apiVersion |-> "0.0.1", spec |-> Form(e, p)] /\ c.entry = Form(e, p)
  BY <1>1 DEF Alpine!MarshalJSON
<1>3. s = c.entry /\ s.package.content = Nil
  BY <1>2
<1>4. w \in Alpine!DecodeEntry(s) /\ Alpine!validate(w)
  BY DEF Alpine!UnmarshalEntry, Alpine!Unmarshal
<1> HIDE DEF s
<1> DEFINE Key(k) == {IF b = Nil THEN Nil ELSE [content |-> b] : b \in Alpine!DecodeBytes(k.content)}
           Hash(h) == IF h # Nil /\ h.algorithm = Nil /\ h.value = Nil THEN Nil ELSE h
           Package(q) == {[hash |-> Hash(q.hash), content |-> b, pkginfo |-> q.pkginfo] :
                            b \in Alpine!DecodeBytes(q.content)}
<1>5. PICK k, q : /\ k \in (IF s.publicKey = Nil THEN {Nil} ELSE Key(s.publicKey))
                  /\ q \in (IF s.package = Nil THEN {Nil} ELSE Package(s.package))
                  /\ w = [publicKey |-> k, package |-> q]
  BY <1>4 DEF Alpine!DecodeEntry, Alpine!Member
<1>6. w.publicKey = k /\ w.package = q
  BY <1>5
<1>7. /\ k # Nil /\ k.content # Nil /\ q # Nil
      /\ q.hash = Nil => q.content # Nil
  BY <1>4, <1>6 DEF Alpine!validate
<1>8. k.content = s.publicKey.content
  <2>1. PICK b \in Alpine!DecodeBytes(s.publicKey.content) : k = IF b = Nil THEN Nil ELSE [content |-> b]
    BY <1>5, <1>7
  <2>2. b # Nil /\ k = [content |-> b]
    BY <1>7, <2>1
  <2>3. b = s.publicKey.content
    BY <2>1, <2>2 DEF Alpine!DecodeBytes
  <2>4. QED BY <2>2, <2>3
<1>9. q.hash = s.package.hash /\ q.content = Nil
  <2>1. PICK b \in Alpine!DecodeBytes(s.package.content) :
          q = [hash |-> Hash(s.package.hash), content |-> b, pkginfo |-> s.package.pkginfo]
    BY <1>5, <1>7
  <2>2. b = Nil
    BY <1>3, <2>1 DEF Alpine!DecodeBytes
  <2>3. q.content = Nil /\ q.hash = Hash(s.package.hash)
    BY <2>1, <2>2
  <2>4. QED BY <1>7, <2>3
<1>10. QED BY <1>3, <1>6, <1>8, <1>9

LEMMA AlpineKeys ==
  ASSUME NEW v, NEW t, NEW c \in Alpine!Canonicalize(v, t),
         NEW pe, pe.spec = c.leaf.spec, NEW w \in Alpine!UnmarshalEntry(pe), NEW u
  PROVE  Alpine!IndexKeys(w, u) \subseteq Alpine!IndexKeys(c.entry, t)
BY AlpineRead DEF Alpine!IndexKeys

\* An absent key would be parsed as the empty document, which is no key.
LEMMA HashedRekordRead ==
  ASSUME NEW v, NEW t, NEW c \in HashedRekord!Canonicalize(v, t),
         NEW pe, pe.spec = c.leaf.spec, NEW w \in HashedRekord!UnmarshalEntry(pe)
  PROVE  /\ w.signature.publicKey.content = c.entry.signature.publicKey.content
         /\ w.signature.content \in {Nil, c.entry.signature.content}
         /\ w.data.hash = c.entry.data.hash
<1> DEFINE s == c.leaf.spec
<1>1. PICK r : c = [leaf |-> HashedRekord!MarshalJSON("0.0.1", r), entry |-> r]
  BY DEF HashedRekord!Canonicalize
<1>2. s = c.entry
  BY <1>1 DEF HashedRekord!MarshalJSON
<1>3. w \in HashedRekord!DecodeEntry(s) /\ HashedRekord!validate(w) # {}
  BY DEF HashedRekord!UnmarshalEntry, HashedRekord!Unmarshal
<1> HIDE DEF s
<1> DEFINE Key(k) == {[content |-> b] : b \in HashedRekord!DecodeBytes(k.content)}
           Sig(x) == {[content |-> b, publicKey |-> k] :
                        b \in HashedRekord!DecodeBytes(x.content),
                        k \in (IF x.publicKey = Nil THEN {Nil} ELSE Key(x.publicKey))}
           Data(d) == IF d.hash = Nil THEN {Nil} ELSE {[hash |-> d.hash]}
<1>4. PICK x, d : /\ x \in (IF s.signature = Nil THEN {Nil} ELSE Sig(s.signature))
                  /\ d \in (IF s.data = Nil THEN {Nil} ELSE Data(s.data))
                  /\ w = [signature |-> x, data |-> d]
  BY <1>3 DEF HashedRekord!DecodeEntry, HashedRekord!Member
<1>5. w.signature = x /\ w.data = d
  BY <1>4
<1>6. /\ x # Nil /\ x.publicKey # Nil /\ d # Nil
      /\ HashedRekord!X509NewPublicKey(HashedRekord!Bytes(x.publicKey.content)) # {}
  BY <1>3, <1>5 DEF HashedRekord!validate
<1>7. x.publicKey.content # Nil
  <2>1. HashedRekord!X509NewPublicKey(HashedRekord!EmptyBytes) = {}
    BY DEF HashedRekord!X509NewPublicKey, HashedRekord!EmptyBytes
  <2>2. QED BY <1>6, <2>1 DEF HashedRekord!Bytes
<1>8. x.publicKey.content = s.signature.publicKey.content
  <2>1. PICK b, k : /\ k \in (IF s.signature.publicKey = Nil THEN {Nil} ELSE Key(s.signature.publicKey))
                    /\ x = [content |-> b, publicKey |-> k]
    BY <1>4, <1>6
  <2>2. x.publicKey = k
    BY <2>1
  <2>3. PICK a \in HashedRekord!DecodeBytes(s.signature.publicKey.content) : k = [content |-> a]
    BY <1>6, <2>1, <2>2
  <2>4. k.content = a
    BY <2>3
  <2>5. a = s.signature.publicKey.content
    BY <1>7, <2>2, <2>3, <2>4 DEF HashedRekord!DecodeBytes
  <2>6. QED BY <2>2, <2>4, <2>5
<1>9. d.hash = s.data.hash
  BY <1>4, <1>6
<1>10. x.content \in {Nil, s.signature.content}
  <2>1. PICK b, k : b \in HashedRekord!DecodeBytes(s.signature.content) /\ x = [content |-> b, publicKey |-> k]
    BY <1>4, <1>6
  <2>2. x.content = b
    BY <2>1
  <2>3. QED BY <2>1, <2>2 DEF HashedRekord!DecodeBytes
<1>11. QED BY <1>2, <1>5, <1>8, <1>9, <1>10

LEMMA HashedRekordKeys ==
  ASSUME NEW v, NEW t, NEW c \in HashedRekord!Canonicalize(v, t),
         NEW pe, pe.spec = c.leaf.spec, NEW w \in HashedRekord!UnmarshalEntry(pe), NEW u
  PROVE  HashedRekord!IndexKeys(w, u) \subseteq HashedRekord!IndexKeys(c.entry, t)
BY HashedRekordRead DEF HashedRekord!IndexKeys

LEMMA JarForm ==
  ASSUME NEW v, NEW t, NEW c \in Jar!Canonicalize(v, t)
  PROVE  /\ c.leaf.spec = c.entry /\ c.entry.archive.content = Nil
         /\ \E p : p.fmt = "pem" /\ c.entry.signature.publicKey = [content |-> p]
<1> DEFINE Form(e, g, p) == [signature |-> [content |-> g, publicKey |-> [content |-> p]],
                             archive |-> [hash |-> e.entry.archive.hash, content |-> Nil]]
<1>1. \E e \in Jar!fetchExternalEntities(v, t) :
        \E g \in Jar!Pkcs7SigCanonicalValue(e.sig), p \in Jar!Pkcs7KeyCanonicalValue(e.key) :
          c = [leaf |-> Jar!MarshalJSON("0.0.1", Form(e, g, p)), entry |-> Form(e, g, p)]
  BY DEF Jar!Canonicalize
<1>2. PICK e, g, p : /\ p \in Jar!Pkcs7KeyCanonicalValue(e.key)
                     /\ c = [leaf |-> Jar!MarshalJSON("0.0.1", Form(e, g, p)), entry |-> Form(e, g, p)]
  BY <1>1
<1>3. c.leaf = [kind |-> "jar", apiVersion |-> "0.0.1", spec |-> Form(e, g, p)] /\ c.entry = Form(e, g, p)
  BY <1>2 DEF Jar!MarshalJSON
<1>4. p.fmt = "pem"
  BY <1>2 DEF Jar!Pkcs7KeyCanonicalValue
<1>5. QED BY <1>3, <1>4

\* A leaf has no archive, so its signature is there.
LEMMA JarRead ==
  ASSUME NEW v, NEW t, NEW c \in Jar!Canonicalize(v, t),
         NEW pe, pe.spec = c.leaf.spec, NEW w \in Jar!UnmarshalEntry(pe)
  PROVE  /\ w.signature # Nil /\ w.signature.content = c.entry.signature.content
         /\ c.entry.signature # Nil /\ w.signature.publicKey = c.entry.signature.publicKey
         /\ w.archive.hash = c.entry.archive.hash /\ w.archive.content = Nil
<1> DEFINE s == c.leaf.spec
<1>3. s = c.entry /\ s.archive.content = Nil
  BY JarForm
<1>4. w \in Jar!DecodeEntry(s) /\ Jar!validate(w)
  BY DEF Jar!UnmarshalEntry, Jar!Unmarshal
<1> HIDE DEF s
<1> DEFINE Key(k) == {[content |-> b] : b \in Jar!DecodeBytes(k.content)}
           Sig(x) == {[content |-> b, publicKey |-> k] :
                        b \in Jar!DecodeBytes(x.content),
                        k \in (IF x.publicKey = Nil THEN {Nil} ELSE Key(x.publicKey))}
           Archive(a) == {[hash |-> a.hash, content |-> b] : b \in Jar!DecodeBytes(a.content)}
<1>5. PICK x, a : /\ x \in (IF s.signature = Nil THEN {Nil} ELSE Sig(s.signature))
                  /\ a \in (IF s.archive = Nil THEN {Nil} ELSE Archive(s.archive))
                  /\ w = [signature |-> x, archive |-> a]
  BY <1>4 DEF Jar!DecodeEntry, Jar!Member
<1>6. w.signature = x /\ w.archive = a
  BY <1>5
<1>7. a # Nil /\ ((x = Nil \/ x.content = Nil) => a.content # Nil)
  BY <1>4, <1>6 DEF Jar!validate
<1>8. a.hash = s.archive.hash /\ a.content = Nil
  <2>1. PICK b \in Jar!DecodeBytes(s.archive.content) : a = [hash |-> s.archive.hash, content |-> b]
    BY <1>5, <1>7
  <2>2. b = Nil
    BY <1>3, <2>1 DEF Jar!DecodeBytes
  <2>3. QED BY <2>1, <2>2
<1>9. x.content = s.signature.content
  <2>1. PICK b, k : b \in Jar!DecodeBytes(s.signature.content) /\ x = [content |-> b, publicKey |-> k]
    BY <1>5, <1>7, <1>8
  <2>2. x.content = b
    BY <2>1
  <2>3. b = s.signature.content
    BY <1>7, <1>8, <2>1, <2>2 DEF Jar!DecodeBytes
  <2>4. QED BY <2>2, <2>3
<1>10. PICK p : p # Jar!EmptyBytes /\ s.signature.publicKey = [content |-> p]
  <2>1. PICK p : p.fmt = "pem" /\ s.signature.publicKey = [content |-> p]
    BY JarForm, <1>3
  <2>2. p # Jar!EmptyBytes
    BY <2>1 DEF Jar!EmptyBytes
  <2>3. QED BY <2>1, <2>2
<1>11. x # Nil /\ s.signature # Nil
  BY <1>5, <1>7, <1>8
<1>12. x.publicKey = s.signature.publicKey
  <2>1. PICK b, k : /\ k \in (IF s.signature.publicKey = Nil THEN {Nil} ELSE Key(s.signature.publicKey))
                    /\ x = [content |-> b, publicKey |-> k]
    BY <1>5, <1>11
  <2>2. x.publicKey = k
    BY <2>1
  <2>3. CASE s.signature.publicKey # Nil
    <3>1. PICK y \in Jar!DecodeBytes(s.signature.publicKey.content) : k = [content |-> y]
      BY <2>1, <2>3
    <3>2. s.signature.publicKey.content = p
      BY <1>10
    <3>3. y = p
      BY <1>10, <3>1, <3>2 DEF Jar!DecodeBytes
    <3>4. QED BY <1>10, <2>2, <3>1, <3>3
  <2>4. QED BY <2>1, <2>2, <2>3
<1>13. QED BY <1>3, <1>6, <1>8, <1>9, <1>11, <1>12

LEMMA JarKeys ==
  ASSUME NEW v, NEW t, NEW c \in Jar!Canonicalize(v, t),
         NEW pe, pe.spec = c.leaf.spec, NEW w \in Jar!UnmarshalEntry(pe), NEW u
  PROVE  Jar!IndexKeys(w, u) \subseteq Jar!IndexKeys(c.entry, t)
BY JarRead DEF Jar!IndexKeys

LEMMA RekordForm ==
  ASSUME NEW v, NEW t, NEW c \in Rekord!Canonicalize(v, t)
  PROVE  c.leaf.spec = c.entry /\ c.entry.data.content = Nil
<1> DEFINE Form(g, h) == [signature |-> g, data |-> [hash |-> h, content |-> Nil]]
<1>1. PICK g, h : c = [leaf |-> Rekord!MarshalJSON("0.0.1", Form(g, h)), entry |-> Form(g, h)]
  BY DEF Rekord!Canonicalize
<1>2. c.leaf = [kind |-> "rekord", apiVersion |-> "0.0.1", spec |-> Form(g, h)] /\ c.entry = Form(g, h)
  BY <1>1 DEF Rekord!MarshalJSON
<1>3. QED BY <1>2

\* A leaf has no data.
LEMMA RekordRead ==
  ASSUME NEW pe, NEW w \in Rekord!UnmarshalEntry(pe), pe.spec.data.content = Nil
  PROVE  /\ w.signature.format = pe.spec.signature.format
         /\ w.signature.format \in {"pgp", "minisign", "x509", "ssh"}
         /\ w.signature.publicKey.content = pe.spec.signature.publicKey.content
         /\ w.data.hash = pe.spec.data.hash /\ w.data.content = Nil
<1> DEFINE s == pe.spec
           Key(k) == {[content |-> b] : b \in Rekord!DecodeBytes(k.content)}
           Sig(x) == {[format |-> x.format, content |-> b, publicKey |-> k] :
                        b \in Rekord!DecodeBytes(x.content),
                        k \in (IF x.publicKey = Nil THEN {Nil} ELSE Key(x.publicKey))}
           Data(d) == {[hash |-> d.hash, content |-> b] : b \in Rekord!DecodeBytes(d.content)}
<1>1. w \in Rekord!DecodeEntry(s) /\ Rekord!ValidSchema(w) /\ Rekord!validate(w)
  BY DEF Rekord!UnmarshalEntry, Rekord!Unmarshal
<1>2. PICK x, d : /\ x \in (IF s.signature = Nil THEN {Nil} ELSE Sig(s.signature))
                  /\ d \in (IF s.data = Nil THEN {Nil} ELSE Data(s.data))
                  /\ w = [signature |-> x, data |-> d]
  BY <1>1 DEF Rekord!DecodeEntry, Rekord!Member
<1>3. w.signature = x /\ w.data = d
  BY <1>2
<1>4. x # Nil /\ x.publicKey # Nil /\ x.publicKey.content # Nil /\ d # Nil
  BY <1>1, <1>3 DEF Rekord!validate
<1>5. x.format \in {"pgp", "minisign", "x509", "ssh"}
  BY <1>1, <1>3 DEF Rekord!ValidSchema, Rekord!Required, Rekord!ValidSignature
<1>6. x.format = s.signature.format /\ x.publicKey.content = s.signature.publicKey.content
  <2>1. PICK b, k : /\ k \in (IF s.signature.publicKey = Nil THEN {Nil} ELSE Key(s.signature.publicKey))
                    /\ x = [format |-> s.signature.format, content |-> b, publicKey |-> k]
    BY <1>2, <1>4
  <2>2. x.publicKey = k /\ x.format = s.signature.format
    BY <2>1
  <2>3. PICK a \in Rekord!DecodeBytes(s.signature.publicKey.content) : k = [content |-> a]
    BY <1>4, <2>1, <2>2
  <2>4. k.content = a
    BY <2>3
  <2>5. a = s.signature.publicKey.content
    BY <1>4, <2>2, <2>3, <2>4 DEF Rekord!DecodeBytes
  <2>6. QED BY <2>2, <2>4, <2>5
<1>7. d.hash = s.data.hash /\ d.content = Nil
  <2>1. PICK b \in Rekord!DecodeBytes(s.data.content) : d = [hash |-> s.data.hash, content |-> b]
    BY <1>2, <1>4
  <2>2. b = Nil
    BY <2>1 DEF Rekord!DecodeBytes
  <2>3. QED BY <2>1, <2>2
<1>8. QED BY <1>3, <1>5, <1>6, <1>7

\* Keys of the formats of a rekord entry do not expire.
LEMMA RekordKeys ==
  ASSUME NEW v, NEW t, NEW c \in Rekord!Canonicalize(v, t),
         NEW pe, pe.spec = c.leaf.spec, NEW w \in Rekord!UnmarshalEntry(pe), NEW u
  PROVE  Rekord!IndexKeys(w, u) \subseteq Rekord!IndexKeys(c.entry, t)
<1>1. /\ w.signature.format = c.entry.signature.format /\ w.data.hash = c.entry.data.hash
      /\ w.signature.publicKey.content = c.entry.signature.publicKey.content
      /\ w.signature.format \in {"pgp", "minisign", "x509", "ssh"}
  BY RekordForm, RekordRead
<1>2. \A d : Rekord!NewPublicKey(w.signature.format, d, u) = Rekord!NewPublicKey(w.signature.format, d, t)
  BY <1>1 DEF Rekord!NewPublicKey
<1>3. QED BY <1>1, <1>2 DEF Rekord!IndexKeys

\* A timestamp response is kept byte for byte.
LEMMA Rfc3161Read ==
  ASSUME NEW po, NEW v \in Rfc3161!UnmarshalEntry(po), Rfc3161!Insertable(v),
         NEW t, NEW c \in Rfc3161!Canonicalize(v, t),
         NEW pe, pe.spec = c.leaf.spec, NEW w \in Rfc3161!UnmarshalEntry(pe)
  PROVE  c.entry = v /\ w.obj.tsr.content = v.obj.tsr.content /\ w.tsrContent = v.tsrContent
<1>1. PICK o : Rfc3161!validate(o) /\ v = [obj |-> o, tsrContent |-> o.tsr.content]
  BY DEF Rfc3161!UnmarshalEntry, Rfc3161!Unmarshal
<1>2. v.obj = o /\ v.tsrContent = o.tsr.content
  BY <1>1
<1> DEFINE d == v.tsrContent
<1>3. d # Nil /\ d.fmt = "tsr"
  BY <1>1, <1>2 DEF Rfc3161!Insertable, Rfc3161!validate
<1>4. d # Rfc3161!EmptyBytes
  BY <1>3 DEF Rfc3161!EmptyBytes
<1>5. c = [leaf |-> Rfc3161!MarshalJSON("0.0.1", [tsr |-> [content |-> d]]), entry |-> v]
  BY DEF Rfc3161!Canonicalize
<1>6. pe.spec.tsr.content = d /\ c.entry = v
  BY <1>5 DEF Rfc3161!MarshalJSON
<1> HIDE DEF d
<1>7. PICK x \in Rfc3161!DecodeEntry(pe.spec) : w = [obj |-> x, tsrContent |-> x.tsr.content]
  BY DEF Rfc3161!UnmarshalEntry, Rfc3161!Unmarshal
<1> DEFINE Tsr(y) == {[content |-> b] : b \in Rfc3161!DecodeBytes(y.content)}
<1>8. PICK y : y \in (IF pe.spec.tsr = Nil THEN {Nil} ELSE Tsr(pe.spec.tsr)) /\ x = [tsr |-> y]
  BY <1>7 DEF Rfc3161!DecodeEntry, Rfc3161!Member
<1>9. y.content = d
  <2>1. CASE pe.spec.tsr = Nil
    BY <1>6, <1>8, <2>1
  <2>2. CASE pe.spec.tsr # Nil
    <3>1. PICK b \in Rfc3161!DecodeBytes(d) : y = [content |-> b]
      BY <1>6, <1>8, <2>2
    <3>2. b = d
      BY <1>3, <1>4, <3>1 DEF Rfc3161!DecodeBytes
    <3>3. QED BY <3>1, <3>2
  <2>3. QED BY <2>1, <2>2
<1>10. w.obj = x /\ w.tsrContent = x.tsr.content /\ x.tsr = y
  BY <1>7, <1>8
<1>11. QED BY <1>2, <1>6, <1>9, <1>10 DEF d

LEMMA Rfc3161Keys ==
  ASSUME NEW po, NEW v \in Rfc3161!UnmarshalEntry(po), Rfc3161!Insertable(v),
         NEW t, NEW c \in Rfc3161!Canonicalize(v, t),
         NEW pe, pe.spec = c.leaf.spec, NEW w \in Rfc3161!UnmarshalEntry(pe), NEW u
  PROVE  Rfc3161!IndexKeys(w, u) \subseteq Rfc3161!IndexKeys(c.entry, t)
BY Rfc3161Read DEF Rfc3161!IndexKeys

\* The canonical form of a PGP key, whose identities are in any order, is read as a key
\* with the same canonical forms and the same subjects.
LEMMA PgpCanonicalAgain ==
  ASSUME NEW k, NEW p \in Rpm!PgpKeyCanonicalValue(k), NEW n \in Rpm!PgpNewPublicKey(p)
  PROVE  Rpm!PgpKeyCanonicalValue(n) = Rpm!PgpKeyCanonicalValue(k) /\ Rpm!PgpSubjects(n) = Rpm!PgpSubjects(k)
<1>1. PICK r \in [DOMAIN k.ring -> UNION {Rpm!PgpSerialize(k.ring[j]) : j \in DOMAIN k.ring}] :
        /\ \A j \in DOMAIN r : r[j] \in Rpm!PgpSerialize(k.ring[j])
        /\ p = [fmt |-> "pgp key", enc |-> "canonical", ring |-> r]
  BY DEF Rpm!PgpKeyCanonicalValue
<1>2. n = [fmt |-> "pgp", ring |-> p.ring]
  BY DEF Rpm!PgpNewPublicKey
<1>3. n.ring = r /\ DOMAIN r = DOMAIN k.ring
  BY <1>1, <1>2
<1>4. ASSUME NEW s, NEW u \in Rpm!AnyOrder(s)
      PROVE  Rpm!Elems(u) = Rpm!Elems(s) /\ Rpm!AnyOrder(u) = Rpm!AnyOrder(s)
  <2>1. Rpm!Elems(u) = Rpm!Elems(s) /\ DOMAIN u = DOMAIN s
    BY DEF Rpm!AnyOrder
  <2>2. QED BY <2>1 DEF Rpm!AnyOrder
<1>5. ASSUME NEW i \in DOMAIN k.ring
      PROVE  /\ Rpm!PgpSerialize(r[i]) = Rpm!PgpSerialize(k.ring[i])
             /\ Rpm!Elems(r[i].uids) = Rpm!Elems(k.ring[i].uids)
  <2>1. PICK u \in Rpm!AnyOrder(k.ring[i].uids) : r[i] = [key |-> k.ring[i].key, uids |-> u, private |-> FALSE]
    BY <1>1, <1>3 DEF Rpm!PgpSerialize
  <2>2. r[i].key = k.ring[i].key /\ r[i].uids = u
    BY <2>1
  <2>3. QED BY <1>4, <2>1, <2>2 DEF Rpm!PgpSerialize
<1>6. Rpm!PgpKeyCanonicalValue(n) = Rpm!PgpKeyCanonicalValue(k)
  <2> DEFINE Rings(y) == {x \in [DOMAIN y -> UNION {Rpm!PgpSerialize(y[j]) : j \in DOMAIN y}] :
                            \A j \in DOMAIN x : x[j] \in Rpm!PgpSerialize(y[j])}
             Doc(x) == [fmt |-> "pgp key", enc |-> "canonical", ring |-> x]
  <2>1. \A y : Rpm!PgpKeyCanonicalValue(y) = {Doc(x) : x \in Rings(y.ring)}
    BY DEF Rpm!PgpKeyCanonicalValue
  <2>2. UNION {Rpm!PgpSerialize(r[j]) : j \in DOMAIN r} = UNION {Rpm!PgpSerialize(k.ring[j]) : j \in DOMAIN k.ring}
    BY <1>3, <1>5
  <2>3. Rings(r) = Rings(k.ring)
    <3>1. ASSUME NEW x, DOMAIN x = DOMAIN r
          PROVE  (\A j \in DOMAIN x : x[j] \in Rpm!PgpSerialize(r[j])) <=>
                 (\A j \in DOMAIN x : x[j] \in Rpm!PgpSerialize(k.ring[j]))
      BY <1>3, <1>5, <3>1
    <3>2. QED BY <1>3, <2>2, <3>1
  <2> HIDE DEF Rings, Doc
  <2>4. QED BY <1>3, <2>1, <2>3
<1>7. Rpm!PgpSubjects(n) = Rpm!PgpSubjects(k)
  <2>1. \A i \in DOMAIN r : Rpm!EmailsIn(n.ring[i].uids) = Rpm!EmailsIn(k.ring[i].uids)
    BY <1>3, <1>5 DEF Rpm!EmailsIn
  <2>2. QED BY <1>3, <2>1 DEF Rpm!PgpSubjects
<1>8. QED BY <1>6, <1>7

LEMMA RpmForm ==
  ASSUME NEW v, NEW t, NEW c \in Rpm!Canonicalize(v, t)
  PROVE  /\ \E k \in Rpm!PgpNewPublicKey(c.entry.publicKey.content) :
              c.leaf.spec.publicKey.content \in Rpm!PgpKeyCanonicalValue(k)
         /\ c.leaf.spec.package.hash = c.entry.package.hash /\ c.leaf.spec.package.content = Nil
<1> DEFINE Form(e, p) == [publicKey |-> [content |-> p],
                          package |-> [hash |-> e.entry.package.hash, content |-> Nil, headers |-> e.rpm.headers]]
<1>1. PICK e, p :
        /\ e \in Rpm!fetchExternalEntities(v, t) /\ p \in Rpm!PgpKeyCanonicalValue(e.key)
        /\ c = [leaf |-> Rpm!MarshalJSON("0.0.1", Form(e, p)), entry |-> e.entry]
  BY DEF Rpm!Canonicalize
<1>2. c.leaf = [kind |-> "rpm", apiVersion |-> "0.0.1", spec |-> Form(e, p)] /\ c.entry = e.entry
  BY <1>1 DEF Rpm!MarshalJSON
<1>3. /\ c.leaf.spec.publicKey.content = p
      /\ c.leaf.spec.package.content = Nil /\ c.leaf.spec.package.hash = e.entry.package.hash
  BY <1>2
<1>4. e.key \in Rpm!PgpNewPublicKey(v.publicKey.content) /\ e.entry.publicKey = v.publicKey
  BY <1>1 DEF Rpm!fetchExternalEntities
<1>5. QED BY <1>1, <1>2, <1>3, <1>4

\* A leaf has no package.
LEMMA RpmRead ==
  ASSUME NEW pe, NEW w \in Rpm!UnmarshalEntry(pe), pe.spec.package.content = Nil
  PROVE  /\ w.publicKey.content = pe.spec.publicKey.content
         /\ w.package.hash = pe.spec.package.hash /\ w.package.content = Nil
<1> DEFINE s == pe.spec
           Key(k) == {[content |-> b] : b \in Rpm!DecodeBytes(k.content)}
           Package(q) == {[hash |-> q.hash, content |-> b, headers |-> q.headers] :
                            b \in Rpm!DecodeBytes(q.content)}
<1>1. w \in Rpm!DecodeEntry(s) /\ Rpm!validate(w)
  BY DEF Rpm!UnmarshalEntry, Rpm!Unmarshal
<1>2. PICK k, q : /\ k \in (IF s.publicKey = Nil THEN {Nil} ELSE Key(s.publicKey))
                  /\ q \in (IF s.package = Nil THEN {Nil} ELSE Package(s.package))
                  /\ w = [publicKey |-> k, package |-> q]
  BY <1>1 DEF Rpm!DecodeEntry, Rpm!Member
<1>3. w.publicKey = k /\ w.package = q
  BY <1>2
<1>4. k # Nil /\ k.content # Nil /\ q # Nil
  BY <1>1, <1>3 DEF Rpm!validate
<1>5. k.content = s.publicKey.content
  <2>1. PICK b \in Rpm!DecodeBytes(s.publicKey.content) : k = [content |-> b]
    BY <1>2, <1>4
  <2>2. k.content = b
    BY <2>1
  <2>3. b = s.publicKey.content
    BY <1>4, <2>1, <2>2 DEF Rpm!DecodeBytes
  <2>4. QED BY <2>2, <2>3
<1>6. q.hash = s.package.hash /\ q.content = Nil
  <2>1. PICK b \in Rpm!DecodeBytes(s.package.content) :
          q = [hash |-> s.package.hash, content |-> b, headers |-> s.package.headers]
    BY <1>2, <1>4
  <2>2. b = Nil
    BY <2>1 DEF Rpm!DecodeBytes
  <2>3. QED BY <2>1, <2>2
<1>7. QED BY <1>3, <1>5, <1>6

LEMMA RpmKeys ==
  ASSUME NEW v, NEW t, NEW c \in Rpm!Canonicalize(v, t),
         NEW pe, pe.spec = c.leaf.spec, NEW w \in Rpm!UnmarshalEntry(pe), NEW u
  PROVE  Rpm!IndexKeys(w, u) \subseteq Rpm!IndexKeys(c.entry, t)
<1> DEFINE p == c.leaf.spec.publicKey.content
           h == c.entry.package.hash
           hash == IF h = Nil THEN {} ELSE {Rpm!HashKey(h.algorithm, h.value)}
           Of(n) == {{Rpm!BytesKey(d)} \cup Rpm!NameKeys(Rpm!PgpSubjects(n)) \cup hash :
                       d \in Rpm!PgpKeyCanonicalValue(n)}
<1>1. PICK k \in Rpm!PgpNewPublicKey(c.entry.publicKey.content) : p \in Rpm!PgpKeyCanonicalValue(k)
  BY RpmForm
<1>2. c.leaf.spec.package.hash = h /\ c.leaf.spec.package.content = Nil
  BY RpmForm
<1>3. w.publicKey.content = p /\ w.package.hash = h
  BY <1>2, RpmRead
<1>4. Rpm!IndexKeys(w, u) = UNION {Of(n) : n \in Rpm!PgpNewPublicKey(p)}
  BY <1>3 DEF Rpm!IndexKeys
<1>5. Rpm!IndexKeys(c.entry, t) = UNION {Of(n) : n \in Rpm!PgpNewPublicKey(c.entry.publicKey.content)}
  BY DEF Rpm!IndexKeys
<1>6. \A n \in Rpm!PgpNewPublicKey(p) : Of(n) = Of(k)
  BY <1>1, PgpCanonicalAgain
<1> HIDE DEF Of
<1>7. QED BY <1>1, <1>4, <1>5, <1>6

\* Canonical JSON is its own canonical form and has the role and the version.
LEMMA TufKeys ==
  ASSUME NEW v, NEW t, NEW c \in Tuf!Canonicalize(v, t),
         NEW pe, pe.spec = c.leaf.spec, NEW w \in Tuf!UnmarshalEntry(pe), NEW u
  PROVE  Tuf!IndexKeys(w, u) \subseteq Tuf!IndexKeys(c.entry, t)
<1> DEFINE Form(m, r) == [metadata |-> [content |-> m], root |-> [content |-> r]]
           Keys(sig, key) == {Tuf!BytesKey(Tuf!TufCanonicalJSON(sig)), Tuf!NameKey(sig.role),
                              Tuf!NameKey(sig.version), Tuf!BytesKey(Tuf!TufCanonicalJSON(key))}
<1>1. \E e \in Tuf!Verified(v, t) :
        \E m \in Tuf!TufSigCanonicalValue(e.sig), r \in Tuf!TufKeyCanonicalValue(e.key) :
          c = [leaf |-> Tuf!MarshalJSON("0.0.1", Form(m, r)), entry |-> v]
  BY DEF Tuf!Canonicalize
<1>2. PICK e, m, r :
        /\ e \in Tuf!Verified(v, t)
        /\ m \in Tuf!TufSigCanonicalValue(e.sig) /\ r \in Tuf!TufKeyCanonicalValue(e.key)
        /\ c = [leaf |-> Tuf!MarshalJSON("0.0.1", Form(m, r)), entry |-> v]
  BY <1>1
<1>3. c.leaf = [kind |-> "tuf", apiVersion |-> "0.0.1", spec |-> Form(m, r)] /\ c.entry = v
  BY <1>2 DEF Tuf!MarshalJSON
<1>4. pe.spec.metadata.content = m /\ pe.spec.root.content = r
  BY <1>3
<1>5. ASSUME NEW x, NEW i, NEW f \in Tuf!fetchExternalEntities(x, i)
      PROVE  /\ f.sig.signed = x.metadata.content /\ f.key.root = x.root.content
             /\ Tuf!IndexKeys(x, i) = {Keys(x.metadata.content, x.root.content)}
  <2> DEFINE S == Tuf!fetchExternalEntities(x, i)
             a == x.metadata.content
             b == x.root.content
  <2>1. ASSUME NEW g \in S PROVE g.sig.signed = a /\ g.key.root = b
    <3>1. PICK k, n : /\ n \in Tuf!TufNewSignature(a) /\ k \in Tuf!TufNewPublicKey(b, i)
                      /\ g = [key |-> k, sig |-> n]
      BY DEF Tuf!fetchExternalEntities, Tuf!parseMetadataContent, Tuf!parseRootContent
    <3>2. n = [fmt |-> "tuf", signed |-> a] /\ k = [fmt |-> "tuf", root |-> b]
      BY <3>1 DEF Tuf!TufNewSignature, Tuf!TufNewPublicKey
    <3>3. n.signed = a /\ k.root = b /\ g.key = k /\ g.sig = n
      BY <3>1, <3>2
    <3>4. QED BY <3>3
  <2>2. \A g \in S : /\ Tuf!TufSigCanonicalValue(g.sig) = {Tuf!TufCanonicalJSON(a)}
                     /\ Tuf!TufKeyCanonicalValue(g.key) = {Tuf!TufCanonicalJSON(b)}
    BY <2>1 DEF Tuf!TufSigCanonicalValue, Tuf!TufKeyCanonicalValue
  <2>3. /\ UNION {Tuf!TufSigCanonicalValue(g.sig) : g \in S} = {Tuf!TufCanonicalJSON(a)}
        /\ UNION {Tuf!TufKeyCanonicalValue(g.key) : g \in S} = {Tuf!TufCanonicalJSON(b)}
    BY <1>5, <2>2
  <2> DEFINE M == UNION {Tuf!TufSigCanonicalValue(g.sig) : g \in S}
             R == UNION {Tuf!TufKeyCanonicalValue(g.key) : g \in S}
             Set(g, m1, r1) == {Tuf!BytesKey(m1), Tuf!NameKey(g.sig.signed.role), Tuf!NameKey(g.sig.signed.version),
                                Tuf!BytesKey(r1)}
  <2>4. Tuf!IndexKeys(x, i) = {Set(g, m1, r1) : g \in S, m1 \in M, r1 \in R}
    BY DEF Tuf!IndexKeys
  <2>5. \A g \in S : Set(g, Tuf!TufCanonicalJSON(a), Tuf!TufCanonicalJSON(b)) = Keys(a, b)
    BY <2>1
  <2>6. M = {Tuf!TufCanonicalJSON(a)} /\ R = {Tuf!TufCanonicalJSON(b)} /\ f \in S
    BY <1>5, <2>3
  <2> HIDE DEF Set, Keys, S, M, R
  <2>7. Tuf!IndexKeys(x, i) = {Keys(a, b)}
    BY <2>4, <2>5, <2>6
  <2>8. QED BY <2>1, <2>6, <2>7
<1>6. Tuf!IndexKeys(v, t) = {Keys(v.metadata.content, v.root.content)}
  BY <1>2, <1>5 DEF Tuf!Verified
<1>7. m = Tuf!TufCanonicalJSON(v.metadata.content) /\ r = Tuf!TufCanonicalJSON(v.root.content)
  BY <1>2, <1>5 DEF Tuf!Verified, Tuf!TufSigCanonicalValue, Tuf!TufKeyCanonicalValue
<1>8. \A d : LET j == Tuf!TufCanonicalJSON(d)
             IN Tuf!TufCanonicalJSON(j) = j /\ j.role = d.role /\ j.version = d.version
  BY DEF Tuf!TufCanonicalJSON
<1>9. Keys(m, r) = Keys(v.metadata.content, v.root.content)
  BY <1>7, <1>8
<1>10. w = [metadata |-> pe.spec.metadata, root |-> pe.spec.root]
  BY DEF Tuf!UnmarshalEntry, Tuf!Unmarshal, Tuf!DecodeEntry
<1>11. w.metadata.content = m /\ w.root.content = r
  BY <1>4, <1>10
<1> HIDE DEF Keys
<1>12. Tuf!IndexKeys(w, u) \subseteq {Keys(m, r)}
  <2>1. CASE Tuf!fetchExternalEntities(w, u) = {}
    BY <2>1 DEF Tuf!IndexKeys
  <2>2. CASE Tuf!fetchExternalEntities(w, u) # {}
    BY <1>5, <1>11, <2>2
  <2>3. QED BY <2>1, <2>2
<1>13. QED BY <1>3, <1>6, <1>9, <1>12

\* Whenever the keys of an entry are computed from its leaf they are keys that it had
\* when it was submitted.
KeysRecomputed(leaf, entry, at) ==
  leaf.kind \in KeysInLeaf =>
    \A e \in ReadLeaf(leaf) : \A t \in 0 .. MaxTime : IndexKeys(e, t) \subseteq IndexKeys(entry, at)

\* The index has, of every leaf that was backfilled, the keys of some reading of it.
BackfillInv ==
  /\ now \in 0 .. MaxTime
  /\ \A x \in created : KeysRecomputed(x.leaf, x.entry, x.at)
  /\ \A l \in backfilled : \E e \in ReadLeaf(l) : \E t \in 0 .. MaxTime : \E keys \in IndexKeys(e, t) :
       \A k \in keys : <<k, l>> \in index

LEMMA CanonicalKeys ==
  ASSUME NEW pe, NEW e \in CreateVersionedEntry(pe, AcceptedKinds), NEW at, NEW f \in CanonicalizeEntry(e, at)
  PROVE  KeysRecomputed(f.leaf, f.entry, at)
<1> SUFFICES ASSUME f.leaf.kind \in KeysInLeaf, NEW r \in ReadLeaf(f.leaf), NEW t
             PROVE  IndexKeys(r, t) \subseteq IndexKeys(f.entry, at)
  BY DEF KeysRecomputed
<1>1. e \in UnmarshalEntry(pe) /\ Insertable(e)
  BY DEF CreateVersionedEntry
<1>2. e.kind = pe.kind /\ pe.kind \in Kinds
  BY <1>1, UnmarshalByKind
<1>3. e.kind = "intoto" => e.version \in {"0.0.1", "0.0.2"}
  BY <1>1, UnmarshalByKind
<1>4. f.entry.kind = e.kind /\ f.entry.version = e.version
  BY <1>2, <1>3, CanonicalByKind
<1>5. PICK c : CanonicalOf(c, e, at) /\ f.leaf = c.leaf /\ f.entry.impl = c.entry
  BY <1>2, <1>3, CanonicalByKind
<1>6. f.leaf.kind = e.kind
  BY <1>2, <1>3, <1>5, LeafKinds DEF CanonicalOf, Kinds
<1>7. PICK q : q.kind = f.leaf.kind /\ q.spec = f.leaf.spec /\ r \in UnmarshalEntry(q)
  BY <1>2, <1>6, LeafRead
<1>8. CASE e.kind = "alpine"
  <2>1. c \in Alpine!Canonicalize(e.impl, at)
    BY <1>5, <1>8 DEF CanonicalOf
  <2>2. r.kind = "alpine" /\ r.impl \in Alpine!UnmarshalEntry(q)
    BY <1>6, <1>7, <1>8, UnmarshalByKind
  <2>3. Alpine!IndexKeys(r.impl, t) \subseteq Alpine!IndexKeys(c.entry, at)
    BY <1>5, <1>7, <2>1, <2>2, AlpineKeys
  <2>4. IndexKeys(r, t) = Alpine!IndexKeys(r.impl, t) /\ IndexKeys(f.entry, at) = Alpine!IndexKeys(c.entry, at)
    BY <1>4, <1>5, <1>8, <2>2 DEF IndexKeys
  <2>5. QED BY <2>3, <2>4
<1>9. CASE e.kind = "hashedrekord"
  <2>1. c \in HashedRekord!Canonicalize(e.impl, at)
    BY <1>5, <1>9 DEF CanonicalOf
  <2>2. r.kind = "hashedrekord" /\ r.impl \in HashedRekord!UnmarshalEntry(q)
    BY <1>6, <1>7, <1>9, UnmarshalByKind
  <2>3. HashedRekord!IndexKeys(r.impl, t) \subseteq HashedRekord!IndexKeys(c.entry, at)
    BY <1>5, <1>7, <2>1, <2>2, HashedRekordKeys
  <2>4. IndexKeys(r, t) = HashedRekord!IndexKeys(r.impl, t) /\ IndexKeys(f.entry, at) = HashedRekord!IndexKeys(c.entry, at)
    BY <1>4, <1>5, <1>9, <2>2 DEF IndexKeys
  <2>5. QED BY <2>3, <2>4
<1>10. CASE e.kind = "jar"
  <2>1. c \in Jar!Canonicalize(e.impl, at)
    BY <1>5, <1>10 DEF CanonicalOf
  <2>2. r.kind = "jar" /\ r.impl \in Jar!UnmarshalEntry(q)
    BY <1>6, <1>7, <1>10, UnmarshalByKind
  <2>3. Jar!IndexKeys(r.impl, t) \subseteq Jar!IndexKeys(c.entry, at)
    BY <1>5, <1>7, <2>1, <2>2, JarKeys
  <2>4. IndexKeys(r, t) = Jar!IndexKeys(r.impl, t) /\ IndexKeys(f.entry, at) = Jar!IndexKeys(c.entry, at)
    BY <1>4, <1>5, <1>10, <2>2 DEF IndexKeys
  <2>5. QED BY <2>3, <2>4
<1>11. CASE e.kind = "rekord"
  <2>1. c \in Rekord!Canonicalize(e.impl, at)
    BY <1>5, <1>11 DEF CanonicalOf
  <2>2. r.kind = "rekord" /\ r.impl \in Rekord!UnmarshalEntry(q)
    BY <1>6, <1>7, <1>11, UnmarshalByKind
  <2>3. Rekord!IndexKeys(r.impl, t) \subseteq Rekord!IndexKeys(c.entry, at)
    BY <1>5, <1>7, <2>1, <2>2, RekordKeys
  <2>4. IndexKeys(r, t) = Rekord!IndexKeys(r.impl, t) /\ IndexKeys(f.entry, at) = Rekord!IndexKeys(c.entry, at)
    BY <1>4, <1>5, <1>11, <2>2 DEF IndexKeys
  <2>5. QED BY <2>3, <2>4
<1>12. CASE e.kind = "rfc3161"
  <2>1. c \in Rfc3161!Canonicalize(e.impl, at)
    BY <1>5, <1>12 DEF CanonicalOf
  <2>2. r.kind = "rfc3161" /\ r.impl \in Rfc3161!UnmarshalEntry(q)
    BY <1>6, <1>7, <1>12, UnmarshalByKind
  <2>3. e.impl \in Rfc3161!UnmarshalEntry(pe) /\ Rfc3161!Insertable(e.impl)
    BY <1>1, <1>2, <1>12, UnmarshalByKind DEF Insertable
  <2>4. Rfc3161!IndexKeys(r.impl, t) \subseteq Rfc3161!IndexKeys(c.entry, at)
    BY <1>5, <1>7, <2>1, <2>2, <2>3, Rfc3161Keys
  <2>5. IndexKeys(r, t) = Rfc3161!IndexKeys(r.impl, t) /\ IndexKeys(f.entry, at) = Rfc3161!IndexKeys(c.entry, at)
    BY <1>4, <1>5, <1>12, <2>2 DEF IndexKeys
  <2>6. QED BY <2>4, <2>5
<1>13. CASE e.kind = "rpm"
  <2>1. c \in Rpm!Canonicalize(e.impl, at)
    BY <1>5, <1>13 DEF CanonicalOf
  <2>2. r.kind = "rpm" /\ r.impl \in Rpm!UnmarshalEntry(q)
    BY <1>6, <1>7, <1>13, UnmarshalByKind
  <2>3. Rpm!IndexKeys(r.impl, t) \subseteq Rpm!IndexKeys(c.entry, at)
    BY <1>5, <1>7, <2>1, <2>2, RpmKeys
  <2>4. IndexKeys(r, t) = Rpm!IndexKeys(r.impl, t) /\ IndexKeys(f.entry, at) = Rpm!IndexKeys(c.entry, at)
    BY <1>4, <1>5, <1>13, <2>2 DEF IndexKeys
  <2>5. QED BY <2>3, <2>4
<1>14. CASE e.kind = "tuf"
  <2>1. c \in Tuf!Canonicalize(e.impl, at)
    BY <1>5, <1>14 DEF CanonicalOf
  <2>2. r.kind = "tuf" /\ r.impl \in Tuf!UnmarshalEntry(q)
    BY <1>6, <1>7, <1>14, UnmarshalByKind
  <2>3. Tuf!IndexKeys(r.impl, t) \subseteq Tuf!IndexKeys(c.entry, at)
    BY <1>5, <1>7, <2>1, <2>2, TufKeys
  <2>4. IndexKeys(r, t) = Tuf!IndexKeys(r.impl, t) /\ IndexKeys(f.entry, at) = Tuf!IndexKeys(c.entry, at)
    BY <1>4, <1>5, <1>14, <2>2 DEF IndexKeys
  <2>5. QED BY <2>3, <2>4
<1>15. QED BY <1>6, <1>8, <1>9, <1>10, <1>11, <1>12, <1>13, <1>14 DEF KeysInLeaf

LEMMA BackfillNext == BackfillInv /\ [Next]_vars => BackfillInv'
<1> SUFFICES ASSUME BackfillInv, [Next]_vars PROVE BackfillInv'
  OBVIOUS
<1> DEFINE Done(l) == \E e \in ReadLeaf(l) : \E t \in 0 .. MaxTime : \E keys \in IndexKeys(e, t) :
                        \A k \in keys : <<k, l>> \in index
           DoneNext(l) == \E e \in ReadLeaf(l) : \E t \in 0 .. MaxTime : \E keys \in IndexKeys(e, t) :
                            \A k \in keys : <<k, l>> \in index'
<1>1. ASSUME index \subseteq index', NEW l, Done(l) PROVE DoneNext(l)
  BY <1>1
<1>2. now' \in 0 .. MaxTime
  <2>1. CASE Tick
    BY <2>1, BoundsAssumption DEF Tick, BackfillInv
  <2>2. CASE now' = now
    BY <2>2 DEF BackfillInv
  <2>3. QED
    BY <2>1, <2>2 DEF Next, StartUpload, TryNext, Refused, createLogEntry, AlreadyExists, addToIndex,
                      StoreAttestation, populate, vars
<1>3. \A x \in created' : KeysRecomputed(x.leaf, x.entry, x.at)
  <2>1. CASE created' = created
    BY <2>1 DEF BackfillInv
  <2>2. ASSUME NEW c \in Clients, createLogEntry(c), NEW x \in created' PROVE KeysRecomputed(x.leaf, x.entry, x.at)
    <3>1. PICK pe, e, f : /\ e \in CreateVersionedEntry(pe, AcceptedKinds) /\ f \in CanonicalizeEntry(e, now)
                          /\ created' = created \cup {[source |-> command[c].source, leaf |-> f.leaf,
                                                       entry |-> f.entry, at |-> now]}
      BY <2>2, CreatedIsCanonical
    <3>2. KeysRecomputed(f.leaf, f.entry, now)
      BY <3>1, CanonicalKeys
    <3>3. x \in created \/ (x.leaf = f.leaf /\ x.entry = f.entry /\ x.at = now)
      BY <2>2, <3>1
    <3>4. QED BY <3>2, <3>3 DEF BackfillInv
  <2>3. QED
    BY <2>1, <2>2 DEF Next, StartUpload, TryNext, Refused, AlreadyExists, addToIndex, StoreAttestation,
                      populate, Tick, vars
<1>4. \A l \in backfilled' : DoneNext(l)
  <2>1. CASE backfilled' = backfilled /\ index \subseteq index'
    <3>1. \A l \in backfilled : Done(l)
      BY DEF BackfillInv
    <3> HIDE DEF Done, DoneNext
    <3>2. QED BY <1>1, <2>1, <3>1
  <2>2. ASSUME NEW m \in log, populate(m) PROVE \A l \in backfilled' : DoneNext(l)
    <3>1. PICK r \in logEntryFromLeaf(m) : \E e \in ReadLeaf(r.body) : \E keys \in IndexKeys(e, now) :
            index' = index \cup {<<k, m>> : k \in keys}
      BY <2>2 DEF populate
    <3>2. r.body = m
      BY DEF logEntryFromLeaf
    <3>3. PICK e \in ReadLeaf(m) : \E keys \in IndexKeys(e, now) : index' = index \cup {<<k, m>> : k \in keys}
      BY <3>1, <3>2
    <3>4. PICK keys \in IndexKeys(e, now) : index' = index \cup {<<k, m>> : k \in keys}
      BY <3>3
    <3>5. now \in 0 .. MaxTime
      BY DEF BackfillInv
    <3>6. DoneNext(m)
      BY <3>3, <3>4, <3>5
    <3>7. backfilled' = backfilled \cup {m} /\ index \subseteq index'
      BY <2>2, <3>4 DEF populate
    <3>8. \A l \in backfilled : Done(l)
      BY DEF BackfillInv
    <3> HIDE DEF Done, DoneNext
    <3>9. QED BY <1>1, <3>6, <3>7, <3>8
  <2>3. QED
    BY <2>1, <2>2 DEF Next, StartUpload, TryNext, Refused, createLogEntry, AlreadyExists, addToIndex,
                      StoreAttestation, Tick, vars
<1>5. QED BY <1>2, <1>3, <1>4 DEF BackfillInv

\* The backfill is complete: a leaf of one of these kinds is read as an entry whose keys
\* are those of the entry that was submitted, and the index never loses one.
THEOREM BackfillIsComplete == Spec => []BackfillComplete
<1>1. Init => BackfillInv
  BY BoundsAssumption DEF Init, BackfillInv
<1>2. BackfillInv => BackfillComplete
  <2> SUFFICES ASSUME BackfillInv, NEW x \in created, x.leaf \in backfilled, x.leaf.kind \in KeysInLeaf
               PROVE  \E keys \in IndexKeys(x.entry, x.at) : \A k \in keys : <<k, x.leaf>> \in index
    BY DEF BackfillComplete
  <2>1. KeysRecomputed(x.leaf, x.entry, x.at)
    BY DEF BackfillInv
  <2>2. PICK e \in ReadLeaf(x.leaf), t \in 0 .. MaxTime :
          \E keys \in IndexKeys(e, t) : \A k \in keys : <<k, x.leaf>> \in index
    BY DEF BackfillInv
  <2>3. IndexKeys(e, t) \subseteq IndexKeys(x.entry, x.at)
    BY <2>1, <2>2 DEF KeysRecomputed
  <2>4. QED BY <2>2, <2>3
<1>3. QED BY <1>1, <1>2, BackfillNext, PTL DEF Spec
---------------------------------------------------------------------------
(* What a leaf is read as.  For each kind: an entry that cannot be inserted*)
(* or has the same leaf, with the same verifiers.                          *)

LEMMA AlpineSame ==
  ASSUME NEW v, NEW t, NEW c \in Alpine!Canonicalize(v, t),
         NEW pe, pe.spec = c.leaf.spec, NEW w \in Alpine!UnmarshalEntry(pe)
  PROVE  ~Alpine!Insertable(w) /\ Alpine!Verifiers(w, t) = Alpine!Verifiers(c.entry, t)
BY AlpineRead DEF Alpine!Insertable, Alpine!Verifiers

LEMMA CoseSame ==
  ASSUME NEW po, NEW v \in Cose!UnmarshalEntry(po), NEW t, NEW c \in Cose!Canonicalize(v, t),
         NEW pe, pe.spec = c.leaf.spec, NEW w \in Cose!UnmarshalEntry(pe)
  PROVE  ~Cose!Insertable(w) /\ Cose!Verifiers(w, t) = Cose!Verifiers(c.entry, t)
<1> DEFINE Logged(p, d) == [message |-> Nil, publicKey |-> p, data |-> d]
<1>1. PICK o, k : /\ k \in Cose!X509NewPublicKey(o.publicKey)
                  /\ \E h : v = [obj |-> o, keyObj |-> k, sign1Msg |-> o.message, envelopeHash |-> h]
  BY DEF Cose!UnmarshalEntry, Cose!Unmarshal
<1>2. v.obj = o /\ v.keyObj = k
  BY <1>1
<1>3. PICK p, d : /\ p \in Cose!X509KeyCanonicalValue(k)
                  /\ c = [leaf |-> Cose!MarshalJSON("0.0.1", Logged(p, d)), entry |-> v]
  BY <1>2 DEF Cose!Canonicalize
<1>4. pe.spec = Logged(p, d) /\ c.entry = v
  BY <1>3 DEF Cose!MarshalJSON
<1>5. k = [fmt |-> "x509", blocks |-> o.publicKey.blocks]
  BY <1>1 DEF Cose!X509NewPublicKey
<1>6. p = [fmt |-> "pem", enc |-> "canonical", blocks |-> o.publicKey.blocks]
  BY <1>3, <1>5 DEF Cose!X509KeyCanonicalValue
<1>7. PICK x, q : /\ x \in Cose!DecodeEntry(pe.spec) /\ q \in Cose!X509NewPublicKey(x.publicKey)
                  /\ \E h : w = [obj |-> x, keyObj |-> q, sign1Msg |-> x.message, envelopeHash |-> h]
  BY DEF Cose!UnmarshalEntry, Cose!Unmarshal
<1>8. w.obj = x
  BY <1>7
<1>9. PICK m, a, b : /\ m \in Cose!DecodeBytes(pe.spec.message) /\ a \in Cose!DecodeBytes(pe.spec.publicKey)
                     /\ x = [message |-> m, publicKey |-> a, data |-> b]
  BY <1>7 DEF Cose!DecodeEntry, Cose!Member
<1>10. pe.spec.message = Nil /\ pe.spec.publicKey = p
  BY <1>4
<1>11. x.message = Nil
  BY <1>9, <1>10 DEF Cose!DecodeBytes
<1>12. a \in {Nil, p} /\ p # Cose!EmptyBytes
  BY <1>6, <1>9, <1>10 DEF Cose!DecodeBytes, Cose!EmptyBytes
<1>13. x.publicKey = p
  <2>1. x.publicKey = a
    BY <1>9
  <2>2. p = Nil => a = Nil
    BY <1>9, <1>10 DEF Cose!DecodeBytes
  <2>3. p # Nil => a = p
    BY <1>9, <1>10, <1>12 DEF Cose!DecodeBytes
  <2>4. QED BY <2>1, <2>2, <2>3
<1>14. Cose!X509NewPublicKey(o.publicKey) = {k} /\ Cose!X509NewPublicKey(p) = {k}
  <2>1. Cose!X509NewPublicKey(o.publicKey) = {k}
    BY <1>1, <1>5 DEF Cose!X509NewPublicKey
  <2>2. p.fmt = "pem" /\ p.blocks = o.publicKey.blocks
    BY <1>6
  <2>3. Cose!X509NewPublicKey(p) = {k}
    BY <1>1, <1>5, <2>2 DEF Cose!X509NewPublicKey
  <2>4. QED BY <2>1, <2>3
<1>15. QED BY <1>2, <1>4, <1>8, <1>11, <1>13, <1>14 DEF Cose!Insertable, Cose!Verifiers

LEMMA DsseSame ==
  ASSUME NEW v, NEW t, NEW c \in Dsse!Canonicalize(v, t),
         NEW pe, pe.spec = c.leaf.spec, NEW w \in Dsse!UnmarshalEntry(pe)
  PROVE  ~Dsse!Insertable(w) /\ Dsse!Verifiers(w, t) = Dsse!Verifiers(c.entry, t)
<1> DEFINE s == pe.spec
           Logged == [proposedContent |-> Nil, signatures |-> v.obj.signatures,
                      payloadHash |-> v.obj.payloadHash, envelopeHash |-> v.obj.envelopeHash]
<1>1. c = [leaf |-> Dsse!MarshalJSON("0.0.1", Logged), entry |-> v]
  BY DEF Dsse!Canonicalize
<1>2. s = Logged /\ c.entry = v
  BY <1>1 DEF Dsse!MarshalJSON
<1>3. s.proposedContent = Nil /\ s.signatures = v.obj.signatures /\ DOMAIN s = DOMAIN Logged
  BY <1>2
<1> DEFINE Content(y) == IF Dsse!NotBase64 \in {y.verifiers[i] : i \in DOMAIN y.verifiers} THEN {}
                         ELSE {[y EXCEPT !.verifiers = SelectSeq(@, LAMBDA d : d # Dsse!EmptyBytes)]}
<1> HIDE DEF Content
<1>4. Dsse!DecodeEntry(s) = {[s EXCEPT !.proposedContent = y] : y \in (IF s.proposedContent = Nil THEN {Nil} ELSE Content(s.proposedContent))}
  BY DEF Dsse!DecodeEntry, Dsse!Member, Content
<1>5. \A o \in Dsse!DecodeEntry(s) : o.proposedContent = Nil /\ o.signatures = v.obj.signatures
  BY <1>2, <1>3, <1>4
<1>6. PICK o \in Dsse!DecodeEntry(s) : w = [obj |-> o, env |-> Nil, extracted |-> {}, insertable |-> FALSE]
  BY <1>5 DEF Dsse!UnmarshalEntry, Dsse!Unmarshal
<1>7. w.obj = o /\ w.insertable = FALSE
  BY <1>6
<1>8. QED BY <1>2, <1>5, <1>6, <1>7 DEF Dsse!Insertable, Dsse!Verifiers

LEMMA HashedRekordLeaf ==
  ASSUME NEW v, NEW t, NEW c \in HashedRekord!Canonicalize(v, t)
  PROVE  c.leaf = [kind |-> "hashedrekord", apiVersion |-> "0.0.1", spec |-> c.entry]
<1>1. PICK r : c = [leaf |-> HashedRekord!MarshalJSON("0.0.1", r), entry |-> r]
  BY DEF HashedRekord!Canonicalize
<1>2. QED BY <1>1 DEF HashedRekord!MarshalJSON

\* The canonical form of an entry is a function of its signature, its key and its hash.
LEMMA HashedRekordForm ==
  ASSUME NEW v, NEW t, NEW c \in HashedRekord!Canonicalize(v, t)
  PROVE  c.entry = [signature |-> [content |-> HashedRekord!Bytes(v.signature.content),
                                   publicKey |-> [content |-> [fmt |-> "pem", enc |-> "canonical",
                                     blocks |-> HashedRekord!Bytes(v.signature.publicKey.content).blocks]]],
                    data |-> [hash |-> v.data.hash]]
<1> DEFINE Form(s, p) == [signature |-> [content |-> s, publicKey |-> [content |-> p]],
                          data |-> [hash |-> v.data.hash]]
           key == HashedRekord!Bytes(v.signature.publicKey.content)
           sig == HashedRekord!Bytes(v.signature.content)
<1>1. \E e \in HashedRekord!validate(v) :
        \E s \in HashedRekord!X509SigCanonicalValue(e.sig), p \in HashedRekord!X509KeyCanonicalValue(e.key) :
          c = [leaf |-> HashedRekord!MarshalJSON("0.0.1", Form(s, p)), entry |-> Form(s, p)]
  BY DEF HashedRekord!Canonicalize
<1>2. PICK e, s, p : /\ e \in HashedRekord!validate(v)
                     /\ s \in HashedRekord!X509SigCanonicalValue(e.sig)
                     /\ p \in HashedRekord!X509KeyCanonicalValue(e.key)
                     /\ c = [leaf |-> HashedRekord!MarshalJSON("0.0.1", Form(s, p)), entry |-> Form(s, p)]
  BY <1>1
<1>3. c.entry = Form(s, p)
  BY <1>2
<1>4. PICK k, g : /\ k \in HashedRekord!X509NewPublicKey(key) /\ g \in HashedRekord!X509NewSignature(sig)
                  /\ e = [key |-> k, sig |-> g]
  BY <1>2 DEF HashedRekord!validate
<1>5. e.key = k /\ e.sig = g
  BY <1>4
<1>6. k = [fmt |-> "x509", blocks |-> key.blocks] /\ g = [fmt |-> "x509", signature |-> sig]
  BY <1>4 DEF HashedRekord!X509NewPublicKey, HashedRekord!X509NewSignature
<1>7. k.blocks = key.blocks /\ g.signature = sig
  BY <1>6
<1>8. p = [fmt |-> "pem", enc |-> "canonical", blocks |-> key.blocks] /\ s = sig
  BY <1>2, <1>5, <1>7 DEF HashedRekord!X509KeyCanonicalValue, HashedRekord!X509SigCanonicalValue
<1>9. QED BY <1>3, <1>8

LEMMA HashedRekordSame ==
  ASSUME NEW v, NEW t, NEW c \in HashedRekord!Canonicalize(v, t),
         NEW pe, pe.spec = c.leaf.spec, NEW w \in HashedRekord!UnmarshalEntry(pe)
  PROVE  /\ HashedRekord!Insertable(w) => \A g \in HashedRekord!Canonicalize(w, t) : g.leaf = c.leaf
         /\ HashedRekord!Verifiers(w, t) = HashedRekord!Verifiers(c.entry, t)
<1> DEFINE blocks == HashedRekord!Bytes(v.signature.publicKey.content).blocks
           canonical == [fmt |-> "pem", enc |-> "canonical", blocks |-> blocks]
<1>1. /\ w.signature.publicKey.content = c.entry.signature.publicKey.content
      /\ w.signature.content \in {Nil, c.entry.signature.content}
      /\ w.data.hash = c.entry.data.hash
  BY HashedRekordRead
<1>2. ASSUME HashedRekord!Insertable(w), NEW g \in HashedRekord!Canonicalize(w, t) PROVE g.leaf = c.leaf
  <2>1. w.signature.content # Nil /\ w.signature.publicKey.content # Nil
    BY <1>2 DEF HashedRekord!Insertable
  <2>2. /\ HashedRekord!Bytes(w.signature.content) = c.entry.signature.content
        /\ HashedRekord!Bytes(w.signature.publicKey.content) = c.entry.signature.publicKey.content
    BY <1>1, <2>1 DEF HashedRekord!Bytes
  <2>3. c.entry = [signature |-> [content |-> HashedRekord!Bytes(v.signature.content),
                                  publicKey |-> [content |-> canonical]],
                   data |-> [hash |-> v.data.hash]]
    BY HashedRekordForm
  <2>4. /\ c.entry.signature.publicKey.content = canonical
        /\ c.entry.signature.content = HashedRekord!Bytes(v.signature.content)
        /\ c.entry.data.hash = v.data.hash
    BY <2>3
  <2>5. canonical.blocks = blocks
    OBVIOUS
  <2> HIDE DEF canonical, blocks
  <2>6. g.entry = [signature |-> [content |-> HashedRekord!Bytes(v.signature.content),
                     publicKey |-> [content |-> [fmt |-> "pem", enc |-> "canonical", blocks |-> blocks]]],
                   data |-> [hash |-> v.data.hash]]
    BY <1>1, <1>2, <2>2, <2>4, <2>5, HashedRekordForm
  <2>7. g.entry = c.entry
    BY <2>3, <2>6 DEF canonical
  <2>8. g.leaf = [kind |-> "hashedrekord", apiVersion |-> "0.0.1", spec |-> g.entry]
    BY <1>2, HashedRekordLeaf
  <2>9. c.leaf = [kind |-> "hashedrekord", apiVersion |-> "0.0.1", spec |-> c.entry]
    BY HashedRekordLeaf
  <2>10. QED BY <2>7, <2>8, <2>9
<1>3. HashedRekord!Verifiers(w, t) = HashedRekord!Verifiers(c.entry, t)
  BY <1>1 DEF HashedRekord!Verifiers
<1>4. QED BY <1>2, <1>3

\* A PGP key is read back from its canonical form with the same keys in it.
LEMMA PgpIdentitiesAgain ==
  ASSUME NEW d, NEW k \in PgpNewPublicKey(d), NEW p \in PgpKeyCanonicalValue(k)
  PROVE  UNION {Identities(x) : x \in PgpNewPublicKey(p)} = UNION {Identities(x) : x \in PgpNewPublicKey(d)}
<1>1. k = [fmt |-> "pgp", ring |-> d.ring] /\ PgpNewPublicKey(d) = {k}
  BY DEF PgpNewPublicKey
<1>2. PICK i \in DOMAIN d.ring : TRUE
  BY DEF PgpNewPublicKey
<1>3. k.ring = d.ring /\ k.fmt = "pgp"
  BY <1>1
<1>4. PICK r \in [DOMAIN k.ring -> UNION {PgpSerialize(k.ring[j]) : j \in DOMAIN k.ring}] :
        /\ \A j \in DOMAIN r : r[j] \in PgpSerialize(k.ring[j])
        /\ p = [fmt |-> "pgp key", enc |-> "canonical", ring |-> r]
  BY DEF PgpKeyCanonicalValue
<1>5. p.fmt = "pgp key" /\ p.ring = r /\ DOMAIN r = DOMAIN k.ring
  BY <1>4
<1>6. ASSUME NEW j \in DOMAIN r PROVE r[j].key = k.ring[j].key /\ r[j].private = FALSE
  <2>1. PICK u : r[j] = [key |-> k.ring[j].key, uids |-> u, private |-> FALSE]
    BY <1>4 DEF PgpSerialize
  <2>2. QED BY <2>1
<1> DEFINE n == [fmt |-> "pgp", ring |-> r]
<1>7. PgpNewPublicKey(p) = {n}
  BY <1>2, <1>3, <1>5, <1>6 DEF PgpNewPublicKey
<1>8. n.fmt = "pgp" /\ n.ring = r
  OBVIOUS
<1> HIDE DEF n
<1>9. PgpIdentities(n) = PgpIdentities(k)
  BY <1>5, <1>6, <1>8 DEF PgpIdentities
<1>10. Identities(n) = PgpIdentities(n) /\ Identities(k) = PgpIdentities(k)
  BY <1>3, <1>8 DEF Identities
<1>11. QED BY <1>1, <1>7, <1>9, <1>10

LEMMA HelmForm ==
  ASSUME NEW v, NEW t, NEW c \in Helm!Canonicalize(v, t)
  PROVE  /\ c.entry = v
         /\ \E k \in Helm!PgpNewPublicKey(v.publicKey.content) :
              c.leaf.spec.publicKey.content \in Helm!PgpKeyCanonicalValue(k)
         /\ c.leaf.spec.chart.provenance.content = Nil
<1> DEFINE Form(p, s, h) == [publicKey |-> [content |-> p],
                             chart |-> [hash |-> h,
                                        provenance |-> [content |-> Nil, signature |-> [content |-> s]]]]
<1>1. \E e \in Helm!fetchExternalEntities(v, t) :
        \E p \in Helm!PgpKeyCanonicalValue(e.key), s \in Helm!PgpSigCanonicalValue(e.sig),
           h \in Helm!GetChartAlgorithmHash(e.provenance) :
          c = [leaf |-> Helm!MarshalJSON("0.0.1", Form(p, s, h)), entry |-> v]
  BY DEF Helm!Canonicalize
<1>2. PICK e, p, s, h :
        /\ e \in Helm!fetchExternalEntities(v, t) /\ p \in Helm!PgpKeyCanonicalValue(e.key)
        /\ c = [leaf |-> Helm!MarshalJSON("0.0.1", Form(p, s, h)), entry |-> v]
  BY <1>1
<1>3. c.leaf = [kind |-> "helm", apiVersion |-> "0.0.1", spec |-> Form(p, s, h)] /\ c.entry = v
  BY <1>2 DEF Helm!MarshalJSON
<1>4. c.leaf.spec.publicKey.content = p /\ c.leaf.spec.chart.provenance.content = Nil
  BY <1>3
<1>5. PICK x, k, s2 : /\ k \in Helm!PgpNewPublicKey(v.publicKey.content)
                     /\ e = [provenance |-> x, key |-> k, sig |-> s2]
  BY <1>2 DEF Helm!fetchExternalEntities
<1>6. e.key = k
  BY <1>5
<1>7. QED BY <1>2, <1>3, <1>4, <1>5, <1>6

\* A leaf has no provenance file.
LEMMA HelmRead ==
  ASSUME NEW pe, NEW w \in Helm!UnmarshalEntry(pe), pe.spec.chart.provenance.content = Nil
  PROVE  w.publicKey.content = pe.spec.publicKey.content /\ w.chart.provenance.content = Nil
<1> DEFINE s == pe.spec
           Key(k) == {[content |-> b] : b \in Helm!DecodeBytes(k.content)}
           Sig(x) == {[content |-> b] : b \in Helm!DecodeBytes(x.content)}
           Provenance(p) == {[content |-> b, signature |-> x] :
                               b \in Helm!DecodeBytes(p.content),
                               x \in (IF p.signature = Nil THEN {Nil} ELSE Sig(p.signature))}
           Chart(q) == {[hash |-> q.hash, provenance |-> p] :
                          p \in (IF q.provenance = Nil THEN {Nil} ELSE Provenance(q.provenance))}
<1>1. w \in Helm!DecodeEntry(s) /\ Helm!validate(w)
  BY DEF Helm!UnmarshalEntry, Helm!Unmarshal
<1>2. PICK k, q : /\ k \in (IF s.publicKey = Nil THEN {Nil} ELSE Key(s.publicKey))
                  /\ q \in (IF s.chart = Nil THEN {Nil} ELSE Chart(s.chart))
                  /\ w = [publicKey |-> k, chart |-> q]
  BY <1>1 DEF Helm!DecodeEntry, Helm!Member
<1>3. w.publicKey = k /\ w.chart = q
  BY <1>2
<1>4. k # Nil /\ k.content # Nil /\ q # Nil /\ q.provenance # Nil
  BY <1>1, <1>3 DEF Helm!validate
<1>5. k.content = s.publicKey.content
  <2>1. PICK b \in Helm!DecodeBytes(s.publicKey.content) : k = [content |-> b]
    BY <1>2, <1>4
  <2>2. k.content = b
    BY <2>1
  <2>3. b = s.publicKey.content
    BY <1>4, <2>1, <2>2 DEF Helm!DecodeBytes
  <2>4. QED BY <2>2, <2>3
<1>6. q.provenance.content = Nil
  <2>1. PICK p : /\ p \in (IF s.chart.provenance = Nil THEN {Nil} ELSE Provenance(s.chart.provenance))
                 /\ q = [hash |-> s.chart.hash, provenance |-> p]
    BY <1>2, <1>4
  <2>2. q.provenance = p
    BY <2>1
  <2>3. PICK b, x : b \in Helm!DecodeBytes(s.chart.provenance.content) /\ p = [content |-> b, signature |-> x]
    BY <1>4, <2>1, <2>2
  <2>4. b = Nil
    BY <2>3 DEF Helm!DecodeBytes
  <2>5. p.content = b
    BY <2>3
  <2>6. QED BY <2>2, <2>4, <2>5
<1>7. QED BY <1>3, <1>5, <1>6

LEMMA HelmSame ==
  ASSUME NEW v, NEW t, NEW c \in Helm!Canonicalize(v, t),
         NEW pe, pe.spec = c.leaf.spec, NEW w \in Helm!UnmarshalEntry(pe)
  PROVE  /\ ~Helm!Insertable(w)
         /\ UNION {Identities(k) : k \in Helm!Verifiers(w, t)} = UNION {Identities(k) : k \in Helm!Verifiers(c.entry, t)}
<1> DEFINE p == c.leaf.spec.publicKey.content
           d == c.entry.publicKey.content
<1>1. PICK k \in Helm!PgpNewPublicKey(d) : p \in Helm!PgpKeyCanonicalValue(k)
  BY HelmForm
<1>2. w.publicKey.content = p /\ w.chart.provenance.content = Nil
  BY HelmForm, HelmRead
<1>3. k \in PgpNewPublicKey(d) /\ p \in PgpKeyCanonicalValue(k)
  BY <1>1 DEF Helm!PgpNewPublicKey, PgpNewPublicKey, Helm!PgpKeyCanonicalValue, PgpKeyCanonicalValue,
              Helm!PgpSerialize, PgpSerialize, Helm!AnyOrder, AnyOrder, Helm!Elems, Elems
<1>4. Helm!Verifiers(w, t) = PgpNewPublicKey(p) /\ Helm!Verifiers(c.entry, t) = PgpNewPublicKey(d)
  BY <1>2 DEF Helm!Verifiers, Helm!PgpNewPublicKey, PgpNewPublicKey
<1> HIDE DEF p, d
<1>5. UNION {Identities(x) : x \in PgpNewPublicKey(p)} = UNION {Identities(x) : x \in PgpNewPublicKey(d)}
  BY <1>3, PgpIdentitiesAgain
<1>6. QED BY <1>2, <1>4, <1>5 DEF Helm!Insertable

LEMMA IntotoV001Same ==
  ASSUME NEW po, NEW v \in IntotoV001!Unmarshal(po), NEW t, NEW c \in IntotoV001!Canonicalize(v, t),
         NEW pe, pe.spec = c.leaf.spec, NEW w \in IntotoV001!Unmarshal(pe)
  PROVE  ~IntotoV001!Insertable(w) /\ IntotoV001!Verifiers(w, t) = IntotoV001!Verifiers(c.entry, t)
<1>1. PICK o, k : k \in IntotoV001!X509NewPublicKey(o.publicKey) /\ v \in IntotoV001!validate(o, k)
  BY DEF IntotoV001!Unmarshal
<1>2. v.obj.publicKey = o.publicKey /\ v.keyObj = k
  <2>1. CASE o.content.envelope = Nil
    <3>1. v = [obj |-> o, keyObj |-> k, env |-> Nil]
      BY <1>1, <2>1 DEF IntotoV001!validate
    <3>2. QED BY <3>1
  <2>2. CASE o.content.envelope # Nil
    <3>1. \E x, y : v = [obj |-> [content |-> x, publicKey |-> o.publicKey], keyObj |-> k, env |-> y]
      BY <1>1, <2>2 DEF IntotoV001!validate
    <3>2. QED BY <3>1
  <2>3. QED BY <2>1, <2>2
<1> DEFINE Logged(p, x) == [publicKey |-> p, content |-> x]
           None == [envelope |-> Nil, hash |-> v.obj.content.hash, payloadHash |-> v.obj.content.payloadHash]
<1>3. PICK p : /\ p \in IntotoV001!X509KeyCanonicalValue(k)
               /\ c = [leaf |-> [kind |-> "intoto", apiVersion |-> "0.0.1", spec |-> Logged(p, None)], entry |-> v]
  BY <1>2 DEF IntotoV001!Canonicalize
<1>4. pe.spec.publicKey = p /\ pe.spec.content.envelope = Nil /\ c.entry = v
  BY <1>3
<1>5. k = [fmt |-> "x509", blocks |-> o.publicKey.blocks]
  BY <1>1 DEF IntotoV001!X509NewPublicKey
<1>6. p = [fmt |-> "pem", enc |-> "canonical", blocks |-> o.publicKey.blocks]
  BY <1>3, <1>5 DEF IntotoV001!X509KeyCanonicalValue
<1>7. p.fmt = "pem" /\ p.blocks = o.publicKey.blocks /\ p # IntotoV001!EmptyBytes
  BY <1>6 DEF IntotoV001!EmptyBytes
<1>8. PICK x, q : x \in IntotoV001!DecodeEntry(pe.spec) /\ w \in IntotoV001!validate(x, q)
  BY DEF IntotoV001!Unmarshal
<1>9. PICK a \in IntotoV001!DecodeBytes(p) : x = [content |-> pe.spec.content, publicKey |-> a]
  BY <1>4, <1>8 DEF IntotoV001!DecodeEntry
<1>10. a = p
  BY <1>7, <1>9 DEF IntotoV001!DecodeBytes
<1>11. x.content = pe.spec.content /\ x.publicKey = p
  BY <1>9, <1>10
<1>12. w = [obj |-> x, keyObj |-> q, env |-> Nil]
  BY <1>4, <1>8, <1>11 DEF IntotoV001!validate
<1>13. w.obj = x /\ w.env = Nil
  BY <1>12
<1>14. IntotoV001!X509NewPublicKey(o.publicKey) = {k}
  BY <1>1, <1>5 DEF IntotoV001!X509NewPublicKey
<1>15. IntotoV001!X509NewPublicKey(p) = {k}
  BY <1>1, <1>5, <1>7 DEF IntotoV001!X509NewPublicKey
<1>16. QED BY <1>2, <1>4, <1>11, <1>13, <1>14, <1>15 DEF IntotoV001!Insertable, IntotoV001!Verifiers

LEMMA IntotoV002Same ==
  ASSUME NEW v, NEW t, NEW c \in IntotoV002!Canonicalize(v, t),
         NEW pe, pe.spec = c.leaf.spec, NEW w \in IntotoV002!Unmarshal(pe)
  PROVE  ~IntotoV002!Insertable(w) /\ IntotoV002!Verifiers(w, t) = IntotoV002!Verifiers(c.entry, t)
<1> DEFINE sigs == v.obj.content.envelope.signatures
           Logged == [content |-> [envelope |-> [payload |-> Nil, payloadType |-> v.obj.content.envelope.payloadType,
                                                 signatures |-> sigs],
                                   hash |-> v.obj.content.hash, payloadHash |-> v.obj.content.payloadHash]]
<1>1. c = [leaf |-> IntotoV002!MarshalJSON("0.0.2", Logged), entry |-> v]
  BY DEF IntotoV002!Canonicalize
<1>2. pe.spec = Logged /\ c.entry = v
  BY <1>1 DEF IntotoV002!MarshalJSON
<1>3. pe.spec.content.envelope.payload = Nil /\ pe.spec.content.envelope.signatures = sigs
  BY <1>2
<1>4. w.env = Nil /\ w.obj.content.envelope.signatures = sigs
  BY <1>3, IntotoV002ReadBack
<1>5. QED BY <1>2, <1>4 DEF IntotoV002!Insertable, IntotoV002!Verifiers

LEMMA JarSame ==
  ASSUME NEW v, NEW t, NEW c \in Jar!Canonicalize(v, t),
         NEW pe, pe.spec = c.leaf.spec, NEW w \in Jar!UnmarshalEntry(pe)
  PROVE  ~Jar!Insertable(w) /\ Jar!Verifiers(w, t) = Jar!Verifiers(c.entry, t)
BY JarRead DEF Jar!Insertable, Jar!Verifiers

LEMMA RekordSame ==
  ASSUME NEW v, NEW t, NEW c \in Rekord!Canonicalize(v, t),
         NEW pe, pe.spec = c.leaf.spec, NEW w \in Rekord!UnmarshalEntry(pe)
  PROVE  ~Rekord!Insertable(w) /\ Rekord!Verifiers(w, t) = Rekord!Verifiers(c.entry, t)
<1>1. /\ w.signature.format = c.entry.signature.format /\ w.data.content = Nil
      /\ w.signature.publicKey.content = c.entry.signature.publicKey.content
  BY RekordForm, RekordRead
<1>2. QED BY <1>1 DEF Rekord!Insertable, Rekord!Verifiers

LEMMA Rfc3161Same ==
  ASSUME NEW po, NEW v \in Rfc3161!UnmarshalEntry(po), Rfc3161!Insertable(v),
         NEW t, NEW c \in Rfc3161!Canonicalize(v, t),
         NEW pe, pe.spec = c.leaf.spec, NEW w \in Rfc3161!UnmarshalEntry(pe)
  PROVE  /\ \A g \in Rfc3161!Canonicalize(w, t) : g.leaf = c.leaf
         /\ Rfc3161!Verifiers(w, t) = Rfc3161!Verifiers(c.entry, t)
<1>1. w.tsrContent = v.tsrContent
  BY Rfc3161Read
<1> DEFINE Leaf(d) == Rfc3161!MarshalJSON("0.0.1", [tsr |-> [content |-> d]])
<1>2. ASSUME NEW x, NEW g \in Rfc3161!Canonicalize(x, t) PROVE g.leaf = Leaf(x.tsrContent)
  BY DEF Rfc3161!Canonicalize
<1> HIDE DEF Leaf
<1>3. \A g \in Rfc3161!Canonicalize(w, t) : g.leaf = c.leaf
  BY <1>1, <1>2
<1>4. Rfc3161!Verifiers(w, t) = Rfc3161!Verifiers(c.entry, t)
  BY DEF Rfc3161!Verifiers
<1>5. QED BY <1>3, <1>4

LEMMA RpmSame ==
  ASSUME NEW v, NEW t, NEW c \in Rpm!Canonicalize(v, t),
         NEW pe, pe.spec = c.leaf.spec, NEW w \in Rpm!UnmarshalEntry(pe)
  PROVE  /\ ~Rpm!Insertable(w)
         /\ UNION {Identities(k) : k \in Rpm!Verifiers(w, t)} = UNION {Identities(k) : k \in Rpm!Verifiers(c.entry, t)}
<1> DEFINE p == c.leaf.spec.publicKey.content
           d == c.entry.publicKey.content
<1>1. PICK k \in Rpm!PgpNewPublicKey(d) : p \in Rpm!PgpKeyCanonicalValue(k)
  BY RpmForm
<1>2. w.publicKey.content = p /\ w.package.content = Nil
  BY RpmForm, RpmRead
<1>3. k \in PgpNewPublicKey(d) /\ p \in PgpKeyCanonicalValue(k)
  BY <1>1 DEF Rpm!PgpNewPublicKey, PgpNewPublicKey, Rpm!PgpKeyCanonicalValue, PgpKeyCanonicalValue,
              Rpm!PgpSerialize, PgpSerialize, Rpm!AnyOrder, AnyOrder, Rpm!Elems, Elems
<1>4. Rpm!Verifiers(w, t) = PgpNewPublicKey(p) /\ Rpm!Verifiers(c.entry, t) = PgpNewPublicKey(d)
  BY <1>2 DEF Rpm!Verifiers, Rpm!PgpNewPublicKey, PgpNewPublicKey
<1> HIDE DEF p, d
<1>5. UNION {Identities(x) : x \in PgpNewPublicKey(p)} = UNION {Identities(x) : x \in PgpNewPublicKey(d)}
  BY <1>3, PgpIdentitiesAgain
<1>6. QED BY <1>2, <1>4, <1>5 DEF Rpm!Insertable

\* Root and metadata of a leaf are the canonical JSON of what was submitted.
LEMMA TufForm ==
  ASSUME NEW v, NEW t, NEW c \in Tuf!Canonicalize(v, t)
  PROVE  /\ c.entry = v
         /\ c.leaf = [kind |-> "tuf", apiVersion |-> "0.0.1",
                      spec |-> [metadata |-> [content |-> Tuf!TufCanonicalJSON(v.metadata.content)],
                                root |-> [content |-> Tuf!TufCanonicalJSON(v.root.content)]]]
         /\ v.root.content # Tuf!NotBase64 /\ Tuf!TufNewPublicKey(v.root.content, t) # {}
<1> DEFINE Form(m, r) == [metadata |-> [content |-> m], root |-> [content |-> r]]
           a == v.metadata.content
           b == v.root.content
<1>1. \E e \in Tuf!Verified(v, t) :
        \E m \in Tuf!TufSigCanonicalValue(e.sig), r \in Tuf!TufKeyCanonicalValue(e.key) :
          c = [leaf |-> Tuf!MarshalJSON("0.0.1", Form(m, r)), entry |-> v]
  BY DEF Tuf!Canonicalize
<1>2. PICK e, m, r :
        /\ e \in Tuf!fetchExternalEntities(v, t)
        /\ m \in Tuf!TufSigCanonicalValue(e.sig) /\ r \in Tuf!TufKeyCanonicalValue(e.key)
        /\ c = [leaf |-> Tuf!MarshalJSON("0.0.1", Form(m, r)), entry |-> v]
  BY <1>1 DEF Tuf!Verified
<1>3. c.leaf = [kind |-> "tuf", apiVersion |-> "0.0.1", spec |-> Form(m, r)] /\ c.entry = v
  BY <1>2 DEF Tuf!MarshalJSON
<1>4. PICK k, n : /\ n \in Tuf!TufNewSignature(a) /\ k \in Tuf!TufNewPublicKey(b, t)
                  /\ b # Tuf!NotBase64 /\ e = [key |-> k, sig |-> n]
  BY <1>2 DEF Tuf!fetchExternalEntities, Tuf!parseMetadataContent, Tuf!parseRootContent
<1>5. n = [fmt |-> "tuf", signed |-> a] /\ k = [fmt |-> "tuf", root |-> b]
  BY <1>4 DEF Tuf!TufNewSignature, Tuf!TufNewPublicKey
<1>6. n.signed = a /\ k.root = b /\ e.key = k /\ e.sig = n
  BY <1>4, <1>5
<1>7. m = Tuf!TufCanonicalJSON(a) /\ r = Tuf!TufCanonicalJSON(b)
  BY <1>2, <1>6 DEF Tuf!TufSigCanonicalValue, Tuf!TufKeyCanonicalValue
<1>8. QED BY <1>3, <1>4, <1>7

LEMMA TufSame ==
  ASSUME NEW v, NEW t, NEW c \in Tuf!Canonicalize(v, t),
         NEW pe, pe.spec = c.leaf.spec, NEW w \in Tuf!UnmarshalEntry(pe)
  PROVE  /\ \A g \in Tuf!Canonicalize(w, t) : g.leaf = c.leaf
         /\ UNION {Identities(k) : k \in Tuf!Verifiers(w, t)} = UNION {Identities(k) : k \in Tuf!Verifiers(c.entry, t)}
<1> DEFINE a == v.metadata.content
           b == v.root.content
           m == Tuf!TufCanonicalJSON(a)
           r == Tuf!TufCanonicalJSON(b)
           Leaf(x, y) == [kind |-> "tuf", apiVersion |-> "0.0.1",
                          spec |-> [metadata |-> [content |-> x], root |-> [content |-> y]]]
<1>1. c.leaf = Leaf(m, r) /\ c.entry = v /\ b # Tuf!NotBase64 /\ Tuf!TufNewPublicKey(b, t) # {}
  BY TufForm
<1>2. c.leaf.spec.metadata.content = m /\ c.leaf.spec.root.content = r
  BY <1>1
<1>3. w = [metadata |-> pe.spec.metadata, root |-> pe.spec.root]
  BY DEF Tuf!UnmarshalEntry, Tuf!Unmarshal, Tuf!DecodeEntry
<1>4. w.metadata.content = m /\ w.root.content = r
  BY <1>2, <1>3
<1>5. \A d : Tuf!TufCanonicalJSON(Tuf!TufCanonicalJSON(d)) = Tuf!TufCanonicalJSON(d)
  BY DEF Tuf!TufCanonicalJSON
<1>6. /\ r.fmt = "tuf" /\ r.role = b.role /\ r.by = b.by /\ r.roles = b.roles /\ r.expires = b.expires
      /\ r # Tuf!NotBase64
  BY DEF Tuf!TufCanonicalJSON, Tuf!NotBase64
<1> HIDE DEF m, r
<1>7. ASSUME NEW g \in Tuf!Canonicalize(w, t) PROVE g.leaf = c.leaf
  <2>1. g.leaf = Leaf(Tuf!TufCanonicalJSON(m), Tuf!TufCanonicalJSON(r))
    BY <1>4, <1>7, TufForm
  <2>2. Tuf!TufCanonicalJSON(m) = m /\ Tuf!TufCanonicalJSON(r) = r
    BY <1>5 DEF m, r
  <2>3. QED BY <1>1, <2>1, <2>2
<1>8. Tuf!TufNewPublicKey(b, t) = {[fmt |-> "tuf", root |-> b]} /\ Tuf!TufNewPublicKey(r, t) = {[fmt |-> "tuf", root |-> r]}
  BY <1>1, <1>6 DEF Tuf!TufNewPublicKey, Tuf!TufVerifyMeta
<1>9. Tuf!Verifiers(w, t) = {[fmt |-> "tuf", root |-> r]} /\ Tuf!Verifiers(c.entry, t) = {[fmt |-> "tuf", root |-> b]}
  BY <1>1, <1>4, <1>6, <1>8 DEF Tuf!Verifiers, Tuf!parseRootContent
<1> DEFINE Root(d) == [fmt |-> "tuf", root |-> d]
           Of(R) == {<<"pkix", x>> : x \in UNION {R[y] : y \in DOMAIN R}}
<1>10. ASSUME NEW d PROVE Identities(Root(d)) = Of(d.roles)
  <2>1. Root(d).fmt = "tuf" /\ Root(d).root = d
    OBVIOUS
  <2> HIDE DEF Root
  <2>2. QED BY <2>1 DEF Identities, TufIdentities
<1> HIDE DEF Of
<1>11. Identities(Root(r)) = Identities(Root(b))
  BY <1>6, <1>10
<1>12. QED BY <1>7, <1>9, <1>11

\* What the server reads from a leaf that it has just made is the entry that was submitted:
\* it can only be inserted as the same leaf again, it is of the kind and the version that
\* the leaf names, and it has the same verifiers.
LEMMA CanonicalReads ==
  ASSUME NEW pe, NEW e \in CreateVersionedEntry(pe, AcceptedKinds), NEW at, NEW f \in CanonicalizeEntry(e, at)
  PROVE  ReadsAs(f.leaf, f.entry, at)
<1> SUFFICES ASSUME NEW r \in ReadLeaf(f.leaf)
             PROVE  /\ Insertable(r) => \A g \in CanonicalizeEntry(r, at) : g.leaf = f.leaf
                    /\ r.kind = f.leaf.kind /\ r.version = f.leaf.apiVersion
                    /\ IdentitiesOf(r, at) = IdentitiesOf(f.entry, at)
  BY DEF ReadsAs
<1>1. e \in UnmarshalEntry(pe) /\ Insertable(e)
  BY DEF CreateVersionedEntry
<1>2. e.kind = pe.kind /\ pe.kind \in Kinds
  BY <1>1, UnmarshalByKind
<1>3. e.kind = "intoto" => e.version \in {"0.0.1", "0.0.2"}
  BY <1>1, UnmarshalByKind
<1>4. f.entry.kind = e.kind /\ f.entry.version = e.version
  BY <1>2, <1>3, CanonicalByKind
<1>5. PICK c : CanonicalOf(c, e, at) /\ f.leaf = c.leaf /\ f.entry.impl = c.entry
  BY <1>2, <1>3, CanonicalByKind
<1>6. /\ f.leaf.kind = e.kind
      /\ f.leaf.apiVersion = IF e.kind = "intoto" THEN e.version ELSE "0.0.1"
  BY <1>2, <1>3, <1>5, LeafKinds DEF CanonicalOf, Kinds
<1>7. PICK q : /\ q.kind = f.leaf.kind /\ q.apiVersion = f.leaf.apiVersion /\ q.spec = f.leaf.spec
               /\ r \in UnmarshalEntry(q)
  BY <1>2, <1>6, LeafRead
<1>8. r.kind = e.kind
  BY <1>6, <1>7, UnmarshalByKind
<1>9. r.version = f.leaf.apiVersion
  <2>1. CASE e.kind # "intoto"
    BY <1>6, <1>7, <2>1, UnmarshalByKind
  <2>2. CASE e.kind = "intoto" /\ e.version = "0.0.1"
    <3>1. r \in {[kind |-> "intoto", version |-> "0.0.1", impl |-> w] : w \in IntotoV001!Unmarshal(q)}
      BY <1>6, <1>7, <2>2 DEF UnmarshalEntry, IntotoUnmarshalEntry, SemVerMatches
    <3>2. r.version = "0.0.1"
      BY <3>1
    <3>3. QED BY <1>6, <2>2, <3>2
  <2>3. CASE e.kind = "intoto" /\ e.version = "0.0.2"
    <3>1. r \in {[kind |-> "intoto", version |-> "0.0.2", impl |-> w] : w \in IntotoV002!Unmarshal(q)}
      BY <1>6, <1>7, <2>3 DEF UnmarshalEntry, IntotoUnmarshalEntry, SemVerMatches
    <3>2. r.version = "0.0.2"
      BY <3>1
    <3>3. QED BY <1>6, <2>3, <3>2
  <2>4. QED BY <1>3, <2>1, <2>2, <2>3
<1> DEFINE Same == \A g \in CanonicalizeEntry(r, at) : g.leaf = f.leaf
<1>10. ASSUME NEW g \in CanonicalizeEntry(r, at) PROVE \E d : CanonicalOf(d, r, at) /\ g.leaf = d.leaf
  <2>1. r.kind \in Kinds /\ (r.kind = "intoto" => r.version \in {"0.0.1", "0.0.2"})
    BY <1>2, <1>3, <1>6, <1>8, <1>9
  <2>2. QED BY <2>1, CanonicalByKind
<1>11. CASE e.kind = "alpine"
  <2>1. c \in Alpine!Canonicalize(e.impl, at)
    BY <1>5, <1>11 DEF CanonicalOf
  <2>2. r.impl \in Alpine!UnmarshalEntry(q)
    BY <1>6, <1>7, <1>8, <1>9, <1>11, UnmarshalByKind
  <2>3. /\ ~Alpine!Insertable(r.impl)
        /\ Alpine!Verifiers(r.impl, at) = Alpine!Verifiers(c.entry, at)
    BY <1>5, <1>7, <2>1, <2>2, AlpineSame
  <2>4. /\ Insertable(r) = Alpine!Insertable(r.impl) /\ Verifiers(r, at) = Alpine!Verifiers(r.impl, at)
        /\ Verifiers(f.entry, at) = Alpine!Verifiers(c.entry, at)
    BY <1>4, <1>5, <1>8, <1>11 DEF Insertable, Verifiers
  <2>5. QED BY <1>6, <1>8, <1>9, <2>3, <2>4 DEF IdentitiesOf
<1>12. CASE e.kind = "cose"
  <2>1. c \in Cose!Canonicalize(e.impl, at)
    BY <1>5, <1>12 DEF CanonicalOf
  <2>2. r.impl \in Cose!UnmarshalEntry(q)
    BY <1>6, <1>7, <1>8, <1>9, <1>12, UnmarshalByKind
  <2>3. e.impl \in Cose!UnmarshalEntry(pe) /\ Cose!Insertable(e.impl)
    BY <1>1, <1>2, <1>12, UnmarshalByKind DEF Insertable
  <2>4. /\ ~Cose!Insertable(r.impl)
        /\ Cose!Verifiers(r.impl, at) = Cose!Verifiers(c.entry, at)
    BY <1>5, <1>7, <2>1, <2>2, <2>3, CoseSame
  <2>5. /\ Insertable(r) = Cose!Insertable(r.impl) /\ Verifiers(r, at) = Cose!Verifiers(r.impl, at)
        /\ Verifiers(f.entry, at) = Cose!Verifiers(c.entry, at)
    BY <1>4, <1>5, <1>8, <1>12 DEF Insertable, Verifiers
  <2>6. QED BY <1>6, <1>8, <1>9, <2>4, <2>5 DEF IdentitiesOf
<1>13. CASE e.kind = "dsse"
  <2>1. c \in Dsse!Canonicalize(e.impl, at)
    BY <1>5, <1>13 DEF CanonicalOf
  <2>2. r.impl \in Dsse!UnmarshalEntry(q)
    BY <1>6, <1>7, <1>8, <1>9, <1>13, UnmarshalByKind
  <2>3. /\ ~Dsse!Insertable(r.impl)
        /\ Dsse!Verifiers(r.impl, at) = Dsse!Verifiers(c.entry, at)
    BY <1>5, <1>7, <2>1, <2>2, DsseSame
  <2>4. /\ Insertable(r) = Dsse!Insertable(r.impl) /\ Verifiers(r, at) = Dsse!Verifiers(r.impl, at)
        /\ Verifiers(f.entry, at) = Dsse!Verifiers(c.entry, at)
    BY <1>4, <1>5, <1>8, <1>13 DEF Insertable, Verifiers
  <2>5. QED BY <1>6, <1>8, <1>9, <2>3, <2>4 DEF IdentitiesOf
<1>14. CASE e.kind = "hashedrekord"
  <2>1. c \in HashedRekord!Canonicalize(e.impl, at)
    BY <1>5, <1>14 DEF CanonicalOf
  <2>2. r.impl \in HashedRekord!UnmarshalEntry(q)
    BY <1>6, <1>7, <1>8, <1>9, <1>14, UnmarshalByKind
  <2>3. /\ HashedRekord!Insertable(r.impl) => \A g \in HashedRekord!Canonicalize(r.impl, at) : g.leaf = c.leaf
        /\ HashedRekord!Verifiers(r.impl, at) = HashedRekord!Verifiers(c.entry, at)
    BY <1>5, <1>7, <2>1, <2>2, HashedRekordSame
  <2>4. /\ Insertable(r) = HashedRekord!Insertable(r.impl) /\ Verifiers(r, at) = HashedRekord!Verifiers(r.impl, at)
        /\ Verifiers(f.entry, at) = HashedRekord!Verifiers(c.entry, at)
    BY <1>4, <1>5, <1>8, <1>14 DEF Insertable, Verifiers
  <2>5. Insertable(r) => Same
    <3>1. ASSUME Insertable(r), NEW g \in CanonicalizeEntry(r, at) PROVE g.leaf = f.leaf
      <4>1. PICK d : d \in HashedRekord!Canonicalize(r.impl, at) /\ g.leaf = d.leaf
        BY <1>8, <1>10, <1>14, <3>1 DEF CanonicalOf
      <4>2. QED BY <1>5, <2>3, <2>4, <3>1, <4>1
    <3>2. QED BY <3>1
  <2>6. QED BY <1>6, <1>8, <1>9, <2>3, <2>4, <2>5 DEF IdentitiesOf
<1>15. CASE e.kind = "helm"
  <2>1. c \in Helm!Canonicalize(e.impl, at)
    BY <1>5, <1>15 DEF CanonicalOf
  <2>2. r.impl \in Helm!UnmarshalEntry(q)
    BY <1>6, <1>7, <1>8, <1>9, <1>15, UnmarshalByKind
  <2>3. /\ ~Helm!Insertable(r.impl)
        /\ UNION {Identities(k) : k \in Helm!Verifiers(r.impl, at)}
           = UNION {Identities(k) : k \in Helm!Verifiers(c.entry, at)}
    BY <1>5, <1>7, <2>1, <2>2, HelmSame
  <2>4. /\ Insertable(r) = Helm!Insertable(r.impl) /\ Verifiers(r, at) = Helm!Verifiers(r.impl, at)
        /\ Verifiers(f.entry, at) = Helm!Verifiers(c.entry, at)
    BY <1>4, <1>5, <1>8, <1>15 DEF Insertable, Verifiers
  <2>5. QED BY <1>6, <1>8, <1>9, <2>3, <2>4 DEF IdentitiesOf
<1>16. CASE e.kind = "jar"
  <2>1. c \in Jar!Canonicalize(e.impl, at)
    BY <1>5, <1>16 DEF CanonicalOf
  <2>2. r.impl \in Jar!UnmarshalEntry(q)
    BY <1>6, <1>7, <1>8, <1>9, <1>16, UnmarshalByKind
  <2>3. /\ ~Jar!Insertable(r.impl)
        /\ Jar!Verifiers(r.impl, at) = Jar!Verifiers(c.entry, at)
    BY <1>5, <1>7, <2>1, <2>2, JarSame
  <2>4. /\ Insertable(r) = Jar!Insertable(r.impl) /\ Verifiers(r, at) = Jar!Verifiers(r.impl, at)
        /\ Verifiers(f.entry, at) = Jar!Verifiers(c.entry, at)
    BY <1>4, <1>5, <1>8, <1>16 DEF Insertable, Verifiers
  <2>5. QED BY <1>6, <1>8, <1>9, <2>3, <2>4 DEF IdentitiesOf
<1>17. CASE e.kind = "rekord"
  <2>1. c \in Rekord!Canonicalize(e.impl, at)
    BY <1>5, <1>17 DEF CanonicalOf
  <2>2. r.impl \in Rekord!UnmarshalEntry(q)
    BY <1>6, <1>7, <1>8, <1>9, <1>17, UnmarshalByKind
  <2>3. /\ ~Rekord!Insertable(r.impl)
        /\ Rekord!Verifiers(r.impl, at) = Rekord!Verifiers(c.entry, at)
    BY <1>5, <1>7, <2>1, <2>2, RekordSame
  <2>4. /\ Insertable(r) = Rekord!Insertable(r.impl) /\ Verifiers(r, at) = Rekord!Verifiers(r.impl, at)
        /\ Verifiers(f.entry, at) = Rekord!Verifiers(c.entry, at)
    BY <1>4, <1>5, <1>8, <1>17 DEF Insertable, Verifiers
  <2>5. QED BY <1>6, <1>8, <1>9, <2>3, <2>4 DEF IdentitiesOf
<1>18. CASE e.kind = "rfc3161"
  <2>1. c \in Rfc3161!Canonicalize(e.impl, at)
    BY <1>5, <1>18 DEF CanonicalOf
  <2>2. r.impl \in Rfc3161!UnmarshalEntry(q)
    BY <1>6, <1>7, <1>8, <1>9, <1>18, UnmarshalByKind
  <2>3. e.impl \in Rfc3161!UnmarshalEntry(pe) /\ Rfc3161!Insertable(e.impl)
    BY <1>1, <1>2, <1>18, UnmarshalByKind DEF Insertable
  <2>4. /\ Rfc3161!Insertable(r.impl) => \A g \in Rfc3161!Canonicalize(r.impl, at) : g.leaf = c.leaf
        /\ Rfc3161!Verifiers(r.impl, at) = Rfc3161!Verifiers(c.entry, at)
    BY <1>5, <1>7, <2>1, <2>2, <2>3, Rfc3161Same
  <2>5. /\ Insertable(r) = Rfc3161!Insertable(r.impl) /\ Verifiers(r, at) = Rfc3161!Verifiers(r.impl, at)
        /\ Verifiers(f.entry, at) = Rfc3161!Verifiers(c.entry, at)
    BY <1>4, <1>5, <1>8, <1>18 DEF Insertable, Verifiers
  <2>6. Insertable(r) => Same
    <3>1. ASSUME Insertable(r), NEW g \in CanonicalizeEntry(r, at) PROVE g.leaf = f.leaf
      <4>1. PICK d : d \in Rfc3161!Canonicalize(r.impl, at) /\ g.leaf = d.leaf
        BY <1>8, <1>10, <1>18, <3>1 DEF CanonicalOf
      <4>2. QED BY <1>5, <2>4, <2>5, <3>1, <4>1
    <3>2. QED BY <3>1
  <2>7. QED BY <1>6, <1>8, <1>9, <2>4, <2>5, <2>6 DEF IdentitiesOf
<1>19. CASE e.kind = "rpm"
  <2>1. c \in Rpm!Canonicalize(e.impl, at)
    BY <1>5, <1>19 DEF CanonicalOf
  <2>2. r.impl \in Rpm!UnmarshalEntry(q)
    BY <1>6, <1>7, <1>8, <1>9, <1>19, UnmarshalByKind
  <2>3. /\ ~Rpm!Insertable(r.impl)
        /\ UNION {Identities(k) : k \in Rpm!Verifiers(r.impl, at)}
           = UNION {Identities(k) : k \in Rpm!Verifiers(c.entry, at)}
    BY <1>5, <1>7, <2>1, <2>2, RpmSame
  <2>4. /\ Insertable(r) = Rpm!Insertable(r.impl) /\ Verifiers(r, at) = Rpm!Verifiers(r.impl, at)
        /\ Verifiers(f.entry, at) = Rpm!Verifiers(c.entry, at)
    BY <1>4, <1>5, <1>8, <1>19 DEF Insertable, Verifiers
  <2>5. QED BY <1>6, <1>8, <1>9, <2>3, <2>4 DEF IdentitiesOf
<1>20. CASE e.kind = "tuf"
  <2>1. c \in Tuf!Canonicalize(e.impl, at)
    BY <1>5, <1>20 DEF CanonicalOf
  <2>2. r.impl \in Tuf!UnmarshalEntry(q)
    BY <1>6, <1>7, <1>8, <1>9, <1>20, UnmarshalByKind
  <2>3. /\ Tuf!Insertable(r.impl) => \A g \in Tuf!Canonicalize(r.impl, at) : g.leaf = c.leaf
        /\ UNION {Identities(k) : k \in Tuf!Verifiers(r.impl, at)}
           = UNION {Identities(k) : k \in Tuf!Verifiers(c.entry, at)}
    BY <1>5, <1>7, <2>1, <2>2, TufSame
  <2>4. /\ Insertable(r) = Tuf!Insertable(r.impl) /\ Verifiers(r, at) = Tuf!Verifiers(r.impl, at)
        /\ Verifiers(f.entry, at) = Tuf!Verifiers(c.entry, at)
    BY <1>4, <1>5, <1>8, <1>20 DEF Insertable, Verifiers
  <2>5. Insertable(r) => Same
    <3>1. ASSUME Insertable(r), NEW g \in CanonicalizeEntry(r, at) PROVE g.leaf = f.leaf
      <4>1. PICK d : d \in Tuf!Canonicalize(r.impl, at) /\ g.leaf = d.leaf
        BY <1>8, <1>10, <1>20, <3>1 DEF CanonicalOf
      <4>2. QED BY <1>5, <2>3, <2>4, <3>1, <4>1
    <3>2. QED BY <3>1
  <2>6. QED BY <1>6, <1>8, <1>9, <2>3, <2>4, <2>5 DEF IdentitiesOf
<1>21. CASE e.kind = "intoto" /\ e.version = "0.0.1"
  <2>1. c \in IntotoV001!Canonicalize(e.impl, at)
    BY <1>5, <1>21 DEF CanonicalOf
  <2>2. r.impl \in IntotoV001!Unmarshal(q)
    BY <1>6, <1>7, <1>8, <1>9, <1>21, UnmarshalByKind
  <2>3. e.impl \in IntotoV001!Unmarshal(pe) /\ IntotoV001!Insertable(e.impl)
    BY <1>1, <1>2, <1>21, UnmarshalByKind DEF Insertable
  <2>4. /\ ~IntotoV001!Insertable(r.impl)
        /\ IntotoV001!Verifiers(r.impl, at) = IntotoV001!Verifiers(c.entry, at)
    BY <1>5, <1>7, <2>1, <2>2, <2>3, IntotoV001Same
  <2>5. /\ Insertable(r) = IntotoV001!Insertable(r.impl) /\ Verifiers(r, at) = IntotoV001!Verifiers(r.impl, at)
        /\ Verifiers(f.entry, at) = IntotoV001!Verifiers(c.entry, at)
    BY <1>4, <1>5, <1>8, <1>6, <1>9, <1>21 DEF Insertable, Verifiers
  <2>6. QED BY <1>6, <1>8, <1>9, <2>4, <2>5 DEF IdentitiesOf
<1>22. CASE e.kind = "intoto" /\ e.version = "0.0.2"
  <2>1. c \in IntotoV002!Canonicalize(e.impl, at)
    BY <1>5, <1>22 DEF CanonicalOf
  <2>2. r.impl \in IntotoV002!Unmarshal(q)
    BY <1>6, <1>7, <1>8, <1>9, <1>22, UnmarshalByKind
  <2>3. /\ ~IntotoV002!Insertable(r.impl)
        /\ IntotoV002!Verifiers(r.impl, at) = IntotoV002!Verifiers(c.entry, at)
    BY <1>5, <1>7, <2>1, <2>2, IntotoV002Same
  <2>4. /\ Insertable(r) = IntotoV002!Insertable(r.impl) /\ Verifiers(r, at) = IntotoV002!Verifiers(r.impl, at)
        /\ Verifiers(f.entry, at) = IntotoV002!Verifiers(c.entry, at)
    BY <1>4, <1>5, <1>8, <1>6, <1>9, <1>22 DEF Insertable, Verifiers
  <2>5. QED BY <1>6, <1>8, <1>9, <2>3, <2>4 DEF IdentitiesOf
<1>23. QED BY <1>2, <1>3, <1>11, <1>12, <1>13, <1>14, <1>15, <1>16, <1>17, <1>18, <1>19, <1>20, <1>21, <1>22 DEF Kinds

\* The part of LeavesReadBack that does not depend on the catalogue of artifacts.
ReadBackInv == \A x \in created : ReadsAs(x.leaf, x.entry, x.at)

LEMMA ReadBackNext == ReadBackInv /\ [Next]_vars => ReadBackInv'
<1> SUFFICES ASSUME ReadBackInv, [Next]_vars PROVE ReadBackInv'
  OBVIOUS
<1>1. CASE created' = created
  BY <1>1 DEF ReadBackInv
<1>2. ASSUME NEW c \in Clients, createLogEntry(c), NEW x \in created' PROVE ReadsAs(x.leaf, x.entry, x.at)
  <2>1. PICK pe, e, f : /\ e \in CreateVersionedEntry(pe, AcceptedKinds) /\ f \in CanonicalizeEntry(e, now)
                        /\ created' = created \cup {[source |-> command[c].source, leaf |-> f.leaf,
                                                     entry |-> f.entry, at |-> now]}
    BY <1>2, CreatedIsCanonical
  <2>2. ReadsAs(f.leaf, f.entry, now)
    BY <2>1, CanonicalReads
  <2>3. x \in created \/ (x.leaf = f.leaf /\ x.entry = f.entry /\ x.at = now)
    BY <1>2, <2>1
  <2>4. QED BY <2>2, <2>3 DEF ReadBackInv
<1>3. ASSUME NEW c \in Clients, createLogEntry(c) PROVE ReadBackInv'
  BY <1>2, <1>3 DEF ReadBackInv
<1>4. QED
  BY <1>1, <1>3 DEF Next, StartUpload, TryNext, Refused, AlreadyExists, addToIndex, StoreAttestation,
                    populate, Tick, vars

\* Whatever is read from a leaf of the log is the entry that was submitted: inserting it
\* again gives the same leaf or is refused, the kind and the version are those of the leaf,
\* and the verifiers, and so the identities that a search and an event name, are those of
\* the submission.  Kept by every step, for every catalogue of artifacts.
THEOREM LeavesReadAsSubmitted == Spec => [](\A x \in created : ReadsAs(x.leaf, x.entry, x.at))
<1>1. Init => ReadBackInv
  BY DEF Init, ReadBackInv
<1>2. ReadBackInv => \A x \in created : ReadsAs(x.leaf, x.entry, x.at)
  BY DEF ReadBackInv
<1>3. QED BY <1>1, <1>2, ReadBackNext, PTL DEF Spec

---------------------------------------------------------------------------
(* A request that is sent again.  Parsers and canonical forms are modelled *)
(* by the sets of their results; outside of the orders that Go maps bring  *)
(* in, these sets have one element, so a request has one leaf.             *)

\* The decoders of the schema objects.
LEMMA AlpineDecoded == \A spec : AtMostOne(Alpine!DecodeEntry(spec))
BY DEF AtMostOne, Alpine!DecodeEntry, Alpine!Member, Alpine!DecodeBytes

LEMMA CoseDecoded == \A spec : AtMostOne(Cose!DecodeEntry(spec))
BY DEF AtMostOne, Cose!DecodeEntry, Cose!Member, Cose!DecodeBytes

LEMMA DsseDecoded == \A spec : AtMostOne(Dsse!DecodeEntry(spec))
BY DEF AtMostOne, Dsse!DecodeEntry, Dsse!Member

LEMMA HashedRekordDecoded == \A spec : AtMostOne(HashedRekord!DecodeEntry(spec))
BY DEF AtMostOne, HashedRekord!DecodeEntry, HashedRekord!Member, HashedRekord!DecodeBytes

LEMMA HelmDecoded == \A spec : AtMostOne(Helm!DecodeEntry(spec))
BY DEF AtMostOne, Helm!DecodeEntry, Helm!Member, Helm!DecodeBytes

LEMMA IntotoV001Decoded == \A spec : AtMostOne(IntotoV001!DecodeEntry(spec))
BY DEF AtMostOne, IntotoV001!DecodeEntry, IntotoV001!DecodeBytes

LEMMA IntotoV002Decoded == \A spec : AtMostOne(IntotoV002!DecodeEntry(spec))
BY DEF AtMostOne, IntotoV002!DecodeEntry

LEMMA JarDecoded == \A spec : AtMostOne(Jar!DecodeEntry(spec))
BY DEF AtMostOne, Jar!DecodeEntry, Jar!Member, Jar!DecodeBytes

LEMMA RekordDecoded == \A spec : AtMostOne(Rekord!DecodeEntry(spec))
BY DEF AtMostOne, Rekord!DecodeEntry, Rekord!Member, Rekord!DecodeBytes

LEMMA Rfc3161Decoded == \A spec : AtMostOne(Rfc3161!DecodeEntry(spec))
BY DEF AtMostOne, Rfc3161!DecodeEntry, Rfc3161!Member, Rfc3161!DecodeBytes

LEMMA RpmDecoded == \A spec : AtMostOne(Rpm!DecodeEntry(spec))
BY DEF AtMostOne, Rpm!DecodeEntry, Rpm!Member, Rpm!DecodeBytes

LEMMA TufDecoded == \A spec : AtMostOne(Tuf!DecodeEntry(spec))
BY DEF AtMostOne, Tuf!DecodeEntry

\* Unmarshal of the types that only check what they decode, and of the others.
LEMMA PlainTypesReadOnce ==
  \A pe : /\ AtMostOne(Alpine!UnmarshalEntry(pe)) /\ AtMostOne(HashedRekord!UnmarshalEntry(pe))
          /\ AtMostOne(Helm!UnmarshalEntry(pe)) /\ AtMostOne(Jar!UnmarshalEntry(pe))
          /\ AtMostOne(Rekord!UnmarshalEntry(pe)) /\ AtMostOne(Rpm!UnmarshalEntry(pe))
          /\ AtMostOne(Tuf!UnmarshalEntry(pe))
<1> TAKE pe
<1>1. AtMostOne(Alpine!UnmarshalEntry(pe))
  BY AlpineDecoded DEF AtMostOne, Alpine!UnmarshalEntry, Alpine!Unmarshal
<1>2. AtMostOne(HashedRekord!UnmarshalEntry(pe))
  BY HashedRekordDecoded DEF AtMostOne, HashedRekord!UnmarshalEntry, HashedRekord!Unmarshal
<1>3. AtMostOne(Helm!UnmarshalEntry(pe))
  BY HelmDecoded DEF AtMostOne, Helm!UnmarshalEntry, Helm!Unmarshal
<1>4. AtMostOne(Jar!UnmarshalEntry(pe))
  BY JarDecoded DEF AtMostOne, Jar!UnmarshalEntry, Jar!Unmarshal
<1>5. AtMostOne(Rekord!UnmarshalEntry(pe))
  BY RekordDecoded DEF AtMostOne, Rekord!UnmarshalEntry, Rekord!Unmarshal
<1>6. AtMostOne(Rpm!UnmarshalEntry(pe))
  BY RpmDecoded DEF AtMostOne, Rpm!UnmarshalEntry, Rpm!Unmarshal
<1>7. AtMostOne(Tuf!UnmarshalEntry(pe))
  BY TufDecoded DEF AtMostOne, Tuf!UnmarshalEntry, Tuf!Unmarshal
<1>8. QED BY <1>1, <1>2, <1>3, <1>4, <1>5, <1>6, <1>7

LEMMA CoseReadOnce == \A pe : AtMostOne(Cose!UnmarshalEntry(pe))
<1> SUFFICES ASSUME NEW pe, NEW v \in Cose!Unmarshal(pe), NEW w \in Cose!Unmarshal(pe) PROVE v = w
  BY DEF AtMostOne, Cose!UnmarshalEntry
<1> DEFINE Made(o, k, h) == [obj |-> o, keyObj |-> k, sign1Msg |-> o.message, envelopeHash |-> h]
<1>1. PICK o, k, h : /\ o \in Cose!DecodeEntry(pe.spec) /\ k \in Cose!X509NewPublicKey(o.publicKey)
                     /\ h \in Cose!envelopeHash(o) /\ v = Made(o, k, h)
  BY DEF Cose!Unmarshal
<1>2. PICK p, l, g : /\ p \in Cose!DecodeEntry(pe.spec) /\ l \in Cose!X509NewPublicKey(p.publicKey)
                     /\ g \in Cose!envelopeHash(p) /\ w = Made(p, l, g)
  BY DEF Cose!Unmarshal
<1> HIDE DEF Made
<1>3. o = p
  BY <1>1, <1>2, CoseDecoded DEF AtMostOne
<1>4. k = l
  BY <1>1, <1>2, <1>3 DEF Cose!X509NewPublicKey
<1>5. h = g
  BY <1>1, <1>2, <1>3 DEF Cose!envelopeHash
<1>6. QED BY <1>1, <1>2, <1>3, <1>4, <1>5

LEMMA Rfc3161ReadOnce == \A pe : AtMostOne(Rfc3161!UnmarshalEntry(pe))
<1> SUFFICES ASSUME NEW pe, NEW v \in Rfc3161!Unmarshal(pe), NEW w \in Rfc3161!Unmarshal(pe) PROVE v = w
  BY DEF AtMostOne, Rfc3161!UnmarshalEntry
<1>1. \E o, p \in Rfc3161!DecodeEntry(pe.spec) :
        v = [obj |-> o, tsrContent |-> o.tsr.content] /\ w = [obj |-> p, tsrContent |-> p.tsr.content]
  BY DEF Rfc3161!Unmarshal
<1>2. QED BY <1>1, Rfc3161Decoded DEF AtMostOne

LEMMA IntotoV001ReadOnce == \A pe : AtMostOne(IntotoV001!Unmarshal(pe))
<1> SUFFICES ASSUME NEW pe, NEW v \in IntotoV001!Unmarshal(pe), NEW w \in IntotoV001!Unmarshal(pe) PROVE v = w
  BY DEF AtMostOne
<1>1. PICK o, k : /\ o \in IntotoV001!DecodeEntry(pe.spec) /\ k \in IntotoV001!X509NewPublicKey(o.publicKey)
                  /\ v \in IntotoV001!validate(o, k)
  BY DEF IntotoV001!Unmarshal
<1>2. PICK p, l : /\ p \in IntotoV001!DecodeEntry(pe.spec) /\ l \in IntotoV001!X509NewPublicKey(p.publicKey)
                  /\ w \in IntotoV001!validate(p, l)
  BY DEF IntotoV001!Unmarshal
<1>3. o = p
  BY <1>1, <1>2, IntotoV001Decoded DEF AtMostOne
<1>4. k = l
  BY <1>1, <1>2, <1>3 DEF IntotoV001!X509NewPublicKey
<1>5. \A x, y \in IntotoV001!validate(o, k) : x = y
  BY DEF IntotoV001!validate
<1>6. QED BY <1>1, <1>2, <1>3, <1>4, <1>5

LEMMA IntotoV002ReadOnce == \A pe : AtMostOne(IntotoV002!Unmarshal(pe))
<1> SUFFICES ASSUME NEW pe, NEW v \in IntotoV002!Unmarshal(pe), NEW w \in IntotoV002!Unmarshal(pe) PROVE v = w
  BY DEF AtMostOne
<1> DEFINE Env(e) == [payload |-> e.payload,
                      signatures |-> [i \in DOMAIN e.signatures |-> e.signatures[i].sig]]
           Read(o) == LET e == o.content.envelope
                      IN IF e.payload = Nil THEN [obj |-> o, env |-> Nil]
                         ELSE [obj |-> [content |-> [envelope |-> e, hash |-> o.content.hash,
                                                     payloadHash |-> IntotoV002!Sha256(e.payload)]],
                               env |-> Env(e)]
<1>1. PICK o \in IntotoV002!DecodeEntry(pe.spec) : v = Read(o)
  BY DEF IntotoV002!Unmarshal
<1>2. PICK p \in IntotoV002!DecodeEntry(pe.spec) : w = Read(p)
  BY DEF IntotoV002!Unmarshal
<1> HIDE DEF Read
<1>3. QED BY <1>1, <1>2, IntotoV002Decoded DEF AtMostOne

\* The last verifier that accepts a signature is one, for verifiers are numbered.
LEMMA DsseVerifiedOnce ==
  ASSUME NEW verifiers, NEW env, DOMAIN verifiers \subseteq Nat,
         NEW v \in Dsse!verifyEnvelope(verifiers, env), NEW w \in Dsse!verifyEnvelope(verifiers, env)
  PROVE  v = w
<1> DEFINE sigs == {env.signatures[j] : j \in DOMAIN env.signatures}
           accepted(n) == UNION {UNION {Dsse!DsseAccepted(x, env) : x \in Dsse!CryptoKeys(k)} :
                                   k \in Dsse!X509NewPublicKey(verifiers[n])}
           Key(n) == CHOOSE k \in Dsse!X509NewPublicKey(verifiers[n]) : TRUE
           tried == {n \in DOMAIN verifiers : ~(sigs \subseteq UNION {accepted(j) : j \in 1 .. (n - 1)})}
           lasts == {f \in [sigs -> tried] : \A g \in sigs :
                       g \in accepted(f[g]) /\ \A n \in tried : n > f[g] => g \notin accepted(n)}
           Paired(last) == [j \in DOMAIN env.signatures |->
                              [sig |-> env.signatures[j], key |-> Key(last[env.signatures[j]])]]
<1>1. v \in {Paired(last) : last \in lasts} /\ w \in {Paired(last) : last \in lasts}
  BY DEF Dsse!verifyEnvelope
<1>2. tried \subseteq Nat
  OBVIOUS
<1> HIDE DEF accepted, tried, sigs, Paired
<1>3. ASSUME NEW f \in lasts, NEW g \in lasts PROVE f = g
  <2>1. ASSUME NEW s \in sigs PROVE f[s] = g[s]
    <3>1. f[s] \in tried /\ g[s] \in tried /\ s \in accepted(f[s]) /\ s \in accepted(g[s])
      OBVIOUS
    <3>2. ~(g[s] > f[s]) /\ ~(f[s] > g[s])
      BY <3>1
    <3>3. f[s] \in Nat /\ g[s] \in Nat
      BY <3>1, <1>2
    <3> HIDE DEF lasts
    <3>4. QED BY <3>2, <3>3
  <2>2. f \in [sigs -> tried] /\ g \in [sigs -> tried]
    OBVIOUS
  <2> HIDE DEF lasts
  <2>3. QED BY <2>1, <2>2
<1> HIDE DEF lasts
<1>4. QED BY <1>1, <1>3

LEMMA DsseReadOnce ==
  ASSUME NEW pe, VerifiersListed(pe), NEW v \in Dsse!UnmarshalEntry(pe), NEW w \in Dsse!UnmarshalEntry(pe)
  PROVE  v = w
<1> DEFINE Verifier(k) == CHOOSE d \in Dsse!X509KeyCanonicalValue(k) : TRUE
           Obj(vs, env) == [proposedContent |-> Nil,
                            signatures |-> [i \in DOMAIN vs |-> [signature |-> vs[i].sig, verifier |-> Verifier(vs[i].key)]],
                            payloadHash |-> Dsse!Sha256(env.payload),
                            envelopeHash |-> Dsse!Sha256(env)]
           Stored(o) ==
             IF o.envelopeHash = Nil \/ o.payloadHash = Nil \/ o.signatures = <<>> THEN {}
             ELSE {[obj |-> o, env |-> Nil, extracted |-> {}, insertable |-> FALSE]}
           Made(vs, env) == [obj |-> Obj(vs, env), env |-> env.payloadType,
                             extracted |-> Dsse!ExtractedIndexKeys(env), insertable |-> TRUE]
           Proposed(o) ==
             LET env == o.proposedContent.envelope
             IN IF \/ o.envelopeHash # Nil \/ o.payloadHash # Nil \/ o.signatures # <<>>
                   \/ env.fmt # "dsse" \/ env.signatures = <<>>
                THEN {}
                ELSE {Made(vs, env) : vs \in Dsse!verifyEnvelope(o.proposedContent.verifiers, env)}
           Results(o) == IF o.proposedContent = Nil THEN Stored(o) ELSE Proposed(o)
<1>u. Dsse!Unmarshal(pe) = UNION {Results(o) : o \in {o \in Dsse!DecodeEntry(pe.spec) : Dsse!ValidSchema(o)}}
  BY Zenon DEF Dsse!Unmarshal
<1> HIDE DEF Results, Made, Obj
<1>0. ASSUME NEW x \in Dsse!UnmarshalEntry(pe) PROVE \E o \in Dsse!DecodeEntry(pe.spec) : x \in Results(o)
  BY <1>u DEF Dsse!UnmarshalEntry
<1>1. \E o, p \in Dsse!DecodeEntry(pe.spec) : v \in Results(o) /\ w \in Results(p)
  BY <1>0
<1>2. PICK o \in Dsse!DecodeEntry(pe.spec) : v \in Results(o) /\ w \in Results(o)
  BY <1>1, DsseDecoded DEF AtMostOne
<1>3. CASE o.proposedContent = Nil
  <2>1. v \in Stored(o) /\ w \in Stored(o)
    BY <1>2, <1>3 DEF Results
  <2>2. QED BY <2>1
<1>4. CASE o.proposedContent # Nil
  <2>1. v \in Proposed(o) /\ w \in Proposed(o)
    BY <1>2, <1>4 DEF Results
  <2>2. PICK x, y : /\ x \in Dsse!verifyEnvelope(o.proposedContent.verifiers, o.proposedContent.envelope)
                    /\ y \in Dsse!verifyEnvelope(o.proposedContent.verifiers, o.proposedContent.envelope)
                    /\ v = Made(x, o.proposedContent.envelope) /\ w = Made(y, o.proposedContent.envelope)
    BY <2>1
  <2>3. DOMAIN o.proposedContent.verifiers \subseteq Nat
    BY <1>4 DEF VerifiersListed
  <2>4. x = y
    BY <2>2, <2>3, DsseVerifiedOnce
  <2>5. QED BY <2>2, <2>4
<1>5. QED BY <1>3, <1>4

LEMMA PgpOneForm ==
  ASSUME NEW k, OneUserID(k), NEW p \in PgpKeyCanonicalValue(k), NEW q \in PgpKeyCanonicalValue(k)
  PROVE  p = q
<1> DEFINE Serialized == {r \in [DOMAIN k.ring -> UNION {PgpSerialize(k.ring[i]) : i \in DOMAIN k.ring}] :
                            \A i \in DOMAIN r : r[i] \in PgpSerialize(k.ring[i])}
<1>1. ASSUME NEW i \in DOMAIN k.ring, NEW x \in PgpSerialize(k.ring[i]), NEW y \in PgpSerialize(k.ring[i])
      PROVE  x = y
  <2> DEFINE s == k.ring[i].uids
  <2>1. PICK u, w : /\ u \in AnyOrder(s) /\ w \in AnyOrder(s)
                    /\ x = [key |-> k.ring[i].key, uids |-> u, private |-> FALSE]
                    /\ y = [key |-> k.ring[i].key, uids |-> w, private |-> FALSE]
    BY DEF PgpSerialize
  <2>2. \A a, b \in Elems(s) : a = b
    BY DEF OneUserID, AtMostOne
  <2> HIDE DEF s
  <2>3. u \in [DOMAIN s -> Elems(s)] /\ w \in [DOMAIN s -> Elems(s)]
    BY <2>1 DEF AnyOrder
  <2>4. u = w
    BY <2>2, <2>3
  <2>5. QED BY <2>1, <2>4
<1>2. PICK r \in Serialized, n \in Serialized : /\ p = [fmt |-> "pgp key", enc |-> "canonical", ring |-> r]
                                                /\ q = [fmt |-> "pgp key", enc |-> "canonical", ring |-> n]
  BY DEF PgpKeyCanonicalValue
<1>3. /\ r \in [DOMAIN k.ring -> UNION {PgpSerialize(k.ring[i]) : i \in DOMAIN k.ring}]
      /\ n \in [DOMAIN k.ring -> UNION {PgpSerialize(k.ring[i]) : i \in DOMAIN k.ring}]
      /\ \A i \in DOMAIN k.ring : r[i] \in PgpSerialize(k.ring[i]) /\ n[i] \in PgpSerialize(k.ring[i])
  OBVIOUS
<1>4. \A i \in DOMAIN k.ring : r[i] = n[i]
  BY <1>1, <1>3
<1>5. r = n
  BY <1>3, <1>4
<1>6. QED BY <1>2, <1>5

\* The leaf is a function of the entry, whatever the time.
AlpineLeaf(v) ==
  LET d == v.package.content
  IN [kind |-> "alpine", apiVersion |-> "0.0.1",
      spec |-> [publicKey |-> [content |-> [fmt |-> "pem", enc |-> "canonical",
                                            blocks |-> v.publicKey.content.blocks]],
                package |-> [hash |-> Alpine!FilledIn(v.package.hash, d), content |-> Nil,
                             pkginfo |-> d.control[Len(d.control)].fields]]]

LEMMA AlpineLeafOf ==
  ASSUME NEW v, NEW t, NEW c \in Alpine!Canonicalize(v, t) PROVE c.leaf = AlpineLeaf(v)
<1> DEFINE d0 == v.package.content
           key == [fmt |-> "pem", enc |-> "canonical", blocks |-> v.publicKey.content.blocks]
<1> DEFINE Form(e, p) == [publicKey |-> [content |-> p],
                          package |-> [hash |-> e.entry.package.hash, content |-> Nil,
                                       pkginfo |-> e.apk.pkginfo]]
<1>1. PICK e, p :
        /\ e \in Alpine!fetchExternalEntities(v, t) /\ p \in Alpine!X509KeyCanonicalValue(e.key)
        /\ c = [leaf |-> Alpine!MarshalJSON("0.0.1", Form(e, p)), entry |-> Form(e, p)]
  BY DEF Alpine!Canonicalize
<1>2. /\ e.key \in Alpine!X509NewPublicKey(v.publicKey.content) /\ e.apk \in Alpine!UnmarshalPackage(d0)
      /\ e.entry.package.hash = Alpine!FilledIn(v.package.hash, d0)
  BY <1>1 DEF Alpine!fetchExternalEntities
<1>3. e.apk.pkginfo = d0.control[Len(d0.control)].fields
  BY <1>2 DEF Alpine!UnmarshalPackage
<1>4. e.key = [fmt |-> "x509", blocks |-> v.publicKey.content.blocks]
  BY <1>2 DEF Alpine!X509NewPublicKey
<1>5. e.key.blocks = v.publicKey.content.blocks
  BY <1>4
<1>6. p = key
  BY <1>1, <1>5 DEF Alpine!X509KeyCanonicalValue
<1>7. c.leaf = [kind |-> "alpine", apiVersion |-> "0.0.1", spec |-> Form(e, p)]
  BY <1>1 DEF Alpine!MarshalJSON
<1>8. QED BY <1>2, <1>3, <1>6, <1>7 DEF AlpineLeaf

LEMMA CoseOnce ==
  ASSUME NEW v, NEW t, NEW u, NEW c \in Cose!Canonicalize(v, t), NEW d \in Cose!Canonicalize(v, u)
  PROVE  c.leaf = d.leaf
BY DEF Cose!Canonicalize, Cose!X509KeyCanonicalValue

LEMMA DsseOnce ==
  ASSUME NEW v, NEW t, NEW u, NEW c \in Dsse!Canonicalize(v, t), NEW d \in Dsse!Canonicalize(v, u)
  PROVE  c.leaf = d.leaf
BY DEF Dsse!Canonicalize

LEMMA HashedRekordOnce ==
  ASSUME NEW v, NEW t, NEW u, NEW c \in HashedRekord!Canonicalize(v, t), NEW d \in HashedRekord!Canonicalize(v, u)
  PROVE  c.leaf = d.leaf
<1>1. /\ c.leaf = [kind |-> "hashedrekord", apiVersion |-> "0.0.1", spec |-> c.entry]
      /\ d.leaf = [kind |-> "hashedrekord", apiVersion |-> "0.0.1", spec |-> d.entry]
  BY HashedRekordLeaf
<1> DEFINE Entry == [signature |-> [content |-> HashedRekord!Bytes(v.signature.content),
                                    publicKey |-> [content |-> [fmt |-> "pem", enc |-> "canonical",
                                      blocks |-> HashedRekord!Bytes(v.signature.publicKey.content).blocks]]],
                     data |-> [hash |-> v.data.hash]]
<1>2. c.entry = Entry
  BY HashedRekordForm
<1>3. d.entry = Entry
  BY HashedRekordForm
<1> HIDE DEF Entry
<1>4. QED BY <1>1, <1>2, <1>3

LEMMA IntotoV001Once ==
  ASSUME NEW v, NEW t, NEW u, NEW c \in IntotoV001!Canonicalize(v, t), NEW d \in IntotoV001!Canonicalize(v, u)
  PROVE  c.leaf = d.leaf
BY DEF IntotoV001!Canonicalize, IntotoV001!X509KeyCanonicalValue

LEMMA IntotoV002Once ==
  ASSUME NEW v, NEW t, NEW u, NEW c \in IntotoV002!Canonicalize(v, t), NEW d \in IntotoV002!Canonicalize(v, u)
  PROVE  c.leaf = d.leaf
BY DEF IntotoV002!Canonicalize

JarLeaf(v) ==
  LET p == v.archive.content.sigs[1]
  IN [kind |-> "jar", apiVersion |-> "0.0.1",
      spec |-> [signature |->
                  [content |-> [fmt |-> "pkcs7", enc |-> "canonical", certs |-> p.certs, by |-> p.by,
                                over |-> p.over, content |-> {}],
                   publicKey |-> [content |-> [fmt |-> "pem", enc |-> "canonical", blocks |-> <<p.certs[1]>>]]],
                archive |-> [hash |-> Jar!FilledIn(v.archive.hash, v.archive.content), content |-> Nil]]]

LEMMA JarLeafOf ==
  ASSUME NEW v, NEW t, NEW c \in Jar!Canonicalize(v, t) PROVE c.leaf = JarLeaf(v)
<1> DEFINE p == v.archive.content.sigs[1]
           key == [fmt |-> "pem", enc |-> "canonical", blocks |-> <<p.certs[1]>>]
           sig == [fmt |-> "pkcs7", enc |-> "canonical", certs |-> p.certs, by |-> p.by, over |-> p.over,
                   content |-> {}]
<1> DEFINE Form(e, s, k) == [signature |-> [content |-> s, publicKey |-> [content |-> k]],
                             archive |-> [hash |-> e.entry.archive.hash, content |-> Nil]]
<1>1. \E e \in Jar!fetchExternalEntities(v, t) :
        \E s \in Jar!Pkcs7SigCanonicalValue(e.sig), k \in Jar!Pkcs7KeyCanonicalValue(e.key) :
          c = [leaf |-> Jar!MarshalJSON("0.0.1", Form(e, s, k)), entry |-> Form(e, s, k)]
  BY DEF Jar!Canonicalize
<1>2. PICK e, s, k :
        /\ e \in Jar!fetchExternalEntities(v, t)
        /\ s \in Jar!Pkcs7SigCanonicalValue(e.sig) /\ k \in Jar!Pkcs7KeyCanonicalValue(e.key)
        /\ c = [leaf |-> Jar!MarshalJSON("0.0.1", Form(e, s, k)), entry |-> Form(e, s, k)]
  BY <1>1
<1>3. /\ e.key \in Jar!Pkcs7NewPublicKey(p) /\ e.sig \in Jar!Pkcs7NewSignature(p)
      /\ e.entry.archive.hash = Jar!FilledIn(v.archive.hash, v.archive.content)
  BY <1>2 DEF Jar!fetchExternalEntities, Jar!extractPKCS7SignatureFromJAR
<1>4. e.key.certs = p.certs
  BY <1>3 DEF Jar!Pkcs7NewPublicKey
<1>5. e.sig.raw = [certs |-> p.certs, by |-> p.by, over |-> p.over]
  BY <1>3 DEF Jar!Pkcs7NewSignature
<1>6. e.sig.raw.certs = p.certs /\ e.sig.raw.by = p.by /\ e.sig.raw.over = p.over
  BY <1>5
<1>7. k = key
  BY <1>2, <1>4 DEF Jar!Pkcs7KeyCanonicalValue
<1>8. s = sig
  BY <1>2, <1>6 DEF Jar!Pkcs7SigCanonicalValue
<1>9. c.leaf = [kind |-> "jar", apiVersion |-> "0.0.1", spec |-> Form(e, s, k)]
  BY <1>2 DEF Jar!MarshalJSON
<1>10. QED BY <1>3, <1>7, <1>8, <1>9 DEF JarLeaf

LEMMA Rfc3161Once ==
  ASSUME NEW v, NEW t, NEW u, NEW c \in Rfc3161!Canonicalize(v, t), NEW d \in Rfc3161!Canonicalize(v, u)
  PROVE  c.leaf = d.leaf
BY DEF Rfc3161!Canonicalize

LEMMA TufOnce ==
  ASSUME NEW v, NEW t, NEW u, NEW c \in Tuf!Canonicalize(v, t), NEW d \in Tuf!Canonicalize(v, u)
  PROVE  c.leaf = d.leaf
<1> DEFINE Leaf == [kind |-> "tuf", apiVersion |-> "0.0.1",
                    spec |-> [metadata |-> [content |-> Tuf!TufCanonicalJSON(v.metadata.content)],
                              root |-> [content |-> Tuf!TufCanonicalJSON(v.root.content)]]]
<1>1. c.leaf = Leaf
  BY TufForm
<1>2. d.leaf = Leaf
  BY TufForm
<1>3. QED BY <1>1, <1>2

\* The same of the kinds with PGP keys.
LEMMA PgpInstances ==
  \A k : /\ Helm!PgpKeyCanonicalValue(k) = PgpKeyCanonicalValue(k)
         /\ Rekord!PgpKeyCanonicalValue(k) = PgpKeyCanonicalValue(k)
         /\ Rpm!PgpKeyCanonicalValue(k) = PgpKeyCanonicalValue(k)
BY DEF PgpKeyCanonicalValue, PgpSerialize, AnyOrder, Elems,
       Helm!PgpKeyCanonicalValue, Helm!PgpSerialize, Helm!AnyOrder, Helm!Elems,
       Rekord!PgpKeyCanonicalValue, Rekord!PgpSerialize, Rekord!AnyOrder, Rekord!Elems,
       Rpm!PgpKeyCanonicalValue, Rpm!PgpSerialize, Rpm!AnyOrder, Rpm!Elems

RpmLeaf(v, p) ==
  [kind |-> "rpm", apiVersion |-> "0.0.1",
   spec |-> [publicKey |-> [content |-> p],
             package |-> [hash |-> Rpm!FilledIn(v.package.hash, v.package.content), content |-> Nil,
                          headers |-> v.package.content.headers]]]

LEMMA RpmLeafOf ==
  ASSUME NEW v, NEW t, NEW c \in Rpm!Canonicalize(v, t)
  PROVE  \E p \in PgpKeyCanonicalValue([fmt |-> "pgp", ring |-> v.publicKey.content.ring]) : c.leaf = RpmLeaf(v, p)
<1> DEFINE Form(e, p) == [publicKey |-> [content |-> p],
                          package |-> [hash |-> e.entry.package.hash, content |-> Nil, headers |-> e.rpm.headers]]
           key == [fmt |-> "pgp", ring |-> v.publicKey.content.ring]
<1>1. PICK e, p :
        /\ e \in Rpm!fetchExternalEntities(v, t) /\ p \in Rpm!PgpKeyCanonicalValue(e.key)
        /\ c = [leaf |-> Rpm!MarshalJSON("0.0.1", Form(e, p)), entry |-> e.entry]
  BY DEF Rpm!Canonicalize
<1>2. c.leaf = [kind |-> "rpm", apiVersion |-> "0.0.1", spec |-> Form(e, p)]
  BY <1>1 DEF Rpm!MarshalJSON
<1>3. /\ e.key \in Rpm!PgpNewPublicKey(v.publicKey.content) /\ e.rpm = v.package.content
      /\ e.entry.package.hash = Rpm!FilledIn(v.package.hash, v.package.content)
  BY <1>1 DEF Rpm!fetchExternalEntities
<1>4. e.key = key
  BY <1>3 DEF Rpm!PgpNewPublicKey
<1>5. c.leaf = RpmLeaf(v, p)
  BY <1>2, <1>3 DEF RpmLeaf
<1> HIDE DEF key
<1>6. p \in PgpKeyCanonicalValue(key)
  BY <1>1, <1>4, PgpInstances
<1>7. QED BY <1>5, <1>6 DEF key

LEMMA RpmOnce ==
  ASSUME NEW v, NEW t, NEW u, NEW c \in Rpm!Canonicalize(v, t), NEW d \in Rpm!Canonicalize(v, u),
         OneUserID(v.publicKey.content)
  PROVE  c.leaf = d.leaf
<1> DEFINE key == [fmt |-> "pgp", ring |-> v.publicKey.content.ring]
<1>1. PICK p \in PgpKeyCanonicalValue(key) : c.leaf = RpmLeaf(v, p)
  BY RpmLeafOf
<1>2. PICK q \in PgpKeyCanonicalValue(key) : d.leaf = RpmLeaf(v, q)
  BY RpmLeafOf
<1>3. OneUserID(key)
  BY DEF OneUserID
<1> HIDE DEF key
<1>4. QED BY <1>1, <1>2, <1>3, PgpOneForm

HelmLeaf(p, s, h) ==
  [kind |-> "helm", apiVersion |-> "0.0.1",
   spec |-> [publicKey |-> [content |-> p],
             chart |-> [hash |-> h, provenance |-> [content |-> Nil, signature |-> [content |-> s]]]]]

LEMMA HelmLeafOf ==
  ASSUME NEW v, NEW t, NEW c \in Helm!Canonicalize(v, t)
  PROVE  \E p, s, h :
           /\ p \in PgpKeyCanonicalValue([fmt |-> "pgp", ring |-> v.publicKey.content.ring])
           /\ \E g \in Helm!PgpNewSignature(v.chart.provenance.content.signature) : s \in Helm!PgpSigCanonicalValue(g)
           /\ h \in Helm!GetChartAlgorithmHash(v.chart.provenance.content)
           /\ c.leaf = HelmLeaf(p, s, h)
<1> DEFINE Form(p, s, h) == [publicKey |-> [content |-> p],
                             chart |-> [hash |-> h,
                                        provenance |-> [content |-> Nil, signature |-> [content |-> s]]]]
           key == [fmt |-> "pgp", ring |-> v.publicKey.content.ring]
           d == v.chart.provenance.content
<1>1. \E e \in Helm!fetchExternalEntities(v, t) :
        \E p \in Helm!PgpKeyCanonicalValue(e.key), s \in Helm!PgpSigCanonicalValue(e.sig),
           h \in Helm!GetChartAlgorithmHash(e.provenance) :
          c = [leaf |-> Helm!MarshalJSON("0.0.1", Form(p, s, h)), entry |-> v]
  BY DEF Helm!Canonicalize
<1>2. PICK e, p, s, h :
        /\ e \in Helm!fetchExternalEntities(v, t) /\ p \in Helm!PgpKeyCanonicalValue(e.key)
        /\ s \in Helm!PgpSigCanonicalValue(e.sig) /\ h \in Helm!GetChartAlgorithmHash(e.provenance)
        /\ c = [leaf |-> Helm!MarshalJSON("0.0.1", Form(p, s, h)), entry |-> v]
  BY <1>1
<1>3. c.leaf = HelmLeaf(p, s, h)
  BY <1>2 DEF Helm!MarshalJSON, HelmLeaf
<1>4. PICK x, k, g : /\ k \in Helm!PgpNewPublicKey(v.publicKey.content) /\ g \in Helm!PgpNewSignature(x.signature)
                     /\ x \in Helm!UnmarshalProvenance(d) /\ e = [provenance |-> x, key |-> k, sig |-> g]
  BY <1>2 DEF Helm!fetchExternalEntities
<1>5. e.provenance = d /\ e.key = k /\ e.sig = g /\ x = d
  BY <1>4 DEF Helm!UnmarshalProvenance
<1>6. k = key
  BY <1>4 DEF Helm!PgpNewPublicKey
<1> HIDE DEF key
<1>7. p \in PgpKeyCanonicalValue(key)
  BY <1>2, <1>5, <1>6, PgpInstances
<1>8. QED BY <1>2, <1>3, <1>4, <1>5, <1>7 DEF key

LEMMA HelmOnce ==
  ASSUME NEW v, NEW t, NEW u, NEW c \in Helm!Canonicalize(v, t), NEW d \in Helm!Canonicalize(v, u),
         OneUserID(v.publicKey.content), AtMostOne(v.chart.provenance.content.text.files)
  PROVE  c.leaf = d.leaf
<1> DEFINE key == [fmt |-> "pgp", ring |-> v.publicKey.content.ring]
           x == v.chart.provenance.content
           Sig(s) == \E g \in Helm!PgpNewSignature(x.signature) : s \in Helm!PgpSigCanonicalValue(g)
<1>1. PICK p, s, h : /\ p \in PgpKeyCanonicalValue(key) /\ Sig(s) /\ h \in Helm!GetChartAlgorithmHash(x)
                     /\ c.leaf = HelmLeaf(p, s, h)
  BY HelmLeafOf
<1>2. PICK q, r, g : /\ q \in PgpKeyCanonicalValue(key) /\ Sig(r) /\ g \in Helm!GetChartAlgorithmHash(x)
                     /\ d.leaf = HelmLeaf(q, r, g)
  BY HelmLeafOf
<1>3. OneUserID(key)
  BY DEF OneUserID
<1>4. s = r
  <2>1. \A a, b \in Helm!PgpNewSignature(x.signature) : a = b
    BY DEF Helm!PgpNewSignature
  <2>2. \A a : \A m, n \in Helm!PgpSigCanonicalValue(a) : m = n
    BY DEF Helm!PgpSigCanonicalValue
  <2>3. QED BY <1>1, <1>2, <2>1, <2>2
<1>5. h = g
  BY <1>1, <1>2 DEF Helm!GetChartAlgorithmHash, AtMostOne
<1> HIDE DEF key, x, Sig
<1>6. p = q
  BY <1>1, <1>2, <1>3, PgpOneForm
<1>7. QED BY <1>1, <1>2, <1>4, <1>5, <1>6

\* The canonical form of a key is a function of the document, whatever the time.
LEMMA RekordKeyOnce ==
  ASSUME NEW f \in {"pgp", "minisign", "x509", "ssh"}, NEW d, f = "pgp" => OneUserID(d), NEW t, NEW u,
         NEW k \in Rekord!NewPublicKey(f, d, t), NEW l \in Rekord!NewPublicKey(f, d, u),
         NEW p \in Rekord!KeyCanonicalValue(k), NEW q \in Rekord!KeyCanonicalValue(l)
  PROVE  p = q
<1>1. CASE f = "pgp"
  <2> DEFINE key == [fmt |-> "pgp", ring |-> d.ring]
  <2>1. k = key /\ l = key
    BY <1>1 DEF Rekord!NewPublicKey, Rekord!PgpNewPublicKey
  <2>2. p \in Rekord!PgpKeyCanonicalValue(key) /\ q \in Rekord!PgpKeyCanonicalValue(key)
    BY <2>1 DEF Rekord!KeyCanonicalValue
  <2>3. OneUserID(key)
    BY <1>1 DEF OneUserID
  <2> HIDE DEF key
  <2>4. QED BY <2>2, <2>3, PgpOneForm, PgpInstances
<1>2. CASE f = "minisign"
  <2>0. k \in Rekord!MinisignNewPublicKey(d) /\ l \in Rekord!MinisignNewPublicKey(d)
    BY <1>2 DEF Rekord!NewPublicKey
  <2>a. k = l
    <3>1. d.fmt = "minisign key"
      BY <2>0 DEF Rekord!MinisignNewPublicKey
    <3> DEFINE key == [fmt |-> "minisign", key |-> d.key, keyId |-> IF d.enc = "raw" THEN "zero" ELSE d.keyId]
    <3>2. Rekord!MinisignNewPublicKey(d) = {key}
      BY <3>1, Zenon DEF Rekord!MinisignNewPublicKey
    <3> HIDE DEF key
    <3>3. QED BY <2>0, <3>2
  <2>1. k = l /\ k.fmt = "minisign"
    BY <2>0, <2>a, MinisignForms
  <2>2. QED BY <2>1 DEF Rekord!KeyCanonicalValue, Rekord!MinisignKeyCanonicalValue
<1>3. CASE f = "x509"
  <2>0. k \in Rekord!X509NewPublicKey(d) /\ l \in Rekord!X509NewPublicKey(d)
    BY <1>3 DEF Rekord!NewPublicKey
  <2>a. k = l
    BY <2>0 DEF Rekord!X509NewPublicKey
  <2>1. k = l /\ k.fmt = "x509"
    BY <2>0, <2>a, X509Forms
  <2>2. QED BY <2>1 DEF Rekord!KeyCanonicalValue, Rekord!X509KeyCanonicalValue
<1>4. CASE f = "ssh"
  <2>0. k \in Rekord!SshNewPublicKey(d) /\ l \in Rekord!SshNewPublicKey(d)
    BY <1>4 DEF Rekord!NewPublicKey
  <2>a. k = l
    BY <2>0 DEF Rekord!SshNewPublicKey
  <2>1. k = l /\ k.fmt = "ssh"
    BY <2>0, <2>a, SshForms
  <2>2. QED BY <2>1 DEF Rekord!KeyCanonicalValue, Rekord!SshKeyCanonicalValue
<1>5. QED BY <1>1, <1>2, <1>3, <1>4

LEMMA RekordSigOnce ==
  ASSUME NEW f \in {"pgp", "minisign", "x509", "ssh"}, NEW d,
         NEW k \in Rekord!NewSignature(f, d), NEW l \in Rekord!NewSignature(f, d),
         NEW p \in Rekord!SigCanonicalValue(k), NEW q \in Rekord!SigCanonicalValue(l)
  PROVE  p = q
<1>1. CASE f = "pgp"
  <2>0. k \in Rekord!PgpNewSignature(d) /\ l \in Rekord!PgpNewSignature(d)
    BY <1>1 DEF Rekord!NewSignature
  <2>a. k = l
    BY <2>0 DEF Rekord!PgpNewSignature
  <2>1. k = l /\ k.fmt = "pgp"
    BY <2>0, <2>a, PgpForms
  <2>2. p \in Rekord!PgpSigCanonicalValue(k) /\ q \in Rekord!PgpSigCanonicalValue(k)
    BY <2>1 DEF Rekord!SigCanonicalValue
  <2>3. QED BY <2>2 DEF Rekord!PgpSigCanonicalValue
<1>2. CASE f = "minisign"
  <2>0. k \in Rekord!MinisignNewSignature(d) /\ l \in Rekord!MinisignNewSignature(d)
    BY <1>2 DEF Rekord!NewSignature
  <2>a. k = l
    BY <2>0 DEF Rekord!MinisignNewSignature
  <2>1. k = l /\ k.fmt = "minisign"
    BY <2>0, <2>a, MinisignForms
  <2>2. QED BY <2>1 DEF Rekord!SigCanonicalValue, Rekord!MinisignSigCanonicalValue
<1>3. CASE f = "x509"
  <2>0. k \in Rekord!X509NewSignature(d) /\ l \in Rekord!X509NewSignature(d)
    BY <1>3 DEF Rekord!NewSignature
  <2>a. k = l
    BY <2>0 DEF Rekord!X509NewSignature
  <2>1. k = l /\ k.fmt = "x509"
    BY <2>0, <2>a, X509Forms
  <2>2. QED BY <2>1 DEF Rekord!SigCanonicalValue, Rekord!X509SigCanonicalValue
<1>4. CASE f = "ssh"
  <2>0. k \in Rekord!SshDecode(d) /\ l \in Rekord!SshDecode(d)
    BY <1>4 DEF Rekord!NewSignature
  <2>a. k = l
    BY <2>0 DEF Rekord!SshDecode
  <2>1. k = l /\ k.fmt = "ssh"
    BY <2>0, <2>a, SshForms
  <2>2. QED BY <2>1 DEF Rekord!SigCanonicalValue
<1>5. QED BY <1>1, <1>2, <1>3, <1>4

RekordLeaf(v, s, p) ==
  [kind |-> "rekord", apiVersion |-> "0.0.1",
   spec |-> [signature |-> [format |-> v.signature.format, content |-> s, publicKey |-> [content |-> p]],
             data |-> [hash |-> Rekord!FilledIn(v.data.hash, v.data.content), content |-> Nil]]]

LEMMA RekordLeafOf ==
  ASSUME NEW v, NEW t, NEW c \in Rekord!Canonicalize(v, t)
  PROVE  \E s, p, g, k :
           /\ g \in Rekord!NewSignature(v.signature.format, v.signature.content)
           /\ k \in Rekord!NewPublicKey(v.signature.format, v.signature.publicKey.content, t)
           /\ s \in Rekord!SigCanonicalValue(g) /\ p \in Rekord!KeyCanonicalValue(k)
           /\ c.leaf = RekordLeaf(v, s, p)
<1> DEFINE f == v.signature.format
           Form(e, s, p) == [signature |-> [format |-> f, content |-> s, publicKey |-> [content |-> p]],
                             data |-> [hash |-> e.entry.data.hash, content |-> Nil]]
           Forms(e) == {Form(e, s, p) : s \in Rekord!SigCanonicalValue(e.sig),
                                        p \in Rekord!KeyCanonicalValue(e.key)}
<1>1. c \in {[leaf |-> Rekord!MarshalJSON("0.0.1", x), entry |-> x] :
               x \in UNION {Forms(e) : e \in Rekord!Verified(v, t)}}
  BY DEF Rekord!Canonicalize
<1> HIDE DEF Form, Forms
<1>2. PICK e \in Rekord!Verified(v, t) : \E x \in Forms(e) :
        c = [leaf |-> Rekord!MarshalJSON("0.0.1", x), entry |-> x]
  BY <1>1
<1>3. PICK s, p : /\ s \in Rekord!SigCanonicalValue(e.sig) /\ p \in Rekord!KeyCanonicalValue(e.key)
                  /\ c = [leaf |-> Rekord!MarshalJSON("0.0.1", Form(e, s, p)), entry |-> Form(e, s, p)]
  BY <1>2 DEF Forms
<1>4. e \in Rekord!fetchExternalEntities(v, t)
  BY DEF Rekord!Verified
<1>5. /\ e.sig \in Rekord!NewSignature(f, v.signature.content)
      /\ e.key \in Rekord!NewPublicKey(f, v.signature.publicKey.content, t)
      /\ e.entry.data.hash = Rekord!FilledIn(v.data.hash, v.data.content)
  BY <1>4 DEF Rekord!fetchExternalEntities
<1>6. c.leaf = RekordLeaf(v, s, p)
  BY <1>3, <1>5 DEF Rekord!MarshalJSON, RekordLeaf, Form
<1>7. QED BY <1>3, <1>5, <1>6

LEMMA RekordOnce ==
  ASSUME NEW pe, NEW v \in Rekord!UnmarshalEntry(pe), NEW t, NEW u,
         NEW c \in Rekord!Canonicalize(v, t), NEW d \in Rekord!Canonicalize(v, u),
         v.signature.format = "pgp" => OneUserID(v.signature.publicKey.content)
  PROVE  c.leaf = d.leaf
<1> DEFINE f == v.signature.format
           x == v.signature.publicKey.content
<1>1. f \in {"pgp", "minisign", "x509", "ssh"}
  BY DEF Rekord!UnmarshalEntry, Rekord!Unmarshal, Rekord!ValidSchema, Rekord!Required, Rekord!ValidSignature
<1>2. PICK s, p, g, k :
        /\ g \in Rekord!NewSignature(f, v.signature.content) /\ k \in Rekord!NewPublicKey(f, x, t)
        /\ s \in Rekord!SigCanonicalValue(g) /\ p \in Rekord!KeyCanonicalValue(k)
        /\ c.leaf = RekordLeaf(v, s, p)
  BY RekordLeafOf
<1>3. PICK r, q, h, l :
        /\ h \in Rekord!NewSignature(f, v.signature.content) /\ l \in Rekord!NewPublicKey(f, x, u)
        /\ r \in Rekord!SigCanonicalValue(h) /\ q \in Rekord!KeyCanonicalValue(l)
        /\ d.leaf = RekordLeaf(v, r, q)
  BY RekordLeafOf
<1> HIDE DEF f, x
<1>4. s = r
  BY <1>1, <1>2, <1>3, RekordSigOnce
<1>5. p = q
  BY <1>1, <1>2, <1>3, RekordKeyOnce DEF f, x
<1>6. QED BY <1>2, <1>3, <1>4, <1>5

\* A document is bound to one proposed entry.
LEMMA BoundOnce == \A doc : AtMostOne(BindRequest(doc))
<1> SUFFICES ASSUME NEW doc, NEW x \in unmarshalProposedEntry(doc), NEW y \in unmarshalProposedEntry(doc)
             PROVE  x = y
  BY DEF AtMostOne, BindRequest
<1> DEFINE pe == [kind |-> doc.kind, apiVersion |-> doc.apiVersion, spec |-> doc.spec]
<1>1. unmarshalProposedEntry(doc) \subseteq {doc} \/ unmarshalProposedEntry(doc) \subseteq {pe}
  BY DEF unmarshalProposedEntry, Alpine!UnmarshalJSON, Cose!UnmarshalJSON, Dsse!UnmarshalJSON,
         HashedRekord!UnmarshalJSON, Helm!UnmarshalJSON, IntotoV002!UnmarshalJSON, Jar!UnmarshalJSON,
         Rekord!UnmarshalJSON, Rfc3161!UnmarshalJSON, Rpm!UnmarshalJSON, Tuf!UnmarshalJSON
<1>2. QED BY <1>1

\* A proposed entry is unmarshalled to one object.
LEMMA EntryReadOnce ==
  ASSUME NEW pe, pe.kind = "dsse" => VerifiersListed(pe), NEW d \in UnmarshalEntry(pe), NEW e \in UnmarshalEntry(pe)
  PROVE  d.kind = e.kind /\ d.version = e.version /\ d.impl = e.impl
<1>1. d.kind = pe.kind /\ e.kind = pe.kind /\ pe.kind \in Kinds
  BY UnmarshalByKind
<1>2. CASE pe.kind = "alpine"
  <2>1. /\ d.impl \in Alpine!UnmarshalEntry(pe) /\ e.impl \in Alpine!UnmarshalEntry(pe)
        /\ d.version = "0.0.1" /\ e.version = "0.0.1"
    BY <1>2, UnmarshalByKind
  <2>2. QED BY <1>1, <2>1, PlainTypesReadOnce DEF AtMostOne
<1>3. CASE pe.kind = "cose"
  <2>1. /\ d.impl \in Cose!UnmarshalEntry(pe) /\ e.impl \in Cose!UnmarshalEntry(pe)
        /\ d.version = "0.0.1" /\ e.version = "0.0.1"
    BY <1>3, UnmarshalByKind
  <2>2. QED BY <1>1, <2>1, CoseReadOnce DEF AtMostOne
<1>4. CASE pe.kind = "dsse"
  <2>1. /\ d.impl \in Dsse!UnmarshalEntry(pe) /\ e.impl \in Dsse!UnmarshalEntry(pe)
        /\ d.version = "0.0.1" /\ e.version = "0.0.1"
    BY <1>4, UnmarshalByKind
  <2>2. QED BY <1>1, <1>4, <2>1, DsseReadOnce
<1>5. CASE pe.kind = "hashedrekord"
  <2>1. /\ d.impl \in HashedRekord!UnmarshalEntry(pe) /\ e.impl \in HashedRekord!UnmarshalEntry(pe)
        /\ d.version = "0.0.1" /\ e.version = "0.0.1"
    BY <1>5, UnmarshalByKind
  <2>2. QED BY <1>1, <2>1, PlainTypesReadOnce DEF AtMostOne
<1>6. CASE pe.kind = "helm"
  <2>1. /\ d.impl \in Helm!UnmarshalEntry(pe) /\ e.impl \in Helm!UnmarshalEntry(pe)
        /\ d.version = "0.0.1" /\ e.version = "0.0.1"
    BY <1>6, UnmarshalByKind
  <2>2. QED BY <1>1, <2>1, PlainTypesReadOnce DEF AtMostOne
<1>7. CASE pe.kind = "jar"
  <2>1. /\ d.impl \in Jar!UnmarshalEntry(pe) /\ e.impl \in Jar!UnmarshalEntry(pe)
        /\ d.version = "0.0.1" /\ e.version = "0.0.1"
    BY <1>7, UnmarshalByKind
  <2>2. QED BY <1>1, <2>1, PlainTypesReadOnce DEF AtMostOne
<1>8. CASE pe.kind = "rekord"
  <2>1. /\ d.impl \in Rekord!UnmarshalEntry(pe) /\ e.impl \in Rekord!UnmarshalEntry(pe)
        /\ d.version = "0.0.1" /\ e.version = "0.0.1"
    BY <1>8, UnmarshalByKind
  <2>2. QED BY <1>1, <2>1, PlainTypesReadOnce DEF AtMostOne
<1>9. CASE pe.kind = "rfc3161"
  <2>1. /\ d.impl \in Rfc3161!UnmarshalEntry(pe) /\ e.impl \in Rfc3161!UnmarshalEntry(pe)
        /\ d.version = "0.0.1" /\ e.version = "0.0.1"
    BY <1>9, UnmarshalByKind
  <2>2. QED BY <1>1, <2>1, Rfc3161ReadOnce DEF AtMostOne
<1>10. CASE pe.kind = "rpm"
  <2>1. /\ d.impl \in Rpm!UnmarshalEntry(pe) /\ e.impl \in Rpm!UnmarshalEntry(pe)
        /\ d.version = "0.0.1" /\ e.version = "0.0.1"
    BY <1>10, UnmarshalByKind
  <2>2. QED BY <1>1, <2>1, PlainTypesReadOnce DEF AtMostOne
<1>11. CASE pe.kind = "tuf"
  <2>1. /\ d.impl \in Tuf!UnmarshalEntry(pe) /\ e.impl \in Tuf!UnmarshalEntry(pe)
        /\ d.version = "0.0.1" /\ e.version = "0.0.1"
    BY <1>11, UnmarshalByKind
  <2>2. QED BY <1>1, <2>1, PlainTypesReadOnce DEF AtMostOne
<1>12. CASE pe.kind = "intoto"
  <2>1. d \in IntotoUnmarshalEntry(pe) /\ e \in IntotoUnmarshalEntry(pe)
    BY <1>12 DEF UnmarshalEntry
  <2>2. CASE SemVerMatches("0.0.2", pe.apiVersion)
    <3>1. PICK v, w : /\ v \in IntotoV002!Unmarshal(pe) /\ w \in IntotoV002!Unmarshal(pe)
                      /\ d = [kind |-> "intoto", version |-> "0.0.2", impl |-> v]
                      /\ e = [kind |-> "intoto", version |-> "0.0.2", impl |-> w]
      BY <2>1, <2>2 DEF IntotoUnmarshalEntry
    <3>2. QED BY <3>1, IntotoV002ReadOnce DEF AtMostOne
  <2>3. CASE ~SemVerMatches("0.0.2", pe.apiVersion)
    <3>1. PICK v, w : /\ v \in IntotoV001!Unmarshal(pe) /\ w \in IntotoV001!Unmarshal(pe)
                      /\ d = [kind |-> "intoto", version |-> "0.0.1", impl |-> v]
                      /\ e = [kind |-> "intoto", version |-> "0.0.1", impl |-> w]
      BY <2>1, <2>3 DEF IntotoUnmarshalEntry
    <3>2. QED BY <3>1, IntotoV001ReadOnce DEF AtMostOne
  <2>4. QED BY <2>2, <2>3
<1>13. QED BY <1>1, <1>2, <1>3, <1>4, <1>5, <1>6, <1>7, <1>8, <1>9, <1>10, <1>11, <1>12 DEF Kinds

\* An entry object has one leaf, at whatever times it is canonicalized.
LEMMA EntryLeafOnce ==
  ASSUME NEW pe, NEW d \in UnmarshalEntry(pe), NEW e \in UnmarshalEntry(pe), OneOrder(d),
         d.kind = e.kind, d.version = e.version, d.impl = e.impl,
         NEW t, NEW u, NEW f \in CanonicalizeEntry(d, t), NEW g \in CanonicalizeEntry(e, u)
  PROVE  f.leaf = g.leaf
<1>1. /\ e.kind \in Kinds /\ e.kind = pe.kind
      /\ e.kind = "intoto" => e.version \in {"0.0.1", "0.0.2"}
  BY UnmarshalByKind
<1>2. PICK x : CanonicalOf(x, d, t) /\ f.leaf = x.leaf
  BY <1>1, CanonicalByKind
<1>3. PICK y : CanonicalOf(y, e, u) /\ g.leaf = y.leaf
  BY <1>1, CanonicalByKind
<1>4. CASE e.kind = "alpine"
  <2>1. x \in Alpine!Canonicalize(e.impl, t) /\ y \in Alpine!Canonicalize(e.impl, u)
    BY <1>2, <1>3, <1>4 DEF CanonicalOf
  <2>2. QED BY <1>2, <1>3, <2>1, AlpineLeafOf
<1>5. CASE e.kind = "cose"
  <2>1. x \in Cose!Canonicalize(e.impl, t) /\ y \in Cose!Canonicalize(e.impl, u)
    BY <1>2, <1>3, <1>5 DEF CanonicalOf
  <2>2. QED BY <1>2, <1>3, <2>1, CoseOnce
<1>6. CASE e.kind = "dsse"
  <2>1. x \in Dsse!Canonicalize(e.impl, t) /\ y \in Dsse!Canonicalize(e.impl, u)
    BY <1>2, <1>3, <1>6 DEF CanonicalOf
  <2>2. QED BY <1>2, <1>3, <2>1, DsseOnce
<1>7. CASE e.kind = "hashedrekord"
  <2>1. x \in HashedRekord!Canonicalize(e.impl, t) /\ y \in HashedRekord!Canonicalize(e.impl, u)
    BY <1>2, <1>3, <1>7 DEF CanonicalOf
  <2>2. QED BY <1>2, <1>3, <2>1, HashedRekordOnce
<1>8. CASE e.kind = "helm"
  <2>1. x \in Helm!Canonicalize(e.impl, t) /\ y \in Helm!Canonicalize(e.impl, u)
    BY <1>2, <1>3, <1>8 DEF CanonicalOf
  <2>2. OneUserID(e.impl.publicKey.content) /\ AtMostOne(e.impl.chart.provenance.content.text.files)
    BY <1>8 DEF OneOrder
  <2>3. QED BY <1>2, <1>3, <2>1, <2>2, HelmOnce
<1>9. CASE e.kind = "jar"
  <2>1. x \in Jar!Canonicalize(e.impl, t) /\ y \in Jar!Canonicalize(e.impl, u)
    BY <1>2, <1>3, <1>9 DEF CanonicalOf
  <2>2. QED BY <1>2, <1>3, <2>1, JarLeafOf
<1>10. CASE e.kind = "rekord"
  <2>1. x \in Rekord!Canonicalize(e.impl, t) /\ y \in Rekord!Canonicalize(e.impl, u)
    BY <1>2, <1>3, <1>10 DEF CanonicalOf
  <2>2. e.impl \in Rekord!UnmarshalEntry(pe)
    BY <1>1, <1>10, UnmarshalByKind
  <2>3. e.impl.signature.format = "pgp" => OneUserID(e.impl.signature.publicKey.content)
    BY <1>10 DEF OneOrder
  <2>4. QED BY <1>2, <1>3, <2>1, <2>2, <2>3, RekordOnce
<1>11. CASE e.kind = "rfc3161"
  <2>1. x \in Rfc3161!Canonicalize(e.impl, t) /\ y \in Rfc3161!Canonicalize(e.impl, u)
    BY <1>2, <1>3, <1>11 DEF CanonicalOf
  <2>2. QED BY <1>2, <1>3, <2>1, Rfc3161Once
<1>12. CASE e.kind = "rpm"
  <2>1. x \in Rpm!Canonicalize(e.impl, t) /\ y \in Rpm!Canonicalize(e.impl, u)
    BY <1>2, <1>3, <1>12 DEF CanonicalOf
  <2>2. OneUserID(e.impl.publicKey.content)
    BY <1>12 DEF OneOrder
  <2>3. QED BY <1>2, <1>3, <2>1, <2>2, RpmOnce
<1>13. CASE e.kind = "tuf"
  <2>1. x \in Tuf!Canonicalize(e.impl, t) /\ y \in Tuf!Canonicalize(e.impl, u)
    BY <1>2, <1>3, <1>13 DEF CanonicalOf
  <2>2. QED BY <1>2, <1>3, <2>1, TufOnce
<1>14. CASE e.kind = "intoto" /\ e.version = "0.0.1"
  <2>1. x \in IntotoV001!Canonicalize(e.impl, t) /\ y \in IntotoV001!Canonicalize(e.impl, u)
    BY <1>2, <1>3, <1>14 DEF CanonicalOf
  <2>2. QED BY <1>2, <1>3, <2>1, IntotoV001Once
<1>15. CASE e.kind = "intoto" /\ e.version = "0.0.2"
  <2>1. x \in IntotoV002!Canonicalize(e.impl, t) /\ y \in IntotoV002!Canonicalize(e.impl, u)
    BY <1>2, <1>3, <1>15 DEF CanonicalOf
  <2>2. QED BY <1>2, <1>3, <2>1, IntotoV002Once
<1>16. QED BY <1>1, <1>4, <1>5, <1>6, <1>7, <1>8, <1>9, <1>10, <1>11, <1>12, <1>13, <1>14, <1>15 DEF Kinds

\* Whatever a request that is sent again can be canonicalized to, now or later, is in the log.
RetryInv ==
  \A c \in Clients : Retrying(c) =>
    \A e \in EntriesOf(command[c].proposals[1]) : \A t \in 0 .. MaxTime :
      \A f \in CanonicalizeEntry(e, t) : f.leaf \in log

LEMMA DocumentLeafOnce ==
  ASSUME NEW doc, Unambiguous(doc), NEW d \in EntriesOf(doc), NEW e \in EntriesOf(doc),
         NEW t, NEW u, NEW f \in CanonicalizeEntry(d, t), NEW g \in CanonicalizeEntry(e, u)
  PROVE  f.leaf = g.leaf
<1>1. PICK pe \in BindRequest(doc) :
        d \in CreateVersionedEntry(pe, AcceptedKinds) /\ e \in CreateVersionedEntry(pe, AcceptedKinds)
  BY BoundOnce DEF EntriesOf, AtMostOne
<1>2. d \in UnmarshalEntry(pe) /\ e \in UnmarshalEntry(pe)
  BY <1>1 DEF CreateVersionedEntry
<1>3. (pe.kind = "dsse" => VerifiersListed(pe)) /\ OneOrder(d)
  BY DEF Unambiguous
<1>4. d.kind = e.kind /\ d.version = e.version /\ d.impl = e.impl
  BY <1>2, <1>3, EntryReadOnce
<1>5. QED BY <1>2, <1>3, <1>4, EntryLeafOnce

LEMMA AdmittedAreEntries == \A doc : Admitted(doc) \subseteq EntriesOf(doc)
BY DEF Admitted, EntriesOf

\* A reply that leaves the command to be tried again: its leaf is in the log by then.
LEMMA RepliedRetries ==
  ASSUME RetryInv, NEW c \in Clients, command[c] # Nil, DOMAIN command = Clients,
         NEW e \in Admitted(command[c].proposals[1]), NEW f \in CanonicalizeEntry(e, now),
         f.leaf \in log', log \subseteq log', Replied(c, f.leaf)
  PROVE  RetryInv'
<1> SUFFICES ASSUME NEW b \in Clients, Retrying(b)', NEW d \in EntriesOf(command'[b].proposals[1]),
                    NEW t \in 0 .. MaxTime, NEW g \in CanonicalizeEntry(d, t)
             PROVE  g.leaf \in log'
  BY DEF RetryInv
<1>1. CASE b # c
  <2>1. command'[b] = command[b]
    BY <1>1 DEF Replied
  <2>2. Retrying(b)
    BY <2>1 DEF Retrying
  <2>3. g.leaf \in log
    BY <2>1, <2>2 DEF RetryInv
  <2>4. QED BY <2>3
<1>2. CASE b = c
  <2>1. command'[c] # Nil /\ Unambiguous(command'[c].proposals[1])
    BY <1>2 DEF Retrying
  <2>2. command'[c].proposals = command[c].proposals
    BY <2>1 DEF Replied
  <2>3. e \in EntriesOf(command[c].proposals[1])
    BY AdmittedAreEntries
  <2>4. f.leaf = g.leaf
    BY <1>2, <2>1, <2>2, <2>3, DocumentLeafOnce
  <2>5. QED BY <2>4
<1>3. QED BY <1>1, <1>2

LEMMA RetryNext == TypeOK /\ RetryInv /\ [Next]_vars => RetryInv'
<1> SUFFICES ASSUME TypeOK, RetryInv, [Next]_vars PROVE RetryInv'
  OBVIOUS
<1>0. DOMAIN command = Clients
  BY DEF TypeOK
<1>1. ASSUME log \subseteq log',
             \A b \in Clients : command'[b] = command[b] \/ command'[b] = Nil \/ command'[b].tries = 0
      PROVE  RetryInv'
  <2> SUFFICES ASSUME NEW b \in Clients, Retrying(b)', NEW d \in EntriesOf(command'[b].proposals[1]),
                      NEW t \in 0 .. MaxTime, NEW g \in CanonicalizeEntry(d, t)
               PROVE  g.leaf \in log'
    BY DEF RetryInv
  <2>1. command'[b] = command[b]
    BY <1>1 DEF Retrying
  <2>2. Retrying(b)
    BY <2>1 DEF Retrying
  <2>3. QED BY <1>1, <2>1, <2>2 DEF RetryInv
<1>2. ASSUME NEW c \in Clients, StartUpload(c) PROVE RetryInv'
  <2>1. log' = log
    BY <1>2 DEF StartUpload
  <2>2. command'[c].tries = 0 /\ \A b \in Clients : b # c => command'[b] = command[b]
    BY <1>0, <1>2 DEF StartUpload
  <2>3. QED BY <1>1, <2>1, <2>2
<1>3. ASSUME NEW c \in Clients, TryNext(c) PROVE RetryInv'
  <2>1. log' = log
    BY <1>3 DEF TryNext
  <2>2. command'[c] = Nil \/ command'[c].tries = 0
    BY <1>0, <1>3 DEF TryNext
  <2>3. \A b \in Clients : b # c => command'[b] = command[b]
    BY <1>0, <1>3 DEF TryNext
  <2>4. QED BY <1>1, <2>1, <2>2, <2>3
<1>4. ASSUME NEW c \in Clients, Refused(c) PROVE RetryInv'
  <2>1. log' = log /\ command' = [command EXCEPT ![c] = Nil]
    BY <1>4 DEF Refused
  <2>2. \A b \in Clients : command'[b] = command[b] \/ command'[b] = Nil
    BY <1>0, <2>1
  <2>3. QED BY <1>1, <2>1, <2>2
<1>5. ASSUME NEW c \in Clients, createLogEntry(c) PROVE RetryInv'
  <2>1. PICK e \in Admitted(command[c].proposals[1]) : \E f \in CanonicalizeEntry(e, now) :
          log' = log \cup {f.leaf} /\ Replied(c, f.leaf)
    BY <1>5 DEF createLogEntry
  <2>2. PICK f \in CanonicalizeEntry(e, now) : log' = log \cup {f.leaf} /\ Replied(c, f.leaf)
    BY <2>1
  <2>3. command[c] # Nil
    BY <1>5 DEF createLogEntry
  <2>4. f.leaf \in log' /\ log \subseteq log'
    BY <2>2
  <2>5. QED BY <1>0, <2>2, <2>3, <2>4, RepliedRetries
<1>6. ASSUME NEW c \in Clients, AlreadyExists(c) PROVE RetryInv'
  <2>1. PICK e \in Admitted(command[c].proposals[1]) : \E f \in CanonicalizeEntry(e, now) :
          f.leaf \in log /\ Replied(c, f.leaf)
    BY <1>6 DEF AlreadyExists
  <2>2. PICK f \in CanonicalizeEntry(e, now) : f.leaf \in log /\ Replied(c, f.leaf)
    BY <2>1
  <2>3. command[c] # Nil /\ log' = log
    BY <1>6 DEF AlreadyExists
  <2>4. f.leaf \in log' /\ log \subseteq log'
    BY <2>2, <2>3
  <2>5. QED BY <1>0, <2>2, <2>3, <2>4, RepliedRetries
<1>7. CASE log' = log /\ command' = command
  BY <1>1, <1>7
<1>8. QED
  BY <1>2, <1>3, <1>4, <1>5, <1>6, <1>7 DEF Next, addToIndex, StoreAttestation, populate, Tick, vars

\* A request that is sent again after its reply was lost adds nothing to the log: it
\* meets its own leaf, whatever has happened in between and whatever the time.  The
\* leaf is a function of the request because every parser and every canonical form is,
\* save for the orders that Go maps bring in.
THEOREM RetriesMeetTheirLeaf == Spec => RetriesAddNothing
<1> DEFINE Met == \A c \in Clients : Retrying(c) => ~createLogEntry(c)
<1>1. Init => RetryInv
  BY DEF Init, RetryInv, Retrying
<1>2. TypeOK /\ RetryInv => Met
  <2> SUFFICES ASSUME TypeOK, RetryInv, NEW c \in Clients, Retrying(c), createLogEntry(c) PROVE FALSE
    OBVIOUS
  <2>1. PICK e \in Admitted(command[c].proposals[1]) : \E f \in CanonicalizeEntry(e, now) : f.leaf \notin log
    BY DEF createLogEntry
  <2>2. PICK f \in CanonicalizeEntry(e, now) : f.leaf \notin log
    BY <2>1
  <2>3. e \in EntriesOf(command[c].proposals[1]) /\ now \in 0 .. MaxTime
    BY AdmittedAreEntries DEF TypeOK
  <2>4. QED BY <2>2, <2>3 DEF RetryInv
<1>3. TypeOK /\ RetryInv /\ [Next]_vars => RetryInv' /\ [Met]_vars
  BY <1>2, RetryNext
<1> HIDE DEF Met
<1>4. QED BY <1>1, <1>3, SubmissionTypes, PTL DEF Spec, Met, RetriesAddNothing
=============================================================================
