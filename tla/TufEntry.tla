------------------------------ MODULE TufEntry ------------------------------
(* The tuf type, v0.0.1: TUF metadata and the root that vouches for it.    *)
EXTENDS EntryBase

---------------------------------------------------------------------------
(* The proposed entry that carries the schema object as its spec.          *)

UnmarshalJSON(doc) ==
  IF doc.kind = "tuf" THEN {[kind |-> "tuf", apiVersion |-> doc.apiVersion, spec |-> doc.spec]} ELSE {}

MarshalJSON(apiVersion, spec) == [kind |-> "tuf", apiVersion |-> apiVersion, spec |-> spec]

ValidateProposed(pe) == pe.apiVersion \in SemVers /\ pe.spec # Nil

---------------------------------------------------------------------------
(* The schema.                                                             *)

ValidMetadata(m) == m.content # Nil

ValidRoot(r) == r.content # Nil

ValidSchema(v) == Required(v.metadata, ValidMetadata) /\ Required(v.root, ValidRoot)

---------------------------------------------------------------------------
(* The entry.  A content is a JSON object or a string in base64.           *)

DecodeEntry(spec) ==
  {[metadata |-> spec.metadata, root |-> spec.root]}

Validate(v) ==
  /\ v.root # Nil /\ v.root.content # Nil
  /\ v.metadata # Nil /\ v.metadata.content # Nil

Unmarshal(pe) == {v \in DecodeEntry(pe.spec) : ValidSchema(v) /\ Validate(v)}

Insertable(v) ==
  /\ v.metadata # Nil /\ v.metadata.content # Nil
  /\ v.root # Nil /\ v.root.content # Nil

parseMetadataContent(v) == {v.metadata.content} \ {NotBase64}

parseRootContent(v) == {v.root.content} \ {NotBase64}

\* Root and metadata, of which the root must be in force now.
fetchExternalEntities(v, now) ==
  {[key |-> k, sig |-> s] :
     s \in UNION {TufNewSignature(d) : d \in parseMetadataContent(v)},
     k \in UNION {TufNewPublicKey(d, now) : d \in parseRootContent(v)}}

Verified(v, now) == {e \in fetchExternalEntities(v, now) : TufVerify(e.sig, e.key, now)}

\* The entry is left as it was proposed.
Canonicalize(v, now) ==
  LET Forms(e) == {[metadata |-> [content |-> m], root |-> [content |-> r]] :
                     m \in TufSigCanonicalValue(e.sig), r \in TufKeyCanonicalValue(e.key)}
  IN {[leaf |-> MarshalJSON("0.0.1", c), entry |-> v] :
        c \in UNION {Forms(e) : e \in Verified(v, now)}}

IndexKeys(v, now) ==
  LET e == fetchExternalEntities(v, now)
  IN {{BytesKey(m), NameKey(x.sig.signed.role), NameKey(x.sig.signed.version), BytesKey(r)} :
        x \in e, m \in UNION {TufSigCanonicalValue(y.sig) : y \in e},
        r \in UNION {TufKeyCanonicalValue(y.key) : y \in e}}

Verifiers(v, now) == UNION {TufNewPublicKey(d, now) : d \in parseRootContent(v)}

ArtifactHash(v) ==
  {HashKey("sha256", Digest("sha256", m)) :
     m \in UNION {TufSigCanonicalValue(s) :
                    s \in UNION {TufNewSignature(d) : d \in parseMetadataContent(v)}}}

CreateFromArtifactProperties(props, now) ==
  IF props.artifact = Nil \/ Len(props.publicKeys) # 1
     \/ props.artifact.fmt # "tuf" \/ props.publicKeys[1].fmt # "tuf"
  THEN {}
  ELSE LET v == [metadata |-> [content |-> props.artifact],
                 root |-> [content |-> props.publicKeys[1]]]
       IN {[kind |-> "tuf", apiVersion |-> "0.0.1", spec |-> v] : e \in Verified(v, now)}

---------------------------------------------------------------------------
(* The type.                                                               *)

UnmarshalEntry(pe) ==
  IF pe.kind = "tuf" /\ pe.apiVersion # Nil /\ SemVerMatches("0.0.1", pe.apiVersion)
  THEN Unmarshal(pe) ELSE {}

CreateProposedEntry(version, props, now) ==
  IF version = AnyVersion \/ SemVerMatches("0.0.1", version)
  THEN CreateFromArtifactProperties(props, now) ELSE {}
=============================================================================
