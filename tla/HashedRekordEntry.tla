------------------------- MODULE HashedRekordEntry -------------------------
(* The hashedrekord type, v0.0.1: an X.509 signature over a digest.        *)
EXTENDS EntryBase

---------------------------------------------------------------------------
(* The proposed entry that carries the schema object as its spec.          *)

UnmarshalJSON(doc) ==
  IF doc.kind = "hashedrekord" THEN {[kind |-> "hashedrekord", apiVersion |-> doc.apiVersion, spec |-> doc.spec]} ELSE {}

MarshalJSON(apiVersion, spec) == [kind |-> "hashedrekord", apiVersion |-> apiVersion, spec |-> spec]

ValidateProposed(pe) == pe.apiVersion \in SemVers /\ pe.spec # Nil

---------------------------------------------------------------------------
(* The schema.                                                             *)

HashAlgorithms == {"sha256", "sha384", "sha512"}

ValidHash(h) == h.algorithm \in HashAlgorithms /\ h.value # Nil

ValidData(d) == Optional(d.hash, ValidHash)

\* No member of the signature is required.
ValidSignature(s) == TRUE

ValidSchema(v) == Required(v.data, ValidData) /\ Required(v.signature, ValidSignature)

---------------------------------------------------------------------------
(* The entry.                                                              *)

\* Data without a hash is dropped.
DecodeEntry(spec) ==
  LET Key(k) == {[content |-> c] : c \in DecodeBytes(k.content)}
      Sig(s) == {[content |-> c, publicKey |-> k] :
                   c \in DecodeBytes(s.content), k \in Member(s.publicKey, Key)}
      Data(d) == IF d.hash = Nil THEN {Nil} ELSE {[hash |-> d.hash]}
  IN {[signature |-> s, data |-> d] :
        s \in Member(spec.signature, Sig), d \in Member(spec.data, Data)}

\* Absent content is an empty byte string to the parsers.
Bytes(c) == IF c = Nil THEN EmptyBytes ELSE c

\* The digest must have the length of its algorithm; the signature is verified
\* against the digest.  The key and the signature of an entry that is valid.
validate(v) ==
  IF \/ v.signature = Nil \/ v.signature.publicKey = Nil \/ v.data = Nil \/ v.data.hash = Nil
     \/ v.data.hash.value.alg # v.data.hash.algorithm
     \/ ~IsHex(v.data.hash.value)
  THEN {}
  ELSE {e \in {[key |-> k, sig |-> s] :
                 k \in X509NewPublicKey(Bytes(v.signature.publicKey.content)),
                 s \in X509NewSignature(Bytes(v.signature.content))} :
          X509VerifyDigest(e.sig, v.data.hash.algorithm, v.data.hash.value.of, e.key)}

Unmarshal(pe) == {v \in DecodeEntry(pe.spec) : ValidSchema(v) /\ validate(v) # {}}

Insertable(v) ==
  /\ v.signature # Nil /\ v.signature.content # Nil
  /\ v.signature.publicKey # Nil /\ v.signature.publicKey.content # Nil
  /\ v.data # Nil /\ v.data.hash # Nil
  /\ v.data.hash.algorithm # Nil /\ v.data.hash.value # Nil

\* The entry keeps its canonical form; the digest is kept as it was written.
Canonicalize(v, now) ==
  LET Forms(e) == {[signature |-> [content |-> s, publicKey |-> [content |-> k]],
                    data |-> [hash |-> v.data.hash]] :
                     s \in X509SigCanonicalValue(e.sig), k \in X509KeyCanonicalValue(e.key)}
  IN {[leaf |-> MarshalJSON("0.0.1", c), entry |-> c] :
        c \in UNION {Forms(e) : e \in validate(v)}}

\* The bytes of the key are hashed as they stand.
IndexKeys(v, now) ==
  {{BytesKey(v.signature.publicKey.content)} \cup NameKeys(X509Subjects(k))
     \cup {HashKey(v.data.hash.algorithm, v.data.hash.value)} :
     k \in X509NewPublicKey(v.signature.publicKey.content)}

Verifiers(v, now) == X509NewPublicKey(v.signature.publicKey.content)

ArtifactHash(v) == {HashKey(v.data.hash.algorithm, v.data.hash.value)}

\* The algorithm is told by the prefix of the hash, or its length.
CreateFromArtifactProperties(props, now) ==
  IF \/ props.pkiFormat # "x509" \/ props.signature = Nil \/ Len(props.publicKeys) # 1
     \/ props.artifactHash = Nil
  THEN {}
  ELSE LET v == [signature |-> [content |-> props.signature,
                                publicKey |-> [content |-> props.publicKeys[1]]],
                 data |-> [hash |-> [algorithm |-> props.artifactHash.alg,
                                     value |-> props.artifactHash]]]
       IN {[kind |-> "hashedrekord", apiVersion |-> "0.0.1", spec |-> v] : e \in validate(v)}

---------------------------------------------------------------------------
(* The type.                                                               *)

UnmarshalEntry(pe) ==
  IF pe.kind = "hashedrekord" /\ pe.apiVersion # Nil /\ SemVerMatches("0.0.1", pe.apiVersion)
  THEN Unmarshal(pe) ELSE {}

CreateProposedEntry(version, props, now) ==
  IF version = AnyVersion \/ SemVerMatches("0.0.1", version)
  THEN CreateFromArtifactProperties(props, now) ELSE {}
=============================================================================
