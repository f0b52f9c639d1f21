---------------------------- MODULE RekordEntry ----------------------------
(* The rekord type, v0.0.1: a detached signature over a blob.              *)
EXTENDS EntryBase

---------------------------------------------------------------------------
(* The proposed entry that carries the schema object as its spec.          *)

UnmarshalJSON(doc) ==
  IF doc.kind = "rekord" THEN {[kind |-> "rekord", apiVersion |-> doc.apiVersion, spec |-> doc.spec]} ELSE {}

MarshalJSON(apiVersion, spec) == [kind |-> "rekord", apiVersion |-> apiVersion, spec |-> spec]

ValidateProposed(pe) == pe.apiVersion \in SemVers /\ pe.spec # Nil

---------------------------------------------------------------------------
(* The schema.                                                             *)

ValidHash(h) == h.algorithm = "sha256" /\ h.value # Nil

ValidData(d) == Optional(d.hash, ValidHash)

ValidPublicKey(k) == k.content # Nil

ValidSignature(s) ==
  /\ s.content # Nil
  /\ s.format \in {"pgp", "minisign", "x509", "ssh"}
  /\ Required(s.publicKey, ValidPublicKey)

ValidSchema(v) == Required(v.data, ValidData) /\ Required(v.signature, ValidSignature)

---------------------------------------------------------------------------
(* The entry.                                                              *)

DecodeEntry(spec) ==
  LET Key(k) == {[content |-> c] : c \in DecodeBytes(k.content)}
      Sig(s) == {[format |-> s.format, content |-> c, publicKey |-> k] :
                   c \in DecodeBytes(s.content), k \in Member(s.publicKey, Key)}
      Data(d) == {[hash |-> d.hash, content |-> c] : c \in DecodeBytes(d.content)}
  IN {[signature |-> s, data |-> d] :
        s \in Member(spec.signature, Sig), d \in Member(spec.data, Data)}

\* Cross-field validation.
validate(v) ==
  /\ v.signature # Nil /\ v.signature.content # Nil
  /\ v.signature.publicKey # Nil /\ v.signature.publicKey.content # Nil
  /\ v.data # Nil
  /\ IF v.data.hash = Nil THEN v.data.content # Nil
     ELSE v.data.hash.value # Nil /\ v.data.hash.value.alg = "sha256" /\ IsHex(v.data.hash.value)

Unmarshal(pe) == {v \in DecodeEntry(pe.spec) : ValidSchema(v) /\ validate(v)}

Insertable(v) ==
  /\ v.signature # Nil /\ v.signature.content # Nil /\ v.signature.format # Nil
  /\ v.signature.publicKey # Nil /\ v.signature.publicKey.content # Nil
  /\ v.data # Nil /\ v.data.content # Nil

\* Mutant: a hash that the proposal brings is believed.
fetchExternalEntitiesTrusting(v, now) ==
  {[key |-> k, sig |-> s,
    entry |-> [signature |-> v.signature,
               data |-> [hash |-> FilledIn(v.data.hash, v.data.content), content |-> v.data.content]]] :
     s \in NewSignature(v.signature.format, v.signature.content),
     k \in NewPublicKey(v.signature.format, v.signature.publicKey.content, now)}

\* Key, signature, and the entry with its hash filled in.
fetchExternalEntities(v, now) ==
  LET computed == Digest("sha256", v.data.content)
      f == v.signature.format
  IN IF v.data.hash # Nil /\ v.data.hash.value # computed THEN {}
     ELSE {[key |-> k, sig |-> s,
            entry |-> [signature |-> v.signature,
                       data |-> [hash |-> FilledIn(v.data.hash, v.data.content), content |-> v.data.content]]] :
             s \in NewSignature(f, v.signature.content),
             k \in NewPublicKey(f, v.signature.publicKey.content, now)}

Verified(v, now) ==
  {e \in fetchExternalEntities(v, now) : Verify(e.sig, v.data.content, e.key, now)}

\* Mutant: the key is logged as it was sent.
CanonicalizeVerbatim(v, now) ==
  LET Forms(e) ==
        {[signature |-> [format |-> v.signature.format, content |-> s,
                         publicKey |-> v.signature.publicKey],
          data |-> [hash |-> e.entry.data.hash, content |-> Nil]] : s \in SigCanonicalValue(e.sig)}
  IN {[leaf |-> MarshalJSON("0.0.1", c), entry |-> c] :
        c \in UNION {Forms(e) : e \in Verified(v, now)}}

\* The entry keeps its canonical form.
Canonicalize(v, now) ==
  LET Forms(e) ==
        {[signature |-> [format |-> v.signature.format, content |-> s,
                         publicKey |-> [content |-> k]],
          data |-> [hash |-> e.entry.data.hash, content |-> Nil]] :
           s \in SigCanonicalValue(e.sig), k \in KeyCanonicalValue(e.key)}
  IN {[leaf |-> MarshalJSON("0.0.1", c), entry |-> c] :
        c \in UNION {Forms(e) : e \in Verified(v, now)}}

IndexKeys(v, now) ==
  LET hash == IF v.data.hash = Nil THEN {}
              ELSE {HashKey(v.data.hash.algorithm, v.data.hash.value)}
  IN {ks \cup hash : ks \in UNION {KeyIndexKeys(k) :
        k \in NewPublicKey(v.signature.format, v.signature.publicKey.content, now)}}

Verifiers(v, now) == NewPublicKey(v.signature.format, v.signature.publicKey.content, now)

ArtifactHash(v) ==
  IF v.data.hash = Nil THEN {} ELSE {HashKey(v.data.hash.algorithm, v.data.hash.value)}

CreateFromArtifactProperties(props, now) ==
  IF \/ props.artifact = Nil \/ props.signature = Nil \/ Len(props.publicKeys) # 1
     \/ props.pkiFormat \notin {"pgp", "minisign", "x509", "ssh"}
  THEN {}
  ELSE {[kind |-> "rekord", apiVersion |-> "0.0.1", spec |-> e.entry] :
          e \in Verified([signature |-> [format |-> props.pkiFormat, content |-> props.signature,
                                         publicKey |-> [content |-> props.publicKeys[1]]],
                          data |-> [hash |-> Nil, content |-> props.artifact]], now)}

---------------------------------------------------------------------------
(* The type.                                                               *)

UnmarshalEntry(pe) ==
  IF pe.kind = "rekord" /\ pe.apiVersion # Nil /\ SemVerMatches("0.0.1", pe.apiVersion)
  THEN Unmarshal(pe) ELSE {}

CreateProposedEntry(version, props, now) ==
  IF version = AnyVersion \/ SemVerMatches("0.0.1", version)
  THEN CreateFromArtifactProperties(props, now) ELSE {}
=============================================================================
