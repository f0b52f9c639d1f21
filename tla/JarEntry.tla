------------------------------ MODULE JarEntry ------------------------------
(* The jar type, v0.0.1: a Java archive, which brings signature and key in *)
(* a PKCS #7 file.  An archive document has a sequence of those files, the *)
(* manifest they sign, whether the digests of the manifest match the files,*)
(* and whether its metadata is larger than allowed.                        *)
EXTENDS EntryBase

---------------------------------------------------------------------------
(* The proposed entry that carries the schema object as its spec.          *)

UnmarshalJSON(doc) ==
  IF doc.kind = "jar" THEN {[kind |-> "jar", apiVersion |-> doc.apiVersion, spec |-> doc.spec]} ELSE {}

MarshalJSON(apiVersion, spec) == [kind |-> "jar", apiVersion |-> apiVersion, spec |-> spec]

ValidateProposed(pe) == pe.apiVersion \in SemVers /\ pe.spec # Nil

---------------------------------------------------------------------------
(* The schema.                                                             *)

ValidHash(h) == h.algorithm = "sha256" /\ h.value # Nil

ValidArchive(a) == Optional(a.hash, ValidHash)

ValidPublicKey(k) == k.content # Nil

ValidSignature(s) == s.content # Nil /\ Required(s.publicKey, ValidPublicKey)

ValidSchema(v) == Required(v.archive, ValidArchive) /\ Optional(v.signature, ValidSignature)

---------------------------------------------------------------------------
(* The entry.                                                              *)

DecodeEntry(spec) ==
  LET Key(k) == {[content |-> c] : c \in DecodeBytes(k.content)}
      Sig(s) == {[content |-> c, publicKey |-> k] :
                   c \in DecodeBytes(s.content), k \in Member(s.publicKey, Key)}
      Archive(a) == {[hash |-> a.hash, content |-> c] : c \in DecodeBytes(a.content)}
  IN {[signature |-> s, archive |-> a] :
        s \in Member(spec.signature, Sig), a \in Member(spec.archive, Archive)}

\* Mutant: the archive is required, of an entry of the log too.
validateArchive(v) ==
  /\ v.archive # Nil /\ v.archive.content # Nil
  /\ v.archive.hash # Nil => v.archive.hash.value # Nil

validate(v) ==
  /\ v.archive # Nil
  /\ (v.signature = Nil \/ v.signature.content = Nil) => v.archive.content # Nil
  /\ v.archive.hash # Nil =>
       /\ v.archive.hash.value # Nil
       /\ v.archive.hash.value.alg = "sha256" /\ IsHex(v.archive.hash.value)

Unmarshal(pe) == {v \in DecodeEntry(pe.spec) : ValidSchema(v) /\ validate(v)}

Insertable(v) == v.archive # Nil /\ v.archive.content # Nil

\* jarutils.Verify of the relic library: every signature is over the manifest and
\* the manifest over the files.
JarVerify(d) ==
  /\ d.fmt = "jar" /\ d.manifestMatches
  /\ \A i \in DOMAIN d.sigs : \A s \in Pkcs7NewSignature(d.sigs[i]) : Pkcs7Verify(s, d.manifest, Nil)

\* The first signature file of the archive.
extractPKCS7SignatureFromJAR(d) == IF d.sigs = <<>> THEN {} ELSE {d.sigs[1]}

\* One signature, and no more.  Key, signature, and the entry with its hash.
fetchExternalEntities(v, now) ==
  LET d == v.archive.content
      computed == Digest("sha256", d)
  IN IF \/ ~validate(v) \/ d = Nil
        \/ (v.archive.hash # Nil /\ v.archive.hash.value # computed)
        \/ ~JarVerify(d) \/ d.bigMetadata \/ Len(d.sigs) # 1
     THEN {}
     ELSE UNION {{[key |-> k, sig |-> s,
                   entry |-> [signature |-> v.signature,
                              archive |-> [hash |-> FilledIn(v.archive.hash, d), content |-> d]]] :
                    k \in Pkcs7NewPublicKey(p), s \in Pkcs7NewSignature(p)} :
                   p \in extractPKCS7SignatureFromJAR(d)}

\* What the proposal says of signature and key is replaced.  The entry keeps
\* its canonical form.
Canonicalize(v, now) ==
  LET Forms(e) == {[signature |-> [content |-> s, publicKey |-> [content |-> k]],
                    archive |-> [hash |-> e.entry.archive.hash, content |-> Nil]] :
                     s \in Pkcs7SigCanonicalValue(e.sig), k \in Pkcs7KeyCanonicalValue(e.key)}
  IN {[leaf |-> MarshalJSON("0.0.1", c), entry |-> c] :
        c \in UNION {Forms(e) : e \in fetchExternalEntities(v, now)}}

\* The key that is indexed is the signature file.
IndexKeys(v, now) ==
  LET hash == IF v.archive.hash = Nil THEN {}
              ELSE {HashKey(v.archive.hash.algorithm, v.archive.hash.value)}
  IN UNION {{{BytesKey(c)} \cup hash : c \in Pkcs7SigCanonicalValue(s)} :
              s \in Pkcs7NewSignature(v.signature.content)}

\* The key in the log is a certificate in PEM.
Verifiers(v, now) ==
  IF v.signature = Nil \/ v.signature.publicKey = Nil THEN {}
  ELSE X509NewPublicKey(v.signature.publicKey.content)

ArtifactHash(v) ==
  IF v.archive.hash = Nil THEN {} ELSE {HashKey(v.archive.hash.algorithm, v.archive.hash.value)}

CreateFromArtifactProperties(props, now) ==
  IF props.artifact = Nil THEN {}
  ELSE {[kind |-> "jar", apiVersion |-> "0.0.1", spec |-> e.entry] :
          e \in fetchExternalEntities([signature |-> Nil,
                  archive |-> [hash |-> Nil, content |-> props.artifact]], now)}

---------------------------------------------------------------------------
(* The type.                                                               *)

UnmarshalEntry(pe) ==
  IF pe.kind = "jar" /\ pe.apiVersion # Nil /\ SemVerMatches("0.0.1", pe.apiVersion)
  THEN Unmarshal(pe) ELSE {}

CreateProposedEntry(version, props, now) ==
  IF version = AnyVersion \/ SemVerMatches("0.0.1", version)
  THEN CreateFromArtifactProperties(props, now) ELSE {}
=============================================================================
