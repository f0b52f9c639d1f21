---------------------------- MODULE AlpineEntry ----------------------------
(* The alpine type, v0.0.1: an apk package, which brings its own signature.*)
(* A package document has the signatures of its first archive (sigs), the  *)
(* .PKGINFO files of its control archive (control), each with its fields   *)
(* and the digest of the data it expects, the data archive, and whether    *)
(* its metadata is larger than allowed.                                    *)
EXTENDS EntryBase

---------------------------------------------------------------------------
(* The proposed entry that carries the schema object as its spec.          *)

UnmarshalJSON(doc) ==
  IF doc.kind = "alpine" THEN {[kind |-> "alpine", apiVersion |-> doc.apiVersion, spec |-> doc.spec]} ELSE {}

MarshalJSON(apiVersion, spec) == [kind |-> "alpine", apiVersion |-> apiVersion, spec |-> spec]

ValidateProposed(pe) == pe.apiVersion \in SemVers /\ pe.spec # Nil

---------------------------------------------------------------------------
(* The schema.                                                             *)

ValidHash(h) == h.algorithm = "sha256" /\ h.value # Nil

ValidPackage(p) == Optional(p.hash, ValidHash)

ValidPublicKey(k) == k.content # Nil

ValidSchema(v) == Required(v.package, ValidPackage) /\ Required(v.publicKey, ValidPublicKey)

---------------------------------------------------------------------------
(* Packages.                                                               *)

\* The first signature and the last .PKGINFO count; the data must be what that
\* file says.
UnmarshalPackage(d) ==
  IF /\ d.fmt = "apk" /\ ~d.bigMetadata
     /\ d.sigs # <<>> /\ d.control # <<>>
     /\ \A i \in DOMAIN d.control : IsHex(d.control[i].datahash)
     /\ ToLower(d.control[Len(d.control)].datahash) = Digest("sha256", d.data)
  THEN {[pkginfo |-> d.control[Len(d.control)].fields, signature |-> d.sigs[1], control |-> d.control]}
  ELSE {}

\* The signature is over the control archive.
VerifySignature(p, key) == p.signature.by = key /\ p.signature.over = p.control

---------------------------------------------------------------------------
(* The entry.                                                              *)

\* A key without content is dropped, and so is a hash without members.
DecodeEntry(spec) ==
  LET Key(k) == {IF c = Nil THEN Nil ELSE [content |-> c] : c \in DecodeBytes(k.content)}
      Hash(h) == IF h # Nil /\ h.algorithm = Nil /\ h.value = Nil THEN Nil ELSE h
      Package(p) == {[hash |-> Hash(p.hash), content |-> c, pkginfo |-> p.pkginfo] :
                       c \in DecodeBytes(p.content)}
  IN {[publicKey |-> k, package |-> p] :
        k \in Member(spec.publicKey, Key), p \in Member(spec.package, Package)}

validate(v) ==
  /\ v.publicKey # Nil /\ v.publicKey.content # Nil
  /\ v.package # Nil
  /\ IF v.package.hash = Nil THEN v.package.content # Nil
     ELSE v.package.hash.value # Nil /\ v.package.hash.value.alg = "sha256" /\ IsHex(v.package.hash.value)

Unmarshal(pe) == {v \in DecodeEntry(pe.spec) : ValidSchema(v) /\ validate(v)}

Insertable(v) ==
  /\ v.package # Nil /\ v.package.content # Nil
  /\ v.publicKey # Nil /\ v.publicKey.content # Nil

\* Key, package, and the entry with its hash filled in.
fetchExternalEntities(v, now) ==
  LET computed == Digest("sha256", v.package.content)
  IN IF ~validate(v) \/ (v.package.hash # Nil /\ v.package.hash.value # computed) THEN {}
     ELSE {e \in {[key |-> k, apk |-> p,
                   entry |-> [publicKey |-> v.publicKey,
                              package |-> [hash |-> FilledIn(v.package.hash, v.package.content),
                                           content |-> v.package.content,
                                           pkginfo |-> v.package.pkginfo]]] :
                    k \in X509NewPublicKey(v.publicKey.content),
                    p \in UnmarshalPackage(v.package.content)} :
             VerifySignature(e.apk, e.key.blocks[1].key)}

\* The entry keeps its canonical form.
Canonicalize(v, now) ==
  LET Forms(e) == {[publicKey |-> [content |-> k],
                    package |-> [hash |-> e.entry.package.hash, content |-> Nil,
                                 pkginfo |-> e.apk.pkginfo]] : k \in X509KeyCanonicalValue(e.key)}
  IN {[leaf |-> MarshalJSON("0.0.1", c), entry |-> c] :
        c \in UNION {Forms(e) : e \in fetchExternalEntities(v, now)}}

IndexKeys(v, now) ==
  LET hash == IF v.package.hash = Nil THEN {}
              ELSE {HashKey(v.package.hash.algorithm, v.package.hash.value)}
  IN {{BytesKey(c) : c \in X509KeyCanonicalValue(k)} \cup NameKeys(X509Subjects(k)) \cup hash :
        k \in X509NewPublicKey(v.publicKey.content)}

Verifiers(v, now) == X509NewPublicKey(v.publicKey.content)

ArtifactHash(v) ==
  IF v.package.hash = Nil THEN {} ELSE {HashKey(v.package.hash.algorithm, v.package.hash.value)}

CreateFromArtifactProperties(props, now) ==
  IF props.artifact = Nil \/ Len(props.publicKeys) # 1 THEN {}
  ELSE {[kind |-> "alpine", apiVersion |-> "0.0.1", spec |-> e.entry] :
          e \in fetchExternalEntities(
                  [publicKey |-> [content |-> props.publicKeys[1]],
                   package |-> [hash |-> Nil, content |-> props.artifact, pkginfo |-> Nil]], now)}

---------------------------------------------------------------------------
(* The type.                                                               *)

UnmarshalEntry(pe) ==
  IF pe.kind = "alpine" /\ pe.apiVersion # Nil /\ SemVerMatches("0.0.1", pe.apiVersion)
  THEN Unmarshal(pe) ELSE {}

CreateProposedEntry(version, props, now) ==
  IF version = AnyVersion \/ SemVerMatches("0.0.1", version)
  THEN CreateFromArtifactProperties(props, now) ELSE {}
=============================================================================
