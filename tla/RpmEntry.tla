------------------------------ MODULE RpmEntry ------------------------------
(* The rpm type, v0.0.1: a package with a PGP signature over its payload.  *)
(* A package document has its signer (by), its NEVRA headers and payload.  *)
EXTENDS EntryBase

---------------------------------------------------------------------------
(* The proposed entry that carries the schema object as its spec.          *)

UnmarshalJSON(doc) ==
  IF doc.kind = "rpm" THEN {[kind |-> "rpm", apiVersion |-> doc.apiVersion, spec |-> doc.spec]} ELSE {}

MarshalJSON(apiVersion, spec) == [kind |-> "rpm", apiVersion |-> apiVersion, spec |-> spec]

ValidateProposed(pe) == pe.apiVersion \in SemVers /\ pe.spec # Nil

---------------------------------------------------------------------------
(* The schema.                                                             *)

ValidHash(h) == h.algorithm = "sha256" /\ h.value # Nil

ValidPackage(p) == Optional(p.hash, ValidHash)

ValidPublicKey(k) == k.content # Nil

ValidSchema(v) == Required(v.package, ValidPackage) /\ Required(v.publicKey, ValidPublicKey)

---------------------------------------------------------------------------
(* The entry.                                                              *)

DecodeEntry(spec) ==
  LET Key(k) == {[content |-> c] : c \in DecodeBytes(k.content)}
      Package(p) == {[hash |-> p.hash, content |-> c, headers |-> p.headers] :
                       c \in DecodeBytes(p.content)}
  IN {[publicKey |-> k, package |-> p] :
        k \in Member(spec.publicKey, Key), p \in Member(spec.package, Package)}

validate(v) ==
  /\ v.publicKey # Nil /\ v.publicKey.content # Nil
  /\ v.package # Nil
  /\ IF v.package.hash = Nil THEN v.package.content # Nil
     ELSE v.package.hash.value # Nil /\ v.package.hash.value.alg = "sha256" /\ IsHex(v.package.hash.value)

Unmarshal(pe) == {v \in DecodeEntry(pe.spec) : ValidSchema(v) /\ validate(v)}

Insertable(v) ==
  /\ v.publicKey # Nil /\ v.publicKey.content # Nil
  /\ v.package # Nil /\ v.package.content # Nil

\* rpmutils.GPGCheck and ReadPackageFile.
GPGCheck(d, ring) == d.fmt = "rpm" /\ \E i \in DOMAIN ring : ring[i].key = d.by

\* Key, package, and the entry with its hash filled in.
fetchExternalEntities(v, now) ==
  LET computed == Digest("sha256", v.package.content)
  IN IF ~validate(v) \/ (v.package.hash # Nil /\ v.package.hash.value # computed) THEN {}
     ELSE {[key |-> k, rpm |-> v.package.content,
            entry |-> [publicKey |-> v.publicKey,
                       package |-> [hash |-> FilledIn(v.package.hash, v.package.content),
                                    content |-> v.package.content, headers |-> v.package.headers]]] :
             k \in {k \in PgpNewPublicKey(v.publicKey.content) : GPGCheck(v.package.content, k.ring)}}

\* The entry is left as it was proposed, with its hash.
Canonicalize(v, now) ==
  UNION {{[leaf |-> MarshalJSON("0.0.1", [publicKey |-> [content |-> k],
                               package |-> [hash |-> e.entry.package.hash, content |-> Nil,
                                            headers |-> e.rpm.headers]]),
           entry |-> e.entry] : k \in PgpKeyCanonicalValue(e.key)} :
           e \in fetchExternalEntities(v, now)}

IndexKeys(v, now) ==
  LET hash == IF v.package.hash = Nil THEN {}
              ELSE {HashKey(v.package.hash.algorithm, v.package.hash.value)}
  IN UNION {{{BytesKey(c)} \cup NameKeys(PgpSubjects(k)) \cup hash : c \in PgpKeyCanonicalValue(k)} :
              k \in PgpNewPublicKey(v.publicKey.content)}

Verifiers(v, now) == PgpNewPublicKey(v.publicKey.content)

ArtifactHash(v) ==
  IF v.package.hash = Nil THEN {} ELSE {HashKey(v.package.hash.algorithm, v.package.hash.value)}

CreateFromArtifactProperties(props, now) ==
  IF props.artifact = Nil \/ Len(props.publicKeys) # 1 THEN {}
  ELSE {[kind |-> "rpm", apiVersion |-> "0.0.1", spec |-> e.entry] :
          e \in fetchExternalEntities(
                  [publicKey |-> [content |-> props.publicKeys[1]],
                   package |-> [hash |-> Nil, content |-> props.artifact, headers |-> Nil]], now)}

---------------------------------------------------------------------------
(* The type.                                                               *)

UnmarshalEntry(pe) ==
  IF pe.kind = "rpm" /\ pe.apiVersion # Nil /\ SemVerMatches("0.0.1", pe.apiVersion)
  THEN Unmarshal(pe) ELSE {}

CreateProposedEntry(version, props, now) ==
  IF version = AnyVersion \/ SemVerMatches("0.0.1", version)
  THEN CreateFromArtifactProperties(props, now) ELSE {}
=============================================================================
