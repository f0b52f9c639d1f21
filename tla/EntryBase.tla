----------------------------- MODULE EntryBase -----------------------------
(***************************************************************************)
(* What the entry types share: JSON documents as records in which an absent*)
(* member (or one of the wrong type, which the decoders skip) is Nil,      *)
(* digests, index keys and the properties of an artifact from which the    *)
(* client builds an entry.                                                 *)
(***************************************************************************)
EXTENDS PKI

CONSTANT Nil

\* A member that may be absent, and one that may not.
Optional(x, Valid(_)) == x = Nil \/ Valid(x)
Required(x, Valid(_)) == x # Nil /\ Valid(x)

\* The results of decoding a member that may be absent.
Member(x, Decode(_)) == IF x = Nil THEN {Nil} ELSE Decode(x)

\* Bytes in base64: the empty string is an absent member, and what is not
\* base64 cannot be decoded.
EmptyBytes == [fmt |-> "empty"]
NotBase64 == [fmt |-> "not base64"]
DecodeBytes(c) ==
  IF c = Nil \/ c = EmptyBytes THEN {Nil} ELSE IF c = NotBase64 THEN {} ELSE {c}

\* In hexadecimal, the digest of a document.  Its length tells the algorithm.
Digest(alg, d) == [alg |-> alg, of |-> d, hex |-> "lower"]
ToLower(h) == IF h.hex = "upper" THEN Digest(h.alg, h.of) ELSE h
IsHex(h) == h.hex \in {"lower", "upper"}

\* A hash member of the schemas, and one that is filled in unless it is given.
Sha256(d) == [algorithm |-> "sha256", value |-> Digest("sha256", d)]
FilledIn(h, d) == IF h = Nil THEN Sha256(d) ELSE h

\* Index keys: the digest of canonical bytes, "<algorithm>:<digest>", a name.
BytesKey(d) == <<"bytes", d>>
HashKey(alg, h) == <<"hash", alg, ToLower(h)>>
NameKey(s) == <<"name", s>>
NameKeys(S) == {NameKey(s) : s \in S}

\* The hash of a key's canonical value and its subjects: what most types index
\* a key by.  A key that has no canonical value is logged and not indexed.
KeyIndexKeys(k) ==
  IF KeyCanonicalValue(k) = {} THEN {NameKeys(Subjects(k))}
  ELSE {{BytesKey(d)} \cup NameKeys(Subjects(k)) : d \in KeyCanonicalValue(k)}

\* EnvelopeVerifier.Verify of the DSSE library with one key c: the signature it
\* accepts is the first of c's over the payload.
DsseAccepted(c, env) ==
  LET verifies(s) == s.by = c /\ s.over = env.payload
  IN {env.signatures[i] : i \in {i \in DOMAIN env.signatures :
        verifies(env.signatures[i]) /\ \A j \in 1 .. (i - 1) : ~verifies(env.signatures[j])}}

\* The version of a proposal that names none.
AnyVersion == ""

\* Versions.  Build metadata is part of a semantic version and is not compared.
SemVers == {"0.0.1", "0.0.1+build", "0.0.2", "0.0.3"}
SemVerMatches(constraint, version) ==
  version = constraint \/ (constraint = "0.0.1" /\ version = "0.0.1+build")

\* types.ArtifactProperties.  Whether bytes are given or a path that is read
\* makes no difference to the entry; Nil is neither.
ArtifactProperties(artifact, hash, sig, keys, format, aad) ==
  [artifact |-> artifact, artifactHash |-> hash, signature |-> sig,
   publicKeys |-> keys, pkiFormat |-> format, aad |-> aad]
=============================================================================
