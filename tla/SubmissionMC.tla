---------------------------- MODULE SubmissionMC ----------------------------
(* Artifacts of every kind, in several encodings, for Submission.          *)
EXTENDS Submission

CONSTANT c1

Key(id, t) == [id |-> id, type |-> t]
KA == Key("a", "ecdsa-p256")
KB == Key("b", "rsa")
KE == Key("e", "ed25519")
KX == Key("x", "other")

Blob(n) == [fmt |-> "blob", name |-> n]
M == Blob("m")

Pem(enc, k) == [fmt |-> "pem", enc |-> enc,
  blocks |-> <<[type |-> "PUBLIC KEY", key |-> k, issuer |-> KX, subjects |-> {}, alt |-> {}]>>]
CertBlock(k, by, s) == [type |-> "CERTIFICATE", key |-> k, issuer |-> by, subjects |-> {s}, alt |-> {}]
Chain(enc, k) == [fmt |-> "pem", enc |-> enc,
  blocks |-> <<CertBlock(k, KB, "mail"), CertBlock(KB, KB, "ca")>>]
Raw(k, m, alg) == [fmt |-> "raw sig", enc |-> "der", by |-> k, over |-> m, alg |-> alg]

PgpKey(enc, k, uids) ==
  [fmt |-> "pgp key", enc |-> enc, ring |-> <<[key |-> k, uids |-> uids, private |-> FALSE]>>]
PgpSig(enc, k, m) == [fmt |-> "pgp sig", enc |-> enc, by |-> k, over |-> m]

Plain(artifact, sig, key, format) == ArtifactProperties(artifact, Nil, sig, <<key>>, format, Nil)
Artifact(kind, version, props) == [kind |-> kind, version |-> version, props |-> props]

---------------------------------------------------------------------------
RekordX(enc) == Artifact("rekord", "", Plain(M, Raw(KA, M, "sha256"), Pem(enc, KA), "x509"))
RekordPgp(enc, sigEnc, uids) ==
  Artifact("rekord", "", Plain(M, PgpSig(sigEnc, KA, M), PgpKey(enc, KA, uids), "pgp"))
RekordMinisign(enc, sigEnc) ==
  Artifact("rekord", "0.0.1",
    Plain(M, [fmt |-> "minisign sig", enc |-> sigEnc, by |-> KE, over |-> M],
          [fmt |-> "minisign key", enc |-> enc, key |-> KE, keyId |-> "id"], "minisign"))
RekordSsh(comment, sigEnc) ==
  Artifact("rekord", "",
    Plain(M, [fmt |-> "ssh sig", enc |-> sigEnc, by |-> KE, over |-> M,
              signedAlg |-> "sha512", pk |-> KE, hashAlg |-> "sha512"],
          [fmt |-> "ssh key", enc |-> "line", key |-> KE, comment |-> comment], "ssh"))

Hashed(enc, k, alg) ==
  Artifact("hashedrekord", "",
    ArtifactProperties(Nil, Digest(alg, M), Raw(k, M, alg), <<Chain(enc, k)>>, "x509", Nil))

Control == <<[fields |-> "pkginfo", datahash |-> Digest("sha256", Blob("data"))]>>
Apk == [fmt |-> "apk", sigs |-> <<[by |-> KB, over |-> Control]>>, control |-> Control,
        data |-> Blob("data"), bigMetadata |-> FALSE]
AlpineA(enc) == Artifact("alpine", "", Plain(Apk, Nil, Pem(enc, KB), "x509"))

RpmA(enc) == Artifact("rpm", "", Plain([fmt |-> "rpm", by |-> KA, headers |-> "nevra"], Nil,
                                       PgpKey(enc, KA, <<"mail">>), "pgp"))

Pkcs7(certs, k) == [fmt |-> "pkcs7", enc |-> "ber", certs |-> certs, by |-> k,
                    over |-> Blob("manifest"), content |-> {}]
Root == CertBlock(KB, KB, "ca")
JarOf(sigs) == [fmt |-> "jar", sigs |-> sigs, manifest |-> Blob("manifest"),
              manifestMatches |-> TRUE, bigMetadata |-> FALSE]
JarDoc(n) == JarOf([i \in 1 .. n |-> Pkcs7(<<Root>>, KB)])
JarChain == JarOf(<<Pkcs7(<<Root, CertBlock(KA, KB, "mail")>>, KA)>>)
JarA(jar) == Artifact("jar", "", Plain(jar, Nil, Pem("lf", KB), "x509"))

Provenance(files) ==
  LET text == [fmt |-> "text", files |-> files]
  IN [fmt |-> "provenance", text |-> text, signature |-> PgpSig("binary", KA, text), parts |-> TRUE]
HelmA(enc, files) == Artifact("helm", "", Plain(Provenance(files), Nil, PgpKey(enc, KA, <<"mail">>), "pgp"))
Chart(n) == Digest("sha256", Blob(n))

CoseMsg == [fmt |-> "cose", by |-> KA, aad |-> Nil, payload |-> M, contentType |-> "blob", big |-> FALSE]
CoseA(enc) == Artifact("cose", "", Plain(CoseMsg, Nil, Pem(enc, KA), "x509"))

Statement(enc) == [fmt |-> "statement", enc |-> enc, subjects |-> {Digest("sha256", Blob("subject"))},
                   materials |-> {Digest("sha256", Blob("material"))}, big |-> FALSE]
Envelope(ks, enc, sigEnc) ==
  [fmt |-> "dsse", payloadType |-> "intoto", payload |-> Statement(enc),
   signatures |-> [i \in DOMAIN ks |-> [by |-> ks[i], over |-> Statement(enc), enc |-> sigEnc]]]
DsseA(enc, sigEnc) ==
  Artifact("dsse", "", ArtifactProperties(Envelope(<<KA, KB>>, "std", sigEnc), Nil, Nil,
                                          <<Pem(enc, KB), Chain("lf", KA)>>, "x509", Nil))
IntotoA(version, payloadEnc) ==
  Artifact("intoto", version, Plain(Envelope(<<KA>>, payloadEnc, "std"), Nil, Chain("lf", KA), "x509"))

Tsr == [fmt |-> "tsr", status |-> "granted", contentType |-> "signed data", verifies |-> TRUE, big |-> FALSE]
TsrA == Artifact("rfc3161", "", ArtifactProperties(Tsr, Nil, Nil, <<>>, "x509", Nil))

Roles == [r \in {"root", "targets"} |-> {KA}]
TufDoc(enc, role, expires) ==
  [fmt |-> "tuf", enc |-> enc, role |-> role, version |-> "1", expires |-> expires, by |-> {KA},
   roles |-> IF role = "root" THEN Roles ELSE [r \in {} |-> {KA}]]
TufA(enc) == Artifact("tuf", "", Plain(TufDoc(enc, "targets", 1), Nil, TufDoc(enc, "root", 0), "tuf"))

\* Keys and signatures come in several encodings.
MCArtifacts == {
  RekordX("lf"), RekordX("crlf"),
  RekordPgp("armor", "binary", <<"mail">>), RekordPgp("binary", "binary", <<"mail">>),
  RekordPgp("binary", "armor", <<"mail">>), RekordPgp("armor", "binary", <<"mail", "other">>),
  RekordSsh("mail", "70 columns"), RekordSsh(NoEmail, "76 columns"),
  RekordMinisign("comments", "minisign"), RekordMinisign("line", "signify"),
  Hashed("lf", KA, "sha256"), Hashed("crlf", KA, "sha256"),
  Hashed("lf", KE, "sha512"), Hashed("lf", KA, "sha384"),
  AlpineA("lf"), AlpineA("crlf"), RpmA("armor"), RpmA("binary"),
  JarA(JarDoc(1)), JarA(JarChain),
  HelmA("armor", {Chart("chart")}), HelmA("binary", {Chart("chart")}),
  HelmA("armor", {Chart("chart"), Chart("values")}),
  CoseA("lf"), CoseA("crlf"),
  DsseA("lf", "std"), DsseA("crlf", "std"), DsseA("lf", "url"),
  IntotoA("", "std"), IntotoA("", "url"), IntotoA("0.0.1", "std"), IntotoA("0.0.2", "std"),
  TsrA, TufA("object"), TufA("base64")}

---------------------------------------------------------------------------
(* Documents that rekor-cli would not make.                                *)

Proposal(kind, version, spec) == [kind |-> kind, apiVersion |-> version, spec |-> spec]

RekordDoc(hash, version) ==
  Proposal("rekord", version,
    [signature |-> [format |-> "x509", content |-> Raw(KA, M, "sha256"), publicKey |-> [content |-> Pem("lf", KA)]],
     data |-> [hash |-> [algorithm |-> "sha256", value |-> hash], content |-> M]])

HashedDoc(value) ==
  Proposal("hashedrekord", "0.0.1",
    [signature |-> [content |-> Raw(KA, M, "sha256"), publicKey |-> [content |-> Pem("lf", KA)]],
     data |-> [hash |-> [algorithm |-> "sha256", value |-> value]]])

\* Signatures of two keys, each beside the other's key, and no envelope hash.
IntotoDoc(hash) ==
  Proposal("intoto", "0.0.2",
    [content |-> [envelope |-> [payload |-> Statement("std"), payloadType |-> "intoto",
                    signatures |-> <<[sig |-> [by |-> KA, over |-> Statement("std"), enc |-> "std"], publicKey |-> Pem("lf", KB)],
                                     [sig |-> [by |-> KB, over |-> Statement("std"), enc |-> "std"], publicKey |-> Pem("lf", KA)]>>],
                  hash |-> hash, payloadHash |-> Nil]])

MCDocuments == {
  RekordDoc(Digest("sha256", Blob("another")), "0.0.1"),
  RekordDoc(Digest("sha256", M), "0.0.1+build"),
  RekordDoc(Digest("sha256", M), "0.0.3"),
  HashedDoc([Digest("sha256", M) EXCEPT !.hex = "upper"]),
  HashedDoc(Digest("sha256", Blob("another"))),
  IntotoDoc(Nil),
  IntotoDoc([algorithm |-> "sha256", value |-> Digest("sha256", M)]),
  Proposal("jar", "0.0.1", [signature |-> Nil, archive |-> [hash |-> Nil, content |-> JarDoc(2)]]),
  Proposal("tuf", "0.0.1", [metadata |-> [content |-> TufDoc("object", "targets", 1)],
                            root |-> [content |-> TufDoc("object", "targets", 1)]]),
  Proposal("ProposedEntry", "0.0.1", Nil),
  Proposal("none", "0.0.1", Nil)}

MCPermitted == {<<"ecdsa-p256", "sha256">>, <<"rsa", "sha256">>, <<"ed25519", "sha512">>}

\* Entries of different kinds share no more than the index and the bucket, and
\* only those of TUF depend on the time.
OneKind ==
  LET sources == {x.source : x \in created} \cup {command[c].source : c \in {c \in Clients : command[c] # Nil}}
  IN /\ \A x, y \in sources : x.kind = y.kind
     /\ now > 0 => \E x \in sources : x.kind = "tuf"
=============================================================================
