-------------------------------- MODULE PKI --------------------------------
(***************************************************************************)
(* pkg/pki: keys and signatures in six formats.                            *)
(*                                                                         *)
(* A byte string is a document: a record of the format its bytes are in    *)
(* (fmt), what they say, and how they say it (enc).  Two documents that    *)
(* differ in enc only are different bytes with one meaning.  The bytes that*)
(* canonicalization writes have enc = "canonical".  A key is a record with *)
(* the type of the key; a signature is made by one key (by) over one       *)
(* message (over); cryptography is perfect.                                *)
(*                                                                         *)
(* A function that may fail returns the set of its possible results, which *)
(* is empty when it fails and has several elements only where the Go code  *)
(* iterates over a map.                                                    *)
(***************************************************************************)
EXTENDS Naturals, Sequences, FiniteSets

Elems(s) == {s[i] : i \in DOMAIN s}

\* Where the Go code ranges over a map with the entries of s.
AnyOrder(s) == {t \in [DOMAIN s -> Elems(s)] : Elems(t) = Elems(s)}

\* A user ID or a comment that is not an e-mail address.
NoEmail == "no e-mail"
EmailsIn(s) == Elems(s) \ {NoEmail}

---------------------------------------------------------------------------
(* OpenPGP.  A key document holds a key ring: entities with a key, the     *)
(* e-mail addresses of their identities and, possibly, the private key.    *)

\* A ring of which every entity has its private key is refused.
PgpNewPublicKey(d) ==
  IF d.fmt = "pgp key" /\ \E i \in DOMAIN d.ring : ~d.ring[i].private
  THEN {[fmt |-> "pgp", ring |-> d.ring]}
  ELSE {}

\* Entity.Serialize of golang.org/x/crypto/openpgp: the public part; the
\* identities are in a map.
PgpSerialize(e) == {[key |-> e.key, uids |-> u, private |-> FALSE] : u \in AnyOrder(e.uids)}

\* Mutant: the canonical key has no identities.
PgpKeyCanonicalValueAnonymous(k) ==
  {[fmt |-> "pgp key", enc |-> "canonical",
    ring |-> [i \in DOMAIN k.ring |-> [key |-> k.ring[i].key, uids |-> <<>>, private |-> FALSE]]]}

PgpKeyCanonicalValue(k) ==
  {[fmt |-> "pgp key", enc |-> "canonical", ring |-> r] :
     r \in {r \in [DOMAIN k.ring -> UNION {PgpSerialize(k.ring[i]) : i \in DOMAIN k.ring}] :
              \A i \in DOMAIN r : r[i] \in PgpSerialize(k.ring[i])}}

PgpSubjects(k) == UNION {EmailsIn(k.ring[i].uids) : i \in DOMAIN k.ring}

PgpIdentities(k) == {<<"pkix", k.ring[i].key>> : i \in DOMAIN k.ring}

PgpNewSignature(d) ==
  IF d.fmt = "pgp sig"
  THEN {[fmt |-> "pgp", isArmored |-> d.enc # "binary", signature |-> d]}
  ELSE {}

\* An armored signature is kept with its headers and line breaks.
PgpSigCanonicalValue(s) ==
  {IF s.isArmored THEN s.signature
   ELSE [fmt |-> "pgp sig", enc |-> "canonical", by |-> s.signature.by, over |-> s.signature.over]}

PgpVerify(s, msg, k) ==
  /\ k.fmt = "pgp"
  /\ s.signature.over = msg
  /\ \E i \in DOMAIN k.ring : k.ring[i].key = s.signature.by

---------------------------------------------------------------------------
(* minisign and signify.  The algorithm, which says whether the message is *)
(* hashed first, is part of the signature and of its canonical form.       *)

\* The text of a key, its base64 line, or, from older entries, 32 raw bytes.
MinisignNewPublicKey(d) ==
  IF d.fmt = "minisign key"
  THEN {[fmt |-> "minisign", key |-> d.key,
         keyId |-> IF d.enc = "raw" THEN "zero" ELSE d.keyId]}
  ELSE {}

MinisignKeyCanonicalValue(k) ==
  {[fmt |-> "minisign key", enc |-> "canonical", key |-> k.key, keyId |-> k.keyId]}

MinisignSubjects(k) == {}

MinisignIdentities(k) == {<<"pkix", k.key>>}

\* Four lines of minisign or two of signify: comments are dropped.
MinisignNewSignature(d) ==
  IF d.fmt = "minisign sig"
  THEN {[fmt |-> "minisign", by |-> d.by, over |-> d.over]}
  ELSE {}

MinisignSigCanonicalValue(s) ==
  {[fmt |-> "minisign sig", enc |-> "canonical", by |-> s.by, over |-> s.over]}

MinisignVerify(s, msg, k) == k.fmt = "minisign" /\ s.by = k.key /\ s.over = msg

---------------------------------------------------------------------------
(* OpenSSH.  A signature names a hash algorithm twice: in the bytes that   *)
(* were signed (signedAlg) and in the wrapper (hashAlg).                   *)

SshNewPublicKey(d) ==
  IF d.fmt = "ssh key" THEN {[fmt |-> "ssh", key |-> d.key, comment |-> d.comment]} ELSE {}

\* MarshalAuthorizedKey leaves the comment out.
SshKeyCanonicalValue(k) ==
  {[fmt |-> "ssh key", enc |-> "canonical", key |-> k.key, comment |-> NoEmail]}

SshSubjects(k) == {k.comment} \ {NoEmail}

SshIdentities(k) == {<<"pkix", k.key>>}

SupportedHashAlgorithms == {"sha256", "sha512"}

SshDecode(d) ==
  IF d.fmt = "ssh sig" /\ d.hashAlg \in SupportedHashAlgorithms
  THEN {[fmt |-> "ssh", by |-> d.by, over |-> d.over, signedAlg |-> d.signedAlg,
         pk |-> d.pk, hashAlg |-> d.hashAlg]}
  ELSE {}

\* The wrapper is written anew and always names SHA-512.
SshArmor(s) ==
  [fmt |-> "ssh sig", enc |-> "canonical", by |-> s.by, over |-> s.over,
   signedAlg |-> s.signedAlg, pk |-> s.pk, hashAlg |-> "sha512"]

\* The armored form of the signature is verified, not the one submitted.
SshVerify(s, msg, k) ==
  /\ k.fmt = "ssh"
  /\ \E t \in SshDecode(SshArmor(s)) :
       t.by = k.key /\ t.over = msg /\ t.signedAlg = t.hashAlg

---------------------------------------------------------------------------
(* X.509.  A key document is a sequence of PEM blocks, each a public key   *)
(* or a certificate for a key, with its issuer's key and its subjects.     *)

MaxChain == 10

X509NewPublicKey(d) ==
  IF /\ d.fmt = "pem" /\ d.blocks # <<>>
     /\ Len(d.blocks) > 1 => /\ Len(d.blocks) <= MaxChain
                             /\ \A i \in DOMAIN d.blocks : d.blocks[i].type = "CERTIFICATE"
     /\ d.blocks[1].type \in {"PUBLIC KEY", "CERTIFICATE"}
  THEN {[fmt |-> "x509", blocks |-> d.blocks]}
  ELSE {}

X509KeyCanonicalValue(k) == {[fmt |-> "pem", enc |-> "canonical", blocks |-> k.blocks]}

X509Subjects(k) ==
  IF k.blocks[1].type = "CERTIFICATE" THEN k.blocks[1].subjects ELSE {}

X509Identities(k) ==
  {IF k.blocks[1].type = "CERTIFICATE" THEN <<"cert", k.blocks[1]>> ELSE <<"pkix", k.blocks[1].key>>}

\* The last certificate is the root, those between it and the first may be used.
VerifyCertChain(certs) ==
  LET n == Len(certs)
      trusted[i \in 0 .. n] ==
        IF i = 0 THEN {certs[n].key}
        ELSE trusted[i - 1] \cup
               {certs[j].key : j \in {j \in 2 .. (n - 1) : certs[j].issuer \in trusted[i - 1]}}
  IN n = 1 \/ certs[1] = certs[n] \/ certs[1].issuer \in trusted[n]

X509NewSignature(d) == {[fmt |-> "x509", signature |-> d]}

X509SigCanonicalValue(s) == {s.signature}

\* A raw signature is made over a digest of the message, by algorithm alg.
X509VerifyDigest(s, alg, msg, k) ==
  /\ k.fmt = "x509"
  /\ s.signature.fmt = "raw sig"
  /\ VerifyCertChain(k.blocks)
  /\ s.signature.by = k.blocks[1].key
  /\ s.signature.over = msg /\ s.signature.alg = alg

X509Verify(s, msg, k) == X509VerifyDigest(s, "sha256", msg, k)

---------------------------------------------------------------------------
(* PKCS #7.  A document holds certificates and a signature, perhaps with   *)
(* the content that was signed.                                            *)

\* The content is dropped.
Pkcs7NewSignature(d) ==
  IF d.fmt = "pkcs7"
  THEN {[fmt |-> "pkcs7", raw |-> [certs |-> d.certs, by |-> d.by, over |-> d.over]]}
  ELSE {}

\* In PEM.
Pkcs7SigCanonicalValue(s) ==
  {[fmt |-> "pkcs7", enc |-> "canonical", certs |-> s.raw.certs, by |-> s.raw.by,
    over |-> s.raw.over, content |-> {}]}

\* The key that is passed is not looked at: the signature brings its own.
Pkcs7Verify(s, msg, k) ==
  /\ s.raw.over = msg
  /\ \E i \in DOMAIN s.raw.certs : s.raw.certs[i].key = s.raw.by

Pkcs7NewPublicKey(d) ==
  IF d.fmt = "pkcs7" /\ d.certs # <<>> THEN {[fmt |-> "pkcs7", certs |-> d.certs]} ELSE {}

\* One certificate in PEM, which Pkcs7NewPublicKey does not read.
Pkcs7KeyCanonicalValue(k) ==
  {[fmt |-> "pem", enc |-> "canonical", blocks |-> <<k.certs[1]>>]}

Pkcs7Subjects(k) == k.certs[1].subjects

Pkcs7Identities(k) == {<<"cert", k.certs[1]>>, <<"pkix", k.certs[1].key>>}

---------------------------------------------------------------------------
(* TUF.  A document is signed metadata: its role, version, expiry and      *)
(* signers, and for the role root the keys trusted for each role.          *)

\* db.Verify of go-tuf: enough signatures of the role's keys, not expired.
TufVerifyMeta(roles, meta, now) ==
  /\ meta.role \in DOMAIN roles
  /\ meta.by \cap roles[meta.role] # {}
  /\ now <= meta.expires

TufNewPublicKey(d, now) ==
  IF d.fmt = "tuf" /\ d.role = "root" /\ TufVerifyMeta(d.roles, d, now)
  THEN {[fmt |-> "tuf", root |-> d]}
  ELSE {}

TufCanonicalJSON(d) ==
  [fmt |-> "tuf", enc |-> "canonical", role |-> d.role, version |-> d.version,
   expires |-> d.expires, by |-> d.by, roles |-> d.roles]

TufKeyCanonicalValue(k) == {TufCanonicalJSON(k.root)}

TufSubjects(k) == {}

TufIdentities(k) == {<<"pkix", x>> : x \in UNION {k.root.roles[r] : r \in DOMAIN k.root.roles}}

TufNewSignature(d) == IF d.fmt = "tuf" THEN {[fmt |-> "tuf", signed |-> d]} ELSE {}

TufSigCanonicalValue(s) == {TufCanonicalJSON(s.signed)}

\* The message is not looked at: it is part of the metadata.
TufVerify(s, k, now) == k.fmt = "tuf" /\ TufVerifyMeta(k.root.roles, s.signed, now)

---------------------------------------------------------------------------
(* The factory: the implementation by format.                              *)

Formats == {"pgp", "minisign", "ssh", "x509", "pkcs7", "tuf"}

NewPublicKey(format, d, now) ==
  CASE format = "pgp"      -> PgpNewPublicKey(d)
    [] format = "minisign" -> MinisignNewPublicKey(d)
    [] format = "ssh"      -> SshNewPublicKey(d)
    [] format = "x509"     -> X509NewPublicKey(d)
    [] format = "pkcs7"    -> Pkcs7NewPublicKey(d)
    [] format = "tuf"      -> TufNewPublicKey(d, now)
    [] OTHER               -> {}

KeyCanonicalValue(k) ==
  CASE k.fmt = "pgp"      -> PgpKeyCanonicalValue(k)
    [] k.fmt = "minisign" -> MinisignKeyCanonicalValue(k)
    [] k.fmt = "ssh"      -> SshKeyCanonicalValue(k)
    [] k.fmt = "x509"     -> X509KeyCanonicalValue(k)
    [] k.fmt = "pkcs7"    -> Pkcs7KeyCanonicalValue(k)
    [] k.fmt = "tuf"      -> TufKeyCanonicalValue(k)

Subjects(k) ==
  CASE k.fmt = "pgp"      -> PgpSubjects(k)
    [] k.fmt = "minisign" -> MinisignSubjects(k)
    [] k.fmt = "ssh"      -> SshSubjects(k)
    [] k.fmt = "x509"     -> X509Subjects(k)
    [] k.fmt = "pkcs7"    -> Pkcs7Subjects(k)
    [] k.fmt = "tuf"      -> TufSubjects(k)

Identities(k) ==
  CASE k.fmt = "pgp"      -> PgpIdentities(k)
    [] k.fmt = "minisign" -> MinisignIdentities(k)
    [] k.fmt = "ssh"      -> SshIdentities(k)
    [] k.fmt = "x509"     -> X509Identities(k)
    [] k.fmt = "pkcs7"    -> Pkcs7Identities(k)
    [] k.fmt = "tuf"      -> TufIdentities(k)

NewSignature(format, d) ==
  CASE format = "pgp"      -> PgpNewSignature(d)
    [] format = "minisign" -> MinisignNewSignature(d)
    [] format = "ssh"      -> SshDecode(d)
    [] format = "x509"     -> X509NewSignature(d)
    [] format = "pkcs7"    -> Pkcs7NewSignature(d)
    [] format = "tuf"      -> TufNewSignature(d)
    [] OTHER               -> {}

SigCanonicalValue(s) ==
  CASE s.fmt = "pgp"      -> PgpSigCanonicalValue(s)
    [] s.fmt = "minisign" -> MinisignSigCanonicalValue(s)
    [] s.fmt = "ssh"      -> {SshArmor(s)}
    [] s.fmt = "x509"     -> X509SigCanonicalValue(s)
    [] s.fmt = "pkcs7"    -> Pkcs7SigCanonicalValue(s)
    [] s.fmt = "tuf"      -> TufSigCanonicalValue(s)

Verify(s, msg, k, now) ==
  CASE s.fmt = "pgp"      -> PgpVerify(s, msg, k)
    [] s.fmt = "minisign" -> MinisignVerify(s, msg, k)
    [] s.fmt = "ssh"      -> SshVerify(s, msg, k)
    [] s.fmt = "x509"     -> X509Verify(s, msg, k)
    [] s.fmt = "pkcs7"    -> Pkcs7Verify(s, msg, k)
    [] s.fmt = "tuf"      -> TufVerify(s, k, now)
=============================================================================
