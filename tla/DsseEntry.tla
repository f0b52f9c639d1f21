----------------------------- MODULE DsseEntry -----------------------------
(* The dsse type, v0.0.1: a DSSE envelope, of which the log keeps digests  *)
(* and signatures.  An envelope document has its payload, the type of the  *)
(* payload and a sequence of signatures; each is in standard base64 or in  *)
(* the URL alphabet, which the DSSE library accepts as well.               *)
EXTENDS EntryBase

---------------------------------------------------------------------------
(* The proposed entry that carries the schema object as its spec.          *)

UnmarshalJSON(doc) ==
  IF doc.kind = "dsse" THEN {[kind |-> "dsse", apiVersion |-> doc.apiVersion, spec |-> doc.spec]} ELSE {}

MarshalJSON(apiVersion, spec) == [kind |-> "dsse", apiVersion |-> apiVersion, spec |-> spec]

ValidateProposed(pe) == pe.apiVersion \in SemVers /\ pe.spec # Nil

---------------------------------------------------------------------------
(* The schema.                                                             *)

ValidEnvelopeHash(h) == h.algorithm = "sha256" /\ h.value # Nil

ValidPayloadHash(h) == h.algorithm = "sha256" /\ h.value # Nil

ValidProposedContent(c) == c.envelope # Nil /\ c.verifiers # <<>>

\* The pattern of a signature is standard base64.
ValidSignatureItem(s) == s.signature # Nil /\ s.signature.enc = "std" /\ s.verifier # Nil

ValidSchema(v) ==
  /\ Optional(v.envelopeHash, ValidEnvelopeHash)
  /\ Optional(v.payloadHash, ValidPayloadHash)
  /\ Optional(v.proposedContent, ValidProposedContent)
  /\ \A i \in DOMAIN v.signatures : ValidSignatureItem(v.signatures[i])

---------------------------------------------------------------------------
(* The entry: the schema object and what Unmarshal extracts.               *)

\* Empty verifiers are skipped.
DecodeEntry(spec) ==
  LET Content(c) ==
        IF NotBase64 \in {c.verifiers[i] : i \in DOMAIN c.verifiers} THEN {}
        ELSE {[c EXCEPT !.verifiers = SelectSeq(@, LAMBDA d : d # EmptyBytes)]}
  IN {[spec EXCEPT !.proposedContent = c] : c \in Member(spec.proposedContent, Content)}

\* The keys of a verifier: that of the first certificate and its alternative.
CryptoKeys(k) == {k.blocks[1].key} \cup k.blocks[1].alt

\* Mutant: the result is in the order in which a Go map is iterated.
verifyEnvelopeByMap(verifiers, env) ==
  LET keys == UNION {X509NewPublicKey(verifiers[n]) : n \in DOMAIN verifiers}
      Signers(s) == {k \in keys : s \in UNION {DsseAccepted(c, env) : c \in CryptoKeys(k)}}
  IN {[i \in DOMAIN t |-> [sig |-> t[i], key |-> CHOOSE k \in Signers(t[i]) : TRUE]] :
        t \in {t \in AnyOrder(env.signatures) : \A i \in DOMAIN t : Signers(t[i]) # {}}}

\* Verifiers are tried in order until every signature is verified; those that are
\* tried must parse.  The verifier of a signature is the last that accepted it.
verifyEnvelope(verifiers, env) ==
  LET sigs == {env.signatures[i] : i \in DOMAIN env.signatures}
      accepted(n) == UNION {UNION {DsseAccepted(c, env) : c \in CryptoKeys(k)} :
                              k \in X509NewPublicKey(verifiers[n])}
      tried == {n \in DOMAIN verifiers : ~(sigs \subseteq UNION {accepted(j) : j \in 1 .. (n - 1)})}
      lasts == {f \in [sigs -> tried] : \A s \in sigs :
                  s \in accepted(f[s]) /\ \A n \in tried : n > f[s] => s \notin accepted(n)}
  IN IF \E n \in tried : X509NewPublicKey(verifiers[n]) = {} THEN {}
     ELSE {[i \in DOMAIN env.signatures |->
              [sig |-> env.signatures[i],
               key |-> CHOOSE k \in X509NewPublicKey(verifiers[last[env.signatures[i]]]) : TRUE]] :
             last \in lasts}

\* Digests of the subjects and materials of an in-toto statement.
ExtractedIndexKeys(env) ==
  IF env.payloadType = "intoto" /\ env.payload.fmt = "statement"
  THEN {HashKey(h.alg, h) : h \in env.payload.subjects \cup env.payload.materials}
  ELSE {}

\* Either the canonical members or proposed content.  The signatures computed
\* for proposed content are not validated against the schema.
Unmarshal(pe) ==
  LET Stored(o) ==
        IF o.envelopeHash = Nil \/ o.payloadHash = Nil \/ o.signatures = <<>> THEN {}
        ELSE {[obj |-> o, env |-> Nil, extracted |-> {}, insertable |-> FALSE]}
      Proposed(o) ==
        LET env == o.proposedContent.envelope
        IN IF \/ o.envelopeHash # Nil \/ o.payloadHash # Nil \/ o.signatures # <<>>
              \/ env.fmt # "dsse" \/ env.signatures = <<>>
           THEN {}
           ELSE {[obj |-> [proposedContent |-> Nil,
                           signatures |-> [i \in DOMAIN vs |->
                             [signature |-> vs[i].sig,
                              verifier |-> CHOOSE d \in X509KeyCanonicalValue(vs[i].key) : TRUE]],
                           payloadHash |-> Sha256(env.payload),
                           envelopeHash |-> Sha256(env)],
                  env |-> env.payloadType,
                  extracted |-> ExtractedIndexKeys(env),
                  insertable |-> TRUE] : vs \in verifyEnvelope(o.proposedContent.verifiers, env)}
  IN UNION {IF o.proposedContent = Nil THEN Stored(o) ELSE Proposed(o) :
              o \in {o \in DecodeEntry(pe.spec) : ValidSchema(o)}}

Insertable(v) == v.insertable

\* The entry is left as it was unmarshalled.
Canonicalize(v, now) ==
  {[leaf |-> MarshalJSON("0.0.1", [proposedContent |-> Nil, signatures |-> v.obj.signatures,
                                payloadHash |-> v.obj.payloadHash, envelopeHash |-> v.obj.envelopeHash]),
    entry |-> v]}

\* The digest of a key's canonical value, as a hash with its algorithm.
VerifierKeys(d) ==
  {{HashKey("sha256", Digest("sha256", c)) : c \in X509KeyCanonicalValue(k)}
     \cup NameKeys(X509Subjects(k)) : k \in X509NewPublicKey(d)}

IndexKeys(v, now) ==
  LET verifiers == {v.obj.signatures[i].verifier : i \in DOMAIN v.obj.signatures}
      hashes == {HashKey(h.algorithm, h.value) : h \in {v.obj.payloadHash, v.obj.envelopeHash}}
  IN IF \E d \in verifiers : VerifierKeys(d) = {} THEN {}
     ELSE {UNION UNION {VerifierKeys(d) : d \in verifiers} \cup hashes
             \cup (IF v.env = "intoto" THEN v.extracted ELSE {})}

Verifiers(v, now) == UNION {X509NewPublicKey(v.obj.signatures[i].verifier) : i \in DOMAIN v.obj.signatures}

ArtifactHash(v) == {HashKey(v.obj.payloadHash.algorithm, v.obj.payloadHash.value)}

CreateFromArtifactProperties(props, now) ==
  IF props.artifact = Nil \/ props.artifact.fmt # "dsse" THEN {}
  ELSE {[kind |-> "dsse", apiVersion |-> "0.0.1",
         spec |-> [proposedContent |->
                     [envelope |-> props.artifact,
                      verifiers |-> [i \in DOMAIN vs |-> CHOOSE d \in X509KeyCanonicalValue(vs[i].key) : TRUE]],
                   signatures |-> <<>>, payloadHash |-> Nil, envelopeHash |-> Nil]] :
          vs \in verifyEnvelope(props.publicKeys, props.artifact)}

---------------------------------------------------------------------------
(* The type.                                                               *)

UnmarshalEntry(pe) ==
  IF pe.kind = "dsse" /\ pe.apiVersion # Nil /\ SemVerMatches("0.0.1", pe.apiVersion)
  THEN Unmarshal(pe) ELSE {}

CreateProposedEntry(version, props, now) ==
  IF version = AnyVersion \/ SemVerMatches("0.0.1", version)
  THEN CreateFromArtifactProperties(props, now) ELSE {}
=============================================================================
