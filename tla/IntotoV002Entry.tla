-------------------------- MODULE IntotoV002Entry --------------------------
(* The intoto type, v0.0.2: a DSSE envelope with its verifiers inline, each*)
(* beside its signature.  The log keeps the signatures, the verifiers and  *)
(* digests, and the server keeps the payload as an attestation.  Here the  *)
(* payload and the signatures are base64 inside base64, so a payload in the*)
(* URL alphabet (enc = "url"), which the DSSE library accepts, is refused. *)
EXTENDS EntryBase

---------------------------------------------------------------------------
(* The proposed entry that carries the schema object as its spec, in either*)
(* version of the type.                                                    *)

UnmarshalJSON(doc) ==
  IF doc.kind = "intoto" THEN {[kind |-> "intoto", apiVersion |-> doc.apiVersion, spec |-> doc.spec]} ELSE {}

MarshalJSON(apiVersion, spec) == [kind |-> "intoto", apiVersion |-> apiVersion, spec |-> spec]

ValidateProposed(pe) == pe.apiVersion \in SemVers /\ pe.spec # Nil

---------------------------------------------------------------------------
(* The schema.                                                             *)

ValidContentHash(h) == h.algorithm = "sha256" /\ h.value # Nil

ValidContentPayloadHash(h) == h.algorithm = "sha256" /\ h.value # Nil

ValidSignatureItem(s) == s.sig # Nil /\ s.publicKey # Nil

ValidEnvelope(e) ==
  /\ e.payloadType # Nil
  /\ e.signatures # Nil /\ e.signatures # <<>>
  /\ \A i \in DOMAIN e.signatures : ValidSignatureItem(e.signatures[i])

ValidContent(c) ==
  /\ Required(c.envelope, ValidEnvelope)
  /\ Optional(c.hash, ValidContentHash)
  /\ Optional(c.payloadHash, ValidContentPayloadHash)

ValidSchema(v) == Required(v.content, ValidContent)

---------------------------------------------------------------------------
(* The entry: the schema object and the envelope made from it.             *)

\* Signatures and keys may be empty but must be base64.  There always is a
\* content and an envelope.
DecodeEntry(spec) ==
  LET Bad(e) == \/ e.payload = NotBase64
                \/ /\ e.signatures # Nil
                   /\ \E i \in DOMAIN e.signatures :
                        NotBase64 \in {e.signatures[i].sig, e.signatures[i].publicKey}
      NoEnvelope == [payloadType |-> Nil, payload |-> Nil, signatures |-> Nil]
      Envelopes(e) == IF e = Nil THEN {NoEnvelope}
                      ELSE IF Bad(e) THEN {}
                      ELSE {[payloadType |-> e.payloadType, signatures |-> e.signatures,
                             payload |-> IF e.payload = EmptyBytes THEN Nil ELSE e.payload]}
      Content(c) == {[envelope |-> e, hash |-> c.hash, payloadHash |-> c.payloadHash] :
                       e \in Envelopes(c.envelope)}
  IN {[content |-> c] :
        c \in Content(IF spec.content = Nil
                      THEN [envelope |-> Nil, hash |-> Nil, payloadHash |-> Nil]
                      ELSE spec.content)}

\* Every key must parse and accept a signature, every signature be accepted.
\* The result has the key of each signature: the last that accepted it.
verifyEnvelope(allPubKeyBytes, env) ==
  LET accepted(n) == UNION {DsseAccepted(k.blocks[1].key, env) : k \in X509NewPublicKey(allPubKeyBytes[n])}
      sigs == {env.signatures[i] : i \in DOMAIN env.signatures}
      last(s) == CHOOSE n \in DOMAIN allPubKeyBytes :
                   s \in accepted(n) /\ \A j \in DOMAIN allPubKeyBytes : j > n => s \notin accepted(j)
  IN IF /\ \A n \in DOMAIN allPubKeyBytes : accepted(n) # {}
        /\ sigs \subseteq UNION {accepted(n) : n \in DOMAIN allPubKeyBytes}
     THEN {[s \in sigs |-> CHOOSE k \in X509NewPublicKey(allPubKeyBytes[last(s)]) : TRUE]}
     ELSE {}

\* An entry of the log has no payload, and no envelope is made for it.  The
\* digest of the payload is computed anew, that of the envelope is not.
Unmarshal(pe) ==
  LET Envelope(e) == [payload |-> e.payload,
                      signatures |-> [i \in DOMAIN e.signatures |-> e.signatures[i].sig]]
      Checked(o) ==
        LET e == o.content.envelope
        IN IF e.payload = Nil THEN {[obj |-> o, env |-> Nil]}
           ELSE IF \/ verifyEnvelope([i \in DOMAIN e.signatures |-> e.signatures[i].publicKey], Envelope(e)) = {}
                   \/ e.payload.enc # "std"
                THEN {}
                ELSE {[obj |-> [content |-> [envelope |-> e, hash |-> o.content.hash,
                                             payloadHash |-> Sha256(e.payload)]],
                       env |-> Envelope(e)]}
  IN UNION {Checked(o) : o \in {o \in DecodeEntry(pe.spec) : ValidSchema(o)}}

Insertable(v) ==
  LET e == v.obj.content.envelope
  IN /\ e.payload # Nil /\ e.signatures # <<>>
     /\ \A i \in DOMAIN e.signatures : EmptyBytes \notin {e.signatures[i].sig, e.signatures[i].publicKey}
     /\ v.env # Nil

\* The digest of the envelope and the verifiers are those the client sent.  The
\* entry is left as it was unmarshalled.
Canonicalize(v, now) ==
  LET c == v.obj.content
  IN IF ~ValidSchema(v.obj) \/ Nil \in {c.hash, c.payloadHash} \/ c.envelope.signatures = <<>> THEN {}
     ELSE {[leaf |-> MarshalJSON("0.0.2",
              [content |-> [envelope |-> [payload |-> Nil, payloadType |-> c.envelope.payloadType,
                                          signatures |-> c.envelope.signatures],
                            hash |-> c.hash, payloadHash |-> c.payloadHash]]),
            entry |-> v]}

\* The subjects of the statement in the payload, which must be JSON.
parseStatement(d) == IF d.fmt = "statement" THEN {d.subjects} ELSE {}

\* The materials of its predicate, if that is a SLSA provenance.
parseSlsaPredicate(d) == d.materials

IndexKeys(v, now) ==
  LET c == v.obj.content
      keys == {c.envelope.signatures[i].publicKey : i \in DOMAIN c.envelope.signatures}
      Verifier(d) == {{HashKey("sha256", Digest("sha256", b)) : b \in X509KeyCanonicalValue(k)}
                        \cup NameKeys(X509Subjects(k)) : k \in X509NewPublicKey(d)}
      d == c.envelope.payload
      digests == IF c.envelope.payloadType # "intoto" \/ d = Nil THEN {{}}
                 ELSE {{HashKey(h.alg, h) : h \in s \cup parseSlsaPredicate(d)} : s \in parseStatement(d)}
  IN IF \E k \in keys : Verifier(k) = {} THEN {}
     ELSE {UNION UNION {Verifier(k) : k \in keys}
             \cup {HashKey(c.payloadHash.algorithm, c.payloadHash.value)} \cup ds : ds \in digests}

Verifiers(v, now) ==
  LET sigs == v.obj.content.envelope.signatures
  IN UNION {X509NewPublicKey(sigs[i].publicKey) : i \in DOMAIN sigs}

ArtifactHash(v) ==
  IF v.obj.content.payloadHash = Nil THEN {}
  ELSE {HashKey(v.obj.content.payloadHash.algorithm, v.obj.content.payloadHash.value)}

AttestationKey(v) ==
  IF v.obj.content.payloadHash = Nil THEN {} ELSE {v.obj.content.payloadHash.value}

AttestationKeyValue(v) ==
  IF v.env = Nil \/ v.env.payload.big THEN {}
  ELSE {[key |-> k, value |-> v.env.payload] : k \in AttestationKey(v)}

\* The client puts the canonical keys in, each beside the signature it made.
CreateFromArtifactProperties(props, now) ==
  IF props.artifact = Nil \/ props.artifact.fmt # "dsse" THEN {}
  ELSE LET env == props.artifact
       IN {[kind |-> "intoto", apiVersion |-> "0.0.2",
            spec |-> [content |->
              [envelope |->
                 [payload |-> env.payload, payloadType |-> env.payloadType,
                  signatures |-> [i \in DOMAIN env.signatures |->
                    [sig |-> env.signatures[i],
                     publicKey |-> CHOOSE d \in X509KeyCanonicalValue(keysBySig[env.signatures[i]]) : TRUE]]],
               hash |-> Sha256(env), payloadHash |-> Nil]]] :
              keysBySig \in verifyEnvelope(props.publicKeys, env)}
=============================================================================
