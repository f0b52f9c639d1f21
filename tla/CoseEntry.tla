----------------------------- MODULE CoseEntry -----------------------------
(* The cose type, v0.0.1: a COSE Sign1 message, kept as an attestation.    *)
(* A message document has its signer, payload, external data (aad), the    *)
(* content type of the payload, and whether it is larger than the limit    *)
(* for attestations.                                                       *)
EXTENDS EntryBase

---------------------------------------------------------------------------
(* The proposed entry that carries the schema object as its spec.          *)

UnmarshalJSON(doc) ==
  IF doc.kind = "cose" THEN {[kind |-> "cose", apiVersion |-> doc.apiVersion, spec |-> doc.spec]} ELSE {}

MarshalJSON(apiVersion, spec) == [kind |-> "cose", apiVersion |-> apiVersion, spec |-> spec]

ValidateProposed(pe) == pe.apiVersion \in SemVers /\ pe.spec # Nil

---------------------------------------------------------------------------
(* The schema.                                                             *)

ValidEnvelopeHash(h) == h.algorithm = "sha256" /\ h.value # Nil

ValidPayloadHash(h) == h.algorithm = "sha256" /\ h.value # Nil

ValidData(d) ==
  Optional(d.envelopeHash, ValidEnvelopeHash) /\ Optional(d.payloadHash, ValidPayloadHash)

ValidSchema(v) == Optional(v.data, ValidData) /\ v.publicKey # Nil

---------------------------------------------------------------------------
(* The entry: the schema object, and what Unmarshal derives from it.       *)

DecodeEntry(spec) ==
  LET Data(d) == {[payloadHash |-> d.payloadHash, envelopeHash |-> d.envelopeHash, aad |-> a] :
                    a \in DecodeBytes(d.aad)}
  IN {[message |-> m, publicKey |-> k, data |-> d] :
        m \in DecodeBytes(spec.message), k \in DecodeBytes(spec.publicKey),
        d \in Member(spec.data, Data)}

\* RSA keys and ECDSA keys on P-256.
getPublicKey(k) == k.blocks[1].key.type \in {"rsa", "ecdsa-p256"}

\* Data is not required by the schema, and a message without it ends the
\* request at Data.Aad.  The chain of a certificate is not looked at.
validate(obj, k) ==
  \/ obj.message = Nil
  \/ /\ obj.data # Nil
     /\ getPublicKey(k)
     /\ obj.message.fmt = "cose"
     /\ obj.message.by = k.blocks[1].key
     /\ obj.message.aad = obj.data.aad

\* On retrieval there is no message, and its digest is the one in the log.
envelopeHash(obj) ==
  IF obj.message # Nil THEN {Digest("sha256", obj.message)}
  ELSE IF obj.data = Nil \/ obj.data.envelopeHash = Nil \/ ~IsHex(obj.data.envelopeHash.value)
       THEN {}
       ELSE {ToLower(obj.data.envelopeHash.value)}

Unmarshal(pe) ==
  UNION {{[obj |-> o, keyObj |-> k, sign1Msg |-> o.message, envelopeHash |-> h] :
            k \in {k \in X509NewPublicKey(o.publicKey) : validate(o, k)}, h \in envelopeHash(o)} :
           o \in {o \in DecodeEntry(pe.spec) : ValidSchema(o)}}

Insertable(v) ==
  v.obj.message # Nil /\ v.obj.publicKey # Nil /\ v.obj.data # Nil /\ v.sign1Msg # Nil

\* The entry is left as it was proposed.
Canonicalize(v, now) ==
  IF v.sign1Msg = Nil THEN {}
  ELSE {[leaf |-> MarshalJSON("0.0.1", [message |-> Nil, publicKey |-> k,
                     data |-> [aad |-> Nil,
                       payloadHash |-> [algorithm |-> "sha256",
                                        value |-> Digest("sha256", v.sign1Msg.payload)],
                       envelopeHash |-> [algorithm |-> "sha256", value |-> v.envelopeHash]]]),
         entry |-> v] : k \in X509KeyCanonicalValue(v.keyObj)}

\* sha256 of bytes, of which there may be none.
formatKey(d) == HashKey("sha256", Digest("sha256", IF d = Nil THEN EmptyBytes ELSE d))

getIntotoStatement(d) == IF d.fmt = "statement" THEN {d} ELSE {}

IndexKeys(v, now) ==
  LET payload == IF v.sign1Msg = Nil THEN {} ELSE {formatKey(v.sign1Msg.payload)}
      statement == IF v.sign1Msg = Nil \/ v.sign1Msg.contentType # "intoto" THEN {}
                   ELSE getIntotoStatement(v.sign1Msg.payload)
      digests == UNION {{HashKey(h.alg, h) : h \in s.subjects} : s \in statement}
  IN {ks \cup {formatKey(v.obj.message)} \cup payload \cup digests :
        ks \in UNION {KeyIndexKeys(k) : k \in X509NewPublicKey(v.obj.publicKey)}}

Verifiers(v, now) == X509NewPublicKey(v.obj.publicKey)

ArtifactHash(v) ==
  IF v.obj.data = Nil \/ v.obj.data.payloadHash = Nil THEN {}
  ELSE {HashKey(v.obj.data.payloadHash.algorithm, v.obj.data.payloadHash.value)}

\* Mutant: the key is computed from the message, which a leaf has not.
AttestationKeyOfMessage(v) ==
  {Digest("sha256", IF v.obj.message = Nil THEN EmptyBytes ELSE v.obj.message)}

AttestationKey(v) == {v.envelopeHash}

AttestationKeyValue(v) ==
  IF v.obj.message = Nil \/ v.obj.message.big THEN {}
  ELSE {[key |-> x, value |-> v.obj.message] : x \in AttestationKey(v)}

\* Nothing is verified on the client.
CreateFromArtifactProperties(props, now) ==
  IF props.artifact = Nil \/ Len(props.publicKeys) # 1 THEN {}
  ELSE {[kind |-> "cose", apiVersion |-> "0.0.1",
         spec |-> [message |-> props.artifact, publicKey |-> props.publicKeys[1],
                   data |-> [aad |-> props.aad, payloadHash |-> Nil, envelopeHash |-> Nil]]]}

---------------------------------------------------------------------------
(* The type.                                                               *)

UnmarshalEntry(pe) ==
  IF pe.kind = "cose" /\ pe.apiVersion # Nil /\ SemVerMatches("0.0.1", pe.apiVersion)
  THEN Unmarshal(pe) ELSE {}

CreateProposedEntry(version, props, now) ==
  IF version = AnyVersion \/ SemVerMatches("0.0.1", version)
  THEN CreateFromArtifactProperties(props, now) ELSE {}
=============================================================================
