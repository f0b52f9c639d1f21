-------------------------- MODULE IntotoV001Entry --------------------------
(* The intoto type, v0.0.1: a DSSE envelope with one verifier, of which the*)
(* log keeps digests and the server keeps the payload as an attestation.   *)
EXTENDS EntryBase

---------------------------------------------------------------------------
(* The schema.                                                             *)

ValidContentHash(h) == h.algorithm = "sha256" /\ h.value # Nil

ValidContentPayloadHash(h) == h.algorithm = "sha256" /\ h.value # Nil

ValidContent(c) ==
  Optional(c.hash, ValidContentHash) /\ Optional(c.payloadHash, ValidContentPayloadHash)

ValidSchema(v) == Required(v.content, ValidContent) /\ v.publicKey # Nil

---------------------------------------------------------------------------
(* The entry: the schema object, its key and its envelope.                 *)

DecodeEntry(spec) == {[content |-> spec.content, publicKey |-> k] : k \in DecodeBytes(spec.publicKey)}

\* Without an envelope this is an entry of the log, which has the hash of one.
\* With one, some signature must be the key's and the payload be in standard base64;
\* the hashes are computed anew.
validate(obj, k) ==
  LET env == obj.content.envelope
  IN IF env = Nil
     THEN IF Optional(obj.content.payloadHash, ValidContentPayloadHash)
             /\ Required(obj.content.hash, ValidContentHash)
          THEN {[obj |-> obj, keyObj |-> k, env |-> Nil]}
          ELSE {}
     ELSE IF /\ env.fmt = "dsse"
             /\ \E i \in DOMAIN env.signatures :
                  env.signatures[i].by = k.blocks[1].key /\ env.signatures[i].over = env.payload
             /\ env.payload.enc = "std"
          THEN {[obj |-> [content |-> [envelope |-> env, hash |-> Sha256(env),
                                       payloadHash |-> Sha256(env.payload)],
                          publicKey |-> obj.publicKey],
                 keyObj |-> k, env |-> env]}
          ELSE {}

Unmarshal(pe) ==
  UNION {UNION {validate(o, k) : k \in X509NewPublicKey(o.publicKey)} :
           o \in {o \in DecodeEntry(pe.spec) : ValidSchema(o)}}

Insertable(v) ==
  v.obj.content.envelope # Nil /\ v.env # Nil /\ v.env.signatures # <<>>

\* The entry is left as it was unmarshalled.
Canonicalize(v, now) ==
  {[leaf |-> [kind |-> "intoto", apiVersion |-> "0.0.1",
              spec |-> [publicKey |-> k,
                        content |-> [envelope |-> Nil, hash |-> v.obj.content.hash,
                                     payloadHash |-> v.obj.content.payloadHash]]],
    entry |-> v] : k \in X509KeyCanonicalValue(v.keyObj)}

\* The subjects of the statement in the payload.
parseStatement(d) == IF d.fmt = "statement" THEN d.subjects ELSE {}

\* The materials of its predicate, if that is a SLSA provenance.
parseSlsaPredicate(d) == IF d.fmt = "statement" THEN d.materials ELSE {}

IndexKeys(v, now) ==
  LET hashes == {HashKey(h.algorithm, h.value) :
                   h \in {v.obj.content.hash, v.obj.content.payloadHash} \ {Nil}}
      digests == IF v.env = Nil THEN {}
                 ELSE IF v.env.payloadType # "intoto" THEN {}
                 ELSE parseStatement(v.env.payload) \cup parseSlsaPredicate(v.env.payload)
  IN {hashes \cup {HashKey("sha256", Digest("sha256", c))} \cup NameKeys(X509Subjects(v.keyObj))
        \cup {HashKey(h.alg, h) : h \in digests} : c \in X509KeyCanonicalValue(v.keyObj)}

Verifiers(v, now) == X509NewPublicKey(v.obj.publicKey)

ArtifactHash(v) ==
  IF v.obj.content.payloadHash = Nil THEN {}
  ELSE {HashKey(v.obj.content.payloadHash.algorithm, v.obj.content.payloadHash.value)}

\* Entries from before payload hashes have none.
AttestationKey(v) ==
  IF v.obj.content.payloadHash = Nil THEN {} ELSE {v.obj.content.payloadHash.value}

AttestationKeyValue(v) ==
  IF v.env = Nil \/ v.env.payload.big THEN {}
  ELSE {[key |-> k, value |-> v.env.payload] : k \in AttestationKey(v)}

\* Nothing is verified on the client.
CreateFromArtifactProperties(props, now) ==
  IF props.artifact = Nil \/ Len(props.publicKeys) # 1 THEN {}
  ELSE {[kind |-> "intoto", apiVersion |-> "0.0.1",
         spec |-> [publicKey |-> props.publicKeys[1],
                   content |-> [envelope |-> props.artifact, hash |-> Sha256(props.artifact),
                                payloadHash |-> Nil]]]}
=============================================================================
