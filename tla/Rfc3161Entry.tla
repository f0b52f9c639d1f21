---------------------------- MODULE Rfc3161Entry ----------------------------
(* The rfc3161 type, v0.0.1: a timestamp response.  A response document has*)
(* its status, the content type of the token, whether the token's signature*)
(* verifies with its own certificates, and whether it is larger than 10 kB.*)
EXTENDS EntryBase

(* The proposed entry that carries the schema object as its spec.          *)

UnmarshalJSON(doc) ==
  IF doc.kind = "rfc3161" THEN {[kind |-> "rfc3161", apiVersion |-> doc.apiVersion, spec |-> doc.spec]} ELSE {}

MarshalJSON(apiVersion, spec) == [kind |-> "rfc3161", apiVersion |-> apiVersion, spec |-> spec]

ValidateProposed(pe) == pe.apiVersion \in SemVers /\ pe.spec # Nil

---------------------------------------------------------------------------
(* The schema.                                                             *)

ValidTsr(t) == t.content # Nil

ValidSchema(v) == Required(v.tsr, ValidTsr)

DecodeEntry(spec) ==
  LET Tsr(t) == {[content |-> c] : c \in DecodeBytes(t.content)}
  IN {[tsr |-> t] : t \in Member(spec.tsr, Tsr)}

validate(v) ==
  LET d == v.tsr.content
  IN /\ d.fmt = "tsr" /\ ~d.big
     /\ d.status \in {"granted", "granted with mods"}
     /\ d.contentType = "signed data"
     /\ d.verifies

Unmarshal(pe) ==
  {[obj |-> v, tsrContent |-> v.tsr.content] :
     v \in {v \in DecodeEntry(pe.spec) : ValidSchema(v) /\ validate(v)}}

Insertable(v) == v.obj.tsr # Nil /\ v.obj.tsr.content # Nil /\ v.tsrContent # Nil

\* The response is kept byte for byte.
Canonicalize(v, now) ==
  {[leaf |-> MarshalJSON("0.0.1", [tsr |-> [content |-> v.tsrContent]]),
    entry |-> v]}

IndexKeys(v, now) == {{HashKey("sha256", Digest("sha256", v.obj.tsr.content))}}

\* Not supported for this type.
Verifiers(v, now) == {}

ArtifactHash(v) == {HashKey("sha256", Digest("sha256", v.obj.tsr.content))}

CreateFromArtifactProperties(props, now) ==
  IF props.artifact = Nil THEN {}
  ELSE {[kind |-> "rfc3161", apiVersion |-> "0.0.1", spec |-> [tsr |-> [content |-> props.artifact]]]}

---------------------------------------------------------------------------
(* The type.                                                               *)

UnmarshalEntry(pe) ==
  IF pe.kind = "rfc3161" /\ pe.apiVersion # Nil /\ SemVerMatches("0.0.1", pe.apiVersion)
  THEN Unmarshal(pe) ELSE {}

CreateProposedEntry(version, props, now) ==
  IF version = AnyVersion \/ SemVerMatches("0.0.1", version)
  THEN CreateFromArtifactProperties(props, now) ELSE {}
=============================================================================
